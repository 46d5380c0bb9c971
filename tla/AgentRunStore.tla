---- MODULE AgentRunStore ----
(***************************************************************************)
(* The agent run store as the runtime uses it for ONE run: the durable     *)
(* checkpoint with its compare-and-swap revision, the worker lease, and    *)
(* the tool-call journal.  Every operation of the in-memory store is       *)
(* synchronous, so each one is a single atomic step here; the SQL stores   *)
(* give the same atomicity with a transaction and the file store with its  *)
(* run lock (FileRunLock models how that lock is taken and recovered).     *)
(*                                                                         *)
(* Data is abstracted to what the properties tell apart.  A transcript is  *)
(* the sequence of model turns; a turn is a final answer or one tool call, *)
(* with the provider's id for it, and carries the result recorded for it.  *)
(* A provider may give two calls of a run the same id (packages/ollama     *)
(* makes it of the tool's name and an index): the journal tells them apart *)
(* by the step, the transcript does not.                                   *)
(***************************************************************************)
EXTENDS Naturals, Sequences, FiniteSets

CONSTANTS Workers,      \* invocations of runAgent on the run, one each
          Reconcilers,  \* invocations of reconcileAgentToolExecution
          Ops,          \* (tool name, input) pairs the model may call
          ProviderIds,  \* tool-call ids of the provider
          MaxSteps,     \* the step ceiling of the run
          NoOwner,      \* owner of a lease nobody holds
          Faults        \* what may befall a call besides a conflict

Owners == Workers \cup Reconcilers

ASSUME StoreAssumption == /\ MaxSteps \in Nat \ {0}
                          /\ Workers \cap Reconcilers = {}
                          /\ NoOwner \notin Owners
                          /\ Faults \subseteq {"expire", "interrupt", "tool", "unknown", "claim"}

VARIABLES run,      \* the durable AgentRunState
          lease,    \* the durable AgentRunLease; live = not yet expired
          journal   \* durable tool-call id -> AgentToolCallJournalEntry

storeVars == <<run, lease, journal>>

----------------------------------------------------------------------------
(* Types *)

\* durableToolCallId hashes the run, the step, the provider's id, the tool's
\* name and its input.
CallIds == (1..MaxSteps) \X ProviderIds \X Ops
ProviderId(id) == id[2]
Op(id) == id[3]

\* The durable id of the call in turn i.
CallOf(turns, i) == <<i, turns[i].pid, turns[i].op>>

Final == "final"          \* a turn without a tool call
NoResult == "none"        \* the call has no tool result in the transcript
ErrorResult == "error"    \* a tool result with isError, for a call the journal has
ClaimError == "unclaimed" \* the same (or what tool.onError makes of the error)
                          \* for a call the journal could not be asked about
Evidence == "evidence"    \* the output confirmed by reconciliation

\* The output of a tool is named after the worker that executed it.
Outputs == Workers \cup {Evidence}
Results == Outputs \cup {NoResult, ErrorResult, ClaimError}

ASSUME OutputAssumption ==
  /\ Workers \cap {Evidence, NoResult, ErrorResult, ClaimError} = {}
  /\ Final \notin Ops \cup ProviderIds

FinalTurn == [pid |-> Final, op |-> Final, res |-> NoResult]
Turns == [pid : ProviderIds, op : Ops, res : Results] \cup {FinalTurn}
Transcripts == {turns \in Seq(Turns) : Len(turns) <= MaxSteps}

Statuses == {"absent", "queued", "running", "completed", "failed",
             "cancel_requested", "cancelled"}

\* needs = taskOutcome.status "needs_reconciliation"; recon = the calls whose
\* confirmed records are in state.reconciliations.
Runs == [rev : Nat, status : Statuses, turns : Transcripts, needs : BOOLEAN,
         recon : SUBSET CallIds]

Leases == [owner : Owners \cup {NoOwner}, live : BOOLEAN]

Rows == [status : {"absent", "running", "completed", "failed"}, rev : Nat,
         out : Results, recon : BOOLEAN]

AbsentRun == [rev |-> 0, status |-> "absent", turns |-> <<>>, needs |-> FALSE,
              recon |-> {}]
AbsentRow == [status |-> "absent", rev |-> 0, out |-> NoResult, recon |-> FALSE]
FreeLease == [owner |-> NoOwner, live |-> FALSE]

StoreTypeOK == /\ run \in Runs
               /\ lease \in Leases
               /\ journal \in [CallIds -> Rows]

StoreInit == /\ run = AbsentRun
             /\ lease = FreeLease
             /\ journal = [id \in CallIds |-> AbsentRow]

IsCancelled(r) == r.status \in {"cancel_requested", "cancelled"}

----------------------------------------------------------------------------
(* Checkpoints *)

\* Mutant: a writer ahead of the stored revision only is refused.
RevisionNotAhead(r) == run.rev >= r.rev

\* assertExpectedRevision: an absent run counts as revision 0.
RevisionMatches(r) == run.rev = r.rev

\* save with expectedRevision = r.rev, once RevisionMatches(r) holds.
SaveRun(r) == run' = [r EXCEPT !.rev = r.rev + 1]

----------------------------------------------------------------------------
(* Leases *)

HoldsLease(o) == lease.owner = o /\ lease.live

\* Another owner's unexpired lease refuses the acquisition.
LeaseAvailable(o) == ~(lease.live /\ lease.owner # o)

AcquireLease(o) == lease' = [owner |-> o, live |-> TRUE]

\* releaseLease deletes the lease of its owner, expired or not.
ReleaseLease(o) ==
  lease' = IF lease.owner = o THEN FreeLease ELSE lease

\* Wall-clock time passes the expiry of the lease.
ExpireLease == /\ "expire" \in Faults
               /\ lease.live
               /\ lease' = [lease EXCEPT !.live = FALSE]
               /\ UNCHANGED <<run, journal>>

----------------------------------------------------------------------------
(* The tool-call journal *)

\* Mutant: a running row may be claimed again.
ClaimableRunning(id) == journal[id].status \in {"absent", "running"}

\* claimToolExecution gives the row to the first caller that finds none.
Claimable(id) == journal[id].status = "absent"

\* claimToolExecution when no row exists: a running row at revision 0.
ClaimRow(id) == journal' = [journal EXCEPT ![id].status = "running"]

\* Mutant: the expected revision of the row is not compared.
RowPresent(id, rev) == journal[id].status # "absent"

\* completeToolExecution with expectedRevision: assertJournalRevision.
RowMatches(id, rev) == /\ journal[id].status # "absent"
                       /\ journal[id].rev = rev

CompleteRow(id, rev, status, out, recon) ==
  journal' = [journal EXCEPT ![id] =
                [status |-> status, rev |-> rev + 1, out |-> out, recon |-> recon]]

\* The operations a checkpoint carries confirmed evidence for.
Confirmed(r) == {Op(id) : id \in r.recon}

\* Mutant: a reconciled row is taken for settled.
NeedsRunning(r) == \E id \in CallIds : journal[id].status = "running"

\* refreshAgentTaskOutcome: calls whose effect is indeterminate, or whose
\* reconciliation the checkpoint does not carry yet.
NeedsReconciliation(r) ==
  \E id \in CallIds : \/ journal[id].status = "running"
                      \/ journal[id].recon /\ id \notin r.recon

\* Mutant: the checkpoint is written without looking at the journal.
NotRefreshed(r) == r

Refreshed(r) == [r EXCEPT !.needs = NeedsReconciliation(r)]
====
