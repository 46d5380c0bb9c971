---- MODULE AgentRun ----
(***************************************************************************)
(* A durable agent run: concurrent invocations of runAgent, cancellation   *)
(* requests and tool reconciliations on one run store.                     *)
(***************************************************************************)
EXTENDS AgentWorker, AgentReconciliation

CONSTANT CancelModes   \* AgentRunCancellationOptions.mode

vars == <<storeVars, workerVars, reconVars>>

----------------------------------------------------------------------------
(* cancelAgentRun.  Its load and its compare-and-swap are one step: the swap *)
(* succeeds only if the run is the one that was loaded, and on a conflict    *)
(* the call loads again (32 times, which no execution here exhausts).        *)

CancelAgentState(mode) ==
  /\ run.status # "absent"
  /\ ~(IsCancelled(run) /\ (run.status = "cancelled" \/ mode # "final"))
  /\ SaveRun([run EXCEPT !.status =
                IF mode = "final" THEN "cancelled" ELSE "cancel_requested"])
  /\ UNCHANGED <<lease, journal>>

----------------------------------------------------------------------------

Init == StoreInit /\ WorkerInit /\ ReconInit

Next ==
  \/ \E w \in Workers : WorkerStep(w) /\ UNCHANGED reconVars
  \/ \E r \in Reconcilers : ReconStep(r) /\ UNCHANGED workerVars
  \/ \E mode \in CancelModes :
       CancelAgentState(mode) /\ UNCHANGED <<workerVars, reconVars>>
  \/ ExpireLease /\ UNCHANGED <<workerVars, reconVars>>

Spec == Init /\ [][Next]_vars

----------------------------------------------------------------------------
(* Properties *)

\* Every variable has its type: the store holds only records the code can
\* write, and every call names the turn of a model step within the ceiling.
TypeOK == StoreTypeOK /\ WorkerTypeOK /\ ReconTypeOK

\* A tool call of the transcript is executed at most once, whichever of the
\* invocations that see it get to run it: takeovers, invocations that outlive
\* their lease and reconciliations included (wrapToolWithJournal).
EffectAtMostOnce == \A id \in CallIds : effects[id] <= 1

\* What the journal has decided about a call is final, and a started call is
\* never forgotten: a late completion does not undo a reconciliation, nor the
\* reverse (completeToolExecution's revision check).
JournalDecisionStable ==
  [][\A id \in CallIds :
       /\ journal[id].status \in {"completed", "failed"} => journal'[id] = journal[id]
       /\ journal[id].status # "absent" => journal'[id].status # "absent"]_journal

\* The output recorded for a call is the one its journal row was completed
\* with, or the evidence of a reconciled call of the same operation or under
\* the same provider id (wrapToolWithJournal, reconcileAgentToolExecution).
ResultAgreesWithJournal ==
  \A i \in DOMAIN run.turns :
    LET turn == run.turns[i]
        row == journal[CallOf(run.turns, i)]
    IN /\ turn.res \in Workers => row.status = "completed" /\ row.out = turn.res
       /\ turn.res = Evidence =>
            \E id \in CallIds :
              journal[id].recon /\ (Op(id) = turn.op \/ ProviderId(id) = turn.pid)

\* What the checkpoint does not know of a journaled call: its effect, or the
\* outcome that a half-finished reconciliation has confirmed.
Open(id) == \/ journal[id].status = "running"
            \/ journal[id].recon /\ id \notin run.recon

\* A call of the journal that was answered with an error keeps the run out of
\* reach of every resume until its effect is known and the checkpoint has the
\* evidence: a reconciliation that died between its two writes is still
\* refused (refreshAgentTaskOutcome before each write, the gate of
\* resolveContext).
IndeterminateFlagged ==
  \A i \in DOMAIN run.turns :
    (run.turns[i].res = ErrorResult /\ Open(CallOf(run.turns, i))) => run.needs

\* The results of u are those of t, plus results t did not have yet and
\* evidence that replaces a result.
Continues(t, u) ==
  /\ Len(t) <= Len(u)
  /\ \A i \in DOMAIN t : /\ u[i].pid = t[i].pid
                         /\ u[i].op = t[i].op
                         /\ u[i].res = t[i].res \/ t[i].res = NoResult
                            \/ u[i].res = Evidence

\* No update is lost: every write that does not record a failure continues the
\* transcript it replaces and advances its revision by one, though its writer
\* may have lost the lease long ago (assertExpectedRevision).
NoLostUpdate ==
  [][run.status # "absent" /\ run'.status # "failed"
       => /\ run'.rev = run.rev + 1
          /\ Continues(run.turns, run'.turns)]_run

\* A loop that was stopped right after a tool result completes the run as it is.
StoppedByCaller == /\ run'.status = "completed"
                   /\ run'.turns = run.turns
                   /\ LastTurn(run).op # Final
                   /\ LastTurn(run).res # NoResult

\* A cancelled run is not put back to work, nor completed by an answer of the
\* model: only a failure overwrites it, or the completion of a loop that the
\* caller stopped right after a tool (persistState's rebase, the claim, the
\* reconciliation); and a final cancellation is not downgraded to a request.
CancellationSticks ==
  [][/\ IsCancelled(run) => \/ IsCancelled(run')
                            \/ run'.status = "failed"
                            \/ StoppedByCaller
     /\ run.status = "cancelled" => run'.status # "cancel_requested"]_run

\* Once a cancellation is stored an invocation starts at most one more model
\* or tool call: the one it had already checked for.
AtMostOneLateEffect == \A w \in Workers : late[w] <= 1

\* The call in turn i uses a provider id for the first time.
FirstUse(i) == \A j \in 1..(i - 1) : run.turns[j].pid # run.turns[i].pid

\* A run reported completed with nothing to reconcile has no call whose effect
\* is unknown, but for one that evidence of another call has answered, one the
\* store failed to claim, and one that was passed over on a resume because its
\* provider id had been used before (refreshAgentTaskOutcome, finalizeState).
OutcomeHonest ==
  run.status = "completed" /\ ~run.needs =>
    \A i \in DOMAIN run.turns :
      /\ run.turns[i].op # Final
      /\ run.turns[i].res \notin {Evidence, ClaimError}
      /\ run.turns[i].res = NoResult => FirstUse(i)
      => journal[CallOf(run.turns, i)].status # "running"

\* What became of the calls, as the journal says.
Called == [id \in CallIds |-> [status |-> journal[id].status, out |-> journal[id].out]]

Lifecycle == INSTANCE RunLifecycle
             WITH Calls <- CallIds, Outputs <- Workers,
                  status <- run.status, transcript <- run.turns,
                  calls <- Called, started <- effects

\* The run is written as by one process, whatever invocations, cancellations
\* and reconciliations overlap.
ActsAsOne == Lifecycle!Spec

\* cancellation-intent.ts: failure handling preserves an authoritative
\* cancellation.
FailurePreservesCancellation == [][IsCancelled(run) => IsCancelled(run')]_run
====
