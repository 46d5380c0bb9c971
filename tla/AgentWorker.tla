---- MODULE AgentWorker ----
(***************************************************************************)
(* runAgent: one invocation (worker) driving a durable run.  Each action   *)
(* is what the invocation does between two awaits on the store, the model  *)
(* or a tool, so every interleaving of store calls of several invocations  *)
(* is a behaviour.  A worker is used once; a retry or a resume of the run  *)
(* is another worker.  A crash is a worker that takes no further step:     *)
(* nothing here makes a worker proceed, so every crash is a behaviour.     *)
(*                                                                         *)
(* Invocation clocks are not modelled: any unexpired lease may expire at   *)
(* any time (a stalled event loop, a long pause of the host), which is     *)
(* weaker than any timing the heartbeat could guarantee.  The interval     *)
(* timer that renews the lease and polls for cancellation is the subject   *)
(* of LeaseMonitor; here it appears as what the invocation learns from it. *)
(***************************************************************************)
EXTENDS AgentRunStore

CONSTANT Keyed   \* whether the invocations carry the run's idempotency key

ASSUME WorkerAssumption == Keyed \in BOOLEAN

VARIABLES pc,      \* worker -> where its invocation stands
          after,   \* worker -> what the state being saved belongs to
          st,      \* worker -> its checkpoint in memory
          base,    \* worker -> its last confirmed write (confirmedCheckpoints)
          effects, \* history: call id -> how often its tool was started
          late     \* history: worker -> model or tool calls started under the
                    \* cancellation in force

workerVars == <<pc, after, st, base, effects, late>>
historyVars == <<effects, late>>

Claiming == {"claimSync", "claimSave", "claimResync"}
Persisting == {"refresh", "save", "rebase"}
\* done: returned or threw with its lease released; threw: left runAgent
\* without releasing it.
Ended == {"done", "threw"}
PCs == {"idle", "claimKey", "acquire", "ready", "modelCheck", "model", "assert",
        "toolCheck", "toolClaim", "toolRun", "toolDone", "finish",
        "failSync", "failLoad", "release"}
         \cup Claiming \cup Persisting \cup Ended

\* fresh: the claim of a run nobody stored yet, made before the lease is held;
\* step, tools, recovered, finish: the checkpoints of a driven run (recovered: of
\* the call a resumed run was left with); exhausted, failure: the two ways of
\* storing a failed run.
Checkpoints == {"step", "tools", "recovered", "finish"}
Afters == {"fresh", "exhausted", "failure"} \cup Checkpoints

WorkerTypeOK == /\ pc \in [Workers -> PCs]
                /\ after \in [Workers -> Afters]
                /\ st \in [Workers -> Runs]
                /\ base \in [Workers -> Runs]
                /\ effects \in [CallIds -> Nat]
                /\ late \in [Workers -> Nat]

WorkerInit == /\ pc = [w \in Workers |-> "idle"]
              /\ after = [w \in Workers |-> "step"]
              /\ st = [w \in Workers |-> AbsentRun]
              /\ base = [w \in Workers |-> AbsentRun]
              /\ effects = [id \in CallIds |-> 0]
              /\ late = [w \in Workers |-> 0]

Goto(w, there) == pc' = [pc EXCEPT ![w] = there]
Set(w, r) == st' = [st EXCEPT ![w] = r]
Purpose(w, p) == after' = [after EXCEPT ![w] = p]

\* The invocation is over but for its release; its memory no longer matters.
Leave(w, there) == /\ Goto(w, there)
                   /\ Set(w, AbsentRun)
                   /\ base' = [base EXCEPT ![w] = AbsentRun]
                   /\ Purpose(w, "step")

Proceed(w, there) == Goto(w, there) /\ UNCHANGED <<after, st, base>>

\* Leaves a claim, through the lease if this worker holds one already.
LeaveClaim(w) == Leave(w, IF after[w] = "fresh" THEN "done" ELSE "release")

LastTurn(r) == r.turns[Len(r.turns)]
\* The durable id of the call at the end of a transcript.
LastCall(r) == CallOf(r.turns, Len(r.turns))

\* hasToolCalls of the last response.
EndsWithCall(r) == r.turns # <<>> /\ LastTurn(r).op # Final

\* extractUnresolvedToolCalls: a tool call to whose provider id the transcript
\* has no tool result.  Only the last call can be one.
Unresolved(r) ==
  /\ EndsWithCall(r)
  /\ \A i \in DOMAIN r.turns : r.turns[i].pid = LastTurn(r).pid => r.turns[i].res = NoResult

\* Mutant: one step over the ceiling.
ExhaustedLate(r) == Len(r.turns) > MaxSteps

\* remainingSteps = 0.
Exhausted(r) == Len(r.turns) >= MaxSteps

----------------------------------------------------------------------------
(* resolveContext: load the run, or claim its idempotency key. *)

BaseState == [AbsentRun EXCEPT !.status = "running"]

\* A loaded run that needs reconciliation is refused, an ended or cancelled one
\* is returned as it is, and any other is driven on.
Resumes(r) == /\ r.status # "completed"
              /\ ~r.needs
              /\ ~IsCancelled(r)

TakeLoaded(w) ==
  IF Resumes(run) THEN Set(w, run) /\ Goto(w, "acquire") /\ UNCHANGED <<after, base>>
                  ELSE Leave(w, "done")

ResolveLoaded(w) == /\ pc[w] = "idle"
                    /\ run.status # "absent"
                    /\ TakeLoaded(w)
                    /\ UNCHANGED <<storeVars, historyVars>>

\* Nothing stored: with an idempotency key the key is claimed first, otherwise
\* the fresh state is claimed (saved) before the lease is asked for.
ResolveFresh(w) == /\ pc[w] = "idle"
                   /\ run.status = "absent"
                   /\ Set(w, BaseState)
                   /\ \/ Keyed /\ Goto(w, "claimKey") /\ UNCHANGED after
                      \/ ~Keyed /\ Goto(w, "claimSync") /\ Purpose(w, "fresh")
                   /\ UNCHANGED <<storeVars, base, historyVars>>

ClaimIdempotencyKey(w) ==
  /\ pc[w] = "claimKey"
  /\ IF run.status = "absent"
     THEN run' = st[w] /\ Proceed(w, "acquire")
     ELSE TakeLoaded(w) /\ UNCHANGED run
  /\ UNCHANGED <<lease, journal, historyVars>>

----------------------------------------------------------------------------
(* acquireAgentExecutionLease *)

AcquireExecutionLease(w) ==
  /\ pc[w] = "acquire"
  /\ IF LeaseAvailable(w)
     THEN /\ AcquireLease(w)
          /\ Goto(w, IF after[w] = "fresh" THEN "ready" ELSE "claimSync")
          /\ Purpose(w, "step")
          /\ UNCHANGED <<st, base>>
     ELSE Leave(w, "done") /\ UNCHANGED lease
  /\ UNCHANGED <<run, journal, historyVars>>

----------------------------------------------------------------------------
(* claimAgentExecution: cancellation check, compare-and-swap to running,     *)
(* cancellation check.                                                       *)

ClaimSync(w) == /\ pc[w] = "claimSync"
                /\ IF IsCancelled(run) THEN LeaveClaim(w) ELSE Proceed(w, "claimSave")
                /\ UNCHANGED <<storeVars, historyVars>>

\* A revision conflict ends the claim, by a cancellation or by the error.
ClaimSave(w) ==
  LET r == [st[w] EXCEPT !.status = "running"]
  IN /\ pc[w] = "claimSave"
     /\ IF RevisionMatches(r)
        THEN /\ SaveRun(r)
             /\ Set(w, run')
             /\ base' = [base EXCEPT ![w] = run']
             /\ Goto(w, "claimResync")
             /\ UNCHANGED after
        ELSE LeaveClaim(w) /\ UNCHANGED run
     /\ UNCHANGED <<lease, journal, historyVars>>

ClaimResync(w) ==
  /\ pc[w] = "claimResync"
  /\ IF IsCancelled(run) THEN LeaveClaim(w)
     ELSE Proceed(w, IF after[w] = "fresh" THEN "acquire" ELSE "ready")
  /\ UNCHANGED <<storeVars, historyVars>>

\* A resumed run may have no step left: it is failed at once, outside the try
\* block that releases the lease.
Ready(w) ==
  /\ pc[w] = "ready"
  /\ IF Exhausted(st[w])
     THEN /\ Set(w, [st[w] EXCEPT !.status = "failed"])
          /\ Purpose(w, "exhausted")
          /\ Goto(w, "refresh")
          /\ UNCHANGED base
     ELSE IF Unresolved(st[w])
     THEN Goto(w, "toolCheck") /\ Purpose(w, "recovered") /\ UNCHANGED <<st, base>>
     ELSE Proceed(w, "modelCheck")
  /\ UNCHANGED <<storeVars, historyVars>>

----------------------------------------------------------------------------
(* The step loop of generateText with the hooks of createGenerateOptions *)

CountLate(w) ==
  late' = IF IsCancelled(run) THEN [late EXCEPT ![w] = @ + 1] ELSE late

\* Mutant: the hook does not look for a cancellation.
BeforeModelStepUnchecked(w) == /\ pc[w] = "modelCheck"
                               /\ Proceed(w, "model")
                               /\ UNCHANGED <<storeVars, historyVars>>

\* onBeforeModelStep: assertAgentNotCancelled.
BeforeModelStep(w) ==
  /\ pc[w] = "modelCheck"
  /\ IF IsCancelled(run) THEN Leave(w, "release") ELSE Proceed(w, "model")
  /\ UNCHANGED <<storeVars, historyVars>>

\* The model is called and answers with a tool call or a final answer; the
\* checkpoint of the step is built (onModelStep up to persistState).
ModelStep(w) ==
  /\ pc[w] = "model"
  /\ \E turn \in [pid : ProviderIds, op : Ops, res : {NoResult}] \cup {FinalTurn} :
       Set(w, [st[w] EXCEPT !.turns = Append(@, turn),
                            !.status = IF turn = FinalTurn THEN "completed" ELSE "running"])
  /\ Purpose(w, "step")
  /\ Goto(w, "refresh")
  /\ CountLate(w)
  /\ UNCHANGED <<storeVars, base, effects>>

\* onBeforeToolExecution: assertAgentNotCancelled.
BeforeToolExecution(w) ==
  /\ pc[w] = "toolCheck"
  /\ IF IsCancelled(run) THEN Leave(w, "release") ELSE Proceed(w, "toolClaim")
  /\ UNCHANGED <<storeVars, historyVars>>

\* onToolExecutionComplete up to persistState: the call gets its result.
RecordResult(w, res) ==
  /\ Set(w, [st[w] EXCEPT !.turns[Len(st[w].turns)].res = res,
                          !.status = "running"])
  /\ Purpose(w, IF after[w] = "recovered" THEN "recovered" ELSE "tools")
  /\ Goto(w, "refresh")
  /\ UNCHANGED base

----------------------------------------------------------------------------
(* wrapToolWithJournal *)

\* What the journal already knows: a completed execution gives its output, a
\* failed one its error, a running one is indeterminate and is not repeated.
JournalResult(id) ==
  IF journal[id].status = "completed" THEN journal[id].out ELSE ErrorResult

\* Evidence of another call of the same operation answers the call as well.
ClaimToolExecution(w) ==
  LET id == LastCall(st[w])
  IN /\ pc[w] = "toolClaim"
     /\ IF Op(id) \in Confirmed(st[w])
        THEN RecordResult(w, Evidence) /\ UNCHANGED journal
        ELSE IF Claimable(id)
             THEN ClaimRow(id) /\ Proceed(w, "toolRun")
             ELSE RecordResult(w, JournalResult(id)) /\ UNCHANGED journal
     /\ UNCHANGED <<run, lease, historyVars>>

\* The store fails the claim: executeSingleTool answers the call with the error,
\* whether or not there is a row, and the run goes on.
ClaimFails(w) ==
  LET id == LastCall(st[w])
  IN /\ "claim" \in Faults
     /\ pc[w] = "toolClaim"
     /\ Op(id) \notin Confirmed(st[w])
     /\ RecordResult(w, IF Claimable(id) THEN ClaimError ELSE ErrorResult)
     /\ UNCHANGED <<storeVars, historyVars>>

ExecuteTool(w) ==
  LET id == LastCall(st[w])
  IN /\ pc[w] = "toolRun"
     /\ effects' = [effects EXCEPT ![id] = @ + 1]
     /\ Proceed(w, "toolDone")
     /\ CountLate(w)
     /\ UNCHANGED storeVars

\* The tool has returned or thrown, which its row says from then on.
ToolOutcomes == {"completed"} \cup (IF "tool" \in Faults THEN {"failed"} ELSE {})

\* Mutant: on a conflict the result of the execution is kept.
CompleteToolExecutionAnyway(w) ==
  LET id == LastCall(st[w])
  IN /\ pc[w] = "toolDone"
     /\ RecordResult(w, w)
     /\ IF RowMatches(id, 0) THEN CompleteRow(id, 0, "completed", w, FALSE)
        ELSE UNCHANGED journal
     /\ UNCHANGED <<run, lease, historyVars>>

\* The claimed row was written at revision 0; a conflict (the row has been
\* reconciled) or a store error turns the result into an error and leaves the
\* row alone.
CompleteToolExecution(w) ==
  LET id == LastCall(st[w])
  IN /\ pc[w] = "toolDone"
     /\ \/ \E outcome \in ToolOutcomes :
             LET out == IF outcome = "completed" THEN w ELSE ErrorResult
             IN /\ RowMatches(id, 0)
                /\ CompleteRow(id, 0, outcome, out, FALSE)
                /\ RecordResult(w, out)
        \/ /\ ~RowMatches(id, 0) \/ "interrupt" \in Faults
           /\ RecordResult(w, ErrorResult)
           /\ UNCHANGED journal
     /\ UNCHANGED <<run, lease, historyVars>>

\* A computer-effect tool that was interrupted: its outcome is unknown, the row
\* stays running and the invocation fails.
UnknownToolExecution(w) == /\ "unknown" \in Faults
                           /\ pc[w] = "toolDone"
                           /\ Proceed(w, "failSync")
                           /\ UNCHANGED <<storeVars, historyVars>>

----------------------------------------------------------------------------
(* persistState *)

\* refreshAgentTaskOutcome lists the journal before the checkpoint is written.
PersistRefresh(w) == /\ pc[w] = "refresh"
                     /\ Set(w, Refreshed(st[w]))
                     /\ Goto(w, "save")
                     /\ UNCHANGED <<storeVars, after, base, historyVars>>

\* Where the invocation may go once a checkpoint is stored: after the results of
\* a step the caller's stopWhen decides whether the loop goes on.
AfterSave(w) == CASE after[w] = "recovered" -> {"modelCheck"}
                  [] after[w] = "tools" ->
                       IF Exhausted(st[w]) THEN {"finish"} ELSE {"finish", "modelCheck"}
                  [] OTHER -> {"assert"}

\* An error of persistState: the checkpoints of a driven run fail the run, a
\* failure write swallows it, that of an exhausted run throws it out of
\* runAgent, past the release of the lease.
PersistError(w) == CASE after[w] \in Checkpoints -> Proceed(w, "failSync")
                     [] after[w] = "exhausted" -> Leave(w, "threw")
                     [] OTHER -> Leave(w, "release")

\* Only the checkpoints of a driven run have a confirmed baseline, so that a
\* conflict may be rebased.
PersistSave(w) ==
  /\ pc[w] = "save"
  /\ IF RevisionMatches(st[w])
     THEN /\ SaveRun(st[w])
          /\ IF after[w] \in Checkpoints
             THEN /\ Set(w, run')
                  /\ base' = [base EXCEPT ![w] = run']
                  /\ \E there \in AfterSave(w) : Goto(w, there)
                  /\ UNCHANGED after
             ELSE Leave(w, "release")
     ELSE /\ IF after[w] \in Checkpoints THEN Proceed(w, "rebase") ELSE PersistError(w)
          /\ UNCHANGED run
  /\ late' = IF after[w] \in {"failure", "finish"} /\ RevisionMatches(st[w])
             THEN [v \in Workers |-> 0] ELSE late
  /\ UNCHANGED <<lease, journal, effects>>

\* A single revision and an otherwise identical payload prove that only a
\* cancellation came between.
CancellationOnly(b, r) == /\ IsCancelled(r)
                          /\ r.rev = b.rev + 1
                          /\ r.turns = b.turns
                          /\ r.needs = b.needs
                          /\ r.recon = b.recon

\* Mutant: the rebase takes the revision of the cancellation, not its status.
PersistRebaseRevision(w) ==
  /\ pc[w] = "rebase"
  /\ IF CancellationOnly(base[w], run)
     THEN /\ base' = [base EXCEPT ![w] = run]
          /\ Set(w, [st[w] EXCEPT !.rev = run.rev])
          /\ Goto(w, "refresh")
          /\ UNCHANGED after
     ELSE Proceed(w, "failSync")
  /\ UNCHANGED <<storeVars, historyVars>>

\* The checkpoint is moved over the cancellation and takes its status.
PersistRebase(w) ==
  /\ pc[w] = "rebase"
  /\ IF CancellationOnly(base[w], run)
     THEN /\ base' = [base EXCEPT ![w] = run]
          /\ Set(w, [st[w] EXCEPT !.status = run.status, !.rev = run.rev])
          /\ Goto(w, "refresh")
          /\ UNCHANGED after
     ELSE Proceed(w, "failSync")
  /\ UNCHANGED <<storeVars, historyVars>>

\* assertAgentNotCancelled after a response checkpoint and after the last one.
AssertNotCancelled(w) ==
  /\ pc[w] = "assert"
  /\ IF IsCancelled(run) \/ after[w] = "finish" THEN Leave(w, "release")
     ELSE Proceed(w, IF EndsWithCall(st[w]) THEN "toolCheck" ELSE "finish")
  /\ UNCHANGED <<storeVars, historyVars>>

\* The loop returned: finalizeState, which also completes a run that was stopped
\* right after a tool result.
Finish(w) == /\ pc[w] = "finish"
             /\ Set(w, [st[w] EXCEPT !.status =
                          IF Exhausted(st[w]) /\ EndsWithCall(st[w])
                          THEN "failed" ELSE "completed"])
             /\ Purpose(w, "finish")
             /\ Goto(w, "refresh")
             /\ UNCHANGED <<storeVars, base, historyVars>>

----------------------------------------------------------------------------
(* Failures *)

\* What the lease monitor told the invocation ends it without another write: a
\* cancellation it polled, or a refused or failed renewal (leaseLost).
MonitorStops(w) == /\ pc[w] \in {"finish", "failSync"}
                   /\ IsCancelled(run) \/ Faults \cap {"expire", "interrupt"} # {}
                   /\ Leave(w, "release")
                   /\ UNCHANGED <<storeVars, historyVars>>

\* A model error, an abort, a guardrail or hook that throws, a store error.
Interrupt(w) ==
  /\ "interrupt" \in Faults
  /\ \/ /\ pc[w] \in {"modelCheck", "model", "toolCheck", "toolClaim", "finish", "assert"}
        /\ Proceed(w, "failSync")
     \/ pc[w] \in Persisting /\ PersistError(w)
     \/ pc[w] \in Claiming /\ LeaveClaim(w)
  /\ UNCHANGED <<storeVars, historyVars>>

\* cancellationAfterFailure.
FailSync(w) ==
  /\ pc[w] = "failSync"
  /\ IF IsCancelled(run) THEN Leave(w, "release") ELSE Proceed(w, "failLoad")
  /\ UNCHANGED <<storeVars, historyVars>>

\* A checkpoint without reconciliations keeps those it is laid over.
OverlaidOn(r, durable) ==
  [r EXCEPT !.recon = IF @ = {} THEN durable.recon ELSE @]

\* Mutant: the lengths of the two transcripts are not compared.
FailLoadShorter(w) ==
  LET ahead == ~IsCancelled(run)
      failed(r) == [r EXCEPT !.rev = run.rev, !.status = "failed"]
  IN /\ pc[w] = "failLoad"
     /\ \/ ahead /\ Set(w, failed(OverlaidOn(st[w], run)))
        \/ ~(ahead /\ run = base[w]) /\ Set(w, failed(run))
     /\ Purpose(w, "failure")
     /\ Goto(w, "refresh")
     /\ UNCHANGED <<storeVars, base, historyVars>>

\* loadFailureState: the in-memory checkpoint is laid over the durable one when
\* that is not cancelled, not ahead in steps and not newer by its timestamp.
\* Timestamps of two hosts compare either way; against its own last write the
\* checkpoint is never older.
FailLoad(w) ==
  LET ahead == /\ ~IsCancelled(run)
               /\ Len(st[w].turns) >= Len(run.turns)
      failed(r) == [r EXCEPT !.rev = run.rev, !.status = "failed"]
  IN /\ pc[w] = "failLoad"
     /\ \/ ahead /\ Set(w, failed(OverlaidOn(st[w], run)))
        \/ ~(ahead /\ run = base[w]) /\ Set(w, failed(run))
     /\ Purpose(w, "failure")
     /\ Goto(w, "refresh")
     /\ UNCHANGED <<storeVars, base, historyVars>>

\* executionLease.release in the finally block.
Release(w) == /\ pc[w] = "release"
              /\ ReleaseLease(w)
              /\ Proceed(w, "done")
              /\ UNCHANGED <<run, journal, historyVars>>

----------------------------------------------------------------------------

WorkerStep(w) ==
  \/ ResolveLoaded(w) \/ ResolveFresh(w) \/ ClaimIdempotencyKey(w)
  \/ AcquireExecutionLease(w)
  \/ ClaimSync(w) \/ ClaimSave(w) \/ ClaimResync(w) \/ Ready(w)
  \/ BeforeModelStep(w) \/ ModelStep(w)
  \/ BeforeToolExecution(w) \/ ClaimToolExecution(w) \/ ClaimFails(w)
  \/ ExecuteTool(w) \/ CompleteToolExecution(w) \/ UnknownToolExecution(w)
  \/ PersistRefresh(w) \/ PersistSave(w) \/ PersistRebase(w)
  \/ AssertNotCancelled(w) \/ Finish(w)
  \/ MonitorStops(w) \/ Interrupt(w) \/ FailSync(w) \/ FailLoad(w)
  \/ Release(w)
====
