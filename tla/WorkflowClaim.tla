---- MODULE WorkflowClaim ----
(***************************************************************************)
(* The execution claim of a persisted workflow: concurrent invocations of  *)
(* runWorkflow on one workflow of one session, over a workflow state       *)
(* service and a session service that are atomic per call (the in-memory   *)
(* ones).  Each action is what an invocation does between two awaits; the  *)
(* heartbeat that renews the claim runs beside it.                         *)
(*                                                                         *)
(* Of the persisted state only what decides the control is kept: the index *)
(* of the next step and whether that step waits for approval.  A state     *)
(* handed in by the caller is one that was loaded earlier, which is here   *)
(* an invocation that resolves its state and goes on much later.  An       *)
(* invocation that takes no further step has crashed.                      *)
(***************************************************************************)
EXTENDS Naturals

CONSTANTS Workers,   \* invocations of runWorkflow, each with its own owner id
          NoOwner,
          Steps,     \* the number of steps of the workflow
          Outcomes,  \* what a step may end with
          Faults,    \* "expire", "store" (calls fail), "session" (others use it)
          MaxRev     \* bound: revisions from which nothing but the runs writes

ASSUME ClaimAssumption == /\ NoOwner \notin Workers
                          /\ Steps \in Nat \ {0}
                          /\ Outcomes \subseteq {"completed", "waiting", "failed"}
                          /\ Faults \subseteq {"expire", "store", "session"}
                          /\ MaxRev \in Nat

VARIABLES record,  \* the WorkflowStateRecord; revision 0 = absent
          session, \* the revision of the session; 0 = absent
          pc,      \* worker -> where its invocation stands
          purpose, \* worker -> what the state being persisted is
          st,      \* worker -> its state in memory
          cursor,  \* worker -> the expected revision of the record
          fence,   \* worker -> the expected revision of the session; 0 = none
          hb,      \* worker -> where its renewal stands
          seen,    \* worker -> the record its renewal has loaded
          lost     \* worker -> heartbeat.lost()

invVars == <<pc, purpose, st, cursor, fence>>
hbVars == <<hb, seen, lost>>
vars == <<record, session, invVars, hbVars>>

States == [next : 0..Steps, waiting : BOOLEAN]
\* The claim is the owner and whether its expiry is still ahead.
Records == [rev : Nat, owner : Workers \cup {NoOwner}, live : BOOLEAN, state : States]

BaseState == [next |-> 0, waiting |-> FALSE]
AbsentRecord == [rev |-> 0, owner |-> NoOwner, live |-> FALSE, state |-> BaseState]

\* claim: claimWorkflowExecution; terminal: finalizeWorkflowOutput of a claimed
\* execution; unclaimed: finalizeWorkflowOutput without one.
Purposes == {"claim", "terminal", "unclaimed"}
Persisting == {"load", "create", "record", "reference"}
Claiming == {"check", "revision", "fence"}
\* The heartbeat runs; stopping: it is waited for.
Beating == {"step", "running", "finished"}
Working == Beating \cup {"stopping"}
PCs == {"idle", "done"} \cup Claiming \cup Persisting \cup Working

TypeOK == /\ record \in Records
          /\ session \in Nat
          /\ pc \in [Workers -> PCs]
          /\ purpose \in [Workers -> Purposes]
          /\ st \in [Workers -> States]
          /\ cursor \in [Workers -> Nat]
          /\ fence \in [Workers -> Nat]
          /\ hb \in [Workers -> {"none", "load", "save"}]
          /\ seen \in [Workers -> Records]
          /\ lost \in [Workers -> BOOLEAN]

Init == /\ record = AbsentRecord
        /\ session = 0
        /\ pc = [w \in Workers |-> "idle"]
        /\ purpose = [w \in Workers |-> "claim"]
        /\ st = [w \in Workers |-> BaseState]
        /\ cursor = [w \in Workers |-> 0]
        /\ fence = [w \in Workers |-> 0]
        /\ hb = [w \in Workers |-> "none"]
        /\ seen = [w \in Workers |-> AbsentRecord]
        /\ lost = [w \in Workers |-> FALSE]

----------------------------------------------------------------------------

Goto(w, there) == pc' = [pc EXCEPT ![w] = there]
Persist(w, what) == /\ Goto(w, "load")
                    /\ purpose' = [purpose EXCEPT ![w] = what]
Proceed(w, there) == Goto(w, there) /\ UNCHANGED <<purpose, st, cursor, fence>>

\* The invocation is over; its memory no longer matters.
Leave(w) == /\ Goto(w, "done")
            /\ purpose' = [purpose EXCEPT ![w] = "claim"]
            /\ st' = [st EXCEPT ![w] = BaseState]
            /\ cursor' = [cursor EXCEPT ![w] = 0]
            /\ fence' = [fence EXCEPT ![w] = 0]

\* Mutant: a workflow without a step left is claimed too.
NothingToApprove(s, approvals) == s.waiting /\ ~approvals

\* The loop of runWorkflow has no step to run.
NothingToRun(s, approvals) == IF s.waiting THEN ~approvals ELSE s.next = Steps

\* resolveInitialState, with or without resumeFromPersistedState, and the start
\* of runWorkflow: a workflow that waits for approvals it is not given, or has
\* no step left, is finalized as it is; any other is claimed.
Resolve(w) ==
  /\ pc[w] = "idle"
  /\ \E resume, approvals \in BOOLEAN :
       LET s == IF resume /\ record.rev # 0 THEN record.state ELSE BaseState
       IN /\ st' = [st EXCEPT ![w] = s]
          /\ IF NothingToRun(s, approvals) THEN Persist(w, "unclaimed")
             ELSE Goto(w, "check") /\ UNCHANGED purpose
  /\ UNCHANGED <<record, session, cursor, fence, hbVars>>

----------------------------------------------------------------------------
(* claimWorkflowExecution: three loads, then the state is persisted. *)

CheckClaim(w) == /\ pc[w] = "check"
                 /\ IF record.live THEN Leave(w) ELSE Proceed(w, "revision")
                 /\ UNCHANGED <<record, session, hbVars>>

ReadRevision(w) == /\ pc[w] = "revision"
                   /\ cursor' = [cursor EXCEPT ![w] = record.rev]
                   /\ Goto(w, "fence")
                   /\ UNCHANGED <<record, session, purpose, st, fence, hbVars>>

ReadFence(w) == /\ pc[w] = "fence"
                /\ fence' = [fence EXCEPT ![w] = session]
                /\ Persist(w, "claim")
                /\ UNCHANGED <<record, session, st, cursor, hbVars>>

----------------------------------------------------------------------------
(* persistWorkflowState *)

PersistLoad(w) == /\ pc[w] = "load"
                  /\ Proceed(w, IF session = 0 THEN "create" ELSE "record")
                  /\ UNCHANGED <<record, session, hbVars>>

\* createSession puts an empty session in place of whatever came between.
PersistCreate(w) == /\ pc[w] = "create"
                    /\ session' = 1
                    /\ Proceed(w, "record")
                    /\ UNCHANGED <<record, hbVars>>

\* Mutant: the terminal state is saved without its cursor.
FencedClaimOnly(w) == purpose[w] = "claim" => record.rev = cursor[w]

\* saveWorkflowState, fenced by the cursor if there is one.
Unfenced(w) == purpose[w] = "unclaimed"
RecordMatches(w) == Unfenced(w) \/ record.rev = cursor[w]

PersistRecord(w) ==
  /\ pc[w] = "record"
  /\ IF RecordMatches(w)
     THEN LET claims == purpose[w] = "claim"
          IN /\ record' = [rev |-> record.rev + 1,
                           owner |-> IF claims THEN w ELSE NoOwner,
                           live |-> claims,
                           state |-> st[w]]
             /\ cursor' = [cursor EXCEPT ![w] = record.rev + 1]
             /\ Goto(w, "reference")
             /\ UNCHANGED <<purpose, st, fence>>
     ELSE Leave(w) /\ UNCHANGED record
  /\ UNCHANGED <<session, hbVars>>

\* saveSession with the reference to the state.  Only the claim is fenced by the
\* session's revision; a conflict ends the invocation and leaves its claim.
PersistReference(w) ==
  /\ pc[w] = "reference"
  /\ IF purpose[w] = "claim" /\ fence[w] # 0 /\ session # fence[w]
     THEN Leave(w) /\ UNCHANGED session
     ELSE /\ session' = session + 1
          /\ IF purpose[w] = "claim" THEN Proceed(w, "step") ELSE Leave(w)
  /\ UNCHANGED <<record, hbVars>>

----------------------------------------------------------------------------
(* The steps *)

\* The step is entered in memory and its runner records the run in the session,
\* also when the claim is already known to be lost.
BeginStep(w) == /\ pc[w] = "step"
                /\ session' = session + 1
                /\ st' = [st EXCEPT ![w].waiting = FALSE]
                /\ Goto(w, "running")
                /\ UNCHANGED <<record, purpose, cursor, fence, hbVars>>

StepCompleted(w) == /\ st' = [st EXCEPT ![w].next = @ + 1]
                    /\ Goto(w, IF st[w].next + 1 < Steps THEN "step" ELSE "finished")

StepEnded(w, outcome) == /\ st' = [st EXCEPT ![w].waiting = outcome = "waiting"]
                         /\ Goto(w, "finished")

FinishStep(w) ==
  /\ pc[w] = "running"
  /\ ~lost[w]
  /\ \E outcome \in Outcomes : IF outcome = "completed" THEN StepCompleted(w)
                               ELSE StepEnded(w, outcome)
  /\ session' = session + 1
  /\ UNCHANGED <<record, purpose, cursor, fence, hbVars>>

\* raceClaimLoss: the invocation gives up and persists nothing.
GiveUp(w) == /\ pc[w] = "running"
             /\ lost[w]
             /\ Leave(w)
             /\ UNCHANGED <<record, session, hbVars>>

\* stop(): no further renewal is started or saved.
RequestStop(w) == /\ pc[w] = "finished"
                  /\ Proceed(w, "stopping")
                  /\ UNCHANGED <<record, session, hbVars>>

\* Mutant: whether the claim was lost is not asked again.
StopUnchecked(w) == /\ pc[w] = "stopping"
                    /\ hb[w] = "none"
                    /\ Persist(w, "terminal")
                    /\ UNCHANGED <<record, session, st, cursor, fence, hbVars>>

\* finalizeInvocation: it waits for the renewal in flight, and a lost claim
\* is not finalized.
Stop(w) == /\ pc[w] = "stopping"
           /\ hb[w] = "none"
           /\ IF lost[w] THEN Leave(w)
              ELSE Persist(w, "terminal") /\ UNCHANGED <<st, cursor, fence>>
           /\ UNCHANGED <<record, session, hbVars>>

----------------------------------------------------------------------------
(* startWorkflowClaimHeartbeat, renewWorkflowExecutionClaim *)

Stopped(w) == pc[w] \notin Beating
Renew(w, there) == hb' = [hb EXCEPT ![w] = there]
Lose(w) == lost' = [lost EXCEPT ![w] = TRUE]

\* MaxRev bounds the renewals, which have no bound of their own.
Tick(w) == /\ ~Stopped(w)
           /\ hb[w] = "none"
           /\ ~lost[w]
           /\ record.rev < MaxRev
           /\ Renew(w, "load")
           /\ UNCHANGED <<record, session, invVars, seen, lost>>

RenewLoad(w) ==
  /\ hb[w] = "load"
  /\ IF Stopped(w) THEN Renew(w, "none") /\ UNCHANGED <<seen, lost>>
     ELSE IF record.owner # w THEN Renew(w, "none") /\ Lose(w) /\ UNCHANGED seen
     ELSE Renew(w, "save") /\ seen' = [seen EXCEPT ![w] = record] /\ UNCHANGED lost
  /\ UNCHANGED <<record, session, invVars>>

\* Mutant: the record is saved without the revision it was loaded at.
RenewSaveUnfenced(w) ==
  /\ hb[w] = "save"
  /\ record' = [seen[w] EXCEPT !.rev = record.rev + 1, !.live = TRUE]
  /\ cursor' = [cursor EXCEPT ![w] = record.rev + 1]
  /\ Renew(w, "none")
  /\ UNCHANGED <<session, pc, purpose, st, fence, seen, lost>>

\* The loaded record is saved with a new expiry; on a conflict it is loaded
\* again (8 times, which a claim that is still its own does not exhaust).
RenewSave(w) ==
  /\ hb[w] = "save"
  /\ IF record.rev = seen[w].rev
     THEN /\ record' = [seen[w] EXCEPT !.rev = @ + 1, !.live = TRUE]
          /\ cursor' = [cursor EXCEPT ![w] = record.rev + 1]
          /\ Renew(w, "none")
     ELSE Renew(w, "load") /\ UNCHANGED <<record, cursor>>
  /\ UNCHANGED <<session, pc, purpose, st, fence, seen, lost>>

\* stopped() after the load.
RenewStopped(w) == /\ hb[w] = "save"
                   /\ Stopped(w)
                   /\ Renew(w, "none")
                   /\ UNCHANGED <<record, session, invVars, seen, lost>>

----------------------------------------------------------------------------
(* The world *)

\* A call of the store fails: the renewal loses the claim, unless it is stopped;
\* the invocation ends with what it has stored.
RenewFails(w) == /\ "store" \in Faults
                 /\ hb[w] # "none"
                 /\ Renew(w, "none")
                 /\ IF Stopped(w) THEN UNCHANGED lost ELSE Lose(w)
                 /\ UNCHANGED <<record, session, invVars, seen>>

StoreFails(w) == /\ "store" \in Faults
                 /\ pc[w] \in Claiming \cup Persisting
                 /\ Leave(w)
                 /\ UNCHANGED <<record, session, hbVars>>

Expire == /\ "expire" \in Faults
          /\ record.live
          /\ record' = [record EXCEPT !.live = FALSE]
          /\ UNCHANGED <<session, invVars, hbVars>>

\* Another run in the same session, within the bound.
UseSession == /\ "session" \in Faults
              /\ session < MaxRev
              /\ session' = session + 1
              /\ UNCHANGED <<record, invVars, hbVars>>

----------------------------------------------------------------------------

WorkerStep(w) ==
  \/ Resolve(w) \/ CheckClaim(w) \/ ReadRevision(w) \/ ReadFence(w)
  \/ PersistLoad(w) \/ PersistCreate(w) \/ PersistRecord(w) \/ PersistReference(w)
  \/ BeginStep(w) \/ FinishStep(w) \/ GiveUp(w) \/ RequestStop(w) \/ Stop(w)
  \/ Tick(w) \/ RenewLoad(w) \/ RenewSave(w) \/ RenewStopped(w)
  \/ RenewFails(w) \/ StoreFails(w)

Next == (\E w \in Workers : WorkerStep(w)) \/ Expire \/ UseSession

Spec == Init /\ [][Next]_vars

----------------------------------------------------------------------------
(* Properties *)

\* The invocation is writing, or has its terminal state still to write.
Finalizing(w) == purpose[w] = "terminal" /\ pc[w] \in Persisting

\* An execution writes its terminal state only over the record it claimed, and
\* never back behind it: one whose claim expired and was taken writes nothing
\* (the cursor, moved by each renewal, of finalizeInvocation).
StaleOwnerWritesNothing ==
  [][\A w \in Workers :
       pc[w] = "record" /\ pc'[w] = "reference" /\ purpose[w] = "terminal"
         => record.owner = w /\ record'.state.next >= record.state.next]_vars

\* An owner that has noticed the loss of its claim before it stopped its heartbeat
\* fails without writing its terminal state (finalizeInvocation).
LossStopsOwner == \A w \in Workers : lost[w] => ~Finalizing(w)

\* A renewal, however late it is saved, extends the owner's own claim and leaves
\* what the record says alone: it neither revives a claim that was finished or
\* taken nor undoes the progress recorded meanwhile.
RenewalOnlyExtends ==
  [][\A w \in Workers :
       hb[w] = "save" /\ hb'[w] = "none" /\ record' # record
         => /\ record.owner = w /\ record'.owner = w
            /\ record'.state = record.state]_vars

\* An invocation that works under a claim that has not expired.
Owns(w) == record.owner = w /\ record.live /\ pc[w] \in Working

\* codex-security-regressions.test.ts: concurrent claims are compared and
\* swapped before the step; one execution at a time.
LiveClaimNotTaken ==
  [][\A w \in Workers : Owns(w) => record'.owner \in {w, NoOwner}]_record
====
