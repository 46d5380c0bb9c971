---------------------------- MODULE OwnershipProofs ----------------------------
(***************************************************************************)
(* What keeps two owners apart.                                            *)
(*                                                                         *)
(* The execution lease, for any number of invocations: the lease of one    *)
(* that is over is not kept by a late renewal, and the lease of one that   *)
(* works is not released by a late clean-up.                               *)
(*                                                                         *)
(* The lock file under the file store, for any number of tasks and         *)
(* processes, any placement of tasks in processes and any set of processes *)
(* that exit: mutual exclusion, and that no live task loses the lock.      *)
(***************************************************************************)
EXTENDS LeaseMonitor, FileRunLock, TLAPS

----------------------------------------------------------------------------
(* The lease                                                               *)

\* The late release is sent for an invocation that has stopped.
CleanupStopped == \A w \in Workers : monitor[w] = "cleanup" => Stopped(w)

\* The lease of an invocation whose release was applied is its own only while
\* the renewal that took it back is being cleaned up.
EndedCleansUp ==
  \A w \in Workers : phase[w] = "ended" /\ w \notin failed /\ lease.owner = w
                       => monitor[w] \in {"renewed", "cleanup"}

MonitorInv == MonitorTypeOK /\ CleanupStopped /\ EndedCleansUp

\* The invariant holds initially.
LEMMA InitMonitorInv == MonitorInit => MonitorInv
<1> SUFFICES ASSUME MonitorInit PROVE MonitorInv
  OBVIOUS
<1>1. lease \in Leases
  BY DEF MonitorInit, Leases, FreeLease
<1>2. /\ phase \in [Workers -> Phases] /\ monitor \in [Workers -> Monitors]
      /\ failed \subseteq Workers
  BY DEF MonitorInit, Phases, Monitors
<1>3. /\ lost \in [Workers -> BOOLEAN] /\ told \in [Workers -> BOOLEAN]
      /\ cancelled \in BOOLEAN
  BY Zenon DEF MonitorInit
<1>4. CleanupStopped /\ EndedCleansUp
  BY DEF MonitorInit, CleanupStopped, EndedCleansUp
<1> QED BY <1>1, <1>2, <1>3, <1>4 DEF MonitorInv, MonitorTypeOK

----------------------------------------------------------------------------
(* The lease as the store changes it *)

\* Taking the lease keeps it typed.
LEMMA TakeType == ASSUME MonitorTypeOK, NEW w \in Workers, Take(w)
                  PROVE  lease' \in Leases /\ lease'.owner = w
BY DEF Take, Leases

\* Freeing the lease keeps it typed, and it is not its owner's any more.
LEMMA FreeType == ASSUME MonitorTypeOK, NEW w \in Workers, Free(w)
                  PROVE  /\ lease' \in Leases
                         /\ lease'.owner # w
                         /\ lease.owner # w => lease' = lease
                         /\ lease'.owner \in Workers => lease' = lease
BY MonitorAssumption DEF Free, Leases, FreeLease, MonitorTypeOK

----------------------------------------------------------------------------
(* The invocation *)

\* Acquiring the lease preserves the invariant.
LEMMA AcquireStep == ASSUME MonitorInv, NEW w \in Workers, Acquire(w) PROVE MonitorInv'
<1> USE DEF MonitorInv, Enter, Phases
<1>1. MonitorTypeOK'
  BY TakeType DEF Acquire, MonitorTypeOK
<1>2. CleanupStopped'
  BY DEF Acquire, MonitorTypeOK, CleanupStopped, Stopped
<1>3. EndedCleansUp'
  BY TakeType DEF Acquire, MonitorTypeOK, EndedCleansUp, Available
<1> QED BY <1>1, <1>2, <1>3

\* The start of release() preserves the invariant.
LEMMA StopStep == ASSUME MonitorInv, NEW w \in Workers, Stop(w) PROVE MonitorInv'
BY DEF MonitorInv, Stop, Enter, Phases, MonitorTypeOK, CleanupStopped, EndedCleansUp, Stopped

\* The release itself preserves the invariant, from the end of the wait to the
\* store's answer or refusal.
LEMMA MonitorReleaseStep ==
  ASSUME MonitorInv, NEW w \in Workers, Release(w) \/ ReleaseAnswered(w)
  PROVE  MonitorInv'
<1> USE DEF MonitorInv, Enter, Phases
<1>1. CASE Release(w)
  BY <1>1 DEF Release, MonitorTypeOK, CleanupStopped, EndedCleansUp, Stopped
<1>2. CASE ReleaseAnswered(w)
  <2>1. MonitorTypeOK'
    BY <1>2, FreeType DEF ReleaseAnswered, MonitorTypeOK
  <2>2. CleanupStopped'
    BY <1>2 DEF ReleaseAnswered, MonitorTypeOK, CleanupStopped, Stopped
  <2>3. EndedCleansUp'
    BY <1>2, FreeType DEF ReleaseAnswered, MonitorTypeOK, EndedCleansUp
  <2> QED BY <2>1, <2>2, <2>3
<1> QED BY <1>1, <1>2

----------------------------------------------------------------------------
(* The timer *)

\* A tick of the timer preserves the invariant.
LEMMA TickStep == ASSUME MonitorInv, NEW w \in Workers, TickRenew(w) \/ TickPoll(w)
                  PROVE  MonitorInv'
BY DEF MonitorInv, TickRenew, TickPoll, Pending, Monitors, Sent, MonitorTypeOK, CleanupStopped,
   EndedCleansUp, Stopped

\* A call the store applies preserves the invariant.
LEMMA ApplyStep == ASSUME MonitorInv, NEW w \in Workers, Apply(w) PROVE MonitorInv'
<1> USE DEF MonitorInv, Pending, Monitors, Sent
<1>1. MonitorTypeOK'
  BY TakeType, FreeType DEF Apply, MonitorTypeOK
<1>2. CleanupStopped'
  BY DEF Apply, MonitorTypeOK, CleanupStopped, Stopped
<1>3. EndedCleansUp'
  <2>1. CASE monitor[w] = "renew"
    BY <2>1, TakeType DEF Apply, MonitorTypeOK, EndedCleansUp
  <2>2. CASE monitor[w] = "poll"
    BY <2>2 DEF Apply, MonitorTypeOK, EndedCleansUp
  <2>3. CASE monitor[w] = "cleanup"
    BY <2>3, FreeType DEF Apply, MonitorTypeOK, EndedCleansUp
  <2> QED BY <2>1, <2>2, <2>3 DEF Apply
<1> QED BY <1>1, <1>2, <1>3

\* A call the store fails preserves the invariant.
LEMMA ApplyFailsStep == ASSUME MonitorInv, NEW w \in Workers, ApplyFails(w) PROVE MonitorInv'
BY DEF MonitorInv, ApplyFails, Pending, Monitors, Sent, MonitorTypeOK, CleanupStopped,
   EndedCleansUp, Stopped

\* The handling of an answer preserves the invariant.
LEMMA AnsweredStep == ASSUME MonitorInv, NEW w \in Workers, Answered(w) PROVE MonitorInv'
<1> USE DEF MonitorInv, Pending, Monitors, Sent
<1>1. CASE RenewAnswered(w)
  BY <1>1 DEF RenewAnswered, MonitorTypeOK, CleanupStopped, EndedCleansUp, Stopped
<1>2. CASE PollAnswered(w)
  BY <1>2 DEF PollAnswered, MonitorTypeOK, CleanupStopped, EndedCleansUp, Stopped
<1>3. CASE ErrorAnswered(w)
  BY <1>3 DEF ErrorAnswered, MonitorTypeOK, CleanupStopped, EndedCleansUp, Stopped
<1> QED BY <1>1, <1>2, <1>3 DEF Answered

\* Expiry, cancellation and stuttering preserve the invariant.
LEMMA OutsideStep == MonitorInv /\ (Expire \/ Cancel \/ UNCHANGED monitorVars) => MonitorInv'
BY DEF MonitorInv, Expire, Cancel, monitorVars, MonitorTypeOK, Leases, CleanupStopped,
   EndedCleansUp, Stopped

\* Every step preserves the invariant.
LEMMA NextMonitorInv == MonitorInv /\ [MonitorNext]_monitorVars => MonitorInv'
BY AcquireStep, StopStep, MonitorReleaseStep, TickStep, ApplyStep, ApplyFailsStep,
   AnsweredStep, OutsideStep DEF MonitorNext, WorkerStep

\* The inductive invariant holds in every reachable state, in whatever order the
\* calls of the timer and of release() are applied and answered.
THEOREM MonitorInvariance == MonitorSpec => []MonitorInv
BY InitMonitorInv, NextMonitorInv, PTL DEF MonitorSpec

----------------------------------------------------------------------------
(* The properties *)

\* Every variable of the monitor has its type.
THEOREM MonitorTypeCorrect == MonitorSpec => []MonitorTypeOK
<1>1. MonitorInv => MonitorTypeOK
  BY DEF MonitorInv
<1> QED BY MonitorInvariance, <1>1, PTL

\* However a renewal and the release overtake each other, the lease is free of
\* the invocation once both are done.
THEOREM NothingLeaks == MonitorSpec => []EndedOwnsNothing
<1>1. MonitorInv => EndedOwnsNothing
  BY DEF MonitorInv, EndedCleansUp, EndedOwnsNothing
<1> QED BY MonitorInvariance, <1>1, PTL

\* While an invocation works, no step takes its live lease from it.
LEMMA StepKeepsLease ==
  ASSUME MonitorInv, [MonitorNext]_monitorVars, NEW w \in Workers, Holds(w), phase[w] = "running"
  PROVE  lease'.owner = w
<1>1. ASSUME NEW v \in Workers, Take(v), Available(v) \/ Holds(v)
      PROVE  lease'.owner = w
  BY <1>1 DEF Take, Available, Holds
<1>2. ASSUME NEW v \in Workers, Free(v), Stopped(v) PROVE lease'.owner = w
  BY <1>2 DEF Free, Holds, Stopped
<1>3. CASE \E v \in Workers : Acquire(v)
  BY <1>3, <1>1 DEF Acquire, Holds
<1>4. CASE \E v \in Workers : ReleaseAnswered(v)
  BY <1>4, <1>2 DEF ReleaseAnswered, Stopped, Holds
<1>5. CASE \E v \in Workers : Apply(v)
  BY <1>5, <1>1, <1>2 DEF Apply, Renewable, MonitorInv, CleanupStopped, Holds
<1>6. CASE Expire
  BY <1>6 DEF Expire, Holds, MonitorInv, MonitorTypeOK, Leases
<1> QED BY <1>3, <1>4, <1>5, <1>6
  DEF MonitorNext, WorkerStep, monitorVars, Stop, Release, TickRenew, TickPoll, ApplyFails, Answered,
      RenewAnswered, PollAnswered, ErrorAnswered, Cancel, Holds

\* Neither a new invocation nor the late clean-up of an old one takes a live
\* lease from the invocation that works under it.
THEOREM LiveLeaseSafe == MonitorSpec => LiveLeaseKept
<1>1. MonitorInv /\ [MonitorNext]_monitorVars =>
        [\A w \in Workers : Holds(w) /\ phase[w] = "running" => lease'.owner = w]_monitorVars
  BY StepKeepsLease
<1> QED BY MonitorInvariance, <1>1, PTL DEF MonitorSpec, LiveLeaseKept

----------------------------------------------------------------------------
(* The lock file                                                           *)

\* The holder's file is the lock.
HeldLock == \A t \in Tasks : Runs(t) /\ pc[t] \in Critical => lock = OwnId(t)

\* A task past its check of the owner has read one, and one that exited.
SeenOwner == \A t \in Tasks : pc[t] \in {"check", "link"} \cup Recovering
                                => seen[t] \in OwnerIds
SeenExited == \A t \in Tasks : pc[t] \in {"link"} \cup Recovering => Exited(seen[t])

\* A recovery file belongs to one task, which keeps every other task from
\* recovering the same owner's lock.
RecoveryKept == \A t \in Tasks : pc[t] \in Recovering => FilesNamed(seen[t]) # {}
RecoveryExclusive ==
  \A t, u \in Tasks : t # u /\ pc[t] \in Recovering /\ pc[u] \in Recovering
                        => seen[t] # seen[u]

\* Between the second reading of the lock and its unlink nobody replaces it.
UnlinkSeen == \A t \in Tasks : pc[t] = "unlink" => lock = seen[t]

LockInv == /\ TypeOK /\ HeldLock /\ SeenOwner /\ SeenExited
        /\ RecoveryKept /\ RecoveryExclusive /\ UnlinkSeen

\* An ownerId is never the absence of a lock.
LEMMA NoneIsNoOwner == None \notin OwnerIds
BY DEF None, OwnerIds

\* Two ownerIds are the same only if one task drew both.
LEMMA OwnIdInjective == ASSUME TypeOK, NEW t \in Tasks, NEW u \in Tasks,
                               OwnId(t) = OwnId(u)
                        PROVE  t = u
BY DEF OwnId, TypeOK

\* The ownerId of a task is an ownerId.
LEMMA OwnIdType == ASSUME TypeOK, NEW t \in Tasks
                   PROVE  OwnId(t) \in OwnerIds /\ (Runs(t) <=> ~Exited(OwnId(t)))
BY DEF OwnId, TypeOK, OwnerIds, Runs, Exited

\* The invariant holds initially.
LEMMA InitLockInv == Init => LockInv
BY NoneIsNoOwner DEF Init, LockInv, TypeOK, HeldLock, SeenOwner, SeenExited, RecoveryKept,
   RecoveryExclusive, UnlinkSeen, Critical, Recovering, PCs

----------------------------------------------------------------------------
(* Steps that leave the files alone. *)

\* A step that leaves the lock and the recovery files alone preserves it.
LEMMA QuietStep ==
  ASSUME LockInv, NEW t \in Tasks,
         \/ Call(t) \/ Retry(t) \/ TimeOut(t) \/ Finish(t) \/ ReleaseRead(t)
         \/ ReadLock(t)
  PROVE  LockInv'
<1> USE DEF Runs, At, Goto, Answer, See, Critical, Recovering, PCs
<1>1. CASE Call(t) \/ Retry(t) \/ TimeOut(t) \/ Finish(t) \/ ReleaseRead(t)
  BY <1>1 DEF LockInv, TypeOK, HeldLock, SeenOwner, SeenExited, RecoveryKept,
     RecoveryExclusive, UnlinkSeen, Call, Retry, TimeOut, Finish, ReleaseRead,
     OwnId, Exited, FilesNamed
<1>2. CASE ReadLock(t)
  BY <1>2 DEF LockInv, TypeOK, HeldLock, SeenOwner, SeenExited, RecoveryKept,
     RecoveryExclusive, UnlinkSeen, ReadLock, OwnId, Exited, FilesNamed
<1> QED BY <1>1, <1>2

\* Looking at the lock and its owner preserves the invariant.
LEMMA CheckStep ==
  ASSUME LockInv, NEW t \in Tasks, CheckOwner(t) \/ StatLock(t) \/ VerifyLock(t)
  PROVE  LockInv'
<1> USE DEF Runs, At, Goto, Answer, See, Critical, Recovering, PCs
<1>1. CASE CheckOwner(t)
  BY <1>1 DEF LockInv, TypeOK, HeldLock, SeenOwner, SeenExited, RecoveryKept,
     RecoveryExclusive, UnlinkSeen, CheckOwner, OwnId, Exited, FilesNamed
<1>2. CASE StatLock(t)
  BY <1>2 DEF LockInv, TypeOK, HeldLock, SeenOwner, SeenExited, RecoveryKept,
     RecoveryExclusive, UnlinkSeen, StatLock, OwnId, Exited, FilesNamed
<1>3. CASE VerifyLock(t)
  BY <1>3 DEF LockInv, TypeOK, HeldLock, SeenOwner, SeenExited, RecoveryKept,
     RecoveryExclusive, UnlinkSeen, VerifyLock, OwnId, Exited, FilesNamed
<1> QED BY <1>1, <1>2, <1>3

----------------------------------------------------------------------------
(* Steps on the recovery files. *)

\* The recovery file is the task's own: its name was free.
LEMMA LinkStep == ASSUME LockInv, NEW t \in Tasks, LinkRecovery(t) PROVE LockInv'
<1> USE DEF Runs, At, Goto, Answer, See, Critical, Recovering, PCs
<1>1. CASE lock = None \/ FilesNamed(seen[t]) # {}
  BY <1>1 DEF LockInv, TypeOK, HeldLock, SeenOwner, SeenExited, RecoveryKept,
     RecoveryExclusive, UnlinkSeen, LinkRecovery, OwnId, Exited, FilesNamed
<1>2. CASE lock # None /\ FilesNamed(seen[t]) = {}
  <2> DEFINE file == [name |-> seen[t], lock |-> lock]
  <2>1. /\ recovery' = recovery \cup {file}
        /\ pc' = [pc EXCEPT ![t] = "stat"]
        /\ pc[t] = "link"
        /\ UNCHANGED <<seen, alive, lock, count>>
    BY <1>2 DEF LinkRecovery
  <2>2. file \in RecoveryFiles
    BY <1>2, <2>1 DEF LockInv, TypeOK, SeenOwner, RecoveryFiles
  <2>3. TypeOK'
    BY <2>1, <2>2 DEF LockInv, TypeOK
  <2>4. RecoveryKept'
    <3> SUFFICES ASSUME NEW u \in Tasks, pc'[u] \in Recovering
                 PROVE  FilesNamed(seen[u])' # {}
      BY DEF RecoveryKept
    <3>1. CASE u = t
      <4>1. file \in recovery' /\ file.name = seen'[t]
        BY <2>1
      <4> QED BY <3>1, <4>1 DEF FilesNamed
    <3>2. CASE u # t
      <4>1. pc[u] \in Recovering /\ FilesNamed(seen[u]) # {}
        BY <2>1, <3>2 DEF LockInv, RecoveryKept, TypeOK
      <4> QED BY <2>1, <4>1 DEF FilesNamed
    <3> QED BY <3>1, <3>2
  <2>5. RecoveryExclusive'
    BY <2>1, <1>2 DEF LockInv, RecoveryExclusive, RecoveryKept, TypeOK
  <2>6. HeldLock' /\ SeenOwner' /\ SeenExited' /\ UnlinkSeen'
    BY <2>1 DEF LockInv, TypeOK, HeldLock, SeenOwner, SeenExited, UnlinkSeen,
       OwnId, Exited
  <2> QED BY <2>3, <2>4, <2>5, <2>6 DEF LockInv
<1> QED BY <1>1, <1>2

\* Only files named after the task's own seen owner are removed.
LEMMA DropStep == ASSUME LockInv, NEW t \in Tasks, DropRecovery(t) PROVE LockInv'
<1> USE DEF Runs, At, Goto, Answer, See, Critical, Recovering, PCs
<1>1. /\ recovery' = recovery \ FilesNamed(seen[t])
      /\ pc' = [pc EXCEPT ![t] = pc'[t]]
      /\ pc'[t] \in {"try", "wait"} /\ pc[t] \in {"drop", "dropRetry"}
      /\ seen' = [seen EXCEPT ![t] = None]
      /\ UNCHANGED <<alive, lock, count>>
  BY DEF DropRecovery, LockInv, TypeOK
<1>2. TypeOK'
  BY <1>1 DEF LockInv, TypeOK
<1>3. RecoveryKept'
  BY <1>1 DEF LockInv, RecoveryKept, RecoveryExclusive, FilesNamed, TypeOK
<1>4. HeldLock' /\ SeenOwner' /\ SeenExited' /\ UnlinkSeen' /\ RecoveryExclusive'
  BY <1>1 DEF LockInv, TypeOK, HeldLock, SeenOwner, SeenExited, UnlinkSeen,
     RecoveryExclusive, OwnId, Exited
<1> QED BY <1>2, <1>3, <1>4 DEF LockInv

----------------------------------------------------------------------------
(* Steps on the lock file. *)

\* Linking the lock file, or finding one, preserves the invariant.
LEMMA TryStep == ASSUME LockInv, NEW t \in Tasks, TryLink(t) PROVE LockInv'
<1> USE DEF Runs, At, Goto, Critical, Recovering, PCs
<1>1. CASE lock # None
  BY <1>1 DEF LockInv, TypeOK, HeldLock, SeenOwner, SeenExited, RecoveryKept,
     RecoveryExclusive, UnlinkSeen, TryLink, OwnId, Exited, FilesNamed
<1>2. CASE lock = None
  <2>1. /\ lock' = <<t, count[t] + 1>>
        /\ count' = [count EXCEPT ![t] = @ + 1]
        /\ pc' = [pc EXCEPT ![t] = "held"]
        /\ UNCHANGED <<alive, recovery, seen>>
    BY <1>2 DEF TryLink
  <2>2. TypeOK'
    BY <2>1 DEF LockInv, TypeOK, OwnerIds
  <2>3. HeldLock'
    BY <1>2, <2>1, OwnIdType, NoneIsNoOwner DEF LockInv, TypeOK, HeldLock, OwnId
  <2>4. UnlinkSeen'
    BY <1>2, <2>1, NoneIsNoOwner DEF LockInv, TypeOK, UnlinkSeen, SeenOwner
  <2>5. SeenOwner' /\ SeenExited' /\ RecoveryKept' /\ RecoveryExclusive'
    BY <2>1 DEF LockInv, TypeOK, SeenOwner, SeenExited, RecoveryKept,
       RecoveryExclusive, Exited, FilesNamed
  <2> QED BY <2>2, <2>3, <2>4, <2>5 DEF LockInv
<1> QED BY <1>1, <1>2

\* A lock that is unlinked in recovery is an exited owner's, so nobody holds it.
LEMMA UnlinkStep == ASSUME LockInv, NEW t \in Tasks, UnlinkLock(t) PROVE LockInv'
<1> USE DEF Runs, At, Goto, Critical, Recovering, PCs
<1>1. /\ lock' = None /\ pc[t] = "unlink"
      /\ pc' = [pc EXCEPT ![t] = "dropRetry"]
      /\ UNCHANGED <<alive, recovery, count, seen>>
  BY DEF UnlinkLock
<1>2. lock = seen[t] /\ Exited(lock)
  BY <1>1 DEF LockInv, UnlinkSeen, SeenExited
<1>3. TypeOK'
  BY <1>1 DEF LockInv, TypeOK
<1>4. HeldLock'
  BY <1>1, <1>2, OwnIdType DEF LockInv, TypeOK, HeldLock
<1>5. UnlinkSeen'
  BY <1>1, <1>2 DEF LockInv, TypeOK, UnlinkSeen, RecoveryExclusive
<1>6. SeenOwner' /\ SeenExited' /\ RecoveryKept' /\ RecoveryExclusive'
  BY <1>1 DEF LockInv, TypeOK, SeenOwner, SeenExited, RecoveryKept,
     RecoveryExclusive, Exited, FilesNamed
<1> QED BY <1>3, <1>4, <1>5, <1>6 DEF LockInv

\* A lock that is released is its running holder's, so nobody is recovering it.
LEMMA ReleaseStep == ASSUME LockInv, NEW t \in Tasks, ReleaseUnlink(t) PROVE LockInv'
<1> USE DEF Runs, At, Goto, Critical, Recovering, PCs
<1>1. /\ lock' = None /\ pc[t] = "releaseUnlink" /\ Process[t] \in alive
      /\ pc' = [pc EXCEPT ![t] = "idle"]
      /\ UNCHANGED <<alive, recovery, count, seen>>
  BY DEF ReleaseUnlink
<1>2. lock = OwnId(t) /\ ~Exited(lock)
  BY <1>1, OwnIdType DEF LockInv, HeldLock
<1>3. TypeOK'
  BY <1>1 DEF LockInv, TypeOK
<1>4. HeldLock'
  BY <1>1, <1>2, OwnIdInjective DEF LockInv, TypeOK, HeldLock
<1>5. UnlinkSeen'
  BY <1>1, <1>2 DEF LockInv, TypeOK, UnlinkSeen, SeenExited
<1>6. SeenOwner' /\ SeenExited' /\ RecoveryKept' /\ RecoveryExclusive'
  BY <1>1 DEF LockInv, TypeOK, SeenOwner, SeenExited, RecoveryKept,
     RecoveryExclusive, Exited, FilesNamed
<1> QED BY <1>3, <1>4, <1>5, <1>6 DEF LockInv

\* An exit takes running tasks away, and brings no exited owner back.
LEMMA ExitStep == ASSUME LockInv, NEW p \in Processes, Exit(p) PROVE LockInv'
BY DEF LockInv, TypeOK, HeldLock, SeenOwner, SeenExited, RecoveryKept,
   RecoveryExclusive, UnlinkSeen, Exit, Runs, Exited, OwnId, FilesNamed

\* Stuttering preserves the invariant.
LEMMA StutterStep == LockInv /\ UNCHANGED vars => LockInv'
BY DEF vars, LockInv, TypeOK, HeldLock, SeenOwner, SeenExited, RecoveryKept,
   RecoveryExclusive, UnlinkSeen, Runs, Exited, OwnId, FilesNamed

\* Every step preserves the invariant.
LEMMA NextLockInv == LockInv /\ [Next]_vars => LockInv'
<1> SUFFICES ASSUME LockInv, [Next]_vars PROVE LockInv'
  OBVIOUS
<1>1. ASSUME NEW t \in Tasks, TaskStep(t) \/ TimeOut(t) PROVE LockInv'
  BY <1>1, QuietStep, CheckStep, LinkStep, DropStep, TryStep, UnlinkStep,
     ReleaseStep DEF TaskStep
<1>2. ASSUME NEW p \in Processes, Exit(p) PROVE LockInv'
  BY <1>2, ExitStep
<1>3. CASE UNCHANGED vars
  BY <1>3, StutterStep
<1> QED BY <1>1, <1>2, <1>3 DEF Next

\* The inductive invariant holds in every reachable state, whichever processes
\* exit at whichever point of acquiring, recovering or releasing the lock.
THEOREM LockInvariance == Spec => []LockInv
BY InitLockInv, NextLockInv, PTL DEF Spec

----------------------------------------------------------------------------
(* The properties *)

\* Every variable of the lock has its type; in particular a recovery file is
\* always named after an owner that was read from the lock (recoverFileRunStoreLock).
THEOREM LockTypeCorrect == Spec => []TypeOK
<1>1. LockInv => TypeOK
  BY DEF LockInv
<1> QED BY LockInvariance, <1>1, PTL

\* Two holders would have one ownerId.
LEMMA LockInvExcludes == LockInv => MutualExclusion
BY OwnIdInjective DEF LockInv, HeldLock, MutualExclusion

\* At no time do two tasks use the store under its lock, however often the
\* owners of the lock exit and whoever recovers it.
THEOREM Safety == Spec => []MutualExclusion
BY LockInvariance, LockInvExcludes, PTL

\* A running task's lock disappears in its own release only.
LEMMA StepKeepsLock ==
  ASSUME LockInv, [Next]_vars, NEW t \in Tasks, lock = OwnId(t), lock' # lock, Runs(t)
  PROVE  pc[t] = "releaseUnlink"
<1>1. lock # None /\ ~Exited(lock)
  BY OwnIdType, NoneIsNoOwner DEF LockInv
<1>2. CASE \E u \in Tasks : UnlinkLock(u)
  BY <1>1, <1>2 DEF UnlinkLock, At, LockInv, UnlinkSeen, SeenExited, Recovering
<1>3. CASE \E u \in Tasks : ReleaseUnlink(u)
  <2>1. PICK u \in Tasks : ReleaseUnlink(u)
    BY <1>3
  <2>2. lock = OwnId(u) /\ pc[u] = "releaseUnlink"
    BY <2>1 DEF ReleaseUnlink, At, LockInv, HeldLock, Critical
  <2> QED BY <2>2, OwnIdInjective DEF LockInv
<1>4. CASE \E u \in Tasks : TryLink(u)
  BY <1>1, <1>4 DEF TryLink
<1> QED BY <1>2, <1>3, <1>4
  DEF Next, TaskStep, vars, Call, Retry, ReadLock, CheckOwner, LinkRecovery,
      StatLock, VerifyLock, DropRecovery, Finish, ReleaseRead, TimeOut, Exit

\* Recovery takes the lock neither from a slow owner nor from the next one.
THEOREM LockKept == Spec => NeverStolen
<1>1. LockInv /\ [Next]_vars =>
        [\A t \in Tasks : lock = OwnId(t) /\ lock' # lock /\ Runs(t)
                             => pc[t] = "releaseUnlink"]_vars
  BY StepKeepsLock
<1> QED BY LockInvariance, <1>1, PTL DEF Spec, NeverStolen
================================================================================
