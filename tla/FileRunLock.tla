---- MODULE FileRunLock ----
(***************************************************************************)
(* The lock file of the file-based run store.  A task is one asynchronous  *)
(* call of acquireFileRunStoreLock and of the release it returns; tasks of *)
(* one process share its pid and die together.  Each action is one file    *)
(* system call, or one check of the process table, between two awaits.     *)
(*                                                                         *)
(* A lock file is linked into place with its whole content (writePrivate-  *)
(* File with flag wx), so its content and its inode are both identified by *)
(* the ownerId drawn for the acquisition.  Lock files without a readable   *)
(* owner, which no version of this code writes, are left out.              *)
(***************************************************************************)
EXTENDS Naturals

CONSTANTS Tasks,        \* concurrent users of the lock
          Processes,    \* operating system processes
          Process,      \* task -> the process it runs in
          Crashing,     \* the processes that may exit
          MaxLocks      \* bound: acquisitions of one task

ASSUME LockAssumption == /\ Process \in [Tasks -> Processes]
                         /\ Crashing \subseteq Processes
                         /\ MaxLocks \in Nat

VARIABLES alive,     \* processes that have not exited
          lock,      \* ownerId of the lock file, or None
          recovery,  \* recovery files: named after an owner, linked to a lock
          pc,        \* task -> where it stands
          count,     \* task -> how many locks it has taken
          seen       \* task -> the ownerId it read from the lock file

vars == <<alive, lock, recovery, pc, count, seen>>

\* A task draws its ownerId when it asks; the draws of refused requests are
\* never seen by anyone and are not counted.
OwnerIds == Tasks \X Nat
None == <<>>
RecoveryFiles == [name : OwnerIds, lock : OwnerIds]

\* The lock is held; releaseRead and releaseUnlink are its release.
Critical == {"held", "releaseRead", "releaseUnlink"}
\* The task's own recovery file, named after the owner it has seen, exists.
Recovering == {"stat", "verify", "unlink", "drop", "dropRetry"}
PCs == {"idle", "try", "read", "check", "link", "wait"} \cup Critical \cup Recovering

TypeOK == /\ alive \subseteq Processes
          /\ lock \in OwnerIds \cup {None}
          /\ recovery \subseteq RecoveryFiles
          /\ pc \in [Tasks -> PCs]
          /\ count \in [Tasks -> Nat]
          /\ seen \in [Tasks -> OwnerIds \cup {None}]

Init == /\ alive = Processes
        /\ lock = None
        /\ recovery = {}
        /\ pc = [t \in Tasks |-> "idle"]
        /\ count = [t \in Tasks |-> 0]
        /\ seen = [t \in Tasks |-> None]

----------------------------------------------------------------------------

Runs(t) == Process[t] \in alive
\* isProcessAlive, of the pid in the lock file.
Exited(o) == Process[o[1]] \notin alive

OwnId(t) == <<t, count[t]>>
FilesNamed(o) == {f \in recovery : f.name = o}

At(t, here) == Runs(t) /\ pc[t] = here
Goto(t, there) == pc' = [pc EXCEPT ![t] = there]
See(t, o) == seen' = [seen EXCEPT ![t] = o]

\* The recovery answered: look at the lock again at once, or wait first.
Answer(t, recovered) == Goto(t, IF recovered THEN "try" ELSE "wait") /\ See(t, None)

----------------------------------------------------------------------------
(* acquireFileRunStoreLock *)

Call(t) == /\ At(t, "idle")
           /\ Goto(t, "try")
           /\ UNCHANGED <<alive, lock, recovery, count, seen>>

\* writePrivateFile links the finished file to the lock path, unless it exists.
TryLink(t) ==
  /\ At(t, "try")
  /\ \/ /\ lock = None
        /\ count[t] < MaxLocks
        /\ lock' = <<t, count[t] + 1>>
        /\ count' = [count EXCEPT ![t] = @ + 1]
        /\ Goto(t, "held")
     \/ /\ lock # None
        /\ Goto(t, "read")
        /\ UNCHANGED <<lock, count>>
  /\ UNCHANGED <<alive, recovery, seen>>

\* The 10 ms pause, or the end of the two seconds a caller is made to wait.
Retry(t) == /\ At(t, "wait")
            /\ Goto(t, "try")
            /\ UNCHANGED <<alive, lock, recovery, count, seen>>

TimeOut(t) == /\ At(t, "wait")
              /\ Goto(t, "idle")
              /\ UNCHANGED <<alive, lock, recovery, count, seen>>

----------------------------------------------------------------------------
(* recoverFileRunStoreLock *)

ReadLock(t) == /\ At(t, "read")
               /\ IF lock = None THEN Answer(t, TRUE)
                  ELSE See(t, lock) /\ Goto(t, "check")
               /\ UNCHANGED <<alive, lock, recovery, count>>

\* Mutant: a lock is only ever waited for.
CheckOwnerWaits(t) == /\ At(t, "check")
                      /\ Answer(t, FALSE)
                      /\ UNCHANGED <<alive, lock, recovery, count>>

CheckOwner(t) == /\ At(t, "check")
                 /\ IF Exited(seen[t]) THEN Goto(t, "link") /\ UNCHANGED seen
                    ELSE Answer(t, FALSE)
                 /\ UNCHANGED <<alive, lock, recovery, count>>

\* Mutant: a recovery in progress does not exclude another.
LinkRecoveryShared(t) ==
  /\ At(t, "link")
  /\ IF lock = None THEN Answer(t, TRUE) /\ UNCHANGED recovery
     ELSE /\ recovery' = recovery \cup {[name |-> seen[t], lock |-> lock]}
          /\ Goto(t, "stat")
          /\ UNCHANGED seen
  /\ UNCHANGED <<alive, lock, count>>

\* fs.link(lockPath, recoveryPath): the source may be gone, the name may be
\* taken, and the source may be another lock than the one that was read.
LinkRecovery(t) ==
  /\ At(t, "link")
  /\ IF lock = None THEN Answer(t, TRUE) /\ UNCHANGED recovery
     ELSE IF FilesNamed(seen[t]) # {} THEN Answer(t, FALSE) /\ UNCHANGED recovery
     ELSE /\ recovery' = recovery \cup {[name |-> seen[t], lock |-> lock]}
          /\ Goto(t, "stat")
          /\ UNCHANGED seen
  /\ UNCHANGED <<alive, lock, count>>

\* lstat of both paths: a lock that is gone has been recovered, another inode
\* is another lock.
StatLock(t) ==
  /\ At(t, "stat")
  /\ Goto(t, IF lock = None THEN "dropRetry"
             ELSE IF \E f \in FilesNamed(seen[t]) : f.lock = lock THEN "verify"
             ELSE "drop")
  /\ UNCHANGED <<alive, lock, recovery, count, seen>>

\* Mutant: the lock is not read again.
VerifyLockSkipped(t) == /\ At(t, "verify")
                        /\ Goto(t, "unlink")
                        /\ UNCHANGED <<alive, lock, recovery, count, seen>>

\* The lock is read again: it must still be the exited owner's.
VerifyLock(t) == /\ At(t, "verify")
                 /\ Goto(t, IF lock = seen[t] THEN "unlink" ELSE "drop")
                 /\ UNCHANGED <<alive, lock, recovery, count, seen>>

UnlinkLock(t) == /\ At(t, "unlink")
                 /\ lock' = None
                 /\ Goto(t, "dropRetry")
                 /\ UNCHANGED <<alive, recovery, count, seen>>

\* The finally block.
DropRecovery(t) == /\ \/ At(t, "drop") /\ Answer(t, FALSE)
                      \/ At(t, "dropRetry") /\ Answer(t, TRUE)
                   /\ recovery' = recovery \ FilesNamed(seen[t])
                   /\ UNCHANGED <<alive, lock, count>>

----------------------------------------------------------------------------
(* removeFileRunStoreLock, the release *)

Finish(t) == /\ At(t, "held")
             /\ Goto(t, "releaseRead")
             /\ UNCHANGED <<alive, lock, recovery, count, seen>>

ReleaseRead(t) == /\ At(t, "releaseRead")
                  /\ Goto(t, IF lock = OwnId(t) THEN "releaseUnlink" ELSE "idle")
                  /\ UNCHANGED <<alive, lock, recovery, count, seen>>

ReleaseUnlink(t) == /\ At(t, "releaseUnlink")
                    /\ lock' = None
                    /\ Goto(t, "idle")
                    /\ UNCHANGED <<alive, recovery, count, seen>>

----------------------------------------------------------------------------

\* The process exits; whatever its tasks were doing is left as it is.
Exit(p) == /\ p \in Crashing \cap alive
           /\ alive' = alive \ {p}
           /\ UNCHANGED <<lock, recovery, pc, count, seen>>

TaskStep(t) == \/ Call(t) \/ TryLink(t) \/ Retry(t)
               \/ ReadLock(t) \/ CheckOwner(t) \/ LinkRecovery(t) \/ StatLock(t)
               \/ VerifyLock(t) \/ UnlinkLock(t) \/ DropRecovery(t)
               \/ Finish(t) \/ ReleaseRead(t) \/ ReleaseUnlink(t)

Next == \/ \E t \in Tasks : TaskStep(t) \/ TimeOut(t)
        \/ \E p \in Processes : Exit(p)

\* The tasks of a running process keep being scheduled, system calls return,
\* critical sections end and stores keep being used; no process has to exit
\* and no caller has to give up.
Spec == Init /\ [][Next]_vars /\ \A t \in Tasks : WF_vars(TaskStep(t))

----------------------------------------------------------------------------
(* Properties *)

\* No two tasks are in their critical sections at the same time.
MutualExclusion ==
  \A t, u \in Tasks : /\ t # u
                      /\ Runs(t) /\ pc[t] \in Critical
                      => ~(Runs(u) /\ pc[u] \in Critical)

\* A lock is only ever removed by its owner or after its owner exited: recovery
\* never takes it from a task that is merely slow, nor from the next owner.
NeverStolen ==
  [][\A t \in Tasks : lock = OwnId(t) /\ lock' # lock /\ Runs(t)
                        => pc[t] = "releaseUnlink"]_vars

\* The lock file of an owner whose process has exited.
Stale == lock # None /\ Exited(lock)
\* A process exited while it was recovering that lock.
Orphaned == \E t \in Tasks : /\ ~Runs(t)
                             /\ pc[t] \in Recovering
                             /\ seen[t] = lock

\* The lock of an exited owner is recovered, unless a second process exits in
\* the middle of recovering it and leaves its recovery file behind.
OwnerExitRecoversUnlessOrphaned == Stale ~> (~Stale \/ Orphaned)
====
