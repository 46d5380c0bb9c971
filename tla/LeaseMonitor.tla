---- MODULE LeaseMonitor ----
(***************************************************************************)
(* acquireAgentExecutionLease: the lease of a run and, for the invocation  *)
(* that holds it, the interval timer that renews it and polls for          *)
(* cancellation while the invocation works, until release() stops it.      *)
(*                                                                         *)
(* A store call is three steps: it is sent, the store applies it, its      *)
(* answer is handled.  The timer never starts a second call while one is   *)
(* in flight, and release() waits for it, but only for a bounded time; so  *)
(* a renewal may be applied, or answered, after the invocation is over.    *)
(* The releaseLease that release() then sends has no bound of its own.     *)
(***************************************************************************)
EXTENDS Naturals

CONSTANTS Workers,     \* invocations, each with its own ownerId
          NoOwner,
          RenewCreates \* a custom store whose renewLease also takes a free lease

ASSUME MonitorAssumption == NoOwner \notin Workers /\ RenewCreates \in BOOLEAN

VARIABLES lease,      \* the stored lease; live = not expired
          cancelled,  \* the stored run is cancelled
          phase,      \* worker -> where its invocation stands
          monitor,    \* worker -> where the timer's call stands
          lost,       \* worker -> leaseLost()
          told,       \* worker -> cancelledState() is there
          failed      \* history: workers a releaseLease of theirs failed for

monitorVars == <<lease, cancelled, phase, monitor, lost, told, failed>>

Leases == [owner : Workers \cup {NoOwner}, live : BOOLEAN]
FreeLease == [owner |-> NoOwner, live |-> FALSE]

\* stopping: release() was called and waits for the call in flight; releasing:
\* its own releaseLease is sent and not answered.
Phases == {"idle", "running", "stopping", "releasing", "ended"}
\* none, or: a renewal or a load sent; its answer not handled yet; the late
\* release of a stopped monitor sent.
Sent == {"renew", "poll", "cleanup"}
Monitors == {"none", "renewed", "refused", "polled", "seenCancelled", "error"}
              \cup Sent

MonitorTypeOK ==
  /\ lease \in Leases
  /\ cancelled \in BOOLEAN
  /\ phase \in [Workers -> Phases]
  /\ monitor \in [Workers -> Monitors]
  /\ lost \in [Workers -> BOOLEAN]
  /\ told \in [Workers -> BOOLEAN]
  /\ failed \subseteq Workers

MonitorInit ==
  /\ lease = FreeLease
  /\ cancelled = FALSE
  /\ phase = [w \in Workers |-> "idle"]
  /\ monitor = [w \in Workers |-> "none"]
  /\ lost = [w \in Workers |-> FALSE]
  /\ told = [w \in Workers |-> FALSE]
  /\ failed = {}

----------------------------------------------------------------------------
(* The store *)

Holds(w) == lease.owner = w /\ lease.live
Available(w) == ~(lease.live /\ lease.owner # w)
\* renewLease refuses an expired lease, so that one that was taken and released
\* meanwhile is not renewed either.
Renewable(w) == Holds(w) \/ (RenewCreates /\ Available(w))
Take(w) == lease' = [owner |-> w, live |-> TRUE]
\* Mutant: whoever holds the lease loses it.
FreeAnyone(w) == lease' = FreeLease

\* releaseLease deletes the lease of its owner only.
Free(w) == lease' = IF lease.owner = w THEN FreeLease ELSE lease

\* Time passes the lease's expiry; somebody cancels the run.
Expire == /\ lease.live
          /\ lease' = [lease EXCEPT !.live = FALSE]
          /\ UNCHANGED <<cancelled, phase, monitor, lost, told, failed>>

Cancel == /\ ~cancelled
          /\ cancelled' = TRUE
          /\ UNCHANGED <<lease, phase, monitor, lost, told, failed>>

----------------------------------------------------------------------------
(* The invocation *)

Enter(w, there) == phase' = [phase EXCEPT ![w] = there]

Acquire(w) == /\ phase[w] = "idle"
              /\ IF Available(w) THEN Take(w) /\ Enter(w, "running")
                 ELSE Enter(w, "ended") /\ UNCHANGED lease
              /\ UNCHANGED <<cancelled, monitor, lost, told, failed>>

\* release(): no further tick; the call in flight is waited for.
Stop(w) == /\ phase[w] = "running"
           /\ Enter(w, "stopping")
           /\ UNCHANGED <<lease, cancelled, monitor, lost, told, failed>>

\* Mutant: the call in flight is waited for without a bound.
ReleaseWaits(w) ==
  /\ phase[w] = "stopping" /\ monitor[w] = "none"
  /\ Enter(w, "releasing")
  /\ UNCHANGED <<lease, cancelled, monitor, lost, told, failed>>

\* The call in flight is over or the shutdown timeout has passed: release()
\* sends its releaseLease.
Release(w) ==
  /\ phase[w] = "stopping"
  /\ Enter(w, "releasing")
  /\ UNCHANGED <<lease, cancelled, monitor, lost, told, failed>>

\* The store applies it and its answer ends the invocation, or it refuses and
\* release() throws.  It may do neither for good.
ReleaseAnswered(w) ==
  /\ phase[w] = "releasing"
  /\ Enter(w, "ended")
  /\ \/ Free(w) /\ UNCHANGED failed
     \/ failed' = failed \cup {w} /\ UNCHANGED lease
  /\ UNCHANGED <<cancelled, monitor, lost, told>>

----------------------------------------------------------------------------
(* monitorLease *)

Stopped(w) == phase[w] \in {"stopping", "releasing", "ended"}
Pending(w, there) == monitor' = [monitor EXCEPT ![w] = there]

\* A tick starts with a renewal when the heartbeat is due, and with a poll
\* otherwise.
TickRenew(w) == /\ phase[w] = "running" /\ monitor[w] = "none"
                /\ Pending(w, "renew")
                /\ UNCHANGED <<lease, cancelled, phase, lost, told, failed>>

TickPoll(w) == /\ phase[w] = "running" /\ monitor[w] = "none"
               /\ Pending(w, "poll")
               /\ UNCHANGED <<lease, cancelled, phase, lost, told, failed>>

\* The store applies what was sent, or fails; a call may also stay in flight
\* for good.
Apply(w) ==
  /\ \/ /\ monitor[w] = "renew"
        /\ IF Renewable(w) THEN Take(w) /\ Pending(w, "renewed")
           ELSE Pending(w, "refused") /\ UNCHANGED lease
        /\ UNCHANGED failed
     \/ /\ monitor[w] = "poll"
        /\ Pending(w, IF cancelled THEN "seenCancelled" ELSE "polled")
        /\ UNCHANGED <<lease, failed>>
     \/ /\ monitor[w] = "cleanup"
        /\ Free(w)
        /\ Pending(w, "none")
        /\ UNCHANGED failed
  /\ UNCHANGED <<cancelled, phase, lost, told>>

\* cleanupStoppedMonitorLease ignores a failure of its release.
ApplyFails(w) == /\ monitor[w] \in Sent
                 /\ IF monitor[w] = "cleanup"
                    THEN Pending(w, "none") /\ failed' = failed \cup {w}
                    ELSE Pending(w, "error") /\ UNCHANGED failed
                 /\ UNCHANGED <<lease, cancelled, phase, lost, told>>

\* Mutants: a stopped monitor keeps what it renewed; a refused renewal is
\* forgotten.
RenewAnsweredKept(w) ==
  /\ monitor[w] \in {"renewed", "refused"}
  /\ Pending(w, "none")
  /\ lost' = IF monitor[w] = "refused" /\ ~Stopped(w)
             THEN [lost EXCEPT ![w] = TRUE] ELSE lost
  /\ UNCHANGED <<lease, cancelled, phase, told, failed>>

RenewAnsweredForgotten(w) ==
  /\ monitor[w] \in {"renewed", "refused"}
  /\ Pending(w, IF Stopped(w) THEN "cleanup" ELSE "none")
  /\ UNCHANGED <<lease, cancelled, phase, lost, told, failed>>

\* After a renewal a stopped monitor releases what it may have taken; a running
\* one learns that the lease is lost, or polls in the same tick if that is due.
RenewAnswered(w) ==
  /\ monitor[w] \in {"renewed", "refused"}
  /\ IF Stopped(w) THEN Pending(w, "cleanup") /\ UNCHANGED lost
     ELSE IF monitor[w] = "refused"
     THEN Pending(w, "none") /\ lost' = [lost EXCEPT ![w] = TRUE]
     ELSE (Pending(w, "none") \/ Pending(w, "poll")) /\ UNCHANGED lost
  /\ UNCHANGED <<lease, cancelled, phase, told, failed>>

\* Mutant: the cancelled state is dropped.
PollAnsweredDropped(w) == /\ monitor[w] \in {"polled", "seenCancelled"}
                          /\ Pending(w, "none")
                          /\ UNCHANGED <<lease, cancelled, phase, lost, told, failed>>

\* A poll that sees the cancellation aborts the invocation, unless it is over.
PollAnswered(w) ==
  /\ monitor[w] \in {"polled", "seenCancelled"}
  /\ Pending(w, "none")
  /\ told' = IF monitor[w] = "seenCancelled" /\ ~Stopped(w)
             THEN [told EXCEPT ![w] = TRUE] ELSE told
  /\ UNCHANGED <<lease, cancelled, phase, lost, failed>>

ErrorAnswered(w) ==
  /\ monitor[w] = "error"
  /\ IF Stopped(w) THEN Pending(w, "cleanup") /\ UNCHANGED lost
     ELSE Pending(w, "none") /\ lost' = [lost EXCEPT ![w] = TRUE]
  /\ UNCHANGED <<lease, cancelled, phase, told, failed>>

Answered(w) == RenewAnswered(w) \/ PollAnswered(w) \/ ErrorAnswered(w)

----------------------------------------------------------------------------

WorkerStep(w) == \/ Acquire(w) \/ Stop(w)
                 \/ Release(w) \/ ReleaseAnswered(w)
                 \/ TickRenew(w) \/ TickPoll(w)
                 \/ Apply(w) \/ ApplyFails(w) \/ Answered(w)

MonitorNext ==
  \/ \E w \in Workers : WorkerStep(w)
  \/ Expire \/ Cancel

\* The event loop runs: the timer's answers that have arrived are handled, the
\* shutdown timeout fires, and while the timer is running the heartbeat and the
\* poll become due again and again.  Neither the store, asked by the timer or by
\* release(), nor the invocation's own work has to come to an end.
Fairness ==
  \A w \in Workers : /\ WF_monitorVars(Answered(w)) /\ WF_monitorVars(Release(w))
                     /\ SF_monitorVars(TickRenew(w)) /\ SF_monitorVars(TickPoll(w))

MonitorSpec == MonitorInit /\ [][MonitorNext]_monitorVars /\ Fairness

----------------------------------------------------------------------------
(* Properties *)

\* Once an invocation is over and its last renewal answered, the run's lease is
\* not its own, in whatever order its renewal and its release were applied.
EndedOwnsNothing ==
  \A w \in Workers : phase[w] = "ended" /\ monitor[w] = "none" /\ w \notin failed
                       => lease.owner # w

\* While an invocation works, its unexpired lease is taken by nobody else: the
\* late clean-up of an earlier invocation does not touch it.
LiveLeaseKept ==
  [][\A w \in Workers : Holds(w) /\ phase[w] = "running" => lease'.owner = w]_monitorVars

\* A call of the timer that the store never answers does not keep release() from
\* sending its own releaseLease.  Whether that one ends is up to the store.
ReleaseBounded == \A w \in Workers : phase[w] = "stopping" ~> phase[w] # "stopping"

\* As long as the store keeps answering, an invocation whose lease is gone
\* learns it, unless it is over before or a custom store gives the lease back.
StoreAnswers(w) == []<>(monitor[w] \notin Sent)
LossNoticed ==
  \A w \in Workers :
    StoreAnswers(w) =>
      ((phase[w] = "running" /\ lease.owner # w)
         ~> (lost[w] \/ phase[w] # "running" \/ lease.owner = w))

\* As long as the store keeps answering, a cancellation reaches the invocation
\* that works on the run, or it stops for a failed call.
CancellationNoticed ==
  \A w \in Workers :
    StoreAnswers(w) =>
      ((phase[w] = "running" /\ cancelled) ~> (told[w] \/ lost[w] \/ phase[w] # "running"))
====
