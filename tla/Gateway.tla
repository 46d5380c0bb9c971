---- MODULE Gateway ----
(***************************************************************************)
(* The routed operations of one gateway: each walks its candidate targets, *)
(* with retries, and makes provider attempts that take a permit of the     *)
(* circuit breaker, a slot of the admission controller and a reservation   *)
(* of the budget, in this order, and must give all three back.             *)
(*                                                                         *)
(* The program is one JavaScript thread: an action is what runs without an *)
(* await.  The operation stops waiting for an attempt when its signal is   *)
(* aborted, by the attempt's timeout or by the caller; the executor's      *)
(* begin(), and the provider, go on behind its back, next to the           *)
(* operation's following attempts.                                         *)
(*                                                                         *)
(* A stream is a generator.  Between two events it is suspended until its  *)
(* reader, the generation loop of core, pulls: the loop waits meanwhile    *)
(* for the subscribers it publishes to.                                    *)
(***************************************************************************)
EXTENDS GatewayLimits, Sequences, Functions

CONSTANTS Streams,           \* the operations that are streams
          IdleTimed,         \* the streams with an idle timeout
          Route,             \* operation -> its candidates, in order
          MaxRetries,
          MaxTotalAttempts,  \* provider attempts of one operation
          Usages             \* what a provider may report

\* The operations are the breaker's callers: each holds the permit of its
\* current attempt, or none.
Operations == Callers

\* What an unknown usage comes to: the reserved tokens stay, the price is open.
NoUsage == [tokens |-> ReserveTokens, priced |-> FALSE, cost |-> 0]

ASSUME GatewayAssumption ==
  /\ Streams \subseteq Operations /\ IdleTimed \subseteq Streams
  /\ \A o \in Operations : Route[o] \in Seq(Targets) /\ Route[o] # <<>>
  /\ MaxRetries \in Nat /\ MaxTotalAttempts \in Nat \ {0}
  /\ Usages \subseteq [tokens : Nat, priced : BOOLEAN, cost : Nat]

VARIABLES pc,         \* operation -> where it stands
          cand,       \* operation -> its candidate, an index of its route
          retry,      \* operation -> retries of this candidate
          cancelled,  \* operation -> its caller's signal is aborted
          att         \* operation -> its attempts so far, the last one current

opVars == <<pc, cand, retry, cancelled>>
policyVars == <<breakerVars, admissionVars, account>>
vars == <<now, policyVars, opVars, att>>

\* exec: where the executor of the attempt stands; ended: finish() has run;
\* aborted: the attempt's own signal; outcome: what the operation waits for.
Attempts ==
  [target : Targets,
   exec : {"calling", "queued", "admitted", "reserved", "running", "finished"},
   ended : BOOLEAN, aborted : BOOLEAN,
   outcome : {"pending", "ok", "retryable", "fallback", "stop", "aborted", "left"},
   lease : {"none", "held", "released"}, window : Nat, tokens : Nat,
   money : {"none", "held", "cancelled", "spent", "uncertain"}, cost : Nat]

CandidatesOK == /\ cand \in [Operations -> Nat]
                /\ \A o \in Operations : cand[o] \in 1..Len(Route[o])

TypeOK ==
  /\ BreakerTypeOK /\ LimitsTypeOK
  /\ pc \in [Operations -> {"idle", "choosing", "attempting", "paused", "streaming",
                            "deciding", "backoff", "over"}]
  /\ CandidatesOK
  /\ retry \in [Operations -> 0..MaxRetries]
  /\ cancelled \in [Operations -> BOOLEAN]
  /\ att \in [Operations -> Seq(Attempts)]

Init == /\ BreakerInit /\ LimitsInit
        /\ pc = [o \in Operations |-> "idle"]
        /\ cand = [o \in Operations |-> 1]
        /\ retry = [o \in Operations |-> 0]
        /\ cancelled = [o \in Operations |-> FALSE]
        /\ att = [o \in Operations |-> <<>>]

Current(o) == att[o][Len(att[o])]

\* The operation waits for the outcome of its current attempt, or for the next
\* event of its stream; paused, it waits for the reader.
Waiting(o) == /\ pc[o] \in {"attempting", "streaming"}
              /\ Current(o).outcome = "pending"

Goto(o, place) == pc' = [pc EXCEPT ![o] = place]

Begin(o) == /\ pc[o] = "idle"
            /\ Goto(o, "choosing")
            /\ UNCHANGED <<now, policyVars, cand, retry, cancelled, att>>

----------------------------------------------------------------------------
(* The loop over candidates and retries *)

NextCandidate(o) ==
  /\ Goto(o, IF cand[o] < Len(Route[o]) THEN "choosing" ELSE "over")
  /\ cand' = [cand EXCEPT ![o] = IF @ < Len(Route[o]) THEN @ + 1 ELSE @]
  /\ retry' = [retry EXCEPT ![o] = 0]

NewAttempt(o, t) ==
  [target |-> t, exec |-> "calling", ended |-> FALSE, aborted |-> cancelled[o],
   outcome |-> IF cancelled[o] THEN "aborted" ELSE "pending",
   lease |-> "none", window |-> 0, tokens |-> 0, money |-> "none", cost |-> 0]

\* A permit, one of the operation's attempts, and the executor is called.  The
\* permit is given back at once when no attempt is left.
Choose(o) ==
  LET t == Route[o][cand[o]]
  IN /\ pc[o] = "choosing" /\ circuit[t].epoch < MaxEpoch
     /\ \/ /\ Refuse(t)
           /\ NextCandidate(o)
           /\ UNCHANGED att
        \/ /\ Len(att[o]) < MaxTotalAttempts
           /\ Acquire(o, t)
           /\ att' = [att EXCEPT ![o] = Append(@, NewAttempt(o, t))]
           /\ Goto(o, "attempting")
           /\ UNCHANGED <<cand, retry>>
        \/ /\ Len(att[o]) = MaxTotalAttempts
           /\ GrantAndReturn(t)
           /\ Goto(o, "over")
           /\ UNCHANGED <<cand, retry, att>>
     /\ UNCHANGED <<now, admissionVars, account, cancelled>>

\* The permit's outcome, from the outcome of the attempt.  The caller's abort
\* makes every failure neutral.
PermitOutcome(o) ==
  CASE Current(o).outcome = "ok" -> "success"
    [] Current(o).outcome = "retryable" /\ ~cancelled[o] -> "retryable-error"
    [] OTHER -> "neutral"

\* Mutant: an attempt that is tried again keeps its permit.
ConcludeDropping(o) ==
  LET a == Current(o)
      done == pc[o] = "streaming" \/ cancelled[o] \/ a.outcome \in {"ok", "stop"}
  IN /\ pc[o] \in {"attempting", "streaming"} /\ a.outcome # "pending"
     /\ IF done THEN EndOnce(o, PermitOutcome(o)) ELSE UNCHANGED breakerVars
     /\ Goto(o, IF done THEN "over" ELSE "deciding")
     /\ UNCHANGED <<now, admissionVars, account, cand, retry, cancelled, att>>

\* The operation is told how its attempt ended, and ends the permit.
Conclude(o) ==
  LET a == Current(o)
  IN /\ pc[o] \in {"attempting", "streaming"} /\ a.outcome # "pending"
     /\ EndOnce(o, PermitOutcome(o))
     /\ Goto(o, IF \/ pc[o] = "streaming" \/ cancelled[o]
                   \/ a.outcome \in {"ok", "stop"}
                THEN "over" ELSE "deciding")
     /\ UNCHANGED <<now, admissionVars, account, cand, retry, cancelled, att>>

\* After the attempt was recorded: another try unless the circuit is open.
Decide(o) ==
  LET a == Current(o)
  IN /\ pc[o] = "deciding"
     /\ IF /\ a.outcome = "retryable" /\ circuit[a.target].state # "open"
           /\ retry[o] < MaxRetries
        THEN Goto(o, "backoff") /\ UNCHANGED <<cand, retry>>
        ELSE NextCandidate(o)
     /\ UNCHANGED <<now, policyVars, cancelled, att>>

\* The sleep between two tries ends, or is aborted.
Backoff(o) ==
  /\ pc[o] = "backoff"
  /\ IF cancelled[o]
     THEN Goto(o, "over") /\ UNCHANGED retry
     ELSE Goto(o, "choosing") /\ retry' = [retry EXCEPT ![o] = @ + 1]
  /\ UNCHANGED <<now, policyVars, cand, cancelled, att>>

----------------------------------------------------------------------------
(* The executor: begin, start and finish of one attempt *)

\* finish(usage): once, of what the executor knows to hold.  A slot granted to
\* a begin() that is still to continue is not known yet, nor is a reservation.
Finished(a, usage) ==
  LET slot == ~a.ended /\ a.lease = "held" /\ a.exec # "admitted"
      paid == ~a.ended /\ a.money = "held" /\ a.exec = "running"
  IN [a |-> [a EXCEPT
        !.ended = TRUE,
        !.lease = IF slot THEN "released" ELSE @,
        !.tokens = IF slot THEN usage.tokens ELSE @,
        !.money = IF paid THEN (IF usage.priced THEN "spent" ELSE "uncertain") ELSE @,
        !.cost = IF paid /\ usage.priced THEN usage.cost ELSE @],
      slots |-> IF slot
                THEN [slots EXCEPT ![a.target] = Released(@, a.window, usage.tokens)]
                ELSE slots,
      account |-> IF paid THEN Settled(account, usage.priced, usage.cost) ELSE account]

\* What the operation hears, unless it has given the attempt up.
Heard(a, outcome) == IF a.outcome = "pending" THEN outcome ELSE a.outcome

Fail(o, i, outcome) ==
  LET a == att[o][i]  f == Finished(a, NoUsage)
  IN /\ att' = [att EXCEPT ![o][i] = [f.a EXCEPT !.exec = "finished",
                                                 !.outcome = Heard(a, outcome)]]
     /\ slots' = f.slots /\ account' = f.account

\* admission.acquire: a slot, a place in the queue, or a refusal; a call that
\* waits polls until its time is over.
Admit(o, i) ==
  LET a == att[o][i]
      t == a.target
      Denied == [att EXCEPT ![o][i] = [a EXCEPT !.exec = "finished", !.ended = TRUE,
                                                !.outcome = Heard(a, "fallback")]]
  IN /\ a.exec \in {"calling", "queued"}
     /\ \/ /\ a.aborted
           /\ Fail(o, i, "aborted")
           /\ UNCHANGED queued
        \/ /\ ~a.aborted /\ TakeSlot(t)
           /\ att' = [att EXCEPT ![o][i] =
                [a EXCEPT !.exec = "admitted", !.lease = "held",
                          !.window = Renewed(slots[t]).resetAt, !.tokens = ReserveTokens]]
           /\ queued' = IF a.exec = "queued" THEN queued - 1 ELSE queued
           /\ UNCHANGED account
        \/ /\ ~a.aborted /\ a.exec = "calling" /\ NoSlot(t)
           /\ IF queued < MaxQueue
              THEN /\ att' = [att EXCEPT ![o][i].exec = "queued"]
                   /\ queued' = queued + 1
              ELSE att' = Denied /\ UNCHANGED queued
           /\ UNCHANGED account
        \/ /\ ~a.aborted /\ a.exec = "queued" /\ NoSlot(t)
           /\ att' = Denied
           /\ queued' = queued - 1
           /\ UNCHANGED account
     /\ UNCHANGED <<now, breakerVars, opVars>>

\* The slot came too late, and is given back; or it is kept for a reservation,
\* and given back when the budget refuses one.
LateSlot(o, i) ==
  LET a == att[o][i]
  IN /\ att' = [att EXCEPT ![o][i] = [a EXCEPT !.exec = "finished", !.lease = "released"]]
     /\ slots' = [slots EXCEPT ![a.target] = Released(@, a.window, ReserveTokens)]
     /\ UNCHANGED account

AskBudget(o, i) ==
  LET a == att[o][i]
  IN \/ /\ Affordable
        /\ account' = Reserved(account)
        /\ att' = [att EXCEPT ![o][i] = [a EXCEPT !.exec = "reserved", !.money = "held"]]
        /\ UNCHANGED slots
     \/ /\ ~Affordable
        /\ att' = [att EXCEPT ![o][i] = [a EXCEPT !.exec = "finished", !.ended = TRUE,
                                           !.lease = "released", !.outcome = Heard(a, "stop")]]
        /\ slots' = [slots EXCEPT ![a.target] = Released(@, a.window, ReserveTokens)]
        /\ UNCHANGED account

\* Mutant: begin() looks at its signal before it waits for a slot, not after.
ReserveUnchecked(o, i) == /\ att[o][i].exec = "admitted"
                          /\ AskBudget(o, i)
                          /\ UNCHANGED <<now, breakerVars, queued, opVars>>

\* begin() continues with its slot.
Reserve(o, i) == /\ att[o][i].exec = "admitted"
                 /\ IF att[o][i].aborted THEN LateSlot(o, i) ELSE AskBudget(o, i)
                 /\ UNCHANGED <<now, breakerVars, queued, opVars>>

\* begin() continues with its reservation, start() and the provider is called.
Dispatch(o, i) ==
  LET a == att[o][i]
  IN /\ a.exec = "reserved"
     /\ \/ /\ a.aborted
           /\ att' = [att EXCEPT ![o][i] = [a EXCEPT !.exec = "finished", !.money = "cancelled"]]
           /\ account' = Cancelled(account)
        \/ /\ ~a.aborted
           /\ att' = [att EXCEPT ![o][i].exec = "running"]
           /\ UNCHANGED account
     /\ UNCHANGED <<now, breakerVars, admissionVars, opVars>>

\* The provider answers, however late: with a result, at the end of a stream,
\* or with an error.  A stream nobody pulls does not end.
Answer(o, i) ==
  LET a == att[o][i]
  IN /\ a.exec = "running"
     /\ ~(pc[o] = "paused" /\ i = Len(att[o]))
     /\ \E usage \in Usages \cup {NoUsage}, outcome \in {"ok", "retryable", "fallback", "stop"} :
          LET f == Finished(a, usage)
          IN /\ outcome = "ok" /\ o \in Streams /\ a.outcome = "pending" => pc[o] = "streaming"
             /\ att' = [att EXCEPT ![o][i] = [f.a EXCEPT !.exec = "finished",
                                                         !.outcome = Heard(a, outcome)]]
             /\ slots' = f.slots /\ account' = f.account
     /\ UNCHANGED <<now, breakerVars, queued, opVars>>

----------------------------------------------------------------------------
(* Streams, timeouts and cancellation *)

\* The first event of a stream: the attempt's timeout is stopped.
FirstEvent(o) == /\ o \in Streams /\ pc[o] = "attempting" /\ Waiting(o)
                 /\ Current(o).exec = "running"
                 /\ Goto(o, "paused")
                 /\ UNCHANGED <<now, policyVars, cand, retry, cancelled, att>>

\* The reader pulls; the next event is yielded to it.
Pull(o) == /\ pc[o] = "paused"
           /\ Goto(o, "streaming")
           /\ UNCHANGED <<now, policyVars, cand, retry, cancelled, att>>

NextEvent(o) == /\ pc[o] = "streaming" /\ Waiting(o)
                /\ Goto(o, "paused")
                /\ UNCHANGED <<now, policyVars, cand, retry, cancelled, att>>

\* Mutant: only the poll counts a call out of the queue.
AbortAttemptStaying(o, outcome) ==
  LET a == Current(o)
      f == Finished(a, NoUsage)
  IN /\ att' = [att EXCEPT ![o][Len(att[o])] =
          [f.a EXCEPT !.aborted = TRUE, !.outcome = outcome,
                      !.exec = IF @ = "queued" THEN "finished" ELSE @]]
     /\ slots' = f.slots /\ account' = f.account
     /\ UNCHANGED queued

\* The attempt's signal is aborted: finish() runs in its listener, a call
\* queued for admission leaves the queue, and the operation stops waiting.
AbortAttempt(o, outcome) ==
  LET a == Current(o)
      f == Finished(a, NoUsage)
  IN /\ att' = [att EXCEPT ![o][Len(att[o])] =
          [f.a EXCEPT !.aborted = TRUE, !.outcome = outcome,
                      !.exec = IF @ = "queued" THEN "finished" ELSE @]]
     /\ slots' = f.slots /\ account' = f.account
     /\ queued' = IF a.exec = "queued" THEN queued - 1 ELSE queued

\* The timer of an attempt, and the idle timer of a stream, which acts while the
\* next event is waited for.
Timeout(o) == /\ Waiting(o)
              /\ pc[o] = "streaming" => o \in IdleTimed
              /\ AbortAttempt(o, IF pc[o] = "attempting" THEN "retryable" ELSE "fallback")
              /\ UNCHANGED <<now, breakerVars, opVars>>

\* The caller's signal, also by the deadline of the whole operation, and by the
\* caller that returns its own iterator.  A suspended generator does not notice.
CallerAbort(o) ==
  /\ pc[o] \notin {"idle", "over"} /\ ~cancelled[o]
  /\ cancelled' = [cancelled EXCEPT ![o] = TRUE]
  /\ IF pc[o] \in {"attempting", "paused", "streaming"} /\ Current(o).outcome \in {"pending", "ok"}
     THEN AbortAttempt(o, "aborted")
     ELSE UNCHANGED <<slots, account, queued, att>>
  /\ UNCHANGED <<now, breakerVars, pc, cand, retry>>

\* The reader's loop is left, which returns the suspended generator.
ConsumerReturn(o) == /\ pc[o] = "paused"
                     /\ IF Current(o).outcome = "pending"
                        THEN AbortAttempt(o, "left")
                        ELSE UNCHANGED <<slots, account, queued, att>>
                     /\ EndOnce(o, "neutral")
                     /\ Goto(o, "over")
                     /\ UNCHANGED <<now, cand, retry, cancelled>>

----------------------------------------------------------------------------

Tick == /\ now < MaxTime
        /\ now' = now + 1
        /\ UNCHANGED <<policyVars, opVars, att>>

Loop(o) == Choose(o) \/ Conclude(o) \/ Decide(o) \/ Backoff(o)
Execute(o) == \E i \in DOMAIN att[o] : Admit(o, i) \/ Reserve(o, i) \/ Dispatch(o, i)

Next == \/ Tick
        \/ \E o \in Operations :
             \/ Begin(o) \/ Loop(o) \/ Execute(o)
             \/ \E i \in DOMAIN att[o] : Answer(o, i)
             \/ FirstEvent(o) \/ Pull(o) \/ NextEvent(o)
             \/ Timeout(o) \/ CallerAbort(o) \/ ConsumerReturn(o)

\* Promises are continued and the timers that are armed fire.  Nothing makes a
\* provider answer, a reader pull or return, a caller abort or time reach any
\* given quota window.
Fairness == \A o \in Operations : /\ WF_vars(Loop(o)) /\ WF_vars(Execute(o))
                                  /\ WF_vars(Timeout(o))

Spec == Init /\ [][Next]_vars /\ Fairness

----------------------------------------------------------------------------
(* Properties *)

Made == {m \in Operations \X (1..MaxTotalAttempts) : m[2] \in DOMAIN att[m[1]]}
Of(m) == att[m[1]][m[2]]

\* What f says of the attempts in a set, together.
Total(set, f) == SumFunctionOnSet(f, set)

\* No operation asks for a permit while it still has one, which would leave the
\* first one counted in flight for good, by whatever way it left its last
\* attempt; and their circuits behave as those of the breaker's own specification.
KeepsToBreaker == BreakerSpec

\* The counters of the admission controller say what the attempts hold, and
\* never pass their limits: slots, and places in the queue.
SlotsExact ==
  /\ \A t \in Targets :
       /\ slots[t].active = Cardinality({m \in Made : Of(m).lease = "held" /\ Of(m).target = t})
       /\ slots[t].active <= MaxConcurrent
  /\ queued = Cardinality({m \in Made : Of(m).exec = "queued"})
  /\ queued <= MaxQueue

\* A quota window counts the tokens of the attempts admitted in it, what they
\* used where that is known and what they reserved otherwise, whichever window
\* they end in.
QuotaExact ==
  \A t \in Targets :
    LET counted == {m \in Made : /\ Of(m).target = t /\ Of(m).lease # "none"
                                 /\ Of(m).window = slots[t].resetAt}
    IN /\ slots[t].requests = Cardinality(counted)
       /\ slots[t].tokens = Total(counted, [m \in Made |-> Of(m).tokens])

\* No provider is called without a reservation, every reservation of a call
\* that was made ends as its price or as uncertain spend and no other one is
\* kept, and the limit is only passed by prices above the reservation.
SpendingExact ==
  LET kept(money) == {m \in Made : Of(m).money = money}
      over == [m \in Made |-> IF Of(m).cost > ReserveAmount
                             THEN Of(m).cost - ReserveAmount ELSE 0]
  IN /\ account.reserved = ReserveAmount * Cardinality(kept("held"))
     /\ account.uncertain = ReserveAmount * Cardinality(kept("uncertain"))
     /\ account.spent = Total(kept("spent"), [m \in Made |-> Of(m).cost])
     /\ \A m \in Made : Of(m).exec = "running" => Of(m).money \in {"held", "spent", "uncertain"}
     /\ account.spent + account.reserved + account.uncertain
          <= Limit + Total(Made, over)

Over(o) == pc[o] = "over"
NothingReserved(o) ==
  \A i \in DOMAIN att[o] : /\ att[o][i].lease # "held" /\ att[o][i].money # "held"
                            /\ att[o][i].exec # "queued"

\* A stream has an idle timeout, and a reader that takes what there is: it does
\* not leave the generator suspended, nor is there always one more event.
ReadToItsEnd(o) == o \in Streams => o \in IdleTimed /\ <>[](pc[o] # "paused")

\* An operation comes to an end, though its provider never answers, and all that
\* its attempts acquired, also after they were given up, is given back; a stream
\* if it is read.  Slots, places in the queue and reservations, not the permit,
\* are given back for a caller's abort alone.
EverythingGivenBack ==
  \A o \in Operations :
    /\ ReadToItsEnd(o) => (pc[o] # "idle" ~> Over(o) /\ ~Holds(o) /\ NothingReserved(o))
    /\ cancelled[o] ~> NothingReserved(o)
====
