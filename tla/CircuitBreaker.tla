---- MODULE CircuitBreaker ----
(***************************************************************************)
(* createGatewayCircuitBreaker: one circuit per target, in a bounded map.  *)
(* A caller asks for a permit before each call of a target and ends it     *)
(* with the call's outcome.  Every method runs without an await.           *)
(***************************************************************************)
EXTENDS Integers, FiniteSets

CONSTANTS Callers,            \* each holds at most one permit
          Targets,            \* destinations: provider, model, deployment
          FailureThreshold, HalfOpenMaxProbes,
          MaxCircuits,        \* maxTargets
          Cooldowns,          \* the lengths of time a circuit may be opened for
          MaxTime, MaxEpoch   \* bounds of the model: clock and transitions

ASSUME BreakerAssumption ==
  /\ FailureThreshold \in Nat \ {0} /\ HalfOpenMaxProbes \in Nat \ {0}
  /\ MaxCircuits \in Nat \ {0} /\ Cooldowns \subseteq Nat \ {0}
  /\ IsFiniteSet(Callers) /\ "none" \notin Targets
  /\ MaxTime \in Nat /\ MaxEpoch \in Nat

VARIABLES now,      \* the clock
          tracked,  \* the targets with an entry
          circuit,  \* target -> its entry, NewCircuit for the others
          permit    \* caller -> the permit it holds, or NoPermit

breakerVars == <<tracked, circuit, permit>>

States == {"closed", "open", "half-open"}
Circuits == [state : States, failures : Nat, inFlight : Int,
             epoch : Nat, openUntil : Nat]
NewCircuit == [state |-> "closed", failures |-> 0, inFlight |-> 0,
               epoch |-> 0, openUntil |-> 0]

\* probe is history: the circuit was half open when the permit was given.
Permits == [target : Targets, epoch : Nat, probe : BOOLEAN]
NoPermit == [target |-> "none", epoch |-> 0, probe |-> FALSE]
Holds(c) == permit[c] # NoPermit

BreakerTypeOK == /\ now \in Nat
                 /\ tracked \in SUBSET Targets
                 /\ circuit \in [Targets -> Circuits]
                 /\ permit \in [Callers -> Permits \cup {NoPermit}]

BreakerInit == /\ now = 0
               /\ tracked = {}
               /\ circuit = [t \in Targets |-> NewCircuit]
               /\ permit = [c \in Callers |-> NoPermit]

----------------------------------------------------------------------------
(* acquire *)

\* Mutant: any closed circuit may be forgotten.
IdleInUse == {t \in tracked : circuit[t].state = "closed"}

\* A full map makes room by forgetting a closed circuit nobody uses.
Idle == {t \in tracked : circuit[t].inFlight = 0 /\ circuit[t].state = "closed"}
MapFull(t) == t \notin tracked /\ Cardinality(tracked) >= MaxCircuits

CoolingDown(x) == x.state = "open" /\ now < x.openUntil

\* The circuit acquire looks at: half open once its time is over.
Probing(x) ==
  IF x.state = "open"
  THEN [state |-> "half-open", failures |-> x.failures, inFlight |-> x.inFlight,
        epoch |-> x.epoch + 1, openUntil |-> x.openUntil]
  ELSE x

\* Mutant: one probe too many.
SaturatedLate(x) == x.state = "half-open" /\ x.inFlight > HalfOpenMaxProbes

Saturated(x) == x.state = "half-open" /\ x.inFlight >= HalfOpenMaxProbes

Refuses(t) == \/ MapFull(t) /\ Idle = {}
              \/ CoolingDown(circuit[t])
              \/ Saturated(Probing(circuit[t]))

\* No permit.  A circuit that has cooled down is half open from then on, also
\* when calls made before it opened still take all its probes.
Refuse(t) ==
  /\ Refuses(t)
  /\ circuit' = [circuit EXCEPT ![t] = IF CoolingDown(@) THEN @ ELSE Probing(@)]
  /\ UNCHANGED <<tracked, permit>>

Room(t, forgotten) ==
  /\ ~Refuses(t)
  /\ IF MapFull(t) THEN \E u \in Idle : forgotten = {u} ELSE forgotten = {}
  /\ tracked' = (tracked \ forgotten) \cup {t}

\* Nothing keeps a caller from asking again before its last permit has ended,
\* which is then lost to it.
Acquire(c, t) ==
  LET x == Probing(circuit[t])
  IN /\ \E forgotten \in SUBSET tracked :
          /\ Room(t, forgotten)
          /\ circuit' = [u \in Targets |->
               IF u = t THEN [x EXCEPT !.inFlight = @ + 1]
               ELSE IF u \in forgotten THEN NewCircuit ELSE circuit[u]]
     /\ permit' = [permit EXCEPT ![c] =
          [target |-> t, epoch |-> x.epoch, probe |-> x.state = "half-open"]]

\* A caller that keeps to one permit at a time.
Grant(c, t) == ~Holds(c) /\ Acquire(c, t)

\* A permit that is given back, neutral, before anything else happens.
GrantAndReturn(t) ==
  /\ \E forgotten \in SUBSET tracked :
       /\ Room(t, forgotten)
       /\ circuit' = [u \in Targets |->
            IF u = t THEN Probing(circuit[t])
            ELSE IF u \in forgotten THEN NewCircuit ELSE circuit[u]]
  /\ UNCHANGED permit

----------------------------------------------------------------------------
(* end *)

Outcomes == {"success", "retryable-error", "neutral"}

Succeeded(x) ==
  [state |-> "closed", failures |-> 0, inFlight |-> x.inFlight,
   epoch |-> IF x.state = "closed" THEN x.epoch ELSE x.epoch + 1, openUntil |-> 0]

Failed(x, cooldown) ==
  IF x.state = "half-open" \/ x.failures + 1 >= FailureThreshold
  THEN [state |-> "open", failures |-> x.failures + 1, inFlight |-> x.inFlight,
        epoch |-> x.epoch + 1, openUntil |-> now + cooldown]
  ELSE [x EXCEPT !.failures = @ + 1]

\* Mutant: the outcome of a call counts whenever the call was made.
EndedAnyEpoch(x, epoch, outcome, cooldown) ==
  LET y == [x EXCEPT !.inFlight = @ - 1]
  IN CASE outcome = "success" -> Succeeded(y)
       [] outcome = "retryable-error" -> Failed(y, cooldown)
       [] OTHER -> y

\* The call is over; its outcome counts in the epoch the call was made in.
Ended(x, epoch, outcome, cooldown) ==
  LET y == [x EXCEPT !.inFlight = @ - 1]
  IN CASE epoch = x.epoch /\ outcome = "success" -> Succeeded(y)
       [] epoch = x.epoch /\ outcome = "retryable-error" -> Failed(y, cooldown)
       [] OTHER -> y

End(c, outcome) ==
  LET p == permit[c]
  IN /\ Holds(c)
     /\ \E cooldown \in Cooldowns :
          circuit' = [circuit EXCEPT ![p.target] = Ended(@, p.epoch, outcome, cooldown)]
     /\ permit' = [permit EXCEPT ![c] = NoPermit]
     /\ UNCHANGED tracked

\* end() of a permit that has ended does nothing.
EndOnce(c, outcome) == IF Holds(c) THEN End(c, outcome) ELSE UNCHANGED breakerVars

----------------------------------------------------------------------------
(* The breaker under callers that do anything with their permits *)

breakerSpecVars == <<now, breakerVars>>

BreakerTick == now < MaxTime /\ now' = now + 1 /\ UNCHANGED breakerVars

BreakerNext ==
  \/ BreakerTick
  \/ /\ UNCHANGED now
     /\ \/ \E t \in Targets : /\ circuit[t].epoch < MaxEpoch
                              /\ \/ Refuse(t) \/ GrantAndReturn(t)
                                 \/ \E c \in Callers : Grant(c, t)
        \/ \E c \in Callers, outcome \in Outcomes : End(c, outcome)

BreakerSpec == BreakerInit /\ [][BreakerNext]_breakerSpecVars

----------------------------------------------------------------------------
(* Properties *)

Live(t) == {c \in Callers : Holds(c) /\ permit[c].target = t}

\* gateway/README.md, circuit breaker: recovery allows so many concurrent
\* probes and no more, however many calls made before the circuit opened are
\* still in flight or end while it is half open.
ProbesBounded ==
  \A t \in Targets : circuit[t].state = "half-open" =>
    Cardinality({c \in Live(t) : permit[c].epoch = circuit[t].epoch}) <= HalfOpenMaxProbes

\* The success of a probe made in this half-open period of t.
ProbeSucceeds(t) ==
  \E c \in Live(t) : /\ permit[c].probe /\ permit[c].epoch = circuit[t].epoch
                     /\ End(c, "success")

\* An open circuit stays open until its time is over, and is closed by nothing
\* but the success of a probe of this very half-open period: late results of
\* calls made before do neither, also after the circuit was forgotten.
RecoversByProbe ==
  [][\A t \in Targets :
       /\ CoolingDown(circuit[t]) => circuit'[t].state = "open"
       /\ circuit[t].state # "closed" /\ circuit'[t].state = "closed"
            => ProbeSucceeds(t)]_breakerSpecVars

\* The counter of calls in flight is the number of permits, and no entry is
\* forgotten while one of its permits is out.
InFlightExact ==
  \A t \in Targets : /\ circuit[t].inFlight = Cardinality(Live(t))
                     /\ Live(t) # {} => t \in tracked
====
