---- MODULE GatewayProofs ----
(***************************************************************************)
(* What the gateway promises, for any operations, routes, targets and      *)
(* limits.                                                                 *)
(*                                                                         *)
(* The circuit breaker, under any callers that keep to its rules: the      *)
(* counter of calls in flight is the number of permits, the probes of a    *)
(* half-open circuit are bounded, and a circuit recovers by a probe of its *)
(* own half-open period only.  The strengthening relates the epoch of a    *)
(* permit to the state of its circuit: a permit of the current epoch was   *)
(* given in the state the circuit is still in, because every transition    *)
(* begins another epoch.                                                   *)
(*                                                                         *)
(* The operations keep to those rules: every step of Gateway is a step of  *)
(* CircuitBreaker or leaves it alone, for which only the candidates have   *)
(* to be known as those of the route.                                      *)
(*                                                                         *)
(* The admission controller and the budget: their counters say what the    *)
(* attempts hold and have used.  The invariant has every counter as a      *)
(* tally, a sum over all the attempts there may be of what an attempt      *)
(* contributes, and says what an attempt may hold where its executor       *)
(* stands; a step that changes one attempt changes a tally by what that    *)
(* attempt contributes before and after.                                   *)
(***************************************************************************)
EXTENDS Gateway, SumTheorems, TLAPS

----------------------------------------------------------------------------
(* The breaker                                                             *)

\* A permit belongs to the current epoch of its circuit or to an earlier one,
\* and in the current one it says whether the circuit is half open.
PermitEpochs ==
  \A c \in Callers : Holds(c) =>
    LET x == circuit[permit[c].target]
    IN /\ permit[c].epoch <= x.epoch
       /\ permit[c].epoch = x.epoch => /\ x.state # "open"
                                       /\ permit[c].probe <=> x.state = "half-open"

BreakerInv == /\ BreakerTypeOK /\ InFlightExact
              /\ PermitEpochs /\ ProbesBounded

\* The callers with a permit of the current epoch of t.
Probers(t) == {c \in Live(t) : permit[c].epoch = circuit[t].epoch}

----------------------------------------------------------------------------
(* Entries *)

\* The circuit acquire looks at is an entry, in the same epoch unless it was
\* open, and never open.
LEMMA ProbingEntry ==
  ASSUME NEW x \in Circuits
  PROVE  /\ Probing(x) \in Circuits
         /\ Probing(x).state # "open"
         /\ Probing(x).inFlight = x.inFlight
         /\ x.state # "open" => Probing(x) = x
         /\ x.state = "open" => /\ Probing(x).state = "half-open"
                                /\ Probing(x).epoch = x.epoch + 1
  <1>1. CASE x.state = "open"
    <2>1. Probing(x) = [state |-> "half-open", failures |-> x.failures,
                        inFlight |-> x.inFlight, epoch |-> x.epoch + 1,
                        openUntil |-> x.openUntil]
      BY <1>1 DEF Probing
    <2>2. /\ x.failures \in Nat /\ x.inFlight \in Int /\ x.epoch + 1 \in Nat
          /\ x.openUntil \in Nat
      BY SMT DEF Circuits
    <2> QED  BY <1>1, <2>1, <2>2, SMT DEF Circuits, States
  <1>2. CASE x.state # "open"
    BY <1>2 DEF Probing
  <1> QED  BY <1>1, <1>2

\* The entry a permit leaves when it ends.
LEMMA EndedEntry ==
  ASSUME NEW x \in Circuits, NEW epoch \in Nat, NEW outcome \in Outcomes,
         NEW cooldown \in Cooldowns, now \in Nat
  PROVE  LET y == Ended(x, epoch, outcome, cooldown)
         IN /\ y \in Circuits
            /\ y.inFlight = x.inFlight - 1
            /\ (y.epoch = x.epoch /\ y.state = x.state) \/ y.epoch = x.epoch + 1
            /\ epoch # x.epoch => y.epoch = x.epoch /\ y.state = x.state
            /\ y.state = "closed" /\ x.state # "closed"
                 => outcome = "success" /\ epoch = x.epoch
  <1> DEFINE d == [x EXCEPT !.inFlight = @ - 1]
  <1>0. cooldown \in Nat
    BY BreakerAssumption
  <1>1. /\ d \in Circuits /\ d.inFlight = x.inFlight - 1
        /\ d.epoch = x.epoch /\ d.state = x.state
    BY SMT DEF Circuits, States
  <1>2. /\ Succeeded(d) \in Circuits /\ Succeeded(d).inFlight = d.inFlight
        /\ \/ Succeeded(d).epoch = d.epoch /\ Succeeded(d).state = d.state
           \/ Succeeded(d).epoch = d.epoch + 1
    <2> HIDE DEF d
    <2> DEFINE e == IF d.state = "closed" THEN d.epoch ELSE d.epoch + 1
    <2>1. Succeeded(d) = [state |-> "closed", failures |-> 0, inFlight |-> d.inFlight,
                          epoch |-> e, openUntil |-> 0]
      BY DEF Succeeded
    <2>2. d.inFlight \in Int /\ e \in Nat
      BY <1>1, SMT DEF Circuits
    <2>3. (e = d.epoch /\ d.state = "closed") \/ e = d.epoch + 1
      OBVIOUS
    <2> HIDE DEF e
    <2> QED  BY <2>1, <2>2, <2>3, SMT DEF Circuits, States
  <1>3. /\ Failed(d, cooldown) \in Circuits
        /\ Failed(d, cooldown).inFlight = d.inFlight
        /\ \/ /\ Failed(d, cooldown).epoch = d.epoch
              /\ Failed(d, cooldown).state = d.state
           \/ /\ Failed(d, cooldown).epoch = d.epoch + 1
              /\ Failed(d, cooldown).state = "open"
    <2> HIDE DEF d
    <2>1. /\ d.inFlight \in Int /\ d.epoch \in Nat /\ d.failures \in Nat
          /\ d.state \in States /\ d.openUntil \in Nat
      BY <1>1, SMT DEF Circuits
    <2>2. CASE d.state = "half-open" \/ d.failures + 1 >= FailureThreshold
      <3>1. Failed(d, cooldown) =
              [state |-> "open", failures |-> d.failures + 1, inFlight |-> d.inFlight,
               epoch |-> d.epoch + 1, openUntil |-> now + cooldown]
        BY <2>2 DEF Failed
      <3> QED  BY <1>0, <2>1, <3>1, SMT DEF Circuits, States
    <2>3. CASE ~(d.state = "half-open" \/ d.failures + 1 >= FailureThreshold)
      <3>1. Failed(d, cooldown) =
              [d EXCEPT !.failures = @ + 1]
        BY <2>3 DEF Failed
      <3> QED  BY <1>1, <2>1, <3>1, SMT DEF Circuits, States
    <2> QED  BY <2>2, <2>3
  <1>4. Ended(x, epoch, outcome, cooldown) =
          CASE epoch = x.epoch /\ outcome = "success" -> Succeeded(d)
            [] epoch = x.epoch /\ outcome = "retryable-error" -> Failed(d, cooldown)
            [] OTHER -> d
    BY DEF Ended
  <1> HIDE DEF d
  <1>5. CASE epoch = x.epoch /\ outcome = "success"
    <2>1. Ended(x, epoch, outcome, cooldown) = Succeeded(d)
      BY <1>4, <1>5
    <2> QED  BY <1>1, <1>2, <1>5, <2>1
  <1>6. CASE epoch = x.epoch /\ outcome = "retryable-error"
    <2>1. Ended(x, epoch, outcome, cooldown) = Failed(d, cooldown)
      BY <1>4, <1>6
    <2> QED  BY <1>1, <1>3, <1>6, <2>1
  <1>7. CASE /\ ~(epoch = x.epoch /\ outcome = "success")
             /\ ~(epoch = x.epoch /\ outcome = "retryable-error")
    <2>1. Ended(x, epoch, outcome, cooldown) = d
      BY <1>4, <1>7
    <2> QED  BY <1>1, <1>7, <2>1
  <1> QED  BY <1>5, <1>6, <1>7

----------------------------------------------------------------------------
(* Callers with a permit *)

\* There are finitely many of them, and an unused circuit has none.
LEMMA LiveFinite ==
  ASSUME NEW t \in Targets
  PROVE  /\ IsFiniteSet(Live(t)) /\ Cardinality(Live(t)) \in Nat
         /\ Cardinality(Live(t)) = 0 => Live(t) = {}
  <1>1. Live(t) \subseteq Callers
    BY DEF Live
  <1>2. IsFiniteSet(Live(t))
    BY <1>1, FS_Subset, BreakerAssumption
  <1> QED  BY <1>2, FS_CardinalityType, FS_EmptySet

\* A subset of a bounded set of callers is bounded.
LEMMA BoundedSubset ==
  ASSUME NEW S, IsFiniteSet(S), NEW R, R \subseteq S, NEW k \in Nat, Cardinality(S) <= k
  PROVE  Cardinality(R) <= k
  <1>1. /\ Cardinality(R) <= Cardinality(S) /\ IsFiniteSet(R)
    BY FS_Subset
  <1>2. Cardinality(R) \in Nat /\ Cardinality(S) \in Nat
    BY <1>1, FS_CardinalityType
  <1> QED  BY <1>1, <1>2, SMT

\* Initially nobody has a permit.
LEMMA BreakerInitInv == BreakerInit => BreakerInv
  <1> SUFFICES ASSUME BreakerInit PROVE BreakerInv
    OBVIOUS
  <1>1. NewCircuit \in Circuits
    BY SMT DEF NewCircuit, Circuits, States
  <1>2. BreakerTypeOK
    BY <1>1, SMT DEF BreakerInit, BreakerTypeOK
  <1>3. \A t \in Targets : Live(t) = {} /\ circuit[t] = NewCircuit
    BY DEF BreakerInit, Live, Holds
  <1>4. InFlightExact
    <2>1. Cardinality({}) = 0
      BY FS_EmptySet
    <2>2. ASSUME NEW t \in Targets
          PROVE  /\ circuit[t].inFlight = Cardinality(Live(t))
                 /\ Live(t) = {}
      <3>1. Live(t) = {} /\ circuit[t].inFlight = 0
        BY <1>3 DEF NewCircuit
      <3> QED  BY <2>1, <3>1
    <2> QED  BY <2>2 DEF InFlightExact
  <1>5. PermitEpochs
    BY DEF BreakerInit, PermitEpochs, Holds
  <1>6. ProbesBounded
    BY <1>3 DEF ProbesBounded, NewCircuit
  <1> QED  BY <1>2, <1>4, <1>5, <1>6 DEF BreakerInv

----------------------------------------------------------------------------
(* acquire *)

\* What every kind of acquire does to the circuits: t is probed or left as it
\* is, closed circuits nobody uses are forgotten, the others stay.
Acquires(t, forgotten, y) ==
  /\ forgotten \subseteq Idle /\ t \notin forgotten
  /\ y \in {circuit[t], Probing(circuit[t])}
  /\ tracked \ forgotten \subseteq tracked' /\ tracked' \in SUBSET Targets

\* A call of acquire that leaves no permit keeps the invariant: a new epoch
\* begins without probes.
LEMMA AcquireNothing ==
  ASSUME BreakerInv, NEW t \in Targets, NEW forgotten, NEW y,
         Acquires(t, forgotten, y), UNCHANGED <<now, permit>>,
         circuit' = [u \in Targets |->
                      IF u = t THEN y
                      ELSE IF u \in forgotten THEN NewCircuit ELSE circuit[u]]
  PROVE  BreakerInv'
  <1>0. BreakerTypeOK /\ InFlightExact /\ PermitEpochs /\ ProbesBounded
    BY DEF BreakerInv
  <1>1. \A u \in Targets : circuit[u] \in Circuits
    BY <1>0 DEF BreakerTypeOK
  <1>2. /\ y \in Circuits /\ y.inFlight = circuit[t].inFlight
        /\ \/ y = circuit[t]
           \/ y.epoch = circuit[t].epoch + 1 /\ circuit[t].state = "open"
    BY <1>1, ProbingEntry DEF Acquires
  <1>3. /\ NewCircuit \in Circuits
        /\ NewCircuit.inFlight = 0 /\ NewCircuit.state = "closed"
    BY SMT DEF NewCircuit, Circuits, States
  <1>4. BreakerTypeOK'
    <2>1. circuit' \in [Targets -> Circuits]
      BY <1>1, <1>2, <1>3
    <2> QED  BY <1>0, <2>1 DEF BreakerTypeOK, Acquires
  <1>5. \A u \in Targets : Live(u)' = Live(u)
    BY DEF Live, Holds
  <1>6. \A u \in forgotten : u \in Targets /\ Live(u) = {} /\ u # t
    <2> SUFFICES ASSUME NEW u \in forgotten PROVE u \in Targets /\ Live(u) = {} /\ u # t
      OBVIOUS
    <2>1. u \in tracked /\ circuit[u].inFlight = 0 /\ u # t
      BY DEF Acquires, Idle
    <2>2. u \in Targets
      BY <1>0, <2>1 DEF BreakerTypeOK
    <2>3. Cardinality(Live(u)) = 0
      BY <1>0, <2>1, <2>2 DEF InFlightExact
    <2> QED  BY <2>1, <2>2, <2>3, LiveFinite
  <1>7. InFlightExact'
    <2> SUFFICES ASSUME NEW u \in Targets
                 PROVE  /\ circuit'[u].inFlight = Cardinality(Live(u))
                        /\ Live(u) # {} => u \in tracked'
      BY <1>5 DEF InFlightExact
    <2>1. /\ circuit[u].inFlight = Cardinality(Live(u))
          /\ Live(u) # {} => u \in tracked
      BY <1>0 DEF InFlightExact
    <2>2. CASE u \in forgotten
      BY <1>3, <1>6, <2>2, FS_EmptySet
    <2>3. CASE u \notin forgotten
      BY <1>2, <2>1, <2>3 DEF Acquires
    <2> QED  BY <2>2, <2>3
  <1>8. \A c \in Callers : Holds(c) => /\ permit[c].target \in Targets \ forgotten
                                       /\ permit[c].epoch \in Nat
    <2> SUFFICES ASSUME NEW c \in Callers, Holds(c)
                 PROVE  permit[c].target \in Targets \ forgotten /\ permit[c].epoch \in Nat
      OBVIOUS
    <2>1. permit[c] \in Permits
      BY <1>0 DEF BreakerTypeOK, Holds
    <2>2. permit[c].target \in Targets /\ permit[c].epoch \in Nat
      BY <2>1, SMT DEF Permits
    <2>3. c \in Live(permit[c].target)
      BY DEF Live
    <2> QED  BY <1>6, <2>2, <2>3
  <1>9. PermitEpochs'
    <2> SUFFICES ASSUME NEW c \in Callers, Holds(c)
                 PROVE  LET x == circuit'[permit[c].target]
                        IN /\ permit[c].epoch <= x.epoch
                           /\ permit[c].epoch = x.epoch =>
                                x.state # "open" /\ (permit[c].probe <=> x.state = "half-open")
      BY DEF PermitEpochs, Holds
    <2>1. LET x == circuit[permit[c].target]
          IN /\ permit[c].epoch <= x.epoch
             /\ permit[c].epoch = x.epoch =>
                  x.state # "open" /\ (permit[c].probe <=> x.state = "half-open")
      BY <1>0 DEF PermitEpochs
    <2>2. CASE circuit'[permit[c].target] = circuit[permit[c].target]
      BY <2>1, <2>2
    <2>3. CASE permit[c].target = t /\ y.epoch = circuit[t].epoch + 1
      <3>1. circuit[t].epoch \in Nat /\ permit[c].epoch \in Nat
        BY <1>1, <1>8, SMT DEF Circuits
      <3>2. circuit'[t] = y
        OBVIOUS
      <3>3. permit[c].epoch <= circuit[t].epoch
        BY <2>1, <2>3
      <3>4. permit[c].epoch <= circuit'[t].epoch /\ permit[c].epoch # circuit'[t].epoch
        BY <2>3, <3>1, <3>2, <3>3, SMT
      <3> QED  BY <2>3, <3>4
    <2> QED  BY <1>2, <1>8, <2>2, <2>3
  <1>10. ProbesBounded'
    <2> SUFFICES ASSUME NEW u \in Targets, circuit'[u].state = "half-open"
                 PROVE  Cardinality({c \in Live(u) : permit[c].epoch = circuit'[u].epoch})
                          <= HalfOpenMaxProbes
      BY <1>5 DEF ProbesBounded
    <2>1. CASE circuit'[u] = circuit[u]
      BY <1>0, <2>1 DEF ProbesBounded
    <2>2. CASE u = t /\ y.epoch = circuit[t].epoch + 1
      <3>1. \A c \in Live(t) : permit[c].epoch # circuit'[t].epoch
        <4> SUFFICES ASSUME NEW c \in Live(t) PROVE permit[c].epoch # circuit'[t].epoch
          OBVIOUS
        <4>1. c \in Callers /\ Holds(c) /\ permit[c].target = t
          BY DEF Live
        <4>2. permit[c].epoch <= circuit[t].epoch
          BY <1>0, <4>1 DEF PermitEpochs
        <4>3. circuit[t].epoch \in Nat /\ permit[c].epoch \in Nat
          BY <1>1, <1>8, <4>1, SMT DEF Circuits
        <4>4. circuit'[t] = y
          OBVIOUS
        <4> QED  BY <2>2, <4>2, <4>3, <4>4, SMT
      <3>2. {c \in Live(u) : permit[c].epoch = circuit'[u].epoch} = {}
        BY <2>2, <3>1
      <3>3. Cardinality({c \in Live(u) : permit[c].epoch = circuit'[u].epoch}) = 0
        BY <3>2, FS_EmptySet
      <3>4. 0 <= HalfOpenMaxProbes
        BY BreakerAssumption, SMT
      <3> QED  BY <3>3, <3>4
    <2> QED  BY <1>2, <1>3, <2>1, <2>2
  <1> QED  BY <1>4, <1>7, <1>9, <1>10 DEF BreakerInv

\* The forgotten circuits of Room are idle ones, and t is not among them.
LEMMA RoomAcquires ==
  ASSUME BreakerInv, NEW t \in Targets, NEW forgotten, Room(t, forgotten)
  PROVE  /\ Acquires(t, forgotten, Probing(circuit[t]))
         /\ t \in tracked' /\ ~Refuses(t)
  <1>1. tracked \in SUBSET Targets
    BY DEF BreakerInv, BreakerTypeOK
  <1>2. forgotten \subseteq Idle
    BY DEF Room
  <1>3. t \notin forgotten
    BY DEF Room, MapFull, Idle
  <1>4. tracked' = (tracked \ forgotten) \cup {t} /\ ~Refuses(t)
    BY DEF Room
  <1> QED  BY <1>1, <1>2, <1>3, <1>4 DEF Acquires

\* A refusal, and a permit that is given back at once.
LEMMA RefuseInv ==
  ASSUME BreakerInv, NEW t \in Targets, UNCHANGED now,
         Refuse(t) \/ GrantAndReturn(t)
  PROVE  BreakerInv'
  <1>1. CASE Refuse(t)
    <2> DEFINE y == IF CoolingDown(circuit[t]) THEN circuit[t]
                    ELSE Probing(circuit[t])
    <2>1. BreakerTypeOK
      BY DEF BreakerInv
    <2>2. circuit' = [circuit EXCEPT ![t] = y] /\ UNCHANGED <<tracked, permit>>
      BY <1>1 DEF Refuse
    <2>3. circuit' = [u \in Targets |->
                       IF u = t THEN y ELSE IF u \in {} THEN NewCircuit ELSE circuit[u]]
      BY <2>1, <2>2 DEF BreakerTypeOK
    <2>4. Acquires(t, {}, y)
      BY <2>1, <2>2 DEF Acquires, BreakerTypeOK
    <2> HIDE DEF y
    <2> QED  BY <2>2, <2>3, <2>4, AcquireNothing
  <1>2. CASE GrantAndReturn(t)
    <2>1. PICK forgotten \in SUBSET tracked :
            /\ Room(t, forgotten)
            /\ circuit' = [u \in Targets |->
                 IF u = t THEN Probing(circuit[t])
                 ELSE IF u \in forgotten THEN NewCircuit ELSE circuit[u]]
      BY <1>2 DEF GrantAndReturn
    <2>2. UNCHANGED permit
      BY <1>2 DEF GrantAndReturn
    <2>3. Acquires(t, forgotten, Probing(circuit[t]))
      BY <2>1, RoomAcquires
    <2> QED  BY <2>1, <2>2, <2>3, AcquireNothing
  <1> QED  BY <1>1, <1>2

\* A permit keeps the invariant: it belongs to the epoch its circuit is in, and
\* a half-open circuit had a probe left.
LEMMA GrantInv ==
  ASSUME BreakerInv, NEW t \in Targets, NEW c \in Callers, UNCHANGED now, Grant(c, t)
  PROVE  BreakerInv'
  <1> DEFINE x == Probing(circuit[t])
             z == [x EXCEPT !.inFlight = @ + 1]
             p == [target |-> t, epoch |-> x.epoch, probe |-> x.state = "half-open"]
  <1>0. BreakerTypeOK /\ InFlightExact /\ PermitEpochs /\ ProbesBounded
    BY DEF BreakerInv
  <1>1. PICK forgotten \in SUBSET tracked :
          /\ Room(t, forgotten)
          /\ circuit' = [u \in Targets |->
               IF u = t THEN z ELSE IF u \in forgotten THEN NewCircuit ELSE circuit[u]]
    BY DEF Grant, Acquire
  <1>2. ~Holds(c) /\ permit' = [permit EXCEPT ![c] = p]
    BY DEF Grant, Acquire
  <1>3. Acquires(t, forgotten, x) /\ t \in tracked' /\ ~Refuses(t)
    BY <1>1, RoomAcquires
  <1>4. \A u \in Targets : circuit[u] \in Circuits
    BY <1>0 DEF BreakerTypeOK
  <1>5. /\ x \in Circuits /\ x.inFlight = circuit[t].inFlight /\ x.state # "open"
        /\ \/ x = circuit[t]
           \/ x.epoch = circuit[t].epoch + 1 /\ circuit[t].state = "open"
    BY <1>4, ProbingEntry
  <1>6. x.epoch \in Nat /\ x.inFlight \in Int
    BY <1>5, SMT DEF Circuits
  <1> HIDE DEF x
  <1>7. /\ z \in Circuits /\ z.inFlight = circuit[t].inFlight + 1
        /\ z.epoch = x.epoch /\ z.state = x.state
    BY <1>5, SMT DEF Circuits, States
  <1>8. /\ p \in Permits /\ p # NoPermit
        /\ p.target = t /\ p.epoch = x.epoch /\ (p.probe <=> x.state = "half-open")
    <2>1. (x.state = "half-open") \in BOOLEAN
      OBVIOUS
    <2>2. p \in Permits
      BY <1>6, <2>1, Zenon DEF Permits
    <2>3. p.target = t /\ NoPermit.target = "none" /\ t # "none"
      BY BreakerAssumption DEF NoPermit
    <2> QED  BY <2>2, <2>3, Zenon
  <1> HIDE DEF z, p
  <1>9. /\ NewCircuit \in Circuits
        /\ NewCircuit.inFlight = 0 /\ NewCircuit.state = "closed"
    BY SMT DEF NewCircuit, Circuits, States
  <1>10. BreakerTypeOK'
    <2>1. circuit' \in [Targets -> Circuits]
      BY <1>1, <1>4, <1>7, <1>9
    <2>2. permit' \in [Callers -> Permits \cup {NoPermit}]
      BY <1>0, <1>2, <1>8 DEF BreakerTypeOK
    <2> QED  BY <1>0, <1>3, <2>1, <2>2 DEF BreakerTypeOK, Acquires
  <1>11. /\ permit'[c] = p
         /\ \A d \in Callers : d # c => permit'[d] = permit[d]
    BY <1>0, <1>2 DEF BreakerTypeOK
  <1>12. \A u \in Targets :
           Live(u)' = IF u = t THEN Live(u) \cup {c} ELSE Live(u)
    <2> SUFFICES ASSUME NEW u \in Targets
                 PROVE  Live(u)' = IF u = t THEN Live(u) \cup {c}
                                           ELSE Live(u)
      OBVIOUS
    <2>1. \A d \in Callers : d # c => (d \in Live(u)' <=> d \in Live(u))
      BY <1>11 DEF Live, Holds
    <2>2. c \in Live(u)' <=> u = t
      BY <1>8, <1>11 DEF Live, Holds
    <2>3. /\ c \notin Live(u) /\ Live(u) \subseteq Callers
          /\ Live(u)' \subseteq Callers
      BY <1>2 DEF Live
    <2> QED  BY <2>1, <2>2, <2>3
  <1>13. c \notin Live(t)
    BY <1>2 DEF Live
  <1>14. \A u \in forgotten : u \in Targets /\ Live(u) = {} /\ u # t
    <2> SUFFICES ASSUME NEW u \in forgotten PROVE u \in Targets /\ Live(u) = {} /\ u # t
      OBVIOUS
    <2>1. u \in tracked /\ circuit[u].inFlight = 0 /\ u # t
      BY <1>3 DEF Acquires, Idle
    <2>2. u \in Targets
      BY <1>0, <2>1 DEF BreakerTypeOK
    <2>3. Cardinality(Live(u)) = 0
      BY <1>0, <2>1, <2>2 DEF InFlightExact
    <2> QED  BY <2>1, <2>2, <2>3, LiveFinite
  <1>15. /\ Cardinality(Live(t) \cup {c}) = circuit[t].inFlight + 1
         /\ IsFiniteSet(Live(t) \cup {c})
    <2>1. IsFiniteSet(Live(t)) /\ Cardinality(Live(t)) = circuit[t].inFlight
      BY <1>0, LiveFinite DEF InFlightExact
    <2> QED  BY <1>13, <2>1, FS_AddElement
  <1>16. InFlightExact'
    <2> SUFFICES ASSUME NEW u \in Targets
                 PROVE  /\ circuit'[u].inFlight = Cardinality(Live(u)')
                        /\ Live(u)' # {} => u \in tracked'
      BY  DEF InFlightExact
    <2>1. /\ circuit[u].inFlight = Cardinality(Live(u))
          /\ Live(u) # {} => u \in tracked
      BY <1>0 DEF InFlightExact
    <2>2. CASE u = t
      BY <1>1, <1>3, <1>7, <1>12, <1>15, <2>2
    <2>3. CASE u \in forgotten
      BY <1>1, <1>9, <1>12, <1>14, <2>3, FS_EmptySet
    <2>4. CASE u # t /\ u \notin forgotten
      BY <1>1, <1>3, <1>12, <2>1, <2>4 DEF Acquires
    <2> QED  BY <2>2, <2>3, <2>4
  <1>17. PermitEpochs'
    <2> SUFFICES ASSUME NEW d \in Callers, permit'[d] # NoPermit
                 PROVE  LET w == circuit'[permit'[d].target]
                        IN /\ permit'[d].epoch <= w.epoch
                           /\ permit'[d].epoch = w.epoch =>
                                w.state # "open" /\ (permit'[d].probe <=> w.state = "half-open")
      BY DEF PermitEpochs, Holds
    <2>1. CASE d = c
      <3>1. permit'[d] = p /\ circuit'[t] = z
        BY <1>1, <1>11, <2>1
      <3>2. x.epoch <= x.epoch
        BY <1>6, SMT
      <3> QED  BY <1>5, <1>7, <1>8, <3>1, <3>2, Zenon
    <2>2. CASE d # c
      <3>1. permit'[d] = permit[d] /\ Holds(d)
        BY <1>11, <2>2 DEF Holds
      <3>2. permit[d] \in Permits
        BY <1>0, <3>1 DEF BreakerTypeOK, Holds
      <3>3. permit[d].target \in Targets /\ permit[d].epoch \in Nat
        BY <3>2, SMT DEF Permits
      <3>4. permit[d].target \notin forgotten
        BY <1>14, <3>1 DEF Live
      <3>5. LET w == circuit[permit[d].target]
            IN /\ permit[d].epoch <= w.epoch
               /\ permit[d].epoch = w.epoch =>
                    w.state # "open" /\ (permit[d].probe <=> w.state = "half-open")
        BY <1>0, <3>1 DEF PermitEpochs
      <3>6. CASE permit[d].target # t
        <4>1. circuit'[permit[d].target] = circuit[permit[d].target]
          BY <1>1, <3>3, <3>4, <3>6
        <4> QED  BY <3>1, <3>5, <4>1
      <3>7. CASE permit[d].target = t /\ x = circuit[t]
        <4>1. circuit'[t] = z
          BY <1>1
        <4> QED  BY <1>7, <3>1, <3>5, <3>7, <4>1
      <3>8. CASE permit[d].target = t /\ x.epoch = circuit[t].epoch + 1
        <4>1. circuit'[t] = z /\ circuit[t].epoch \in Nat
          BY <1>1, <1>4, SMT DEF Circuits
        <4>2. permit[d].epoch <= circuit[t].epoch
          BY <3>5, <3>8
        <4>3. permit[d].epoch <= z.epoch /\ permit[d].epoch # z.epoch
          BY <1>7, <3>3, <3>8, <4>1, <4>2, SMT
        <4> QED  BY <3>1, <3>8, <4>1, <4>3
      <3> QED  BY <1>5, <3>6, <3>7, <3>8
    <2> QED  BY <2>1, <2>2
  <1>18. ProbesBounded'
    <2> SUFFICES ASSUME NEW u \in Targets, circuit'[u].state = "half-open"
                 PROVE  Cardinality({d \in Live(u)' :
                                       permit'[d].epoch = circuit'[u].epoch})
                          <= HalfOpenMaxProbes
      BY  DEF ProbesBounded
    <2>1. CASE u = t
      <3>1. x.state = "half-open"
        BY <1>1, <1>7, <2>1
      <3>2. ~(x.inFlight >= HalfOpenMaxProbes)
        BY <1>3, <3>1 DEF Refuses, Saturated, x
      <3>3. HalfOpenMaxProbes \in Nat
        BY BreakerAssumption
      <3>4. Cardinality(Live(t) \cup {c}) <= HalfOpenMaxProbes
        BY <1>5, <1>6, <1>15, <3>2, <3>3, SMT
      <3>5. {d \in Live(u)' : permit'[d].epoch = circuit'[u].epoch}
              \subseteq Live(t) \cup {c}
        BY <1>12, <2>1
      <3> QED  BY <1>15, <3>3, <3>4, <3>5, BoundedSubset
    <2>2. CASE u # t
      <3>1. circuit'[u] = circuit[u]
        BY <1>1, <1>9, <2>2
      <3>2. /\ Live(u)' = Live(u) /\ c \notin Live(u)
            /\ Live(u) \subseteq Callers
        BY <1>2, <1>12, <2>2 DEF Live
      <3>3. {d \in Live(u)' : permit'[d].epoch = circuit'[u].epoch}
              = {d \in Live(u) : permit[d].epoch = circuit[u].epoch}
        BY <1>11, <3>1, <3>2
      <3>4. circuit[u].state = "half-open"
        BY <3>1
      <3> QED  BY <1>0, <3>3, <3>4 DEF ProbesBounded
    <2> QED  BY <2>1, <2>2
  <1> QED  BY <1>10, <1>16, <1>17, <1>18 DEF BreakerInv

----------------------------------------------------------------------------
(* end *)

\* The end of a permit, whenever its call was made, keeps the invariant: the
\* permits of the circuit stay in its epoch or fall behind it.
LEMMA EndInv ==
  ASSUME BreakerInv, NEW c \in Callers, NEW outcome \in Outcomes,
         UNCHANGED now, End(c, outcome)
  PROVE  BreakerInv'
  <1> DEFINE t == permit[c].target
  <1>0. BreakerTypeOK /\ InFlightExact /\ PermitEpochs /\ ProbesBounded
    BY DEF BreakerInv
  <1>1. Holds(c) /\ permit' = [permit EXCEPT ![c] = NoPermit] /\ UNCHANGED tracked
    BY DEF End
  <1>2. permit[c] \in Permits
    BY <1>0, <1>1 DEF BreakerTypeOK, Holds
  <1>3. t \in Targets /\ permit[c].epoch \in Nat
    BY <1>2, SMT DEF Permits
  <1>4. PICK cooldown \in Cooldowns :
          circuit' = [circuit EXCEPT ![t] = Ended(@, permit[c].epoch, outcome, cooldown)]
    BY DEF End
  <1> DEFINE y == Ended(circuit[t], permit[c].epoch, outcome, cooldown)
  <1>5. circuit[t] \in Circuits /\ now \in Nat
    BY <1>0, <1>3 DEF BreakerTypeOK
  <1>6. /\ y \in Circuits /\ y.inFlight = circuit[t].inFlight - 1
        /\ \/ y.epoch = circuit[t].epoch /\ y.state = circuit[t].state
           \/ y.epoch = circuit[t].epoch + 1
    BY <1>3, <1>5, EndedEntry
  <1>7. circuit[t].epoch \in Nat /\ circuit[t].inFlight \in Int
    BY <1>5, SMT DEF Circuits
  <1> HIDE DEF y, t
  <1>8. /\ circuit'[t] = y
        /\ \A u \in Targets : u # t => circuit'[u] = circuit[u]
    BY <1>0, <1>3, <1>4 DEF BreakerTypeOK, y
  <1>9. /\ permit'[c] = NoPermit
        /\ \A d \in Callers : d # c => permit'[d] = permit[d]
    BY <1>0, <1>1 DEF BreakerTypeOK
  <1>10. BreakerTypeOK'
    <2>1. circuit' \in [Targets -> Circuits]
      BY <1>0, <1>3, <1>4, <1>6 DEF BreakerTypeOK, y
    <2>2. permit' \in [Callers -> Permits \cup {NoPermit}]
      BY <1>0, <1>1 DEF BreakerTypeOK
    <2> QED  BY <1>0, <1>1, <2>1, <2>2 DEF BreakerTypeOK
  <1>11. \A u \in Targets :
           Live(u)' = IF u = t THEN Live(u) \ {c} ELSE Live(u)
    <2> SUFFICES ASSUME NEW u \in Targets
                 PROVE  Live(u)' = IF u = t THEN Live(u) \ {c}
                                           ELSE Live(u)
      OBVIOUS
    <2>1. \A d \in Callers : d # c => (d \in Live(u)' <=> d \in Live(u))
      BY <1>9 DEF Live, Holds
    <2>2. c \notin Live(u)' /\ (c \in Live(u) => u = t)
      BY <1>9 DEF Live, Holds, t
    <2>3. Live(u) \subseteq Callers /\ Live(u)' \subseteq Callers
      BY DEF Live
    <2> QED  BY <2>1, <2>2, <2>3
  <1>12. c \in Live(t)
    BY <1>1 DEF Live, t
  <1>13. Cardinality(Live(t) \ {c}) = circuit[t].inFlight - 1
    <2>1. IsFiniteSet(Live(t)) /\ Cardinality(Live(t)) = circuit[t].inFlight
      BY <1>0, <1>3, LiveFinite DEF InFlightExact
    <2> QED  BY <1>12, <2>1, FS_RemoveElement
  <1>14. InFlightExact'
    <2> SUFFICES ASSUME NEW u \in Targets
                 PROVE  /\ circuit'[u].inFlight = Cardinality(Live(u)')
                        /\ Live(u)' # {} => u \in tracked'
      BY  DEF InFlightExact
    <2>1. /\ circuit[u].inFlight = Cardinality(Live(u))
          /\ Live(u) # {} => u \in tracked
      BY <1>0 DEF InFlightExact
    <2>2. CASE u = t
      BY <1>1, <1>6, <1>8, <1>11, <1>12, <1>13, <2>1, <2>2
    <2>3. CASE u # t
      BY <1>1, <1>8, <1>11, <2>1, <2>3
    <2> QED  BY <2>2, <2>3
  <1>15. \A d \in Callers : permit'[d] # NoPermit =>
           /\ d # c /\ permit'[d] = permit[d] /\ Holds(d)
           /\ permit[d].target \in Targets /\ permit[d].epoch \in Nat
           /\ permit[d].epoch <= circuit[permit[d].target].epoch
    <2> SUFFICES ASSUME NEW d \in Callers, permit'[d] # NoPermit
                 PROVE  /\ d # c /\ permit'[d] = permit[d] /\ Holds(d)
                        /\ permit[d].target \in Targets /\ permit[d].epoch \in Nat
                        /\ permit[d].epoch <= circuit[permit[d].target].epoch
      OBVIOUS
    <2>1. d # c /\ permit'[d] = permit[d] /\ Holds(d)
      BY <1>9 DEF Holds
    <2>2. permit[d] \in Permits
      BY <1>0, <2>1 DEF BreakerTypeOK, Holds
    <2>3. permit[d].target \in Targets /\ permit[d].epoch \in Nat
      BY <2>2, SMT DEF Permits
    <2> QED  BY <1>0, <2>1, <2>3 DEF PermitEpochs
  <1>16. PermitEpochs'
    <2> SUFFICES ASSUME NEW d \in Callers, permit'[d] # NoPermit
                 PROVE  LET w == circuit'[permit'[d].target]
                        IN /\ permit'[d].epoch <= w.epoch
                           /\ permit'[d].epoch = w.epoch =>
                                w.state # "open" /\ (permit'[d].probe <=> w.state = "half-open")
      BY DEF PermitEpochs, Holds
    <2>1. /\ permit'[d] = permit[d] /\ Holds(d)
          /\ permit[d].target \in Targets /\ permit[d].epoch \in Nat
          /\ permit[d].epoch <= circuit[permit[d].target].epoch
      BY <1>15
    <2>2. permit[d].epoch = circuit[permit[d].target].epoch =>
            /\ circuit[permit[d].target].state # "open"
            /\ permit[d].probe <=> circuit[permit[d].target].state = "half-open"
      BY <1>0, <2>1 DEF PermitEpochs
    <2>3. CASE permit[d].target # t
      <3>1. circuit'[permit[d].target] = circuit[permit[d].target]
        BY <1>8, <2>1, <2>3
      <3> QED  BY <2>1, <2>2, <3>1
    <2>4. CASE permit[d].target = t /\ y.epoch = circuit[t].epoch /\ y.state = circuit[t].state
      BY <1>8, <2>1, <2>2, <2>4
    <2>5. CASE permit[d].target = t /\ y.epoch = circuit[t].epoch + 1
      <3>1. permit[d].epoch <= y.epoch /\ permit[d].epoch # y.epoch
        BY <1>7, <2>1, <2>5, SMT
      <3> QED  BY <1>8, <2>1, <2>5, <3>1
    <2> QED  BY <1>6, <2>3, <2>4, <2>5
  <1>17. ProbesBounded'
    <2> SUFFICES ASSUME NEW u \in Targets, circuit'[u].state = "half-open"
                 PROVE  Cardinality({d \in Live(u)' :
                                       permit'[d].epoch = circuit'[u].epoch})
                          <= HalfOpenMaxProbes
      BY  DEF ProbesBounded
    <2>0. HalfOpenMaxProbes \in Nat
      BY BreakerAssumption
    <2>1. /\ Live(u)' \subseteq Live(u) /\ c \notin Live(u)'
          /\ \A d \in Live(u)' : /\ permit'[d] = permit[d] /\ permit[d].target = u
                                 /\ permit[d].epoch \in Nat
                                 /\ permit[d].epoch <= circuit[u].epoch
      <3>1. \A d \in Live(u)' :
              d \in Callers /\ permit'[d] # NoPermit /\ permit'[d].target = u
        BY DEF Live, Holds
      <3>2. Live(u)' \subseteq Live(u) /\ c \notin Live(u)'
        BY <1>9, <1>11, <3>1
      <3> QED  BY <1>15, <3>1, <3>2
    <2>2. CASE circuit'[u].epoch = circuit[u].epoch /\ circuit'[u].state = circuit[u].state
      <3>1. Cardinality({d \in Live(u) : permit[d].epoch = circuit[u].epoch})
              <= HalfOpenMaxProbes
        BY <1>0, <2>2 DEF ProbesBounded
      <3>2. {d \in Live(u)' : permit'[d].epoch = circuit'[u].epoch}
              \subseteq {d \in Live(u) : permit[d].epoch = circuit[u].epoch}
        BY <2>1, <2>2
      <3>3. IsFiniteSet({d \in Live(u) : permit[d].epoch = circuit[u].epoch})
        BY LiveFinite, FS_Subset
      <3> QED  BY <2>0, <3>1, <3>2, <3>3, BoundedSubset
    <2>3. CASE u = t /\ circuit'[u].epoch = circuit[u].epoch + 1
      <3>1. \A d \in Live(u)' : permit'[d].epoch # circuit'[u].epoch
        <4> SUFFICES ASSUME NEW d \in Live(u)' PROVE permit'[d].epoch # circuit'[u].epoch
          OBVIOUS
        <4>1. /\ permit'[d] = permit[d] /\ permit[d].epoch \in Nat
              /\ permit[d].epoch <= circuit[u].epoch
          BY <2>1
        <4> QED  BY <1>7, <2>3, <4>1, SMT
      <3>2. {d \in Live(u)' : permit'[d].epoch = circuit'[u].epoch} = {}
        BY <3>1
      <3>3. Cardinality({d \in Live(u)' : permit'[d].epoch = circuit'[u].epoch}) = 0
        BY <3>2, FS_EmptySet
      <3> QED  BY <2>0, <3>3, SMT
    <2> QED  BY <1>6, <1>8, <2>2, <2>3
  <1> QED  BY <1>10, <1>14, <1>16, <1>17 DEF BreakerInv

----------------------------------------------------------------------------
(* The breaker *)

\* The clock and stuttering leave the breaker alone.
LEMMA IdleInv ==
  ASSUME BreakerInv, UNCHANGED breakerVars, now' \in Nat
  PROVE  BreakerInv'
  <1>1. UNCHANGED <<tracked, circuit, permit>>
    BY DEF breakerVars
  <1>2. BreakerTypeOK' /\ InFlightExact'
    BY <1>1 DEF BreakerInv, BreakerTypeOK, InFlightExact, Live,
                Holds
  <1>3. PermitEpochs' /\ ProbesBounded'
    BY <1>1 DEF BreakerInv, PermitEpochs, ProbesBounded, Live, Holds
  <1> QED  BY <1>2, <1>3 DEF BreakerInv

\* Every step keeps the invariant.
LEMMA BreakerStep == BreakerInv /\ [BreakerNext]_breakerSpecVars => BreakerInv'
  <1> SUFFICES ASSUME BreakerInv, [BreakerNext]_breakerSpecVars PROVE BreakerInv'
    OBVIOUS
  <1>1. now \in Nat
    BY DEF BreakerInv, BreakerTypeOK
  <1>2. CASE BreakerTick
    <2>1. now' \in Nat
      BY <1>1, <1>2, SMT DEF BreakerTick
    <2> QED  BY <1>2, <2>1, IdleInv DEF BreakerTick
  <1>3. ASSUME NEW t \in Targets, UNCHANGED now, Refuse(t) \/ GrantAndReturn(t)
        PROVE  BreakerInv'
    BY <1>3, RefuseInv
  <1>4. ASSUME NEW t \in Targets, NEW c \in Callers, UNCHANGED now, Grant(c, t)
        PROVE  BreakerInv'
    BY <1>4, GrantInv
  <1>5. ASSUME NEW c \in Callers, NEW outcome \in Outcomes, UNCHANGED now,
               End(c, outcome)
        PROVE  BreakerInv'
    BY <1>5, EndInv
  <1>6. CASE UNCHANGED breakerSpecVars
    BY <1>1, <1>6, IdleInv DEF breakerSpecVars
  <1> QED  BY <1>2, <1>3, <1>4, <1>5, <1>6 DEF BreakerNext

\* A circuit leaves the open state only after its time, and is closed only by
\* the success of one of its own probes.
LEMMA RecoveryStep ==
  ASSUME BreakerInv, [BreakerNext]_breakerSpecVars, NEW t \in Targets
  PROVE  /\ CoolingDown(circuit[t]) => circuit'[t].state = "open"
         /\ circuit[t].state # "closed" /\ circuit'[t].state = "closed"
              => ProbeSucceeds(t)
  <1> DEFINE Recovers == /\ CoolingDown(circuit[t]) => circuit'[t].state = "open"
                         /\ circuit[t].state # "closed" /\ circuit'[t].state = "closed"
                              => ProbeSucceeds(t)
  <1> SUFFICES Recovers
    OBVIOUS
  <1>0. BreakerTypeOK /\ PermitEpochs
    BY DEF BreakerInv
  <1>1. circuit[t] \in Circuits
    BY <1>0 DEF BreakerTypeOK
  <1>2. CASE circuit'[t] = circuit[t]
    BY <1>2 DEF CoolingDown
  <1>3. /\ Probing(circuit[t]).state = "closed" => circuit[t].state = "closed"
        /\ circuit[t].state # "open" => Probing(circuit[t]) = circuit[t]
    BY <1>1, ProbingEntry
  <1>4. ASSUME NEW u \in Targets, Refuse(u)
        PROVE  Recovers
    <2>1. CASE t = u
      <3>1. circuit'[t] = IF CoolingDown(circuit[t]) THEN circuit[t]
                          ELSE Probing(circuit[t])
        BY <1>0, <1>4, <2>1 DEF Refuse, BreakerTypeOK
      <3> QED  BY <1>2, <1>3, <3>1
    <2>2. CASE t # u
      <3>1. circuit'[t] = circuit[t]
        BY <1>0, <1>4, <2>2 DEF Refuse, BreakerTypeOK
      <3> QED  BY <1>2, <3>1
    <2> QED  BY <2>1, <2>2
  <1>5. ASSUME NEW u \in Targets, NEW forgotten, Room(u, forgotten), NEW z,
               z.state = Probing(circuit[u]).state,
               circuit' = [w \in Targets |->
                 IF w = u THEN z ELSE IF w \in forgotten THEN NewCircuit ELSE circuit[w]]
        PROVE  Recovers
    <2>1. Acquires(u, forgotten, Probing(circuit[u])) /\ ~Refuses(u)
      BY <1>5, RoomAcquires
    <2>2. CASE t = u
      <3>1. /\ ~CoolingDown(circuit[t])
            /\ circuit'[t].state = Probing(circuit[t]).state
        BY <1>5, <2>1, <2>2 DEF Refuses
      <3> QED  BY <1>3, <3>1
    <2>3. CASE t # u /\ t \in forgotten
      <3>1. circuit[t].state = "closed"
        BY <2>1, <2>3 DEF Acquires, Idle
      <3> QED  BY <3>1 DEF CoolingDown
    <2>4. CASE t # u /\ t \notin forgotten
      BY <1>2, <1>5, <2>4
    <2> QED  BY <2>2, <2>3, <2>4
  <1>6. ASSUME NEW u \in Targets, GrantAndReturn(u)
        PROVE  Recovers
    BY <1>5, <1>6 DEF GrantAndReturn
  <1>7. ASSUME NEW u \in Targets, NEW c \in Callers, Grant(c, u)
        PROVE  Recovers
    <2>1. Probing(circuit[u]) \in Circuits
      BY <1>0, ProbingEntry DEF BreakerTypeOK
    <2>2. [Probing(circuit[u]) EXCEPT !.inFlight = @ + 1].state
            = Probing(circuit[u]).state
      BY <2>1, SMT DEF Circuits
    <2>3. PICK forgotten \in SUBSET tracked :
            /\ Room(u, forgotten)
            /\ circuit' = [w \in Targets |->
                 IF w = u THEN [Probing(circuit[u]) EXCEPT !.inFlight = @ + 1]
                 ELSE IF w \in forgotten THEN NewCircuit ELSE circuit[w]]
      BY <1>7 DEF Grant, Acquire
    <2> QED  BY <1>5, <2>2, <2>3
  <1>8. ASSUME NEW c \in Callers, NEW outcome \in Outcomes, End(c, outcome)
        PROVE  Recovers
    <2>1. Holds(c) /\ permit[c] \in Permits
      BY <1>0, <1>8 DEF End, BreakerTypeOK, Holds
    <2>2. permit[c].target \in Targets /\ permit[c].epoch \in Nat
      BY <2>1, SMT DEF Permits
    <2>3. PICK cooldown \in Cooldowns :
            circuit' = [circuit EXCEPT ![permit[c].target] =
                          Ended(@, permit[c].epoch, outcome, cooldown)]
      BY <1>8 DEF End
    <2>4. CASE permit[c].target # t
      <3>1. circuit'[t] = circuit[t]
        BY <1>0, <2>3, <2>4 DEF BreakerTypeOK
      <3> QED  BY <1>2, <3>1
    <2>5. CASE permit[c].target = t
      <3> DEFINE y == Ended(circuit[t], permit[c].epoch, outcome, cooldown)
      <3>1. circuit'[t] = y
        BY <1>0, <2>3, <2>5 DEF BreakerTypeOK
      <3>2. /\ permit[c].epoch # circuit[t].epoch => y.state = circuit[t].state
            /\ y.state = "closed" /\ circuit[t].state # "closed"
                 => outcome = "success" /\ permit[c].epoch = circuit[t].epoch
        BY <1>0, <1>1, <2>2, EndedEntry DEF BreakerTypeOK
      <3> HIDE DEF y
      <3>3. permit[c].epoch = circuit[t].epoch =>
              circuit[t].state # "open" /\ (permit[c].probe <=> circuit[t].state = "half-open")
        BY <1>0, <2>1, <2>5 DEF PermitEpochs
      <3>4. CoolingDown(circuit[t]) => circuit'[t].state = "open"
        BY <3>1, <3>2, <3>3 DEF CoolingDown
      <3>5. ASSUME circuit[t].state # "closed", circuit'[t].state = "closed"
            PROVE  ProbeSucceeds(t)
        <4>1. outcome = "success" /\ permit[c].epoch = circuit[t].epoch
          BY <3>1, <3>2, <3>5
        <4>2. circuit[t].state \in States
          BY <1>1, SMT DEF Circuits
        <4>3. permit[c].probe
          BY <3>3, <3>5, <4>1, <4>2 DEF States
        <4>4. c \in Live(t)
          BY <2>1, <2>5 DEF Live
        <4> QED  BY <1>8, <4>1, <4>3, <4>4 DEF ProbeSucceeds
      <3> QED  BY <3>4, <3>5
    <2> QED  BY <2>4, <2>5
  <1>9. CASE BreakerTick \/ UNCHANGED breakerSpecVars
    <2>1. circuit'[t] = circuit[t]
      BY <1>9 DEF BreakerTick, breakerSpecVars, breakerVars
    <2> QED  BY <1>2, <2>1
  <1> HIDE DEF Recovers
  <1>10. CASE BreakerNext
    <2>1. \/ BreakerTick
          \/ \E u \in Targets : \/ Refuse(u) \/ GrantAndReturn(u)
                               \/ \E c \in Callers : Grant(c, u)
          \/ \E c \in Callers, outcome \in Outcomes : End(c, outcome)
      BY <1>10 DEF BreakerNext
    <2> QED  BY <1>4, <1>6, <1>7, <1>8, <1>9, <2>1
  <1> QED  BY <1>9, <1>10

\* The types of the breaker, and the counter of calls in flight: it is the
\* number of permits out, and their entries are never forgotten.
THEOREM InFlightAccounted == BreakerSpec => [](BreakerTypeOK /\ InFlightExact)
  <1>1. BreakerInv => BreakerTypeOK /\ InFlightExact
    BY DEF BreakerInv
  <1> QED  BY BreakerInitInv, BreakerStep, <1>1, PTL DEF BreakerSpec

\* A half-open circuit never has more probes out than it may, however many
\* permits of earlier epochs are still out.
THEOREM RecoveryIsBounded == BreakerSpec => []ProbesBounded
  <1>1. BreakerInv => ProbesBounded
    BY DEF BreakerInv
  <1> QED  BY BreakerInitInv, BreakerStep, <1>1, PTL DEF BreakerSpec

\* An open circuit stays open until its time is over, and nothing but a probe
\* of its own half-open period closes it.
THEOREM LateResultsChangeNothing == BreakerSpec => RecoversByProbe
  <1>1. BreakerInv /\ [BreakerNext]_breakerSpecVars =>
          [\A t \in Targets :
             /\ CoolingDown(circuit[t]) => circuit'[t].state = "open"
             /\ circuit[t].state # "closed" /\ circuit'[t].state = "closed"
                  => ProbeSucceeds(t)]_breakerSpecVars
    BY RecoveryStep
  <1> QED  BY BreakerInitInv, BreakerStep, <1>1, PTL DEF BreakerSpec, RecoversByProbe

----------------------------------------------------------------------------
(* The operations use the breaker by its rules                             *)

\* A route is not empty, and what it holds are targets.
LEMMA RouteOfTargets ==
  ASSUME NEW o \in Operations
  PROVE  /\ Len(Route[o]) \in Nat \ {0}
         /\ \A i \in 1..Len(Route[o]) : Route[o][i] \in Targets
  <1>1. Route[o] \in Seq(Targets) /\ Route[o] # <<>>
    BY GatewayAssumption
  <1> QED  BY <1>1, SMT

\* Initially no operation has a permit.
LEMMA InitBreaker == Init => BreakerInit
  BY DEF Init

\* Initially every operation is at its first candidate.
LEMMA InitCandidates == Init => CandidatesOK
  <1> SUFFICES ASSUME Init PROVE CandidatesOK
    OBVIOUS
  <1>1. cand = [o \in Operations |-> 1]
    BY DEF Init
  <1>2. ASSUME NEW o \in Operations PROVE cand[o] \in 1..Len(Route[o])
    BY <1>1, RouteOfTargets, SMT
  <1>3. cand \in [Operations -> Nat]
    BY <1>1, SMT
  <1> QED  BY <1>2, <1>3 DEF CandidatesOK

\* The next candidate is one of the route as well.
LEMMA NextCandidateOK ==
  ASSUME CandidatesOK, NEW o \in Operations, NextCandidate(o)
  PROVE  CandidatesOK'
  <1> DEFINE n == IF cand[o] < Len(Route[o]) THEN cand[o] + 1 ELSE cand[o]
  <1>1. cand' = [cand EXCEPT ![o] = n] /\ cand \in [Operations -> Nat]
    BY DEF NextCandidate, CandidatesOK
  <1>2. cand[o] \in 1..Len(Route[o]) /\ Len(Route[o]) \in Nat
    BY RouteOfTargets DEF CandidatesOK
  <1>3. n \in 1..Len(Route[o]) /\ n \in Nat
    BY <1>2, SMT
  <1> HIDE DEF n
  <1>4. cand' \in [Operations -> Nat]
    BY <1>1, <1>3
  <1>5. \A p \in Operations : cand'[p] = IF p = o THEN n ELSE cand[p]
    BY <1>1
  <1> QED  BY <1>3, <1>4, <1>5 DEF CandidatesOK

\* Every step keeps the candidates in their routes.
LEMMA CandidatesStep == CandidatesOK /\ [Next]_vars => CandidatesOK'
  <1> SUFFICES ASSUME CandidatesOK, [Next]_vars PROVE CandidatesOK'
    OBVIOUS
  <1>1. CASE UNCHANGED cand
    BY <1>1 DEF CandidatesOK
  <1>2. ASSUME NEW o \in Operations, NextCandidate(o) PROVE CandidatesOK'
    BY <1>2, NextCandidateOK
  <1>3. CASE Tick \/ UNCHANGED vars
    BY <1>1, <1>3 DEF Tick, vars, opVars
  <1>4. ASSUME NEW o \in Operations, Loop(o) PROVE CandidatesOK'
    BY <1>1, <1>2, <1>4 DEF Loop, Choose, Conclude, Decide, Backoff
  <1>5. ASSUME NEW o \in Operations, Execute(o) PROVE CandidatesOK'
    BY <1>1, <1>5 DEF Execute, Admit, Reserve, Dispatch, opVars
  <1>6. ASSUME NEW o \in Operations, NEW i, Answer(o, i) PROVE CandidatesOK'
    BY <1>1, <1>6 DEF Answer, opVars
  <1>7. ASSUME NEW o \in Operations,
               \/ Begin(o) \/ FirstEvent(o) \/ Pull(o) \/ NextEvent(o)
               \/ Timeout(o) \/ CallerAbort(o) \/ ConsumerReturn(o)
        PROVE  CandidatesOK'
    BY <1>1, <1>7
       DEF Begin, FirstEvent, Pull, NextEvent, Timeout, CallerAbort, ConsumerReturn, opVars
  <1> QED  BY <1>3, <1>4, <1>5, <1>6, <1>7 DEF Next

\* An operation has a permit only while it attends to an attempt, so that no way
\* out of one, to the next try or to the end, leaves with it.
PermitAttended ==
  \A o \in Operations : Holds(o) => pc[o] \in {"attempting", "paused", "streaming"}
PermitInv == DOMAIN pc = Operations /\ DOMAIN permit = Operations /\ PermitAttended

\* Initially there is no permit.
LEMMA InitPermits == Init => PermitInv
  BY DEF Init, BreakerInit, PermitInv, PermitAttended, Holds, Operations

\* An operation that has ended its permit may go anywhere.
LEMMA LeavesWithout ==
  ASSUME PermitInv, NEW o \in Operations, NEW outcome, EndOnce(o, outcome),
         NEW place, Goto(o, place)
  PROVE  PermitInv'
  <1>1. DOMAIN pc' = Operations /\ \A p \in Operations : p # o => pc'[p] = pc[p]
    BY DEF Goto, PermitInv
  <1>2. CASE Holds(o)
    <2>1. permit' = [permit EXCEPT ![o] = NoPermit]
      BY <1>2 DEF EndOnce, End
    <2> QED  BY <1>1, <2>1 DEF PermitInv, PermitAttended, Holds
  <1>3. CASE ~Holds(o)
    <2>1. permit' = permit
      BY <1>3 DEF EndOnce, breakerVars
    <2> QED  BY <1>1, <1>3, <2>1 DEF PermitInv, PermitAttended, Holds
  <1> QED  BY <1>2, <1>3

\* One that has no permit may go anywhere, one that has may attend further.
LEMMA GoesOn ==
  ASSUME PermitInv, UNCHANGED permit, NEW o \in Operations, NEW place, Goto(o, place),
         ~Holds(o) \/ place \in {"attempting", "paused", "streaming"}
  PROVE  PermitInv'
  <1>1. /\ DOMAIN pc' = Operations /\ pc'[o] = place
        /\ \A p \in Operations : p # o => pc'[p] = pc[p]
    BY DEF Goto, PermitInv
  <1> QED  BY <1>1 DEF PermitInv, PermitAttended, Holds

\* Every step keeps permits where they are attended to.
LEMMA PermitStep == PermitInv /\ [Next]_vars => PermitInv'
  <1> SUFFICES ASSUME PermitInv, [Next]_vars PROVE PermitInv'
    OBVIOUS
  <1>1. CASE UNCHANGED <<pc, permit>>
    BY <1>1 DEF PermitInv, PermitAttended, Holds
  <1>2. CASE Tick \/ UNCHANGED vars
    BY <1>1, <1>2 DEF Tick, vars, policyVars, breakerVars, opVars
  <1>3. ASSUME NEW o \in Operations, Choose(o) PROVE PermitInv'
    <2> DEFINE t == Route[o][cand[o]]
    <2>1. ~Holds(o)
      BY <1>3 DEF Choose, PermitInv, PermitAttended
    <2>2. CASE Refuse(t) /\ NextCandidate(o)
      BY <2>1, <2>2, GoesOn DEF Refuse, NextCandidate
    <2>3. CASE Acquire(o, t) /\ Goto(o, "attempting")
      <3>1. DOMAIN permit' = Operations /\ \A p \in Operations : p # o => permit'[p] = permit[p]
        BY <2>3 DEF Acquire, PermitInv
      <3>2. /\ DOMAIN pc' = Operations /\ pc'[o] = "attempting"
            /\ \A p \in Operations : p # o => pc'[p] = pc[p]
        BY <2>3 DEF Goto, PermitInv
      <3> QED  BY <3>1, <3>2 DEF PermitInv, PermitAttended, Holds
    <2>4. CASE GrantAndReturn(t) /\ Goto(o, "over")
      BY <2>1, <2>4, GoesOn DEF GrantAndReturn
    <2> QED  BY <1>3, <2>2, <2>3, <2>4 DEF Choose
  <1>4. ASSUME NEW o \in Operations, Conclude(o) \/ ConsumerReturn(o) PROVE PermitInv'
    BY <1>4, LeavesWithout DEF Conclude, ConsumerReturn
  <1>5. ASSUME NEW o \in Operations, Decide(o) \/ Backoff(o) \/ Begin(o) PROVE PermitInv'
    <2>1. ~Holds(o) /\ UNCHANGED permit
      BY <1>5 DEF Decide, Backoff, Begin, policyVars, breakerVars, PermitInv, PermitAttended
    <2>2. \E place : Goto(o, place)
      BY <1>5 DEF Decide, Backoff, Begin, NextCandidate
    <2> QED  BY <2>1, <2>2, GoesOn
  <1>6. ASSUME NEW o \in Operations, FirstEvent(o) \/ Pull(o) \/ NextEvent(o) PROVE PermitInv'
    <2>1. UNCHANGED permit
      BY <1>6 DEF FirstEvent, Pull, NextEvent, policyVars, breakerVars
    <2>2. Goto(o, "paused") \/ Goto(o, "streaming")
      BY <1>6 DEF FirstEvent, Pull, NextEvent
    <2> QED  BY <2>1, <2>2, GoesOn
  <1>7. ASSUME NEW o \in Operations, Execute(o) PROVE PermitInv'
    BY <1>1, <1>7 DEF Execute, Admit, Reserve, Dispatch, breakerVars, opVars
  <1>8. ASSUME NEW o \in Operations, NEW i, Answer(o, i) PROVE PermitInv'
    BY <1>1, <1>8 DEF Answer, breakerVars, opVars
  <1>9. ASSUME NEW o \in Operations, Timeout(o) \/ CallerAbort(o) PROVE PermitInv'
    BY <1>1, <1>9 DEF Timeout, CallerAbort, breakerVars, opVars
  <1> QED  BY <1>2, <1>3, <1>4, <1>5, <1>6, <1>7, <1>8, <1>9 DEF Next, Loop

\* A step of the gateway is one of the breaker under callers that keep to one
\* permit at a time, with the clock where it was, or does not touch it.
LEMMA StepImplementsBreaker ==
  CandidatesOK /\ PermitInv /\ [Next]_vars => [BreakerNext]_breakerSpecVars
  <1> SUFFICES ASSUME CandidatesOK, PermitInv, [Next]_vars
               PROVE  BreakerNext \/ UNCHANGED breakerSpecVars
    OBVIOUS
  <1>1. CASE UNCHANGED <<now, breakerVars>>
    BY <1>1 DEF breakerVars, breakerSpecVars
  <1>2. CASE Tick
    BY <1>2 DEF Tick, policyVars, breakerVars, BreakerNext, BreakerTick, breakerVars
  <1>3. CASE UNCHANGED vars
    BY <1>1, <1>3 DEF vars, policyVars
  <1>4. ASSUME NEW o \in Operations, Choose(o)
        PROVE  BreakerNext
    <2> DEFINE t == Route[o][cand[o]]
    <2>1. t \in Targets
      BY RouteOfTargets DEF CandidatesOK
    <2>2. circuit[t].epoch < MaxEpoch /\ UNCHANGED now
      BY <1>4 DEF Choose
    <2>3. ~Holds(o)
      BY <1>4 DEF Choose, PermitInv, PermitAttended
    <2>4. Refuse(t) \/ Grant(o, t) \/ GrantAndReturn(t)
      BY <1>4, <2>3 DEF Choose, Grant
    <2> HIDE DEF t
    <2> QED  BY <2>1, <2>2, <2>4 DEF BreakerNext, Operations
  <1>5. ASSUME NEW o \in Operations, NEW outcome \in Outcomes, EndOnce(o, outcome), UNCHANGED now
        PROVE  BreakerNext \/ UNCHANGED <<now, breakerVars>>
    BY <1>5 DEF EndOnce, BreakerNext, Operations
  <1>6. ASSUME NEW o \in Operations, Conclude(o) \/ ConsumerReturn(o)
        PROVE  BreakerNext \/ UNCHANGED <<now, breakerVars>>
    <2>1. UNCHANGED now /\ (EndOnce(o, PermitOutcome(o)) \/ EndOnce(o, "neutral"))
      BY <1>6 DEF Conclude, ConsumerReturn
    <2>2. PermitOutcome(o) \in Outcomes /\ "neutral" \in Outcomes
      BY DEF PermitOutcome, Outcomes
    <2> QED  BY <1>5, <2>1, <2>2
  <1>7. ASSUME NEW o \in Operations,
               \/ Decide(o) \/ Backoff(o) \/ Begin(o)
               \/ FirstEvent(o) \/ Pull(o) \/ NextEvent(o)
        PROVE  UNCHANGED <<now, breakerVars>>
    BY <1>7 DEF Decide, Backoff, Begin, FirstEvent, Pull, NextEvent, policyVars
  <1>8. ASSUME NEW o \in Operations, Execute(o)
        PROVE  UNCHANGED <<now, breakerVars>>
    BY <1>8 DEF Execute, Admit, Reserve, Dispatch
  <1>9. ASSUME NEW o \in Operations, NEW i, Answer(o, i)
        PROVE  UNCHANGED <<now, breakerVars>>
    BY <1>9 DEF Answer
  <1>10. ASSUME NEW o \in Operations, Timeout(o) \/ CallerAbort(o)
         PROVE  UNCHANGED <<now, breakerVars>>
    BY <1>10 DEF Timeout, CallerAbort
  <1> QED  BY <1>1, <1>2, <1>3, <1>4, <1>6, <1>7, <1>8, <1>9, <1>10 DEF Next, Loop

\* The gateway implements the breaker's specification: though nothing in the
\* breaker asks it to, an operation asks for a permit only when its last one has
\* ended, on every way through its candidates, retries, timeouts and aborts, and
\* nothing else touches the circuits.
THEOREM GatewayKeepsToBreaker == Spec => KeepsToBreaker
  <1>1. Spec => [](CandidatesOK /\ PermitInv)
    BY InitCandidates, InitPermits, CandidatesStep, PermitStep, PTL DEF Spec
  <1> QED  BY <1>1, InitBreaker, StepImplementsBreaker, PTL DEF Spec, KeepsToBreaker, BreakerSpec

\* So what holds of the breaker holds of the breaker of a gateway: its counters
\* are the permits of the operations, the probes are bounded, and no answer to
\* an attempt made before the circuit opened closes it.
THEOREM GatewayBreakerSafe ==
  Spec => [](InFlightExact /\ ProbesBounded) /\ RecoversByProbe
  BY GatewayKeepsToBreaker, InFlightAccounted, RecoveryIsBounded, LateResultsChangeNothing, PTL
     DEF KeepsToBreaker

----------------------------------------------------------------------------
(* What the attempts come to together: the sum of what a function says of  *)
(* each, over all the attempts there may be.                               *)

Places == Operations \X (1..MaxTotalAttempts)

\* The attempts of the operations, A in the place of att.
Tables == {A \in [Operations -> Seq(Attempts)] :
             \A o \in Operations : Len(A[o]) <= MaxTotalAttempts}

Share(A, g) == [m \in Places |-> IF m[2] \in DOMAIN A[m[1]] THEN g[A[m[1]][m[2]]] ELSE 0]
Tally(A, g) == SumFunctionOnSet(Share(A, g), Places)

\* A with one attempt changed, and with one more.
Put(A, o, i, b) == [A EXCEPT ![o][i] = b]
Add(A, o, b) == [A EXCEPT ![o] = Append(@, b)]

\* There are finitely many places.
LEMMA PlacesFinite == IsFiniteSet(Places)
  <1>1. IsFiniteSet(1..MaxTotalAttempts)
    <2>1. 1 \in Int /\ MaxTotalAttempts \in Int
      BY GatewayAssumption, SMT
    <2> QED  BY <2>1, FS_Interval
  <1> QED  BY <1>1, GatewayAssumption, BreakerAssumption, FS_Product DEF Places, Operations

\* An attempt in a table is an attempt, in one of the places.
LEMMA InTable ==
  ASSUME NEW A \in Tables, NEW o \in Operations, NEW i \in DOMAIN A[o]
  PROVE  A[o][i] \in Attempts /\ i \in 1..Len(A[o]) /\ <<o, i>> \in Places
  <1>1. A[o] \in Seq(Attempts) /\ Len(A[o]) <= MaxTotalAttempts
    BY DEF Tables
  <1>2. Len(A[o]) \in Nat /\ i \in 1..Len(A[o]) /\ A[o][i] \in Attempts
    BY <1>1
  <1>3. i \in 1..MaxTotalAttempts
    BY <1>1, <1>2, GatewayAssumption, SMT
  <1> QED  BY <1>2, <1>3 DEF Places

\* What a place contributes.
LEMMA ShareType ==
  ASSUME NEW A \in Tables, NEW g
  PROVE  /\ g \in [Attempts -> Int] => \A m \in Places : Share(A, g)[m] \in Int
         /\ g \in [Attempts -> Nat] => \A m \in Places : Share(A, g)[m] \in Nat
         /\ \A o \in Operations : \A i \in DOMAIN A[o] : Share(A, g)[<<o, i>>] = g[A[o][i]]
  <1>1. \A m \in Places : m[1] \in Operations /\ m = <<m[1], m[2]>>
    BY DEF Places
  <1>2. \A m \in Places : m[2] \in DOMAIN A[m[1]] => A[m[1]][m[2]] \in Attempts
    BY <1>1, InTable
  <1>3. \A m \in Places :
          Share(A, g)[m] = IF m[2] \in DOMAIN A[m[1]] THEN g[A[m[1]][m[2]]] ELSE 0
    BY DEF Share
  <1>4. ASSUME NEW o \in Operations, NEW i \in DOMAIN A[o]
        PROVE  Share(A, g)[<<o, i>>] = g[A[o][i]]
    BY <1>3, InTable
  <1> QED  BY <1>2, <1>3, <1>4

\* Tallies of counts are counts.
LEMMA TallyType ==
  ASSUME NEW A \in Tables, NEW g
  PROVE  /\ g \in [Attempts -> Int] => Tally(A, g) \in Int
         /\ g \in [Attempts -> Nat] =>
              /\ Tally(A, g) \in Nat
              /\ \A o \in Operations : \A i \in DOMAIN A[o] :
                   g[A[o][i]] \in Nat /\ g[A[o][i]] <= Tally(A, g)
  <1> DEFINE f == Share(A, g)
  <1>1. IsFiniteSet(Places)
    BY PlacesFinite
  <1>2. ASSUME g \in [Attempts -> Int] PROVE Tally(A, g) \in Int
    <2>1. \A m \in Places : f[m] \in Int
      BY <1>2, ShareType
    <2> HIDE DEF f
    <2>2. SumFunctionOnSet(f, Places) \in Int
      BY <1>1, <2>1, SumType
    <2> QED  BY <2>2 DEF f, Tally
  <1>3. ASSUME g \in [Attempts -> Nat]
        PROVE  /\ Tally(A, g) \in Nat
               /\ \A o \in Operations : \A i \in DOMAIN A[o] :
                    g[A[o][i]] \in Nat /\ g[A[o][i]] <= Tally(A, g)
    <2>1. \A m \in Places : f[m] \in Nat
      BY <1>3, ShareType
    <2>2. SumFunctionOnSet(f, Places) \in Nat
      <3> HIDE DEF f
      <3> QED  BY <1>1, <2>1, SumNatural
    <2>3. ASSUME NEW o \in Operations, NEW i \in DOMAIN A[o]
          PROVE  g[A[o][i]] \in Nat /\ g[A[o][i]] <= SumFunctionOnSet(f, Places)
      <3> DEFINE m == <<o, i>>
                 R == Places \ {m}
      <3>1. m \in Places /\ f[m] = g[A[o][i]]
        BY InTable, ShareType
      <3> HIDE DEF f, m
      <3>2. SumFunctionOnSet(f, Places) = f[m] + SumFunctionOnSet(f, R)
        <4>1. \A x \in Places : f[x] \in Int
          BY <2>1
        <4> QED  BY <1>1, <3>1, <4>1, SumTake
      <3>3. SumFunctionOnSet(f, R) \in Nat
        <4>1. IsFiniteSet(R) /\ \A x \in R : f[x] \in Nat
          BY <1>1, <2>1, FS_RemoveElement
        <4> HIDE DEF R
        <4> QED  BY <4>1, SumNatural
      <3>4. f[m] \in Nat
        BY <2>1, <3>1
      <3> HIDE DEF R
      <3> QED  BY <3>1, <3>2, <3>3, <3>4, SMT
    <2> QED  BY <2>2, <2>3 DEF f, Tally
  <1> QED  BY <1>2, <1>3

\* A tally changes by what the one attempt that changes contributes.
LEMMA TallyChange ==
  ASSUME NEW A \in Tables, NEW o \in Operations, NEW i \in DOMAIN A[o], NEW b \in Attempts,
         NEW B, B = Put(A, o, i, b)
  PROVE  /\ B \in Tables
         /\ \A p \in Operations : DOMAIN B[p] = DOMAIN A[p] /\ Len(B[p]) = Len(A[p])
         /\ \A p \in Operations : \A j \in DOMAIN A[p] :
              B[p][j] = IF p = o /\ j = i THEN b ELSE A[p][j]
         /\ \A g \in [Attempts -> Int] : Tally(B, g) = Tally(A, g) - g[A[o][i]] + g[b]
  <1>1. /\ A \in [Operations -> Seq(Attempts)]
        /\ \A p \in Operations : Len(A[p]) \in Nat /\ Len(A[p]) <= MaxTotalAttempts
        /\ i \in 1..Len(A[o]) /\ A[o][i] \in Attempts /\ <<o, i>> \in Places
    BY InTable DEF Tables
  <1>2. B = [A EXCEPT ![o] = [A[o] EXCEPT ![i] = b]]
    BY DEF Put
  <1>3. [A[o] EXCEPT ![i] = b] \in Seq(Attempts) /\ Len([A[o] EXCEPT ![i] = b]) = Len(A[o])
    <2>1. A[o] \in Seq(Attempts)
      BY <1>1
    <2> QED  BY <1>1, <2>1, SMT
  <1>4. B \in [Operations -> Seq(Attempts)]
    BY <1>1, <1>2, <1>3
  <1>5. \A p \in Operations : B[p] = IF p = o THEN [A[o] EXCEPT ![i] = b] ELSE A[p]
    BY <1>1, <1>2
  <1>6. \A p \in Operations : Len(B[p]) = Len(A[p]) /\ DOMAIN B[p] = DOMAIN A[p]
    BY <1>3, <1>5
  <1>7. \A p \in Operations : \A j \in DOMAIN A[p] :
          B[p][j] = IF p = o /\ j = i THEN b ELSE A[p][j]
    BY <1>5
  <1>8. B \in Tables
    BY <1>1, <1>4, <1>6 DEF Tables
  <1>9. ASSUME NEW g \in [Attempts -> Int]
        PROVE  Tally(B, g) = Tally(A, g) - g[A[o][i]] + g[b]
    <2> DEFINE f == Share(A, g)
               h == Share(B, g)
               m == <<o, i>>
    <2>1. IsFiniteSet(Places) /\ m \in Places
      BY PlacesFinite, <1>1
    <2>2. /\ \A x \in Places : f[x] \in Int
          /\ f[m] = g[A[o][i]] /\ h[m] = g[b] /\ g[b] \in Int
      <3>1. i \in DOMAIN B[o] /\ B[o][i] = b
        BY <1>6, <1>7
      <3>2. h[m] = g[b]
        BY <1>8, <3>1, ShareType
      <3>3. f[m] = g[A[o][i]] /\ \A x \in Places : f[x] \in Int
        BY ShareType
      <3> QED  BY <3>2, <3>3
    <2>3. \A x \in Places : x # m => h[x] = f[x]
      <3>1. ASSUME NEW x \in Places, x # m PROVE h[x] = f[x]
        <4>1. x[1] \in Operations /\ x = <<x[1], x[2]>> /\ ~(x[1] = o /\ x[2] = i)
          BY <3>1 DEF Places
        <4> QED  BY <1>6, <1>7, <4>1 DEF Share
      <3> QED  BY <3>1
    <2> HIDE DEF f, h, m
    <2>4. SumFunctionOnSet(h, Places) = SumFunctionOnSet(f, Places) - f[m] + h[m]
      BY <2>1, <2>2, <2>3, SumChange
    <2> QED  BY <2>2, <2>4 DEF f, h, Tally
  <1> QED  BY <1>6, <1>7, <1>8, <1>9

\* A new attempt adds what it contributes.
LEMMA TallyAppend ==
  ASSUME NEW A \in Tables, NEW o \in Operations, NEW b \in Attempts,
         Len(A[o]) < MaxTotalAttempts, NEW B, B = Add(A, o, b)
  PROVE  /\ B \in Tables
         /\ B[o] # <<>> /\ \A p \in Operations : p # o => B[p] = A[p]
         /\ \A p \in Operations : \A j \in DOMAIN B[p] :
              B[p][j] = b \/ (j \in DOMAIN A[p] /\ B[p][j] = A[p][j])
         /\ \A g \in [Attempts -> Int] : Tally(B, g) = Tally(A, g) + g[b]
  <1> DEFINE n == Len(A[o]) + 1
             m == <<o, n>>
  <1>1. /\ A \in [Operations -> Seq(Attempts)] /\ A[o] \in Seq(Attempts)
        /\ \A p \in Operations : Len(A[p]) \in Nat /\ Len(A[p]) <= MaxTotalAttempts
    BY DEF Tables
  <1>2. Append(A[o], b) \in Seq(Attempts) /\ Len(Append(A[o], b)) = n
    BY <1>1
  <1>3. /\ B \in [Operations -> Seq(Attempts)] /\ B[o] = Append(A[o], b)
        /\ \A p \in Operations : p # o => B[p] = A[p]
    BY <1>1, <1>2 DEF Add
  <1>4. n \in 1..MaxTotalAttempts /\ n <= MaxTotalAttempts
    BY <1>1, GatewayAssumption, SMT
  <1>5. B \in Tables
    BY <1>1, <1>2, <1>3, <1>4 DEF Tables
  <1>6. /\ DOMAIN B[o] = 1..n /\ DOMAIN A[o] = 1..(n - 1) /\ n \notin DOMAIN A[o]
        /\ B[o][n] = b /\ \A j \in DOMAIN A[o] : B[o][j] = A[o][j]
    BY <1>1, <1>3
  <1>7. \A j \in 1..n : j = n \/ j \in 1..(n - 1)
    BY <1>1, SMT
  <1>8. B[o] # <<>>
    BY <1>1, <1>2, <1>3
  <1>9. ASSUME NEW p \in Operations, NEW j \in DOMAIN B[p]
        PROVE  B[p][j] = b \/ (j \in DOMAIN A[p] /\ B[p][j] = A[p][j])
    BY <1>3, <1>6, <1>7
  <1>10. ASSUME NEW g \in [Attempts -> Int]
         PROVE  Tally(B, g) = Tally(A, g) + g[b]
    <2> DEFINE f == Share(A, g)
               h == Share(B, g)
    <2> HIDE DEF n
    <2>1. IsFiniteSet(Places) /\ m \in Places
      BY PlacesFinite, <1>4 DEF Places
    <2>2. n \in DOMAIN B[o]
      BY <1>4, <1>6, SMT
    <2>3. /\ \A x \in Places : f[x] \in Int
          /\ f[m] = 0 /\ h[m] = g[b] /\ g[b] \in Int
      BY <1>5, <1>6, <2>1, <2>2, ShareType DEF Share
    <2>4. \A x \in Places : x # m => h[x] = f[x]
      <3>1. ASSUME NEW x \in Places, x # m PROVE h[x] = f[x]
        <4>1. x[1] \in Operations /\ x = <<x[1], x[2]>> /\ ~(x[1] = o /\ x[2] = n)
          BY <3>1 DEF Places
        <4>2. CASE x[1] # o
          BY <1>3, <4>1, <4>2 DEF Share
        <4>3. CASE x[1] = o
          <5>1. x[2] \in DOMAIN B[o] <=> x[2] \in DOMAIN A[o]
            BY <1>1, <1>6, <1>7, <4>1, <4>3, SMT DEF n
          <5> QED  BY <1>6, <4>1, <4>3, <5>1 DEF Share
        <4> QED  BY <4>2, <4>3
      <3> QED  BY <3>1
    <2>5. Tally(A, g) = SumFunctionOnSet(f, Places) /\ Tally(A, g) \in Int
          /\ Tally(B, g) = SumFunctionOnSet(h, Places)
      BY TallyType DEF Tally
    <2> HIDE DEF f, h, m
    <2>6. SumFunctionOnSet(h, Places) = SumFunctionOnSet(f, Places) - f[m] + h[m]
      BY <2>1, <2>3, <2>4, SumChange
    <2> QED  BY <2>3, <2>5, <2>6, SMT
  <1> QED  BY <1>3, <1>5, <1>8, <1>9, <1>10

\* Tallies of functions that say the same of all attempts are the same.
LEMMA TallySame ==
  ASSUME NEW A \in Tables, NEW g, NEW h,
         \A o \in Operations : \A i \in DOMAIN A[o] : g[A[o][i]] = h[A[o][i]]
  PROVE  Tally(A, g) = Tally(A, h)
  <1>1. \A m \in Places : m[1] \in Operations
    BY DEF Places
  <1>2. \A m \in Places : Share(A, g)[m] = Share(A, h)[m]
    BY <1>1 DEF Share
  <1> QED  BY <1>2, PlacesFinite, SumSame DEF Tally

\* A function that is zero of all attempts tallies to zero.
LEMMA TallyZero ==
  ASSUME NEW A \in Tables, NEW g,
         \A o \in Operations : \A i \in DOMAIN A[o] : g[A[o][i]] = 0
  PROVE  Tally(A, g) = 0
  <1>1. \A m \in Places : m[1] \in Operations
    BY DEF Places
  <1>2. \A m \in Places : Share(A, g)[m] = 0
    BY <1>1 DEF Share
  <1> QED  BY <1>2, PlacesFinite, SumZero DEF Tally

----------------------------------------------------------------------------
(* What an attempt holds, in numbers                                       *)

\* One if the attempt holds a slot of t.
Holding(t) == [a \in Attempts |-> IF a.lease = "held" /\ a.target = t THEN 1 ELSE 0]

\* One if it waits for admission.
InQueue == [a \in Attempts |-> IF a.exec = "queued" THEN 1 ELSE 0]

\* What it counts of the quota of t in the window that ends at w.
Counts(a, t, w) == a.lease # "none" /\ a.target = t /\ a.window = w
Requests(t, w) == [a \in Attempts |-> IF Counts(a, t, w) THEN 1 ELSE 0]
Tokens(t, w) == [a \in Attempts |-> IF Counts(a, t, w) THEN a.tokens ELSE 0]

\* One if its reservation of the budget has come to k.
With(k) == [a \in Attempts |-> IF a.money = k THEN 1 ELSE 0]
Price == [a \in Attempts |-> IF a.money = "spent" THEN a.cost ELSE 0]
Overrun == [a \in Attempts |-> IF a.cost > ReserveAmount THEN a.cost - ReserveAmount ELSE 0]

\* The numbers are numbers.
LEMMA WeightTypes ==
  /\ \A t : Holding(t) \in [Attempts -> Nat]
  /\ InQueue \in [Attempts -> Nat]
  /\ \A t, w : Requests(t, w) \in [Attempts -> Nat] /\ Tokens(t, w) \in [Attempts -> Nat]
  /\ \A k : With(k) \in [Attempts -> Nat]
  /\ Price \in [Attempts -> Nat] /\ Overrun \in [Attempts -> Nat]
  /\ [Attempts -> Nat] \subseteq [Attempts -> Int]
  <1>1. \A a \in Attempts : a.tokens \in Nat /\ a.cost \in Nat
    BY DEF Attempts
  <1>2. \A a \in Attempts : (IF a.cost > ReserveAmount THEN a.cost - ReserveAmount ELSE 0) \in Nat
    BY <1>1, LimitsAssumption, SMT
  <1>3. \A t : Holding(t) \in [Attempts -> Nat]
    BY DEF Holding
  <1>4. InQueue \in [Attempts -> Nat]
    BY DEF InQueue
  <1>5. \A t, w : Requests(t, w) \in [Attempts -> Nat]
    BY DEF Requests
  <1>6. \A t, w : Tokens(t, w) \in [Attempts -> Nat]
    BY <1>1 DEF Tokens
  <1>7. \A k : With(k) \in [Attempts -> Nat]
    BY DEF With
  <1>8. Price \in [Attempts -> Nat]
    BY <1>1 DEF Price
  <1>9. Overrun \in [Attempts -> Nat]
    BY <1>2 DEF Overrun
  <1> QED  BY <1>3, <1>4, <1>5, <1>6, <1>7, <1>8, <1>9

\* What an attempt may hold where its executor stands.
AttemptOK(a) ==
  /\ a.exec \in {"calling", "queued"} => a.lease = "none" /\ a.money = "none"
  /\ a.exec = "queued" => ~a.aborted
  /\ a.exec = "admitted" => a.lease = "held" /\ a.money = "none"
  /\ a.exec = "reserved" => /\ a.lease # "none" /\ a.money = "held"
                            /\ a.aborted => a.lease # "held"
  /\ a.exec = "running" => /\ a.money \in {"held", "spent", "uncertain"}
                           /\ a.ended => a.lease # "held" /\ a.money # "held"
  /\ a.exec = "finished" => a.lease # "held" /\ a.money # "held"
  /\ a.ended /\ a.exec # "finished" => a.aborted
  /\ a.lease = "held" => a.tokens = ReserveTokens
  /\ a.money # "spent" => a.cost = 0

\* The entries s of the admission controller say what the attempts A hold and
\* have used in the current windows, and no attempt was admitted in a later one.
SlotsSay(A, s) ==
  /\ s \in [Targets -> Slots]
  /\ \A t \in Targets : /\ s[t].active = Tally(A, Holding(t))
                         /\ s[t].requests = Tally(A, Requests(t, s[t].resetAt))
                         /\ s[t].tokens = Tally(A, Tokens(t, s[t].resetAt))
  /\ \A o \in Operations : \A i \in DOMAIN A[o] :
       A[o][i].lease # "none" => A[o][i].window <= s[A[o][i].target].resetAt

\* The account c says what became of the reservations of the attempts A, and
\* passes the limit by prices above the reservations alone.
AccountSays(A, c) ==
  /\ c \in [spent : Int, reserved : Int, uncertain : Int]
  /\ c.reserved = ReserveAmount * Tally(A, With("held"))
  /\ c.uncertain = ReserveAmount * Tally(A, With("uncertain"))
  /\ c.spent = Tally(A, Price)
  /\ c.spent + c.reserved + c.uncertain <= Limit + Tally(A, Overrun)

PlacesOf == {"idle", "choosing", "attempting", "paused", "streaming",
             "deciding", "backoff", "over"}
Attending == {"attempting", "paused", "streaming"}

GatewayInv ==
  /\ att \in Tables /\ CandidatesOK
  /\ now \in Nat /\ cancelled \in [Operations -> BOOLEAN]
  /\ pc \in [Operations -> PlacesOf]
  /\ \A o \in Operations : pc[o] \in Attending => att[o] # <<>>
  /\ \A o \in Operations : \A i \in DOMAIN att[o] : AttemptOK(att[o][i])
  /\ SlotsSay(att, slots)
  /\ \A t \in Targets : slots[t].active <= MaxConcurrent
  /\ queued = Tally(att, InQueue) /\ queued <= MaxQueue
  /\ AccountSays(att, account)

----------------------------------------------------------------------------
(* The admission controller *)

\* An entry whose window is over is renewed to what the attempts say of the
\* new one: none was admitted in it yet.
LEMMA RenewalSays ==
  ASSUME NEW A \in Tables, NEW s, SlotsSay(A, s), NEW t \in Targets, now \in Nat
  PROVE  /\ SlotsSay(A, [s EXCEPT ![t] = Renewed(@)])
         /\ Renewed(s[t]) \in Slots /\ Renewed(s[t]).active = s[t].active
  <1> DEFINE r == Renewed(s[t])
             z == [s EXCEPT ![t] = Renewed(@)]
  <1>1. /\ s \in [Targets -> Slots] /\ s[t] \in Slots
        /\ \A u \in Targets : s[u].resetAt \in Nat
    BY DEF SlotsSay, Slots
  <1>2. CASE now < s[t].resetAt
    <2>1. r = s[t]
      BY <1>1, <1>2 DEF Renewed
    <2>2. z = s
      BY <1>1, <2>1
    <2> QED  BY <1>1, <2>1, <2>2
  <1>3. CASE ~(now < s[t].resetAt)
    <2>1. r = [s[t] EXCEPT !.requests = 0, !.tokens = 0, !.resetAt = now + Window]
      BY <1>1, <1>3 DEF Renewed
    <2>2. now + Window \in Nat /\ now + Window > s[t].resetAt
      BY <1>1, <1>3, LimitsAssumption, SMT
    <2>3. /\ r.requests = 0 /\ r.tokens = 0 /\ r.resetAt = now + Window /\ r.active = s[t].active
          /\ r \in Slots
      <3>1. s[t].active \in Int
        BY <1>1 DEF Slots
      <3>2. r = [active |-> s[t].active, requests |-> 0, tokens |-> 0, resetAt |-> now + Window]
        BY <1>1, <2>1 DEF Slots
      <3> HIDE DEF r
      <3> QED  BY <2>2, <3>1, <3>2 DEF Slots
    <2> HIDE DEF r
    <2>4. z \in [Targets -> Slots] /\ \A u \in Targets : z[u] = IF u = t THEN r ELSE s[u]
      BY <1>1, <2>3 DEF r
    <2> HIDE DEF z
    <2>5. ASSUME NEW o \in Operations, NEW i \in DOMAIN A[o], A[o][i].lease # "none"
          PROVE  /\ A[o][i].window <= z[A[o][i].target].resetAt
                 /\ A[o][i].target = t => A[o][i].window # r.resetAt
      <3> DEFINE a == A[o][i]
      <3>1. a.window \in Nat /\ a.target \in Targets
        BY InTable DEF Attempts
      <3>2. a.window <= s[a.target].resetAt
        BY <2>5 DEF SlotsSay
      <3> HIDE DEF a
      <3>3. a.window <= z[a.target].resetAt /\ (a.target = t => a.window # r.resetAt)
        BY <1>1, <2>2, <2>3, <2>4, <3>1, <3>2, SMT
      <3> QED  BY <3>3 DEF a
    <2>6. Tally(A, Requests(t, r.resetAt)) = 0 /\ Tally(A, Tokens(t, r.resetAt)) = 0
      <3>1. ASSUME NEW o \in Operations, NEW i \in DOMAIN A[o]
            PROVE  Requests(t, r.resetAt)[A[o][i]] = 0 /\ Tokens(t, r.resetAt)[A[o][i]] = 0
        BY <2>5, InTable DEF Requests, Tokens, Counts
      <3> QED  BY <3>1, TallyZero
    <2>7. \A u \in Targets : /\ z[u].active = Tally(A, Holding(u))
                             /\ z[u].requests = Tally(A, Requests(u, z[u].resetAt))
                             /\ z[u].tokens = Tally(A, Tokens(u, z[u].resetAt))
      BY <2>3, <2>4, <2>6 DEF SlotsSay
    <2>8. SlotsSay(A, z)
      BY <2>4, <2>5, <2>7 DEF SlotsSay
    <2> QED  BY <2>3, <2>8 DEF z, r
  <1> QED  BY <1>2, <1>3

\* What is to be shown of an entry when one attempt changes.
LEMMA SlotsChange ==
  ASSUME NEW A \in Tables, NEW s, SlotsSay(A, s),
         NEW o \in Operations, NEW i \in DOMAIN A[o], NEW b \in Attempts,
         NEW z \in [Targets -> Slots],
         \A t \in Targets :
           LET a == A[o][i]  w == s[t].resetAt
           IN /\ z[t].resetAt = w
              /\ z[t].active = s[t].active - Holding(t)[a] + Holding(t)[b]
              /\ z[t].requests = s[t].requests - Requests(t, w)[a] + Requests(t, w)[b]
              /\ z[t].tokens = s[t].tokens - Tokens(t, w)[a] + Tokens(t, w)[b],
         b.lease # "none" => b.window <= s[b.target].resetAt,
         NEW B, B = Put(A, o, i, b)
  PROVE  SlotsSay(B, z)
  <1>1. /\ B \in Tables
        /\ \A p \in Operations : DOMAIN B[p] = DOMAIN A[p]
        /\ \A p \in Operations : \A j \in DOMAIN A[p] :
             B[p][j] = IF p = o /\ j = i THEN b ELSE A[p][j]
        /\ \A g \in [Attempts -> Int] : Tally(B, g) = Tally(A, g) - g[A[o][i]] + g[b]
    BY TallyChange
  <1>2. ASSUME NEW t \in Targets
        PROVE  /\ z[t].active = Tally(B, Holding(t))
               /\ z[t].requests = Tally(B, Requests(t, z[t].resetAt))
               /\ z[t].tokens = Tally(B, Tokens(t, z[t].resetAt))
    <2> DEFINE w == s[t].resetAt
    <2>1. /\ Holding(t) \in [Attempts -> Int] /\ Requests(t, w) \in [Attempts -> Int]
          /\ Tokens(t, w) \in [Attempts -> Int]
      BY WeightTypes
    <2>2. /\ Tally(B, Holding(t)) = Tally(A, Holding(t)) - Holding(t)[A[o][i]] + Holding(t)[b]
          /\ Tally(B, Requests(t, w))
               = Tally(A, Requests(t, w)) - Requests(t, w)[A[o][i]] + Requests(t, w)[b]
          /\ Tally(B, Tokens(t, w))
               = Tally(A, Tokens(t, w)) - Tokens(t, w)[A[o][i]] + Tokens(t, w)[b]
      BY <1>1, <2>1
    <2> QED  BY <2>2 DEF SlotsSay
  <1>3. ASSUME NEW p \in Operations, NEW j \in DOMAIN B[p], B[p][j].lease # "none"
        PROVE  B[p][j].window <= z[B[p][j].target].resetAt
    <2>1. B[p][j].target \in Targets
      BY <1>1, InTable DEF Attempts
    <2>2. B[p][j].window <= s[B[p][j].target].resetAt
      BY <1>1, <1>3 DEF SlotsSay
    <2> QED  BY <2>1, <2>2
  <1> QED  BY <1>2, <1>3 DEF SlotsSay

\* An attempt changes and neither its slot nor what it counts of the quota.
LEMMA SlotsKept ==
  ASSUME NEW A \in Tables, NEW s, SlotsSay(A, s),
         NEW o \in Operations, NEW i \in DOMAIN A[o], NEW b \in Attempts,
         b.target = A[o][i].target, b.lease = A[o][i].lease,
         b.lease # "none" => b.window = A[o][i].window /\ b.tokens = A[o][i].tokens,
         NEW B, B = Put(A, o, i, b)
  PROVE  SlotsSay(B, s)
  <1> DEFINE a == A[o][i]
  <1>1. a \in Attempts
    BY InTable
  <1>2. ASSUME NEW t \in Targets, NEW w
        PROVE  /\ Holding(t)[a] = Holding(t)[b] /\ Requests(t, w)[a] = Requests(t, w)[b]
               /\ Tokens(t, w)[a] = Tokens(t, w)[b]
               /\ Holding(t)[a] \in Int /\ Requests(t, w)[a] \in Int /\ Tokens(t, w)[a] \in Int
    BY <1>1, WeightTypes DEF Holding, Requests, Tokens, Counts
  <1>3. /\ s \in [Targets -> Slots]
        /\ \A t \in Targets : s[t].active \in Int /\ s[t].requests \in Int /\ s[t].tokens \in Int
    BY DEF SlotsSay, Slots
  <1>4. b.lease # "none" => b.window <= s[b.target].resetAt
    BY DEF SlotsSay
  <1> HIDE DEF a
  <1>5. ASSUME NEW t \in Targets
        PROVE  LET w == s[t].resetAt
               IN /\ s[t].active = s[t].active - Holding(t)[a] + Holding(t)[b]
                  /\ s[t].requests = s[t].requests - Requests(t, w)[a] + Requests(t, w)[b]
                  /\ s[t].tokens = s[t].tokens - Tokens(t, w)[a] + Tokens(t, w)[b]
    <2> DEFINE w == s[t].resetAt
               h == Holding(t)[a]
               q == Requests(t, w)[a]
               k == Tokens(t, w)[a]
    <2>1. /\ Holding(t)[b] = h /\ Requests(t, w)[b] = q /\ Tokens(t, w)[b] = k
          /\ h \in Int /\ q \in Int /\ k \in Int
      BY <1>2
    <2>2. s[t].active \in Int /\ s[t].requests \in Int /\ s[t].tokens \in Int
      BY <1>3
    <2> HIDE DEF h, q, k
    <2>3. /\ s[t].active = s[t].active - h + h /\ s[t].requests = s[t].requests - q + q
          /\ s[t].tokens = s[t].tokens - k + k
      BY <2>2, <2>1, SMT
    <2> QED  BY <2>1, <2>3 DEF h, q, k
  <1> QED  BY <1>3, <1>4, <1>5, SlotsChange DEF a

\* The entries when an attempt takes a slot of t, and when b has given its back.
Taken(s, t) ==
  [s EXCEPT ![t] = [active |-> s[t].active + 1, requests |-> s[t].requests + 1,
                    tokens |-> s[t].tokens + ReserveTokens, resetAt |-> s[t].resetAt]]
GivenBack(s, b) == [s EXCEPT ![b.target] = Released(@, b.window, b.tokens)]

\* The entry of a target whose slot is taken.
LEMMA EntryTaken ==
  ASSUME NEW r \in Slots,
         NEW x, x = [r EXCEPT !.active = @ + 1, !.requests = @ + 1, !.tokens = @ + ReserveTokens]
  PROVE  x = [active |-> r.active + 1, requests |-> r.requests + 1,
              tokens |-> r.tokens + ReserveTokens, resetAt |-> r.resetAt]
  BY DEF Slots

\* An attempt takes a slot of its target.
LEMMA SlotTaken ==
  ASSUME NEW A \in Tables, NEW s, SlotsSay(A, s),
         NEW o \in Operations, NEW i \in DOMAIN A[o], NEW b \in Attempts,
         NEW t \in Targets, A[o][i].target = t, A[o][i].lease = "none",
         b.target = t, b.lease = "held", b.window = s[t].resetAt, b.tokens = ReserveTokens,
         NEW z, z = Taken(s, t),
         NEW B, B = Put(A, o, i, b)
  PROVE  SlotsSay(B, z)
  <1> DEFINE a == A[o][i]
  <1>1. a \in Attempts /\ a.lease = "none"
    BY InTable
  <1>2. /\ s \in [Targets -> Slots]
        /\ \A u \in Targets : /\ s[u].active \in Int /\ s[u].requests \in Nat
                               /\ s[u].tokens \in Int /\ s[u].resetAt \in Nat
        /\ ReserveTokens \in Nat
    BY LimitsAssumption DEF SlotsSay, Slots
  <1>3. [active |-> s[t].active + 1, requests |-> s[t].requests + 1,
         tokens |-> s[t].tokens + ReserveTokens, resetAt |-> s[t].resetAt] \in Slots
    BY <1>2 DEF Slots
  <1>4. z \in [Targets -> Slots] /\ \A u \in Targets : u # t => z[u] = s[u]
    BY <1>2, <1>3 DEF Taken
  <1>5. /\ z[t].active = s[t].active + 1 /\ z[t].requests = s[t].requests + 1
        /\ z[t].tokens = s[t].tokens + ReserveTokens /\ z[t].resetAt = s[t].resetAt
    BY <1>2 DEF Taken
  <1>6. ASSUME NEW u \in Targets
        PROVE  LET w == s[u].resetAt
               IN /\ z[u].resetAt = w
                  /\ z[u].active = s[u].active - Holding(u)[a] + Holding(u)[b]
                  /\ z[u].requests = s[u].requests - Requests(u, w)[a] + Requests(u, w)[b]
                  /\ z[u].tokens = s[u].tokens - Tokens(u, w)[a] + Tokens(u, w)[b]
    <2> DEFINE w == s[u].resetAt
    <2>1. Holding(u)[a] = 0 /\ Requests(u, w)[a] = 0 /\ Tokens(u, w)[a] = 0
      BY <1>1 DEF Holding, Requests, Tokens, Counts
    <2>2. u # t => Holding(u)[b] = 0 /\ Requests(u, w)[b] = 0 /\ Tokens(u, w)[b] = 0
      BY DEF Holding, Requests, Tokens, Counts
    <2>3. u = t => Holding(u)[b] = 1 /\ Requests(u, w)[b] = 1 /\ Tokens(u, w)[b] = ReserveTokens
      BY DEF Holding, Requests, Tokens, Counts
    <2> HIDE DEF a
    <2>4. CASE u # t
      BY <1>2, <1>4, <2>1, <2>2, <2>4, SMT
    <2>5. CASE u = t
      BY <1>2, <1>5, <2>1, <2>3, <2>5, SMT
    <2> QED  BY <2>4, <2>5
  <1>7. b.window <= s[b.target].resetAt
    BY <1>2
  <1> QED  BY <1>4, <1>6, <1>7, SlotsChange DEF a

\* An attempt gives its slot back; what it used replaces what it reserved in the
\* window it was admitted in.
LEMMA SlotReleased ==
  ASSUME NEW A \in Tables, NEW s, SlotsSay(A, s),
         NEW o \in Operations, NEW i \in DOMAIN A[o], NEW b \in Attempts,
         A[o][i].lease = "held", A[o][i].tokens = ReserveTokens,
         b.target = A[o][i].target, b.lease = "released", b.window = A[o][i].window,
         NEW z, z = GivenBack(s, b),
         NEW B, B = Put(A, o, i, b)
  PROVE  SlotsSay(B, z)
  <1> DEFINE a == A[o][i]
             t == b.target
             r == Released(s[t], b.window, b.tokens)
  <1>1. /\ a \in Attempts /\ a.lease = "held" /\ a.tokens = ReserveTokens
        /\ a.target = t /\ a.window = b.window /\ t \in Targets /\ b.tokens \in Nat
    BY InTable DEF Attempts
  <1>2. /\ s \in [Targets -> Slots]
        /\ \A u \in Targets : /\ s[u].active \in Int /\ s[u].requests \in Nat
                               /\ s[u].tokens \in Int /\ s[u].resetAt \in Nat
        /\ ReserveTokens \in Nat
    BY LimitsAssumption DEF SlotsSay, Slots
  <1>3. b.window = s[t].resetAt => s[t].tokens >= ReserveTokens
    <2>1. CASE b.window = s[t].resetAt
      <3>1. Tokens(t, s[t].resetAt)[a] = ReserveTokens
        BY <1>1, <2>1 DEF Tokens, Counts
      <3>2. Tokens(t, s[t].resetAt)[a] <= Tally(A, Tokens(t, s[t].resetAt))
        BY WeightTypes, TallyType
      <3>3. s[t].tokens = Tally(A, Tokens(t, s[t].resetAt))
        BY <1>1 DEF SlotsSay
      <3> QED  BY <1>1, <1>2, <3>1, <3>2, <3>3
    <2> QED  BY <2>1
  <1> DEFINE k == IF s[t].resetAt # b.window THEN s[t].tokens
                  ELSE s[t].tokens - ReserveTokens + b.tokens
  <1>4. r = [active |-> s[t].active - 1, requests |-> s[t].requests, tokens |-> k,
             resetAt |-> s[t].resetAt]
    <2>1. s[t] = [active |-> s[t].active, requests |-> s[t].requests, tokens |-> s[t].tokens,
                  resetAt |-> s[t].resetAt]
      BY <1>1, <1>2 DEF Slots
    <2>2. (IF s[t].resetAt # b.window THEN s[t].tokens
           ELSE IF s[t].tokens + b.tokens - ReserveTokens > 0
                THEN s[t].tokens + b.tokens - ReserveTokens ELSE 0) = k
      <3>1. CASE s[t].resetAt # b.window
        BY <3>1
      <3>2. CASE s[t].resetAt = b.window
        BY <1>1, <1>2, <1>3, <3>2, SMT
      <3> QED  BY <3>1, <3>2
    <2>3. r = [s[t] EXCEPT !.active = @ - 1, !.tokens = k]
      <3> HIDE DEF k
      <3> QED  BY <2>2 DEF Released
    <2> HIDE DEF k, r
    <2> QED  BY <2>1, <2>3
  <1>5. k \in Int
    BY <1>1, <1>2, SMT
  <1> HIDE DEF k
  <1>6. r \in Slots
    BY <1>1, <1>2, <1>4, <1>5 DEF Slots
  <1>7. /\ r.active = s[t].active - 1 /\ r.requests = s[t].requests /\ r.tokens = k
        /\ r.resetAt = s[t].resetAt
    BY <1>4
  <1> HIDE DEF r
  <1>8. z \in [Targets -> Slots] /\ z[t] = r /\ \A u \in Targets : u # t => z[u] = s[u]
    BY <1>1, <1>2, <1>6 DEF r, GivenBack
  <1>9. ASSUME NEW u \in Targets
        PROVE  LET w == s[u].resetAt
               IN /\ z[u].resetAt = w
                  /\ z[u].active = s[u].active - Holding(u)[a] + Holding(u)[b]
                  /\ z[u].requests = s[u].requests - Requests(u, w)[a] + Requests(u, w)[b]
                  /\ z[u].tokens = s[u].tokens - Tokens(u, w)[a] + Tokens(u, w)[b]
    <2> DEFINE w == s[u].resetAt
    <2>1. u # t => /\ Holding(u)[a] = 0 /\ Requests(u, w)[a] = 0 /\ Tokens(u, w)[a] = 0
                   /\ Holding(u)[b] = 0 /\ Requests(u, w)[b] = 0 /\ Tokens(u, w)[b] = 0
      BY <1>1 DEF Holding, Requests, Tokens, Counts
    <2>2. u = t => /\ Holding(u)[a] = 1 /\ Holding(u)[b] = 0
                   /\ Requests(u, w)[a] = Requests(u, w)[b] /\ Requests(u, w)[a] \in {0, 1}
                   /\ Tokens(u, w)[a] = IF b.window = w THEN ReserveTokens ELSE 0
                   /\ Tokens(u, w)[b] = IF b.window = w THEN b.tokens ELSE 0
      BY <1>1 DEF Holding, Requests, Tokens, Counts
    <2> HIDE DEF a, t
    <2>3. CASE u # t
      BY <1>2, <1>8, <2>1, <2>3, SMT
    <2>4. CASE u = t
      <3>1. /\ z[u].resetAt = w /\ z[u].active = s[u].active - 1
            /\ z[u].requests = s[u].requests /\ z[u].tokens = k
            /\ k = IF w # b.window THEN s[u].tokens ELSE s[u].tokens - ReserveTokens + b.tokens
        BY <1>7, <1>8, <2>4 DEF k
      <3> QED  BY <1>1, <1>2, <2>2, <2>4, <3>1, SMT
    <2> QED  BY <2>3, <2>4
  <1>10. b.window <= s[b.target].resetAt
    BY <1>1 DEF SlotsSay
  <1> QED  BY <1>8, <1>9, <1>10, SlotsChange DEF a

----------------------------------------------------------------------------
(* The account *)

\* What is to be shown of the account when one attempt changes.
LEMMA AccountChange ==
  ASSUME NEW A \in Tables, NEW c, AccountSays(A, c),
         NEW o \in Operations, NEW i \in DOMAIN A[o], NEW a, a = A[o][i], NEW b \in Attempts,
         NEW d \in [spent : Int, reserved : Int, uncertain : Int],
         d.reserved = c.reserved - ReserveAmount * With("held")[a]
                                 + ReserveAmount * With("held")[b],
         d.uncertain = c.uncertain - ReserveAmount * With("uncertain")[a]
                                   + ReserveAmount * With("uncertain")[b],
         d.spent = c.spent - Price[a] + Price[b],
         \A n \in Nat : c.spent + c.reserved + c.uncertain <= Limit + n =>
           d.spent + d.reserved + d.uncertain <= Limit + n - Overrun[a] + Overrun[b],
         NEW B, B = Put(A, o, i, b)
  PROVE  AccountSays(B, d)
  <1>1. \A g \in [Attempts -> Int] : Tally(B, g) = Tally(A, g) - g[a] + g[b]
    BY TallyChange
  <1>2. a \in Attempts /\ ReserveAmount \in Int
    <2>1. a \in Attempts
      BY InTable
    <2>2. ReserveAmount \in Int
      BY LimitsAssumption
    <2> QED  BY <2>1, <2>2
  <1>3. /\ With("held") \in [Attempts -> Int] /\ With("uncertain") \in [Attempts -> Int]
        /\ Price \in [Attempts -> Int] /\ Overrun \in [Attempts -> Int]
        /\ Overrun \in [Attempts -> Nat]
    BY WeightTypes
  <1>4. ASSUME NEW g \in [Attempts -> Int]
        PROVE  ReserveAmount * Tally(B, g)
                 = ReserveAmount * Tally(A, g) - ReserveAmount * g[a] + ReserveAmount * g[b]
    <2> DEFINE n == Tally(A, g)
               x == g[a]
               y == g[b]
    <2>1. n \in Int /\ x \in Int /\ y \in Int
      <3>1. x \in Int /\ y \in Int
        BY <1>2
      <3> QED  BY <3>1, TallyType
    <2>2. Tally(B, g) = n - x + y
      BY <1>1
    <2> HIDE DEF n, x, y
    <2>3. ReserveAmount * (n - x + y) = ReserveAmount * n - ReserveAmount * x + ReserveAmount * y
      BY <1>2, <2>1, SMT
    <2> QED  BY <2>2, <2>3 DEF n, x, y
  <1>5. Tally(A, Overrun) \in Nat
    BY <1>3, TallyType
  <1>6. d.spent + d.reserved + d.uncertain <= Limit + Tally(A, Overrun) - Overrun[a] + Overrun[b]
    BY <1>5 DEF AccountSays
  <1>7. d.spent + d.reserved + d.uncertain <= Limit + Tally(B, Overrun)
    <2>1. Tally(B, Overrun) = Tally(A, Overrun) - Overrun[a] + Overrun[b]
      BY <1>1, <1>3
    <2>2. Overrun[a] \in Nat /\ Overrun[b] \in Nat /\ Limit \in Nat
      BY <1>2, <1>3, LimitsAssumption
    <2> QED  BY <1>5, <1>6, <2>1, <2>2, SMT
  <1>8. d.reserved = ReserveAmount * Tally(B, With("held"))
    BY <1>3, <1>4 DEF AccountSays
  <1>9. d.uncertain = ReserveAmount * Tally(B, With("uncertain"))
    BY <1>3, <1>4 DEF AccountSays
  <1>10. d.spent = Tally(B, Price)
    BY <1>1, <1>3 DEF AccountSays
  <1> QED  BY <1>7, <1>8, <1>9, <1>10 DEF AccountSays

\* An attempt changes and not what became of its reservation.
LEMMA AccountKept ==
  ASSUME NEW A \in Tables, NEW c, AccountSays(A, c),
         NEW o \in Operations, NEW i \in DOMAIN A[o], NEW a, a = A[o][i], NEW b \in Attempts,
         b.money = a.money, b.cost = a.cost,
         NEW B, B = Put(A, o, i, b)
  PROVE  AccountSays(B, c)
  <1>1. a \in Attempts
    BY InTable
  <1> DEFINE h == With("held")[a]
             u == With("uncertain")[a]
             q == Price[a]
             v == Overrun[a]
  <1>2. /\ With("held")[b] = h /\ With("uncertain")[b] = u /\ Price[b] = q /\ Overrun[b] = v
        /\ h \in Int /\ u \in Int /\ q \in Int /\ v \in Int
    BY <1>1, WeightTypes DEF With, Price, Overrun
  <1>3. /\ c \in [spent : Int, reserved : Int, uncertain : Int]
        /\ c.reserved \in Int /\ c.spent \in Int /\ c.uncertain \in Int
        /\ ReserveAmount \in Int /\ Limit \in Int
    BY LimitsAssumption DEF AccountSays
  <1> HIDE DEF h, u, q, v
  <1>4. ReserveAmount * h \in Int /\ ReserveAmount * u \in Int
    BY <1>2, <1>3, SMT
  <1>5. /\ c.reserved = c.reserved - ReserveAmount * h + ReserveAmount * h
        /\ c.uncertain = c.uncertain - ReserveAmount * u + ReserveAmount * u
        /\ c.spent = c.spent - q + q
        /\ \A n \in Nat : c.spent + c.reserved + c.uncertain <= Limit + n =>
             c.spent + c.reserved + c.uncertain <= Limit + n - v + v
    BY <1>2, <1>3, <1>4, SMT
  <1> QED  BY <1>2, <1>3, <1>5, AccountChange DEF h, u, q, v

\* What the functions say of an attempt whose reservation came to nothing yet.
LEMMA HeldWeights ==
  ASSUME NEW b \in Attempts
  PROVE  /\ With("held")[b] = IF b.money = "held" THEN 1 ELSE 0
         /\ With("uncertain")[b] = IF b.money = "uncertain" THEN 1 ELSE 0
         /\ Price[b] = IF b.money = "spent" THEN b.cost ELSE 0
         /\ Overrun[b] = IF b.cost > ReserveAmount THEN b.cost - ReserveAmount ELSE 0
         /\ b.cost \in Nat
  BY DEF With, Price, Overrun, Attempts

\* An attempt gets a reservation the budget can afford.
LEMMA AccountReserved ==
  ASSUME NEW A \in Tables, NEW c, AccountSays(A, c),
         NEW o \in Operations, NEW i \in DOMAIN A[o], NEW a, a = A[o][i], NEW b \in Attempts,
         a.money = "none", a.cost = 0, b.money = "held", b.cost = 0,
         c.spent + c.reserved + c.uncertain + ReserveAmount <= Limit,
         NEW B, B = Put(A, o, i, b)
  PROVE  AccountSays(B, Reserved(c))
  <1> DEFINE d == Reserved(c)
  <1>1. a \in Attempts
    BY InTable
  <1>2. /\ c \in [spent : Int, reserved : Int, uncertain : Int]
        /\ c.reserved \in Int /\ c.spent \in Int /\ c.uncertain \in Int
        /\ ReserveAmount \in Nat /\ Limit \in Nat
    BY LimitsAssumption DEF AccountSays
  <1>3. /\ d \in [spent : Int, reserved : Int, uncertain : Int]
        /\ d.reserved = c.reserved + ReserveAmount
        /\ d.spent = c.spent /\ d.uncertain = c.uncertain
    BY <1>2 DEF Reserved
  <1>4. /\ With("held")[a] = 0 /\ With("uncertain")[a] = 0 /\ Price[a] = 0 /\ Overrun[a] = 0
        /\ With("held")[b] = 1 /\ With("uncertain")[b] = 0 /\ Price[b] = 0 /\ Overrun[b] = 0
    BY <1>1, <1>2, HeldWeights, SMT
  <1> HIDE DEF d
  <1>5. /\ d.reserved = c.reserved - ReserveAmount * 0 + ReserveAmount * 1
        /\ d.uncertain = c.uncertain - ReserveAmount * 0 + ReserveAmount * 0
        /\ d.spent = c.spent - 0 + 0
        /\ \A n \in Nat : d.spent + d.reserved + d.uncertain <= Limit + n - 0 + 0
    BY <1>2, <1>3, SMT
  <1>6. AccountSays(B, d)
    BY <1>3, <1>4, <1>5, AccountChange
  <1> QED  BY <1>6 DEF d

\* A reservation that was not used is cancelled.
LEMMA AccountCancelled ==
  ASSUME NEW A \in Tables, NEW c, AccountSays(A, c),
         NEW o \in Operations, NEW i \in DOMAIN A[o], NEW a, a = A[o][i], NEW b \in Attempts,
         a.money = "held", a.cost = 0, b.money = "cancelled", b.cost = 0,
         NEW B, B = Put(A, o, i, b)
  PROVE  AccountSays(B, Cancelled(c))
  <1> DEFINE d == Cancelled(c)
  <1>1. a \in Attempts
    BY InTable
  <1>2. /\ c \in [spent : Int, reserved : Int, uncertain : Int]
        /\ c.reserved \in Int /\ c.spent \in Int /\ c.uncertain \in Int
        /\ ReserveAmount \in Nat /\ Limit \in Nat
    BY LimitsAssumption DEF AccountSays
  <1>3. /\ d \in [spent : Int, reserved : Int, uncertain : Int]
        /\ d.reserved = c.reserved - ReserveAmount
        /\ d.spent = c.spent /\ d.uncertain = c.uncertain
    BY <1>2 DEF Cancelled
  <1>4. /\ With("held")[a] = 1 /\ With("uncertain")[a] = 0 /\ Price[a] = 0 /\ Overrun[a] = 0
        /\ With("held")[b] = 0 /\ With("uncertain")[b] = 0 /\ Price[b] = 0 /\ Overrun[b] = 0
    BY <1>1, <1>2, HeldWeights, SMT
  <1> HIDE DEF d
  <1>5. /\ d.reserved = c.reserved - ReserveAmount * 1 + ReserveAmount * 0
        /\ d.uncertain = c.uncertain - ReserveAmount * 0 + ReserveAmount * 0
        /\ d.spent = c.spent - 0 + 0
        /\ \A n \in Nat : c.spent + c.reserved + c.uncertain <= Limit + n =>
             d.spent + d.reserved + d.uncertain <= Limit + n - 0 + 0
    BY <1>2, <1>3, SMT
  <1>6. AccountSays(B, d)
    BY <1>3, <1>4, <1>5, AccountChange
  <1> QED  BY <1>6 DEF d

\* A call is settled with its price, which may be above the reservation.
LEMMA AccountPriced ==
  ASSUME NEW A \in Tables, NEW c, AccountSays(A, c),
         NEW o \in Operations, NEW i \in DOMAIN A[o], NEW a, a = A[o][i], NEW b \in Attempts,
         NEW cost \in Nat, a.money = "held", a.cost = 0, b.money = "spent", b.cost = cost,
         NEW B, B = Put(A, o, i, b)
  PROVE  AccountSays(B, Settled(c, TRUE, cost))
  <1> DEFINE d == Settled(c, TRUE, cost)
  <1>1. a \in Attempts
    BY InTable
  <1>2. /\ c \in [spent : Int, reserved : Int, uncertain : Int]
        /\ c.reserved \in Int /\ c.spent \in Int /\ c.uncertain \in Int
        /\ ReserveAmount \in Nat /\ Limit \in Nat
    BY LimitsAssumption DEF AccountSays
  <1>3. /\ d \in [spent : Int, reserved : Int, uncertain : Int]
        /\ d.reserved = c.reserved - ReserveAmount
        /\ d.spent = c.spent + cost /\ d.uncertain = c.uncertain
    <2>1. d = [Cancelled(c) EXCEPT !.spent = @ + cost]
      BY DEF Settled
    <2> DEFINE x == Cancelled(c)
    <2>2. /\ x \in [spent : Int, reserved : Int, uncertain : Int]
          /\ x.reserved = c.reserved - ReserveAmount
          /\ x.spent = c.spent /\ x.uncertain = c.uncertain
      BY <1>2 DEF Cancelled
    <2> HIDE DEF x, d
    <2>3. d = [x EXCEPT !.spent = @ + cost]
      BY <2>1 DEF x
    <2> QED  BY <1>2, <2>2, <2>3
  <1>4. /\ With("held")[a] = 1 /\ With("uncertain")[a] = 0 /\ Price[a] = 0 /\ Overrun[a] = 0
        /\ With("held")[b] = 0 /\ With("uncertain")[b] = 0 /\ Price[b] = cost
        /\ Overrun[b] \in Nat /\ Overrun[b] >= cost - ReserveAmount
    BY <1>1, <1>2, HeldWeights, SMT
  <1> HIDE DEF d
  <1>5. \A v \in Nat : v >= cost - ReserveAmount =>
          /\ d.reserved = c.reserved - ReserveAmount * 1 + ReserveAmount * 0
          /\ d.uncertain = c.uncertain - ReserveAmount * 0 + ReserveAmount * 0
          /\ d.spent = c.spent - 0 + cost
          /\ \A n \in Nat : c.spent + c.reserved + c.uncertain <= Limit + n =>
               d.spent + d.reserved + d.uncertain <= Limit + n - 0 + v
    BY <1>2, <1>3, SMT
  <1>6. AccountSays(B, d)
    BY <1>3, <1>4, <1>5, AccountChange
  <1> QED  BY <1>6 DEF d

\* A call whose price is not known is settled as uncertain spend.
LEMMA AccountUncertain ==
  ASSUME NEW A \in Tables, NEW c, AccountSays(A, c),
         NEW o \in Operations, NEW i \in DOMAIN A[o], NEW a, a = A[o][i], NEW b \in Attempts,
         NEW cost, a.money = "held", a.cost = 0, b.money = "uncertain", b.cost = 0,
         NEW B, B = Put(A, o, i, b)
  PROVE  AccountSays(B, Settled(c, FALSE, cost))
  <1> DEFINE d == Settled(c, FALSE, cost)
  <1>1. a \in Attempts
    BY InTable
  <1>2. /\ c \in [spent : Int, reserved : Int, uncertain : Int]
        /\ c.reserved \in Int /\ c.spent \in Int /\ c.uncertain \in Int
        /\ ReserveAmount \in Nat /\ Limit \in Nat
    BY LimitsAssumption DEF AccountSays
  <1>3. /\ d \in [spent : Int, reserved : Int, uncertain : Int]
        /\ d.reserved = c.reserved - ReserveAmount
        /\ d.spent = c.spent /\ d.uncertain = c.uncertain + ReserveAmount
    <2>1. d = [Cancelled(c) EXCEPT !.uncertain = @ + ReserveAmount]
      BY DEF Settled
    <2> DEFINE x == Cancelled(c)
    <2>2. /\ x \in [spent : Int, reserved : Int, uncertain : Int]
          /\ x.reserved = c.reserved - ReserveAmount
          /\ x.spent = c.spent /\ x.uncertain = c.uncertain
      BY <1>2 DEF Cancelled
    <2> HIDE DEF x, d
    <2>3. d = [x EXCEPT !.uncertain = @ + ReserveAmount]
      BY <2>1 DEF x
    <2> QED  BY <1>2, <2>2, <2>3
  <1>4. /\ With("held")[a] = 1 /\ With("uncertain")[a] = 0 /\ Price[a] = 0 /\ Overrun[a] = 0
        /\ With("held")[b] = 0 /\ With("uncertain")[b] = 1 /\ Price[b] = 0 /\ Overrun[b] = 0
    BY <1>1, <1>2, HeldWeights, SMT
  <1> HIDE DEF d
  <1>5. /\ d.reserved = c.reserved - ReserveAmount * 1 + ReserveAmount * 0
        /\ d.uncertain = c.uncertain - ReserveAmount * 0 + ReserveAmount * 1
        /\ d.spent = c.spent - 0 + 0
        /\ \A n \in Nat : c.spent + c.reserved + c.uncertain <= Limit + n =>
             d.spent + d.reserved + d.uncertain <= Limit + n - 0 + 0
    BY <1>2, <1>3, SMT
  <1>6. AccountSays(B, d)
    BY <1>3, <1>4, <1>5, AccountChange
  <1> QED  BY <1>6 DEF d

----------------------------------------------------------------------------
(* The end of an attempt                                                   *)

UsageRecords == [tokens : Nat, priced : BOOLEAN, cost : Nat]

\* What finish() gives back, and what it leaves of the attempt.
GivesSlot(a) == ~a.ended /\ a.lease = "held" /\ a.exec # "admitted"
Pays(a) == ~a.ended /\ a.money = "held" /\ a.exec = "running"
LeftOf(a, usage, b) ==
  /\ b.target = a.target /\ b.ended = TRUE /\ b.window = a.window
  /\ b.lease = IF GivesSlot(a) THEN "released" ELSE a.lease
  /\ b.tokens = IF GivesSlot(a) THEN usage.tokens ELSE a.tokens
  /\ b.money = IF Pays(a) THEN (IF usage.priced THEN "spent" ELSE "uncertain") ELSE a.money
  /\ b.cost = IF Pays(a) /\ usage.priced THEN usage.cost ELSE a.cost

\* Finished is what it leaves, and the entries and the account it changes.
LEMMA FinishedIs ==
  ASSUME NEW a \in Attempts, NEW usage \in UsageRecords
  PROVE  LET f == Finished(a, usage)
         IN /\ f.a \in Attempts /\ LeftOf(a, usage, f.a)
            /\ f.a.exec = a.exec /\ f.a.aborted = a.aborted /\ f.a.outcome = a.outcome
            /\ f.slots = IF GivesSlot(a)
                         THEN [slots EXCEPT ![a.target] = Released(@, a.window, usage.tokens)]
                         ELSE slots
            /\ f.account = IF Pays(a) THEN Settled(account, usage.priced, usage.cost)
                                     ELSE account
  <1> DEFINE f == Finished(a, usage)
             x == [a EXCEPT
                     !.ended = TRUE,
                     !.lease = IF GivesSlot(a) THEN "released" ELSE @,
                     !.tokens = IF GivesSlot(a) THEN usage.tokens ELSE @,
                     !.money = IF Pays(a) THEN (IF usage.priced THEN "spent" ELSE "uncertain")
                                          ELSE @,
                     !.cost = IF Pays(a) /\ usage.priced THEN usage.cost ELSE @]
  <1>1. /\ f.a = x
        /\ f.slots = IF GivesSlot(a)
                     THEN [slots EXCEPT ![a.target] = Released(@, a.window, usage.tokens)]
                     ELSE slots
        /\ f.account = IF Pays(a) THEN Settled(account, usage.priced, usage.cost) ELSE account
    BY DEF Finished, GivesSlot, Pays
  <1> DEFINE lease == IF GivesSlot(a) THEN "released" ELSE a.lease
             tokens == IF GivesSlot(a) THEN usage.tokens ELSE a.tokens
             money == IF Pays(a) THEN (IF usage.priced THEN "spent" ELSE "uncertain") ELSE a.money
             cost == IF Pays(a) /\ usage.priced THEN usage.cost ELSE a.cost
  <1>2. /\ lease \in {"none", "held", "released"} /\ tokens \in Nat
        /\ money \in {"none", "held", "cancelled", "spent", "uncertain"} /\ cost \in Nat
    <2>1. usage.tokens \in Nat /\ usage.cost \in Nat
      BY DEF UsageRecords
    <2>2. /\ a.lease \in {"none", "held", "released"} /\ a.tokens \in Nat
          /\ a.money \in {"none", "held", "cancelled", "spent", "uncertain"} /\ a.cost \in Nat
      BY DEF Attempts
    <2> QED  BY <2>1, <2>2
  <1>3. x = [a EXCEPT !.ended = TRUE, !.lease = lease, !.tokens = tokens, !.money = money,
                      !.cost = cost]
    OBVIOUS
  <1> HIDE DEF lease, tokens, money, cost, x
  <1>4. /\ x \in Attempts /\ x.exec = a.exec /\ x.aborted = a.aborted /\ x.outcome = a.outcome
        /\ x.target = a.target /\ x.ended = TRUE /\ x.window = a.window /\ x.lease = lease
        /\ x.tokens = tokens /\ x.money = money /\ x.cost = cost
    BY <1>2, <1>3 DEF Attempts
  <1> HIDE DEF f
  <1>5. LeftOf(a, usage, f.a)
    BY <1>1, <1>4 DEF LeftOf, lease, tokens, money, cost
  <1> QED  BY <1>1, <1>4, <1>5 DEF f

\* The entries and the account that finish() leaves say what the attempts hold.
LEMMA FinishedSays ==
  ASSUME NEW A \in Tables, SlotsSay(A, slots), AccountSays(A, account),
         NEW o \in Operations, NEW i \in DOMAIN A[o], NEW a, a = A[o][i], AttemptOK(a),
         NEW usage \in UsageRecords, NEW b \in Attempts, LeftOf(a, usage, b),
         NEW B, B = Put(A, o, i, b)
  PROVE  /\ SlotsSay(B, Finished(a, usage).slots)
         /\ AccountSays(B, Finished(a, usage).account)
         /\ \A t \in Targets : Finished(a, usage).slots[t].active <= slots[t].active
  <1>1. a \in Attempts
    BY InTable
  <1>2. a.target \in Targets /\ slots \in [Targets -> Slots]
        /\ \A t \in Targets : slots[t].active \in Int
    BY <1>1 DEF Attempts, SlotsSay, Slots
  <1> DEFINE z == Finished(a, usage).slots
             d == Finished(a, usage).account
  <1>3. /\ z = IF GivesSlot(a)
               THEN [slots EXCEPT ![a.target] = Released(@, a.window, usage.tokens)]
               ELSE slots
        /\ d = IF Pays(a) THEN Settled(account, usage.priced, usage.cost) ELSE account
    BY <1>1, FinishedIs
  <1> HIDE DEF z, d
  <1>4. ASSUME GivesSlot(a)
        PROVE  SlotsSay(B, z) /\ \A t \in Targets : z[t].active <= slots[t].active
    <2>1. /\ a.lease = "held" /\ a.tokens = ReserveTokens
          /\ b.target = a.target /\ b.lease = "released" /\ b.window = a.window
          /\ b.tokens = usage.tokens
      BY <1>4 DEF GivesSlot, LeftOf, AttemptOK
    <2>2. z = GivenBack(slots, b)
      BY <1>3, <1>4, <2>1 DEF GivenBack
    <2>3. SlotsSay(B, z)
      BY <2>1, <2>2, SlotReleased
    <2>4. z[a.target].active = slots[a.target].active - 1
          /\ \A t \in Targets : t # a.target => z[t] = slots[t]
      <3>1. Released(slots[a.target], a.window, usage.tokens).active = slots[a.target].active - 1
        BY <1>2 DEF Released, Slots
      <3> QED  BY <1>2, <1>3, <1>4, <3>1
    <2>5. ASSUME NEW t \in Targets PROVE z[t].active <= slots[t].active
      <3>1. CASE t = a.target
        BY <1>2, <2>4, <3>1, SMT
      <3>2. CASE t # a.target
        BY <1>2, <2>4, <3>2, SMT
      <3> QED  BY <3>1, <3>2
    <2> QED  BY <2>3, <2>5
  <1>5. ASSUME ~GivesSlot(a)
        PROVE  SlotsSay(B, z) /\ \A t \in Targets : z[t].active <= slots[t].active
    <2>1. b.target = a.target /\ b.lease = a.lease /\ b.window = a.window /\ b.tokens = a.tokens
      BY <1>5 DEF LeftOf
    <2>2. SlotsSay(B, slots)
      BY <2>1, SlotsKept
    <2> QED  BY <1>2, <1>3, <1>5, <2>2
  <1>6. ASSUME Pays(a) PROVE AccountSays(B, d)
    <2>1. a.money = "held" /\ a.cost = 0 /\ usage.cost \in Nat /\ usage.priced \in BOOLEAN
      BY <1>6 DEF Pays, AttemptOK, UsageRecords
    <2>2. CASE usage.priced = TRUE
      <3>1. b.money = "spent" /\ b.cost = usage.cost /\ d = Settled(account, TRUE, usage.cost)
        BY <1>3, <1>6, <2>2 DEF LeftOf
      <3> QED  BY <2>1, <3>1, AccountPriced
    <2>3. CASE usage.priced = FALSE
      <3>1. b.money = "uncertain" /\ b.cost = 0 /\ d = Settled(account, FALSE, usage.cost)
        BY <1>3, <1>6, <2>1, <2>3 DEF LeftOf
      <3> QED  BY <2>1, <3>1, AccountUncertain
    <2> QED  BY <2>1, <2>2, <2>3
  <1>7. ASSUME ~Pays(a) PROVE AccountSays(B, d)
    <2>1. b.money = a.money /\ b.cost = a.cost
      BY <1>7 DEF LeftOf
    <2>2. AccountSays(B, account)
      BY <2>1, AccountKept
    <2> QED  BY <1>3, <1>7, <2>2
  <1>8. SlotsSay(B, z) /\ \A t \in Targets : z[t].active <= slots[t].active
    BY <1>4, <1>5
  <1>9. AccountSays(B, d)
    BY <1>6, <1>7
  <1> QED  BY <1>8, <1>9 DEF z, d

\* An attempt that finish() has run for holds what its executor still has to
\* give back, and nothing if the executor is at its end.
LEMMA FinishedOK ==
  ASSUME NEW a \in Attempts, AttemptOK(a), NEW usage \in UsageRecords,
         NEW b \in Attempts, LeftOf(a, usage, b),
         \/ b.exec = "finished" /\ a.exec \notin {"admitted", "reserved"}
         \/ b.exec = a.exec /\ b.aborted /\ a.exec # "queued"
  PROVE  AttemptOK(b)
  <1>1. a.exec \in {"calling", "queued", "admitted", "reserved", "running", "finished"}
    BY DEF Attempts
  <1>2. CASE a.exec \in {"calling", "queued", "finished", "admitted"}
    <2>1. ~GivesSlot(a) /\ ~Pays(a)
      BY <1>2 DEF GivesSlot, Pays, AttemptOK
    <2> QED  BY <1>2, <2>1 DEF LeftOf, AttemptOK
  <1>3. CASE a.exec = "reserved"
    <2>1. ~Pays(a) /\ (~GivesSlot(a) => a.lease # "held")
      BY <1>3 DEF GivesSlot, Pays, AttemptOK
    <2> QED  BY <1>3, <2>1 DEF LeftOf, AttemptOK
  <1>4. CASE a.exec = "running"
    <2>1. (~GivesSlot(a) => a.lease # "held") /\ (~Pays(a) => a.money \in {"spent", "uncertain"})
      BY <1>4 DEF GivesSlot, Pays, AttemptOK
    <2>2. b.lease # "held" /\ b.money \in {"spent", "uncertain"}
      BY <2>1 DEF LeftOf
    <2>3. b.money # "spent" => b.cost = 0
      BY DEF LeftOf, AttemptOK, Pays
    <2> QED  BY <1>4, <2>2, <2>3 DEF LeftOf, AttemptOK
  <1> QED  BY <1>1, <1>2, <1>3, <1>4

----------------------------------------------------------------------------
(* The steps                                                               *)

\* The operations wait for outcomes of attempts they have made.
Placed ==
  /\ cancelled \in [Operations -> BOOLEAN] /\ CandidatesOK
  /\ pc \in [Operations -> PlacesOf]
  /\ \A o \in Operations : pc[o] \in Attending => att[o] # <<>>

\* No operation turns to an attempt it has not made.
PcKept == /\ pc' \in [Operations -> PlacesOf]
          /\ \A o \in Operations : pc'[o] \in Attending => pc[o] \in Attending

\* An operation that stays where it is does not.
LEMMA PcSame == GatewayInv /\ UNCHANGED pc => PcKept
  BY DEF GatewayInv, PcKept

\* What is to be shown of a step that changes one attempt.
LEMMA AttemptStep ==
  ASSUME GatewayInv, NEW o \in Operations, NEW i \in DOMAIN att[o],
         NEW b \in Attempts, AttemptOK(b), att' = Put(att, o, i, b),
         SlotsSay(att', slots'), \A t \in Targets : slots'[t].active <= MaxConcurrent,
         AccountSays(att', account'),
         queued' = queued - InQueue[att[o][i]] + InQueue[b], queued' <= MaxQueue,
         UNCHANGED now, PcKept, CandidatesOK', cancelled' \in [Operations -> BOOLEAN]
  PROVE  GatewayInv'
  <1>1. att \in Tables /\ Placed /\ now \in Nat
    BY DEF GatewayInv, Placed
  <1>2. /\ att' \in Tables
        /\ \A p \in Operations : DOMAIN att'[p] = DOMAIN att[p] /\ Len(att'[p]) = Len(att[p])
        /\ \A p \in Operations : \A j \in DOMAIN att[p] :
             att'[p][j] = IF p = o /\ j = i THEN b ELSE att[p][j]
        /\ \A g \in [Attempts -> Int] : Tally(att', g) = Tally(att, g) - g[att[o][i]] + g[b]
    BY <1>1, TallyChange
  <1>3. ASSUME NEW p \in Operations, NEW j \in DOMAIN att'[p] PROVE AttemptOK(att'[p][j])
    <2>1. j \in DOMAIN att[p] /\ (att'[p][j] = b \/ att'[p][j] = att[p][j])
      BY <1>2
    <2>2. AttemptOK(att[p][j])
      BY <2>1 DEF GatewayInv
    <2>3. CASE att'[p][j] = b
      BY <2>3
    <2>4. CASE att'[p][j] = att[p][j]
      BY <2>2, <2>4
    <2> QED  BY <2>1, <2>3, <2>4
  <1>4. \A p \in Operations : pc'[p] \in Attending => att'[p] # <<>>
    <2>1. ASSUME NEW p \in Operations, pc'[p] \in Attending, att'[p] = <<>>
          PROVE  FALSE
      <3>1. att[p] # <<>> /\ att[p] \in Seq(Attempts) /\ Len(att[p]) = Len(att'[p])
        BY <1>1, <1>2, <2>1 DEF Placed, Tables, PcKept
      <3>2. Len(att'[p]) = 0
        BY <2>1
      <3> QED  BY <3>1, <3>2
    <2> QED  BY <2>1
  <1>5. queued' = Tally(att', InQueue)
    BY <1>2, WeightTypes DEF GatewayInv
  <1>6. now' \in Nat /\ pc' \in [Operations -> PlacesOf]
    BY <1>1 DEF PcKept
  <1> QED  BY <1>1, <1>2, <1>3, <1>4, <1>5, <1>6 DEF GatewayInv, Placed

\* What is to be shown of a step in which finish() runs for an attempt.
LEMMA FinishStep ==
  ASSUME GatewayInv, NEW o \in Operations, NEW i \in DOMAIN att[o],
         NEW usage \in UsageRecords, NEW b \in Attempts, LeftOf(att[o][i], usage, b),
         \/ b.exec = "finished" /\ att[o][i].exec \notin {"admitted", "reserved"}
         \/ b.exec = att[o][i].exec /\ b.aborted /\ att[o][i].exec # "queued",
         att' = Put(att, o, i, b),
         slots' = Finished(att[o][i], usage).slots,
         account' = Finished(att[o][i], usage).account,
         queued' = IF att[o][i].exec = "queued" THEN queued - 1 ELSE queued,
         UNCHANGED now, PcKept, CandidatesOK', cancelled' \in [Operations -> BOOLEAN]
  PROVE  GatewayInv'
  <1> DEFINE a == att[o][i]
  <1>1. /\ att \in Tables /\ SlotsSay(att, slots) /\ AccountSays(att, account) /\ AttemptOK(a)
        /\ queued <= MaxQueue /\ queued = Tally(att, InQueue)
        /\ \A u \in Targets : slots[u].active <= MaxConcurrent
    BY DEF GatewayInv
  <1>2. a \in Attempts
    BY <1>1, InTable
  <1>3. queued \in Nat /\ MaxQueue \in Nat
    BY <1>1, WeightTypes, TallyType, LimitsAssumption
  <1>4. InQueue[a] = (IF a.exec = "queued" THEN 1 ELSE 0) /\ InQueue[b] = 0
    BY <1>2 DEF InQueue
  <1> HIDE DEF a
  <1>5. queued' = queued - InQueue[a] + InQueue[b] /\ queued' <= MaxQueue
    BY <1>1, <1>3, <1>4, SMT DEF a
  <1>6. AttemptOK(b)
    BY <1>1, <1>2, FinishedOK DEF a
  <1>7. /\ SlotsSay(att', slots') /\ AccountSays(att', account')
        /\ \A u \in Targets : slots'[u].active <= slots[u].active
    BY <1>1, FinishedSays DEF a
  <1>8. \A u \in Targets : slots'[u].active <= MaxConcurrent
    <2>1. \A u \in Targets : slots'[u].active \in Int /\ slots[u].active \in Int
      BY <1>1, <1>7 DEF SlotsSay, Slots
    <2>2. MaxConcurrent \in Int
      BY LimitsAssumption
    <2> QED  BY <1>1, <1>7, <2>1, <2>2, SMT
  <1> QED  BY <1>5, <1>6, <1>7, <1>8, AttemptStep DEF a

\* One turn of the loop of admission.
LEMMA AdmitStep ==
  ASSUME GatewayInv, NEW o \in Operations, NEW i \in DOMAIN att[o], Admit(o, i)
  PROVE  GatewayInv'
  <1> DEFINE a == att[o][i]
             t == a.target
             r == Renewed(slots[t])
  <1>1. /\ att \in Tables /\ SlotsSay(att, slots) /\ AccountSays(att, account) /\ AttemptOK(a)
        /\ now \in Nat /\ queued <= MaxQueue /\ queued = Tally(att, InQueue)
        /\ \A u \in Targets : slots[u].active <= MaxConcurrent
    BY DEF GatewayInv
  <1>2. a \in Attempts /\ t \in Targets
    BY <1>1, InTable DEF Attempts
  <1>3. UNCHANGED <<now, pc>> /\ CandidatesOK' /\ cancelled' \in [Operations -> BOOLEAN]
    BY DEF Admit, opVars, GatewayInv, CandidatesOK
  <1>4. a.exec \in {"calling", "queued"} /\ a.lease = "none" /\ a.money = "none"
    BY <1>1 DEF Admit, AttemptOK
  <1>5. queued \in Nat /\ MaxQueue \in Nat
    BY <1>1, WeightTypes, TallyType, LimitsAssumption
  <1>6. /\ SlotsSay(att, [slots EXCEPT ![t] = Renewed(@)])
        /\ r \in Slots /\ r.active = slots[t].active
    BY <1>1, <1>2, RenewalSays
  <1>7. slots \in [Targets -> Slots] /\ \A u \in Targets : slots[u].active \in Int
    BY <1>1 DEF SlotsSay, Slots
  <1>8. InQueue[a] = IF a.exec = "queued" THEN 1 ELSE 0
    BY <1>2 DEF InQueue
  <1>9. NoUsage \in UsageRecords
    BY LimitsAssumption DEF NoUsage, UsageRecords
  <1>10. CASE a.aborted /\ Fail(o, i, "aborted") /\ UNCHANGED queued
    <2> DEFINE f == Finished(a, NoUsage)
               b == [f.a EXCEPT !.exec = "finished", !.outcome = Heard(a, "aborted")]
    <2>1. att' = Put(att, o, i, b) /\ slots' = f.slots /\ account' = f.account
      BY <1>10 DEF Fail, Put
    <2>2. /\ f.a \in Attempts /\ LeftOf(a, NoUsage, f.a)
      BY <1>2, <1>9, FinishedIs
    <2>3. Heard(a, "aborted")
              \in {"pending", "ok", "retryable", "fallback", "stop", "aborted", "left"}
      BY <1>2 DEF Heard, Attempts
    <2> HIDE DEF f
    <2>4. b \in Attempts /\ LeftOf(a, NoUsage, b) /\ b.exec = "finished"
      BY <2>2, <2>3 DEF Attempts, LeftOf
    <2> HIDE DEF b
    <2>5. queued' = IF a.exec = "queued" THEN queued - 1 ELSE queued
      BY <1>1, <1>10 DEF AttemptOK
    <2> QED  BY <1>3, <1>4, <1>9, <2>1, <2>4, <2>5, PcSame, FinishStep DEF f
  <1>11. CASE /\ ~a.aborted /\ TakeSlot(t)
              /\ att' = [att EXCEPT ![o][i] =
                   [a EXCEPT !.exec = "admitted", !.lease = "held",
                             !.window = r.resetAt, !.tokens = ReserveTokens]]
              /\ queued' = IF a.exec = "queued" THEN queued - 1 ELSE queued
              /\ UNCHANGED account
    <2> DEFINE b == [a EXCEPT !.exec = "admitted", !.lease = "held",
                              !.window = r.resetAt, !.tokens = ReserveTokens]
               s == [slots EXCEPT ![t] = Renewed(@)]
    <2>1. att' = Put(att, o, i, b)
      BY <1>11 DEF Put
    <2>2. r.resetAt \in Nat /\ ReserveTokens \in Nat
      BY <1>6, LimitsAssumption DEF Slots
    <2> HIDE DEF r
    <2>3. /\ b \in Attempts /\ b.exec = "admitted" /\ b.lease = "held" /\ b.window = r.resetAt
          /\ b.tokens = ReserveTokens /\ b.target = t /\ b.money = a.money /\ b.cost = a.cost
          /\ b.ended = a.ended /\ b.aborted = a.aborted
      BY <1>2, <2>2 DEF Attempts
    <2> HIDE DEF b
    <2>4. AttemptOK(b)
      BY <1>1, <1>4, <1>11, <2>3 DEF AttemptOK
    <2>5. s[t] = r /\ s \in [Targets -> Slots]
      BY <1>2, <1>6, <1>7 DEF r
    <2>6. slots' = Taken(s, t)
      <3> DEFINE x == [r EXCEPT !.active = @ + 1, !.requests = @ + 1,
                                !.tokens = @ + ReserveTokens]
                 y == [active |-> r.active + 1, requests |-> r.requests + 1,
                       tokens |-> r.tokens + ReserveTokens, resetAt |-> r.resetAt]
      <3>1. slots' = [slots EXCEPT ![t] = x]
        BY <1>11 DEF TakeSlot, r
      <3>2. x = y
        BY <1>6, EntryTaken
      <3>3. Taken(s, t) = [s EXCEPT ![t] = y]
        BY <2>5 DEF Taken
      <3> HIDE DEF x, y
      <3>4. [s EXCEPT ![t] = y] = [slots EXCEPT ![t] = y]
        <4>1. s = [slots EXCEPT ![t] = r]
          BY DEF r
        <4> HIDE DEF s
        <4> QED  BY <1>2, <1>7, <4>1
      <3> QED  BY <3>1, <3>2, <3>3, <3>4
    <2>7. SlotsSay(att', slots')
      BY <1>1, <1>2, <1>4, <1>6, <2>1, <2>3, <2>5, <2>6, SlotTaken
    <2>8. AccountSays(att', account')
      <3>1. AccountSays(att', account)
        BY <1>1, <2>1, <2>3, AccountKept
      <3> QED  BY <1>11, <3>1
    <2>9. \A u \in Targets : slots'[u].active <= MaxConcurrent
      <3>1. r.active < MaxConcurrent /\ r.active \in Int /\ MaxConcurrent \in Int
        BY <1>6, <1>7, <1>2, <1>11, LimitsAssumption DEF TakeSlot, Admits, r
      <3>2. slots'[t].active = r.active + 1 /\ \A u \in Targets : u # t => slots'[u] = slots[u]
        BY <1>2, <1>7, <2>5, <2>6 DEF Taken
      <3> QED  BY <1>1, <3>1, <3>2, SMT
    <2>10. queued' = queued - InQueue[a] + InQueue[b] /\ queued' <= MaxQueue
      <3>1. InQueue[b] = 0
        BY <2>3 DEF InQueue
      <3> QED  BY <1>1, <1>5, <1>8, <1>11, <3>1, SMT
    <2> QED  BY <1>1, <1>3, <2>1, <2>3, <2>4, <2>7, <2>8, <2>9, <2>10, PcSame, AttemptStep
  <1>12. ASSUME NEW b \in Attempts, att' = Put(att, o, i, b), NoSlot(t), UNCHANGED account,
                AttemptOK(b), b.target = t, b.lease = "none", b.money = a.money, b.cost = a.cost,
                queued' = queued - InQueue[a] + InQueue[b], queued' <= MaxQueue
         PROVE  GatewayInv'
    <2>1. slots' = [slots EXCEPT ![t] = Renewed(@)]
      BY <1>12 DEF NoSlot
    <2>2. SlotsSay(att', slots')
      BY <1>1, <1>4, <1>6, <1>12, <2>1, SlotsKept
    <2>3. AccountSays(att', account')
      <3>1. AccountSays(att', account)
        BY <1>1, <1>12, AccountKept
      <3> QED  BY <1>12, <3>1
    <2>4. slots'[t].active = slots[t].active /\ \A u \in Targets : u # t => slots'[u] = slots[u]
      BY <1>2, <1>6, <1>7, <2>1
    <2>5. \A u \in Targets : slots'[u].active <= MaxConcurrent
      BY <1>1, <2>4
    <2> QED  BY <1>1, <1>3, <1>12, <2>2, <2>3, <2>5, PcSame, AttemptStep
  <1>13. CASE /\ ~a.aborted /\ a.exec = "calling" /\ NoSlot(t) /\ queued < MaxQueue
              /\ att' = [att EXCEPT ![o][i].exec = "queued"] /\ queued' = queued + 1
              /\ UNCHANGED account
    <2> DEFINE b == [a EXCEPT !.exec = "queued"]
    <2>1. att' = Put(att, o, i, b)
      BY <1>13 DEF Put
    <2>2. /\ b \in Attempts /\ b.exec = "queued" /\ b.lease = a.lease /\ b.target = t
          /\ b.money = a.money /\ b.cost = a.cost /\ b.ended = a.ended /\ b.aborted = a.aborted
          /\ b.tokens = a.tokens
      BY <1>2 DEF Attempts
    <2> HIDE DEF b
    <2>3. AttemptOK(b)
      BY <1>1, <1>4, <1>13, <2>2 DEF AttemptOK
    <2>4. queued' = queued - InQueue[a] + InQueue[b] /\ queued' <= MaxQueue
      <3>1. InQueue[b] = 1
        BY <2>2 DEF InQueue
      <3> QED  BY <1>5, <1>8, <1>13, <3>1, SMT
    <2> QED  BY <1>4, <1>12, <1>13, <2>1, <2>2, <2>3, <2>4
  <1>14. CASE /\ ~a.aborted /\ NoSlot(t)
              /\ att' = [att EXCEPT ![o][i] = [a EXCEPT !.exec = "finished", !.ended = TRUE,
                                                        !.outcome = Heard(a, "fallback")]]
              /\ queued' = IF a.exec = "queued" THEN queued - 1 ELSE queued
              /\ UNCHANGED account
    <2> DEFINE b == [a EXCEPT !.exec = "finished", !.ended = TRUE,
                              !.outcome = Heard(a, "fallback")]
    <2>1. att' = Put(att, o, i, b)
      BY <1>14 DEF Put
    <2>2. Heard(a, "fallback")
              \in {"pending", "ok", "retryable", "fallback", "stop", "aborted", "left"}
      BY <1>2 DEF Heard, Attempts
    <2>3. /\ b \in Attempts /\ b.exec = "finished" /\ b.lease = a.lease /\ b.target = t
          /\ b.money = a.money /\ b.cost = a.cost /\ b.tokens = a.tokens
      BY <1>2, <2>2 DEF Attempts
    <2> HIDE DEF b
    <2>4. AttemptOK(b)
      BY <1>1, <1>4, <2>3 DEF AttemptOK
    <2>5. queued' = queued - InQueue[a] + InQueue[b] /\ queued' <= MaxQueue
      <3>1. InQueue[b] = 0
        BY <2>3 DEF InQueue
      <3> QED  BY <1>1, <1>5, <1>8, <1>14, <3>1, SMT
    <2> QED  BY <1>4, <1>12, <1>14, <2>1, <2>3, <2>4, <2>5
  <1> QED  BY <1>10, <1>11, <1>13, <1>14 DEF Admit

\* An executor that gives its slot back and is at its end.
LEMMA SlotBackStep ==
  ASSUME GatewayInv, NEW o \in Operations, NEW i \in DOMAIN att[o],
         att[o][i].exec = "admitted",
         NEW b \in Attempts, b.exec = "finished", b.lease = "released",
         b.target = att[o][i].target, b.window = att[o][i].window,
         b.tokens = att[o][i].tokens, b.money = att[o][i].money, b.cost = att[o][i].cost,
         att' = Put(att, o, i, b),
         slots' = [slots EXCEPT ![att[o][i].target]
                                  = Released(@, att[o][i].window, ReserveTokens)],
         UNCHANGED <<now, pc, account, queued, cancelled, cand>>
  PROVE  GatewayInv'
  <1> DEFINE a == att[o][i]
  <1>1. /\ att \in Tables /\ SlotsSay(att, slots) /\ AccountSays(att, account) /\ AttemptOK(a)
        /\ queued <= MaxQueue /\ queued = Tally(att, InQueue)
        /\ \A u \in Targets : slots[u].active <= MaxConcurrent
    BY DEF GatewayInv
  <1>2. a \in Attempts /\ a.target \in Targets
    BY <1>1, InTable DEF Attempts
  <1>3. a.lease = "held" /\ a.tokens = ReserveTokens /\ a.money = "none"
    BY <1>1 DEF AttemptOK
  <1>4. AttemptOK(b)
    BY <1>1, <1>3 DEF AttemptOK
  <1>5. slots' = GivenBack(slots, b)
    BY <1>3 DEF GivenBack
  <1> HIDE DEF a
  <1>6. SlotsSay(att', slots')
    BY <1>1, <1>3, <1>5, SlotReleased DEF a
  <1>7. AccountSays(att', account')
    <2>1. AccountSays(att', account)
      BY <1>1, AccountKept DEF a
    <2> QED  BY <2>1
  <1>8. \A u \in Targets : slots'[u].active <= MaxConcurrent
    <2>1. /\ slots \in [Targets -> Slots] /\ MaxConcurrent \in Int
          /\ slots[a.target].active \in Int
      BY <1>1, <1>2, LimitsAssumption DEF SlotsSay, Slots
    <2>2. Released(slots[a.target], a.window, ReserveTokens).active = slots[a.target].active - 1
      BY <1>2, <2>1 DEF Released, Slots
    <2>3. /\ slots'[a.target].active = slots[a.target].active - 1
          /\ \A u \in Targets : u # a.target => slots'[u] = slots[u]
      BY <1>2, <2>1, <2>2 DEF a
    <2> QED  BY <1>1, <1>2, <2>1, <2>3, SMT
  <1>9. queued' = queued - InQueue[a] + InQueue[b] /\ queued' <= MaxQueue
    <2>1. InQueue[a] = 0 /\ InQueue[b] = 0
      BY <1>2 DEF InQueue, a
    <2>2. queued \in Nat
      BY <1>1, WeightTypes, TallyType
    <2> QED  BY <1>1, <2>1, <2>2, SMT
  <1>10. CandidatesOK' /\ cancelled' \in [Operations -> BOOLEAN]
    BY DEF GatewayInv, CandidatesOK
  <1> QED  BY <1>4, <1>6, <1>7, <1>8, <1>9, <1>10, PcSame, AttemptStep DEF a

\* begin() continues with its slot.
LEMMA ReserveStep ==
  ASSUME GatewayInv, NEW o \in Operations, NEW i \in DOMAIN att[o], Reserve(o, i)
  PROVE  GatewayInv'
  <1> DEFINE a == att[o][i]
  <1>1. /\ att \in Tables /\ SlotsSay(att, slots) /\ AccountSays(att, account) /\ AttemptOK(a)
        /\ queued <= MaxQueue /\ queued = Tally(att, InQueue)
        /\ \A u \in Targets : slots[u].active <= MaxConcurrent
    BY DEF GatewayInv
  <1>2. a \in Attempts /\ a.target \in Targets
    BY <1>1, InTable DEF Attempts
  <1>3. a.exec = "admitted" /\ UNCHANGED <<now, pc, queued, cancelled, cand>>
    BY DEF Reserve, opVars
  <1>4. a.lease = "held" /\ a.tokens = ReserveTokens /\ a.money = "none" /\ a.cost = 0
    BY <1>1, <1>3 DEF AttemptOK
  <1>5. CASE a.aborted /\ LateSlot(o, i)
    <2> DEFINE b == [a EXCEPT !.exec = "finished", !.lease = "released"]
    <2>1. att' = Put(att, o, i, b)
      BY <1>5 DEF LateSlot, Put
    <2>2. /\ b \in Attempts /\ b.exec = "finished" /\ b.lease = "released"
          /\ b.target = a.target /\ b.window = a.window /\ b.tokens = a.tokens
          /\ b.money = a.money /\ b.cost = a.cost
      BY <1>2 DEF Attempts
    <2> HIDE DEF b
    <2>3. /\ slots' = [slots EXCEPT ![a.target] = Released(@, a.window, ReserveTokens)]
          /\ UNCHANGED account
      BY <1>5 DEF LateSlot
    <2> QED  BY <1>3, <2>1, <2>2, <2>3, SlotBackStep
  <1>6. CASE ~a.aborted /\ AskBudget(o, i) /\ ~Affordable
    <2> DEFINE b == [a EXCEPT !.exec = "finished", !.ended = TRUE, !.lease = "released",
                              !.outcome = Heard(a, "stop")]
    <2>1. att' = Put(att, o, i, b)
      BY <1>6 DEF AskBudget, Put
    <2>2. Heard(a, "stop")
              \in {"pending", "ok", "retryable", "fallback", "stop", "aborted", "left"}
      BY <1>2 DEF Heard, Attempts
    <2>3. /\ b \in Attempts /\ b.exec = "finished" /\ b.lease = "released"
          /\ b.target = a.target /\ b.window = a.window /\ b.tokens = a.tokens
          /\ b.money = a.money /\ b.cost = a.cost
      BY <1>2, <2>2 DEF Attempts
    <2> HIDE DEF b
    <2>4. /\ slots' = [slots EXCEPT ![a.target] = Released(@, a.window, ReserveTokens)]
          /\ UNCHANGED account
      BY <1>6 DEF AskBudget
    <2> QED  BY <1>3, <2>1, <2>3, <2>4, SlotBackStep
  <1>7. CASE ~a.aborted /\ AskBudget(o, i) /\ Affordable
    <2> DEFINE b == [a EXCEPT !.exec = "reserved", !.money = "held"]
    <2>1. att' = Put(att, o, i, b) /\ account' = Reserved(account) /\ UNCHANGED slots
      BY <1>7 DEF AskBudget, Put
    <2>2. /\ b \in Attempts /\ b.exec = "reserved" /\ b.lease = a.lease /\ b.money = "held"
          /\ b.target = a.target /\ b.window = a.window /\ b.tokens = a.tokens
          /\ b.cost = a.cost /\ b.aborted = a.aborted /\ b.ended = a.ended
      BY <1>2 DEF Attempts
    <2> HIDE DEF b
    <2>3. AttemptOK(b)
      BY <1>1, <1>3, <1>4, <1>7, <2>2 DEF AttemptOK
    <2>4. SlotsSay(att', slots')
      <3>1. SlotsSay(att', slots)
        BY <1>1, <2>1, <2>2, SlotsKept
      <3> QED  BY <2>1, <3>1
    <2>5. AccountSays(att', account')
      <3>1. AccountSays(att', Reserved(account))
        BY <1>1, <1>4, <1>7, <2>1, <2>2, AccountReserved DEF Affordable
      <3> QED  BY <2>1, <3>1
    <2>6. queued' = queued - InQueue[a] + InQueue[b] /\ queued' <= MaxQueue
      <3>1. InQueue[a] = 0 /\ InQueue[b] = 0
        BY <1>2, <1>3, <2>2 DEF InQueue
      <3>2. queued \in Nat
        BY <1>1, WeightTypes, TallyType
      <3> QED  BY <1>1, <1>3, <3>1, <3>2, SMT
    <2>7. CandidatesOK' /\ cancelled' \in [Operations -> BOOLEAN]
      BY <1>3 DEF GatewayInv, CandidatesOK
    <2>8. \A u \in Targets : slots'[u].active <= MaxConcurrent
      BY <1>1, <2>1
    <2> QED  BY <1>3, <2>1, <2>2, <2>3, <2>4, <2>5, <2>6, <2>7, <2>8, PcSame, AttemptStep
  <1> QED  BY <1>5, <1>6, <1>7 DEF Reserve, AskBudget

\* begin() continues with its reservation.
LEMMA DispatchStep ==
  ASSUME GatewayInv, NEW o \in Operations, NEW i \in DOMAIN att[o], Dispatch(o, i)
  PROVE  GatewayInv'
  <1> DEFINE a == att[o][i]
  <1>1. /\ att \in Tables /\ SlotsSay(att, slots) /\ AccountSays(att, account) /\ AttemptOK(a)
        /\ queued <= MaxQueue /\ queued = Tally(att, InQueue)
        /\ \A u \in Targets : slots[u].active <= MaxConcurrent
    BY DEF GatewayInv
  <1>2. a \in Attempts
    BY <1>1, InTable
  <1>3. a.exec = "reserved" /\ UNCHANGED <<now, pc, slots, queued, cancelled, cand>>
    BY DEF Dispatch, opVars, admissionVars
  <1>4. a.lease # "none" /\ a.money = "held" /\ a.cost = 0 /\ (a.aborted => a.lease # "held")
    BY <1>1, <1>3 DEF AttemptOK
  <1>5. ASSUME NEW b \in Attempts, att' = Put(att, o, i, b), AccountSays(att', account'),
               AttemptOK(b), b.exec # "queued", b.lease = a.lease, b.target = a.target,
               b.window = a.window, b.tokens = a.tokens
        PROVE  GatewayInv'
    <2>1. SlotsSay(att', slots')
      <3>1. SlotsSay(att', slots)
        BY <1>1, <1>5, SlotsKept
      <3> QED  BY <1>3, <3>1
    <2>2. queued' = queued - InQueue[a] + InQueue[b] /\ queued' <= MaxQueue
      <3>1. InQueue[a] = 0 /\ InQueue[b] = 0
        BY <1>2, <1>3, <1>5 DEF InQueue
      <3>2. queued \in Nat
        BY <1>1, WeightTypes, TallyType
      <3> QED  BY <1>1, <1>3, <3>1, <3>2, SMT
    <2>3. CandidatesOK' /\ cancelled' \in [Operations -> BOOLEAN]
      BY <1>3 DEF GatewayInv, CandidatesOK
    <2>4. \A u \in Targets : slots'[u].active <= MaxConcurrent
      BY <1>1, <1>3
    <2> QED  BY <1>3, <1>5, <2>1, <2>2, <2>3, <2>4, PcSame, AttemptStep
  <1>6. CASE /\ a.aborted /\ account' = Cancelled(account)
             /\ att' = [att EXCEPT ![o][i]
                    = [a EXCEPT !.exec = "finished", !.money = "cancelled"]]
    <2> DEFINE b == [a EXCEPT !.exec = "finished", !.money = "cancelled"]
    <2>1. att' = Put(att, o, i, b)
      BY <1>6 DEF Put
    <2>2. /\ b \in Attempts /\ b.exec = "finished" /\ b.lease = a.lease /\ b.money = "cancelled"
          /\ b.target = a.target /\ b.window = a.window /\ b.tokens = a.tokens
          /\ b.cost = a.cost
      BY <1>2 DEF Attempts
    <2> HIDE DEF b
    <2>3. AttemptOK(b)
      BY <1>4, <1>6, <2>2 DEF AttemptOK
    <2>4. AccountSays(att', account')
      <3>1. AccountSays(att', Cancelled(account))
        BY <1>1, <1>4, <2>1, <2>2, AccountCancelled
      <3> QED  BY <1>6, <3>1
    <2> QED  BY <1>5, <2>1, <2>2, <2>3, <2>4
  <1>7. CASE ~a.aborted /\ att' = [att EXCEPT ![o][i].exec = "running"] /\ UNCHANGED account
    <2> DEFINE b == [a EXCEPT !.exec = "running"]
    <2>1. att' = Put(att, o, i, b)
      BY <1>7 DEF Put
    <2>2. /\ b \in Attempts /\ b.exec = "running" /\ b.lease = a.lease /\ b.money = a.money
          /\ b.target = a.target /\ b.window = a.window /\ b.tokens = a.tokens
          /\ b.cost = a.cost /\ b.ended = a.ended /\ b.aborted = a.aborted
      BY <1>2 DEF Attempts
    <2> HIDE DEF b
    <2>3. AttemptOK(b)
      BY <1>1, <1>3, <1>4, <1>7, <2>2 DEF AttemptOK
    <2>4. AccountSays(att', account')
      <3>1. AccountSays(att', account)
        BY <1>1, <2>1, <2>2, AccountKept
      <3> QED  BY <1>7, <3>1
    <2> QED  BY <1>5, <2>1, <2>2, <2>3, <2>4
  <1> QED  BY <1>6, <1>7 DEF Dispatch

\* The provider answers.
LEMMA AnswerStep ==
  ASSUME GatewayInv, NEW o \in Operations, NEW i \in DOMAIN att[o], Answer(o, i)
  PROVE  GatewayInv'
  <1> DEFINE a == att[o][i]
  <1>1. att \in Tables /\ a \in Attempts
    BY InTable DEF GatewayInv
  <1>2. a.exec = "running" /\ UNCHANGED <<now, pc, queued, cancelled, cand>>
    BY DEF Answer, opVars
  <1>3. PICK usage \in Usages \cup {NoUsage},
               outcome \in {"ok", "retryable", "fallback", "stop"} :
          /\ att' = [att EXCEPT ![o][i] = [Finished(a, usage).a EXCEPT !.exec = "finished",
                                                     !.outcome = Heard(a, outcome)]]
          /\ slots' = Finished(a, usage).slots /\ account' = Finished(a, usage).account
    BY DEF Answer
  <1>4. usage \in UsageRecords
    <2>1. NoUsage \in UsageRecords
      BY LimitsAssumption DEF NoUsage, UsageRecords
    <2>2. Usages \subseteq UsageRecords
      BY GatewayAssumption DEF UsageRecords
    <2> QED  BY <2>1, <2>2
  <1> DEFINE f == Finished(a, usage)
             b == [f.a EXCEPT !.exec = "finished", !.outcome = Heard(a, outcome)]
  <1>5. att' = Put(att, o, i, b) /\ slots' = f.slots /\ account' = f.account
    BY <1>3 DEF Put
  <1>6. f.a \in Attempts /\ LeftOf(a, usage, f.a)
    BY <1>1, <1>4, FinishedIs
  <1>7. Heard(a, outcome)
            \in {"pending", "ok", "retryable", "fallback", "stop", "aborted", "left"}
    BY <1>1 DEF Heard, Attempts
  <1> HIDE DEF f
  <1>8. b \in Attempts /\ LeftOf(a, usage, b) /\ b.exec = "finished"
    BY <1>6, <1>7 DEF Attempts, LeftOf
  <1> HIDE DEF b
  <1>9. CandidatesOK' /\ cancelled' \in [Operations -> BOOLEAN]
    BY <1>2 DEF GatewayInv, CandidatesOK
  <1> QED  BY <1>2, <1>4, <1>5, <1>8, <1>9, PcSame, FinishStep DEF f

\* An attempt is aborted: finish() runs, and a call leaves the queue.
LEMMA AbortStep ==
  ASSUME GatewayInv, NEW o \in Operations, att[o] # <<>>,
         NEW outcome \in {"retryable", "fallback", "aborted", "left"}, AbortAttempt(o, outcome),
         UNCHANGED <<now, cand>>, PcKept, cancelled' \in [Operations -> BOOLEAN]
  PROVE  GatewayInv'
  <1> DEFINE i == Len(att[o])
             a == att[o][i]
  <1>1. att \in Tables /\ att[o] \in Seq(Attempts)
    BY DEF GatewayInv, Tables
  <1>2. i \in DOMAIN att[o]
    BY <1>1, SMT
  <1>3. a \in Attempts /\ NoUsage \in UsageRecords /\ AttemptOK(a)
    BY <1>1, <1>2, LimitsAssumption DEF NoUsage, UsageRecords, GatewayInv
  <1> DEFINE f == Finished(a, NoUsage)
             b == [f.a EXCEPT !.aborted = TRUE, !.outcome = outcome,
                              !.exec = IF @ = "queued" THEN "finished" ELSE @]
  <1>4. /\ att' = Put(att, o, i, b) /\ slots' = f.slots /\ account' = f.account
        /\ queued' = IF a.exec = "queued" THEN queued - 1 ELSE queued
    BY DEF AbortAttempt, Put, Current
  <1>5. f.a \in Attempts /\ LeftOf(a, NoUsage, f.a) /\ f.a.exec = a.exec
    BY <1>3, FinishedIs
  <1> HIDE DEF f, i
  <1>6. /\ b \in Attempts /\ LeftOf(a, NoUsage, b) /\ b.aborted
        /\ b.exec = IF a.exec = "queued" THEN "finished" ELSE a.exec
    BY <1>5 DEF Attempts, LeftOf
  <1> HIDE DEF b
  <1>7. CandidatesOK'
    BY DEF GatewayInv, CandidatesOK
  <1>8. \/ b.exec = "finished" /\ a.exec \notin {"admitted", "reserved"}
        \/ b.exec = a.exec /\ b.aborted /\ a.exec # "queued"
    BY <1>6
  <1> QED  BY <1>2, <1>3, <1>4, <1>6, <1>7, <1>8, FinishStep DEF f

\* Steps that leave the attempts, and the limits, alone.
LEMMA FrameStep ==
  ASSUME GatewayInv, UNCHANGED <<att, slots, queued, account>>, now' \in Nat, CandidatesOK',
         cancelled' \in [Operations -> BOOLEAN],
         pc' \in [Operations -> PlacesOf],
         \A p \in Operations : pc'[p] \in Attending => att[p] # <<>>
  PROVE  GatewayInv'
  <1>1. SlotsSay(att', slots') /\ AccountSays(att', account') /\ queued' = Tally(att', InQueue)
    BY DEF GatewayInv
  <1> QED  BY <1>1 DEF GatewayInv

\* An operation goes from one place to another, and nothing else happens.
LEMMA PlaceStep ==
  ASSUME GatewayInv, NEW o \in Operations,
         NEW place \in PlacesOf,
         place \in Attending => att[o] # <<>>,
         Goto(o, place), CandidatesOK', UNCHANGED <<now, att, slots, queued, account, cancelled>>
  PROVE  GatewayInv'
  <1>1. \A p \in Operations : pc'[p] = IF p = o THEN place ELSE pc[p]
    BY DEF Goto, GatewayInv
  <1>2. pc' \in [Operations -> PlacesOf]
    BY DEF Goto, GatewayInv
  <1>3. \A p \in Operations : pc'[p] \in Attending => att[p] # <<>>
    BY <1>1 DEF GatewayInv
  <1>4. now' \in Nat /\ cancelled' \in [Operations -> BOOLEAN]
    BY DEF GatewayInv
  <1> QED  BY <1>2, <1>3, <1>4, FrameStep

\* An operation makes another attempt.
LEMMA AttemptMade ==
  ASSUME GatewayInv, NEW o \in Operations, NEW t \in Targets,
         Len(att[o]) < MaxTotalAttempts,
         att' = [att EXCEPT ![o] = Append(@, NewAttempt(o, t))],
         Goto(o, "attempting"), UNCHANGED <<now, cand, slots, queued, account, cancelled>>
  PROVE  GatewayInv'
  <1> DEFINE b == NewAttempt(o, t)
  <1>1. att \in Tables /\ SlotsSay(att, slots) /\ AccountSays(att, account)
        /\ queued = Tally(att, InQueue)
    BY DEF GatewayInv
  <1>2. /\ b \in Attempts /\ b.exec = "calling" /\ b.lease = "none" /\ b.money = "none"
        /\ b.cost = 0 /\ b.ended = FALSE
    BY DEF NewAttempt, Attempts, GatewayInv
  <1>3. att' = Add(att, o, b)
    BY DEF Add
  <1> HIDE DEF b
  <1>4. /\ att' \in Tables
        /\ att'[o] # <<>> /\ \A p \in Operations : p # o => att'[p] = att[p]
        /\ \A p \in Operations : \A j \in DOMAIN att'[p] :
             att'[p][j] = b \/ (j \in DOMAIN att[p] /\ att'[p][j] = att[p][j])
        /\ \A g \in [Attempts -> Int] : Tally(att', g) = Tally(att, g) + g[b]
    <2>1. att \in Tables /\ b \in Attempts
      BY <1>1, <1>2
    <2>2. ASSUME NEW B, B = Add(att, o, b)
          PROVE  /\ B \in Tables
                 /\ B[o] # <<>> /\ \A p \in Operations : p # o => B[p] = att[p]
                 /\ \A p \in Operations : \A j \in DOMAIN B[p] :
                      B[p][j] = b \/ (j \in DOMAIN att[p] /\ B[p][j] = att[p][j])
                 /\ \A g \in [Attempts -> Int] : Tally(B, g) = Tally(att, g) + g[b]
      BY <2>1, <2>2, TallyAppend
    <2> QED  BY <1>3, <2>2
  <1>5. ASSUME NEW g \in [Attempts -> Int], g[b] = 0 PROVE Tally(att', g) = Tally(att, g)
    <2> DEFINE n == Tally(att, g)
    <2>1. n \in Int
      BY <1>1, TallyType
    <2>2. Tally(att', g) = n + g[b]
      BY <1>4
    <2> HIDE DEF n
    <2>3. Tally(att', g) = n
      BY <1>5, <2>1, <2>2
    <2> QED  BY <2>3 DEF n
  <1>6. /\ \A u : Holding(u)[b] = 0
        /\ \A u, w : Requests(u, w)[b] = 0 /\ Tokens(u, w)[b] = 0
        /\ InQueue[b] = 0 /\ With("held")[b] = 0 /\ With("uncertain")[b] = 0 /\ Price[b] = 0
    BY <1>2 DEF Holding, Requests, Tokens, Counts, InQueue, With, Price
  <1>7. Overrun[b] = 0
    <2>1. ReserveAmount \in Nat
      BY LimitsAssumption
    <2> QED  BY <1>2, <2>1 DEF Overrun
  <1>8. SlotsSay(att', slots)
    <2>1. ASSUME NEW u \in Targets
          PROVE  /\ slots[u].active = Tally(att', Holding(u))
                 /\ slots[u].requests = Tally(att', Requests(u, slots[u].resetAt))
                 /\ slots[u].tokens = Tally(att', Tokens(u, slots[u].resetAt))
      <3>1. /\ Holding(u) \in [Attempts -> Int]
            /\ Requests(u, slots[u].resetAt) \in [Attempts -> Int]
            /\ Tokens(u, slots[u].resetAt) \in [Attempts -> Int]
        BY WeightTypes
      <3> QED  BY <1>1, <1>5, <1>6, <3>1 DEF SlotsSay
    <2>2. ASSUME NEW p \in Operations, NEW j \in DOMAIN att'[p], att'[p][j].lease # "none"
          PROVE  att'[p][j].window <= slots[att'[p][j].target].resetAt
      BY <1>1, <1>2, <1>4, <2>2 DEF SlotsSay
    <2> QED  BY <1>1, <2>1, <2>2 DEF SlotsSay
  <1>9. AccountSays(att', account)
    <2>1. /\ With("held") \in [Attempts -> Int] /\ With("uncertain") \in [Attempts -> Int]
          /\ Price \in [Attempts -> Int] /\ Overrun \in [Attempts -> Int]
      BY WeightTypes
    <2>2. /\ Tally(att', With("held")) = Tally(att, With("held"))
          /\ Tally(att', With("uncertain")) = Tally(att, With("uncertain"))
          /\ Tally(att', Price) = Tally(att, Price) /\ Tally(att', Overrun) = Tally(att, Overrun)
      BY <1>5, <1>6, <1>7, <2>1
    <2> QED  BY <1>1, <2>2 DEF AccountSays
  <1>10. queued' = Tally(att', InQueue)
    BY <1>1, <1>5, <1>6, WeightTypes
  <1>11. ASSUME NEW p \in Operations, NEW j \in DOMAIN att'[p] PROVE AttemptOK(att'[p][j])
    <2>1. AttemptOK(b)
      BY <1>2 DEF AttemptOK
    <2>2. j \in DOMAIN att[p] => AttemptOK(att[p][j])
      BY DEF GatewayInv
    <2>3. att'[p][j] = b \/ (j \in DOMAIN att[p] /\ att'[p][j] = att[p][j])
      BY <1>4
    <2>4. CASE att'[p][j] = b
      BY <2>1, <2>4
    <2>5. CASE j \in DOMAIN att[p] /\ att'[p][j] = att[p][j]
      BY <2>2, <2>5
    <2> QED  BY <2>3, <2>4, <2>5
  <1>12. /\ pc' \in [Operations -> PlacesOf]
         /\ \A p \in Operations : pc'[p] \in Attending => att'[p] # <<>>
    <2>1. /\ pc' \in [Operations -> PlacesOf]
          /\ \A p \in Operations : p # o => pc'[p] = pc[p]
      BY DEF Goto, GatewayInv, PlacesOf
    <2> QED  BY <1>4, <2>1 DEF GatewayInv
  <1>13. CandidatesOK' /\ now' \in Nat /\ cancelled' \in [Operations -> BOOLEAN]
    BY DEF GatewayInv, CandidatesOK
  <1>14. queued' <= MaxQueue /\ \A u \in Targets : slots'[u].active <= MaxConcurrent
    BY DEF GatewayInv
  <1>15. SlotsSay(att', slots') /\ AccountSays(att', account')
    BY <1>8, <1>9
  <1> QED  BY <1>4, <1>10, <1>11, <1>12, <1>13, <1>14, <1>15 DEF GatewayInv

\* One turn of the loop over candidates and retries.
LEMMA LoopStep ==
  ASSUME GatewayInv, NEW o \in Operations, Loop(o), CandidatesOK'
  PROVE  GatewayInv'
  <1>1. ASSUME NextCandidate(o), UNCHANGED <<now, att, slots, queued, account, cancelled>>
        PROVE  GatewayInv'
    <2> DEFINE place == IF cand[o] < Len(Route[o]) THEN "choosing" ELSE "over"
    <2>1. Goto(o, place)
      BY <1>1 DEF NextCandidate
    <2>2. place \in {"choosing", "over"}
      OBVIOUS
    <2> HIDE DEF place
    <2> QED  BY <1>1, <2>1, <2>2, PlaceStep DEF PlacesOf, Attending
  <1>2. CASE Choose(o)
    <2> DEFINE t == Route[o][cand[o]]
    <2>1. t \in Targets
      BY RouteOfTargets DEF CandidatesOK, GatewayInv
    <2>2. UNCHANGED <<now, slots, queued, account, cancelled>>
      BY <1>2 DEF Choose, admissionVars
    <2>3. CASE NextCandidate(o) /\ UNCHANGED att
      BY <1>1, <2>2, <2>3
    <2>4. CASE /\ Len(att[o]) < MaxTotalAttempts
               /\ att' = [att EXCEPT ![o] = Append(@, NewAttempt(o, t))]
               /\ Goto(o, "attempting") /\ UNCHANGED <<cand, retry>>
      <3> HIDE DEF t
      <3> QED  BY <2>1, <2>2, <2>4, AttemptMade
    <2>5. CASE Goto(o, "over") /\ UNCHANGED <<cand, retry, att>>
      BY <2>2, <2>5, PlaceStep DEF PlacesOf, Attending
    <2> QED  BY <1>2, <2>3, <2>4, <2>5 DEF Choose
  <1>3. CASE Conclude(o)
    <2> DEFINE place == IF \/ pc[o] = "streaming" \/ cancelled[o]
                           \/ Current(o).outcome \in {"ok", "stop"}
                        THEN "over" ELSE "deciding"
    <2>1. Goto(o, place) /\ UNCHANGED <<now, att, slots, queued, account, cancelled>>
      BY <1>3 DEF Conclude, admissionVars
    <2>2. place \in {"deciding", "over"}
      OBVIOUS
    <2> HIDE DEF place
    <2> QED  BY <2>1, <2>2, PlaceStep DEF PlacesOf, Attending
  <1>4. CASE Decide(o)
    <2>1. UNCHANGED <<now, att, slots, queued, account, cancelled>>
      BY <1>4 DEF Decide, policyVars, admissionVars
    <2>2. Goto(o, "backoff") \/ NextCandidate(o)
      BY <1>4 DEF Decide
    <2> QED  BY <1>1, <2>1, <2>2, PlaceStep DEF PlacesOf, Attending
  <1>5. CASE Backoff(o)
    <2>1. UNCHANGED <<now, att, slots, queued, account, cancelled>>
      BY <1>5 DEF Backoff, policyVars, admissionVars
    <2>2. Goto(o, "over") \/ Goto(o, "choosing")
      BY <1>5 DEF Backoff
    <2> QED  BY <2>1, <2>2, PlaceStep DEF PlacesOf, Attending
  <1> QED  BY <1>2, <1>3, <1>4, <1>5 DEF Loop

\* The invariant holds initially: nothing was attempted.
LEMMA InitGatewayInv == Init => GatewayInv
  <1> SUFFICES ASSUME Init PROVE GatewayInv
    OBVIOUS
  <1>1. /\ att = [o \in Operations |-> <<>>] /\ pc = [o \in Operations |-> "idle"]
        /\ cancelled = [o \in Operations |-> FALSE]
        /\ slots = [t \in Targets |-> NewSlots] /\ queued = 0
        /\ account = [spent |-> 0, reserved |-> 0, uncertain |-> 0]
    BY DEF Init, LimitsInit
  <1>2. now \in Nat
    BY DEF Init, BreakerInit
  <1>3. CandidatesOK
    BY InitCandidates
  <1>4. \A o \in Operations : att[o] = <<>> /\ DOMAIN att[o] = {} /\ Len(att[o]) = 0
    BY <1>1
  <1>5. att \in Tables
    <2>1. <<>> \in Seq(Attempts) /\ MaxTotalAttempts \in Nat /\ 0 <= MaxTotalAttempts
      BY GatewayAssumption
    <2> QED  BY <1>1, <1>4, <2>1 DEF Tables
  <1>6. \A g : Tally(att, g) = 0
    BY <1>4, <1>5, TallyZero
  <1>7. SlotsSay(att, slots)
    <2>1. /\ NewSlots \in Slots /\ NewSlots.active = 0
          /\ NewSlots.requests = 0 /\ NewSlots.tokens = 0
      BY DEF NewSlots, Slots
    <2> QED  BY <1>1, <1>4, <1>6, <2>1 DEF SlotsSay
  <1>8. AccountSays(att, account)
    <2>1. ReserveAmount \in Nat /\ Limit \in Nat
      BY LimitsAssumption
    <2>2. ReserveAmount * 0 = 0 /\ 0 <= Limit + 0
      BY <2>1, SMT
    <2> QED  BY <1>1, <1>6, <2>2 DEF AccountSays
  <1>9. 0 <= MaxQueue /\ 0 <= MaxConcurrent
    BY LimitsAssumption
  <1>10. \A t \in Targets : slots[t].active = 0
    BY <1>1 DEF NewSlots
  <1> QED  BY <1>1, <1>2, <1>3, <1>4, <1>5, <1>6, <1>7, <1>8, <1>9, <1>10
     DEF GatewayInv, PlacesOf, Attending

\* Every step keeps it.
LEMMA GatewayInvStep == GatewayInv /\ [Next]_vars => GatewayInv'
  <1> SUFFICES ASSUME GatewayInv, [Next]_vars PROVE GatewayInv'
    OBVIOUS
  <1>1. CandidatesOK'
    BY CandidatesStep DEF GatewayInv
  <1>2. CASE Tick \/ UNCHANGED vars
    <2>1. UNCHANGED <<att, slots, queued, account, pc, cancelled>>
      BY <1>2 DEF Tick, vars, policyVars, admissionVars, opVars
    <2>2. now' \in Nat
      BY <1>2 DEF Tick, vars, GatewayInv
    <2> QED  BY <1>1, <2>1, <2>2, FrameStep DEF GatewayInv
  <1>3. ASSUME NEW o \in Operations, Begin(o) PROVE GatewayInv'
    <2>1. Goto(o, "choosing") /\ UNCHANGED <<now, att, slots, queued, account, cancelled>>
      BY <1>3 DEF Begin, policyVars, admissionVars
    <2> QED  BY <1>1, <2>1, PlaceStep DEF PlacesOf, Attending
  <1>4. ASSUME NEW o \in Operations, Loop(o) PROVE GatewayInv'
    BY <1>1, <1>4, LoopStep
  <1>5. ASSUME NEW o \in Operations, Execute(o) PROVE GatewayInv'
    BY <1>5, AdmitStep, ReserveStep, DispatchStep DEF Execute
  <1>6. ASSUME NEW o \in Operations, NEW i \in DOMAIN att[o], Answer(o, i) PROVE GatewayInv'
    BY <1>6, AnswerStep
  <1>7. ASSUME NEW o \in Operations, FirstEvent(o) \/ Pull(o) \/ NextEvent(o)
        PROVE  GatewayInv'
    <2>1. /\ Goto(o, "streaming") \/ Goto(o, "paused")
          /\ UNCHANGED <<now, att, slots, queued, account, cancelled>>
          /\ att[o] # <<>>
      BY <1>7 DEF FirstEvent, Pull, NextEvent, policyVars, admissionVars, GatewayInv, Attending
    <2> QED  BY <1>1, <2>1, PlaceStep DEF PlacesOf
  <1>8. ASSUME NEW o \in Operations, Timeout(o) PROVE GatewayInv'
    <2> DEFINE outcome == IF pc[o] = "attempting" THEN "retryable" ELSE "fallback"
    <2>1. /\ AbortAttempt(o, outcome) /\ UNCHANGED <<now, pc, cand, cancelled>>
          /\ att[o] # <<>>
      BY <1>8 DEF Timeout, Waiting, opVars, GatewayInv, Attending
    <2>2. outcome \in {"retryable", "fallback"} /\ cancelled' \in [Operations -> BOOLEAN]
      BY <2>1 DEF GatewayInv
    <2> HIDE DEF outcome
    <2> QED  BY <2>1, <2>2, PcSame, AbortStep
  <1>9. ASSUME NEW o \in Operations, CallerAbort(o) PROVE GatewayInv'
    <2>1. /\ UNCHANGED <<now, pc, cand>> /\ cancelled' \in [Operations -> BOOLEAN]
      BY <1>9 DEF CallerAbort, GatewayInv
    <2>2. CASE att[o] # <<>> /\ AbortAttempt(o, "aborted")
      BY <2>1, <2>2, PcSame, AbortStep
    <2>3. CASE UNCHANGED <<slots, account, queued, att>>
      BY <1>1, <2>1, <2>3, FrameStep DEF GatewayInv
    <2> QED  BY <1>9, <2>2, <2>3 DEF CallerAbort, GatewayInv, Attending
  <1>10. ASSUME NEW o \in Operations, ConsumerReturn(o) PROVE GatewayInv'
    <2>1. /\ Goto(o, "over") /\ UNCHANGED <<now, cand, cancelled>> /\ att[o] # <<>>
      BY <1>10 DEF ConsumerReturn, GatewayInv, Attending
    <2>2. PcKept /\ cancelled' \in [Operations -> BOOLEAN]
      BY <2>1 DEF GatewayInv, PcKept, Goto, PlacesOf, Attending
    <2>3. CASE AbortAttempt(o, "left")
      BY <2>1, <2>2, <2>3, AbortStep
    <2>4. CASE UNCHANGED <<slots, account, queued, att>>
      <3>1. /\ pc' \in [Operations -> PlacesOf]
            /\ \A p \in Operations : pc'[p] \in Attending => att[p] # <<>>
        BY <2>2 DEF GatewayInv, PcKept
      <3> QED  BY <1>1, <2>1, <2>2, <2>4, <3>1, FrameStep DEF GatewayInv
    <2> QED  BY <1>10, <2>3, <2>4 DEF ConsumerReturn
  <1> QED  BY <1>2, <1>3, <1>4, <1>5, <1>6, <1>7, <1>8, <1>9, <1>10 DEF Next

\* The limits say what the attempts hold, and have used, in every state.
THEOREM GatewayAccounts == Spec => []GatewayInv
  BY InitGatewayInv, GatewayInvStep, PTL DEF Spec

----------------------------------------------------------------------------
(* What the tallies say, in the words of the properties                    *)

\* A place contributes what its attempt says if there is one.
LEMMA ShareOfMade ==
  ASSUME att \in Tables, NEW g
  PROVE  /\ Made \subseteq Places
         /\ \A m \in Made : Share(att, g)[m] = g[Of(m)] /\ Of(m) \in Attempts
         /\ \A m \in Places : m \notin Made => Share(att, g)[m] = 0
  <1>1. \A m \in Places : m[1] \in Operations /\ m[2] \in 1..MaxTotalAttempts
    BY DEF Places
  <1>2. Made = {m \in Places : m[2] \in DOMAIN att[m[1]]}
    BY DEF Made, Places
  <1>3. \A m \in Places :
          Share(att, g)[m] = IF m[2] \in DOMAIN att[m[1]] THEN g[att[m[1]][m[2]]] ELSE 0
    BY DEF Share
  <1>4. \A m \in Made : att[m[1]][m[2]] \in Attempts
    BY <1>1, <1>2, InTable
  <1> QED  BY <1>2, <1>3, <1>4 DEF Of

\* A tally of ones counts the attempts they stand for.
LEMMA TallyCounts ==
  ASSUME att \in Tables, NEW T \in SUBSET Made, NEW g,
         \A m \in Made : g[Of(m)] = IF m \in T THEN 1 ELSE 0
  PROVE  Tally(att, g) = Cardinality(T)
  <1> DEFINE f == Share(att, g)
  <1>1. IsFiniteSet(Places) /\ T \in SUBSET Places
    BY PlacesFinite, ShareOfMade
  <1>2. \A m \in Places : f[m] = IF m \in T THEN 1 ELSE 0
    BY ShareOfMade
  <1> HIDE DEF f
  <1>3. SumFunctionOnSet(f, Places) = Cardinality(T)
    BY <1>1, <1>2, SumCounts
  <1> QED  BY <1>3 DEF f, Tally

\* A tally that is zero outside a set of attempts is their total.
LEMMA TallyTotals ==
  ASSUME att \in Tables, NEW T \in SUBSET Made, NEW g, NEW f,
         \A m \in T : f[m] \in Int,
         \A m \in Made : g[Of(m)] = IF m \in T THEN f[m] ELSE 0
  PROVE  Tally(att, g) = Total(T, f)
  <1> DEFINE h == Share(att, g)
  <1>1. IsFiniteSet(Places) /\ T \in SUBSET Places
    BY PlacesFinite, ShareOfMade
  <1>2. \A m \in Places : h[m] = IF m \in T THEN f[m] ELSE 0
    BY ShareOfMade
  <1> HIDE DEF h
  <1>3. SumFunctionOnSet(h, Places) = SumFunctionOnSet(f, T)
    BY <1>1, <1>2, SumRestricted
  <1> QED  BY <1>3 DEF h, Tally, Total

\* The slots and the places in the queue are those the attempts hold.
LEMMA SlotsExactHolds == GatewayInv => SlotsExact
  <1> SUFFICES ASSUME GatewayInv PROVE SlotsExact
    OBVIOUS
  <1>1. att \in Tables /\ \A m \in Made : Of(m) \in Attempts
    BY ShareOfMade DEF GatewayInv
  <1>2. ASSUME NEW t \in Targets
        PROVE  slots[t].active
                   = Cardinality({m \in Made : Of(m).lease = "held" /\ Of(m).target = t})
    <2> DEFINE T == {m \in Made : Of(m).lease = "held" /\ Of(m).target = t}
    <2>1. \A m \in Made : Holding(t)[Of(m)] = IF m \in T THEN 1 ELSE 0
      BY <1>1 DEF Holding
    <2>2. T \in SUBSET Made
      OBVIOUS
    <2> HIDE DEF T
    <2>3. Tally(att, Holding(t)) = Cardinality(T)
      BY <1>1, <2>1, <2>2, TallyCounts
    <2> QED  BY <2>3 DEF T, GatewayInv, SlotsSay
  <1>3. queued = Cardinality({m \in Made : Of(m).exec = "queued"})
    <2> DEFINE T == {m \in Made : Of(m).exec = "queued"}
    <2>1. \A m \in Made : InQueue[Of(m)] = IF m \in T THEN 1 ELSE 0
      BY <1>1 DEF InQueue
    <2>2. T \in SUBSET Made
      OBVIOUS
    <2> HIDE DEF T
    <2>3. Tally(att, InQueue) = Cardinality(T)
      BY <1>1, <2>1, <2>2, TallyCounts
    <2> QED  BY <2>3 DEF T, GatewayInv
  <1> QED  BY <1>2, <1>3 DEF SlotsExact, GatewayInv

\* The windows count what was admitted in them.
LEMMA QuotaExactHolds == GatewayInv => QuotaExact
  <1> SUFFICES ASSUME GatewayInv, NEW t \in Targets
               PROVE  LET counted == {m \in Made : /\ Of(m).target = t /\ Of(m).lease # "none"
                                                   /\ Of(m).window = slots[t].resetAt}
                      IN /\ slots[t].requests = Cardinality(counted)
                         /\ slots[t].tokens = Total(counted, [m \in Made |-> Of(m).tokens])
    BY DEF QuotaExact
  <1> DEFINE w == slots[t].resetAt
             T == {m \in Made : Of(m).target = t /\ Of(m).lease # "none" /\ Of(m).window = w}
             f == [m \in Made |-> Of(m).tokens]
  <1>1. att \in Tables /\ \A m \in Made : Of(m) \in Attempts
    BY ShareOfMade DEF GatewayInv
  <1>2. /\ \A m \in Made : Requests(t, w)[Of(m)] = IF m \in T THEN 1 ELSE 0
        /\ \A m \in Made : Tokens(t, w)[Of(m)] = IF m \in T THEN f[m] ELSE 0
    BY <1>1 DEF Requests, Tokens, Counts
  <1>3. T \in SUBSET Made /\ \A m \in T : f[m] \in Int
    BY <1>1 DEF Attempts
  <1> HIDE DEF T, f
  <1>4. Tally(att, Requests(t, w)) = Cardinality(T)
    BY <1>1, <1>2, <1>3, TallyCounts
  <1>5. Tally(att, Tokens(t, w)) = Total(T, f)
    BY <1>1, <1>2, <1>3, TallyTotals
  <1> QED  BY <1>4, <1>5 DEF T, f, GatewayInv, SlotsSay

\* The account says what became of every reservation.
LEMMA SpendingExactHolds == GatewayInv => SpendingExact
  <1> SUFFICES ASSUME GatewayInv PROVE SpendingExact
    OBVIOUS
  <1>1. att \in Tables /\ \A m \in Made : Of(m) \in Attempts
    BY ShareOfMade DEF GatewayInv
  <1> DEFINE kept(money) == {m \in Made : Of(m).money = money}
             over == [m \in Made |-> IF Of(m).cost > ReserveAmount
                                    THEN Of(m).cost - ReserveAmount ELSE 0]
             costs == [m \in Made |-> Of(m).cost]
  <1>2. ASSUME NEW k PROVE Tally(att, With(k)) = Cardinality(kept(k))
    <2> DEFINE T == kept(k)
    <2>1. T \in SUBSET Made /\ \A m \in Made : With(k)[Of(m)] = IF m \in T THEN 1 ELSE 0
      BY <1>1 DEF With
    <2> HIDE DEF T
    <2>2. Tally(att, With(k)) = Cardinality(T)
      BY <1>1, <2>1, TallyCounts
    <2> QED  BY <2>2 DEF T
  <1>3. Tally(att, Price) = Total(kept("spent"), costs)
    <2> DEFINE T == kept("spent")
    <2>1. T \in SUBSET Made /\ \A m \in Made : Price[Of(m)] = IF m \in T THEN costs[m] ELSE 0
      BY <1>1 DEF Price
    <2>2. \A m \in T : costs[m] \in Int
      BY <1>1 DEF Attempts
    <2> HIDE DEF T, costs
    <2>3. Tally(att, Price) = Total(T, costs)
      BY <1>1, <2>1, <2>2, TallyTotals
    <2> QED  BY <2>3 DEF T
  <1>4. Tally(att, Overrun) = Total(Made, over)
    <2>1. \A m \in Made : Overrun[Of(m)] = over[m]
      BY <1>1 DEF Overrun
    <2>2. \A m \in Made : Overrun[Of(m)] \in Int
      BY <1>1, WeightTypes
    <2> HIDE DEF over
    <2> QED  BY <1>1, <2>1, <2>2, TallyTotals
  <1>5. \A m \in Made : Of(m).exec = "running" => Of(m).money \in {"held", "spent", "uncertain"}
    <2>1. \A m \in Made : m[1] \in Operations /\ m[2] \in DOMAIN att[m[1]]
      BY DEF Made
    <2>2. \A m \in Made : AttemptOK(Of(m))
      BY <2>1 DEF Of, GatewayInv
    <2> QED  BY <2>2 DEF AttemptOK
  <1> HIDE DEF kept, over, costs
  <1>6. /\ account.reserved = ReserveAmount * Cardinality(kept("held"))
        /\ account.uncertain = ReserveAmount * Cardinality(kept("uncertain"))
        /\ account.spent = Total(kept("spent"), costs)
        /\ account.spent + account.reserved + account.uncertain <= Limit + Total(Made, over)
    BY <1>2, <1>3, <1>4 DEF GatewayInv, AccountSays
  <1> QED  BY <1>5, <1>6 DEF SpendingExact, kept, over, costs

\* In every state the counters of the admission controller say what the attempts
\* hold, and are within their limits.
THEOREM GatewaySlotsExact == Spec => []SlotsExact
  BY GatewayAccounts, SlotsExactHolds, PTL

\* In every state a quota window counts the attempts admitted in it, with what
\* they used where that is known, however late they end.
THEOREM GatewayQuotaExact == Spec => []QuotaExact
  BY GatewayAccounts, QuotaExactHolds, PTL

\* In every state the account says what became of every reservation, and the
\* limit is passed only by prices above the reservations.
THEOREM GatewaySpendingExact == Spec => []SpendingExact
  BY GatewayAccounts, SpendingExactHolds, PTL
====
