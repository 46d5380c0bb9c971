---- MODULE TokenBudgetProofs ----
(***************************************************************************)
(* The compare-and-swap of the shared token budget implements the atomic   *)
(* ledger, and no operation's tokens admit two calls, for any workers,     *)
(* operations, needs, limit and number of tries.  The argument: a record   *)
(* about to be saved whose revision follows the store's was computed from  *)
(* exactly the allocations the store still holds.  And the tokens admitted *)
(* stay within the limit plus what the calls used beyond their reports:    *)
(* the charges are summed by the facts of SumTheorems, one allocation      *)
(* changing at a time.                                                     *)
(***************************************************************************)
EXTENDS TokenBudget, SumTheorems, TLAPS

\* A record that would be saved is what its worker makes of the allocations
\* in the store, unless the store has moved on.
Fresh(w) ==
  pc[w] = "save" =>
    /\ next[w].revision <= store.revision + 1
    /\ next[w].revision = store.revision + 1 =>
         /\ Accepts(w)
         /\ next[w].allocations = Mutated(w)

IInv == TypeOK /\ \A w \in Workers : Fresh(w)

\* The worker was admitted and may call, or has called, the provider.
Holds(w) == pc[w] \in {"admitted", "called"} \/ usage[w] # Unknown

\* Every reservation admits one worker, and its operation stays in the ledger.
OneCall ==
  \A w \in Workers : Holds(w) =>
    /\ Allocation(w).status # "none"
    /\ \A v \in Workers : v # w /\ Holds(v) => OperationOf[v] # OperationOf[w]

----------------------------------------------------------------------------
(* The operators of the coordinator *)

\* What a worker looks up in the ledger is an allocation.
LEMMA AllocationType ==
  ASSUME TypeOK, NEW w \in Workers
  PROVE  /\ OperationOf[w] \in Operations
         /\ Allocation(w) \in Ledger!Allocations
         /\ store.allocations \in Ledger!Ledgers
         /\ store.revision \in Nat
  BY BudgetAssumption DEF TypeOK, Records, Ledger!Ledgers, Allocation

\* What a worker settles its allocation to is an allocation, with a status.
LEMMA SettledType ==
  ASSUME TypeOK, NEW w \in Workers
  PROVE  Settled(w) \in Ledger!Allocations /\ Settled(w).status # "none"
  <1>1. receipt[w] # Unknown => receipt[w] \in Nat
    BY BudgetAssumption DEF TypeOK, Receipts
  <1>2. Allocation(w) \in Ledger!Allocations
    BY AllocationType
  <1>3. CASE receipt[w] # Unknown
    BY <1>1, <1>3 DEF Settled, Ledger!Allocations
  <1>4. CASE receipt[w] = Unknown /\ Allocation(w).status = "confirmed"
    BY <1>2, <1>4 DEF Settled
  <1>5. CASE receipt[w] = Unknown /\ Allocation(w).status # "confirmed"
    BY <1>2, <1>5 DEF Settled, Ledger!Allocations
  <1> QED  BY <1>3, <1>4, <1>5

\* What a worker makes of the ledger is a ledger, in which only its own
\* operation may differ and that operation has a status.
LEMMA MutatedType ==
  ASSUME TypeOK, NEW w \in Workers
  PROVE  /\ Mutated(w) \in Ledger!Ledgers
         /\ Mutated(w)[OperationOf[w]].status # "none"
         /\ \A o \in Operations :
              o # OperationOf[w] => Mutated(w)[o] = store.allocations[o]
  <1> DEFINE e == IF call[w] = "reserve"
                  THEN [status |-> "reserved", tokens |-> Need[OperationOf[w]]]
                  ELSE Settled(w)
  <1>1. Mutated(w) = [store.allocations EXCEPT ![OperationOf[w]] = e]
    BY DEF Mutated
  <1>2. OperationOf[w] \in Operations /\ store.allocations \in [Operations -> Ledger!Allocations]
    BY AllocationType DEF Ledger!Ledgers
  <1>3. Need[OperationOf[w]] \in Nat
    BY <1>2, BudgetAssumption
  <1>4. [status |-> "reserved", tokens |-> Need[OperationOf[w]]] \in Ledger!Allocations
    BY <1>3 DEF Ledger!Allocations
  <1>5. e \in Ledger!Allocations /\ e.status # "none"
    BY <1>4, SettledType
  <1> HIDE DEF e
  <1> QED  BY <1>1, <1>2, <1>5 DEF Ledger!Ledgers

\* What a worker looks up and makes of the ledger depends on the ledger, its
\* call and its receipt alone.
LEMMA SameLedger ==
  ASSUME NEW w \in Workers, store' = store, call'[w] = call[w], receipt'[w] = receipt[w]
  PROVE  /\ Accepts(w)' = Accepts(w)
         /\ Mutated(w)' = Mutated(w)
         /\ Allocation(w)' = Allocation(w)
  <1>1. Allocation(w)' = Allocation(w)
    BY DEF Allocation
  <1>2. Settled(w)' = Settled(w) /\ Settleable(w)' = Settleable(w)
    BY <1>1 DEF Settled, Settleable
  <1>3. Ledger!Taken(store.allocations)' = Ledger!Taken(store.allocations)
    OBVIOUS
  <1>4. Reservable(w)' = Reservable(w)
    BY <1>1, <1>3 DEF Reservable
  <1>5. Mutated(w)' = Mutated(w)
    BY <1>2 DEF Mutated
  <1>6. Accepts(w)' = Accepts(w)
    BY <1>2, <1>4 DEF Accepts
  <1> QED  BY <1>1, <1>5, <1>6

----------------------------------------------------------------------------
(* The inductive invariant *)

\* The invariant holds initially.
LEMMA InitIInv == Init => IInv
  <1> SUFFICES ASSUME Init PROVE IInv
    OBVIOUS
  <1>1. Ledger!Unreserved \in Ledger!Allocations
    BY DEF Ledger!Unreserved, Ledger!Allocations
  <1>2. NoRecord \in Records
    BY <1>1 DEF NoRecord, Records, Ledger!Ledgers
  <1>3. 0 \in 0..(Tries - 1)
    BY BudgetAssumption
  <1>4. TypeOK
    BY <1>2, <1>3 DEF Init, TypeOK, Receipts
  <1>5. \A w \in Workers : Fresh(w)
    BY DEF Init, Fresh
  <1> QED  BY <1>4, <1>5 DEF IInv

\* Every step keeps the types.
LEMMA TypeStep ==
  ASSUME IInv, NEW w \in Workers, Step(w)
  PROVE  TypeOK'
  <1>1. TypeOK
    BY DEF IInv
  <1>2. ASSUME NEW c \in {"reserve", "settle"}, NEW r \in Receipts, Call(w, c, r)
        PROVE  TypeOK'
    <2>1. 0 \in 0..(Tries - 1)
      BY BudgetAssumption
    <2> QED  BY <1>1, <1>2, <2>1 DEF TypeOK, Call
  <1>3. Unknown \in Receipts /\ 0 \in Receipts /\ usage[w] \in Receipts
    BY <1>1, BudgetAssumption DEF Receipts, TypeOK
  <1>4. CASE Reserve(w)
    BY <1>2, <1>3, <1>4 DEF Reserve
  <1>5. CASE Load(w)
    <2>1. [revision |-> store.revision + 1, allocations |-> Mutated(w)] \in Records
      BY <1>1, MutatedType, AllocationType DEF Records
    <2> QED  BY <1>1, <1>5, <2>1 DEF TypeOK, Load
  <1>6. CASE Save(w) \/ AnswerLost(w)
    <2>1. NoRecord \in Records
      BY DEF NoRecord, Records, Ledger!Ledgers, Ledger!Unreserved, Ledger!Allocations
    <2>2. next[w] \in Records
      BY <1>1 DEF TypeOK
    <2> QED  BY <1>1, <1>6, <2>1, <2>2 DEF TypeOK, Save, AnswerLost, Commit
  <1>7. CASE Conflict(w)
    <2>1. NoRecord \in Records
      BY DEF NoRecord, Records, Ledger!Ledgers, Ledger!Unreserved, Ledger!Allocations
    <2>2. retry[w] \in 0..(Tries - 1) /\ Tries \in Nat
      BY <1>1, BudgetAssumption DEF TypeOK
    <2>3. retry[w] + 1 < Tries => retry[w] + 1 \in 0..(Tries - 1)
      BY <2>2
    <2>4. retry' \in [Workers -> 0..(Tries - 1)]
      BY <1>1, <1>7, <2>3 DEF TypeOK, Conflict
    <2> QED  BY <1>1, <1>7, <2>1, <2>4 DEF TypeOK, Conflict
  <1>8. CASE Withdraw(w)
    BY <1>2, <1>3, <1>8 DEF Withdraw
  <1>9. CASE Dispatch(w)
    BY <1>1, <1>9 DEF TypeOK, Dispatch, Receipts
  <1>10. CASE Answer(w)
    BY <1>2, <1>3, <1>10 DEF Answer
  <1>11. CASE Reconcile(w)
    <2>1. \A v \in Workers : usage[v] \in Receipts
      BY <1>1 DEF TypeOK
    <2> QED  BY <1>2, <1>11, <2>1 DEF Reconcile
  <1>12. CASE Stop(w)
    <2>1. NoRecord \in Records
      BY DEF NoRecord, Records, Ledger!Ledgers, Ledger!Unreserved, Ledger!Allocations
    <2> QED  BY <1>1, <1>12, <2>1 DEF TypeOK, Stop
  <1> QED  BY <1>4, <1>5, <1>6, <1>7, <1>8, <1>9, <1>10, <1>11, <1>12 DEF Step

\* A step that leaves the store alone keeps the records of the workers that
\* were about to save fresh.
LEMMA FreshKept ==
  ASSUME NEW v \in Workers, Fresh(v), store' = store,
         pc'[v] = "save" => /\ pc[v] = "save" /\ next'[v] = next[v]
                            /\ call'[v] = call[v] /\ receipt'[v] = receipt[v]
  PROVE  Fresh(v)'
  <1>1. CASE pc'[v] # "save"
    BY <1>1 DEF Fresh
  <1>2. CASE pc'[v] = "save"
    <2>1. Accepts(v)' = Accepts(v) /\ Mutated(v)' = Mutated(v)
      BY <1>2, SameLedger
    <2> QED  BY <1>2, <2>1 DEF Fresh
  <1> QED  BY <1>1, <1>2

\* Every step keeps the records fresh: a save makes those of the others old.
LEMMA FreshStep ==
  ASSUME IInv, NEW w \in Workers, Step(w), NEW v \in Workers
  PROVE  Fresh(v)'
  <1>1. TypeOK /\ Fresh(v) /\ Fresh(w)
    BY DEF IInv
  <1>2. CASE /\ store' = store
             /\ pc'[v] = "save" => /\ pc[v] = "save" /\ next'[v] = next[v]
                                   /\ call'[v] = call[v] /\ receipt'[v] = receipt[v]
    BY <1>1, <1>2, FreshKept
  <1>3. ASSUME NEW c, NEW r, Call(w, c, r)
        PROVE  Fresh(v)'
    BY <1>1, <1>2, <1>3 DEF Call, TypeOK
  <1>4. CASE Reserve(w) \/ Withdraw(w) \/ Answer(w) \/ Reconcile(w)
    BY <1>3, <1>4 DEF Reserve, Withdraw, Answer, Reconcile
  <1>5. CASE Conflict(w) \/ Dispatch(w) \/ Stop(w)
    BY <1>1, <1>2, <1>5 DEF Conflict, Dispatch, Stop, TypeOK
  <1>6. CASE Load(w) /\ v = w
    <2>1. store' = store /\ call'[v] = call[v] /\ receipt'[v] = receipt[v]
      BY <1>6 DEF Load
    <2>2. Accepts(v)' = Accepts(v) /\ Mutated(v)' = Mutated(v)
      BY <2>1, SameLedger
    <2>3. pc'[v] = "save" =>
            /\ Accepts(v)
            /\ next'[v] = [revision |-> store.revision + 1, allocations |-> Mutated(v)]
      BY <1>1, <1>6 DEF Load, TypeOK
    <2>4. store.revision \in Nat
      BY <1>1, AllocationType
    <2>5. pc'[v] = "save" => /\ next'[v].revision = store.revision + 1
                             /\ next'[v].allocations = Mutated(v)
      BY <2>3
    <2> QED  BY <2>1, <2>2, <2>3, <2>4, <2>5 DEF Fresh
  <1>7. CASE Load(w) /\ v # w
    BY <1>1, <1>2, <1>7 DEF Load, TypeOK
  <1>8. CASE (Save(w) \/ AnswerLost(w)) /\ v = w
    <2>1. pc'[v] # "save"
      BY <1>1, <1>8 DEF Save, AnswerLost, TypeOK
    <2> QED  BY <2>1 DEF Fresh
  <1>9. CASE (Save(w) \/ AnswerLost(w)) /\ v # w
    <2>1. pc'[v] = pc[v] /\ next'[v] = next[v] /\ store' = next[w]
          /\ next[w].revision = store.revision + 1
      BY <1>1, <1>9 DEF Save, AnswerLost, Commit, TypeOK
    <2>2. store.revision \in Nat /\ next[v].revision \in Nat
      BY <1>1 DEF TypeOK, Records
    <2>3. pc'[v] = "save" => next[v].revision <= store.revision + 1
      BY <1>1, <2>1 DEF Fresh
    <2>4. pc'[v] = "save" => /\ next'[v].revision <= store'.revision + 1
                             /\ next'[v].revision # store'.revision + 1
      BY <2>1, <2>2, <2>3
    <2> QED  BY <2>4 DEF Fresh
  <1> QED  BY <1>4, <1>5, <1>6, <1>7, <1>8, <1>9 DEF Step

\* The invariant is inductive.
LEMMA IInvStep == IInv /\ [Next]_vars => IInv'
  <1> SUFFICES ASSUME IInv, [Next]_vars PROVE IInv'
    OBVIOUS
  <1>1. ASSUME NEW w \in Workers, Step(w) PROVE IInv'
    BY <1>1, TypeStep, FreshStep DEF IInv
  <1>2. CASE UNCHANGED vars
    <2>1. TypeOK'
      BY <1>2 DEF IInv, TypeOK, vars
    <2>2. ASSUME NEW v \in Workers PROVE Fresh(v)'
      BY <1>2, FreshKept DEF IInv, vars
    <2> QED  BY <2>1, <2>2 DEF IInv
  <1> QED  BY <1>1, <1>2 DEF Next

\* The record is well formed and no stale record can be saved.
THEOREM BudgetInvariant == Spec => []IInv
  BY InitIInv, IInvStep, PTL DEF Spec

----------------------------------------------------------------------------
(* The refinement *)

\* A save that is not refused is one operation of the ledger, or writes what
\* the ledger already says.
LEMMA CommitImplements ==
  ASSUME IInv, NEW w \in Workers, pc[w] = "save", Commit(w)
  PROVE  [Ledger!Next]_(store.allocations)
  <1> DEFINE o == OperationOf[w]
  <1>1. TypeOK /\ o \in Operations
    BY AllocationType DEF IInv
  <1>2. Accepts(w) /\ store'.allocations = Mutated(w)
    BY DEF IInv, Fresh, Commit
  <1>3. /\ store.allocations \in [Operations -> Ledger!Allocations]
        /\ Allocation(w) = store.allocations[o]
    BY <1>1, AllocationType DEF Ledger!Ledgers, Allocation
  <1>4. CASE call[w] = "reserve"
    <2>1. Reservable(w) /\ Mutated(w) =
            [store.allocations EXCEPT ![o] = [status |-> "reserved", tokens |-> Need[o]]]
      BY <1>2, <1>4 DEF Accepts, Mutated
    <2>2. Ledger!Reserve(o)
      BY <1>2, <1>3, <2>1 DEF Reservable, Ledger!Reserve
    <2> QED  BY <1>1, <2>2 DEF Ledger!Next
  <1>5. CASE call[w] # "reserve"
    <2>1. Settleable(w) /\ Mutated(w) = [store.allocations EXCEPT ![o] = Settled(w)]
      BY <1>2, <1>5 DEF Accepts, Mutated
    <2>2. Allocation(w).status \in {"reserved", "confirmed", "unknown"}
      BY <1>1, <2>1, AllocationType DEF Settleable, Ledger!Allocations
    <2>3. Allocation(w) = [status |-> Allocation(w).status, tokens |-> Allocation(w).tokens]
      BY <1>1, AllocationType DEF Ledger!Allocations
    <2>4. CASE Settled(w) = Allocation(w)
      <3>1. store'.allocations = store.allocations
        BY <1>2, <1>3, <2>1, <2>4
      <3> QED  BY <3>1
    <2>5. CASE receipt[w] # Unknown /\ Settled(w) # Allocation(w)
      <3>1. receipt[w] \in Usages /\ Settled(w) = [status |-> "confirmed", tokens |-> receipt[w]]
        BY <1>1, <2>5 DEF TypeOK, Receipts, Settled
      <3>2. Allocation(w).status # "confirmed"
        BY <2>1, <2>3, <2>5, <3>1 DEF Settleable
      <3>3. Ledger!Confirm(o)
        BY <1>2, <1>3, <2>1, <2>2, <3>1, <3>2 DEF Ledger!Confirm
      <3> QED  BY <1>1, <3>3 DEF Ledger!Next
    <2>6. CASE receipt[w] = Unknown /\ Settled(w) # Allocation(w)
      <3>1. /\ Settled(w) = [status |-> "unknown", tokens |-> Allocation(w).tokens]
            /\ Allocation(w).status # "confirmed"
        BY <2>6 DEF Settled
      <3>2. Allocation(w).status = "reserved"
        BY <2>2, <2>3, <2>6, <3>1
      <3>3. Ledger!Lose(o)
        BY <1>2, <1>3, <2>1, <3>1, <3>2 DEF Ledger!Lose
      <3> QED  BY <1>1, <3>3 DEF Ledger!Next
    <2> QED  BY <2>4, <2>5, <2>6
  <1> QED  BY <1>4, <1>5

\* Every step is an operation of the ledger or leaves it as it was.
LEMMA StepImplements == IInv /\ [Next]_vars => [Ledger!Next]_(store.allocations)
  <1> SUFFICES ASSUME IInv, [Next]_vars PROVE [Ledger!Next]_(store.allocations)
    OBVIOUS
  <1>1. CASE store' = store
    BY <1>1
  <1>2. ASSUME NEW w \in Workers, Save(w) \/ AnswerLost(w)
        PROVE  [Ledger!Next]_(store.allocations)
    BY <1>2, CommitImplements DEF Save, AnswerLost
  <1>3. ASSUME NEW w \in Workers, Step(w), ~(Save(w) \/ AnswerLost(w))
        PROVE  store' = store
    BY <1>3 DEF Step, Reserve, Load, Conflict, Withdraw, Dispatch, Answer, Reconcile,
                Stop, Call
  <1> QED  BY <1>1, <1>2, <1>3 DEF Next, vars

\* The coordinator's compare-and-swap on the run store implements the atomic
\* ledger, with any number of processes, retries, crashes and lost answers.
THEOREM BudgetImplementsLedger == Spec => AtomicLedger
  <1>1. Init => Ledger!Init
    BY DEF Init, NoRecord, Ledger!Init
  <1> QED  BY <1>1, BudgetInvariant, StepImplements, PTL
              DEF Spec, AtomicLedger, Ledger!Spec

----------------------------------------------------------------------------
(* One call under one reservation *)

\* The worker that is admitted was alone, and its operation is in the ledger.
LEMMA OneCallStep == IInv /\ OneCall /\ [Next]_vars => OneCall'
  <1> SUFFICES ASSUME IInv, OneCall, [Next]_vars,
                      NEW w \in Workers, Holds(w)'
               PROVE  /\ Allocation(w)'.status # "none"
                      /\ \A v \in Workers :
                           v # w /\ Holds(v)' => OperationOf[v] # OperationOf[w]
    BY DEF OneCall
  <1>1. TypeOK
    BY DEF IInv
  <1>2. ASSUME UNCHANGED store, \A v \in Workers : Holds(v)' => Holds(v)
        PROVE  /\ Allocation(w)'.status # "none"
               /\ \A v \in Workers :
                    v # w /\ Holds(v)' => OperationOf[v] # OperationOf[w]
    BY <1>2 DEF OneCall, Allocation
  <1>3. CASE UNCHANGED vars
    BY <1>2, <1>3 DEF vars, Holds
  <1>4. ASSUME NEW x \in Workers, Step(x), ~(Save(x) \/ AnswerLost(x))
        PROVE  UNCHANGED store /\ \A v \in Workers : Holds(v)' => Holds(v)
    <2>1. UNCHANGED store
      BY <1>4 DEF Step, Reserve, Load, Conflict, Withdraw, Dispatch, Answer,
                  Reconcile, Stop, Call
    <2>2. CASE Dispatch(x)
      BY <1>1, <2>1, <2>2 DEF Dispatch, Holds, TypeOK
    <2>3. CASE Reserve(x) \/ Withdraw(x) \/ Answer(x) \/ Reconcile(x)
      BY <1>1, <2>1, <2>3 DEF Reserve, Withdraw, Answer, Reconcile, Call, Holds, TypeOK
    <2>4. CASE Load(x) \/ Conflict(x) \/ Stop(x)
      BY <1>1, <2>1, <2>4 DEF Load, Conflict, Stop, Holds, TypeOK
    <2> QED  BY <1>4, <2>1, <2>2, <2>3, <2>4 DEF Step
  <1>5. ASSUME NEW x \in Workers, Save(x) \/ AnswerLost(x)
        PROVE  /\ Allocation(w)'.status # "none"
               /\ \A v \in Workers :
                    v # w /\ Holds(v)' => OperationOf[v] # OperationOf[w]
    <2>1. Accepts(x) /\ store'.allocations = Mutated(x)
      BY <1>5 DEF IInv, Fresh, Save, AnswerLost, Commit
    <2>2. \A v \in Workers : v # x => (Holds(v)' <=> Holds(v))
      BY <1>1, <1>5 DEF Save, AnswerLost, Holds, TypeOK
    <2>3. Holds(x)' => Holds(x) \/ call[x] = "reserve"
      BY <1>1, <1>5 DEF Save, AnswerLost, Holds, TypeOK
    <2>4. call[x] = "reserve" => Allocation(x).status = "none"
      BY <2>1 DEF Accepts, Reservable
    <2>5. \A v \in Workers : Holds(v) => Allocation(v).status # "none"
      BY DEF OneCall
    <2>6. \A v \in Workers : OperationOf[v] = OperationOf[x] => Allocation(v) = Allocation(x)
      BY DEF Allocation
    <2>7. Allocation(w)'.status # "none"
      <3>1. CASE OperationOf[w] = OperationOf[x]
        BY <1>1, <2>1, <3>1, MutatedType DEF Allocation
      <3>2. CASE OperationOf[w] # OperationOf[x]
        <4>1. Holds(w)
          BY <2>2, <3>2
        <4>2. Allocation(w)' = Allocation(w)
          BY <1>1, <2>1, <3>2, MutatedType, AllocationType DEF Allocation
        <4> QED  BY <2>5, <4>1, <4>2
      <3> QED  BY <3>1, <3>2
    <2>8. ASSUME NEW v \in Workers, v # w, Holds(v)', OperationOf[v] = OperationOf[w]
          PROVE  FALSE
      <3>1. CASE Holds(v) /\ Holds(w)
        BY <2>8, <3>1 DEF OneCall
      <3>2. CASE ~Holds(v)
        <4>1. v = x /\ Holds(w) /\ Allocation(v).status = "none"
          BY <2>2, <2>3, <2>4, <2>8, <3>2
        <4> QED  BY <2>5, <2>6, <2>8, <4>1
      <3>3. CASE ~Holds(w)
        <4>1. w = x /\ Holds(v) /\ Allocation(w).status = "none"
          BY <2>2, <2>3, <2>4, <2>8, <3>3
        <4> QED  BY <2>5, <2>6, <2>8, <4>1
      <3> QED  BY <3>1, <3>2, <3>3
    <2> QED  BY <2>7, <2>8
  <1> QED  BY <1>2, <1>3, <1>4, <1>5 DEF Next

\* Two workers of one operation, a run and its resumption or an execution and
\* the one that took its lease over, never both call the provider: what
\* SpendingBounded needs of the callers.
THEOREM OneCallPerReservation == Spec => []OneCall
  <1>1. Init => OneCall
    BY DEF Init, OneCall, Holds
  <1> QED  BY <1>1, BudgetInvariant, OneCallStep, PTL DEF Spec
----------------------------------------------------------------------------
(* The tokens that are used *)

\* What an allocation counts of the budget: a use beyond the reservation counts
\* as the reservation.
Charge(l, o) == IF l[o].tokens <= Need[o] THEN l[o].tokens ELSE Need[o]
Charges(l) == [o \in Operations |-> Charge(l, o)]

\* The charges fit the budget.
ChargesFit == SumFunctionOnSet(Charges(store.allocations), Operations) <= Limit

\* A reservation is what its operation needs.
ReservedNeeds ==
  \A o \in Operations :
    /\ store.allocations[o].status \in {"reserved", "unknown"}
         => store.allocations[o].tokens = Need[o]
    /\ store.allocations[o].status = "none" => store.allocations[o].tokens = 0

\* A worker that has not called its provider has used nothing.
UsesAfterCall ==
  \A w \in Workers :
    \/ pc[w] \in {"idle", "admitted"}
    \/ call[w] = "reserve" /\ pc[w] \in {"load", "save"}
    => usage[w] = Unknown

\* A receipt that is about to be settled is what the worker that holds the
\* reservation used; when the tokens are given back, no worker holds it.
TrueReceipts ==
  \A v \in Workers : call[v] = "settle" /\ pc[v] \in {"load", "save"} =>
    /\ Allocation(v).status # "none"
    /\ \A w \in Workers :
         receipt[v] # Unknown /\ OperationOf[w] = OperationOf[v] /\ Holds(w)
           => usage[w] = receipt[v]

\* What is confirmed is what was used.
TrueConfirmed ==
  \A w \in Workers :
    Holds(w) /\ Allocation(w).status = "confirmed" => usage[w] = Allocation(w).tokens

SpendInv ==
  /\ IInv /\ OneCall
  /\ ChargesFit /\ ReservedNeeds /\ UsesAfterCall /\ TrueReceipts /\ TrueConfirmed

\* The ledger's total is a sum over the domain of the function.
LEMMA TotalIsSum ==
  ASSUME NEW f
  PROVE  Ledger!Total(f) = SumFunctionOnSet(f, DOMAIN f)
  BY DEF Ledger!Total, Ledger!SumFunction, Ledger!SumFunctionOnSet, Ledger!FoldFunctionOnSet,
         Ledger!MapThenFoldSet, SumFunctionOnSet, FoldFunctionOnSet, MapThenFoldSet

\* A charge is a number, at most the need and at most the allocation.
LEMMA ChargeType ==
  ASSUME NEW l \in Ledger!Ledgers, NEW o \in Operations
  PROVE  /\ l[o] \in Ledger!Allocations
         /\ l[o].tokens \in Nat /\ Need[o] \in Nat
         /\ Charges(l)[o] = Charge(l, o) /\ Charge(l, o) \in Nat
         /\ Charge(l, o) <= Need[o] /\ Charge(l, o) <= l[o].tokens
  <1>1. l[o] \in Ledger!Allocations /\ Need[o] \in Nat
    BY BudgetAssumption DEF Ledger!Ledgers
  <1>2. l[o].tokens \in Nat
    BY <1>1 DEF Ledger!Allocations
  <1>3. Charges(l)[o] = Charge(l, o)
    BY DEF Charges
  <1> QED  BY <1>1, <1>2, <1>3, SMT DEF Charge

\* A save charges at most what the budget has left, or nothing.
LEMMA CommitCharges ==
  ASSUME SpendInv, NEW w \in Workers, pc[w] = "save", Commit(w)
  PROVE  ChargesFit' /\ ReservedNeeds'
  <1> DEFINE o == OperationOf[w]
             a == store.allocations
             b == Mutated(w)
             n == SumFunctionOnSet(Charges(a), Operations)
             m == SumFunctionOnSet(Charges(b), Operations)
  <1>1. /\ TypeOK /\ o \in Operations /\ IsFiniteSet(Operations) /\ Allocation(w) = a[o]
        /\ a \in Ledger!Ledgers /\ b \in Ledger!Ledgers
    BY MutatedType, AllocationType, BudgetAssumption DEF SpendInv, IInv, Allocation
  <1>2. Accepts(w) /\ store'.allocations = b
    BY DEF SpendInv, IInv, Fresh, Commit
  <1>3. \A p \in Operations : p # o => b[p] = a[p]
    BY <1>1, <1>2, MutatedType
  <1>4. \A p \in Operations : /\ Charges(a)[p] = Charge(a, p) /\ Charge(a, p) \in Int
                               /\ Charges(b)[p] = Charge(b, p) /\ Charge(b, p) \in Int
    BY <1>1, ChargeType
  <1>5. \A p \in Operations : p # o => Charge(b, p) = Charge(a, p)
    BY <1>3 DEF Charge
  <1>6. n <= Limit /\ n \in Int /\ m \in Int /\ Limit \in Nat
    BY <1>1, <1>4, SumType, BudgetAssumption DEF SpendInv, ChargesFit
  <1>7. m = n - Charge(a, o) + Charge(b, o)
    <2>1. \A p \in Operations : p # o => Charges(b)[p] = Charges(a)[p]
      BY <1>4, <1>5
    <2>2. \A p \in Operations : Charges(a)[p] \in Int
      BY <1>4
    <2>3. Charges(b)[o] \in Int
      BY <1>1, <1>4
    <2>4. m = n - Charges(a)[o] + Charges(b)[o]
      BY <1>1, <2>1, <2>2, <2>3, SumChange
    <2> QED  BY <1>1, <1>4, <2>4
  <1>8. /\ a[o].tokens \in Nat /\ Need[o] \in Nat /\ b[o].tokens \in Nat
        /\ Charge(a, o) \in Nat /\ Charge(b, o) \in Nat /\ Charge(b, o) <= Need[o]
        /\ a \in [Operations -> Ledger!Allocations]
    BY <1>1, ChargeType DEF Ledger!Ledgers
  <1>9. CASE call[w] = "reserve"
    <2>1. a[o].status = "none" /\ Ledger!Taken(a) + Need[o] <= Limit
      BY <1>1, <1>2, <1>9 DEF Accepts, Reservable
    <2>2. b[o] = [status |-> "reserved", tokens |-> Need[o]]
      BY <1>1, <1>2, <1>8, <1>9 DEF Mutated
    <2>3. ReservedNeeds'
      BY <1>1, <1>2, <1>3, <2>2 DEF SpendInv, ReservedNeeds
    <2>4. a[o].tokens = 0
      BY <1>1, <2>1 DEF SpendInv, ReservedNeeds
    <2>5. Charge(a, o) = 0
      BY <2>4, <1>8, SMT DEF Charge
    <2>6. n <= Ledger!Taken(a) /\ Ledger!Taken(a) \in Int
      <3> DEFINE f == [p \in Operations |-> a[p].tokens]
      <3>1. Ledger!Taken(a) = SumFunctionOnSet(f, Operations)
        BY TotalIsSum DEF Ledger!Taken
      <3>2. \A p \in Operations : f[p] \in Int /\ Charges(a)[p] \in Int /\ Charges(a)[p] <= f[p]
        BY <1>1, ChargeType
      <3> HIDE DEF f
      <3> QED  BY <1>1, <3>1, <3>2, SumAtMost, SumType
    <2>7. m <= Limit
      BY <1>6, <1>7, <1>8, <2>1, <2>5, <2>6, SMT
    <2> QED  BY <1>2, <2>3, <2>7 DEF ChargesFit
  <1>10. CASE call[w] # "reserve"
    <2>1. Settleable(w) /\ b[o] = Settled(w)
      BY <1>1, <1>2, <1>8, <1>10 DEF Accepts, Mutated
    <2>2. a[o].status \in {"reserved", "confirmed", "unknown"}
      BY <1>1, <1>8, <2>1 DEF Settleable, Ledger!Allocations
    <2>3. CASE a[o].status = "confirmed"
      <3>1. b[o].tokens = a[o].tokens
        BY <1>1, <2>1, <2>3 DEF Settleable, Settled
      <3>2. b[o].status = "confirmed"
        BY <1>1, <2>1, <2>3 DEF Settleable, Settled
      <3>3. ReservedNeeds'
        BY <1>1, <1>2, <1>3, <3>2 DEF SpendInv, ReservedNeeds
      <3>4. Charge(b, o) = Charge(a, o)
        BY <3>1 DEF Charge
      <3>5. m <= Limit
        BY <1>6, <1>7, <1>8, <3>4, SMT
      <3> QED  BY <1>2, <3>3, <3>5 DEF ChargesFit
    <2>4. CASE a[o].status # "confirmed"
      <3>1. a[o].tokens = Need[o]
        BY <1>1, <2>2, <2>4 DEF SpendInv, ReservedNeeds
      <3>2. Charge(a, o) = Need[o]
        BY <3>1, <1>8, SMT DEF Charge
      <3>3. /\ Settled(w).status = "unknown" => Settled(w).tokens = a[o].tokens
            /\ Settled(w).status \in {"unknown", "confirmed"}
        BY <1>1, <2>4 DEF Settled
      <3>4. ReservedNeeds'
        BY <1>1, <1>2, <1>3, <2>1, <3>1, <3>3 DEF SpendInv, ReservedNeeds
      <3>5. m <= Limit
        BY <1>6, <1>7, <1>8, <3>2, SMT
      <3> QED  BY <1>2, <3>4, <3>5 DEF ChargesFit
    <2> QED  BY <2>3, <2>4
  <1> QED  BY <1>9, <1>10

\* A call of the coordinator begins: it settles what its worker has found out,
\* or reserves for a worker that has used nothing.
LEMMA CallSpends ==
  ASSUME SpendInv, NEW w \in Workers, NEW c, NEW r, Call(w, c, r),
         c = "reserve" => usage[w] = Unknown,
         c = "settle" =>
           /\ Allocation(w).status # "none"
           /\ \A v \in Workers :
                r # Unknown /\ OperationOf[v] = OperationOf[w] /\ Holds(v)' => usage[v] = r
  PROVE  UsesAfterCall' /\ TrueReceipts' /\ TrueConfirmed'
  <1>1. TypeOK /\ UsesAfterCall /\ TrueReceipts /\ TrueConfirmed
    BY DEF SpendInv, IInv
  <1>2. /\ UNCHANGED <<store, usage>>
        /\ pc'[w] = "load" /\ call'[w] = c /\ receipt'[w] = r
        /\ \A v \in Workers : v # w =>
             pc'[v] = pc[v] /\ call'[v] = call[v] /\ receipt'[v] = receipt[v]
    BY <1>1 DEF Call, TypeOK
  <1>3. \A v \in Workers : Allocation(v)' = Allocation(v) /\ (Holds(v)' => Holds(v))
    BY <1>2 DEF Allocation, Holds
  <1>4. UsesAfterCall'
    BY <1>1, <1>2 DEF UsesAfterCall
  <1>5. TrueConfirmed'
    BY <1>1, <1>2, <1>3 DEF TrueConfirmed
  <1>6. ASSUME NEW v \in Workers, call'[v] = "settle", pc'[v] \in {"load", "save"}
        PROVE  /\ Allocation(v)'.status # "none"
               /\ \A x \in Workers :
                    receipt'[v] # Unknown /\ OperationOf[x] = OperationOf[v] /\ Holds(x)'
                      => usage'[x] = receipt'[v]
    <2>1. CASE v = w
      BY <1>2, <1>3, <1>6, <2>1
    <2>2. CASE v # w
      BY <1>1, <1>2, <1>3, <1>6, <2>2 DEF TrueReceipts
    <2> QED  BY <2>1, <2>2
  <1> QED  BY <1>4, <1>5, <1>6 DEF TrueReceipts

\* A save of the record confirms what the holder of the reservation used, and a
\* reservation that is saved is the first of its operation.
LEMMA CommitSpends ==
  ASSUME SpendInv, NEW w \in Workers, Save(w) \/ AnswerLost(w)
  PROVE  UsesAfterCall' /\ TrueReceipts' /\ TrueConfirmed'
  <1>1. TypeOK /\ UsesAfterCall /\ TrueReceipts /\ TrueConfirmed
    BY DEF SpendInv, IInv
  <1>2. Accepts(w) /\ store'.allocations = Mutated(w)
    BY DEF SpendInv, IInv, Fresh, Save, AnswerLost, Commit
  <1>3. /\ UNCHANGED <<call, receipt, usage>> /\ pc[w] = "save"
        /\ pc'[w] \in {"admitted", "done"} /\ (pc'[w] = "admitted" => call[w] = "reserve")
        /\ \A v \in Workers : v # w => pc'[v] = pc[v]
    BY <1>1 DEF Save, AnswerLost, TypeOK
  <1>4. \A v \in Workers : Holds(v)' => Holds(v) \/ (v = w /\ call[w] = "reserve")
    BY <1>3 DEF Holds
  <1>5. \A v \in Workers :
          /\ OperationOf[v] = OperationOf[w] =>
               Allocation(v)' = Mutated(w)[OperationOf[w]] /\ Allocation(v) = Allocation(w)
          /\ OperationOf[v] # OperationOf[w] => Allocation(v)' = Allocation(v)
    BY <1>1, <1>2, MutatedType, AllocationType DEF Allocation
  <1>6. Mutated(w)[OperationOf[w]].status # "none"
    BY <1>1, MutatedType
  <1>7. OperationOf[w] \in Operations /\ store.allocations \in [Operations -> Ledger!Allocations]
    BY <1>1, AllocationType DEF Ledger!Ledgers
  <1>8. UsesAfterCall'
    BY <1>1, <1>3 DEF UsesAfterCall
  <1>9. CASE call[w] = "reserve"
    <2>1. Allocation(w).status = "none"
      BY <1>2, <1>9 DEF Accepts, Reservable
    <2>2. Mutated(w)[OperationOf[w]].status = "reserved"
      BY <1>7, <1>9 DEF Mutated
    <2>3. ASSUME NEW v \in Workers, Holds(v)', Allocation(v)'.status = "confirmed"
          PROVE  usage'[v] = Allocation(v)'.tokens
      <3>1. OperationOf[v] # OperationOf[w]
        BY <1>5, <2>2, <2>3
      <3>2. Holds(v) /\ Allocation(v)' = Allocation(v)
        BY <1>4, <1>5, <2>3, <3>1
      <3> QED  BY <1>1, <1>3, <2>3, <3>2 DEF TrueConfirmed
    <2>4. ASSUME NEW v \in Workers, call'[v] = "settle", pc'[v] \in {"load", "save"}
          PROVE  /\ Allocation(v)'.status # "none"
                 /\ \A x \in Workers :
                      receipt'[v] # Unknown /\ OperationOf[x] = OperationOf[v] /\ Holds(x)'
                        => usage'[x] = receipt'[v]
      <3>1. v # w /\ call[v] = "settle" /\ pc[v] \in {"load", "save"}
        BY <1>3, <1>9, <2>4
      <3>2. Allocation(v).status # "none"
        BY <1>1, <3>1 DEF TrueReceipts
      <3>3. OperationOf[v] # OperationOf[w]
        BY <1>5, <2>1, <3>2
      <3>4. \A x \in Workers : OperationOf[x] = OperationOf[v] /\ Holds(x)' => Holds(x)
        BY <1>4, <3>3
      <3>5. Allocation(v)'.status # "none"
        BY <1>5, <3>2, <3>3
      <3> QED  BY <1>1, <1>3, <3>1, <3>4, <3>5 DEF TrueReceipts
    <2> QED  BY <1>8, <2>3, <2>4 DEF TrueReceipts, TrueConfirmed
  <1>10. CASE call[w] # "reserve"
    <2>1. call[w] = "settle" /\ Settleable(w) /\ Mutated(w)[OperationOf[w]] = Settled(w)
      BY <1>1, <1>2, <1>7, <1>10 DEF Accepts, Mutated, TypeOK
    <2>2. \A v \in Workers : Holds(v)' => Holds(v)
      BY <1>4, <1>10
    <2>3. ASSUME NEW v \in Workers, Holds(v)', Allocation(v)'.status = "confirmed"
          PROVE  usage'[v] = Allocation(v)'.tokens
      <3>1. CASE OperationOf[v] # OperationOf[w]
        BY <1>1, <1>3, <1>5, <2>2, <2>3, <3>1 DEF TrueConfirmed
      <3>2. CASE OperationOf[v] = OperationOf[w] /\ receipt[w] # Unknown
        <4>1. usage[v] = receipt[w]
          BY <1>1, <1>3, <2>1, <2>2, <2>3, <3>2 DEF TrueReceipts
        <4>2. Allocation(v)'.tokens = receipt[w]
          BY <1>5, <2>1, <3>2 DEF Settled
        <4> QED  BY <1>3, <4>1, <4>2
      <3>3. CASE OperationOf[v] = OperationOf[w] /\ receipt[w] = Unknown
        <4>1. Allocation(v)' = Allocation(v)
          BY <1>5, <2>1, <2>3, <3>3 DEF Settled
        <4> QED  BY <1>1, <1>3, <2>2, <2>3, <4>1 DEF TrueConfirmed
      <3> QED  BY <3>1, <3>2, <3>3
    <2>4. ASSUME NEW v \in Workers, call'[v] = "settle", pc'[v] \in {"load", "save"}
          PROVE  /\ Allocation(v)'.status # "none"
                 /\ \A x \in Workers :
                      receipt'[v] # Unknown /\ OperationOf[x] = OperationOf[v] /\ Holds(x)'
                        => usage'[x] = receipt'[v]
      <3>1. call[v] = "settle" /\ pc[v] \in {"load", "save"}
        BY <1>3, <2>4
      <3>2. Allocation(v).status # "none"
        BY <1>1, <3>1 DEF TrueReceipts
      <3>3. Allocation(v)'.status # "none"
        BY <1>5, <1>6, <3>2
      <3> QED  BY <1>1, <1>3, <2>2, <3>1, <3>3 DEF TrueReceipts
    <2> QED  BY <1>8, <2>3, <2>4 DEF TrueReceipts, TrueConfirmed
  <1> QED  BY <1>9, <1>10

\* A worker that only moves on in its own call uses nothing and settles nothing.
LEMMA MoveSpends ==
  ASSUME SpendInv, NEW w \in Workers, Load(w) \/ Conflict(w) \/ Stop(w)
  PROVE  UsesAfterCall' /\ TrueReceipts' /\ TrueConfirmed'
  <1>1. TypeOK /\ UsesAfterCall /\ TrueReceipts /\ TrueConfirmed
    BY DEF SpendInv, IInv
  <1>2. /\ UNCHANGED <<store, call, receipt, usage>>
        /\ pc'[w] \in {"load", "save", "done"}
        /\ pc'[w] \in {"load", "save"} => pc[w] \in {"load", "save"}
        /\ \A v \in Workers : v # w => pc'[v] = pc[v]
    BY <1>1 DEF Load, Conflict, Stop, TypeOK
  <1>3. \A v \in Workers : Allocation(v)' = Allocation(v) /\ (Holds(v)' => Holds(v))
    BY <1>2 DEF Allocation, Holds
  <1>4. UsesAfterCall'
    BY <1>1, <1>2 DEF UsesAfterCall
  <1>5. TrueReceipts'
    BY <1>1, <1>2, <1>3 DEF TrueReceipts
  <1>6. TrueConfirmed'
    BY <1>1, <1>2, <1>3 DEF TrueConfirmed
  <1> QED  BY <1>4, <1>5, <1>6

\* A worker that calls its provider holds a reservation that nobody has settled
\* with a receipt, nor is about to.
LEMMA DispatchSpends ==
  ASSUME SpendInv, NEW w \in Workers, Dispatch(w)
  PROVE  UsesAfterCall' /\ TrueReceipts' /\ TrueConfirmed'
  <1>1. TypeOK /\ UsesAfterCall /\ TrueReceipts /\ TrueConfirmed
    BY DEF SpendInv, IInv
  <1>2. /\ UNCHANGED <<store, call, receipt>> /\ pc[w] = "admitted" /\ pc'[w] = "called"
        /\ \A v \in Workers : v # w => pc'[v] = pc[v] /\ usage'[v] = usage[v]
    BY <1>1 DEF Dispatch, TypeOK
  <1>3. \A v \in Workers : Allocation(v)' = Allocation(v) /\ (Holds(v)' => Holds(v))
    BY <1>2 DEF Allocation, Holds
  <1>4. Holds(w) /\ usage[w] = Unknown
    BY <1>1, <1>2 DEF Holds, UsesAfterCall
  <1>5. UsesAfterCall'
    BY <1>1, <1>2 DEF UsesAfterCall
  <1>6. Allocation(w).status # "confirmed"
    <2>1. Allocation(w).tokens \in Nat
      BY <1>1, AllocationType DEF Ledger!Allocations
    <2> QED  BY <1>1, <1>4, <2>1, BudgetAssumption DEF TrueConfirmed
  <1>7. TrueConfirmed'
    BY <1>1, <1>2, <1>3, <1>6 DEF TrueConfirmed
  <1>8. ASSUME NEW v \in Workers, call[v] = "settle", pc'[v] \in {"load", "save"},
               NEW x \in Workers, receipt[v] # Unknown,
               OperationOf[x] = OperationOf[v], Holds(x)'
        PROVE  usage'[x] = receipt[v]
    <2>1. v # w /\ pc[v] \in {"load", "save"}
      BY <1>2, <1>8
    <2>2. usage[x] = receipt[v]
      BY <1>1, <1>3, <1>8, <2>1 DEF TrueReceipts
    <2>3. x # w
      BY <1>4, <1>8, <2>2
    <2> QED  BY <1>2, <2>2, <2>3
  <1>9. \A v \in Workers : call[v] = "settle" /\ pc'[v] \in {"load", "save"} =>
          Allocation(v)'.status # "none"
    BY <1>1, <1>2, <1>3 DEF TrueReceipts
  <1>10. TrueReceipts'
    BY <1>2, <1>8, <1>9 DEF TrueReceipts
  <1> QED  BY <1>5, <1>7, <1>10

\* Every step of a worker keeps what is said of the receipts.
LEMMA StepSpends ==
  ASSUME SpendInv, NEW w \in Workers, Step(w)
  PROVE  UsesAfterCall' /\ TrueReceipts' /\ TrueConfirmed'
  <1>1. TypeOK /\ OneCall /\ UsesAfterCall
    BY DEF SpendInv, IInv
  <1>2. CASE Reserve(w)
    <2>1. usage[w] = Unknown
      BY <1>1, <1>2 DEF Reserve, UsesAfterCall
    <2> QED  BY <1>2, <2>1, CallSpends DEF Reserve
  <1>3. CASE Withdraw(w)
    <2>1. Call(w, "settle", 0) /\ Holds(w) /\ usage[w] = Unknown
      BY <1>1, <1>3 DEF Withdraw, UsesAfterCall, Holds
    <2>2. /\ Allocation(w).status # "none"
          /\ \A v \in Workers : v # w /\ Holds(v) => OperationOf[v] # OperationOf[w]
      BY <1>1, <2>1 DEF OneCall
    <2>3. \A v \in Workers : Holds(v)' => v # w /\ Holds(v)
      BY <1>1, <2>1 DEF Call, Holds, TypeOK
    <2> QED  BY <2>1, <2>2, <2>3, CallSpends
  <1>4. CASE Answer(w)
    <2>1. PICK r \in {usage[w], Unknown} : Call(w, "settle", r)
      BY <1>4 DEF Answer
    <2>2. Holds(w)
      BY <1>4 DEF Answer, Holds
    <2>3. /\ Allocation(w).status # "none"
          /\ \A v \in Workers : v # w /\ Holds(v) => OperationOf[v] # OperationOf[w]
      BY <1>1, <2>2 DEF OneCall
    <2>4. \A v \in Workers : Holds(v)' => Holds(v)
      BY <1>1, <2>1 DEF Call, Holds, TypeOK
    <2> QED  BY <2>1, <2>3, <2>4, CallSpends
  <1>5. CASE Reconcile(w)
    <2>1. PICK v \in Workers : /\ OperationOf[v] = OperationOf[w]
                               /\ usage[v] # Unknown
                               /\ Call(w, "settle", usage[v])
      BY <1>5 DEF Reconcile
    <2>2. Holds(v)
      BY <2>1 DEF Holds
    <2>3. /\ Allocation(v).status # "none"
          /\ \A x \in Workers : x # v /\ Holds(x) => OperationOf[x] # OperationOf[v]
      BY <1>1, <2>2 DEF OneCall
    <2>4. \A x \in Workers : Holds(x)' => Holds(x)
      BY <1>1, <2>1 DEF Call, Holds, TypeOK
    <2>5. Allocation(w) = Allocation(v)
      BY <2>1 DEF Allocation
    <2> QED  BY <2>1, <2>3, <2>4, <2>5, CallSpends
  <1>6. CASE Load(w) \/ Conflict(w) \/ Stop(w)
    BY <1>6, MoveSpends
  <1>7. CASE Save(w) \/ AnswerLost(w)
    BY <1>7, CommitSpends
  <1>8. CASE Dispatch(w)
    BY <1>8, DispatchSpends
  <1> QED  BY <1>2, <1>3, <1>4, <1>5, <1>6, <1>7, <1>8 DEF Step

\* Nothing is charged at first.
LEMMA InitSpendInv == Init => SpendInv
  <1> SUFFICES ASSUME Init PROVE SpendInv
    OBVIOUS
  <1>1. IInv
    BY InitIInv
  <1>2. OneCall /\ UsesAfterCall /\ TrueReceipts /\ TrueConfirmed
    BY DEF Init, OneCall, Holds, UsesAfterCall, TrueReceipts, TrueConfirmed
  <1>3. \A o \in Operations :
          store.allocations[o].status = "none" /\ store.allocations[o].tokens = 0
    BY DEF Init, NoRecord, Ledger!Unreserved
  <1>4. ReservedNeeds
    BY <1>3 DEF ReservedNeeds
  <1>5. \A o \in Operations : Charges(store.allocations)[o] = 0
    <2>1. \A o \in Operations : Need[o] \in Nat
      BY BudgetAssumption
    <2> QED  BY <1>3, <2>1, SMT DEF Charges, Charge
  <1>6. SumFunctionOnSet(Charges(store.allocations), Operations) = 0
    BY <1>5, SumZero, BudgetAssumption
  <1>7. ChargesFit
    BY <1>6, BudgetAssumption DEF ChargesFit
  <1> QED  BY <1>1, <1>2, <1>4, <1>7 DEF SpendInv

\* Every step keeps the charges within the budget and the receipts true.
LEMMA SpendStep == SpendInv /\ [Next]_vars => SpendInv'
  <1> SUFFICES ASSUME SpendInv, [Next]_vars PROVE SpendInv'
    OBVIOUS
  <1>1. IInv' /\ OneCall'
    BY IInvStep, OneCallStep DEF SpendInv
  <1>2. CASE UNCHANGED vars
    <2>1. ChargesFit' /\ ReservedNeeds'
      BY <1>2 DEF SpendInv, vars, ChargesFit, ReservedNeeds
    <2>2. UsesAfterCall' /\ TrueReceipts' /\ TrueConfirmed'
      BY <1>2 DEF SpendInv, vars, UsesAfterCall, TrueReceipts, TrueConfirmed, Holds, Allocation
    <2> QED  BY <1>1, <2>1, <2>2 DEF SpendInv
  <1>3. ASSUME NEW w \in Workers, Step(w) PROVE SpendInv'
    <2>1. ASSUME Save(w) \/ AnswerLost(w) PROVE ChargesFit' /\ ReservedNeeds'
      BY <2>1, CommitCharges DEF Save, AnswerLost
    <2>2. ASSUME ~(Save(w) \/ AnswerLost(w)) PROVE ChargesFit' /\ ReservedNeeds'
      <3>1. UNCHANGED store
        BY <1>3, <2>2 DEF Step, Reserve, Load, Conflict, Withdraw, Dispatch, Answer, Reconcile,
                          Stop, Call
      <3> QED  BY <3>1 DEF SpendInv, ChargesFit, ReservedNeeds
    <2>3. ChargesFit' /\ ReservedNeeds'
      BY <2>1, <2>2
    <2> QED  BY <1>1, <1>3, <2>3, StepSpends DEF SpendInv
  <1> QED  BY <1>2, <1>3 DEF Next

\* What the holder of a reservation used is charged to its operation, and an
\* operation has one holder.
LEMMA UsesAreCharged ==
  ASSUME SpendInv
  PROVE  SpendingBounded
  <1> DEFINE f == [w \in Workers |-> Covered(w)]
             g == Charges(store.allocations)
  <1>1. /\ TypeOK /\ OneCall /\ ReservedNeeds /\ TrueConfirmed
        /\ store.allocations \in Ledger!Ledgers
    BY DEF SpendInv, IInv, TypeOK, Records
  <1>2. /\ IsFiniteSet(Workers) /\ IsFiniteSet(Operations) /\ Limit \in Nat
        /\ OperationOf \in [Workers -> Operations] /\ Need \in [Operations -> Nat]
    BY BudgetAssumption
  <1>3. \A w \in Workers : usage[w] # Unknown => usage[w] \in Nat
    BY <1>1, BudgetAssumption DEF TypeOK, Receipts
  <1>4. \A w \in Workers : f[w] = Covered(w) /\ Covered(w) \in Nat
    BY <1>2, <1>3, SMT DEF Covered
  <1>5. \A o \in Operations : g[o] = Charge(store.allocations, o) /\ g[o] \in Nat
    BY <1>1, ChargeType
  <1>6. ASSUME NEW w \in Workers, f[w] # 0
        PROVE  Holds(w) /\ OperationOf[w] \in Operations /\ f[w] <= g[OperationOf[w]]
    <2> DEFINE o == OperationOf[w]
    <2>1. usage[w] # Unknown
      BY <1>4, <1>6 DEF Covered
    <2>2. Holds(w) /\ o \in Operations
      BY <1>2, <2>1 DEF Holds
    <2>3. /\ store.allocations[o] \in Ledger!Allocations /\ Allocation(w) = store.allocations[o]
          /\ store.allocations[o].status # "none"
      BY <1>1, <2>2 DEF OneCall, Allocation, Ledger!Ledgers
    <2>4. \/ store.allocations[o].tokens = Need[o]
          \/ store.allocations[o].tokens = usage[w]
      <3>1. store.allocations[o].status \in {"reserved", "confirmed", "unknown"}
        BY <2>3 DEF Ledger!Allocations
      <3> QED  BY <1>1, <2>2, <2>3, <3>1 DEF ReservedNeeds, TrueConfirmed
    <2>5. f[w] = IF usage[w] <= Need[o] THEN usage[w] ELSE Need[o]
      BY <1>2, <1>3, <1>4, <2>1, SMT DEF Covered
    <2>6. g[o] = IF store.allocations[o].tokens <= Need[o]
                 THEN store.allocations[o].tokens ELSE Need[o]
      BY <1>5, <2>2 DEF Charge
    <2>7. usage[w] \in Nat /\ Need[o] \in Nat
      BY <1>2, <1>3, <2>1
    <2>8. f[w] <= g[o]
      <3> HIDE DEF f, g, o
      <3> QED  BY <2>4, <2>5, <2>6, <2>7, SMT
    <2> QED  BY <2>2, <2>8
  <1>7. \A w, v \in Workers : w # v /\ f[w] # 0 /\ f[v] # 0 => OperationOf[w] # OperationOf[v]
    BY <1>1, <1>6 DEF OneCall
  <1>8. SumFunctionOnSet(f, Workers) <= SumFunctionOnSet(g, Operations)
    <2>1. \A w \in Workers : f[w] \in Nat
      BY <1>4
    <2>2. \A o \in Operations : g[o] \in Nat
      BY <1>5
    <2> HIDE DEF f, g
    <2> QED  BY <1>2, <1>6, <1>7, <2>1, <2>2, SumInjected
  <1>9. SumFunctionOnSet(f, Workers) \in Nat /\ SumFunctionOnSet(g, Operations) \in Nat
    <2> HIDE DEF f, g
    <2> QED  BY <1>2, <1>4, <1>5, SumNatural
  <1>10. SumFunctionOnSet(g, Operations) <= Limit
    BY DEF SpendInv, ChargesFit
  <1>11. Ledger!Total(f) = SumFunctionOnSet(f, Workers)
    BY TotalIsSum
  <1>12. SumFunctionOnSet(f, Workers) <= Limit
    <2> HIDE DEF f, g
    <2> QED  BY <1>2, <1>8, <1>9, <1>10, SMT
  <1> QED  BY <1>11, <1>12 DEF SpendingBounded

\* However many runs share the budget and however they interleave, crash, are
\* resumed or lose the answers of the store, what their calls use within their
\* reservations never exceeds the limit of createAgentBudgetCoordinator.
THEOREM BudgetNeverOverspent == Spec => []SpendingBounded
  BY InitSpendInv, SpendStep, UsesAreCharged, PTL DEF Spec
====
