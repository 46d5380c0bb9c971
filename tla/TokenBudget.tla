---- MODULE TokenBudget ----
(***************************************************************************)
(* The shared token budget: createAgentBudgetCoordinator, which keeps its  *)
(* ledger in a record of the run store and changes it by compare-and-swap, *)
(* and the model calls, auxiliary calls and operators that use it.         *)
(*                                                                         *)
(* A worker carries out one operation, identified as the code identifies   *)
(* it (model:<run>:<step>); two workers of one operation are a run and     *)
(* its resumption after a crash, or an execution that lost its lease and   *)
(* the one that took over.  Tokens are one number: the code checks input,  *)
(* output and total alike, each against its own limit.                     *)
(***************************************************************************)
EXTENDS Integers, FiniteSets, Functions

CONSTANTS Operations, Need, Limit, Usages,
          Workers,
          OperationOf,   \* worker -> operation
          Auxiliary,     \* workers that checkpoint between reserving and calling
          Operators,     \* workers that reconcile an operation from outside
          Tries,         \* attempts of one update (32 in the code)
          Unknown        \* a receipt without complete usage

ASSUME BudgetAssumption ==
  /\ IsFiniteSet(Operations) /\ IsFiniteSet(Workers)
  /\ Need \in [Operations -> Nat] /\ Limit \in Nat
  /\ Usages \subseteq Nat /\ 0 \in Usages
  /\ OperationOf \in [Workers -> Operations]
  /\ Auxiliary \subseteq Workers /\ Operators \subseteq Workers
  /\ Tries \in Nat \ {0}
  /\ Unknown \notin Nat

VARIABLES store,     \* the record of the ledger in the run store
          pc,
          call,      \* the coordinator's operation the worker is in
          receipt,   \* the usage it settles with
          retry,
          next,      \* the record update() is about to save
          usage      \* what the provider really used for the worker

Ledger == INSTANCE TokenLedger WITH ledger <- store.allocations

workerVars == <<pc, call, receipt, retry, next, usage>>
vars == <<store, pc, call, receipt, retry, next, usage>>

----------------------------------------------------------------------------

Receipts == Usages \cup {Unknown}

NoRecord == [revision |-> 0, allocations |-> [o \in Operations |-> Ledger!Unreserved]]

Records == [revision : Nat, allocations : Ledger!Ledgers]

TypeOK ==
  /\ store \in Records
  /\ pc \in [Workers -> {"idle", "load", "save", "admitted", "called", "done"}]
  /\ call \in [Workers -> {"reserve", "settle"}]
  /\ receipt \in [Workers -> Receipts]
  /\ retry \in [Workers -> 0..(Tries - 1)]
  /\ next \in [Workers -> Records]
  /\ usage \in [Workers -> Receipts]

Init ==
  /\ store = NoRecord
  /\ pc = [w \in Workers |-> "idle"]
  /\ call = [w \in Workers |-> "reserve"]
  /\ receipt = [w \in Workers |-> Unknown]
  /\ retry = [w \in Workers |-> 0]
  /\ next = [w \in Workers |-> NoRecord]
  /\ usage = [w \in Workers |-> Unknown]

----------------------------------------------------------------------------
(* What reserve and settle do to the allocations they loaded, and when     *)
(* they throw instead.                                                     *)

Allocation(w) == store.allocations[OperationOf[w]]

\* Mutant: an operation that is in the ledger may be reserved again.
ReservableAgain(w) ==
  Ledger!Taken(store.allocations) + Need[OperationOf[w]] <= Limit

Reservable(w) ==
  /\ Allocation(w).status = "none"
  /\ Ledger!Taken(store.allocations) + Need[OperationOf[w]] <= Limit

Settleable(w) ==
  /\ Allocation(w).status # "none"
  /\ Allocation(w).status = "confirmed" =>
       receipt[w] \in {Unknown, Allocation(w).tokens}

Settled(w) ==
  IF receipt[w] # Unknown
  THEN [status |-> "confirmed", tokens |-> receipt[w]]
  ELSE IF Allocation(w).status = "confirmed"
       THEN Allocation(w)
       ELSE [status |-> "unknown", tokens |-> Allocation(w).tokens]

Accepts(w) == IF call[w] = "reserve" THEN Reservable(w) ELSE Settleable(w)

Mutated(w) ==
  [store.allocations EXCEPT ![OperationOf[w]] =
     IF call[w] = "reserve"
     THEN [status |-> "reserved", tokens |-> Need[OperationOf[w]]]
     ELSE Settled(w)]

----------------------------------------------------------------------------
(* update(): load, mutate, save with the revision loaded, again when the   *)
(* save met a conflict.                                                    *)

Call(w, operation, usageToReport) ==
  /\ pc' = [pc EXCEPT ![w] = "load"]
  /\ call' = [call EXCEPT ![w] = operation]
  /\ receipt' = [receipt EXCEPT ![w] = usageToReport]
  /\ retry' = [retry EXCEPT ![w] = 0]
  /\ UNCHANGED <<store, next, usage>>

Load(w) ==
  /\ pc[w] = "load"
  /\ \/ /\ Accepts(w)
        /\ pc' = [pc EXCEPT ![w] = "save"]
        /\ next' = [next EXCEPT ![w] = [revision |-> store.revision + 1,
                                        allocations |-> Mutated(w)]]
     \/ /\ ~Accepts(w)
        /\ pc' = [pc EXCEPT ![w] = "done"]
        /\ UNCHANGED next
  /\ UNCHANGED <<store, call, receipt, retry, usage>>

\* Mutant: the record is saved whatever revision the store has.
CommitBlindly(w) == store' = next[w] /\ next' = [next EXCEPT ![w] = NoRecord]

\* The store's save with expectedRevision.
Commit(w) ==
  /\ store.revision + 1 = next[w].revision
  /\ store' = next[w]
  /\ next' = [next EXCEPT ![w] = NoRecord]

Save(w) ==
  /\ pc[w] = "save"
  /\ Commit(w)
  /\ pc' = [pc EXCEPT ![w] = IF call[w] = "reserve" THEN "admitted" ELSE "done"]
  /\ UNCHANGED <<call, receipt, retry, usage>>

\* The record is stored and the call fails: its answer is lost.
AnswerLost(w) ==
  /\ pc[w] = "save"
  /\ Commit(w)
  /\ pc' = [pc EXCEPT ![w] = "done"]
  /\ UNCHANGED <<call, receipt, retry, usage>>

Conflict(w) ==
  /\ pc[w] = "save"
  /\ store.revision + 1 # next[w].revision
  /\ \/ /\ retry[w] + 1 < Tries
        /\ retry' = [retry EXCEPT ![w] = @ + 1]
        /\ pc' = [pc EXCEPT ![w] = "load"]
     \/ /\ retry[w] + 1 = Tries
        /\ pc' = [pc EXCEPT ![w] = "done"]
        /\ UNCHANGED retry
  /\ next' = [next EXCEPT ![w] = NoRecord]
  /\ UNCHANGED <<store, call, receipt, usage>>

----------------------------------------------------------------------------
(* The callers *)

Reserve(w) ==
  /\ pc[w] = "idle"
  /\ w \notin Operators
  /\ Call(w, "reserve", Unknown)

\* The checkpoint of an auxiliary call could not be saved: the call is not
\* made, its operation stays spent and its tokens are given back.
Withdraw(w) ==
  /\ pc[w] = "admitted"
  /\ w \in Auxiliary
  /\ Call(w, "settle", 0)

\* The request reaches the provider, which uses tokens, perhaps more than
\* were reserved.
Dispatch(w) ==
  /\ pc[w] = "admitted"
  /\ pc' = [pc EXCEPT ![w] = "called"]
  /\ \E u \in Usages : usage' = [usage EXCEPT ![w] = u]
  /\ UNCHANGED <<store, call, receipt, retry, next>>

\* The answer, or the failure that carries a receipt, is settled with the
\* usage it reports, if it reports it completely.
Answer(w) ==
  /\ pc[w] = "called"
  /\ \E r \in {usage[w], Unknown} : Call(w, "settle", r)

\* An operator settles an operation from its provider's records.
Reconcile(w) ==
  /\ pc[w] = "idle"
  /\ w \in Operators
  /\ \E v \in Workers : /\ OperationOf[v] = OperationOf[w]
                        /\ usage[v] # Unknown
                        /\ Call(w, "settle", usage[v])

\* A crash, or an error that ends the run without a settlement.
Stop(w) ==
  /\ pc[w] \notin {"idle", "done"}
  /\ pc' = [pc EXCEPT ![w] = "done"]
  /\ next' = [next EXCEPT ![w] = NoRecord]
  /\ UNCHANGED <<store, call, receipt, retry, usage>>

Step(w) ==
  \/ Reserve(w) \/ Load(w) \/ Save(w) \/ AnswerLost(w) \/ Conflict(w)
  \/ Withdraw(w) \/ Dispatch(w) \/ Answer(w) \/ Reconcile(w) \/ Stop(w)

Next == \E w \in Workers : Step(w)

Spec == Init /\ [][Next]_vars

----------------------------------------------------------------------------

\* What the providers used, counting what an operation used beyond its
\* reservation as the reservation.
Covered(w) == IF usage[w] = Unknown \/ usage[w] <= Need[OperationOf[w]]
              THEN IF usage[w] = Unknown THEN 0 ELSE usage[w]
              ELSE Need[OperationOf[w]]

\* However the runs that share the budget interleave, crash, are resumed or
\* lose the answers of the store, the tokens used by calls that keep to their
\* reservations never exceed the budget: no call is made twice under one
\* reservation, and no tokens are given back that may have been used.
SpendingBounded == Ledger!Total([w \in Workers |-> Covered(w)]) <= Limit

\* The record of the store, changed by load, mutate and conditional save of
\* concurrent processes, changes as the ledger whose operations are atomic.
AtomicLedger == Ledger!Spec
====
