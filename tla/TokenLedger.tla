---- MODULE TokenLedger ----
(***************************************************************************)
(* What createAgentBudgetCoordinator promises ("Atomic shared token        *)
(* admission"): one ledger, every reservation and every settlement of      *)
(* which happens at once, whoever makes it and from whatever process.      *)
(***************************************************************************)
EXTENDS Integers, Functions

CONSTANTS Operations,
          Need,     \* operation -> tokens it reserves
          Limit,    \* tokens of the budget
          Usages    \* token counts a receipt may confirm

\* Need is a function to Nat, Limit a number and Usages a set of numbers, which
\* the modules that instantiate this one assume of what they put for them.

VARIABLE ledger   \* operation -> its allocation

----------------------------------------------------------------------------

Total(f) == SumFunction(f)

Unreserved == [status |-> "none", tokens |-> 0]

Allocations == [status : {"none", "reserved", "confirmed", "unknown"}, tokens : Nat]

Ledgers == [Operations -> Allocations]

\* The tokens of the budget that are taken, by confirmed use or by a
\* reservation that may still be used.
Taken(l) == Total([o \in Operations |-> l[o].tokens])

----------------------------------------------------------------------------

Init == ledger = [o \in Operations |-> Unreserved]

Reserve(o) ==
  /\ ledger[o].status = "none"
  /\ Taken(ledger) + Need[o] <= Limit
  /\ ledger' = [ledger EXCEPT ![o] = [status |-> "reserved", tokens |-> Need[o]]]

\* An operation whose use is not known keeps what it reserved.
Lose(o) ==
  /\ ledger[o].status = "reserved"
  /\ ledger' = [ledger EXCEPT ![o] = [status |-> "unknown", tokens |-> ledger[o].tokens]]

\* The first receipt counts, and counts once.
Confirm(o) ==
  /\ ledger[o].status \in {"reserved", "unknown"}
  /\ \E u \in Usages :
       ledger' = [ledger EXCEPT ![o] = [status |-> "confirmed", tokens |-> u]]

Next == \E o \in Operations : Reserve(o) \/ Lose(o) \/ Confirm(o)

Spec == Init /\ [][Next]_ledger
====
