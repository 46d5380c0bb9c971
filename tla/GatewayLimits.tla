---- MODULE GatewayLimits ----
(***************************************************************************)
(* The admission controller of createGatewayAdmissionController and the    *)
(* account of one scope of createGatewayBudgetStore, the process-local     *)
(* implementations.  Each operator stands for one call, which runs without *)
(* an await, or for one turn of the loop a queued call polls in.  The      *)
(* targets and the clock are the breaker's.                                *)
(***************************************************************************)
EXTENDS CircuitBreaker

CONSTANTS MaxConcurrent, RequestsPerWindow, TokensPerWindow,
          Window,             \* length of the quota window
          MaxQueue,
          ReserveTokens,      \* tokens one attempt reserves
          Limit, ReserveAmount

ASSUME LimitsAssumption ==
  /\ MaxConcurrent \in Nat \ {0} /\ RequestsPerWindow \in Nat \ {0}
  /\ TokensPerWindow \in Nat \ {0} /\ Window \in Nat \ {0} /\ MaxQueue \in Nat
  /\ ReserveTokens \in 0..TokensPerWindow
  /\ Limit \in Nat /\ ReserveAmount \in Nat \ {0}

VARIABLES slots,    \* target -> its entry in the admission controller
          queued,   \* calls waiting for admission
          account   \* the budget of the scope

admissionVars == <<slots, queued>>

----------------------------------------------------------------------------
(* Admission.  A target without an entry is one whose window is over. *)

NewSlots == [active |-> 0, requests |-> 0, tokens |-> 0, resetAt |-> 0]

Slots == [active : Int, requests : Nat, tokens : Int, resetAt : Nat]

Renewed(s) == IF now >= s.resetAt
              THEN [s EXCEPT !.requests = 0, !.tokens = 0, !.resetAt = now + Window]
              ELSE s

Admits(t) == LET s == Renewed(slots[t])
             IN /\ s.active < MaxConcurrent
                /\ s.requests < RequestsPerWindow
                /\ s.tokens + ReserveTokens <= TokensPerWindow

\* One turn of acquire's loop.
TakeSlot(t) ==
  LET s == Renewed(slots[t])
  IN /\ Admits(t)
     /\ slots' = [slots EXCEPT ![t] = [s EXCEPT !.active = @ + 1, !.requests = @ + 1,
                                                !.tokens = @ + ReserveTokens]]

NoSlot(t) == /\ ~Admits(t)
             /\ slots' = [slots EXCEPT ![t] = Renewed(@)]

\* Mutant: the reported tokens are settled in whatever window runs.
ReleasedAnyWindow(s, window, tokens) ==
  [s EXCEPT !.active = @ - 1,
            !.tokens = IF @ + tokens - ReserveTokens > 0
                       THEN @ + tokens - ReserveTokens ELSE 0]

\* lease.release: what was used replaces what was reserved in the same window.
Released(s, window, tokens) ==
  [s EXCEPT !.active = @ - 1,
            !.tokens = IF s.resetAt # window THEN @
                       ELSE IF @ + tokens - ReserveTokens > 0
                            THEN @ + tokens - ReserveTokens ELSE 0]

----------------------------------------------------------------------------
(* Budget *)

Affordable ==
  account.spent + account.reserved + account.uncertain + ReserveAmount <= Limit

Reserved(a) == [a EXCEPT !.reserved = @ + ReserveAmount]
Cancelled(a) == [a EXCEPT !.reserved = @ - ReserveAmount]

\* Mutant: a call without a known price costs nothing.
SettledFree(a, priced, cost) ==
  [Cancelled(a) EXCEPT !.spent = IF priced THEN @ + cost ELSE @]

Settled(a, priced, cost) ==
  IF priced THEN [Cancelled(a) EXCEPT !.spent = @ + cost]
            ELSE [Cancelled(a) EXCEPT !.uncertain = @ + ReserveAmount]

----------------------------------------------------------------------------

LimitsTypeOK ==
  /\ slots \in [Targets -> Slots]
  /\ queued \in Int
  /\ account \in [spent : Int, reserved : Int, uncertain : Int]

LimitsInit ==
  /\ slots = [t \in Targets |-> NewSlots] /\ queued = 0
  /\ account = [spent |-> 0, reserved |-> 0, uncertain |-> 0]
====
