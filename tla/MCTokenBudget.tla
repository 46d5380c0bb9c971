---- MODULE MCTokenBudget ----
EXTENDS TokenBudget

CONSTANTS o1, o2, a, aResumed, aOperator, b, bResumed

MCNeed == [o \in {o1, o2} |-> 2]
MCOperationOf == [w \in {a, aResumed, aOperator, b, bResumed} |->
                     IF w \in {b, bResumed} THEN o2 ELSE o1]
====
