---- MODULE MCGateway ----
EXTENDS Gateway, TLC
CONSTANTS o1, o2, t1, t2
MCRoute == (o1 :> <<t1, t2>>) @@ (o2 :> <<t1>>)
\* More tokens than were reserved, at a higher price.
MCUsages == {[tokens |-> 2, priced |-> TRUE, cost |-> 2]}
====
