---- MODULE MCBoundedBroadcast ----
EXTENDS BoundedBroadcast
CONSTANTS p1, p2, s1, s2
\* The run's own loop publishes every kind of event, another source updates only.
MCPublishes == (p1 :> Kinds) @@ (p2 :> {"delta"})
\* One subscriber of every event and one of the text stream.
MCAccepts == (s1 :> Kinds) @@ (s2 :> {"delta"})
====
