---- MODULE MCFileRunLock ----
(* Users of one lock, each in a process of its own. *)
EXTENDS FileRunLock, TLC
CONSTANTS p1, p2, p3, t1, t2, t3
MCProcess == (t1 :> p1) @@ (t2 :> p2) @@ (t3 :> p3)
====
