---- MODULE BoundedBroadcastProofs ----
(***************************************************************************)
(* What BoundedBroadcast guarantees for any publishers, subscribers, kinds *)
(* of event and limits.                                                    *)
(*                                                                         *)
(* No wake-up is lost (WakeInv, the property with the types of what it     *)
(* reads; neither the history nor the replay matters to it).               *)
(*                                                                         *)
(* Events are given in order, to the end none is missed, and no list       *)
(* outgrows its limit (StreamInv).  The events of a subscriber move along  *)
(* a lane: left of its copy of the history, queued, held back, woken,      *)
(* given.  Whatever is further along the lane may come before what is      *)
(* behind it, and two events held back for one subscriber are of different *)
(* publishers, since publish() returns only after its last delivery: that  *)
(* is why they may overtake each other.                                    *)
(***************************************************************************)
EXTENDS BoundedBroadcast, SequenceTheorems, FiniteSetTheorems, FunctionTheorems, TLAPS

----------------------------------------------------------------------------
(* No wake-up is lost *)

WakeInv == FlowTypeOK /\ NoLostWakeup

\* Appending to and shifting a queue keep it a queue, and say whether it is
\* empty (the lists of publish and of the generator).
LEMMA QueueOps ==
  ASSUME NEW q \in EventSeqs, NEW r \in EventSeqs, NEW n \in Nat
  PROVE  /\ Append(q, n) \in EventSeqs
         /\ Append(q, n) # <<>>
         /\ q \o r \in EventSeqs
         /\ q # <<>> => Tail(q) \in EventSeqs /\ Head(q) \in Nat
         /\ <<>> \in EventSeqs
         /\ Len(q) \in Nat
         /\ q = <<>> => Len(q) = 0
  <1>1. Append(q, n) \in EventSeqs /\ Append(q, n) # <<>>
    BY AppendProperties DEF EventSeqs
  <1>2. q \o r \in EventSeqs
    BY SMT DEF EventSeqs
  <1>3. q # <<>> => Tail(q) \in EventSeqs /\ Head(q) \in Nat
    BY SMT DEF EventSeqs
  <1>4. <<>> \in EventSeqs
    BY SMT DEF EventSeqs
  <1>5. Len(q) \in Nat /\ (q = <<>> => Len(q) = 0)
    BY SMT DEF EventSeqs
  <1> QED  BY <1>1, <1>2, <1>3, <1>4, <1>5

\* The next sequence number of the broadcast is a number.
LEMMA NextNumber ==
  ASSUME FlowTypeOK
  PROVE  Len(log) \in Nat /\ Len(log) + 1 \in Nat
  BY SMT DEF FlowTypeOK

\* Initially nobody waits.
LEMMA WakeInit == Init => WakeInv
  <1> SUFFICES ASSUME Init PROVE WakeInv
    OBVIOUS
  <1>1. <<>> \in EventSeqs /\ <<>> \in Seq(Events)
    BY SMT DEF EventSeqs
  <1>2. FlowTypeOK
    BY <1>1 DEF Init, FlowTypeOK, PCs
  <1>3. NoLostWakeup
    BY DEF Init, NoLostWakeup
  <1> QED  BY <1>2, <1>3 DEF WakeInv

\* publish() parks nobody and holds an event back only behind a full queue.
LEMMA WakePublish ==
  ASSUME WakeInv, NEW p \in Publishers, NEW kind \in Kinds, Publish(p, kind)
  PROVE  WakeInv'
  <1> DEFINE n == Len(log) + 1
             reached == {s \in Subscribers : Active(s) /\ kind \in Accepts[s]}
             direct == {s \in reached : IsTerminal(kind) \/ HasSpace(s)}
  <1>0. FlowTypeOK /\ NoLostWakeup /\ n \in Nat
    BY NextNumber DEF WakeInv
  <1>1. /\ state' = state /\ state = "open" /\ resumed' = resumed
        /\ queue' = [s \in Subscribers |-> IF s \in direct THEN Append(queue[s], n)
                                                           ELSE queue[s]]
        /\ waiters' = [s \in Subscribers |-> IF s \in reached \ direct
                                             THEN Append(waiters[s], n)
                                             ELSE waiters[s]]
        /\ pc' = Woken(direct)
    BY DEF Publish
  <1>2. log' \in Seq(Events)
    <2>1. [by |-> p, kind |-> kind] \in Events
      BY DEF Events
    <2>2. log' = Append(log, [by |-> p, kind |-> kind])
      BY DEF Publish
    <2> QED  BY <1>0, <2>1, <2>2, SMT DEF FlowTypeOK
  <1>3. pc' = [s \in Subscribers |->
                 IF s \in direct /\ pc[s] = "parked" THEN "woken" ELSE pc[s]]
    BY <1>1 DEF Woken
  <1> HIDE DEF n, direct
  <1>4. FlowTypeOK'
    <2>1. \A s \in Subscribers : /\ queue[s] \in EventSeqs /\ waiters[s] \in EventSeqs
                                 /\ pc[s] \in PCs
      BY <1>0 DEF FlowTypeOK
    <2>2. \A s \in Subscribers : /\ Append(queue[s], n) \in EventSeqs
                                 /\ Append(waiters[s], n) \in EventSeqs
      BY <1>0, <2>1, QueueOps
    <2>3. queue' \in [Subscribers -> EventSeqs]
      BY <1>1, <2>1, <2>2
    <2>4. waiters' \in [Subscribers -> EventSeqs]
      BY <1>1, <2>1, <2>2
    <2>5. pc' \in [Subscribers -> PCs]
      BY <1>3, <2>1 DEF PCs
    <2> QED  BY <1>0, <1>1, <1>2, <2>3, <2>4, <2>5 DEF FlowTypeOK
  <1>5. NoLostWakeup'
    <2> SUFFICES ASSUME NEW s \in Subscribers
                 PROVE  /\ waiters'[s] # <<>> => Active(s)' /\ queue'[s] # <<>>
                        /\ pc'[s] = "parked" => queue'[s] = <<>> /\ state' = "open"
      BY DEF NoLostWakeup
    <2>1. /\ queue[s] \in EventSeqs /\ waiters[s] \in EventSeqs
          /\ waiters[s] # <<>> => Active(s) /\ queue[s] # <<>>
          /\ pc[s] = "parked" => queue[s] = <<>> /\ state = "open"
      BY <1>0 DEF FlowTypeOK, NoLostWakeup
    <2>2. Append(queue[s], n) # <<>>
      BY <1>0, <2>1, QueueOps
    <2>3. queue[s] # <<>> => queue'[s] # <<>>
      BY <1>1, <2>2
    <2>4. Active(s) => Active(s)'
      BY <1>3 DEF Active
    <2>5. s \in reached \ direct => Active(s) /\ queue[s] # <<>>
      <3> SUFFICES ASSUME s \in reached \ direct PROVE Active(s) /\ queue[s] # <<>>
        OBVIOUS
      <3>1. Active(s) /\ ~HasSpace(s)
        BY DEF direct
      <3>2. ~(Len(queue[s]) < MaxQueue)
        BY <3>1 DEF HasSpace
      <3>3. queue[s] = <<>> => Len(queue[s]) = 0
        BY <2>1, <1>0, QueueOps
      <3>4. queue[s] # <<>>
        BY <3>2, <3>3, BroadcastAssumption, SMT
      <3> QED  BY <3>1, <3>4
    <2>6. waiters'[s] # <<>> => Active(s)' /\ queue'[s] # <<>>
      BY <1>1, <2>1, <2>3, <2>4, <2>5
    <2>7. pc'[s] = "parked" => s \notin direct /\ pc[s] = "parked"
      BY <1>3
    <2>8. pc'[s] = "parked" => queue'[s] = <<>> /\ state' = "open"
      BY <1>1, <2>1, <2>7
    <2> QED  BY <2>6, <2>8
  <1> QED  BY <1>4, <1>5 DEF WakeInv

\* One held-back publish() resumed: it waits again behind a full queue, or
\* delivers and wakes the reader, or gives up.
LEMMA WakeResume ==
  ASSUME WakeInv, NEW s \in Subscribers, Resume(s)
  PROVE  WakeInv'
  <1> DEFINE n == Head(resumed[s])
  <1>0. FlowTypeOK /\ NoLostWakeup
    BY DEF WakeInv
  <1>1. /\ resumed[s] # <<>> /\ resumed' = [resumed EXCEPT ![s] = Tail(@)]
        /\ UNCHANGED <<state, log>>
    BY DEF Resume, busVars
  <1>2. \A t \in Subscribers : /\ queue[t] \in EventSeqs /\ waiters[t] \in EventSeqs
                               /\ resumed[t] \in EventSeqs /\ pc[t] \in PCs
    BY <1>0 DEF FlowTypeOK
  <1>3. n \in Nat /\ Tail(resumed[s]) \in EventSeqs
    BY <1>1, <1>2, QueueOps
  <1>4. /\ Append(queue[s], n) \in EventSeqs /\ Append(queue[s], n) # <<>>
        /\ Append(waiters[s], n) \in EventSeqs
    BY <1>2, <1>3, QueueOps
  <1>5. \/ /\ Blocked(s)
           /\ waiters' = [waiters EXCEPT ![s] = Append(@, n)]
           /\ UNCHANGED <<queue, pc>>
        \/ /\ Active(s) /\ state = "open"
           /\ queue' = [queue EXCEPT ![s] = Append(@, n)]
           /\ pc' = [t \in Subscribers |->
                       IF t \in {s} /\ pc[t] = "parked" THEN "woken" ELSE pc[t]]
           /\ UNCHANGED waiters
        \/ UNCHANGED <<queue, waiters, pc>>
    BY DEF Resume, Woken
  <1> HIDE DEF n
  <1>6. resumed' \in [Subscribers -> EventSeqs]
    BY <1>0, <1>1, <1>3 DEF FlowTypeOK
  <1>7. CASE UNCHANGED <<queue, waiters, pc>>
    <2>1. FlowTypeOK'
      BY <1>0, <1>1, <1>6, <1>7 DEF FlowTypeOK
    <2>2. NoLostWakeup'
      BY <1>0, <1>1, <1>7 DEF NoLostWakeup, Active
    <2> QED  BY <2>1, <2>2 DEF WakeInv
  <1>8. CASE /\ Blocked(s)
             /\ waiters' = [waiters EXCEPT ![s] = Append(@, n)]
             /\ UNCHANGED <<queue, pc>>
    <2>1. waiters' \in [Subscribers -> EventSeqs]
      BY <1>0, <1>4, <1>8 DEF FlowTypeOK
    <2>2. FlowTypeOK'
      BY <1>0, <1>1, <1>6, <1>8, <2>1 DEF FlowTypeOK
    <2>3. Active(s) /\ ~(Len(queue[s]) < MaxQueue)
      BY <1>8 DEF Blocked, HasSpace
    <2>4. queue[s] = <<>> => Len(queue[s]) = 0
      BY <1>2, <1>3, QueueOps
    <2>5. queue[s] # <<>>
      BY <2>3, <2>4, BroadcastAssumption, SMT
    <2>6. \A t \in Subscribers : t # s => waiters'[t] = waiters[t]
      BY <1>0, <1>8 DEF FlowTypeOK
    <2>7. NoLostWakeup'
      BY <1>0, <1>1, <1>8, <2>3, <2>5, <2>6 DEF NoLostWakeup, Active
    <2> QED  BY <2>2, <2>7 DEF WakeInv
  <1>9. CASE /\ Active(s) /\ state = "open"
             /\ queue' = [queue EXCEPT ![s] = Append(@, n)]
             /\ pc' = [t \in Subscribers |->
                         IF t \in {s} /\ pc[t] = "parked" THEN "woken" ELSE pc[t]]
             /\ UNCHANGED waiters
    <2>1. queue' \in [Subscribers -> EventSeqs]
      BY <1>0, <1>4, <1>9 DEF FlowTypeOK
    <2>2. pc' \in [Subscribers -> PCs]
      BY <1>2, <1>9 DEF PCs
    <2>3. FlowTypeOK'
      BY <1>0, <1>1, <1>6, <1>9, <2>1, <2>2 DEF FlowTypeOK
    <2>4. queue'[s] # <<>> /\ \A t \in Subscribers : t # s => queue'[t] = queue[t]
      BY <1>0, <1>4, <1>9 DEF FlowTypeOK
    <2>5. pc'[s] # "parked" /\ \A t \in Subscribers : t # s => pc'[t] = pc[t]
      BY <1>9
    <2>6. \A t \in Subscribers : Active(t) => Active(t)'
      BY <1>9 DEF Active
    <2>7. NoLostWakeup'
      BY <1>0, <1>1, <1>9, <2>4, <2>5, <2>6 DEF NoLostWakeup
    <2> QED  BY <2>3, <2>7 DEF WakeInv
  <1> QED  BY <1>5, <1>7, <1>8, <1>9

\* close() and fail() wake everybody.
LEMMA WakeShut ==
  ASSUME WakeInv, NEW how \in {"closed", "failed"}, Shut(how)
  PROVE  WakeInv'
  <1>0. FlowTypeOK /\ NoLostWakeup
    BY DEF WakeInv
  <1>1. /\ state' = how /\ UNCHANGED <<log, queue>>
        /\ pc' = [t \in Subscribers |->
                    IF t \in Subscribers /\ pc[t] = "parked" THEN "woken" ELSE pc[t]]
        /\ resumed' = [t \in Subscribers |-> resumed[t] \o waiters[t]]
        /\ waiters' = [t \in Subscribers |-> <<>>]
    BY DEF Shut, ReleaseAll, Woken
  <1>2. \A t \in Subscribers : /\ waiters[t] \in EventSeqs /\ resumed[t] \in EventSeqs
                               /\ pc[t] \in PCs
    BY <1>0 DEF FlowTypeOK
  <1>3. \A t \in Subscribers : resumed[t] \o waiters[t] \in EventSeqs
    <2> SUFFICES ASSUME NEW t \in Subscribers PROVE resumed[t] \o waiters[t] \in EventSeqs
      OBVIOUS
    <2>1. 0 \in Nat
      OBVIOUS
    <2> QED  BY <1>2, <2>1, QueueOps
  <1>4. <<>> \in EventSeqs
    BY SMT DEF EventSeqs
  <1>5. resumed' \in [Subscribers -> EventSeqs]
    BY <1>1, <1>3
  <1>6. waiters' \in [Subscribers -> EventSeqs]
    BY <1>1, <1>4
  <1>7. pc' \in [Subscribers -> PCs]
    BY <1>1, <1>2 DEF PCs
  <1>8. FlowTypeOK'
    BY <1>0, <1>1, <1>5, <1>6, <1>7 DEF FlowTypeOK
  <1>9. NoLostWakeup'
    BY <1>1 DEF NoLostWakeup
  <1> QED  BY <1>8, <1>9 DEF WakeInv

\* A generator's step leaves a parked reader only with nothing to read, and
\* every place it frees wakes the publishers that waited for it.
LEMMA WakeReader ==
  ASSUME WakeInv, NEW s \in Subscribers, NEW how \in PCs \ {"parked"},
         UNCHANGED <<state, log>>,
         \/ /\ Active(s) \/ pc[s] = "new"
            /\ pc' = [pc EXCEPT ![s] = "reading"]
            /\ UNCHANGED flowVars
         \/ /\ queue[s] # <<>>
            /\ queue' = [queue EXCEPT ![s] = Tail(@)]
            /\ pc' = [pc EXCEPT ![s] = how]
            /\ ReleaseSpace(s)
         \/ /\ queue' = [queue EXCEPT ![s] = <<>>]
            /\ pc' = [pc EXCEPT ![s] = how]
            /\ ReleaseSpace(s)
         \/ /\ queue[s] = <<>> /\ state = "open"
            /\ pc' = [pc EXCEPT ![s] = "parked"]
            /\ UNCHANGED flowVars
         \/ /\ waiters[s] = <<>>
            /\ pc' = [pc EXCEPT ![s] = how]
            /\ UNCHANGED flowVars
  PROVE  WakeInv'
  <1>0. FlowTypeOK /\ NoLostWakeup
    BY DEF WakeInv
  <1>1. \A t \in Subscribers : /\ queue[t] \in EventSeqs /\ waiters[t] \in EventSeqs
                               /\ resumed[t] \in EventSeqs /\ pc[t] \in PCs
    BY <1>0 DEF FlowTypeOK
  <1>2. /\ <<>> \in EventSeqs /\ resumed[s] \o waiters[s] \in EventSeqs
        /\ queue[s] # <<>> => Tail(queue[s]) \in EventSeqs
    <2>1. 0 \in Nat
      OBVIOUS
    <2> QED  BY <1>1, <2>1, QueueOps
  <1>3. "reading" \in PCs /\ "parked" \in PCs /\ how \in PCs /\ how # "parked"
    BY DEF PCs
  <1>4. pc' \in [Subscribers -> PCs] /\ \A t \in Subscribers : t # s => pc'[t] = pc[t]
    BY <1>0, <1>3 DEF FlowTypeOK
  <1>5. ASSUME ReleaseSpace(s),
               \/ queue' = [queue EXCEPT ![s] = <<>>]
               \/ queue[s] # <<>> /\ queue' = [queue EXCEPT ![s] = Tail(@)],
               pc'[s] = how
        PROVE  WakeInv'
    <2>1. /\ resumed' = [resumed EXCEPT ![s] = resumed[s] \o waiters[s]]
          /\ waiters' = [waiters EXCEPT ![s] = <<>>]
      BY <1>5 DEF ReleaseSpace
    <2>2. resumed' \in [Subscribers -> EventSeqs]
      BY <1>0, <1>2, <2>1 DEF FlowTypeOK
    <2>3. /\ waiters' \in [Subscribers -> EventSeqs] /\ waiters'[s] = <<>>
          /\ \A t \in Subscribers : t # s => waiters'[t] = waiters[t]
      BY <1>0, <1>2, <2>1 DEF FlowTypeOK
    <2>4. /\ queue' \in [Subscribers -> EventSeqs]
          /\ \A t \in Subscribers : t # s => queue'[t] = queue[t]
      BY <1>0, <1>2, <1>5 DEF FlowTypeOK
    <2>5. FlowTypeOK'
      BY <1>0, <1>4, <2>2, <2>3, <2>4 DEF FlowTypeOK
    <2>6. NoLostWakeup'
      BY <1>0, <1>3, <1>4, <1>5, <2>3, <2>4 DEF NoLostWakeup, Active
    <2> QED  BY <2>5, <2>6 DEF WakeInv
  <1>6. ASSUME UNCHANGED flowVars,
               \/ (Active(s) \/ pc[s] = "new") /\ pc'[s] = "reading"
               \/ queue[s] = <<>> /\ state = "open" /\ pc'[s] = "parked"
               \/ waiters[s] = <<>> /\ pc'[s] = how
        PROVE  WakeInv'
    <2>1. FlowTypeOK'
      BY <1>0, <1>4, <1>6 DEF FlowTypeOK, flowVars
    <2>2. NoLostWakeup'
      BY <1>0, <1>3, <1>4, <1>6 DEF NoLostWakeup, Active, flowVars
    <2> QED  BY <2>1, <2>2 DEF WakeInv
  <1>7. \A v : pc' = [pc EXCEPT ![s] = v] => pc'[s] = v
    BY <1>0 DEF FlowTypeOK
  <1> QED  BY <1>5, <1>6, <1>7

\* Every action of the generator is a step of a reader.
LEMMA WakeAdvance ==
  ASSUME WakeInv, NEW s \in Subscribers, NEW rest,
         Advance(s, rest), Active(s) \/ pc[s] = "new"
  PROVE  WakeInv'
  <1>1. UNCHANGED <<state, log>>
    BY DEF Advance, busVars
  <1>2. /\ "reading" \in PCs \ {"parked"} /\ "threw" \in PCs \ {"parked"}
        /\ "ended" \in PCs \ {"parked"}
    BY DEF PCs
  <1>3. CASE pc' = [pc EXCEPT ![s] = "reading"] /\ UNCHANGED flowVars
    BY <1>1, <1>2, <1>3, WakeReader
  <1>4. CASE /\ queue[s] # <<>>
             /\ queue' = [queue EXCEPT ![s] = Tail(@)]
             /\ pc' = [pc EXCEPT ![s] = "reading"]
             /\ ReleaseSpace(s)
    BY <1>1, <1>2, <1>4, WakeReader
  <1>5. CASE Finally(s, "threw")
    BY <1>1, <1>2, <1>5, WakeReader DEF Finally
  <1>6. CASE Finally(s, "ended")
    BY <1>1, <1>2, <1>6, WakeReader DEF Finally
  <1>7. CASE /\ queue[s] = <<>> /\ state = "open"
             /\ pc' = [pc EXCEPT ![s] = "parked"]
             /\ UNCHANGED flowVars
    BY <1>1, <1>2, <1>7, WakeReader
  <1> QED  BY <1>3, <1>4, <1>5, <1>6, <1>7 DEF Advance, Replay, Take, End, Park, Yield

\* return(): a generator that has not started holds nobody back.
LEMMA WakeReturn ==
  ASSUME WakeInv, NEW s \in Subscribers, Return(s)
  PROVE  WakeInv'
  <1>1. UNCHANGED <<state, log>> /\ "left" \in PCs \ {"parked"}
    BY DEF Return, busVars, PCs
  <1>2. CASE pc[s] = "new" /\ pc' = [pc EXCEPT ![s] = "left"] /\ UNCHANGED flowVars
    <2>1. waiters[s] = <<>>
      BY <1>2 DEF WakeInv, NoLostWakeup, Active
    <2> QED  BY <1>1, <1>2, <2>1, WakeReader
  <1>3. CASE Finally(s, "left")
    BY <1>1, <1>3, WakeReader DEF Finally
  <1> QED  BY <1>2, <1>3 DEF Return

\* Every step of the specification, and every stuttering one.
LEMMA WakeStep == WakeInv /\ [Next]_vars => WakeInv'
  <1> SUFFICES ASSUME WakeInv, [Next]_vars PROVE WakeInv'
    OBVIOUS
  <1>1. ASSUME NEW p \in Publishers, NEW kind \in Publishes[p],
               Publish(p, kind) \/ Overflow(p, kind)
        PROVE  WakeInv'
    <2>1. kind \in Kinds
      BY <1>1, BroadcastAssumption
    <2>2. CASE Publish(p, kind)
      BY <2>1, <2>2, WakePublish
    <2>3. CASE Overflow(p, kind)
      BY <2>3, WakeShut DEF Overflow, Fail
    <2> QED  BY <1>1, <2>2, <2>3
  <1>2. CASE Close \/ Fail
    BY <1>2, WakeShut DEF Close, Fail
  <1>3. ASSUME NEW s \in Subscribers,
               Resume(s) \/ Start(s) \/ NextEvent(s) \/ Wake(s) \/ Return(s)
        PROVE  WakeInv'
    <2>1. CASE Resume(s)
      BY <2>1, WakeResume
    <2>2. CASE Start(s) \/ NextEvent(s) \/ Wake(s)
      <3>1. Active(s) \/ pc[s] = "new"
        BY <2>2 DEF Start, NextEvent, Wake, Active
      <3>2. \E rest : Advance(s, rest)
        BY <2>2 DEF Start, NextEvent, Wake
      <3> QED  BY <3>1, <3>2, WakeAdvance
    <2>3. CASE Return(s)
      BY <2>3, WakeReturn
    <2> QED  BY <1>3, <2>1, <2>2, <2>3
  <1>4. CASE UNCHANGED vars
    <2>1. UNCHANGED <<state, log, queue, waiters, resumed, pc>>
      BY <1>4 DEF vars, busVars, flowVars, readerVars
    <2>2. FlowTypeOK'
      BY <2>1 DEF WakeInv, FlowTypeOK
    <2>3. NoLostWakeup'
      BY <2>1 DEF WakeInv, NoLostWakeup, Active
    <2> QED  BY <2>2, <2>3 DEF WakeInv
  <1> QED  BY <1>1, <1>2, <1>3, <1>4 DEF Next

\* Nobody ever sleeps with work to do: in every reachable state of the stream a
\* publisher is only held back by an active subscriber that has something to
\* read, and a parked subscriber has nothing to read on an open stream.
THEOREM WakeupsDelivered == Spec => []NoLostWakeup
  <1>1. WakeInv => NoLostWakeup
    BY DEF WakeInv
  <1> QED  BY WakeInit, WakeStep, <1>1, PTL DEF Spec

----------------------------------------------------------------------------
(* Lists, their elements and their order *)

\* Lists whose elements are related by R, each to every later one, and sets
\* whose elements are, each of A to each of B.
InOrder(R, a) == \A i, j \in DOMAIN a : i < j => <<a[i], a[j]>> \in R
Across(R, A, B) == \A m \in A, n \in B : <<m, n>> \in R

\* What is in a list after an element was added (history.push, queue.push).
LEMMA ElementsAppend ==
  ASSUME NEW S, NEW a \in Seq(S), NEW n \in S
  PROVE  /\ Append(a, n) \in Seq(S)
         /\ ToSet(Append(a, n)) = ToSet(a) \cup {n}
  <1> DEFINE b == Append(a, n)
  <1>1. /\ b \in Seq(S) /\ Len(b) = Len(a) + 1 /\ b[Len(a) + 1] = n
        /\ \A i \in 1..Len(a) : b[i] = a[i]
    BY AppendProperties
  <1>2. /\ Len(a) \in Nat /\ DOMAIN a = 1..Len(a)
        /\ DOMAIN b = 1..Len(b)
    BY <1>1, LenProperties
  <1> HIDE DEF b
  <1>3. ToSet(b) \subseteq ToSet(a) \cup {n}
    <2> SUFFICES ASSUME NEW i \in DOMAIN b PROVE b[i] \in ToSet(a) \cup {n}
      BY DEF ToSet
    <2>1. i \in 1..Len(a) \/ i = Len(a) + 1
      BY <1>1, <1>2, SMT
    <2> QED  BY <1>1, <1>2, <2>1 DEF ToSet
  <1>4. ToSet(a) \subseteq ToSet(b)
    <2> SUFFICES ASSUME NEW i \in DOMAIN a PROVE a[i] \in ToSet(b)
      BY DEF ToSet
    <2>1. i \in DOMAIN b
      BY <1>1, <1>2, SMT
    <2> QED  BY <1>1, <1>2, <2>1 DEF ToSet
  <1>5. n \in ToSet(b)
    <2>1. Len(a) + 1 \in DOMAIN b
      BY <1>1, <1>2, SMT
    <2> QED  BY <1>1, <2>1 DEF ToSet
  <1> QED  BY <1>1, <1>3, <1>4, <1>5 DEF b

\* What is in two lists, one after the other.
LEMMA ElementsConcat ==
  ASSUME NEW S, NEW a \in Seq(S), NEW b \in Seq(S)
  PROVE  /\ a \o b \in Seq(S)
         /\ ToSet(a \o b) = ToSet(a) \cup ToSet(b)
  <1> DEFINE c == a \o b
  <1>1. /\ c \in Seq(S) /\ Len(c) = Len(a) + Len(b)
        /\ \A i \in 1..(Len(a) + Len(b)) :
             c[i] = IF i <= Len(a) THEN a[i] ELSE b[i - Len(a)]
    BY ConcatProperties
  <1>2. /\ Len(a) \in Nat /\ DOMAIN a = 1..Len(a)
        /\ Len(b) \in Nat /\ DOMAIN b = 1..Len(b)
        /\ DOMAIN c = 1..Len(c)
    BY <1>1, LenProperties
  <1> HIDE DEF c
  <1>3. ToSet(c) \subseteq ToSet(a) \cup ToSet(b)
    <2> SUFFICES ASSUME NEW i \in DOMAIN c PROVE c[i] \in ToSet(a) \cup ToSet(b)
      BY DEF ToSet
    <2>1. \/ i \in DOMAIN a /\ c[i] = a[i]
          \/ i - Len(a) \in DOMAIN b /\ c[i] = b[i - Len(a)]
      BY <1>1, <1>2, SMT
    <2> QED  BY <2>1 DEF ToSet
  <1>4. ToSet(a) \subseteq ToSet(c)
    <2> SUFFICES ASSUME NEW i \in DOMAIN a PROVE a[i] \in ToSet(c)
      BY DEF ToSet
    <2>1. i \in DOMAIN c /\ c[i] = a[i]
      BY <1>1, <1>2, SMT
    <2> QED  BY <2>1 DEF ToSet
  <1>5. ToSet(b) \subseteq ToSet(c)
    <2> SUFFICES ASSUME NEW i \in DOMAIN b PROVE b[i] \in ToSet(c)
      BY DEF ToSet
    <2>1. i + Len(a) \in DOMAIN c /\ c[i + Len(a)] = b[i]
      BY <1>1, <1>2, SMT
    <2> QED  BY <2>1 DEF ToSet
  <1> QED  BY <1>1, <1>3, <1>4, <1>5 DEF c

\* The list after its element i, and what is in it.
LEMMA ElementsAfter ==
  ASSUME NEW S, NEW a \in Seq(S), NEW i \in DOMAIN a
  PROVE  LET b == SubSeq(a, i + 1, Len(a))
         IN /\ b \in Seq(S)
            /\ DOMAIN b = 1..(Len(a) - i)
            /\ \A k \in DOMAIN b : k + i \in DOMAIN a /\ b[k] = a[k + i]
            /\ \A j \in DOMAIN a : j > i => j - i \in DOMAIN b /\ b[j - i] = a[j]
            /\ ToSet(b) \subseteq ToSet(a)
  <1> DEFINE b == SubSeq(a, i + 1, Len(a))
  <1>1. Len(a) \in Nat /\ DOMAIN a = 1..Len(a) /\ i \in Int /\ i >= 1 /\ i <= Len(a)
    BY LenProperties, SMT
  <1>2. \A k \in (i + 1)..Len(a) : a[k] \in S
    BY <1>1, ElementOfSeq, SMT
  <1>3. i + 1 \in Int /\ Len(a) \in Int
    BY <1>1, SMT
  <1>4. /\ b \in Seq(S)
        /\ Len(b) = IF i + 1 <= Len(a) THEN Len(a) - (i + 1) + 1 ELSE 0
        /\ \A k \in 1..(Len(a) - (i + 1) + 1) : b[k] = a[(i + 1) + k - 1]
    BY <1>2, <1>3, SubSeqProperties
  <1>5. DOMAIN b = 1..Len(b)
    BY <1>4, LenProperties
  <1> HIDE DEF b
  <1>6. DOMAIN b = 1..(Len(a) - i)
    BY <1>1, <1>4, <1>5, SMT
  <1>7. \A k \in DOMAIN b : k + i \in DOMAIN a /\ b[k] = a[k + i]
    <2> SUFFICES ASSUME NEW k \in DOMAIN b PROVE k + i \in DOMAIN a /\ b[k] = a[k + i]
      OBVIOUS
    <2>1. k \in 1..(Len(a) - (i + 1) + 1) /\ (i + 1) + k - 1 = k + i /\ k + i \in 1..Len(a)
      BY <1>1, <1>6, SMT
    <2>2. b[k] = a[(i + 1) + k - 1]
      BY <1>4, <2>1
    <2> QED  BY <1>1, <2>1, <2>2
  <1>8. \A j \in DOMAIN a : j > i => j - i \in DOMAIN b /\ b[j - i] = a[j]
    <2> SUFFICES ASSUME NEW j \in DOMAIN a, j > i PROVE j - i \in DOMAIN b /\ b[j - i] = a[j]
      OBVIOUS
    <2>1. j - i \in DOMAIN b /\ (j - i) + i = j
      BY <1>1, <1>6, SMT
    <2>2. b[j - i] = a[(j - i) + i]
      BY <1>7, <2>1
    <2> QED  BY <2>1, <2>2
  <1>9. ToSet(b) \subseteq ToSet(a)
    BY <1>7 DEF ToSet
  <1> QED  BY <1>4, <1>6, <1>7, <1>8, <1>9 DEF b

\* The first element of a list, and the others.
LEMMA ElementsTail ==
  ASSUME NEW S, NEW a \in Seq(S), a # <<>>
  PROVE  /\ Tail(a) \in Seq(S) /\ Head(a) \in S
         /\ ToSet(a) = {Head(a)} \cup ToSet(Tail(a))
         /\ 1 \in DOMAIN a /\ Head(a) = a[1]
         /\ Tail(a) = SubSeq(a, 2, Len(a))
  <1>1. Tail(a) = SubSeq(a, 2, Len(a)) /\ Tail(a) \in Seq(S) /\ Head(a) \in S
    BY TailIsSubSeq, HeadTailProperties
  <1>2. Len(a) \in Nat \ {0} /\ DOMAIN a = 1..Len(a)
    BY EmptySeq, LenProperties
  <1>3. 1 \in DOMAIN a /\ Head(a) = a[1]
    BY <1>2, SMT
  <1>4. ToSet(SubSeq(a, 2, Len(a))) \subseteq ToSet(a)
    <2>1. 1 + 1 = 2
      OBVIOUS
    <2> QED  BY <1>3, <2>1, ElementsAfter
  <1>5. ToSet(a) \subseteq {a[1]} \cup ToSet(SubSeq(a, 2, Len(a)))
    <2> SUFFICES ASSUME NEW j \in DOMAIN a, j # 1
                 PROVE  a[j] \in ToSet(SubSeq(a, 2, Len(a)))
      BY DEF ToSet
    <2>1. j > 1 /\ 1 + 1 = 2
      BY <1>2, SMT
    <2>2. j - 1 \in DOMAIN SubSeq(a, 2, Len(a)) /\ SubSeq(a, 2, Len(a))[j - 1] = a[j]
      <3> DEFINE b == SubSeq(a, 1 + 1, Len(a))
      <3>1. \A k \in DOMAIN a : k > 1 => k - 1 \in DOMAIN b /\ b[k - 1] = a[k]
        BY <1>3, ElementsAfter
      <3>2. SubSeq(a, 2, Len(a)) = b
        BY <2>1
      <3> HIDE DEF b
      <3> QED  BY <2>1, <3>1, <3>2
    <2> QED  BY <2>2 DEF ToSet
  <1>6. a[1] \in ToSet(a)
    BY <1>3 DEF ToSet
  <1> QED  BY <1>1, <1>3, <1>4, <1>5, <1>6

\* There is nothing in the empty list.
LEMMA ElementsNone == ToSet(<<>>) = {}
  <1>1. DOMAIN <<>> = {}
    BY SMT
  <1> QED  BY <1>1 DEF ToSet

\* An ordered list stays so when what is added may follow all of it.
LEMMA OrderAppend ==
  ASSUME NEW S, NEW a \in Seq(S), NEW n \in S, NEW R,
         InOrder(R, a), Across(R, ToSet(a), {n})
  PROVE  InOrder(R, Append(a, n))
  <1> DEFINE b == Append(a, n)
  <1>1. /\ b \in Seq(S) /\ Len(b) = Len(a) + 1 /\ b[Len(a) + 1] = n
        /\ \A i \in 1..Len(a) : b[i] = a[i]
    BY AppendProperties
  <1>2. /\ Len(a) \in Nat /\ DOMAIN a = 1..Len(a)
        /\ DOMAIN b = 1..Len(b)
    BY <1>1, LenProperties
  <1> HIDE DEF b
  <1>3. ASSUME NEW i \in DOMAIN b, NEW j \in DOMAIN b, i < j
        PROVE  <<b[i], b[j]>> \in R
    <2>1. i \in DOMAIN a /\ b[i] = a[i]
      <3>1. i \in DOMAIN a
        BY <1>1, <1>2, <1>3, SMT
      <3> QED  BY <1>1, <1>2, <3>1
    <2>2. \/ j \in DOMAIN a /\ b[j] = a[j]
          \/ b[j] = n
      <3>1. j \in DOMAIN a \/ j = Len(a) + 1
        BY <1>1, <1>2, SMT
      <3> QED  BY <1>1, <1>2, <3>1
    <2>3. CASE j \in DOMAIN a /\ b[j] = a[j]
      BY <1>3, <2>1, <2>3 DEF InOrder
    <2>4. CASE b[j] = n
      <3>1. a[i] \in ToSet(a)
        BY <2>1 DEF ToSet
      <3> QED  BY <2>1, <2>4, <3>1 DEF Across
    <2> QED  BY <2>2, <2>3, <2>4
  <1>4. InOrder(R, b)
    BY <1>3 DEF InOrder
  <1> QED  BY <1>4 DEF b

\* Two ordered lists, one after the other, when the first may precede the second.
LEMMA OrderConcat ==
  ASSUME NEW S, NEW a \in Seq(S), NEW b \in Seq(S), NEW R,
         InOrder(R, a), InOrder(R, b), Across(R, ToSet(a), ToSet(b))
  PROVE  InOrder(R, a \o b)
  <1> DEFINE c == a \o b
  <1>1. /\ c \in Seq(S) /\ Len(c) = Len(a) + Len(b)
        /\ \A i \in 1..(Len(a) + Len(b)) :
             c[i] = IF i <= Len(a) THEN a[i] ELSE b[i - Len(a)]
    BY ConcatProperties
  <1>2. /\ Len(a) \in Nat /\ DOMAIN a = 1..Len(a)
        /\ Len(b) \in Nat /\ DOMAIN b = 1..Len(b)
        /\ DOMAIN c = 1..Len(c)
    BY <1>1, LenProperties
  <1> HIDE DEF c
  <1>3. ASSUME NEW i \in DOMAIN c, NEW j \in DOMAIN c, i < j
        PROVE  <<c[i], c[j]>> \in R
    <2>0. \A k \in DOMAIN c : \/ k <= Len(a) /\ k \in DOMAIN a /\ c[k] = a[k]
                              \/ k > Len(a) /\ k - Len(a) \in DOMAIN b /\ c[k] = b[k - Len(a)]
      BY <1>1, <1>2, SMT
    <2>1. CASE j <= Len(a)
      <3>1. i <= Len(a) /\ ~(i > Len(a)) /\ ~(j > Len(a))
        BY <1>2, <1>3, <1>1, <2>1, SMT
      <3> QED  BY <1>3, <2>0, <3>1 DEF InOrder
    <2>2. CASE i <= Len(a) /\ j > Len(a)
      <3>1. ~(i > Len(a)) /\ ~(j <= Len(a))
        BY <1>2, <1>1, <2>2, SMT
      <3>2. c[i] \in ToSet(a) /\ c[j] \in ToSet(b)
        BY <2>0, <3>1 DEF ToSet
      <3> QED  BY <3>2 DEF Across
    <2>3. CASE i > Len(a)
      <3>1. ~(i <= Len(a)) /\ ~(j <= Len(a)) /\ i - Len(a) < j - Len(a)
        BY <1>2, <1>3, <1>1, <2>3, SMT
      <3> QED  BY <2>0, <3>1 DEF InOrder
    <2>4. i <= Len(a) \/ i > Len(a)
      BY <1>1, <1>2, SMT
    <2>5. j <= Len(a) \/ j > Len(a)
      BY <1>1, <1>2, SMT
    <2> QED  BY <2>1, <2>2, <2>3, <2>4, <2>5
  <1>4. InOrder(R, c)
    BY <1>3 DEF InOrder
  <1> QED  BY <1>4 DEF c

\* What follows an element of an ordered list comes after it.
LEMMA OrderAfter ==
  ASSUME NEW S, NEW a \in Seq(S), NEW i \in DOMAIN a, NEW R, InOrder(R, a)
  PROVE  /\ InOrder(R, SubSeq(a, i + 1, Len(a)))
         /\ Across(R, {a[i]}, ToSet(SubSeq(a, i + 1, Len(a))))
  <1> DEFINE b == SubSeq(a, i + 1, Len(a))
  <1>1. /\ DOMAIN b = 1..(Len(a) - i)
        /\ \A k \in DOMAIN b : k + i \in DOMAIN a /\ b[k] = a[k + i]
    BY ElementsAfter
  <1>2. Len(a) \in Nat /\ DOMAIN a = 1..Len(a)
    BY LenProperties
  <1> HIDE DEF b
  <1>3. InOrder(R, b)
    <2> SUFFICES ASSUME NEW k \in DOMAIN b, NEW l \in DOMAIN b, k < l
                 PROVE  <<b[k], b[l]>> \in R
      BY DEF InOrder
    <2>1. k + i < l + i
      BY <1>1, <1>2, SMT
    <2> QED  BY <1>1, <2>1 DEF InOrder
  <1>4. Across(R, {a[i]}, ToSet(b))
    <2> SUFFICES ASSUME NEW k \in DOMAIN b PROVE <<a[i], b[k]>> \in R
      BY DEF Across, ToSet
    <2>1. i < k + i
      BY <1>1, <1>2, SMT
    <2> QED  BY <1>1, <2>1 DEF InOrder
  <1> QED  BY <1>3, <1>4 DEF b

\* The first element of an ordered list comes before the others.
LEMMA OrderTail ==
  ASSUME NEW S, NEW a \in Seq(S), a # <<>>, NEW R, InOrder(R, a)
  PROVE  InOrder(R, Tail(a)) /\ Across(R, {Head(a)}, ToSet(Tail(a)))
  <1>1. 1 \in DOMAIN a /\ Head(a) = a[1] /\ Tail(a) = SubSeq(a, 2, Len(a)) /\ 1 + 1 = 2
    BY ElementsTail
  <1> QED  BY <1>1, OrderAfter

\* The empty list is in order.
LEMMA OrderNone == \A R : InOrder(R, <<>>)
  <1>1. DOMAIN <<>> = {}
    BY SMT
  <1> QED  BY <1>1 DEF InOrder

\* A set of numbers that is not empty has a least one.
LEMMA LeastNumber ==
  ASSUME NEW I \in SUBSET Nat, I # {}
  PROVE  \E i \in I : \A j \in I : i <= j
  <1>1. PICK i \in I : \A j \in I : <<j, i>> \notin OpToRel(<, Nat)
    BY NatLessThanWellFounded, WFMin, Zenon
  <1>2. ASSUME NEW j \in I PROVE i <= j
    <2>1. <<j, i>> \in Nat \X Nat /\ <<j, i>>[1] = j /\ <<j, i>>[2] = i
      OBVIOUS
    <2>2. ~(j < i)
      BY <1>1, <2>1 DEF OpToRel
    <2> QED  BY <2>2, SMT
  <1> QED  BY <1>2

\* The list up to its element i.
LEMMA ElementsBefore ==
  ASSUME NEW S, NEW a \in Seq(S), NEW i \in DOMAIN a
  PROVE  LET b == SubSeq(a, 1, i - 1)
         IN /\ b \in Seq(S)
            /\ DOMAIN b = 1..(i - 1)
            /\ \A k \in DOMAIN b : k \in DOMAIN a /\ b[k] = a[k]
  <1> DEFINE b == SubSeq(a, 1, i - 1)
  <1>1. Len(a) \in Nat /\ DOMAIN a = 1..Len(a) /\ i \in Int /\ i >= 1 /\ i <= Len(a)
    BY LenProperties, SMT
  <1>2. 1 \in Int /\ i - 1 \in Int /\ \A k \in 1..(i - 1) : k \in 1..Len(a)
    BY <1>1, SMT
  <1>3. \A k \in 1..(i - 1) : a[k] \in S
    BY <1>1, <1>2, ElementOfSeq
  <1>4. /\ b \in Seq(S)
        /\ Len(b) = IF 1 <= i - 1 THEN i - 1 - 1 + 1 ELSE 0
        /\ \A k \in 1..(i - 1 - 1 + 1) : b[k] = a[1 + k - 1]
    BY <1>2, <1>3, SubSeqProperties
  <1>5. DOMAIN b = 1..Len(b)
    BY <1>4, LenProperties
  <1> HIDE DEF b
  <1>6. DOMAIN b = 1..(i - 1)
    BY <1>1, <1>4, <1>5, SMT
  <1>7. \A k \in DOMAIN b : k \in DOMAIN a /\ b[k] = a[k]
    <2> SUFFICES ASSUME NEW k \in DOMAIN b PROVE k \in DOMAIN a /\ b[k] = a[k]
      OBVIOUS
    <2>1. k \in 1..(i - 1 - 1 + 1) /\ 1 + k - 1 = k
      BY <1>1, <1>6, SMT
    <2> QED  BY <1>1, <1>2, <1>4, <1>6, <2>1
  <1> QED  BY <1>4, <1>6, <1>7 DEF b

\* The list without its element i.
LEMMA OrderRemove ==
  ASSUME NEW S, NEW R, NEW a \in Seq(S), NEW i \in DOMAIN a, InOrder(R, a),
         \A m : <<m, m>> \notin R
  PROVE  /\ RemoveAt(a, i) \in Seq(S)
         /\ InOrder(R, RemoveAt(a, i))
         /\ ToSet(RemoveAt(a, i)) = ToSet(a) \ {a[i]}
  <1> DEFINE b == SubSeq(a, 1, i - 1)
             c == SubSeq(a, i + 1, Len(a))
  <1>1. /\ b \in Seq(S) /\ DOMAIN b = 1..(i - 1)
        /\ \A k \in DOMAIN b : k \in DOMAIN a /\ b[k] = a[k]
    BY ElementsBefore
  <1>2. /\ c \in Seq(S) /\ DOMAIN c = 1..(Len(a) - i)
        /\ \A k \in DOMAIN c : k + i \in DOMAIN a /\ c[k] = a[k + i]
        /\ \A j \in DOMAIN a : j > i => j - i \in DOMAIN c /\ c[j - i] = a[j]
    BY ElementsAfter
  <1>3. InOrder(R, c)
    BY OrderAfter
  <1>4. RemoveAt(a, i) = b \o c
    BY DEF RemoveAt
  <1>5. Len(a) \in Nat /\ DOMAIN a = 1..Len(a) /\ i \in Int
    BY LenProperties, SMT
  <1> HIDE DEF b, c
  <1>6. InOrder(R, b)
    BY <1>1 DEF InOrder
  <1>7. Across(R, ToSet(b), ToSet(c))
    <2> SUFFICES ASSUME NEW k \in DOMAIN b, NEW l \in DOMAIN c PROVE <<b[k], c[l]>> \in R
      BY DEF Across, ToSet
    <2>1. k < l + i
      BY <1>1, <1>2, <1>5, SMT
    <2> QED  BY <1>1, <1>2, <2>1 DEF InOrder
  <1>8. b \o c \in Seq(S) /\ ToSet(b \o c) = ToSet(b) \cup ToSet(c)
    BY <1>1, <1>2, ElementsConcat
  <1>9. ToSet(b) \cup ToSet(c) \subseteq ToSet(a) \ {a[i]}
    <2>1. ASSUME NEW k \in DOMAIN b PROVE b[k] \in ToSet(a) \ {a[i]}
      <3>1. k < i
        BY <1>1, <1>5, SMT
      <3> QED  BY <1>1, <3>1 DEF InOrder, ToSet
    <2>2. ASSUME NEW k \in DOMAIN c PROVE c[k] \in ToSet(a) \ {a[i]}
      <3>1. i < k + i
        BY <1>2, <1>5, SMT
      <3>2. k + i \in DOMAIN a /\ c[k] = a[k + i] /\ <<a[i], a[k + i]>> \in R
        BY <1>2, <3>1 DEF InOrder
      <3> QED  BY <3>2 DEF ToSet
    <2> QED  BY <2>1, <2>2 DEF ToSet
  <1>10. ToSet(a) \ {a[i]} \subseteq ToSet(b) \cup ToSet(c)
    <2> SUFFICES ASSUME NEW j \in DOMAIN a, j # i PROVE a[j] \in ToSet(b) \cup ToSet(c)
      BY DEF ToSet
    <2>1. j \in DOMAIN b \/ j > i
      BY <1>1, <1>5, SMT
    <2> QED  BY <1>1, <1>2, <2>1 DEF ToSet
  <1>11. InOrder(R, b \o c)
    BY <1>1, <1>2, <1>3, <1>6, <1>7, OrderConcat
  <1> QED  BY <1>4, <1>8, <1>9, <1>10, <1>11

\* A list without repetition is as long as its set of elements is large.
LEMMA LengthCounts ==
  ASSUME NEW S, NEW R, NEW a \in Seq(S), InOrder(R, a), \A m : <<m, m>> \notin R
  PROVE  IsFiniteSet(ToSet(a)) /\ Cardinality(ToSet(a)) = Len(a) /\ Len(a) \in Nat
  <1>1. Len(a) \in Nat /\ DOMAIN a = 1..Len(a) /\ a \in [1..Len(a) -> S]
    BY LenProperties
  <1>2. a \in [1..Len(a) -> ToSet(a)]
    BY <1>1 DEF ToSet
  <1>3. \A i, j \in 1..Len(a) : a[i] = a[j] => i = j
    <2> SUFFICES ASSUME NEW i \in 1..Len(a), NEW j \in 1..Len(a), a[i] = a[j], i # j
                 PROVE  FALSE
      OBVIOUS
    <2>1. i < j \/ j < i
      BY <1>1, SMT
    <2> QED  BY <1>1, <2>1 DEF InOrder
  <1>4. \A n \in ToSet(a) : \E i \in 1..Len(a) : a[i] = n
    BY <1>1 DEF ToSet
  <1>5. a \in Bijection(1..Len(a), ToSet(a))
    BY <1>2, <1>3, <1>4, Fun_IsBij
  <1>6. ExistsBijection(1..Len(a), ToSet(a))
    BY <1>5 DEF ExistsBijection
  <1>7. IsFiniteSet(ToSet(a))
    BY <1>1, <1>6, FS_NatBijection
  <1> QED  BY <1>1, <1>6, <1>7, FS_CountingElements

----------------------------------------------------------------------------
(* The lane of one subscriber *)

\* Where the events of one subscriber are, and in what order: g was given to
\* it, t is left of its copy of the history, q is its queue, w is held back and
\* r was woken.  What comes earlier on this way may precede what comes later
\* (E), and no two events held back are ordered against each other (F).
InLane(E, F, g, t, q, w, r) ==
  /\ InOrder(E, g) /\ InOrder(E, t) /\ InOrder(E, q)
  /\ Across(E, ToSet(g), ToSet(t) \cup ToSet(q) \cup ToSet(w) \cup ToSet(r))
  /\ Across(E, ToSet(t), ToSet(q) \cup ToSet(w) \cup ToSet(r))
  /\ Across(E, ToSet(q), ToSet(w) \cup ToSet(r))
  /\ InOrder(F, w) /\ InOrder(F, r) /\ Across(F, ToSet(w), ToSet(r))

\* Relations that grow keep the order.
LEMMA LaneGrows ==
  ASSUME NEW E, NEW F, NEW E2, NEW F2, E \subseteq E2, F \subseteq F2,
         NEW g, NEW t, NEW q, NEW w, NEW r, InLane(E, F, g, t, q, w, r)
  PROVE  InLane(E2, F2, g, t, q, w, r)
  BY DEF InLane, InOrder, Across

\* The reader is given the element i of its copy, and skips those before it.
LEMMA LaneReplayed ==
  ASSUME NEW S, NEW E, NEW F, NEW g \in Seq(S), NEW t \in Seq(S), NEW q, NEW w, NEW r,
         NEW i \in DOMAIN t, InLane(E, F, g, t, q, w, r)
  PROVE  InLane(E, F, Append(g, t[i]), SubSeq(t, i + 1, Len(t)), q, w, r)
  <1> DEFINE u == SubSeq(t, i + 1, Len(t))
  <1>1. t[i] \in S /\ t[i] \in ToSet(t)
    BY ElementOfSeq, LenProperties DEF ToSet
  <1>2. InOrder(E, u) /\ Across(E, {t[i]}, ToSet(u))
    BY OrderAfter DEF InLane
  <1>3. ToSet(u) \subseteq ToSet(t)
    BY ElementsAfter
  <1>4. ToSet(Append(g, t[i])) = ToSet(g) \cup {t[i]}
    BY <1>1, ElementsAppend
  <1>5. Across(E, ToSet(g), {t[i]})
    BY <1>1 DEF InLane, Across
  <1>6. InOrder(E, Append(g, t[i]))
    BY <1>1, <1>5, OrderAppend DEF InLane
  <1> HIDE DEF u
  <1>7. /\ Across(E, ToSet(Append(g, t[i])), ToSet(u) \cup ToSet(q) \cup ToSet(w) \cup ToSet(r))
        /\ Across(E, ToSet(u), ToSet(q) \cup ToSet(w) \cup ToSet(r))
    BY <1>1, <1>2, <1>3, <1>4 DEF InLane, Across
  <1>8. InLane(E, F, Append(g, t[i]), u, q, w, r)
    BY <1>2, <1>6, <1>7 DEF InLane
  <1> QED  BY <1>8 DEF u

\* Nothing more is wanted of the copy.
LEMMA LaneSkipped ==
  ASSUME NEW E, NEW F, NEW g, NEW t, NEW q, NEW w, NEW r, InLane(E, F, g, t, q, w, r)
  PROVE  InLane(E, F, g, <<>>, q, w, r)
  BY ElementsNone, OrderNone DEF InLane, Across

\* The queue is thrown away.
LEMMA LaneCleared ==
  ASSUME NEW E, NEW F, NEW g, NEW t, NEW q, NEW w, NEW r, InLane(E, F, g, t, q, w, r)
  PROVE  InLane(E, F, g, t, <<>>, w, r)
  BY ElementsNone, OrderNone DEF InLane, Across

\* The reader is given the head of its queue.
LEMMA LaneRead ==
  ASSUME NEW S, NEW E, NEW F, NEW g \in Seq(S), NEW q \in Seq(S), NEW w, NEW r, q # <<>>,
         InLane(E, F, g, <<>>, q, w, r)
  PROVE  InLane(E, F, Append(g, Head(q)), <<>>, Tail(q), w, r)
  <1> DEFINE h == Head(q)
             u == Tail(q)
  <1>1. h \in S /\ ToSet(q) = {h} \cup ToSet(u)
    BY ElementsTail
  <1>2. InOrder(E, u) /\ Across(E, {h}, ToSet(u))
    BY OrderTail DEF InLane
  <1> HIDE DEF h, u
  <1>3. ToSet(Append(g, h)) = ToSet(g) \cup {h}
    BY <1>1, ElementsAppend
  <1>4. Across(E, ToSet(g), {h})
    BY <1>1 DEF InLane, Across
  <1>5. InOrder(E, Append(g, h))
    BY <1>1, <1>4, OrderAppend DEF InLane
  <1>6. /\ Across(E, ToSet(Append(g, h)), ToSet(<<>>) \cup ToSet(u) \cup ToSet(w) \cup ToSet(r))
        /\ Across(E, ToSet(<<>>), ToSet(u) \cup ToSet(w) \cup ToSet(r))
        /\ Across(E, ToSet(u), ToSet(w) \cup ToSet(r))
    BY <1>1, <1>2, <1>3, ElementsNone DEF InLane, Across
  <1>7. InLane(E, F, Append(g, h), <<>>, u, w, r)
    BY <1>2, <1>5, <1>6 DEF InLane
  <1> QED  BY <1>7 DEF h, u

\* The events held back are woken, after those woken before.
LEMMA LaneReleased ==
  ASSUME NEW S, NEW E, NEW F, NEW g, NEW t, NEW q, NEW w \in Seq(S), NEW r \in Seq(S),
         \A m, n : <<m, n>> \in F => <<n, m>> \in F,
         InLane(E, F, g, t, q, w, r)
  PROVE  InLane(E, F, g, t, q, <<>>, r \o w)
  <1>1. ToSet(r \o w) = ToSet(r) \cup ToSet(w)
    BY ElementsConcat
  <1>2. Across(F, ToSet(r), ToSet(w))
    BY DEF InLane, Across
  <1>3. InOrder(F, r \o w)
    BY <1>2, OrderConcat DEF InLane
  <1>4. /\ Across(E, ToSet(g), ToSet(t) \cup ToSet(q) \cup ToSet(<<>>) \cup ToSet(r \o w))
        /\ Across(E, ToSet(t), ToSet(q) \cup ToSet(<<>>) \cup ToSet(r \o w))
        /\ Across(E, ToSet(q), ToSet(<<>>) \cup ToSet(r \o w))
    BY <1>1, ElementsNone DEF InLane, Across
  <1>5. InOrder(F, <<>>) /\ Across(F, ToSet(<<>>), ToSet(r \o w))
    BY ElementsNone, OrderNone DEF Across
  <1> QED  BY <1>3, <1>4, <1>5 DEF InLane

\* The first of the woken ones goes on.
LEMMA LaneResumed ==
  ASSUME NEW S, NEW E, NEW F, NEW g, NEW t, NEW q, NEW w, NEW r \in Seq(S), r # <<>>,
         InLane(E, F, g, t, q, w, r)
  PROVE  /\ InLane(E, F, g, t, q, w, Tail(r))
         /\ Across(E, ToSet(g) \cup ToSet(t) \cup ToSet(q), {Head(r)})
         /\ Across(F, ToSet(w), {Head(r)})
         /\ Across(F, {Head(r)}, ToSet(Tail(r)))
  <1>1. ToSet(r) = {Head(r)} \cup ToSet(Tail(r))
    BY ElementsTail
  <1>2. InOrder(F, Tail(r)) /\ Across(F, {Head(r)}, ToSet(Tail(r)))
    BY OrderTail DEF InLane
  <1>3. /\ Across(E, ToSet(g), ToSet(t) \cup ToSet(q) \cup ToSet(w) \cup ToSet(Tail(r)))
        /\ Across(E, ToSet(t), ToSet(q) \cup ToSet(w) \cup ToSet(Tail(r)))
        /\ Across(E, ToSet(q), ToSet(w) \cup ToSet(Tail(r)))
        /\ Across(F, ToSet(w), ToSet(Tail(r)))
    BY <1>1 DEF InLane, Across
  <1>4. /\ Across(E, ToSet(g) \cup ToSet(t) \cup ToSet(q), {Head(r)})
        /\ Across(F, ToSet(w), {Head(r)})
    BY <1>1 DEF InLane, Across
  <1> QED  BY <1>2, <1>3, <1>4 DEF InLane

\* An event is delivered to the queue.
LEMMA LaneDelivered ==
  ASSUME NEW S, NEW E, NEW F, NEW g, NEW t, NEW q \in Seq(S), NEW w, NEW r, NEW n \in S,
         InLane(E, F, g, t, q, w, r),
         Across(E, ToSet(g) \cup ToSet(t) \cup ToSet(q), {n}),
         Across(E, {n}, ToSet(w) \cup ToSet(r))
  PROVE  InLane(E, F, g, t, Append(q, n), w, r)
  <1>1. ToSet(Append(q, n)) = ToSet(q) \cup {n}
    BY ElementsAppend
  <1>2. Across(E, ToSet(q), {n})
    BY DEF Across
  <1>3. InOrder(E, Append(q, n))
    BY <1>2, OrderAppend DEF InLane
  <1>4. /\ Across(E, ToSet(g), ToSet(t) \cup ToSet(Append(q, n)) \cup ToSet(w) \cup ToSet(r))
        /\ Across(E, ToSet(t), ToSet(Append(q, n)) \cup ToSet(w) \cup ToSet(r))
        /\ Across(E, ToSet(Append(q, n)), ToSet(w) \cup ToSet(r))
    BY <1>1 DEF InLane, Across
  <1> QED  BY <1>3, <1>4 DEF InLane

\* An event is held back.
LEMMA LaneHeld ==
  ASSUME NEW S, NEW E, NEW F, NEW g, NEW t, NEW q, NEW w \in Seq(S), NEW r, NEW n \in S,
         InLane(E, F, g, t, q, w, r),
         Across(E, ToSet(g) \cup ToSet(t) \cup ToSet(q), {n}),
         Across(F, ToSet(w), {n}),
         Across(F, {n}, ToSet(r))
  PROVE  InLane(E, F, g, t, q, Append(w, n), r)
  <1>1. ToSet(Append(w, n)) = ToSet(w) \cup {n}
    BY ElementsAppend
  <1>2. InOrder(F, Append(w, n))
    BY OrderAppend DEF InLane
  <1>3. /\ Across(E, ToSet(g), ToSet(t) \cup ToSet(q) \cup ToSet(Append(w, n)) \cup ToSet(r))
        /\ Across(E, ToSet(t), ToSet(q) \cup ToSet(Append(w, n)) \cup ToSet(r))
        /\ Across(E, ToSet(q), ToSet(Append(w, n)) \cup ToSet(r))
        /\ Across(F, ToSet(Append(w, n)), ToSet(r))
    BY <1>1 DEF InLane, Across
  <1> QED  BY <1>2, <1>3 DEF InLane

\* A reader that starts has the copy only.
LEMMA LaneStarted ==
  ASSUME NEW E, NEW F, NEW t, InOrder(E, t)
  PROVE  InLane(E, F, <<>>, t, <<>>, <<>>, <<>>)
  BY ElementsNone, OrderNone DEF InLane, Across

----------------------------------------------------------------------------
(* The invariant *)

\* The sequence numbers given out, those that may come in this order in what
\* one reader is given, and those of two different publishers.
Published == DOMAIN log
Earlier == {r \in Published \X Published :
              log[r[1]].by = log[r[2]].by => r[1] < r[2]}
Foreign == {r \in Published \X Published : log[r[1]].by # log[r[2]].by}

Given(s) == ToSet(got[s])
Pending(s) == ToSet(todo[s]) \cup ToSet(queue[s]) \cup ToSet(waiters[s]) \cup ToSet(resumed[s])

\* What holds of one subscriber.
Unstarted(s) == pc[s] = "new" =>
  /\ got[s] = <<>> /\ todo[s] = <<>> /\ queue[s] = <<>>
  /\ waiters[s] = <<>> /\ resumed[s] = <<>>
NothingLost(s) ==
  /\ Active(s) => \A n \in Published : Missable(s, n) \/ n \in Given(s) \cup Pending(s)
  /\ pc[s] = "ended" => /\ state # "open"
                        /\ \A n \in Published : Missable(s, n) \/ n \in Given(s)
ReaderOK(s) ==
  /\ Given(s) \cup Pending(s) \subseteq Published
  /\ InLane(Earlier, Foreign, got[s], todo[s], queue[s], waiters[s], resumed[s])
  /\ Unstarted(s)
  /\ NothingLost(s)
  /\ Cardinality(Ordinary(queue[s])) <= MaxQueue

\* What holds of the history.
HistoryOK ==
  /\ ToSet(history) \subseteq Published
  /\ InOrder(Earlier, history)
  /\ \A n \in Published : \/ n \in ToSet(history) \/ ~IsReplayed(log[n].kind)
                          \/ policy = "drop-oldest" /\ ~IsTerminal(log[n].kind)
  /\ Cardinality(Ordinary(history)) <= MaxHistory
  /\ Cardinality(Terminal(history)) <= MaxTerminal

StreamInv == /\ TypeOK
             /\ NoLostWakeup
             /\ HistoryOK
             /\ \A s \in Subscribers : ReaderOK(s)

\* Sequence numbers are numbers, no event comes before itself, and events of
\* different publishers may come in any order.
LEMMA Relations ==
  ASSUME FlowTypeOK
  PROVE  /\ Published = 1..Len(log) /\ Published \subseteq Nat
         /\ \A m : <<m, m>> \notin Earlier
         /\ \A m, n : <<m, n>> \in Foreign => <<n, m>> \in Foreign
         /\ Foreign \subseteq Earlier
  <1>1. Published = 1..Len(log) /\ Len(log) \in Nat
    BY LenProperties DEF Published, FlowTypeOK
  <1>2. Published \subseteq Nat
    BY <1>1, SMT
  <1>3. \A m : <<m, m>> \notin Earlier
    <2> SUFFICES ASSUME NEW m, <<m, m>> \in Earlier PROVE FALSE
      OBVIOUS
    <2>1. m \in Published /\ m < m
      BY DEF Earlier
    <2> QED  BY <1>2, <2>1, SMT
  <1>4. \A m, n : <<m, n>> \in Foreign => <<n, m>> \in Foreign
    BY DEF Foreign
  <1>5. Foreign \subseteq Earlier
    BY DEF Foreign, Earlier
  <1> QED  BY <1>1, <1>2, <1>3, <1>4, <1>5

\* What is published is added to the log and changes nothing of it.
LEMMA LogGrows ==
  ASSUME FlowTypeOK, NEW p \in Publishers, NEW kind \in Kinds,
         log' = Append(log, [by |-> p, kind |-> kind])
  PROVE  LET n == Len(log) + 1
         IN /\ n \in Nat /\ n \notin Published /\ Published' = Published \cup {n}
            /\ log'[n] = [by |-> p, kind |-> kind]
            /\ \A m \in Published : log'[m] = log[m]
            /\ Earlier \subseteq Earlier' /\ Foreign \subseteq Foreign'
            /\ \A m \in Published : <<m, n>> \in Earlier'
            /\ \A m \in Published : log[m].by # p => /\ <<m, n>> \in Foreign'
                                                      /\ <<n, m>> \in Foreign'
                                                      /\ <<n, m>> \in Earlier'
  <1> DEFINE n == Len(log) + 1
             e == [by |-> p, kind |-> kind]
  <1>1. log \in Seq(Events) /\ e \in Events
    BY DEF FlowTypeOK, Events
  <1>2. /\ log' \in Seq(Events) /\ Len(log') = n /\ log'[n] = e
        /\ \A m \in 1..Len(log) : log'[m] = log[m]
    BY <1>1, AppendProperties
  <1>3. Len(log) \in Nat /\ Published = 1..Len(log) /\ Published' = 1..n
    BY <1>1, <1>2, LenProperties DEF Published
  <1>4. /\ n \in Nat /\ n \notin Published /\ Published' = Published \cup {n}
        /\ \A m \in Published : m < n
    BY <1>3, SMT
  <1>5. \A m \in Published : log'[m] = log[m]
    BY <1>2, <1>3
  <1> HIDE DEF n
  <1>6. Earlier \subseteq Earlier'
    <2> SUFFICES ASSUME NEW r \in Earlier PROVE r \in Earlier'
      OBVIOUS
    <2>1. /\ r \in Published \X Published /\ r[1] \in Published /\ r[2] \in Published
          /\ log[r[1]].by = log[r[2]].by => r[1] < r[2]
      BY DEF Earlier
    <2>2. /\ r \in Published' \X Published'
          /\ log'[r[1]].by = log'[r[2]].by => r[1] < r[2]
      BY <1>4, <1>5, <2>1
    <2> QED  BY <2>2 DEF Earlier
  <1>7. Foreign \subseteq Foreign'
    <2> SUFFICES ASSUME NEW r \in Foreign PROVE r \in Foreign'
      OBVIOUS
    <2>1. /\ r \in Published \X Published /\ r[1] \in Published /\ r[2] \in Published
          /\ log[r[1]].by # log[r[2]].by
      BY DEF Foreign
    <2>2. r \in Published' \X Published' /\ log'[r[1]].by # log'[r[2]].by
      BY <1>4, <1>5, <2>1
    <2> QED  BY <2>2 DEF Foreign
  <1>8. ASSUME NEW m \in Published
        PROVE  /\ <<m, n>> \in Earlier'
               /\ log[m].by # p => /\ <<m, n>> \in Foreign' /\ <<n, m>> \in Foreign'
                                   /\ <<n, m>> \in Earlier'
    <2>1. /\ <<m, n>> \in Published' \X Published' /\ <<n, m>> \in Published' \X Published'
          /\ m < n
      BY <1>4, <1>8
    <2>2. log'[n].by = p /\ log'[m].by = log[m].by
      <3>1. e.by = p
        OBVIOUS
      <3> HIDE DEF e
      <3> QED  BY <1>2, <1>5, <1>8, <3>1
    <2>3. <<m, n>> \in Earlier'
      <3>1. <<m, n>>[1] = m /\ <<m, n>>[2] = n
        OBVIOUS
      <3> QED  BY <2>1, <3>1, Zenon DEF Earlier
    <2>4. log[m].by # p => <<m, n>> \in Foreign' /\ <<n, m>> \in Foreign'
      BY <2>1, <2>2 DEF Foreign
    <2>5. log[m].by # p => <<n, m>> \in Earlier'
      BY <2>4 DEF Foreign, Earlier
    <2> QED  BY <2>3, <2>4, <2>5
  <1> QED  BY <1>2, <1>4, <1>5, <1>6, <1>7, <1>8 DEF n

\* The events of an ordered list, and the two kinds of them, can be counted.
LEMMA Counted ==
  ASSUME FlowTypeOK, NEW a \in EventSeqs, InOrder(Earlier, a)
  PROVE  /\ IsFiniteSet(Ordinary(a)) /\ IsFiniteSet(Terminal(a))
         /\ Cardinality(Ordinary(a)) \in Nat /\ Cardinality(Terminal(a)) \in Nat
         /\ Len(a) = Cardinality(Ordinary(a)) + Cardinality(Terminal(a))
         /\ Len(a) \in Nat
  <1>1. \A m : <<m, m>> \notin Earlier
    BY Relations
  <1>2. IsFiniteSet(ToSet(a)) /\ Cardinality(ToSet(a)) = Len(a) /\ Len(a) \in Nat
    BY <1>1, LengthCounts DEF EventSeqs
  <1>3. /\ Ordinary(a) \in SUBSET ToSet(a) /\ Terminal(a) \in SUBSET ToSet(a)
        /\ Ordinary(a) \cup Terminal(a) = ToSet(a) /\ Ordinary(a) \cap Terminal(a) = {}
    BY DEF Ordinary, Terminal
  <1>4. IsFiniteSet(Ordinary(a)) /\ IsFiniteSet(Terminal(a))
    BY <1>2, <1>3, FS_Subset
  <1>5. Cardinality(Ordinary(a)) \in Nat /\ Cardinality(Terminal(a)) \in Nat
    BY <1>4, FS_CardinalityType
  <1>6. Cardinality(ToSet(a)) = Cardinality(Ordinary(a)) + Cardinality(Terminal(a)) - Cardinality({})
    BY <1>3, <1>4, FS_Union
  <1>7. Cardinality({}) = 0
    BY FS_EmptySet
  <1> QED  BY <1>2, <1>4, <1>5, <1>6, <1>7, SMT

----------------------------------------------------------------------------
(* The steps of a subscriber *)

\* A step of one subscriber leaves the log and the history alone.
LEMMA BusKept ==
  ASSUME UNCHANGED busVars
  PROVE  /\ Published' = Published /\ Earlier' = Earlier /\ Foreign' = Foreign
         /\ HistoryOK => HistoryOK'
  <1>1. UNCHANGED <<policy, state, log, history>>
    BY DEF busVars
  <1>2. /\ Published' = Published /\ Earlier' = Earlier /\ Foreign' = Foreign
    BY <1>1 DEF Published, Earlier, Foreign
  <1>3. Ordinary(history)' = Ordinary(history) /\ Terminal(history)' = Terminal(history)
    BY <1>1 DEF Ordinary, Terminal
  <1>4. HistoryOK => HistoryOK'
    BY <1>1, <1>2, <1>3 DEF HistoryOK
  <1> QED  BY <1>2, <1>4

\* And so are the other subscribers.
LEMMA OtherReader ==
  ASSUME NEW t \in Subscribers, ReaderOK(t), UNCHANGED busVars, refused \subseteq refused',
         UNCHANGED <<got[t], todo[t], queue[t], waiters[t], resumed[t], pc[t], start[t]>>
  PROVE  ReaderOK(t)'
  <1>1. UNCHANGED <<policy, state, log, history>>
    BY DEF busVars
  <1>2. /\ Published' = Published /\ Earlier' = Earlier /\ Foreign' = Foreign
    BY BusKept
  <1>3. Given(t)' = Given(t) /\ Pending(t)' = Pending(t)
        /\ Ordinary(queue[t])' = Ordinary(queue[t]) /\ Active(t)' = Active(t)
    BY <1>1 DEF Given, Pending, Ordinary, Active
  <1>4. \A n : Missable(t, n) => Missable(t, n)'
    BY <1>1 DEF Missable, Wanted
  <1>5. NothingLost(t)'
    BY <1>1, <1>2, <1>3, <1>4 DEF ReaderOK, NothingLost
  <1>6. Unstarted(t)'
    BY DEF ReaderOK, Unstarted
  <1> QED  BY <1>2, <1>3, <1>5, <1>6 DEF ReaderOK

\* Where the generator of s stands with the events rest of its copy to go.
Facing(s, rest) ==
  /\ Given(s) \cup ToSet(rest) \cup ToSet(queue[s]) \cup ToSet(waiters[s]) \subseteq Published
  /\ InLane(Earlier, Foreign, got[s], rest, queue[s], waiters[s], resumed[s])
  /\ \A n \in Published : \/ Missable(s, n)'
                          \/ n \in Given(s) \cup ToSet(rest) \cup ToSet(queue[s])
                                   \cup ToSet(waiters[s])
  /\ Cardinality(Ordinary(queue[s])) <= MaxQueue

\* The generator in its replay loop.
LEMMA ReaderReplays ==
  ASSUME TypeOK, NEW s \in Subscribers, NEW rest \in EventSeqs, Facing(s, rest),
         UNCHANGED busVars, resumed[s] = <<>>, Replay(s, rest)
  PROVE  ReaderOK(s)'
  <1>1. PICK i \in DOMAIN rest :
          /\ FirstWanted(s, rest, i)
          /\ got' = [got EXCEPT ![s] = Append(@, rest[i])]
          /\ pc' = [pc EXCEPT ![s] = "reading"]
          /\ todo' = [todo EXCEPT ![s] = SubSeq(rest, i + 1, Len(rest))]
          /\ UNCHANGED flowVars
    BY DEF Replay, Yield
  <1> DEFINE u == SubSeq(rest, i + 1, Len(rest))
  <1>2. UNCHANGED <<policy, state, log, history, queue, waiters, resumed>>
    BY <1>1 DEF busVars, flowVars
  <1>3. /\ Published' = Published /\ Earlier' = Earlier /\ Foreign' = Foreign
        /\ Ordinary(queue[s])' = Ordinary(queue[s])
    BY <1>2, BusKept DEF Ordinary
  <1>4. got \in [Subscribers -> EventSeqs] /\ pc \in [Subscribers -> PCs]
        /\ todo \in [Subscribers -> EventSeqs] /\ got[s] \in Seq(Nat) /\ rest \in Seq(Nat)
    BY DEF TypeOK, FlowTypeOK, EventSeqs
  <1>5. rest[i] \in Nat /\ rest[i] \in ToSet(rest)
    BY <1>4, ElementOfSeq, LenProperties DEF ToSet
  <1>6. ToSet(Append(got[s], rest[i])) = Given(s) \cup {rest[i]}
    BY <1>4, <1>5, ElementsAppend DEF Given
  <1>7. /\ u \in Seq(Nat)
        /\ DOMAIN u = 1..(Len(rest) - i)
        /\ \A k \in DOMAIN u : k + i \in DOMAIN rest /\ u[k] = rest[k + i]
        /\ \A j \in DOMAIN rest : j > i => j - i \in DOMAIN u /\ u[j - i] = rest[j]
        /\ ToSet(u) \subseteq ToSet(rest)
    BY <1>4, ElementsAfter
  <1>8. InLane(Earlier, Foreign, Append(got[s], rest[i]), u, queue[s], waiters[s], resumed[s])
    BY <1>4, LaneReplayed DEF Facing
  <1> HIDE DEF u
  <1>9. got'[s] = Append(got[s], rest[i]) /\ pc'[s] = "reading" /\ todo'[s] = u
    BY <1>1, <1>4 DEF u
  <1>10. ToSet(resumed[s]) = {}
    BY ElementsNone
  <1>11. \A n \in ToSet(rest) : Missable(s, n)' \/ n = rest[i] \/ n \in ToSet(u)
    <2> SUFFICES ASSUME NEW j \in DOMAIN rest
                 PROVE  Missable(s, rest[j])' \/ rest[j] = rest[i] \/ rest[j] \in ToSet(u)
      BY DEF ToSet
    <2>1. j \in 1..(i - 1) \/ j = i \/ j > i
      BY <1>4, LenProperties, SMT
    <2>2. CASE j \in 1..(i - 1)
      BY <1>1, <1>2, <2>2 DEF FirstWanted, Missable, Wanted
    <2>3. CASE j > i
      BY <1>7, <2>3 DEF ToSet
    <2> QED  BY <2>1, <2>2, <2>3
  <1>12. Given(s)' = Given(s) \cup {rest[i]}
         /\ Pending(s)' = ToSet(u) \cup ToSet(queue[s]) \cup ToSet(waiters[s])
    BY <1>2, <1>6, <1>9, <1>10 DEF Given, Pending
  <1>13. NothingLost(s)'
    <2> SUFFICES ASSUME NEW n \in Published
                 PROVE  Missable(s, n)' \/ n \in Given(s)' \cup Pending(s)'
      BY <1>3, <1>9 DEF NothingLost
    <2> QED  BY <1>11, <1>12 DEF Facing
  <1>14. Given(s)' \cup Pending(s)' \subseteq Published
    BY <1>5, <1>7, <1>12 DEF Facing
  <1>15. InLane(Earlier, Foreign, got[s], todo[s], queue[s], waiters[s], resumed[s])'
    BY <1>2, <1>3, <1>8, <1>9
  <1>16. Unstarted(s)'
    BY <1>9 DEF Unstarted
  <1> QED  BY <1>3, <1>13, <1>14, <1>15, <1>16 DEF ReaderOK, Facing

\* What is left of the copy when nothing of it is wanted may be missed.
LEMMA RestMissable ==
  ASSUME UNCHANGED busVars, NEW s, NEW rest, NoneWanted(s, rest), NEW n \in ToSet(rest)
  PROVE  Missable(s, n)'
  BY DEF NoneWanted, Missable, Wanted, ToSet, busVars

\* A part of a set is no larger.
LEMMA CountKept ==
  ASSUME NEW A, IsFiniteSet(A), NEW b \in Nat, Cardinality(A) <= b, NEW B \in SUBSET A
  PROVE  Cardinality(B) <= b
  <1>1. IsFiniteSet(B) /\ Cardinality(B) <= Cardinality(A)
    BY FS_Subset
  <1>2. Cardinality(B) \in Nat /\ Cardinality(A) \in Nat
    BY <1>1, FS_CardinalityType
  <1> QED  BY <1>1, <1>2, SMT

\* One more element than there was adds at most one.
LEMMA CountMore ==
  ASSUME NEW A, IsFiniteSet(A), NEW b \in Nat, Cardinality(A) < b,
         NEW n, NEW B \in SUBSET (A \cup {n})
  PROVE  Cardinality(B) <= b
  <1>1. /\ IsFiniteSet(A \cup {n})
        /\ Cardinality(A \cup {n}) = IF n \in A THEN Cardinality(A) ELSE Cardinality(A) + 1
    BY FS_AddElement
  <1>2. Cardinality(A) \in Nat
    BY FS_CardinalityType
  <1>3. Cardinality(A \cup {n}) <= b
    BY <1>1, <1>2, SMT
  <1> QED  BY <1>1, <1>3, CountKept

\* The generator takes the head of its queue.
LEMMA ReaderTakes ==
  ASSUME TypeOK, NEW s \in Subscribers, NEW rest \in EventSeqs, Facing(s, rest),
         UNCHANGED busVars, resumed[s] = <<>>, NoneWanted(s, rest),
         Take(s),
         todo' = [todo EXCEPT ![s] = <<>>]
  PROVE  ReaderOK(s)'
  <1> DEFINE h == Head(queue[s])
             u == Tail(queue[s])
             w == resumed[s] \o waiters[s]
  <1>0. FlowTypeOK
    BY DEF TypeOK
  <1>1. UNCHANGED <<policy, state, log, history>>
    BY DEF busVars
  <1>2. Published' = Published /\ Earlier' = Earlier /\ Foreign' = Foreign
    BY BusKept
  <1>3. /\ got[s] \in Seq(Nat) /\ queue[s] \in Seq(Nat)
        /\ waiters[s] \in Seq(Nat) /\ resumed[s] \in Seq(Nat)
    BY DEF TypeOK, FlowTypeOK, EventSeqs
  <1>4. h \in Nat /\ u \in Seq(Nat) /\ ToSet(queue[s]) = {h} \cup ToSet(u)
    BY <1>3, ElementsTail DEF Take
  <1>5. InLane(Earlier, Foreign, Append(got[s], h), <<>>, u, waiters[s], resumed[s])
    BY <1>3, LaneSkipped, LaneRead DEF Facing, Take
  <1> HIDE DEF h, u
  <1>6. InLane(Earlier, Foreign, Append(got[s], h), <<>>, u, <<>>, w)
    BY <1>0, <1>3, <1>5, Relations, LaneReleased
  <1>7. ToSet(w) = ToSet(waiters[s])
    <2>1. waiters[s] \in Seq(Nat) /\ <<>> \o waiters[s] = w
      BY <1>3
    <2>2. w = waiters[s]
      BY <2>1, ConcatEmptySeq
    <2> QED  BY <2>2
  <1> HIDE DEF w
  <1>8. /\ got'[s] = Append(got[s], h) /\ pc'[s] = "reading" /\ todo'[s] = <<>>
        /\ queue'[s] = u /\ waiters'[s] = <<>> /\ resumed'[s] = w
    BY <1>0 DEF TypeOK, FlowTypeOK, Take, Yield, ReleaseSpace, h, u, w
  <1>9. Given(s)' = Given(s) \cup {h} /\ Pending(s)' = ToSet(u) \cup ToSet(waiters[s])
    <2>1. got[s] \in Seq(Nat) /\ h \in Nat
      BY <1>3, <1>4
    <2>2. ToSet(Append(got[s], h)) = ToSet(got[s]) \cup {h}
      BY <2>1, ElementsAppend
    <2>3. Given(s)' = ToSet(got'[s]) /\ Given(s) = ToSet(got[s])
          /\ Pending(s)' = ToSet(todo'[s]) \cup ToSet(queue'[s]) \cup ToSet(waiters'[s])
                            \cup ToSet(resumed'[s])
      BY DEF Given, Pending
    <2> QED  BY <1>7, <1>8, <2>2, <2>3, ElementsNone
  <1>10. InLane(Earlier, Foreign, got[s], todo[s], queue[s], waiters[s], resumed[s])'
    BY <1>2, <1>6, <1>8
  <1>11. Given(s)' \cup Pending(s)' \subseteq Published'
    BY <1>2, <1>4, <1>9 DEF Facing
  <1>12. NothingLost(s)'
    <2> SUFFICES ASSUME NEW n \in Published
                 PROVE  Missable(s, n)' \/ n \in Given(s)' \cup Pending(s)'
      BY <1>2, <1>8 DEF NothingLost
    <2> QED  BY <1>4, <1>9, RestMissable DEF Facing
  <1>13. Cardinality(Ordinary(queue[s])') <= MaxQueue
    <2>1. Ordinary(queue[s])' \in SUBSET Ordinary(queue[s])
      BY <1>1, <1>4, <1>8 DEF Ordinary
    <2>2. IsFiniteSet(Ordinary(queue[s]))
      BY <1>0, <1>3, Counted DEF Facing, InLane, EventSeqs
    <2> QED  BY <2>1, <2>2, CountKept, BroadcastAssumption DEF Facing
  <1>14. Unstarted(s)'
    BY <1>8 DEF Unstarted
  <1> QED  BY <1>10, <1>11, <1>12, <1>13, <1>14 DEF ReaderOK

\* The generator leaves, and what was held back for it is let go.
LEMMA ReaderLeaves ==
  ASSUME TypeOK, NEW s \in Subscribers, NEW rest \in EventSeqs,
         Given(s) \cup ToSet(queue[s]) \cup ToSet(waiters[s]) \cup ToSet(resumed[s]) \subseteq Published,
         InLane(Earlier, Foreign, got[s], rest, queue[s], waiters[s], resumed[s]),
         UNCHANGED <<busVars, got>>, NEW how \in {"threw", "ended", "left"}, Finally(s, how),
         how = "ended" => /\ state # "open"
                          /\ \A n \in Published : Missable(s, n)' \/ n \in Given(s),
         todo' = [todo EXCEPT ![s] = <<>>]
  PROVE  ReaderOK(s)'
  <1> DEFINE w == resumed[s] \o waiters[s]
  <1>0. FlowTypeOK
    BY DEF TypeOK
  <1>1. UNCHANGED <<policy, state, log, history, got>>
    BY DEF busVars
  <1>2. Published' = Published /\ Earlier' = Earlier /\ Foreign' = Foreign
    BY BusKept
  <1>3. waiters[s] \in Seq(Nat) /\ resumed[s] \in Seq(Nat)
    BY <1>0 DEF FlowTypeOK, EventSeqs
  <1>4. InLane(Earlier, Foreign, got[s], <<>>, <<>>, <<>>, w)
    <2>1. InLane(Earlier, Foreign, got[s], <<>>, <<>>, waiters[s], resumed[s])
      BY LaneSkipped, LaneCleared
    <2> QED  BY <1>0, <1>3, <2>1, Relations, LaneReleased
  <1>5. ToSet(w) = ToSet(resumed[s]) \cup ToSet(waiters[s])
    BY <1>3, ElementsConcat
  <1> HIDE DEF w
  <1>6. /\ pc'[s] = how /\ todo'[s] = <<>>
        /\ queue'[s] = <<>> /\ waiters'[s] = <<>> /\ resumed'[s] = w
    BY <1>0 DEF TypeOK, FlowTypeOK, Finally, ReleaseSpace, w
  <1>7. Given(s)' = Given(s) /\ Pending(s)' = ToSet(w)
    BY <1>1, <1>6, ElementsNone DEF Given, Pending
  <1>8. InLane(Earlier, Foreign, got[s], todo[s], queue[s], waiters[s], resumed[s])'
    BY <1>1, <1>2, <1>4, <1>6
  <1>9. Given(s)' \cup Pending(s)' \subseteq Published'
    BY <1>2, <1>5, <1>7
  <1>10. NothingLost(s)'
    BY <1>1, <1>2, <1>6, <1>7 DEF NothingLost, Active
  <1>11. Cardinality(Ordinary(queue[s])') <= MaxQueue
    <2>1. Ordinary(queue[s])' = {}
      BY <1>6, ElementsNone DEF Ordinary
    <2>2. Cardinality({}) = 0
      BY FS_EmptySet
    <2> QED  BY <2>1, <2>2, BroadcastAssumption
  <1>12. Unstarted(s)'
    BY <1>6 DEF Unstarted
  <1> QED  BY <1>8, <1>9, <1>10, <1>11, <1>12 DEF ReaderOK

\* The generator has nothing to read on an open stream.
LEMMA ReaderParks ==
  ASSUME TypeOK, NEW s \in Subscribers, NEW rest \in EventSeqs, Facing(s, rest),
         UNCHANGED busVars, resumed[s] = <<>>, NoneWanted(s, rest), Park(s),
         todo' = [todo EXCEPT ![s] = <<>>]
  PROVE  ReaderOK(s)'
  <1>1. UNCHANGED <<policy, state, log, history, got, queue, waiters, resumed>>
    BY DEF busVars, flowVars, Park
  <1>2. Published' = Published /\ Earlier' = Earlier /\ Foreign' = Foreign
    BY BusKept
  <1>3. pc'[s] = "parked" /\ todo'[s] = <<>>
    BY DEF TypeOK, FlowTypeOK, Park
  <1>4. Given(s)' = Given(s) /\ Pending(s)' = ToSet(queue[s]) \cup ToSet(waiters[s])
    BY <1>1, <1>3, ElementsNone DEF Given, Pending
  <1>5. InLane(Earlier, Foreign, got[s], <<>>, queue[s], waiters[s], resumed[s])
    BY LaneSkipped DEF Facing
  <1>6. InLane(Earlier, Foreign, got[s], todo[s], queue[s], waiters[s], resumed[s])'
    BY <1>1, <1>2, <1>3, <1>5
  <1>7. NothingLost(s)'
    <2> SUFFICES ASSUME NEW n \in Published
                 PROVE  Missable(s, n)' \/ n \in Given(s)' \cup Pending(s)'
      BY <1>2, <1>3 DEF NothingLost
    <2> QED  BY <1>4, RestMissable DEF Facing
  <1>8. Ordinary(queue[s])' = Ordinary(queue[s])
    BY <1>1 DEF Ordinary
  <1> QED  BY <1>2, <1>3, <1>4, <1>6, <1>7, <1>8 DEF ReaderOK, Facing, Unstarted

\* The generator from where it stands.
LEMMA ReaderAdvances ==
  ASSUME TypeOK, NoLostWakeup, NEW s \in Subscribers, NEW rest \in EventSeqs,
         Facing(s, rest), Advance(s, rest)
  PROVE  ReaderOK(s)'
  <1>1. UNCHANGED busVars /\ resumed[s] = <<>>
    BY DEF Advance
  <1>2. CASE Replay(s, rest)
    BY <1>1, <1>2, ReaderReplays
  <1>3. CASE NoneWanted(s, rest) /\ todo' = [todo EXCEPT ![s] = <<>>] /\ Take(s)
    BY <1>1, <1>3, ReaderTakes
  <1>4. CASE NoneWanted(s, rest) /\ todo' = [todo EXCEPT ![s] = <<>>] /\ End(s)
    <2>1. queue[s] = <<>> /\ waiters[s] = <<>> /\ state # "open" /\ UNCHANGED got
      BY <1>4 DEF NoLostWakeup, End
    <2>2. ToSet(queue[s]) = {} /\ ToSet(waiters[s]) = {} /\ ToSet(resumed[s]) = {}
      BY <1>1, <2>1, ElementsNone
    <2>3. \A n \in Published : Missable(s, n)' \/ n \in Given(s)
      BY <1>1, <1>4, <2>2, RestMissable DEF Facing
    <2>4. /\ Given(s) \cup ToSet(queue[s]) \cup ToSet(waiters[s]) \cup ToSet(resumed[s])
                \subseteq Published
          /\ InLane(Earlier, Foreign, got[s], rest, queue[s], waiters[s], resumed[s])
      BY <2>2 DEF Facing
    <2>5. PICK how \in {"threw", "ended", "left"} : Finally(s, how)
      BY <1>4 DEF End
    <2> QED  BY <1>1, <1>4, <2>1, <2>3, <2>4, <2>5, ReaderLeaves
  <1>5. CASE NoneWanted(s, rest) /\ todo' = [todo EXCEPT ![s] = <<>>] /\ Park(s)
    BY <1>1, <1>5, ReaderParks
  <1> QED  BY <1>2, <1>3, <1>4, <1>5 DEF Advance

\* A generator that starts has its copy of the history before it.
LEMMA FacingStart ==
  ASSUME StreamInv, NEW s \in Subscribers, Start(s)
  PROVE  Facing(s, history)
  <1>1. /\ TypeOK /\ HistoryOK /\ ReaderOK(s) /\ pc[s] = "new"
        /\ start' = [start EXCEPT ![s] = Len(log) + 1] /\ UNCHANGED <<busVars, refused>>
    BY DEF StreamInv, Start, Advance
  <1>2. FlowTypeOK
    BY <1>1 DEF TypeOK
  <1>3. start'[s] = Len(log) + 1 /\ Published = 1..Len(log) /\ Len(log) \in Nat
    BY <1>1, <1>2, Relations, LenProperties DEF TypeOK, FlowTypeOK
  <1>4. \A n \in Published : n < start'[s]
    BY <1>3, SMT
  <1>5. /\ got[s] = <<>> /\ queue[s] = <<>> /\ waiters[s] = <<>> /\ resumed[s] = <<>>
    BY <1>1 DEF ReaderOK, Unstarted
  <1>6. InLane(Earlier, Foreign, got[s], history, queue[s], waiters[s], resumed[s])
    BY <1>1, <1>5, LaneStarted DEF HistoryOK
  <1>7. Given(s) = {} /\ ToSet(queue[s]) = {} /\ ToSet(waiters[s]) = {}
    BY <1>5, ElementsNone DEF Given
  <1>8. ASSUME NEW n \in Published PROVE Missable(s, n)' \/ n \in ToSet(history)
    <2>1. \/ n \in ToSet(history) \/ ~IsReplayed(log[n].kind)
          \/ policy = "drop-oldest" /\ ~IsTerminal(log[n].kind)
      BY <1>1 DEF HistoryOK
    <2>2. log' = log /\ policy' = policy
      BY <1>1 DEF busVars
    <2> QED  BY <1>4, <2>1, <2>2 DEF Missable
  <1> QED  BY <1>1, <1>6, <1>7, <1>8 DEF Facing, HistoryOK, ReaderOK

\* One that goes on has what is left of it.
LEMMA FacingNext ==
  ASSUME NEW s \in Subscribers, ReaderOK(s), Active(s), resumed[s] = <<>>,
         UNCHANGED <<busVars, refused, start>>
  PROVE  Facing(s, todo[s])
  <1>1. \A n : Missable(s, n) => Missable(s, n)'
    BY DEF Missable, Wanted, busVars
  <1>2. ToSet(resumed[s]) = {}
    BY ElementsNone
  <1>3. \A n \in Published : Missable(s, n)' \/ n \in Given(s) \cup Pending(s)
    BY <1>1 DEF ReaderOK, NothingLost
  <1> QED  BY <1>2, <1>3 DEF Facing, ReaderOK, Pending

\* Return leaves.
LEMMA ReaderReturns ==
  ASSUME StreamInv, NEW s \in Subscribers, Return(s)
  PROVE  ReaderOK(s)'
  <1>1. TypeOK /\ FlowTypeOK /\ ReaderOK(s) /\ UNCHANGED <<busVars, start, got, refused>>
    BY DEF StreamInv, Return, TypeOK
  <1>2. CASE pc[s] = "new" /\ pc' = [pc EXCEPT ![s] = "left"] /\ UNCHANGED <<flowVars, todo>>
    <2>1. UNCHANGED <<policy, state, log, history, got, queue, waiters, resumed, todo>>
      BY <1>1, <1>2 DEF busVars, flowVars
    <2>2. Published' = Published /\ Earlier' = Earlier /\ Foreign' = Foreign
      BY <1>1, BusKept
    <2>3. pc'[s] = "left"
      BY <1>1, <1>2 DEF FlowTypeOK
    <2>4. Given(s)' = Given(s) /\ Pending(s)' = Pending(s)
          /\ Ordinary(queue[s])' = Ordinary(queue[s])
      BY <2>1 DEF Given, Pending, Ordinary
    <2> QED  BY <1>1, <2>1, <2>2, <2>3, <2>4 DEF ReaderOK, Unstarted, NothingLost, Active
  <1>3. CASE Finally(s, "left") /\ todo' = [todo EXCEPT ![s] = <<>>]
    <2>1. todo[s] \in EventSeqs
      BY <1>1 DEF TypeOK
    <2>2. /\ Given(s) \cup ToSet(queue[s]) \cup ToSet(waiters[s]) \cup ToSet(resumed[s])
                \subseteq Published
          /\ InLane(Earlier, Foreign, got[s], todo[s], queue[s], waiters[s], resumed[s])
      BY <1>1 DEF ReaderOK, Pending
    <2>3. "left" \in {"threw", "ended", "left"} /\ "left" # "ended" /\ UNCHANGED <<busVars, got>>
      BY <1>1
    <2> QED  BY <1>1, <1>3, <2>1, <2>2, <2>3, ReaderLeaves
  <1> QED  BY <1>2, <1>3 DEF Return

\* A queue with space takes one more.
LEMMA OneMore ==
  ASSUME FlowTypeOK, NEW s \in Subscribers, InOrder(Earlier, queue[s]), HasSpace(s),
         NEW n, NEW B \in SUBSET (Ordinary(queue[s]) \cup {n})
  PROVE  Cardinality(B) <= MaxQueue
  <1>1. queue[s] \in EventSeqs
    BY DEF FlowTypeOK
  <1>2. /\ IsFiniteSet(Ordinary(queue[s])) /\ Cardinality(Ordinary(queue[s])) \in Nat
        /\ Cardinality(Terminal(queue[s])) \in Nat /\ Len(queue[s]) \in Nat
        /\ Len(queue[s]) = Cardinality(Ordinary(queue[s])) + Cardinality(Terminal(queue[s]))
    BY <1>1, Counted
  <1>3. Cardinality(Ordinary(queue[s])) < MaxQueue
    BY <1>2, BroadcastAssumption, SMT DEF HasSpace
  <1> QED  BY <1>2, <1>3, CountMore, BroadcastAssumption

\* A held-back publish() goes on: what is needed of each of its ways.
LEMMA ResumedOK ==
  ASSUME StreamInv, NEW s \in Subscribers, UNCHANGED busVars,
         NEW n, resumed[s] # <<>>, n = Head(resumed[s]),
         resumed' = [resumed EXCEPT ![s] = Tail(@)], UNCHANGED <<todo, got, start>>,
         \/ /\ waiters' = [waiters EXCEPT ![s] = Append(@, n)]
            /\ Active(s) /\ UNCHANGED <<queue, pc, refused>>
         \/ /\ queue' = [queue EXCEPT ![s] = Append(@, n)]
            /\ HasSpace(s) /\ Active(s) /\ UNCHANGED <<waiters, refused>>
            /\ pc' = Woken({s})
         \/ /\ UNCHANGED <<queue, waiters, pc>>
            /\ refused' = refused \cup {n}
         \/ /\ UNCHANGED <<queue, waiters, pc, refused>>
            /\ ~Active(s)
  PROVE  ReaderOK(s)'
  <1> DEFINE r == Tail(resumed[s])
  <1>1. TypeOK /\ FlowTypeOK /\ ReaderOK(s)
    BY DEF StreamInv, TypeOK
  <1>2. UNCHANGED <<policy, state, log, history>>
    BY DEF busVars
  <1>3. Published' = Published /\ Earlier' = Earlier /\ Foreign' = Foreign
    BY BusKept
  <1>4. /\ queue[s] \in Seq(Nat) /\ waiters[s] \in Seq(Nat) /\ resumed[s] \in Seq(Nat)
    BY <1>1 DEF FlowTypeOK, EventSeqs
  <1>5. n \in Nat /\ r \in Seq(Nat) /\ ToSet(resumed[s]) = {n} \cup ToSet(r)
    BY <1>4, ElementsTail
  <1>6. /\ InLane(Earlier, Foreign, got[s], todo[s], queue[s], waiters[s], r)
        /\ Across(Earlier, ToSet(got[s]) \cup ToSet(todo[s]) \cup ToSet(queue[s]), {n})
        /\ Across(Foreign, ToSet(waiters[s]), {n})
        /\ Across(Foreign, {n}, ToSet(r))
    BY <1>1, <1>4, LaneResumed DEF ReaderOK
  <1>7. resumed'[s] = r
    BY <1>1 DEF FlowTypeOK
  <1> HIDE DEF r
  <1>8. pc[s] # "new" /\ n \in Published
    BY <1>1, <1>5 DEF ReaderOK, Unstarted, Pending
  <1>9. \A m : Missable(s, m) /\ refused \subseteq refused' => Missable(s, m)'
    BY <1>2 DEF Missable, Wanted
  <1>10. CASE /\ waiters' = [waiters EXCEPT ![s] = Append(@, n)]
              /\ Active(s) /\ UNCHANGED <<queue, pc, refused>>
    <2>1. waiters'[s] = Append(waiters[s], n)
      BY <1>1, <1>10 DEF FlowTypeOK
    <2>2. InLane(Earlier, Foreign, got[s], todo[s], queue[s], Append(waiters[s], n), r)
      BY <1>4, <1>5, <1>6, LaneHeld
    <2>3. ToSet(Append(waiters[s], n)) = ToSet(waiters[s]) \cup {n}
      BY <1>4, <1>5, ElementsAppend
    <2>4. Given(s)' = Given(s) /\ Pending(s)' = Pending(s)
      BY <1>5, <1>7, <1>10, <2>1, <2>3 DEF Given, Pending
    <2>5. InLane(Earlier, Foreign, got[s], todo[s], queue[s], waiters[s], resumed[s])'
      BY <1>3, <1>7, <1>10, <2>1, <2>2
    <2>6. pc' = pc /\ Active(s)' /\ pc[s] # "ended" /\ Ordinary(queue[s])' = Ordinary(queue[s])
      BY <1>2, <1>10 DEF Active, Ordinary
    <2>7. NothingLost(s)'
      BY <1>1, <1>3, <1>9, <1>10, <2>4, <2>6 DEF ReaderOK, NothingLost
    <2> QED  BY <1>1, <1>3, <1>8, <2>4, <2>5, <2>6, <2>7 DEF ReaderOK, Unstarted
  <1>11. CASE /\ queue' = [queue EXCEPT ![s] = Append(@, n)]
              /\ HasSpace(s) /\ Active(s) /\ UNCHANGED <<waiters, refused>>
              /\ pc' = Woken({s})
    <2>1. queue'[s] = Append(queue[s], n) /\ pc'[s] \in {pc[s], "woken"}
      BY <1>1, <1>11 DEF FlowTypeOK, Woken
    <2>2. Across(Earlier, {n}, ToSet(waiters[s]) \cup ToSet(r))
      BY <1>1, <1>6, Relations DEF Across
    <2>3. InLane(Earlier, Foreign, got[s], todo[s], Append(queue[s], n), waiters[s], r)
      BY <1>4, <1>5, <1>6, <2>2, LaneDelivered
    <2>4. ToSet(Append(queue[s], n)) = ToSet(queue[s]) \cup {n}
      BY <1>4, <1>5, ElementsAppend
    <2>5. Given(s)' = Given(s) /\ Pending(s)' = Pending(s)
      BY <1>5, <1>7, <1>11, <2>1, <2>4 DEF Given, Pending
    <2>6. InLane(Earlier, Foreign, got[s], todo[s], queue[s], waiters[s], resumed[s])'
      BY <1>3, <1>7, <1>11, <2>1, <2>3
    <2>7. pc'[s] # "ended" /\ pc'[s] # "new"
      BY <1>8, <1>11, <2>1 DEF Active
    <2>8. NothingLost(s)'
      BY <1>1, <1>3, <1>9, <1>11, <2>5, <2>7 DEF ReaderOK, NothingLost
    <2>9. Cardinality(Ordinary(queue[s])') <= MaxQueue
      <3>1. InOrder(Earlier, queue[s]) /\ HasSpace(s)
        BY <1>1, <1>11 DEF ReaderOK, InLane
      <3>2. Ordinary(queue[s])' \in SUBSET (Ordinary(queue[s]) \cup {n})
        BY <1>2, <2>1, <2>4 DEF Ordinary
      <3> QED  BY <1>1, <3>1, <3>2, OneMore
    <2> QED  BY <1>1, <1>3, <2>5, <2>6, <2>7, <2>8, <2>9 DEF ReaderOK, Unstarted
  <1>12. CASE UNCHANGED <<queue, waiters, pc>> /\ (refused' = refused \cup {n} \/ (~Active(s) /\ refused' = refused))
    <2>1. Given(s)' = Given(s) /\ Pending(s) = {n} \cup Pending(s)' 
      BY <1>5, <1>7, <1>12 DEF Given, Pending
    <2>2. InLane(Earlier, Foreign, got[s], todo[s], queue[s], waiters[s], resumed[s])'
      BY <1>3, <1>6, <1>7, <1>12
    <2>3. Active(s)' = Active(s) /\ pc' = pc /\ Ordinary(queue[s])' = Ordinary(queue[s])
      BY <1>2, <1>12 DEF Active, Ordinary
    <2>4. refused' = refused \cup {n} => Missable(s, n)'
      BY DEF Missable
    <2>5. NothingLost(s)'
      BY <1>1, <1>2, <1>3, <1>9, <1>12, <2>1, <2>3, <2>4 DEF ReaderOK, NothingLost
    <2> QED  BY <1>1, <1>3, <1>8, <2>1, <2>2, <2>3, <2>5 DEF ReaderOK, Unstarted
  <1> QED  BY <1>10, <1>11, <1>12

----------------------------------------------------------------------------
(* close, fail and publish *)

\* close() and fail() wake everybody, and lose nothing.
LEMMA ShutOK ==
  ASSUME StreamInv, NEW how \in {"closed", "failed"}, Shut(how), NEW s \in Subscribers
  PROVE  ReaderOK(s)'
  <1> DEFINE w == resumed[s] \o waiters[s]
  <1>1. /\ TypeOK /\ FlowTypeOK /\ ReaderOK(s)
        /\ UNCHANGED <<policy, log, history, queue, todo, start, got, refused>>
        /\ state' # "open"
    BY DEF StreamInv, Shut, TypeOK
  <1>2. Published' = Published /\ Earlier' = Earlier /\ Foreign' = Foreign
    BY <1>1 DEF Published, Earlier, Foreign
  <1>3. waiters[s] \in Seq(Nat) /\ resumed[s] \in Seq(Nat)
    BY <1>1 DEF FlowTypeOK, EventSeqs
  <1>4. InLane(Earlier, Foreign, got[s], todo[s], queue[s], <<>>, w)
    BY <1>1, <1>3, Relations, LaneReleased DEF ReaderOK
  <1>5. ToSet(w) = ToSet(resumed[s]) \cup ToSet(waiters[s])
    BY <1>3, ElementsConcat
  <1>6. pc[s] = "new" => w = <<>>
    <2>1. pc[s] = "new" => w = <<>> \o <<>>
      BY <1>1 DEF ReaderOK, Unstarted
    <2>2. <<>> \o <<>> = <<>>
      BY SMT
    <2> HIDE DEF w
    <2> QED  BY <2>1, <2>2
  <1> HIDE DEF w
  <1>7. /\ waiters'[s] = <<>> /\ resumed'[s] = w
        /\ pc'[s] = IF pc[s] = "parked" THEN "woken" ELSE pc[s]
    BY DEF Shut, ReleaseAll, Woken, w
  <1>8. Given(s)' = Given(s) /\ Pending(s)' = Pending(s)
    BY <1>1, <1>5, <1>7, ElementsNone DEF Given, Pending
  <1>9. InLane(Earlier, Foreign, got[s], todo[s], queue[s], waiters[s], resumed[s])'
    BY <1>1, <1>2, <1>4, <1>7
  <1>10. \A n : Missable(s, n) => Missable(s, n)'
    BY <1>1 DEF Missable, Wanted
  <1>11. /\ Active(s)' <=> Active(s)
         /\ pc'[s] = "ended" <=> pc[s] = "ended"
         /\ pc'[s] = "new" <=> pc[s] = "new"
    BY <1>7 DEF Active
  <1>12. NothingLost(s)'
    BY <1>1, <1>2, <1>8, <1>10, <1>11 DEF ReaderOK, NothingLost
  <1>13. Ordinary(queue[s])' = Ordinary(queue[s])
    BY <1>1 DEF Ordinary
  <1>14. Unstarted(s)'
    BY <1>1, <1>6, <1>7, <1>11 DEF ReaderOK, Unstarted
  <1> QED  BY <1>1, <1>2, <1>8, <1>9, <1>12, <1>13, <1>14 DEF ReaderOK

\* Nothing that is held back for s is of the publisher that publishes next.
LEMMA HeldForeign ==
  ASSUME FlowTypeOK, NEW s \in Subscribers, NEW p, ~Publishing(p)
  PROVE  \A m \in ToSet(waiters[s]) \cup ToSet(resumed[s]) : log[m].by # p
  <1>1. waiters[s] \in Seq(Nat) /\ resumed[s] \in Seq(Nat)
    BY DEF FlowTypeOK, EventSeqs
  <1>2. ToSet(waiters[s] \o resumed[s]) = ToSet(waiters[s]) \cup ToSet(resumed[s])
    BY <1>1, ElementsConcat
  <1> QED  BY <1>2 DEF Publishing

\* A publish() for one subscriber: past its filter, delivered, or held back.
LEMMA PublishedOK ==
  ASSUME StreamInv, NEW p \in Publishers, NEW kind \in Kinds, Publish(p, kind),
         NEW s \in Subscribers
  PROVE  ReaderOK(s)'
  <1>0. PICK n \in Nat : n = Len(log) + 1
    BY NextNumber DEF StreamInv, TypeOK
  <1> DEFINE reached == {t \in Subscribers : Active(t) /\ kind \in Accepts[t]}
             direct == {t \in reached : IsTerminal(kind) \/ HasSpace(t)}
  <1>1. /\ TypeOK /\ FlowTypeOK /\ ReaderOK(s) /\ HistoryOK
        /\ state = "open" /\ ~Publishing(p)
        /\ log' = Append(log, [by |-> p, kind |-> kind])
        /\ UNCHANGED <<policy, state, resumed, todo, start, got, refused>>
    BY DEF StreamInv, Publish, TypeOK
  <1>2. /\ queue'[s] = IF s \in direct THEN Append(queue[s], n) ELSE queue[s]
        /\ waiters'[s] = IF s \in reached \ direct THEN Append(waiters[s], n) ELSE waiters[s]
        /\ pc'[s] = IF s \in direct /\ pc[s] = "parked" THEN "woken" ELSE pc[s]
    BY <1>0 DEF Publish, Woken
  <1>3. /\ n \in Nat /\ n \notin Published /\ Published' = Published \cup {n}
        /\ log'[n] = [by |-> p, kind |-> kind]
        /\ \A m \in Published : log'[m] = log[m]
        /\ Earlier \subseteq Earlier' /\ Foreign \subseteq Foreign'
        /\ \A m \in Published : <<m, n>> \in Earlier'
        /\ \A m \in Published : log[m].by # p => /\ <<m, n>> \in Foreign'
                                                  /\ <<n, m>> \in Foreign'
                                                  /\ <<n, m>> \in Earlier'
    BY <1>0, <1>1, LogGrows
  <1>4. s \in reached <=> Active(s) /\ kind \in Accepts[s]
    OBVIOUS
  <1>5. s \in direct <=> s \in reached /\ (IsTerminal(kind) \/ HasSpace(s))
    OBVIOUS
  <1> HIDE DEF reached, direct
  <1>6. queue[s] \in Seq(Nat) /\ waiters[s] \in Seq(Nat)
    BY <1>1 DEF FlowTypeOK, EventSeqs
  <1>7. /\ Given(s) \subseteq Published /\ ToSet(todo[s]) \subseteq Published
        /\ ToSet(queue[s]) \subseteq Published /\ ToSet(waiters[s]) \subseteq Published
        /\ ToSet(resumed[s]) \subseteq Published
    BY <1>1 DEF ReaderOK, Pending
  <1>8. InLane(Earlier', Foreign', got[s], todo[s], queue[s], waiters[s], resumed[s])
    BY <1>1, <1>3, LaneGrows DEF ReaderOK
  <1>9. \A m \in ToSet(waiters[s]) \cup ToSet(resumed[s]) : log[m].by # p
    BY <1>1, HeldForeign
  <1>10. Across(Earlier', ToSet(got[s]) \cup ToSet(todo[s]) \cup ToSet(queue[s]), {n})
    BY <1>3, <1>7 DEF Across, Given
  <1>11. /\ Across(Earlier', {n}, ToSet(waiters[s]) \cup ToSet(resumed[s]))
         /\ Across(Foreign', ToSet(waiters[s]), {n})
         /\ Across(Foreign', {n}, ToSet(resumed[s]))
    BY <1>3, <1>7, <1>9 DEF Across
  <1>12. ToSet(Append(queue[s], n)) = ToSet(queue[s]) \cup {n}
    BY <1>6, ElementsAppend
  <1>13. ToSet(Append(waiters[s], n)) = ToSet(waiters[s]) \cup {n}
    BY <1>6, ElementsAppend
  <1>14. InLane(Earlier, Foreign, got[s], todo[s], queue[s], waiters[s], resumed[s])'
    <2>1. CASE s \in direct
      <3>1. InLane(Earlier', Foreign', got[s], todo[s], Append(queue[s], n), waiters[s], resumed[s])
        BY <1>3, <1>6, <1>8, <1>10, <1>11, LaneDelivered
      <3> QED  BY <1>1, <1>2, <2>1, <3>1
    <2>2. CASE s \in reached \ direct
      <3>1. InLane(Earlier', Foreign', got[s], todo[s], queue[s], Append(waiters[s], n), resumed[s])
        BY <1>3, <1>6, <1>8, <1>10, <1>11, LaneHeld
      <3> QED  BY <1>1, <1>2, <2>2, <3>1
    <2>3. CASE s \notin reached
      BY <1>1, <1>2, <1>5, <1>8, <2>3
    <2> QED  BY <2>1, <2>2, <2>3
  <1>15. /\ Given(s)' = Given(s)
         /\ Pending(s) \subseteq Pending(s)' /\ Pending(s)' \subseteq Pending(s) \cup {n}
         /\ s \in reached => n \in Pending(s)'
    <2>1. /\ Given(s)' = ToSet(got'[s]) /\ Given(s) = ToSet(got[s])
          /\ Pending(s) = ToSet(todo[s]) \cup ToSet(queue[s]) \cup ToSet(waiters[s])
                          \cup ToSet(resumed[s])
          /\ Pending(s)' = ToSet(todo'[s]) \cup ToSet(queue'[s]) \cup ToSet(waiters'[s])
                           \cup ToSet(resumed'[s])
      BY DEF Given, Pending
    <2>2. CASE s \in direct
      <3>1. ToSet(queue'[s]) = ToSet(queue[s]) \cup {n} /\ waiters'[s] = waiters[s]
        BY <1>2, <1>12, <2>2
      <3> QED  BY <1>1, <2>1, <3>1
    <2>3. CASE s \in reached \ direct
      <3>1. ToSet(waiters'[s]) = ToSet(waiters[s]) \cup {n} /\ queue'[s] = queue[s]
        BY <1>2, <1>13, <2>3
      <3> QED  BY <1>1, <2>1, <3>1
    <2>4. CASE s \notin reached
      <3>1. waiters'[s] = waiters[s] /\ queue'[s] = queue[s]
        BY <1>2, <1>5, <2>4
      <3> QED  BY <1>1, <2>1, <2>4, <3>1
    <2> QED  BY <2>2, <2>3, <2>4
  <1>16. Given(s)' \cup Pending(s)' \subseteq Published'
    BY <1>1, <1>3, <1>15 DEF ReaderOK
  <1>17. \A m \in Published : Missable(s, m) => Missable(s, m)'
    BY <1>1, <1>3 DEF Missable, Wanted
  <1>18. /\ Active(s)' <=> Active(s)
         /\ pc'[s] = "ended" <=> pc[s] = "ended"
         /\ pc'[s] = "new" <=> pc[s] = "new"
    BY <1>2 DEF Active
  <1>19. NothingLost(s)'
    <2>1. pc'[s] # "ended"
      BY <1>1, <1>18 DEF ReaderOK, NothingLost
    <2>2. ASSUME Active(s) PROVE Missable(s, n)' \/ n \in Pending(s)'
      <3>1. log'[n].kind = kind
        BY <1>3
      <3> QED  BY <1>4, <1>15, <2>2, <3>1 DEF Missable, Wanted
    <2>3. ASSUME Active(s), NEW m \in Published'
          PROVE  Missable(s, m)' \/ m \in Given(s)' \cup Pending(s)'
      <3>1. CASE m = n
        BY <2>2, <2>3, <3>1
      <3>2. CASE m \in Published
        BY <1>1, <1>15, <1>17, <2>3, <3>2 DEF ReaderOK, NothingLost
      <3> QED  BY <1>3, <3>1, <3>2
    <2> QED  BY <1>18, <2>1, <2>3 DEF NothingLost
  <1>20. Unstarted(s)'
    <2>1. pc[s] = "new" => s \notin reached
      BY <1>4 DEF Active
    <2> QED  BY <1>1, <1>2, <1>5, <1>18, <2>1 DEF ReaderOK, Unstarted
  <1>21. Cardinality(Ordinary(queue[s])') <= MaxQueue
    <2>1. InOrder(Earlier, queue[s]) /\ queue[s] \in EventSeqs /\ Cardinality(Ordinary(queue[s])) <= MaxQueue
      BY <1>1, <1>6 DEF ReaderOK, InLane, EventSeqs
    <2>2. log'[n].kind = kind
      BY <1>3
    <2>3. CASE s \in direct /\ ~IsTerminal(kind)
      <3>1. Ordinary(queue[s])' \in SUBSET (Ordinary(queue[s]) \cup {n})
        BY <1>2, <1>3, <1>7, <1>12, <2>3 DEF Ordinary
      <3>2. HasSpace(s)
        BY <1>5, <2>3
      <3> QED  BY <1>1, <2>1, <3>1, <3>2, OneMore
    <2>4. CASE ~(s \in direct /\ ~IsTerminal(kind))
      <3>1. Ordinary(queue[s])' \in SUBSET Ordinary(queue[s])
        BY <1>2, <1>3, <1>7, <1>12, <2>2, <2>4 DEF Ordinary
      <3>2. IsFiniteSet(Ordinary(queue[s]))
        BY <1>1, <2>1, Counted
      <3> QED  BY <2>1, <3>1, <3>2, CountKept, BroadcastAssumption
    <2> QED  BY <2>3, <2>4
  <1> QED  BY <1>14, <1>16, <1>19, <1>20, <1>21 DEF ReaderOK

\* "drop-oldest" makes room by taking out one ordinary event.
LEMMA TrimmedOne ==
  ASSUME TypeOK, HistoryOK, NEW kind, HistoryFull(kind)
  PROVE  \E i \in DOMAIN history : /\ history[i] \in Ordinary(history)
                                   /\ Trimmed(kind) = RemoveAt(history, i)
  <1> DEFINE I == {i \in 1..Len(history) : ~IsTerminal(log[history[i]].kind)}
  <1>1. history \in Seq(Nat) /\ Len(history) \in Nat /\ DOMAIN history = 1..Len(history)
    BY LenProperties DEF TypeOK, EventSeqs
  <1>2. Ordinary(history) # {}
    <2>1. Cardinality(Ordinary(history)) >= MaxHistory
      BY DEF HistoryFull
    <2>2. Cardinality({}) = 0
      BY FS_EmptySet
    <2> QED  BY <2>1, <2>2, BroadcastAssumption
  <1>3. I # {} /\ I \in SUBSET Nat
    <2>1. PICK i \in DOMAIN history : ~IsTerminal(log[history[i]].kind)
      BY <1>2 DEF Ordinary, ToSet
    <2> QED  BY <1>1, <2>1
  <1>4. PICK least \in I : \A j \in I : least <= j
    BY <1>3, LeastNumber
  <1>5. Min(I) \in I
    BY <1>4 DEF Min
  <1>6. SelectInSeq(history, LAMBDA n : ~IsTerminal(log[n].kind)) = Min(I)
    BY <1>3 DEF SelectInSeq
  <1>7. \E i \in 1..Len(history) : ~IsTerminal(log[history[i]].kind)
    BY <1>3
  <1>8. Trimmed(kind) = RemoveAt(history, Min(I))
    BY <1>6, <1>7 DEF Trimmed, RemoveFirstMatch
  <1>9. Min(I) \in DOMAIN history /\ history[Min(I)] \in Ordinary(history)
    BY <1>1, <1>5 DEF Ordinary, ToSet
  <1> QED  BY <1>8, <1>9

\* The history stays in order and within its limits, and only what may be
\* missed has left it.
LEMMA HistoryKept ==
  ASSUME TypeOK, HistoryOK, NEW p \in Publishers, NEW kind \in Kinds, Publish(p, kind)
  PROVE  HistoryOK' /\ history' \in EventSeqs
  <1>0. PICK n \in Nat : n = Len(log) + 1
    BY NextNumber DEF TypeOK
  <1>1. /\ FlowTypeOK /\ history \in Seq(Nat) /\ policy \in Policies
        /\ ~Overflows(kind) /\ policy' = policy
        /\ log' = Append(log, [by |-> p, kind |-> kind])
        /\ history' = IF IsReplayed(kind) THEN Append(Trimmed(kind), n) ELSE history
    BY <1>0 DEF TypeOK, EventSeqs, Publish
  <1>2. /\ n \notin Published /\ Published' = Published \cup {n}
        /\ log'[n] = [by |-> p, kind |-> kind]
        /\ \A m \in Published : log'[m] = log[m]
        /\ Earlier \subseteq Earlier'
        /\ \A m \in Published : <<m, n>> \in Earlier'
    BY <1>0, <1>1, LogGrows
  <1>3. log'[n].kind = kind
    BY <1>2
  <1>4. /\ ToSet(history) \subseteq Published /\ InOrder(Earlier, history)
        /\ Cardinality(Ordinary(history)) <= MaxHistory
        /\ Cardinality(Terminal(history)) <= MaxTerminal
        /\ \A m \in Published : \/ m \in ToSet(history) \/ ~IsReplayed(log[m].kind)
                                \/ policy = "drop-oldest" /\ ~IsTerminal(log[m].kind)
    BY DEF HistoryOK
  <1>5. /\ IsFiniteSet(Ordinary(history)) /\ IsFiniteSet(Terminal(history))
        /\ Cardinality(Ordinary(history)) \in Nat /\ Cardinality(Terminal(history)) \in Nat
    BY <1>1, <1>4, Counted DEF EventSeqs
  <1>6. MaxHistory \in Nat /\ MaxTerminal \in Nat
    BY BroadcastAssumption
  <1>7. CASE ~IsReplayed(kind)
    <2>1. history' = history
      BY <1>1, <1>7
    <2>2. InOrder(Earlier', history)
      BY <1>2, <1>4 DEF InOrder
    <2>3. Ordinary(history)' = Ordinary(history) /\ Terminal(history)' = Terminal(history)
      BY <1>2, <1>4, <2>1 DEF Ordinary, Terminal
    <2>4. \A m \in Published' : \/ m \in ToSet(history) \/ ~IsReplayed(log'[m].kind)
                                \/ policy = "drop-oldest" /\ ~IsTerminal(log'[m].kind)
      BY <1>2, <1>3, <1>4, <1>7
    <2> QED  BY <1>1, <1>2, <1>4, <2>1, <2>2, <2>3, <2>4 DEF HistoryOK, EventSeqs
  <1>8. CASE IsReplayed(kind)
    <2> DEFINE h == Trimmed(kind)
               kept == {m \in ToSet(h) : ~IsTerminal(log[m].kind)}
    <2>1. /\ h \in Seq(Nat) /\ InOrder(Earlier, h) /\ ToSet(h) \subseteq ToSet(history)
          /\ \A m \in ToSet(history) : \/ m \in ToSet(h)
                                       \/ policy = "drop-oldest" /\ ~IsTerminal(log[m].kind)
          /\ ~IsTerminal(kind) =>
               IsFiniteSet(kept) /\ Cardinality(kept) < MaxHistory
      <3>1. CASE ~HistoryFull(kind)
        <4>1. h = history
          BY <3>1 DEF Trimmed
        <4>2. ~IsTerminal(kind) => Cardinality(Ordinary(history)) < MaxHistory
          <5>1. ~IsTerminal(kind) => ~(Cardinality(Ordinary(history)) >= MaxHistory)
            BY <1>8, <3>1 DEF HistoryFull
          <5> QED  BY <1>5, <1>6, <5>1, SMT
        <4>3. kept = Ordinary(history)
          BY <4>1 DEF Ordinary
        <4> HIDE DEF h, kept
        <4> QED  BY <1>1, <1>4, <1>5, <4>1, <4>2, <4>3
      <3>2. CASE HistoryFull(kind)
        <4>1. PICK i \in DOMAIN history : /\ history[i] \in Ordinary(history)
                                          /\ h = RemoveAt(history, i)
          BY <3>2, TrimmedOne
        <4>2. \A m : <<m, m>> \notin Earlier
          BY <1>1, Relations
        <4>3. /\ RemoveAt(history, i) \in Seq(Nat)
              /\ InOrder(Earlier, RemoveAt(history, i))
              /\ ToSet(RemoveAt(history, i)) = ToSet(history) \ {history[i]}
          BY <1>1, <1>4, <4>2, OrderRemove
        <4> HIDE DEF h
        <4>4. policy = "drop-oldest"
          <5>1. policy # "error"
            BY <1>1, <3>2 DEF Overflows
          <5> QED  BY <1>1, <5>1, BroadcastAssumption
        <4>5. ~IsTerminal(log[history[i]].kind)
          BY <4>1 DEF Ordinary
        <4>6. kept = Ordinary(history) \ {history[i]}
          BY <4>1, <4>3 DEF Ordinary
        <4>7. /\ IsFiniteSet(Ordinary(history) \ {history[i]})
              /\ Cardinality(Ordinary(history) \ {history[i]}) =
                   IF history[i] \in Ordinary(history) THEN Cardinality(Ordinary(history)) - 1
                                                       ELSE Cardinality(Ordinary(history))
          BY <1>5, FS_RemoveElement
        <4>8. Cardinality(Ordinary(history) \ {history[i]}) = Cardinality(Ordinary(history)) - 1
          BY <4>1, <4>7
        <4>9. Cardinality(Ordinary(history) \ {history[i]}) < MaxHistory
          BY <1>4, <1>5, <1>6, <4>8, SMT
        <4> HIDE DEF kept
        <4>10. h \in Seq(Nat) /\ InOrder(Earlier, h) /\ ToSet(h) = ToSet(history) \ {history[i]}
          BY <4>1, <4>3
        <4>11. \A m \in ToSet(history) : m \in ToSet(h) \/ ~IsTerminal(log[m].kind)
          BY <4>5, <4>10
        <4>12. IsFiniteSet(kept) /\ Cardinality(kept) < MaxHistory
          BY <4>6, <4>7, <4>9
        <4> QED  BY <4>4, <4>10, <4>11, <4>12
      <3> QED  BY <3>1, <3>2
    <2> HIDE DEF h, kept
    <2>2. history' = Append(h, n)
      BY <1>1, <1>8 DEF h
    <2>3. history' \in Seq(Nat) /\ ToSet(history') = ToSet(h) \cup {n}
      BY <2>1, <2>2, ElementsAppend
    <2>4. InOrder(Earlier', history')
      <3>1. InOrder(Earlier', h) /\ Across(Earlier', ToSet(h), {n})
        BY <1>2, <1>4, <2>1 DEF InOrder, Across
      <3> QED  BY <2>1, <2>2, <3>1, OrderAppend
    <2>5. ToSet(history') \subseteq Published'
      BY <1>2, <1>4, <2>1, <2>3
    <2>6. \A m \in Published' : \/ m \in ToSet(history') \/ ~IsReplayed(log'[m].kind)
                                \/ policy = "drop-oldest" /\ ~IsTerminal(log'[m].kind)
      BY <1>2, <1>4, <2>1, <2>3
    <2>7. Cardinality(Ordinary(history)') <= MaxHistory
      <3>1. CASE IsTerminal(kind)
        <4>1. Ordinary(history)' \in SUBSET Ordinary(history)
          BY <1>2, <1>3, <1>4, <2>1, <2>3, <3>1 DEF Ordinary
        <4> QED  BY <1>4, <1>5, <1>6, <4>1, CountKept
      <3>2. CASE ~IsTerminal(kind)
        <4>1. Ordinary(history)' \in SUBSET (kept \cup {n})
          BY <1>2, <1>4, <2>1, <2>3 DEF Ordinary, kept
        <4> QED  BY <1>6, <2>1, <3>2, <4>1, CountMore
      <3> QED  BY <3>1, <3>2
    <2>8. Cardinality(Terminal(history)') <= MaxTerminal
      <3>1. CASE ~IsTerminal(kind)
        <4>1. Terminal(history)' \in SUBSET Terminal(history)
          BY <1>2, <1>3, <1>4, <2>1, <2>3, <3>1 DEF Terminal
        <4> QED  BY <1>4, <1>5, <1>6, <4>1, CountKept
      <3>2. CASE IsTerminal(kind)
        <4>1. Terminal(history)' \in SUBSET (Terminal(history) \cup {n})
          BY <1>2, <1>4, <2>1, <2>3 DEF Terminal
        <4>2. ~(Cardinality(Terminal(history)) >= MaxTerminal)
          BY <1>1, <3>2 DEF Overflows
        <4>3. Cardinality(Terminal(history)) < MaxTerminal
          BY <1>5, <1>6, <4>2, SMT
        <4> QED  BY <1>5, <1>6, <4>1, <4>3, CountMore
      <3> QED  BY <3>1, <3>2
    <2> QED  BY <1>1, <2>3, <2>4, <2>5, <2>6, <2>7, <2>8 DEF HistoryOK, EventSeqs
  <1> QED  BY <1>7, <1>8

----------------------------------------------------------------------------
(* The invariant holds *)

\* What WakeInv does not type.
DataTypeOK == /\ policy \in Policies
              /\ history \in EventSeqs
              /\ todo \in [Subscribers -> EventSeqs]
              /\ start \in [Subscribers -> Nat]
              /\ got \in [Subscribers -> EventSeqs]
              /\ refused \in SUBSET Nat

\* A generator's step keeps the lists of the reader lists of numbers.
LEMMA AdvanceTyped ==
  ASSUME TypeOK, NEW s \in Subscribers, NEW rest \in EventSeqs, Advance(s, rest),
         start' \in [Subscribers -> Nat]
  PROVE  DataTypeOK'
  <1>1. /\ UNCHANGED <<policy, history, refused>>
        /\ got \in [Subscribers -> EventSeqs] /\ todo \in [Subscribers -> EventSeqs]
    BY DEF Advance, busVars, TypeOK
  <1>2. got[s] \in Seq(Nat) /\ queue[s] \in Seq(Nat) /\ rest \in Seq(Nat) /\ <<>> \in EventSeqs
    BY EmptySeq DEF TypeOK, FlowTypeOK, EventSeqs
  <1>3. CASE Replay(s, rest)
    <2>1. PICK i \in DOMAIN rest :
            /\ got' = [got EXCEPT ![s] = Append(@, rest[i])]
            /\ todo' = [todo EXCEPT ![s] = SubSeq(rest, i + 1, Len(rest))]
      BY <1>3 DEF Replay, Yield
    <2>2. rest[i] \in Nat
      BY <1>2, ElementOfSeq, LenProperties
    <2>3. Append(got[s], rest[i]) \in EventSeqs
      BY <1>2, <2>2, AppendProperties DEF EventSeqs
    <2>4. SubSeq(rest, i + 1, Len(rest)) \in EventSeqs
      BY <1>2, ElementsAfter DEF EventSeqs
    <2>5. got' \in [Subscribers -> EventSeqs] /\ todo' \in [Subscribers -> EventSeqs]
      BY <1>1, <2>1, <2>3, <2>4
    <2> QED  BY <1>1, <2>5 DEF TypeOK, DataTypeOK
  <1>4. CASE /\ todo' = [todo EXCEPT ![s] = <<>>]
             /\ \/ queue[s] # <<>> /\ got' = [got EXCEPT ![s] = Append(@, Head(queue[s]))]
                \/ UNCHANGED got
    <2>1. queue[s] # <<>> => Head(queue[s]) \in Nat
      BY <1>2, ElementsTail
    <2>2. queue[s] # <<>> => Append(got[s], Head(queue[s])) \in EventSeqs
      BY <1>2, <2>1, AppendProperties DEF EventSeqs
    <2>3. got' \in [Subscribers -> EventSeqs]
      BY <1>1, <1>4, <2>2
    <2>4. todo' \in [Subscribers -> EventSeqs]
      BY <1>1, <1>2, <1>4
    <2> QED  BY <1>1, <2>3, <2>4 DEF TypeOK, DataTypeOK
  <1> QED  BY <1>3, <1>4 DEF Advance, Take, End, Park, Yield

\* The types of what is stored.
LEMMA DataTyped == StreamInv /\ [Next]_vars => DataTypeOK'
  <1> SUFFICES ASSUME StreamInv, [Next]_vars PROVE DataTypeOK'
    OBVIOUS
  <1>1. TypeOK /\ FlowTypeOK /\ HistoryOK
    BY DEF StreamInv, TypeOK
  <1>2. ASSUME NEW p \in Publishers, NEW kind \in Publishes[p],
               Publish(p, kind) \/ Overflow(p, kind)
        PROVE  DataTypeOK'
    <2>1. kind \in Kinds
      BY <1>2, BroadcastAssumption
    <2>2. CASE Publish(p, kind)
      BY <1>1, <2>1, <2>2, HistoryKept DEF Publish, TypeOK, DataTypeOK
    <2>3. CASE Overflow(p, kind)
      BY <1>1, <2>3 DEF Overflow, Fail, Shut, TypeOK, DataTypeOK
    <2> QED  BY <1>2, <2>2, <2>3
  <1>3. CASE Close \/ Fail
    BY <1>1, <1>3 DEF Close, Fail, Shut, TypeOK, DataTypeOK
  <1>4. ASSUME NEW s \in Subscribers,
               Resume(s) \/ Start(s) \/ NextEvent(s) \/ Wake(s) \/ Return(s)
        PROVE  DataTypeOK'
    <2>1. CASE Resume(s)
      <3>1. resumed[s] \in Seq(Nat) /\ resumed[s] # <<>>
        BY <1>1, <2>1 DEF FlowTypeOK, EventSeqs, Resume
      <3>2. Head(resumed[s]) \in Nat
        BY <3>1, ElementsTail
      <3>3. refused' \in SUBSET Nat
        BY <1>1, <2>1, <3>2 DEF Resume, TypeOK
      <3> QED  BY <1>1, <2>1, <3>3 DEF Resume, busVars, TypeOK, DataTypeOK
    <2>2. CASE Start(s)
      <3>1. start' \in [Subscribers -> Nat]
        BY <1>1, <2>2, NextNumber DEF Start, TypeOK
      <3> QED  BY <1>1, <2>2, <3>1, AdvanceTyped DEF Start, TypeOK
    <2>3. CASE NextEvent(s) \/ Wake(s)
      <3>1. todo[s] \in EventSeqs /\ start' \in [Subscribers -> Nat] /\ Advance(s, todo[s])
        BY <1>1, <2>3 DEF NextEvent, Wake, TypeOK
      <3> QED  BY <1>1, <3>1, AdvanceTyped
    <2>4. CASE Return(s)
      <3>1. <<>> \in EventSeqs
        BY EmptySeq DEF EventSeqs
      <3>2. todo' \in [Subscribers -> EventSeqs]
        BY <1>1, <2>4, <3>1 DEF Return, TypeOK
      <3> QED  BY <1>1, <2>4, <3>2 DEF Return, busVars, TypeOK, DataTypeOK
    <2> QED  BY <1>4, <2>1, <2>2, <2>3, <2>4
  <1>5. CASE UNCHANGED vars
    BY <1>1, <1>5 DEF vars, busVars, readerVars, TypeOK, DataTypeOK
  <1> QED  BY <1>2, <1>3, <1>4, <1>5 DEF Next

\* A step of one subscriber.
LEMMA ReaderStep ==
  ASSUME StreamInv, NEW s \in Subscribers,
         Resume(s) \/ Start(s) \/ NextEvent(s) \/ Wake(s) \/ Return(s)
  PROVE  HistoryOK' /\ \A t \in Subscribers : ReaderOK(t)'
  <1>1. /\ TypeOK /\ FlowTypeOK /\ HistoryOK /\ NoLostWakeup
        /\ \A t \in Subscribers : ReaderOK(t)
    BY DEF StreamInv, TypeOK
  <1>2. UNCHANGED busVars /\ refused \subseteq refused'
    BY DEF Resume, Start, NextEvent, Wake, Return, Advance
  <1>3. HistoryOK'
    BY <1>1, <1>2, BusKept
  <1>4. ReaderOK(s)'
    <2>1. CASE Resume(s)
      <3>1. Blocked(s) => Active(s)
        BY DEF Blocked
      <3>2. ~Blocked(s) /\ Active(s) => HasSpace(s)
        BY DEF Blocked
      <3> QED  BY <1>1, <2>1, <3>1, <3>2, ResumedOK DEF Resume
    <2>2. CASE Start(s)
      <3>1. Facing(s, history) /\ history \in EventSeqs /\ Advance(s, history)
        BY <1>1, <2>2, FacingStart DEF Start, TypeOK
      <3> QED  BY <1>1, <3>1, ReaderAdvances
    <2>3. CASE NextEvent(s) \/ Wake(s)
      <3>1. /\ Active(s) /\ resumed[s] = <<>> /\ Advance(s, todo[s])
            /\ UNCHANGED <<busVars, refused, start>> /\ todo[s] \in EventSeqs
        BY <1>1, <2>3 DEF NextEvent, Wake, Advance, Active, TypeOK
      <3>2. Facing(s, todo[s])
        BY <1>1, <3>1, FacingNext
      <3> QED  BY <1>1, <3>1, <3>2, ReaderAdvances
    <2>4. CASE Return(s)
      BY <2>4, ReaderReturns
    <2> QED  BY <2>1, <2>2, <2>3, <2>4
  <1>5. ASSUME NEW t \in Subscribers, t # s
        PROVE  ReaderOK(t)'
    <2>1. UNCHANGED <<got[t], todo[t], start[t]>>
      BY <1>1, <1>5 DEF Resume, Start, NextEvent, Wake, Return, Advance, Replay, Take, End,
           Park, Yield, TypeOK
    <2>2. UNCHANGED <<queue[t], waiters[t], resumed[t], pc[t]>>
      BY <1>1, <1>5 DEF Resume, Start, NextEvent, Wake, Return, Advance, Replay, Take, End,
           Park, Yield, Finally, ReleaseSpace, flowVars, FlowTypeOK, Woken
    <2> QED  BY <1>1, <1>2, <2>1, <2>2, OtherReader
  <1> QED  BY <1>3, <1>4, <1>5

\* Nothing has been published.
LEMMA StreamInit == Init => StreamInv
  <1> SUFFICES ASSUME Init PROVE StreamInv
    OBVIOUS
  <1>1. FlowTypeOK /\ NoLostWakeup
    BY WakeInit DEF WakeInv
  <1>2. <<>> \in EventSeqs
    BY EmptySeq DEF EventSeqs
  <1>3. TypeOK
    BY <1>1, <1>2 DEF Init, TypeOK
  <1>4. /\ ToSet(<<>>) = {} /\ Cardinality({}) = 0 /\ log = <<>> /\ history = <<>>
        /\ MaxHistory \in Nat /\ MaxTerminal \in Nat /\ MaxQueue \in Nat
    BY ElementsNone, FS_EmptySet, BroadcastAssumption DEF Init
  <1>5. Published = {}
    BY <1>4, SMT DEF Published
  <1>6. Ordinary(history) = {} /\ Terminal(history) = {}
    BY <1>4 DEF Ordinary, Terminal
  <1>7. HistoryOK
    <2>1. InOrder(Earlier, history)
      BY <1>4, OrderNone
    <2>2. Cardinality(Ordinary(history)) = 0 /\ Cardinality(Terminal(history)) = 0
      BY <1>4, <1>6
    <2>3. Cardinality(Ordinary(history)) <= MaxHistory /\ Cardinality(Terminal(history)) <= MaxTerminal
      BY <1>4, <2>2, SMT
    <2>4. ToSet(history) = {}
      BY <1>4
    <2> QED  BY <1>5, <2>1, <2>3, <2>4 DEF HistoryOK
  <1>8. ASSUME NEW s \in Subscribers PROVE ReaderOK(s)
    <2>1. /\ got[s] = <<>> /\ todo[s] = <<>> /\ queue[s] = <<>>
          /\ waiters[s] = <<>> /\ resumed[s] = <<>> /\ pc[s] = "new"
      BY DEF Init
    <2>2. InLane(Earlier, Foreign, got[s], todo[s], queue[s], waiters[s], resumed[s])
      BY <2>1, OrderNone, LaneStarted
    <2>3. Given(s) \cup Pending(s) \subseteq Published /\ Ordinary(queue[s]) = {}
      BY <1>4, <2>1 DEF Given, Pending, Ordinary
    <2>4. Unstarted(s) /\ NothingLost(s)
      BY <2>1 DEF Unstarted, NothingLost, Active
    <2>5. Cardinality(Ordinary(queue[s])) <= MaxQueue
      BY <1>4, <2>3
    <2> QED  BY <2>2, <2>3, <2>4, <2>5 DEF ReaderOK
  <1> QED  BY <1>1, <1>3, <1>7, <1>8 DEF StreamInv

\* close() and fail() leave the history alone.
LEMMA ShutHistory ==
  ASSUME StreamInv, NEW how, Shut(how)
  PROVE  HistoryOK'
  <1>1. UNCHANGED <<policy, log, history>>
    BY DEF Shut
  <1>2. Published' = Published /\ Earlier' = Earlier
        /\ Ordinary(history)' = Ordinary(history) /\ Terminal(history)' = Terminal(history)
    BY <1>1 DEF Published, Earlier, Ordinary, Terminal
  <1> QED  BY <1>1, <1>2 DEF StreamInv, HistoryOK

\* Every step of the specification keeps the invariant.
LEMMA StreamStep == StreamInv /\ [Next]_vars => StreamInv'
  <1> SUFFICES ASSUME StreamInv, [Next]_vars PROVE StreamInv'
    OBVIOUS
  <1>1. TypeOK' /\ NoLostWakeup'
    <2>1. WakeInv
      BY DEF StreamInv, TypeOK, WakeInv
    <2>2. FlowTypeOK' /\ NoLostWakeup'
      BY <2>1, WakeStep DEF WakeInv
    <2> QED  BY <2>2, DataTyped DEF TypeOK, DataTypeOK
  <1>2. ASSUME NEW p \in Publishers, NEW kind \in Publishes[p],
               Publish(p, kind) \/ Overflow(p, kind)
        PROVE  HistoryOK' /\ \A s \in Subscribers : ReaderOK(s)'
    <2>1. kind \in Kinds
      BY <1>2, BroadcastAssumption
    <2>2. CASE Publish(p, kind)
      BY <2>1, <2>2, HistoryKept, PublishedOK DEF StreamInv
    <2>3. CASE Overflow(p, kind)
      BY <2>3, ShutHistory, ShutOK DEF Overflow, Fail
    <2> QED  BY <1>2, <2>2, <2>3
  <1>3. ASSUME Close \/ Fail PROVE HistoryOK' /\ \A s \in Subscribers : ReaderOK(s)'
    BY <1>3, ShutHistory, ShutOK DEF Close, Fail
  <1>4. CASE \E s \in Subscribers :
               Resume(s) \/ Start(s) \/ NextEvent(s) \/ Wake(s) \/ Return(s)
    BY <1>1, <1>4, ReaderStep DEF StreamInv
  <1>5. CASE UNCHANGED vars
    <2>1. UNCHANGED <<busVars, got, todo, start, queue, waiters, resumed, pc, refused>>
      BY <1>5 DEF vars, flowVars, readerVars
    <2>2. HistoryOK'
      BY <2>1, BusKept DEF StreamInv
    <2>3. \A s \in Subscribers : ReaderOK(s)'
      BY <2>1, OtherReader DEF StreamInv
    <2> QED  BY <1>1, <2>2, <2>3 DEF StreamInv
  <1> QED  BY <1>1, <1>2, <1>3, <1>4, <1>5 DEF Next, StreamInv

\* Every variable of the stream keeps its type.
THEOREM TypeCorrect == Spec => []TypeOK
  <1>1. StreamInv => TypeOK
    BY DEF StreamInv
  <1> QED  BY StreamInit, StreamStep, <1>1, PTL DEF Spec

\* A subscriber is given the events of one publisher in the order they were
\* published in and none of them twice (publish, stream): whatever is replayed,
\* held back or released, and however many publishers there are.
THEOREM OrderKept == Spec => []PublisherOrder
  <1>1. StreamInv => PublisherOrder
    <2> SUFFICES ASSUME StreamInv, NEW s \in Subscribers,
                        NEW i \in DOMAIN got[s], NEW j \in DOMAIN got[s],
                        i < j, log[got[s][i]].by = log[got[s][j]].by
                 PROVE  got[s][i] < got[s][j]
      BY DEF PublisherOrder
    <2>1. <<got[s][i], got[s][j]>> \in Earlier
      BY DEF StreamInv, ReaderOK, InLane, InOrder
    <2> QED  BY <2>1 DEF Earlier
  <1> QED  BY StreamInit, StreamStep, <1>1, PTL DEF Spec

\* A subscriber that read to the end of a closed stream was given every event
\* whose publish() succeeded, but what its filter refuses and what had left the
\* history before it started.
THEOREM NothingMissed == Spec => []EndedHasAll
  <1>1. StreamInv => EndedHasAll
    BY DEF StreamInv, ReaderOK, NothingLost, EndedHasAll, Published, Given
  <1> QED  BY StreamInit, StreamStep, <1>1, PTL DEF Spec

\* Neither the history nor a private queue outgrows its limit by more than the
\* terminal events (maxHistory, maxSubscriberQueue, maxTerminalHistory).
THEOREM NeverOutgrown == Spec => []Bounded
  <1>1. StreamInv => Bounded
    <2> SUFFICES ASSUME StreamInv PROVE Bounded
      OBVIOUS
    <2>1. /\ FlowTypeOK /\ HistoryOK /\ history \in EventSeqs
          /\ MaxHistory \in Nat /\ MaxTerminal \in Nat /\ MaxQueue \in Nat
      BY BroadcastAssumption DEF StreamInv, TypeOK
    <2>2. /\ IsFiniteSet(Terminal(history))
          /\ Cardinality(Ordinary(history)) \in Nat /\ Cardinality(Terminal(history)) \in Nat
          /\ Len(history) = Cardinality(Ordinary(history)) + Cardinality(Terminal(history))
          /\ Len(history) \in Nat
      BY <2>1, Counted DEF HistoryOK
    <2>3. /\ Cardinality(Ordinary(history)) <= MaxHistory
          /\ Cardinality(Terminal(history)) <= MaxTerminal
      BY <2>1 DEF HistoryOK
    <2>4. Len(history) <= MaxHistory + MaxTerminal
      BY <2>1, <2>2, <2>3, SMT
    <2>5. ASSUME NEW s \in Subscribers
          PROVE  /\ Cardinality(Ordinary(queue[s])) <= MaxQueue
                 /\ Len(queue[s]) <= MaxQueue + MaxTerminal
      <3>1. /\ ReaderOK(s) /\ queue[s] \in EventSeqs /\ InOrder(Earlier, queue[s])
            /\ Cardinality(Ordinary(queue[s])) <= MaxQueue
        BY <2>1 DEF StreamInv, ReaderOK, InLane, FlowTypeOK
      <3>2. /\ Cardinality(Ordinary(queue[s])) \in Nat /\ Cardinality(Terminal(queue[s])) \in Nat
            /\ Len(queue[s]) = Cardinality(Ordinary(queue[s])) + Cardinality(Terminal(queue[s]))
            /\ Len(queue[s]) \in Nat
        BY <2>1, <3>1, Counted
      <3>3. Terminal(queue[s]) \in SUBSET Terminal(history)
        BY <2>1, <3>1 DEF Terminal, HistoryOK, ReaderOK, Pending, IsTerminal, IsReplayed
      <3>4. Cardinality(Terminal(queue[s])) <= MaxTerminal
        BY <2>1, <2>2, <2>3, <3>3, CountKept
      <3>5. Len(queue[s]) <= MaxQueue + MaxTerminal
        BY <2>1, <3>1, <3>2, <3>4, SMT
      <3> QED  BY <3>1, <3>5
    <2> QED  BY <2>4, <2>5 DEF Bounded
  <1> QED  BY StreamInit, StreamStep, <1>1, PTL DEF Spec
====
