---- MODULE BoundedBroadcast ----
(***************************************************************************)
(* BoundedReplayBroadcast: the bounded multicast stream behind every text, *)
(* object, agent and realtime event stream.  Publishers append to a replay *)
(* history and to the private queue of every active subscriber, and are    *)
(* held back by the full ones; a subscriber replays the history and then   *)
(* follows its queue.                                                      *)
(*                                                                         *)
(* The program is one JavaScript thread.  An action is what runs without   *)
(* an await: the synchronous part of publish(), the continuation of one    *)
(* publish() held back for one subscriber, a subscriber's generator from   *)
(* one yield to the next.  Continuations of one subscriber resume in the   *)
(* order they were released in, as jobs of the microtask queue do; other   *)
(* code may run between them.  An event is named by its sequence number.   *)
(***************************************************************************)
EXTENDS Naturals, Sequences, FiniteSets, SequencesExt

\* The kinds of event the streams of the SDK tell apart: replayed ones, the
\* partial previews that are not, and the terminal ones, which all are.
Kinds == {"delta", "preview", "finish"}
IsTerminal(kind) == kind = "finish"
IsReplayed(kind) == kind # "preview"

CONSTANTS Publishers,   \* callers of publish, each awaiting its last call
          Subscribers,  \* iterators of stream()
          Publishes,    \* publisher -> the kinds of event it publishes
          Accepts,      \* subscriber -> the kinds of event its filter accepts
          Policies,     \* the replayOverflow policies of the instance
          MaxHistory, MaxQueue, MaxTerminal,
          MaxEvents     \* bound of the model: events published

ASSUME BroadcastAssumption ==
  /\ MaxHistory \in Nat \ {0} /\ MaxQueue \in Nat \ {0}
  /\ MaxTerminal \in Nat \ {0} /\ MaxEvents \in Nat
  /\ Publishes \in [Publishers -> SUBSET Kinds]
  /\ Accepts \in [Subscribers -> SUBSET Kinds]
  /\ Policies \subseteq {"error", "drop-oldest"}

VARIABLES policy,   \* replayOverflow, fixed at construction
          state,    \* closed and failure
          log,      \* every event published so far, by sequence number
          history,  \* the events retained for replay
          queue,    \* subscriber -> its private queue
          waiters,  \* subscriber -> the events held back for it
          resumed,  \* subscriber -> those whose publish() was woken
          pc,       \* subscriber -> where its generator stands
          todo,     \* subscriber -> what is left of its copy of the history
          start,    \* history: subscriber -> its first live event
          got,      \* history: subscriber -> the events it was given
          refused   \* history: the events whose publish() was rejected

busVars == <<policy, state, log, history>>
flowVars == <<queue, waiters, resumed>>
readerVars == <<pc, todo, start, got>>
vars == <<busVars, flowVars, readerVars, refused>>

Events == [by : Publishers, kind : Kinds]
EventSeqs == Seq(Nat)

\* new: the generator has not run yet; reading: suspended at a yield; parked:
\* waiting to be woken; ended, threw, left: past its finally block.
PCs == {"new", "reading", "parked", "woken", "ended", "threw", "left"}

FlowTypeOK == /\ state \in {"open", "closed", "failed"}
              /\ log \in Seq(Events)
              /\ queue \in [Subscribers -> EventSeqs]
              /\ waiters \in [Subscribers -> EventSeqs]
              /\ resumed \in [Subscribers -> EventSeqs]
              /\ pc \in [Subscribers -> PCs]

TypeOK == /\ FlowTypeOK
          /\ policy \in Policies
          /\ history \in EventSeqs
          /\ todo \in [Subscribers -> EventSeqs]
          /\ start \in [Subscribers -> Nat]
          /\ got \in [Subscribers -> EventSeqs]
          /\ refused \in SUBSET Nat

Init == /\ policy \in Policies
        /\ state = "open"
        /\ log = <<>> /\ history = <<>>
        /\ queue = [s \in Subscribers |-> <<>>]
        /\ waiters = [s \in Subscribers |-> <<>>]
        /\ resumed = [s \in Subscribers |-> <<>>]
        /\ pc = [s \in Subscribers |-> "new"]
        /\ todo = [s \in Subscribers |-> <<>>]
        /\ start = [s \in Subscribers |-> 0]
        /\ got = [s \in Subscribers |-> <<>>]
        /\ refused = {}

\* this.subscribers.  A generator that starts on a closed stream is not added,
\* which nothing can tell: nothing is published to it any more.
Active(s) == pc[s] \in {"reading", "parked", "woken"}

HasSpace(s) == Len(queue[s]) < MaxQueue

\* Mutant: publish does not await the held-back deliveries.
NeverPublishing(p) == FALSE

\* An earlier call of p has not returned.
Publishing(p) == \E s \in Subscribers : \E n \in ToSet(waiters[s] \o resumed[s]) :
                   log[n].by = p

----------------------------------------------------------------------------
(* publish *)

\* The events of a list that are counted against its limit, and beyond it.
Ordinary(list) == {n \in ToSet(list) : ~IsTerminal(log[n].kind)}
Terminal(list) == {n \in ToSet(list) : IsTerminal(log[n].kind)}

HistoryFull(kind) ==
  /\ IsReplayed(kind) /\ ~IsTerminal(kind)
  /\ Cardinality(Ordinary(history)) >= MaxHistory

\* replayOverflow "error", or one terminal event too many.
Overflows(kind) ==
  \/ policy = "error" /\ HistoryFull(kind)
  \/ IsTerminal(kind) /\ Cardinality(Terminal(history)) >= MaxTerminal

\* Mutant: the oldest event makes room, a terminal one as well.
TrimmedAny(kind) ==
  IF HistoryFull(kind) THEN Tail(history) ELSE history

\* "drop-oldest": the oldest ordinary event makes room.
Trimmed(kind) ==
  IF HistoryFull(kind)
  THEN RemoveFirstMatch(history, LAMBDA n : ~IsTerminal(log[n].kind))
  ELSE history

\* subscriber.wake for the parked ones of S.
Woken(S) == [s \in Subscribers |->
               IF s \in S /\ pc[s] = "parked" THEN "woken" ELSE pc[s]]

Publish(p, kind) ==
  LET n == Len(log) + 1
      reached == {s \in Subscribers : Active(s) /\ kind \in Accepts[s]}
      direct == {s \in reached : IsTerminal(kind) \/ HasSpace(s)}
  IN /\ state = "open" /\ n <= MaxEvents
     /\ ~Publishing(p)
     /\ ~Overflows(kind)
     /\ log' = Append(log, [by |-> p, kind |-> kind])
     /\ history' = IF IsReplayed(kind) THEN Append(Trimmed(kind), n) ELSE history
     /\ queue' = [s \in Subscribers |-> IF s \in direct THEN Append(queue[s], n)
                                                        ELSE queue[s]]
     /\ waiters' = [s \in Subscribers |-> IF s \in reached \ direct
                                          THEN Append(waiters[s], n)
                                          ELSE waiters[s]]
     /\ pc' = Woken(direct)
     /\ UNCHANGED <<policy, state, resumed, todo, start, got, refused>>

\* Mutant: the queue is not looked at again after waiting.
NeverBlocked(s) == FALSE

\* The continuation of the publish() of event n for subscriber s: it waits
\* again while the queue is full, gives up when the subscriber has gone or the
\* stream is closed, and delivers otherwise.
Blocked(s) == Active(s) /\ ~HasSpace(s)

Resume(s) ==
  LET n == Head(resumed[s])
  IN /\ resumed[s] # <<>>
     /\ resumed' = [resumed EXCEPT ![s] = Tail(@)]
     /\ \/ /\ Blocked(s)
           /\ waiters' = [waiters EXCEPT ![s] = Append(@, n)]
           /\ UNCHANGED <<queue, pc, refused>>
        \/ /\ ~Blocked(s) /\ Active(s) /\ state = "open"
           /\ queue' = [queue EXCEPT ![s] = Append(@, n)]
           /\ pc' = Woken({s})
           /\ UNCHANGED <<waiters, refused>>
        \/ /\ ~Blocked(s) /\ Active(s) /\ state # "open"
           /\ refused' = refused \cup {n}
           /\ UNCHANGED <<queue, waiters, pc>>
        \/ ~Active(s) /\ UNCHANGED <<queue, waiters, pc, refused>>
     /\ UNCHANGED <<busVars, todo, start, got>>

----------------------------------------------------------------------------
(* close and fail *)

\* releaseAll wakes every reader and every held-back publish().
ReleaseAll == /\ pc' = Woken(Subscribers)
              /\ resumed' = [s \in Subscribers |-> resumed[s] \o waiters[s]]
              /\ waiters' = [s \in Subscribers |-> <<>>]

Shut(how) == /\ state = "open"
             /\ state' = how
             /\ ReleaseAll
             /\ UNCHANGED <<policy, log, history, queue, todo, start, got, refused>>

Close == Shut("closed")

\* fail: by the owner of the stream, or by a publish() that overflows.
Fail == Shut("failed")

Overflow(p, kind) == /\ ~Publishing(p)
                     /\ Overflows(kind)
                     /\ Fail

----------------------------------------------------------------------------
(* stream *)

\* The first event of a replayed list that the filter accepts.
Wanted(s, n) == log[n].kind \in Accepts[s]
FirstWanted(s, list, i) == /\ Wanted(s, list[i])
                           /\ \A j \in 1..(i - 1) : ~Wanted(s, list[j])
NoneWanted(s, list) == \A i \in DOMAIN list : ~Wanted(s, list[i])

Yield(s, n) == /\ got' = [got EXCEPT ![s] = Append(@, n)]
               /\ pc' = [pc EXCEPT ![s] = "reading"]

\* Mutant: one place is free, one held-back publish() is woken.
ReleaseOne(s) ==
  LET woken == IF waiters[s] = <<>> THEN <<>> ELSE <<Head(waiters[s])>>
  IN /\ resumed' = [resumed EXCEPT ![s] = @ \o woken]
     /\ waiters' = [waiters EXCEPT ![s] = IF @ = <<>> THEN @ ELSE Tail(@)]

\* releaseSpace
ReleaseSpace(s) ==
  /\ resumed' = [resumed EXCEPT ![s] = @ \o waiters[s]]
  /\ waiters' = [waiters EXCEPT ![s] = <<>>]

\* Mutant: a reader that goes away does not release its space.
FinallyHolding(s, how) == /\ pc' = [pc EXCEPT ![s] = how]
                          /\ queue' = [queue EXCEPT ![s] = <<>>]
                          /\ UNCHANGED <<waiters, resumed>>

\* The finally block.
Finally(s, how) == /\ pc' = [pc EXCEPT ![s] = how]
                   /\ queue' = [queue EXCEPT ![s] = <<>>]
                   /\ ReleaseSpace(s)

\* The generator in its replay loop, with the events rest of its copy to go.
Replay(s, rest) ==
  \E i \in DOMAIN rest :
    /\ FirstWanted(s, rest, i)
    /\ Yield(s, rest[i])
    /\ todo' = [todo EXCEPT ![s] = SubSeq(rest, i + 1, Len(rest))]
    /\ UNCHANGED flowVars

\* And past it: it takes the next event of its queue, ends with the stream, or
\* waits to be woken.
Take(s) == /\ queue[s] # <<>>
           /\ Yield(s, Head(queue[s]))
           /\ queue' = [queue EXCEPT ![s] = Tail(@)]
           /\ ReleaseSpace(s)

End(s) == /\ queue[s] = <<>> /\ state # "open"
          /\ Finally(s, IF state = "failed" THEN "threw" ELSE "ended")
          /\ UNCHANGED got

Park(s) == /\ queue[s] = <<>> /\ state = "open"
           /\ pc' = [pc EXCEPT ![s] = "parked"]
           /\ UNCHANGED <<flowVars, got>>

\* The generator from where it stands.  The continuations it released were
\* queued before it is asked for more.
Advance(s, rest) ==
  /\ resumed[s] = <<>>
  /\ \/ Replay(s, rest)
     \/ /\ NoneWanted(s, rest)
        /\ Take(s) \/ End(s) \/ Park(s)
        /\ todo' = [todo EXCEPT ![s] = <<>>]
  /\ UNCHANGED <<busVars, refused>>

\* The first next() copies the history and registers the subscriber.
Start(s) == /\ pc[s] = "new"
            /\ start' = [start EXCEPT ![s] = Len(log) + 1]
            /\ Advance(s, history)

NextEvent(s) == /\ pc[s] = "reading"
                /\ Advance(s, todo[s])
                /\ UNCHANGED start

Wake(s) == /\ pc[s] = "woken"
           /\ Advance(s, todo[s])
           /\ UNCHANGED start

\* return() on a generator that is not waiting in next().
Return(s) == /\ \/ /\ pc[s] = "new"
                   /\ pc' = [pc EXCEPT ![s] = "left"]
                   /\ UNCHANGED <<flowVars, todo>>
                \/ /\ pc[s] = "reading" /\ resumed[s] = <<>>
                   /\ Finally(s, "left")
                   /\ todo' = [todo EXCEPT ![s] = <<>>]
             /\ UNCHANGED <<busVars, start, got, refused>>

----------------------------------------------------------------------------

Next ==
  \/ \E p \in Publishers : \E kind \in Publishes[p] :
       Publish(p, kind) \/ Overflow(p, kind)
  \/ Close \/ Fail
  \/ \E s \in Subscribers :
       Resume(s) \/ Start(s) \/ NextEvent(s) \/ Wake(s) \/ Return(s)

\* The microtask queue runs dry: a woken continuation and a woken generator run.
\* Nothing makes a consumer ask for its next event.
Fairness == \A s \in Subscribers : WF_vars(Resume(s)) /\ WF_vars(Wake(s))

Spec == Init /\ [][Next]_vars /\ Fairness

----------------------------------------------------------------------------
(* Properties *)

\* A subscriber is given the events of one publisher in the order they were
\* published in, and none of them twice, replayed or live, held back or not.
PublisherOrder ==
  \A s \in Subscribers : \A i, j \in DOMAIN got[s] :
    i < j /\ log[got[s][i]].by = log[got[s][j]].by => got[s][i] < got[s][j]

\* What a reader to the end may have missed: what its filter refuses, events
\* whose publish() was rejected, and, from before it started, events that were
\* not for replay or that made room for later ones.
Missable(s, n) ==
  \/ ~Wanted(s, n)
  \/ n \in refused
  \/ n < start[s] /\ (~IsReplayed(log[n].kind) \/ (policy = "drop-oldest" /\ ~IsTerminal(log[n].kind)))

\* A subscriber that read to the end of a closed stream was given every event
\* whose publish() succeeded, each terminal event among them, however late it
\* started and whatever was held back for it when the stream was closed.
EndedHasAll ==
  \A s \in Subscribers : pc[s] = "ended" =>
    \A n \in DOMAIN log : Missable(s, n) \/ n \in ToSet(got[s])

\* Neither the history nor a private queue outgrows its limit by more than the
\* terminal events, though several publishers may wait for one free place.
Bounded ==
  /\ Len(history) <= MaxHistory + MaxTerminal
  /\ \A s \in Subscribers : /\ Cardinality(Ordinary(queue[s])) <= MaxQueue
                            /\ Len(queue[s]) <= MaxQueue + MaxTerminal

\* Nobody sleeps with work to do: a publisher is only held back by an active
\* subscriber with something to read, and a subscriber is only parked on an
\* open stream with nothing to read.
NoLostWakeup ==
  \A s \in Subscribers :
    /\ waiters[s] # <<>> => Active(s) /\ queue[s] # <<>>
    /\ pc[s] = "parked" => queue[s] = <<>> /\ state = "open"

\* If every consumer keeps asking for events, every publish() returns: the ones
\* that were held back as well, also when the stream is closed meanwhile.
PublishersProceed ==
  (\A s \in Subscribers : WF_vars(NextEvent(s)))
    => \A p \in Publishers : Publishing(p) ~> ~Publishing(p)
====
