---------------------------- MODULE AgentTreeProofs ----------------------------
(***************************************************************************)
(* The cancellation of a tree of runs, for any tree, any runs and any      *)
(* number of passes: no run slips past a mark stored above it before its   *)
(* check began, and the result of cancelAgentRunTree has every descendant  *)
(* that was stored when its last pass began.                               *)
(*                                                                         *)
(* The walk up: the marks a check has to find are at or above the run it   *)
(* looks up next, and are marks still, so that none is left when it ends   *)
(* at the root.  It never ends before the root, because a run is stored    *)
(* only below a stored run.                                                *)
(*                                                                         *)
(* The walk down: of every run a pass is through with, it has found the    *)
(* children that were stored when it began.  The runs it would have missed *)
(* in the end are a set with the parent of each of its own, and there is   *)
(* none without the root, which no pass misses.                            *)
(***************************************************************************)
EXTENDS AgentTree, TLAPS

----------------------------------------------------------------------------
(* The ancestors                                                           *)

\* Nothing is above the root.
LEMMA RootHasNone == Ancestors(Root) = {}
  <1>1. \A d \in ({} \cup {Root}) \ {Root} : Parent[d] \in {}
    OBVIOUS
  <1>2. {} \in SUBSET Runs
    OBVIOUS
  <1> QED  BY <1>1, <1>2 DEF Ancestors

\* What is above a run is its parent or above its parent.
LEMMA AncestorsUp ==
  ASSUME NEW r \in Runs, r # Root
  PROVE  Ancestors(r) \subseteq {Parent[r]} \cup Ancestors(Parent[r])
  <1> DEFINE p == Parent[r]
  <1>1. p \in Runs
    BY TreeAssumption
  <1> SUFFICES ASSUME NEW a \in Ancestors(r), a # p PROVE a \in Ancestors(p)
    OBVIOUS
  <1>2. a \in Runs
    BY DEF Ancestors
  <1>3. ASSUME NEW up \in SUBSET Runs, \A d \in (up \cup {p}) \ {Root} : Parent[d] \in up
        PROVE  a \in up
    <2> DEFINE more == up \cup {p}
    <2>1. more \in SUBSET Runs
      BY <1>1
    <2>2. \A d \in (more \cup {r}) \ {Root} : Parent[d] \in more
      BY <1>3
    <2>3. a \in more
      BY <2>1, <2>2 DEF Ancestors
    <2> QED  BY <2>3
  <1> QED  BY <1>2, <1>3 DEF Ancestors

\* The root is above a run when it is its parent or above its parent.
LEMMA RootAbove ==
  ASSUME NEW r \in Runs, r # Root, Parent[r] = Root \/ Root \in Ancestors(Parent[r])
  PROVE  Root \in Ancestors(r)
  <1>1. Root \in Runs
    BY TreeAssumption
  <1>2. ASSUME NEW up \in SUBSET Runs, \A d \in (up \cup {r}) \ {Root} : Parent[d] \in up
        PROVE  Root \in up
    <2>1. Parent[r] \in up
      BY <1>2
    <2>2. CASE Root \in Ancestors(Parent[r])
      <3>1. \A d \in (up \cup {Parent[r]}) \ {Root} : Parent[d] \in up
        BY <1>2, <2>1
      <3> QED  BY <2>2, <3>1 DEF Ancestors
    <2> QED  BY <2>1, <2>2
  <1> QED  BY <1>1, <1>2 DEF Ancestors

\* A set of runs below the root that has the parent of each of its own has none.
LEMMA NoneUngrounded ==
  ASSUME NEW S \in SUBSET (Runs \ {Root}),
         \A d \in S : Root \in Ancestors(d) /\ Parent[d] \in S
  PROVE  S = {}
  <1> SUFFICES ASSUME NEW d \in S PROVE FALSE
    OBVIOUS
  <1>1. \A e \in (S \cup {d}) \ {Root} : Parent[e] \in S
    OBVIOUS
  <1>2. S \in SUBSET Runs /\ Root \in Ancestors(d)
    OBVIOUS
  <1>3. Root \in S
    BY <1>1, <1>2 DEF Ancestors
  <1> QED  BY <1>3

----------------------------------------------------------------------------
(* The invariant                                                           *)

States == [status : Statuses, cascade : BOOLEAN]
Calls == [pc : {"idle", "load", "save", "scan", "done"}, mode : {"request", "final"},
          target : Runs, fresh : BOOLEAN, pass : 0..(Passes - 1),
          known : SUBSET Runs, left : SUBSET Runs, found : SUBSET Runs,
          discovered : BOOLEAN, children : SUBSET Runs]

\* The invocation works, or checks whether it may, after its claim was stored.
Driven(r) ==
  \/ pc[r] \in Working \cup {"finish"}
  \/ /\ pc[r] \in {"self", "ancestors", "cancelLoad", "cancelSave"}
     /\ why[r] \in {"confirm", "model", "step", "tool"}

\* Its run is running, or cancelled meanwhile: nobody else completes or fails it.
ClaimHolds(r) == Driven(r) => run[r].status = "running" \/ IsCancelled(run[r])

\* What is stored or begun is below the root, and below a run that is stored.
Grounded(r) ==
  Stored(r) \/ pc[r] # "none" => r = Root \/ (Root \in Ancestors(r) /\ Stored(Parent[r]))

\* The marks a check must find are marks still.
MarksKept(r) == \A a \in above[r] : Marked(a)

\* They are at or above the run the check looks up next.
WalksUp(r) ==
  pc[r] = "ancestors" => /\ at[r] \in Runs /\ Stored(at[r])
                         /\ above[r] \subseteq {at[r]} \cup Ancestors(at[r])

\* A check that let the invocation work has found them.
Checked(r) == pc[r] \in {"model", "tools"} => above[r] = {}

RunOK(r) == ClaimHolds(r) /\ Grounded(r) /\ MarksKept(r) /\ WalksUp(r) /\ Checked(r)

WalkInv == TypeOK /\ \A r \in Runs : RunOK(r)

\* The types by name.
LEMMA Types ==
  TypeOK <=> /\ run \in [Runs -> States]
             /\ pc \in [Runs -> PCs]
             /\ why \in [Runs -> Reasons]
             /\ at \in [Runs -> Runs \cup {NoRun}]
             /\ fresh \in [Runs -> BOOLEAN]
             /\ resumes \in 0..MaxResumes
             /\ c \in Calls
             /\ above \in [Runs -> SUBSET Runs]
             /\ due \subseteq Runs
  BY DEF TypeOK, States, Calls

\* A parent is a run.
LEMMA ParentIsRun == /\ Root \in Runs
                     /\ \A r \in Runs : r # Root => Parent[r] \in Runs
                     /\ \A r : \A d \in Children(r) : d \in Runs /\ d # Root /\ Parent[d] = r
  BY TreeAssumption DEF Children

----------------------------------------------------------------------------
(* Steps of others                                                         *)

\* No run that is stored is lost.
Kept == \A q \in Runs : Stored(q) => Stored(q)'

\* The marks a check must find are fewer, and marks still.
Fewer(q) == above'[q] \subseteq above[q] /\ MarksKept(q)'

\* The record of a run is left alone, or a stored one is cancelled.
Spared(q) == \/ run'[q] = run[q]
             \/ Stored(q) /\ IsCancelled(run[q])'

\* A run that is not moved stays as the invariant says.
LEMMA Frame ==
  ASSUME TypeOK, NEW q \in Runs, RunOK(q), Kept, Fewer(q), Spared(q),
         pc'[q] = pc[q], why'[q] = why[q], at'[q] = at[q]
  PROVE  RunOK(q)'
  <1>1. Driven(q)' <=> Driven(q)
    BY DEF Driven
  <1>2. ClaimHolds(q)'
    BY <1>1 DEF ClaimHolds, RunOK, Spared, IsCancelled
  <1>3. Stored(q)' => Stored(q)
    BY DEF Spared, Stored
  <1>4. Grounded(q)'
    BY <1>3, ParentIsRun DEF Grounded, RunOK, Kept
  <1>5. MarksKept(q)'
    BY DEF Fewer
  <1>6. WalksUp(q)'
    BY DEF WalksUp, RunOK, Kept, Fewer
  <1>7. Checked(q)'
    BY DEF Checked, RunOK, Fewer
  <1> QED  BY <1>2, <1>4, <1>5, <1>6, <1>7 DEF RunOK

\* A step that moves one run, and keeps the rest, keeps the invariant when it keeps it
\* for that run.
LEMMA Moved ==
  ASSUME WalkInv, TypeOK', NEW r \in Runs, RunOK(r)', Kept,
         \A q \in Runs : q # r => /\ Fewer(q) /\ Spared(q)
                                  /\ pc'[q] = pc[q] /\ why'[q] = why[q] /\ at'[q] = at[q]
  PROVE  WalkInv'
  BY Frame DEF WalkInv

\* A step that writes nothing keeps and spares every run.
LEMMA QuietEffect ==
  ASSUME WalkInv, UNCHANGED run
  PROVE  /\ Kept
         /\ \A q \in Runs : Spared(q) /\ (above'[q] = above[q] => Fewer(q))
  <1>1. \A a : Marked(a) => Marked(a)'
    BY DEF Marked, IsCancelled
  <1> QED  BY <1>1 DEF WalkInv, RunOK, MarksKept, Fewer, Kept, Spared, Stored

\* What a write leaves.
LEMMA WriteLeaves ==
  ASSUME WalkInv, NEW r \in Runs, NEW s \in States, s.status # "absent",
         run' = [run EXCEPT ![r] = s], above' = StillMarked(r, s)
  PROVE  /\ run' \in [Runs -> States] /\ run'[r] = s
         /\ above' \in [Runs -> SUBSET Runs]
         /\ Kept
         /\ \A q \in Runs : Fewer(q) /\ (q # r => Spared(q))
  <1>1. run \in [Runs -> States] /\ above \in [Runs -> SUBSET Runs]
    BY Types DEF WalkInv
  <1>2. \A q \in Runs : above'[q] = IF s.cascade /\ IsCancelled(s) THEN above[q]
                                    ELSE above[q] \ {r}
    BY DEF StillMarked
  <1>3. above' \in [Runs -> SUBSET Runs]
    BY <1>1 DEF StillMarked
  <1>4. run'[r] = s /\ \A q \in Runs : q # r => run'[q] = run[q]
    BY <1>1
  <1>5. Kept
    BY <1>4 DEF Stored, Kept
  <1>6. ASSUME NEW q \in Runs, NEW a \in above'[q]
        PROVE  a \in above[q] /\ Marked(a)'
    <2>1. a \in above[q] /\ a \in Runs /\ Marked(a)
      BY <1>1, <1>2, <1>6 DEF WalkInv, RunOK, MarksKept
    <2>2. CASE a = r
      BY <1>2, <1>4, <1>6, <2>1, <2>2 DEF Marked, IsCancelled
    <2>3. CASE a # r
      BY <1>4, <2>1, <2>3 DEF Marked, IsCancelled
    <2> QED  BY <2>1, <2>2, <2>3
  <1>7. run' \in [Runs -> States]
    BY <1>1
  <1>8. \A q \in Runs : Fewer(q)
    BY <1>6 DEF Fewer, MarksKept
  <1> QED  BY <1>3, <1>4, <1>5, <1>7, <1>8 DEF Spared

\* The write of an invocation changes of the canceller's call only what it knows of the
\* revision.
LEMMA WriteEffect ==
  ASSUME WalkInv, NEW r \in Runs, NEW s \in States, s.status # "absent", Write(r, s)
  PROVE  /\ run' \in [Runs -> States] /\ run'[r] = s
         /\ above' \in [Runs -> SUBSET Runs]
         /\ Kept
         /\ \A q \in Runs : Fewer(q) /\ (q # r => Spared(q))
         /\ c' \in Calls
  <1>1. c \in Calls
    BY Types DEF WalkInv
  <1>2. c' = c \/ c' = [c EXCEPT !.fresh = FALSE]
    BY DEF Write
  <1>3. c' \in Calls
    BY <1>1, <1>2 DEF Calls
  <1> QED  BY <1>3, WriteLeaves DEF Write

----------------------------------------------------------------------------
(* Steps of an invocation                                                  *)

\* Where a step goes is a place, and the others stay where they are.
LEMMA GotoEffect ==
  ASSUME TypeOK, NEW r \in Runs, NEW there \in PCs, Goto(r, there)
  PROVE  pc' \in [Runs -> PCs] /\ pc'[r] = there /\ \A q \in Runs : q # r => pc'[q] = pc[q]
  BY Types DEF Goto

\* The same of the reason of a check.
LEMMA WhyEffect ==
  ASSUME TypeOK, NEW r \in Runs, NEW reason \in Reasons, why' = [why EXCEPT ![r] = reason]
  PROVE  /\ why' \in [Runs -> Reasons] /\ why'[r] = reason
         /\ \A q \in Runs : q # r => why'[q] = why[q]
  BY Types

\* What an invocation knows of the revision is a Boolean.
LEMMA HoldingType ==
  ASSUME TypeOK, NEW r \in Runs, NEW b \in BOOLEAN, Holding(r, b)
  PROVE  fresh' \in [Runs -> BOOLEAN]
  BY Types, Zenon DEF Holding

\* Where a check leads that finds no cancellation.
Passed == {"model", "tools", "finish", "self", "claim", "failLoad", "ended"}

\* It leads to work from a check for work only.
LEMMA ClearEffect ==
  ASSUME TypeOK, NEW r \in Runs, Clear(r)
  PROVE  /\ pc' \in [Runs -> PCs] /\ why' \in [Runs -> Reasons]
         /\ pc'[r] \in Passed
         /\ \A q \in Runs : q # r => pc'[q] = pc[q] /\ why'[q] = why[q]
         /\ Driven(r)' => why[r] \in {"confirm", "model", "step", "tool"}
         /\ pc'[r] \in {"model", "tools"} => why[r] \in {"model", "tool"}
  <1> DEFINE Goal == /\ pc' \in [Runs -> PCs] /\ why' \in [Runs -> Reasons]
                     /\ pc'[r] \in Passed
                     /\ \A q \in Runs : q # r => pc'[q] = pc[q] /\ why'[q] = why[q]
                     /\ Driven(r)' => why[r] \in {"confirm", "model", "step", "tool"}
                     /\ pc'[r] \in {"model", "tools"} => why[r] \in {"model", "tool"}
  <1>1. ASSUME NEW there \in {"claim", "model", "finish", "tools", "failLoad", "ended"},
               Leave(r, there),
               there \in {"claim", "failLoad", "ended"}
                 \/ (there \in {"model", "tools"} /\ why[r] \in {"model", "tool"})
                 \/ (there = "finish" /\ why[r] = "step")
        PROVE  Goal
    <2>1. there \in PCs /\ "claim" \in Reasons
      BY DEF PCs, Reasons
    <2>2. /\ pc' \in [Runs -> PCs] /\ pc'[r] = there
          /\ \A q \in Runs : q # r => pc'[q] = pc[q]
      BY <1>1, <2>1, GotoEffect DEF Leave
    <2>3. /\ why' \in [Runs -> Reasons] /\ why'[r] = "claim"
          /\ \A q \in Runs : q # r => why'[q] = why[q]
      BY <1>1, <2>1, WhyEffect DEF Leave
    <2> QED  BY <1>1, <2>2, <2>3 DEF Passed, Driven, Working
  <1>2. ASSUME NEW reason \in Reasons, Check(r, reason), why[r] \in {"confirm", "step"}
        PROVE  Goal
    <2>1. "self" \in PCs
      BY DEF PCs
    <2>2. /\ pc' \in [Runs -> PCs] /\ pc'[r] = "self"
          /\ \A q \in Runs : q # r => pc'[q] = pc[q]
      BY <1>2, <2>1, GotoEffect DEF Check
    <2>3. /\ why' \in [Runs -> Reasons]
          /\ \A q \in Runs : q # r => why'[q] = why[q]
      BY <1>2, WhyEffect DEF Check
    <2> QED  BY <1>2, <2>2, <2>3 DEF Passed
  <1>3. "model" \in Reasons /\ "tool" \in Reasons
    BY DEF Reasons
  <1> HIDE DEF Goal
  <1>4. Goal
    BY <1>1, <1>2, <1>3 DEF Clear
  <1> QED  BY <1>4 DEF Goal

----------------------------------------------------------------------------
(* The check                                                               *)

\* A check that passes keeps the invariant of its run: one for work has found every mark,
\* and the run of one for work is not over.
LEMMA ClearKeeps ==
  ASSUME WalkInv, NEW r \in Runs, Clear(r), UNCHANGED run, Fewer(r), Kept,
         pc[r] \in {"self", "ancestors", "cancelLoad"},
         why[r] \in {"model", "tool"} => above'[r] = {}
  PROVE  RunOK(r)'
  <1>1. /\ pc'[r] \in Passed
        /\ Driven(r)' => why[r] \in {"confirm", "model", "step", "tool"}
        /\ pc'[r] \in {"model", "tools"} => why[r] \in {"model", "tool"}
    BY ClearEffect DEF WalkInv
  <1>2. ClaimHolds(r)'
    BY <1>1 DEF WalkInv, RunOK, ClaimHolds, Driven, IsCancelled
  <1>3. Grounded(r)'
    BY ParentIsRun DEF WalkInv, RunOK, Grounded, Kept, Stored
  <1>4. MarksKept(r)'
    BY DEF Fewer
  <1>5. WalksUp(r)'
    BY <1>1 DEF WalksUp, Passed
  <1>6. Checked(r)'
    BY <1>1 DEF Checked
  <1> QED  BY <1>2, <1>3, <1>4, <1>5, <1>6 DEF RunOK

\* A check that is over because of a cancellation keeps it.
LEMMA EndedKeeps ==
  ASSUME WalkInv, NEW r \in Runs, Kept, MarksKept(r)', pc[r] # "none", pc'[r] = "ended"
  PROVE  RunOK(r)'
  <1>1. ClaimHolds(r)' /\ WalksUp(r)' /\ Checked(r)'
    BY DEF ClaimHolds, WalksUp, Checked, Driven, Working
  <1>2. Grounded(r)'
    BY ParentIsRun DEF WalkInv, RunOK, Grounded, Kept
  <1> QED  BY <1>1, <1>2 DEF RunOK

\* Leaving for a place is known by where it leads and that the reason is reset.
LEMMA LeaveEffect ==
  ASSUME TypeOK, NEW r \in Runs, NEW there \in PCs, Leave(r, there)
  PROVE  /\ pc' \in [Runs -> PCs] /\ pc'[r] = there
         /\ why' \in [Runs -> Reasons] /\ why'[r] = "claim"
         /\ \A q \in Runs : q # r => pc'[q] = pc[q] /\ why'[q] = why[q]
  <1>1. "claim" \in Reasons
    BY DEF Reasons
  <1> QED  BY <1>1, GotoEffect, WhyEffect DEF Leave

\* So is the beginning of a check.
LEMMA CheckEffect ==
  ASSUME TypeOK, NEW r \in Runs, NEW reason \in Reasons, Check(r, reason)
  PROVE  /\ pc' \in [Runs -> PCs] /\ pc'[r] = "self"
         /\ why' \in [Runs -> Reasons] /\ why'[r] = reason
         /\ \A q \in Runs : q # r => pc'[q] = pc[q] /\ why'[q] = why[q]
  <1>1. "self" \in PCs
    BY DEF PCs
  <1> QED  BY <1>1, GotoEffect, WhyEffect DEF Check

\* The load of the run itself collects the marks above it.
LEMMA LoadSelfStep == ASSUME WalkInv, NEW r \in Runs, LoadSelf(r) PROVE WalkInv'
  <1>1. TypeOK /\ RunOK(r)
    BY DEF WalkInv
  <1>2. /\ pc[r] = "self" /\ UNCHANGED <<run, fresh, resumes, c, due>>
        /\ above' = [above EXCEPT ![r] = {a \in Ancestors(r) : Marked(a)}]
    BY DEF LoadSelf
  <1>3. /\ above' \in [Runs -> SUBSET Runs]
        /\ above'[r] = {a \in Ancestors(r) : Marked(a)}
        /\ \A q \in Runs : q # r => above'[q] = above[q]
    BY <1>2, Types DEF WalkInv, Ancestors
  <1>4. Kept /\ \A q \in Runs : q # r => Spared(q) /\ Fewer(q)
    BY <1>2, <1>3, QuietEffect
  <1>5. MarksKept(r)'
    BY <1>2, <1>3 DEF MarksKept, Marked, IsCancelled
  <1>6. /\ pc' \in [Runs -> PCs] /\ why' \in [Runs -> Reasons]
        /\ at' \in [Runs -> Runs \cup {NoRun}]
        /\ \A q \in Runs : q # r => pc'[q] = pc[q] /\ why'[q] = why[q] /\ at'[q] = at[q]
        /\ RunOK(r)'
    <2>1. CASE IsCancelled(run[r]) /\ Found(r) /\ UNCHANGED at
      <3>1. "ended" \in PCs
        BY DEF PCs
      <3> QED  BY <1>2, <1>4, <1>5, <2>1, <3>1, LeaveEffect, EndedKeeps, Types DEF WalkInv, Found
    <2>2. CASE ~IsCancelled(run[r]) /\ r = Root /\ Clear(r) /\ UNCHANGED at
      <3>1. above'[r] = {}
        BY <1>3, <2>2, RootHasNone
      <3>2. Fewer(r)
        BY <1>5, <3>1 DEF Fewer
      <3> QED  BY <1>2, <1>4, <2>2, <3>1, <3>2, ClearEffect, ClearKeeps, Types DEF WalkInv
    <2>3. CASE /\ ~IsCancelled(run[r]) /\ r # Root
               /\ at' = [at EXCEPT ![r] = Parent[r]]
               /\ Goto(r, "ancestors")
               /\ UNCHANGED why
      <3>1. /\ pc' \in [Runs -> PCs] /\ pc'[r] = "ancestors"
            /\ \A q \in Runs : q # r => pc'[q] = pc[q]
        BY <2>3, GotoEffect DEF WalkInv, PCs
      <3>2. /\ at' \in [Runs -> Runs \cup {NoRun}] /\ at'[r] = Parent[r]
            /\ \A q \in Runs : q # r => at'[q] = at[q]
        BY <2>3, ParentIsRun, Types DEF WalkInv
      <3>3. ClaimHolds(r)'
        BY <1>2, <2>3, <3>1 DEF WalkInv, RunOK, ClaimHolds, Driven, Working, IsCancelled
      <3>4. Grounded(r)' /\ Stored(Parent[r])'
        BY <1>2, <1>4, <2>3, ParentIsRun DEF WalkInv, RunOK, Grounded, Kept
      <3>5. WalksUp(r)'
        BY <1>3, <2>3, <3>2, <3>4, ParentIsRun, AncestorsUp DEF WalksUp
      <3>6. Checked(r)'
        BY <3>1 DEF Checked
      <3>7. why' \in [Runs -> Reasons] /\ why' = why
        BY <2>3, Types DEF WalkInv
      <3> QED  BY <1>5, <3>1, <3>2, <3>3, <3>4, <3>5, <3>6, <3>7 DEF RunOK
    <2> QED  BY <2>1, <2>2, <2>3 DEF LoadSelf
  <1>7. TypeOK'
    BY <1>2, <1>3, <1>6, Types DEF WalkInv, TypeOK, States
  <1> QED  BY <1>4, <1>6, <1>7, Moved

\* A look at one ancestor takes the walk on, with the marks still above; where it ends
\* there are none.
LEMMA LoadAncestorStep == ASSUME WalkInv, NEW r \in Runs, LoadAncestor(r) PROVE WalkInv'
  <1>1. TypeOK /\ RunOK(r)
    BY DEF WalkInv
  <1>2. pc[r] = "ancestors" /\ UNCHANGED <<run, fresh, resumes, c, above, due>>
    BY DEF LoadAncestor
  <1>3. Kept /\ \A q \in Runs : Spared(q) /\ Fewer(q)
    BY <1>2, QuietEffect
  <1>4. /\ at[r] \in Runs /\ Stored(at[r])
        /\ above[r] \subseteq {at[r]} \cup Ancestors(at[r])
        /\ \A a \in above[r] : Marked(a)
    BY <1>1, <1>2 DEF RunOK, WalksUp, MarksKept
  <1>5. /\ pc' \in [Runs -> PCs] /\ why' \in [Runs -> Reasons]
        /\ at' \in [Runs -> Runs \cup {NoRun}]
        /\ \A q \in Runs : q # r => pc'[q] = pc[q] /\ why'[q] = why[q] /\ at'[q] = at[q]
        /\ RunOK(r)'
    <2>1. CASE /\ Marked(at[r])
               /\ Goto(r, "cancelLoad")
               /\ UNCHANGED <<why, at>>
      <3>1. /\ pc' \in [Runs -> PCs] /\ pc'[r] = "cancelLoad"
            /\ \A q \in Runs : q # r => pc'[q] = pc[q]
        BY <1>1, <2>1, GotoEffect DEF PCs
      <3>2. ClaimHolds(r)'
        BY <1>1, <1>2, <2>1, <3>1 DEF RunOK, ClaimHolds, Driven, Working, IsCancelled
      <3>3. Grounded(r)'
        BY <1>1, <1>2, <1>3, ParentIsRun DEF RunOK, Grounded, Kept
      <3>4. WalksUp(r)' /\ Checked(r)'
        BY <3>1 DEF WalksUp, Checked
      <3> QED  BY <1>1, <1>3, <2>1, <3>1, <3>2, <3>3, <3>4, Types DEF RunOK, Fewer
    <2>2. CASE /\ ~Marked(at[r])
               /\ ~Stored(at[r]) \/ at[r] = Root
               /\ Clear(r)
               /\ at' = [at EXCEPT ![r] = NoRun]
      <3>1. above[r] = {}
        BY <1>4, <2>2, RootHasNone
      <3>2. /\ at' \in [Runs -> Runs \cup {NoRun}]
            /\ \A q \in Runs : q # r => at'[q] = at[q]
        BY <1>1, <2>2, Types
      <3>3. above'[r] = {}
        BY <1>2, <3>1
      <3> QED  BY <1>1, <1>2, <1>3, <2>2, <3>2, <3>3, ClearEffect, ClearKeeps
    <2>3. CASE /\ ~Marked(at[r]) /\ Stored(at[r]) /\ at[r] # Root
               /\ at' = [at EXCEPT ![r] = Parent[at[r]]]
               /\ UNCHANGED <<pc, why>>
      <3>1. /\ at' \in [Runs -> Runs \cup {NoRun}] /\ at'[r] = Parent[at[r]]
            /\ \A q \in Runs : q # r => at'[q] = at[q]
        BY <1>1, <1>4, <2>3, ParentIsRun, Types
      <3>2. ClaimHolds(r)' /\ Checked(r)'
        BY <1>1, <1>2, <2>3 DEF RunOK, ClaimHolds, Checked, Driven, IsCancelled
      <3>3. Grounded(r)'
        BY <1>1, <1>2, <1>3, ParentIsRun DEF RunOK, Grounded, Kept
      <3>4. Stored(Parent[at[r]]) /\ Parent[at[r]] \in Runs
        BY <1>4, <2>3, ParentIsRun DEF WalkInv, RunOK, Grounded
      <3>5. above[r] \subseteq {Parent[at[r]]} \cup Ancestors(Parent[at[r]])
        BY <1>4, <2>3, AncestorsUp
      <3>6. WalksUp(r)'
        BY <1>2, <1>3, <3>1, <3>4, <3>5 DEF WalksUp, Kept
      <3> QED  BY <1>1, <1>3, <2>3, <3>1, <3>2, <3>3, <3>6, Types DEF RunOK, Fewer
    <2> QED  BY <2>1, <2>2, <2>3 DEF LoadAncestor
  <1>6. TypeOK'
    BY <1>1, <1>2, <1>5, Types DEF TypeOK, States
  <1> QED  BY <1>3, <1>5, <1>6, Moved

\* The load of the run to be cancelled: a check for work meets no run that is over.
LEMMA CancelLoadStep == ASSUME WalkInv, NEW r \in Runs, CancelLoad(r) PROVE WalkInv'
  <1>1. TypeOK /\ RunOK(r)
    BY DEF WalkInv
  <1>2. /\ pc[r] = "cancelLoad" /\ UNCHANGED <<run, resumes, c, above, due>>
        /\ fresh' \in [Runs -> BOOLEAN]
        /\ at' \in [Runs -> Runs \cup {NoRun}]
        /\ \A q \in Runs : q # r => at'[q] = at[q]
    BY <1>1, HoldingType, Types DEF CancelLoad
  <1>3. Kept /\ \A q \in Runs : Spared(q) /\ Fewer(q)
    BY <1>2, QuietEffect
  <1>4. MarksKept(r)'
    BY <1>3 DEF Fewer
  <1>5. /\ pc' \in [Runs -> PCs] /\ why' \in [Runs -> Reasons]
        /\ \A q \in Runs : q # r => pc'[q] = pc[q] /\ why'[q] = why[q]
        /\ RunOK(r)'
    <2>1. CASE IsTerminal(run[r]) /\ ~IsCancelled(run[r]) /\ Clear(r)
      <3>1. ~Driven(r)
        BY <1>1, <2>1 DEF RunOK, ClaimHolds, IsTerminal
      <3>2. why[r] \notin {"model", "tool"}
        BY <1>2, <3>1 DEF Driven
      <3> QED  BY <1>1, <1>2, <1>3, <2>1, <3>2, ClearEffect, ClearKeeps
    <2>2. CASE IsCancelled(run[r]) /\ Found(r)
      <3>1. "ended" \in PCs
        BY DEF PCs
      <3> QED  BY <1>1, <1>2, <1>3, <1>4, <2>2, <3>1, LeaveEffect, EndedKeeps DEF Found
    <2>3. CASE ~IsTerminal(run[r]) /\ Goto(r, "cancelSave") /\ UNCHANGED why
      <3>1. /\ pc' \in [Runs -> PCs] /\ pc'[r] = "cancelSave"
            /\ \A q \in Runs : q # r => pc'[q] = pc[q]
        BY <1>1, <2>3, GotoEffect DEF PCs
      <3>2. ClaimHolds(r)'
        BY <1>1, <1>2, <2>3, <3>1 DEF RunOK, ClaimHolds, Driven, Working, IsCancelled
      <3>3. Grounded(r)'
        BY <1>1, <1>2, <1>3, ParentIsRun DEF RunOK, Grounded, Kept
      <3>4. WalksUp(r)' /\ Checked(r)'
        BY <3>1 DEF WalksUp, Checked
      <3> QED  BY <1>1, <1>4, <2>3, <3>1, <3>2, <3>3, <3>4, Types DEF RunOK
    <2> QED  BY <2>1, <2>2, <2>3 DEF CancelLoad
  <1>6. TypeOK'
    BY <1>1, <1>2, <1>5, Types DEF TypeOK, States
  <1> QED  BY <1>2, <1>3, <1>5, <1>6, Moved

\* A record with another status is a record.
LEMMA StateWith ==
  ASSUME NEW s \in States, NEW t \in Statuses, NEW x, x = [s EXCEPT !.status = t]
  PROVE  x \in States /\ x.status = t
  BY DEF States

\* The save of the run's own cancellation.
LEMMA CancelSaveStep == ASSUME WalkInv, NEW r \in Runs, CancelSave(r) PROVE WalkInv'
  <1>1. TypeOK /\ RunOK(r) /\ run[r] \in States
    BY Types DEF WalkInv
  <1>2. pc[r] = "cancelSave" /\ UNCHANGED <<at, fresh, resumes, due>>
    BY DEF CancelSave
  <1>3. CASE \E m \in Modes : Write(r, [run[r] EXCEPT !.status = StatusOf(m)]) /\ Found(r)
    <2>1. PICK m \in Modes : Write(r, [run[r] EXCEPT !.status = StatusOf(m)]) /\ Found(r)
      BY <1>3
    <2>2. StatusOf(m) \in Statuses /\ StatusOf(m) # "absent"
      BY DEF StatusOf, Statuses
    <2> DEFINE x == [run[r] EXCEPT !.status = StatusOf(m)]
    <2>3. x \in States /\ x.status # "absent"
      BY <1>1, <2>2, StateWith
    <2>4. Write(r, x)
      BY <2>1
    <2> HIDE DEF x
    <2>5. /\ run' \in [Runs -> States] /\ above' \in [Runs -> SUBSET Runs] /\ c' \in Calls
          /\ Kept /\ \A q \in Runs : Fewer(q) /\ (q # r => Spared(q))
      BY <2>3, <2>4, WriteEffect
    <2>6. /\ pc' \in [Runs -> PCs] /\ pc'[r] = "ended" /\ why' \in [Runs -> Reasons]
          /\ \A q \in Runs : q # r => pc'[q] = pc[q] /\ why'[q] = why[q]
      BY <1>1, <2>1, LeaveEffect DEF PCs, Found
    <2>7. RunOK(r)'
      BY <1>2, <2>5, <2>6, EndedKeeps DEF Fewer
    <2>8. TypeOK'
      BY <1>1, <1>2, <2>5, <2>6, Types DEF TypeOK, States, Calls
    <2> QED  BY <1>2, <2>5, <2>6, <2>7, <2>8, Moved
  <1>4. CASE Goto(r, "cancelLoad") /\ UNCHANGED <<run, c, above, why>>
    <2>1. /\ pc' \in [Runs -> PCs] /\ pc'[r] = "cancelLoad"
          /\ \A q \in Runs : q # r => pc'[q] = pc[q]
      BY <1>1, <1>4, GotoEffect DEF PCs
    <2>2. Kept /\ \A q \in Runs : Spared(q) /\ Fewer(q)
      BY <1>4, QuietEffect
    <2>3. ClaimHolds(r)'
      BY <1>1, <1>2, <1>4, <2>1 DEF RunOK, ClaimHolds, Driven, Working, IsCancelled
    <2>4. Grounded(r)'
      BY <1>1, <1>2, <1>4, <2>2, ParentIsRun DEF RunOK, Grounded, Kept
    <2>5. WalksUp(r)' /\ Checked(r)'
      BY <2>1 DEF WalksUp, Checked
    <2>6. RunOK(r)'
      BY <2>2, <2>3, <2>4, <2>5 DEF RunOK, Fewer
    <2>7. TypeOK'
      BY <1>1, <1>2, <1>4, <2>1, Types DEF TypeOK, States
    <2> QED  BY <1>2, <1>4, <2>1, <2>2, <2>6, <2>7, Moved
  <1> QED  BY <1>3, <1>4 DEF CancelSave

----------------------------------------------------------------------------
(* The invocation                                                          *)

\* A check begins with nothing to find yet; one for work, on a run whose claim holds.
LEMMA CheckKeeps ==
  ASSUME WalkInv, NEW r \in Runs, Kept, Fewer(r), Grounded(r)', pc'[r] = "self",
         why'[r] \in {"confirm", "model", "step", "tool"} =>
           run'[r].status = "running" \/ IsCancelled(run[r])'
  PROVE  RunOK(r)'
  BY DEF RunOK, ClaimHolds, Driven, Working, WalksUp, Checked, Fewer

\* What is begun stays grounded.
LEMMA StaysGrounded ==
  ASSUME WalkInv, NEW r \in Runs, Kept, Stored(r) \/ pc[r] # "none" \/ r = Root
  PROVE  Grounded(r)'
  BY ParentIsRun DEF WalkInv, RunOK, Grounded, Kept

\* Beginning an invocation.
LEMMA BeginStep == ASSUME WalkInv, NEW r \in Runs, Begin(r) PROVE WalkInv'
  <1>1. TypeOK /\ RunOK(r) /\ "claim" \in Reasons
    BY DEF WalkInv, Reasons
  <1>2. /\ UNCHANGED <<run, c, above, at, due>> /\ Check(r, "claim")
        /\ r = Root \/ Stored(r)
    BY DEF Begin, Begins
  <1>3. resumes' \in 0..MaxResumes /\ fresh' \in [Runs -> BOOLEAN]
    <2>1. fresh' \in [Runs -> BOOLEAN]
      BY <1>1, HoldingType DEF Begin, Begins
    <2>2. resumes \in 0..MaxResumes /\ MaxResumes \in Nat
      BY <1>1, Types, TreeAssumption
    <2> QED  BY <2>1, <2>2 DEF Begin, Begins
  <1>4. /\ pc' \in [Runs -> PCs] /\ pc'[r] = "self"
        /\ why' \in [Runs -> Reasons] /\ why'[r] = "claim"
        /\ \A q \in Runs : q # r => pc'[q] = pc[q] /\ why'[q] = why[q]
    BY <1>1, <1>2, CheckEffect
  <1>5. Kept /\ \A q \in Runs : Spared(q) /\ Fewer(q)
    BY <1>2, QuietEffect
  <1>6. RunOK(r)'
    <2>1. Grounded(r)'
      BY <1>2, <1>5, StaysGrounded
    <2> QED  BY <1>4, <1>5, <2>1, CheckKeeps
  <1>7. TypeOK'
    BY <1>1, <1>2, <1>3, <1>4, Types DEF TypeOK, States
  <1> QED  BY <1>2, <1>4, <1>5, <1>6, <1>7, Moved

\* A step that writes the run's record, or nothing, and begins a check.
LEMMA WriteAndCheck ==
  ASSUME WalkInv, NEW r \in Runs, NEW s \in States, NEW reason \in Reasons,
         s.status # "absent", Write(r, s), Check(r, reason), pc[r] # "none",
         fresh' \in [Runs -> BOOLEAN], UNCHANGED <<at, resumes, due>>,
         reason \in {"confirm", "model", "step", "tool"} =>
           s.status = "running" \/ IsCancelled(s)
  PROVE  WalkInv'
  <1>1. TypeOK
    BY DEF WalkInv
  <1>2. /\ run' \in [Runs -> States] /\ run'[r] = s
        /\ above' \in [Runs -> SUBSET Runs] /\ c' \in Calls
        /\ Kept /\ \A q \in Runs : Fewer(q) /\ (q # r => Spared(q))
    BY WriteEffect
  <1>3. /\ pc' \in [Runs -> PCs] /\ pc'[r] = "self"
        /\ why' \in [Runs -> Reasons] /\ why'[r] = reason
        /\ \A q \in Runs : q # r => pc'[q] = pc[q] /\ why'[q] = why[q]
    BY <1>1, CheckEffect
  <1>4. RunOK(r)'
    <2>1. Grounded(r)'
      BY <1>2, StaysGrounded
    <2> QED  BY <1>2, <1>3, <2>1, CheckKeeps DEF IsCancelled
  <1>5. TypeOK'
    BY <1>1, <1>2, <1>3, Types DEF TypeOK, States, Calls
  <1> QED  BY <1>2, <1>3, <1>4, <1>5, Moved

\* The claim: stored and confirmed by a check, or looked at again.
LEMMA ClaimSaveStep == ASSUME WalkInv, NEW r \in Runs, ClaimSave(r) PROVE WalkInv'
  <1>1. TypeOK /\ RunOK(r) /\ {"confirm", "reclaim"} \subseteq Reasons /\ run[r] \in States
    BY Types DEF WalkInv, Reasons
  <1>2. /\ pc[r] = "claim" /\ UNCHANGED <<at, fresh, resumes, due>>
        /\ fresh \in [Runs -> BOOLEAN]
    BY <1>1, Types DEF ClaimSave
  <1>3. CASE Write(r, [run[r] EXCEPT !.status = "running"]) /\ Check(r, "confirm")
    <2> DEFINE x == [run[r] EXCEPT !.status = "running"]
    <2>1. x \in States /\ x.status = "running"
      BY <1>1, StateWith DEF Statuses
    <2>2. Write(r, x) /\ Check(r, "confirm")
      BY <1>3
    <2> HIDE DEF x
    <2> QED  BY <1>1, <1>2, <2>1, <2>2, WriteAndCheck
  <1>4. CASE Check(r, "reclaim") /\ UNCHANGED <<run, c, above>>
    <2>1. /\ pc' \in [Runs -> PCs] /\ pc'[r] = "self"
          /\ why' \in [Runs -> Reasons] /\ why'[r] = "reclaim"
          /\ \A q \in Runs : q # r => pc'[q] = pc[q] /\ why'[q] = why[q]
      BY <1>1, <1>4, CheckEffect
    <2>2. Kept /\ \A q \in Runs : Spared(q) /\ Fewer(q)
      BY <1>4, QuietEffect
    <2>3. RunOK(r)'
      <3>1. Grounded(r)'
        BY <1>2, <2>2, StaysGrounded
      <3> QED  BY <2>1, <2>2, <3>1, CheckKeeps
    <2>4. TypeOK'
      BY <1>1, <1>2, <1>4, <2>1, Types DEF TypeOK, States
    <2> QED  BY <1>2, <2>1, <2>2, <2>3, <2>4, Moved
  <1> QED  BY <1>3, <1>4 DEF ClaimSave

\* The record of a run at work is as a claim leaves it.
LEMMA WorkingRecord ==
  ASSUME WalkInv, NEW r \in Runs, pc[r] \in Working \cup {"finish"}
  PROVE  /\ run[r] \in States /\ run[r].status # "absent"
         /\ run[r].status = "running" \/ IsCancelled(run[r])
  BY Types DEF WalkInv, RunOK, ClaimHolds, Driven, IsCancelled

\* A response and the results of tools are checkpointed before the next check.
LEMMA CheckpointStep ==
  ASSUME WalkInv, NEW r \in Runs, ModelStep(r) \/ ToolsDone(r) PROVE WalkInv'
  <1>1. PICK reason \in {"step", "model"} :
          /\ Checkpoint(r) /\ Check(r, reason) /\ UNCHANGED <<at, resumes, due>>
          /\ pc[r] \in Working
    BY DEF ModelStep, ToolsDone, Working
  <1>2. reason \in Reasons /\ pc[r] # "none" /\ TypeOK
    BY <1>1 DEF Reasons, Working, WalkInv
  <1>3. fresh' \in [Runs -> BOOLEAN]
    BY <1>1, <1>2, HoldingType DEF Checkpoint
  <1>4. /\ run[r] \in States /\ run[r].status # "absent"
        /\ run[r].status = "running" \/ IsCancelled(run[r])
    BY <1>1, WorkingRecord
  <1> QED  BY <1>1, <1>2, <1>3, <1>4, WriteAndCheck DEF Checkpoint

\* The final answer is stored, over the cancellation's status if one came first.
LEMMA FinishStep == ASSUME WalkInv, NEW r \in Runs, Finish(r) PROVE WalkInv'
  <1> DEFINE x == IF fresh[r] THEN [run[r] EXCEPT !.status = "completed"] ELSE run[r]
  <1>1. /\ pc[r] = "finish" /\ Write(r, x) /\ Check(r, "finish")
        /\ UNCHANGED <<at, resumes, due>> /\ Holding(r, TRUE)
    BY DEF Finish
  <1>2. TypeOK /\ "finish" \in Reasons
    BY DEF WalkInv, Reasons
  <1>3. fresh' \in [Runs -> BOOLEAN]
    BY <1>1, <1>2, HoldingType
  <1>4. x \in States /\ x.status # "absent"
    BY <1>1, WorkingRecord, StateWith DEF Statuses
  <1> HIDE DEF x
  <1> QED  BY <1>1, <1>2, <1>3, <1>4, WriteAndCheck

\* A subagent is begun by a run at work, so below the root and below a stored run.
LEMMA DelegateStep ==
  ASSUME WalkInv, NEW r \in Runs, NEW d \in Children(r), Delegate(r, d) PROVE WalkInv'
  <1>1. TypeOK /\ RunOK(r) /\ d \in Runs /\ d # Root /\ Parent[d] = r
    BY ParentIsRun DEF WalkInv
  <1>2. /\ pc[r] = "tools" /\ pc[d] \in {"none", "ended"} /\ r # d
        /\ pc' = [pc EXCEPT ![r] = "waiting", ![d] = "self"]
        /\ why' = [why EXCEPT ![d] = "claim"]
        /\ UNCHANGED <<at, due>> /\ Holding(d, TRUE)
    BY DEF Delegate, Begins
  <1>3. /\ pc' \in [Runs -> PCs] /\ pc'[r] = "waiting" /\ pc'[d] = "self"
        /\ \A q \in Runs : q # r /\ q # d => pc'[q] = pc[q]
    <2>1. pc \in [Runs -> PCs] /\ {"waiting", "self"} \subseteq PCs
      BY <1>1, Types DEF PCs
    <2> QED  BY <1>1, <1>2, <2>1
  <1>4. /\ why' \in [Runs -> Reasons] /\ why'[d] = "claim"
        /\ \A q \in Runs : q # d => why'[q] = why[q]
    BY <1>1, <1>2, WhyEffect DEF Reasons
  <1>5. fresh' \in [Runs -> BOOLEAN] /\ resumes' \in 0..MaxResumes
    <2>1. fresh' \in [Runs -> BOOLEAN]
      BY <1>1, <1>2, HoldingType
    <2>2. resumes \in 0..MaxResumes /\ MaxResumes \in Nat
      BY <1>1, Types, TreeAssumption
    <2> QED  BY <2>1, <2>2 DEF Delegate, Begins
  <1>6. /\ run' \in [Runs -> States] /\ above' \in [Runs -> SUBSET Runs] /\ c' \in Calls
        /\ Kept /\ \A q \in Runs : Fewer(q) /\ (q # d => Spared(q))
    <2>1. CASE UNCHANGED <<run, c, above>>
      BY <1>1, <2>1, QuietEffect, Types
    <2>2. CASE Write(d, [run[d] EXCEPT !.status = "queued"])
      <3> DEFINE x == [run[d] EXCEPT !.status = "queued"]
      <3>1. x \in States /\ x.status = "queued"
        <4>1. run[d] \in States /\ "queued" \in Statuses
          BY <1>1, Types DEF Statuses
        <4> QED  BY <4>1, StateWith
      <3>2. Write(d, x)
        BY <2>2
      <3> HIDE DEF x
      <3> QED  BY <1>1, <3>1, <3>2, WriteEffect
    <2> QED  BY <2>1, <2>2 DEF Delegate
  <1>7. run[r] \in States /\ run[r].status # "absent"
    BY <1>2, WorkingRecord DEF Working
  <1>8. RunOK(d)'
    <2>1. Stored(r)'
      BY <1>6, <1>7 DEF Kept, Stored
    <2>2. Parent[d] = Root \/ Root \in Ancestors(Parent[d])
      BY <1>1, <1>2 DEF RunOK, Grounded
    <2>3. Grounded(d)'
      BY <1>1, <2>1, <2>2, RootAbove DEF Grounded
    <2> QED  BY <1>1, <1>3, <1>4, <1>6, <2>3, CheckKeeps
  <1>9. RunOK(r)'
    <2>1. Spared(r)
      BY <1>2, <1>6
    <2>2. ClaimHolds(r)'
      BY <1>1, <1>2, <2>1 DEF RunOK, ClaimHolds, Driven, Working, Spared, IsCancelled
    <2>3. Grounded(r)'
      BY <1>2, <1>6, StaysGrounded
    <2>4. WalksUp(r)' /\ Checked(r)'
      BY <1>3 DEF WalksUp, Checked
    <2> QED  BY <1>6, <2>2, <2>3, <2>4 DEF RunOK, Fewer
  <1>10. ASSUME NEW q \in Runs, q # r, q # d PROVE RunOK(q)'
    <2>1. TypeOK /\ RunOK(q) /\ at'[q] = at[q]
      BY <1>2 DEF WalkInv
    <2> QED  BY <1>3, <1>4, <1>6, <1>10, <2>1, Frame
  <1>11. TypeOK'
    BY <1>1, <1>2, <1>3, <1>4, <1>5, <1>6, Types DEF TypeOK, States, Calls
  <1> QED  BY <1>8, <1>9, <1>10, <1>11 DEF WalkInv

\* A failure is looked into by a check of its own.
LEMMA FailStep == ASSUME WalkInv, NEW r \in Runs, Fail(r) PROVE WalkInv'
  <1>1. TypeOK /\ "failure" \in Reasons
    BY DEF WalkInv, Reasons
  <1>2. /\ pc[r] # "none" /\ Check(r, "failure")
        /\ UNCHANGED <<run, at, fresh, resumes, c, above, due>>
    BY DEF Fail, Working
  <1>3. /\ pc' \in [Runs -> PCs] /\ pc'[r] = "self"
        /\ why' \in [Runs -> Reasons] /\ why'[r] = "failure"
        /\ \A q \in Runs : q # r => pc'[q] = pc[q] /\ why'[q] = why[q]
    BY <1>1, <1>2, CheckEffect
  <1>4. Kept /\ \A q \in Runs : Spared(q) /\ Fewer(q)
    BY <1>2, QuietEffect
  <1>5. RunOK(r)'
    <2>1. Grounded(r)'
      BY <1>2, <1>4, StaysGrounded
    <2> QED  BY <1>3, <1>4, <2>1, CheckKeeps
  <1>6. TypeOK'
    BY <1>1, <1>2, <1>3, Types DEF TypeOK, States
  <1> QED  BY <1>2, <1>3, <1>4, <1>5, <1>6, Moved

\* The failure's load.
LEMMA FailLoadStep == ASSUME WalkInv, NEW r \in Runs, FailLoad(r) PROVE WalkInv'
  <1>1. TypeOK /\ RunOK(r)
    BY DEF WalkInv
  <1>2. /\ pc[r] = "failLoad" /\ Goto(r, "failSave") /\ Holding(r, TRUE)
        /\ UNCHANGED <<run, why, at, resumes, c, above, due>>
    BY DEF FailLoad
  <1>3. /\ pc' \in [Runs -> PCs] /\ pc'[r] = "failSave" /\ fresh' \in [Runs -> BOOLEAN]
        /\ \A q \in Runs : q # r => pc'[q] = pc[q]
    BY <1>1, <1>2, GotoEffect, HoldingType DEF PCs
  <1>4. Kept /\ \A q \in Runs : Spared(q) /\ Fewer(q)
    BY <1>2, QuietEffect
  <1>5. RunOK(r)'
    <2>1. Grounded(r)'
      BY <1>2, <1>4, StaysGrounded
    <2>2. ClaimHolds(r)' /\ WalksUp(r)' /\ Checked(r)'
      BY <1>3 DEF ClaimHolds, Driven, Working, WalksUp, Checked
    <2> QED  BY <1>4, <2>1, <2>2 DEF RunOK, Fewer
  <1>6. TypeOK'
    BY <1>1, <1>2, <1>3, Types DEF TypeOK, States
  <1> QED  BY <1>2, <1>3, <1>4, <1>5, <1>6, Moved

\* The failure's write, or its conflict.
LEMMA FailSaveStep == ASSUME WalkInv, NEW r \in Runs, FailSave(r) PROVE WalkInv'
  <1>1. TypeOK /\ RunOK(r) /\ run[r] \in States
    BY Types DEF WalkInv
  <1>2. /\ pc[r] = "failSave" /\ Leave(r, "ended") /\ Holding(r, FALSE)
        /\ UNCHANGED <<at, resumes, due>>
    BY DEF FailSave
  <1>3. /\ pc' \in [Runs -> PCs] /\ pc'[r] = "ended" /\ why' \in [Runs -> Reasons]
        /\ fresh' \in [Runs -> BOOLEAN]
        /\ \A q \in Runs : q # r => pc'[q] = pc[q] /\ why'[q] = why[q]
    BY <1>1, <1>2, LeaveEffect, HoldingType DEF PCs
  <1>4. /\ run' \in [Runs -> States] /\ above' \in [Runs -> SUBSET Runs] /\ c' \in Calls
        /\ Kept /\ \A q \in Runs : Fewer(q) /\ (q # r => Spared(q))
    <2>1. CASE UNCHANGED <<run, c, above>>
      BY <1>1, <2>1, QuietEffect, Types
    <2>2. CASE Write(r, [run[r] EXCEPT !.status = "failed"])
      <3> DEFINE x == [run[r] EXCEPT !.status = "failed"]
      <3>1. x \in States /\ x.status = "failed"
        BY <1>1, StateWith DEF Statuses
      <3>2. Write(r, x)
        BY <2>2
      <3> HIDE DEF x
      <3> QED  BY <3>1, <3>2, WriteEffect
    <2> QED  BY <2>1, <2>2 DEF FailSave
  <1>5. RunOK(r)'
    BY <1>2, <1>3, <1>4, EndedKeeps DEF Fewer
  <1>6. TypeOK'
    BY <1>1, <1>2, <1>3, <1>4, Types DEF TypeOK, States, Calls
  <1> QED  BY <1>2, <1>3, <1>4, <1>5, <1>6, Moved

\* An invocation dies.
LEMMA CrashStep == ASSUME WalkInv, NEW r \in Runs, Crash(r) PROVE WalkInv'
  <1>1. TypeOK /\ RunOK(r)
    BY DEF WalkInv
  <1>2. /\ pc[r] # "none" /\ Leave(r, "ended") /\ Holding(r, FALSE)
        /\ at' = [at EXCEPT ![r] = NoRun] /\ above' = [above EXCEPT ![r] = {}]
        /\ UNCHANGED <<run, resumes, c, due>>
    BY DEF Crash
  <1>3. /\ pc' \in [Runs -> PCs] /\ pc'[r] = "ended" /\ why' \in [Runs -> Reasons]
        /\ fresh' \in [Runs -> BOOLEAN]
        /\ \A q \in Runs : q # r => pc'[q] = pc[q] /\ why'[q] = why[q]
    BY <1>1, <1>2, LeaveEffect, HoldingType DEF PCs
  <1>4. /\ at' \in [Runs -> Runs \cup {NoRun}] /\ above' \in [Runs -> SUBSET Runs]
        /\ above'[r] = {}
        /\ \A q \in Runs : q # r => at'[q] = at[q] /\ above'[q] = above[q]
    BY <1>1, <1>2, Types
  <1>5. Kept /\ \A q \in Runs : Spared(q) /\ (q # r => Fewer(q))
    BY <1>2, <1>4, QuietEffect
  <1>6. RunOK(r)'
    <2>1. MarksKept(r)'
      BY <1>4 DEF MarksKept
    <2> QED  BY <1>2, <1>3, <1>5, <2>1, EndedKeeps
  <1>7. TypeOK'
    BY <1>1, <1>2, <1>3, <1>4, Types DEF TypeOK, States
  <1> QED  BY <1>3, <1>4, <1>5, <1>6, <1>7, Moved

\* Every step of an invocation preserves the invariant.
LEMMA WorkerStep ==
  ASSUME WalkInv, NEW r \in Runs, Drive(r) \/ Begin(r) \/ Fail(r) \/ Crash(r)
  PROVE  WalkInv'
  BY LoadSelfStep, LoadAncestorStep, CancelLoadStep, CancelSaveStep, BeginStep,
     ClaimSaveStep, CheckpointStep, FinishStep, DelegateStep, FailStep, FailLoadStep,
     FailSaveStep, CrashStep DEF Drive

----------------------------------------------------------------------------
(* The call of cancelAgentRunTree                                          *)

\* Before its passes begin the call knows the root only.
BeforePasses ==
  c.pc \in {"idle", "load", "save"} /\ c.target = Root => due = {} /\ c.known = {Root}

\* Between two children the call is at the root.
AtRoot == c.pc = "scan" => c.target = Root

\* What it is at, and what it has found, is stored.
Reaches == /\ c.pc = "save" \/ c.target # Root => Stored(c.target)
           /\ \A d \in c.found : d # Root /\ Stored(d)

\* It knows what it is at and what it has cancelled.
Knows == {Root, c.target} \cup c.children \subseteq c.known

\* The runs that were stored when the pass began have their parents among them, up to
\* the root.
DueOK == \A d \in due : /\ d \in Runs /\ Stored(d)
                        /\ d # Root => Parent[d] \in due /\ Root \in Ancestors(d)

\* Of the runs a pass is through with it has found the children.
Seen(d) == d \in c.found \cup c.children \cup {c.target}
Scanned == c.pc # "done" =>
             \A d \in due : d # Root /\ Parent[d] \in c.known /\ Parent[d] \notin c.left
                              => Seen(d)

ScanInv == BeforePasses /\ AtRoot /\ Reaches /\ Knows /\ DueOK /\ Scanned /\ TreeReached

TreeInv == WalkInv /\ ScanInv

\* A call whose revision is old is otherwise the same.
LEMMA Aged ==
  ASSUME c \in Calls, c' = c \/ c' = [c EXCEPT !.fresh = FALSE]
  PROVE  /\ c'.pc = c.pc /\ c'.target = c.target /\ c'.known = c.known
         /\ c'.left = c.left /\ c'.found = c.found /\ c'.children = c.children
  BY DEF Calls

\* A step that writes one record at most, and leaves what the call knows alone.
Leaves ==
  /\ due' = due
  /\ \/ UNCHANGED <<run, c>>
     \/ \E x \in Runs, s \in States : s.status # "absent" /\ Write(x, s)

\* The steps of the invocations are such steps.
LEMMA WorkerLeaves ==
  ASSUME WalkInv, NEW r \in Runs, Drive(r) \/ Begin(r) \/ Fail(r) \/ Crash(r)
  PROVE  Leaves
  <1>1. run[r] \in States /\ \A d \in Children(r) : d \in Runs /\ run[d] \in States
    BY ParentIsRun, Types DEF WalkInv
  <1>2. ASSUME NEW d \in Runs, run[d] \in States, NEW t \in Statuses \ {"absent"},
               Write(d, [run[d] EXCEPT !.status = t]), due' = due
        PROVE  Leaves
    <2> DEFINE x == [run[d] EXCEPT !.status = t]
    <2>1. x \in States /\ x.status = t /\ Write(d, x)
      BY <1>2, StateWith
    <2> HIDE DEF x
    <2> QED  BY <1>2, <2>1 DEF Leaves
  <1>3. ASSUME Checkpoint(r), pc[r] \in Working, due' = due PROVE Leaves
    BY <1>3, WorkingRecord DEF Checkpoint, Leaves
  <1>4. {"running", "queued", "failed", "completed", "cancelled", "cancel_requested"}
          \subseteq Statuses \ {"absent"}
    BY DEF Statuses
  <1>5. \A m \in Modes : StatusOf(m) \in Statuses \ {"absent"}
    BY <1>4 DEF StatusOf
  <1>6. ASSUME UNCHANGED <<run, c, due>> PROVE Leaves
    BY <1>6 DEF Leaves
  <1>7. CASE LoadSelf(r) \/ LoadAncestor(r) \/ CancelLoad(r) \/ Begin(r) \/ Fail(r)
             \/ FailLoad(r) \/ Crash(r)
    BY <1>6, <1>7 DEF LoadSelf, LoadAncestor, CancelLoad, Begin, Begins, Fail, FailLoad, Crash
  <1>8. CASE CancelSave(r)
    BY <1>1, <1>2, <1>5, <1>6, <1>8 DEF CancelSave
  <1>9. CASE ClaimSave(r)
    BY <1>1, <1>2, <1>4, <1>6, <1>9 DEF ClaimSave
  <1>10. CASE ModelStep(r) \/ ToolsDone(r)
    BY <1>3, <1>10 DEF ModelStep, ToolsDone, Working
  <1>11. CASE Finish(r)
    <2>1. CASE fresh[r]
      BY <1>1, <1>2, <1>4, <1>11, <2>1 DEF Finish
    <2>2. CASE ~fresh[r]
      <3>1. Write(r, run[r]) /\ due' = due /\ pc[r] = "finish"
        BY <1>11, <2>2 DEF Finish
      <3>2. run[r].status # "absent"
        BY <3>1, WorkingRecord
      <3> QED  BY <1>1, <3>1, <3>2 DEF Leaves
    <2> QED  BY <2>1, <2>2
  <1>12. CASE FailSave(r)
    BY <1>1, <1>2, <1>4, <1>6, <1>12 DEF FailSave
  <1>13. CASE \E d \in Children(r) : Delegate(r, d)
    <2>1. PICK d \in Children(r) : Delegate(r, d)
      BY <1>13
    <2>2. d \in Runs /\ run[d] \in States /\ due' = due
      BY <1>1, <2>1 DEF Delegate, Begins
    <2> QED  BY <1>2, <1>4, <1>6, <2>1, <2>2 DEF Delegate
  <1> QED  BY <1>7, <1>8, <1>9, <1>10, <1>11, <1>12, <1>13 DEF Drive

\* A step that loses no run and leaves the call alone keeps what is known of it.
LEMMA ScanFrame ==
  ASSUME WalkInv, ScanInv, Kept, due' = due, c' = c \/ c' = [c EXCEPT !.fresh = FALSE]
  PROVE  ScanInv'
  <1>1. /\ c'.pc = c.pc /\ c'.target = c.target /\ c'.known = c.known
        /\ c'.left = c.left /\ c'.found = c.found /\ c'.children = c.children
    BY Aged, Types DEF WalkInv
  <1>2. c.target \in Runs /\ c.found \subseteq Runs
    BY Types DEF WalkInv, Calls
  <1>3. (BeforePasses /\ AtRoot /\ Knows /\ TreeReached)'
    BY <1>1 DEF ScanInv, BeforePasses, AtRoot, Knows, TreeReached
  <1>4. Reaches'
    BY <1>1, <1>2 DEF ScanInv, Reaches, Kept
  <1>5. DueOK'
    BY DEF ScanInv, DueOK, Kept
  <1>6. Scanned'
    BY <1>1 DEF ScanInv, Scanned, Seen
  <1> QED  BY <1>3, <1>4, <1>5, <1>6 DEF ScanInv

\* Every step of an invocation preserves both.
LEMMA InvocationStep ==
  ASSUME TreeInv, NEW r \in Runs, Drive(r) \/ Begin(r) \/ Fail(r) \/ Crash(r)
  PROVE  TreeInv'
  <1>1. WalkInv /\ ScanInv /\ WalkInv'
    BY WorkerStep DEF TreeInv
  <1>2. Kept /\ due' = due /\ (c' = c \/ c' = [c EXCEPT !.fresh = FALSE])
    <2>1. CASE UNCHANGED <<run, c>>
      BY <1>1, <2>1, QuietEffect, WorkerLeaves DEF Leaves
    <2>2. CASE \E x \in Runs, s \in States : s.status # "absent" /\ Write(x, s)
      <3>1. PICK x \in Runs, s \in States : s.status # "absent" /\ Write(x, s)
        BY <2>2
      <3>2. Kept
        BY <1>1, <3>1, WriteEffect
      <3> QED  BY <1>1, <3>1, <3>2, WorkerLeaves DEF Write, Leaves
    <2> QED  BY <1>1, <2>1, <2>2, WorkerLeaves DEF Leaves
  <1> QED  BY <1>1, <1>2, ScanFrame DEF TreeInv

\* A step of the call that writes no run leaves the runs as they are.
LEMMA CallFrame ==
  ASSUME WalkInv, UNCHANGED <<run, workerVars>>, c' \in Calls, due' \subseteq Runs
  PROVE  WalkInv' /\ Kept
  <1>1. TypeOK'
    BY Types DEF WalkInv, TypeOK, States, Calls, workerVars
  <1>2. Kept /\ \A q \in Runs : Spared(q) /\ Fewer(q)
    BY QuietEffect DEF workerVars
  <1>3. \A q \in Runs : RunOK(q)'
    BY <1>2, Frame DEF WalkInv, workerVars
  <1> QED  BY <1>1, <1>2, <1>3 DEF WalkInv

\* A pass begins with the runs that are stored.
LEMMA PassBegins ==
  ASSUME WalkInv, Kept, due' = {r \in Runs : Stored(r)}
  PROVE  DueOK' /\ due' \subseteq Runs
  BY ParentIsRun DEF WalkInv, RunOK, Grounded, Kept, DueOK

\* cancelAgentState returned for the run the call is at.
LEMMA ReachedKeeps ==
  ASSUME WalkInv, ScanInv, Kept, c.pc \in {"load", "save"}, Stored(c.target), c' = Reached(c),
         due' = IF c.target = Root THEN {r \in Runs : Stored(r)} ELSE due
  PROVE  c' \in Calls /\ due' \subseteq Runs /\ ScanInv'
  <1>1. c \in Calls /\ due \subseteq Runs /\ Root \in Runs
    BY Types, ParentIsRun DEF WalkInv
  <1>2. CASE c.target = Root
    <2>1. c' = [c EXCEPT !.pc = "scan", !.fresh = FALSE, !.left = {Root}]
      BY <1>2 DEF Reached
    <2>2. /\ c' \in Calls /\ c'.pc = "scan" /\ c'.target = Root /\ c'.left = {Root}
          /\ c'.known = c.known /\ c'.found = c.found /\ c'.children = c.children
      <3> DEFINE left == {Root}
      <3>1. left \in SUBSET Runs /\ c' = [c EXCEPT !.pc = "scan", !.fresh = FALSE, !.left = left]
        BY <1>1, <2>1
      <3> HIDE DEF left
      <3>2. /\ c' \in Calls /\ c'.pc = "scan" /\ c'.target = Root /\ c'.left = left
            /\ c'.known = c.known /\ c'.found = c.found /\ c'.children = c.children
        BY <1>1, <1>2, <3>1 DEF Calls
      <3> QED  BY <3>2 DEF left
    <2>3. c.known = {Root} /\ due' = {r \in Runs : Stored(r)}
      BY <1>2 DEF ScanInv, BeforePasses
    <2>4. DueOK' /\ due' \subseteq Runs
      BY <2>3, PassBegins
    <2>5. (BeforePasses /\ AtRoot /\ TreeReached)'
      BY <2>2 DEF BeforePasses, AtRoot, TreeReached
    <2>6. Knows'
      BY <1>2, <2>2 DEF ScanInv, Knows
    <2>7. Reaches'
      BY <1>1, <2>2 DEF ScanInv, Reaches, Kept, Calls
    <2>8. Scanned'
      BY <2>2, <2>3 DEF Scanned
    <2> QED  BY <2>2, <2>4, <2>5, <2>6, <2>7, <2>8 DEF ScanInv
  <1>3. CASE c.target # Root
    <2>1. c' = [c EXCEPT !.pc = "scan", !.fresh = FALSE, !.target = Root,
                         !.children = @ \cup {c.target}]
      BY <1>3 DEF Reached
    <2>2. /\ c' \in Calls /\ c'.pc = "scan" /\ c'.target = Root /\ c'.left = c.left
          /\ c'.known = c.known /\ c'.found = c.found
          /\ c'.children = c.children \cup {c.target}
      <3> DEFINE children == c.children \cup {c.target}
      <3>1. /\ children \in SUBSET Runs
            /\ c' = [c EXCEPT !.pc = "scan", !.fresh = FALSE, !.target = Root,
                              !.children = children]
        BY <1>1, <2>1 DEF Calls
      <3> HIDE DEF children
      <3>2. /\ c' \in Calls /\ c'.pc = "scan" /\ c'.target = Root /\ c'.left = c.left
            /\ c'.known = c.known /\ c'.found = c.found /\ c'.children = children
        BY <1>1, <3>1 DEF Calls
      <3> QED  BY <3>2 DEF children
    <2>3. DueOK' /\ due' = due
      BY <1>3 DEF ScanInv, DueOK, Kept
    <2>4. (BeforePasses /\ AtRoot /\ TreeReached)'
      BY <2>2 DEF BeforePasses, AtRoot, TreeReached
    <2>5. Knows'
      BY <2>2 DEF ScanInv, Knows
    <2>6. Reaches'
      BY <1>1, <2>2 DEF ScanInv, Reaches, Kept, Calls
    <2>7. Scanned'
      BY <2>2, <2>3 DEF ScanInv, Scanned, Seen
    <2> QED  BY <1>1, <2>2, <2>3, <2>4, <2>5, <2>6, <2>7 DEF ScanInv
  <1> QED  BY <1>2, <1>3

\* The call is made.
LEMMA CancelStep == ASSUME TreeInv, NEW m \in Modes, Cancel(m) PROVE TreeInv'
  <1>1. WalkInv /\ ScanInv /\ c \in Calls /\ due \subseteq Runs /\ m \in {"request", "final"}
    BY Types, TreeAssumption DEF TreeInv, WalkInv
  <1>2. /\ c.pc = "idle" /\ c' = [c EXCEPT !.pc = "load", !.mode = m]
        /\ UNCHANGED <<run, workerVars, due>>
    BY DEF Cancel
  <1>3. /\ c' \in Calls /\ c'.pc = "load" /\ c'.target = c.target /\ c'.left = c.left
        /\ c'.known = c.known /\ c'.found = c.found /\ c'.children = c.children
    BY <1>1, <1>2 DEF Calls
  <1>4. WalkInv' /\ Kept
    BY <1>1, <1>2, <1>3, CallFrame
  <1>5. (BeforePasses /\ AtRoot /\ Knows /\ TreeReached)'
    BY <1>1, <1>2, <1>3 DEF ScanInv, BeforePasses, AtRoot, Knows, TreeReached
  <1>6. Reaches'
    BY <1>1, <1>3, <1>4 DEF ScanInv, Reaches, Kept, Calls
  <1>7. DueOK' /\ Scanned'
    BY <1>1, <1>2, <1>3, <1>4 DEF ScanInv, DueOK, Scanned, Seen, Kept
  <1> QED  BY <1>4, <1>5, <1>6, <1>7 DEF TreeInv, ScanInv

\* The load of the run the call is at.
LEMMA TargetLoadStep == ASSUME TreeInv, TargetLoad PROVE TreeInv'
  <1>1. WalkInv /\ ScanInv /\ c \in Calls /\ due \subseteq Runs /\ c.target \in Runs
    BY Types DEF TreeInv, WalkInv, Calls
  <1>2. c.pc = "load" /\ UNCHANGED <<run, workerVars>>
    BY DEF TargetLoad
  <1>3. Kept
    BY <1>1, <1>2, QuietEffect
  <1>4. CASE ~Stored(c.target) /\ c' = [c EXCEPT !.pc = "done"] /\ due' = due
    <2>1. /\ c' \in Calls /\ c'.pc = "done" /\ c'.target = c.target /\ c'.left = c.left
          /\ c'.known = c.known /\ c'.found = c.found /\ c'.children = c.children
      BY <1>1, <1>4 DEF Calls
    <2>2. c.target = Root /\ due = {}
      BY <1>1, <1>2, <1>4 DEF ScanInv, Reaches, BeforePasses
    <2>3. (BeforePasses /\ AtRoot /\ Knows /\ TreeReached /\ Scanned /\ DueOK)'
      BY <1>1, <1>4, <2>1, <2>2
         DEF ScanInv, BeforePasses, AtRoot, Knows, TreeReached, Scanned, DueOK
    <2>4. Reaches'
      BY <1>1, <1>3, <2>1, <2>2 DEF ScanInv, Reaches, Kept, Calls
    <2> QED  BY <1>1, <1>2, <1>4, <2>1, <2>3, <2>4, CallFrame DEF TreeInv, ScanInv
  <1>5. CASE /\ Stored(c.target) /\ c' = Reached(c)
             /\ due' = IF c.target = Root THEN {r \in Runs : Stored(r)} ELSE due
    BY <1>1, <1>2, <1>3, <1>5, ReachedKeeps, CallFrame DEF TreeInv
  <1>6. CASE /\ Stored(c.target) /\ c' = [c EXCEPT !.pc = "save", !.fresh = TRUE]
             /\ due' = due
    <2>1. /\ c' \in Calls /\ c'.pc = "save" /\ c'.target = c.target /\ c'.left = c.left
          /\ c'.known = c.known /\ c'.found = c.found /\ c'.children = c.children
      BY <1>1, <1>6 DEF Calls
    <2>2. (BeforePasses /\ AtRoot /\ Knows /\ TreeReached)'
      BY <1>1, <1>2, <1>6, <2>1 DEF ScanInv, BeforePasses, AtRoot, Knows, TreeReached
    <2>3. Reaches'
      BY <1>1, <1>3, <1>6, <2>1 DEF ScanInv, Reaches, Kept, Calls
    <2>4. DueOK' /\ Scanned'
      BY <1>1, <1>2, <1>3, <1>6, <2>1 DEF ScanInv, DueOK, Scanned, Seen, Kept
    <2> QED  BY <1>1, <1>2, <1>6, <2>1, <2>2, <2>3, <2>4, CallFrame DEF TreeInv, ScanInv
  <1>7. Stored(c.target) => \/ c'.pc = "scan" /\ c' = Reached(c)
                            \/ c' = [c EXCEPT !.pc = "save", !.fresh = TRUE]
    <2>1. Reached(c).pc = "scan"
      BY <1>1 DEF Reached, Calls
    <2> QED  BY <2>1 DEF TargetLoad
  <1>8. /\ ~Stored(c.target) => c' = [c EXCEPT !.pc = "done"]
        /\ due' = IF c'.pc = "scan" /\ c.target = Root THEN {r \in Runs : Stored(r)} ELSE due
    BY DEF TargetLoad
  <1>9. /\ [c EXCEPT !.pc = "done"].pc = "done"
        /\ [c EXCEPT !.pc = "save", !.fresh = TRUE].pc = "save"
    BY <1>1 DEF Calls
  <1> QED  BY <1>4, <1>5, <1>6, <1>7, <1>8, <1>9

\* The cancellation is stored, or meets another revision.
LEMMA TargetSaveStep == ASSUME TreeInv, TargetSave PROVE TreeInv'
  <1>1. WalkInv /\ ScanInv /\ TypeOK /\ c \in Calls /\ due \subseteq Runs /\ c.target \in Runs
    BY Types DEF TreeInv, WalkInv, Calls
  <1>2. c.pc = "save" /\ UNCHANGED <<pc, why, at, resumes>> /\ Stored(c.target)
    BY <1>1 DEF TargetSave, ScanInv, Reaches
  <1>3. CASE /\ CancellerWrite(c.target,
                  [status |-> IF run[c.target].status = "cancelled" THEN "cancelled"
                              ELSE StatusOf(c.mode),
                   cascade |-> run[c.target].cascade \/ Cascading])
             /\ c' = Reached(c)
             /\ due' = IF c.target = Root THEN {r \in Runs : Stored(r)} ELSE due
    <2> DEFINE t == IF run[c.target].status = "cancelled" THEN "cancelled" ELSE StatusOf(c.mode)
               b == run[c.target].cascade \/ Cascading
               x == [status |-> t, cascade |-> b]
    <2>1. t \in {"cancel_requested", "cancelled"} /\ b \in BOOLEAN
      <3>1. run[c.target].cascade \in BOOLEAN
        BY <1>1, Types DEF States
      <3>2. b \in BOOLEAN
        BY <3>1, Zenon DEF Cascading, TreeAssumption
      <3> QED  BY <3>2 DEF StatusOf
    <2>2. CancellerWrite(c.target, x)
      BY <1>3
    <2> HIDE DEF t, b
    <2>3. x \in States /\ x.status # "absent" /\ IsCancelled(x)
      BY <2>1 DEF States, Statuses, IsCancelled
    <2> HIDE DEF x
    <2>4. /\ run' \in [Runs -> States] /\ run'[c.target] = x
          /\ above' \in [Runs -> SUBSET Runs] /\ Kept
          /\ \A q \in Runs : Fewer(q) /\ (q # c.target => Spared(q))
      BY <1>1, <2>2, <2>3, WriteLeaves DEF CancellerWrite
    <2>5. \A q \in Runs : Spared(q)
      BY <1>2, <2>3, <2>4 DEF Spared, IsCancelled
    <2>6. \A q \in Runs : RunOK(q)'
      BY <1>1, <1>2, <2>4, <2>5, Frame DEF WalkInv
    <2>7. c' \in Calls /\ due' \subseteq Runs /\ ScanInv'
      BY <1>1, <1>2, <1>3, <2>4, ReachedKeeps
    <2>8. fresh' \in [Runs -> BOOLEAN]
      BY <1>1, <2>2, Types, Zenon DEF CancellerWrite
    <2>9. TypeOK'
      BY <1>1, <1>2, <2>4, <2>7, <2>8, Types DEF TypeOK, States, Calls
    <2> QED  BY <2>6, <2>7, <2>9 DEF TreeInv, WalkInv
  <1>4. CASE c' = [c EXCEPT !.pc = "load"] /\ UNCHANGED <<run, fresh, above, due>>
    <2>1. /\ c' \in Calls /\ c'.pc = "load" /\ c'.target = c.target /\ c'.left = c.left
          /\ c'.known = c.known /\ c'.found = c.found /\ c'.children = c.children
      BY <1>1, <1>4 DEF Calls
    <2>2. WalkInv' /\ Kept
      BY <1>1, <1>2, <1>4, <2>1, CallFrame DEF workerVars
    <2>3. (BeforePasses /\ AtRoot /\ Knows /\ TreeReached)'
      BY <1>1, <1>2, <1>4, <2>1 DEF ScanInv, BeforePasses, AtRoot, Knows, TreeReached
    <2>4. Reaches'
      BY <1>1, <2>1, <2>2 DEF ScanInv, Reaches, Kept, Calls
    <2>5. DueOK' /\ Scanned'
      BY <1>1, <1>2, <1>4, <2>1, <2>2 DEF ScanInv, DueOK, Scanned, Seen, Kept
    <2> QED  BY <2>2, <2>3, <2>4, <2>5 DEF TreeInv, ScanInv
  <1> QED  BY <1>3, <1>4 DEF TargetSave

\* The children of a run are looked up: of what the pass is through with, they are found.
LEMMA FindChildrenStep == ASSUME TreeInv, FindChildren PROVE TreeInv'
  <1>1. WalkInv /\ ScanInv /\ c \in Calls /\ due \subseteq Runs
    BY Types DEF TreeInv, WalkInv
  <1>2. /\ c.pc = "scan" /\ c.found = {} /\ UNCHANGED <<run, workerVars, due>>
        /\ \E p \in c.left :
             c' = [c EXCEPT !.left = @ \ {p}, !.found = {d \in Children(p) : Stored(d)}]
    BY DEF FindChildren
  <1>3. PICK p \in c.left :
          c' = [c EXCEPT !.left = @ \ {p}, !.found = {d \in Children(p) : Stored(d)}]
    BY <1>2
  <1> DEFINE left == c.left \ {p}
             found == {d \in Children(p) : Stored(d)}
  <1>4. /\ left \in SUBSET Runs /\ found \in SUBSET Runs
        /\ c' = [c EXCEPT !.left = left, !.found = found]
    BY <1>1, <1>3, ParentIsRun DEF Calls
  <1>5. \A d : d \in found <=> d \in Runs /\ d # Root /\ Parent[d] = p /\ Stored(d)
    BY TreeAssumption DEF Children
  <1>6. \A d \in Runs : d \in c.left /\ d \notin left => d = p
    OBVIOUS
  <1> HIDE DEF left, found
  <1>7. /\ c' \in Calls /\ c'.pc = "scan" /\ c'.target = c.target /\ c'.left = left
        /\ c'.known = c.known /\ c'.found = found /\ c'.children = c.children
    BY <1>1, <1>2, <1>4 DEF Calls
  <1>8. WalkInv' /\ Kept
    BY <1>1, <1>2, <1>7, CallFrame
  <1>9. (BeforePasses /\ AtRoot /\ Knows /\ TreeReached)'
    BY <1>1, <1>2, <1>7 DEF ScanInv, BeforePasses, AtRoot, Knows, TreeReached
  <1>10. Reaches'
    BY <1>1, <1>2, <1>5, <1>7, <1>8, ParentIsRun DEF ScanInv, Reaches, AtRoot, Kept
  <1>11. DueOK'
    BY <1>1, <1>2, <1>8 DEF ScanInv, DueOK, Kept
  <1>12. Scanned'
    <2> SUFFICES ASSUME NEW d \in due, d # Root, Parent[d] \in c.known, Parent[d] \notin left
                 PROVE  d \in found \/ d \in c.children \cup {c.target}
      BY <1>2, <1>7 DEF Scanned, Seen
    <2>1. d \in Runs /\ Stored(d) /\ Parent[d] \in Runs
      BY <1>1, ParentIsRun DEF ScanInv, DueOK
    <2>2. CASE Parent[d] \in c.left
      BY <1>5, <1>6, <2>1, <2>2
    <2>3. CASE Parent[d] \notin c.left
      BY <1>1, <1>2, <2>3 DEF ScanInv, Scanned, Seen
    <2> QED  BY <2>2, <2>3
  <1> QED  BY <1>8, <1>9, <1>10, <1>11, <1>12 DEF TreeInv, ScanInv

\* The call goes on to a run it has found; a new one is scanned in the same pass.
LEMMA CancelChildStep == ASSUME TreeInv, CancelChild PROVE TreeInv'
  <1>1. WalkInv /\ ScanInv /\ c \in Calls /\ due \subseteq Runs
    BY Types DEF TreeInv, WalkInv
  <1>2. /\ c.pc = "scan" /\ UNCHANGED <<run, workerVars, due>>
        /\ \E d \in c.found : c' = NextChild(d)
    BY DEF CancelChild
  <1>3. PICK t \in c.found : c' = NextChild(t)
    BY <1>2
  <1> DEFINE found == c.found \ {t}
             known == c.known \cup {t}
             left == IF t \in c.known THEN c.left ELSE c.left \cup {t}
             discovered == c.discovered \/ t \notin c.known
  <1>4. t \in Runs /\ t # Root /\ Stored(t)
    BY <1>1, <1>3 DEF ScanInv, Reaches, Calls
  <1>5. /\ found \in SUBSET Runs /\ known \in SUBSET Runs /\ left \in SUBSET Runs
    BY <1>1, <1>4 DEF Calls
  <1>6. discovered \in BOOLEAN
    OBVIOUS
  <1>7. c' = [c EXCEPT !.pc = "load", !.target = t, !.found = found, !.known = known,
                       !.left = left, !.discovered = discovered]
    BY <1>3 DEF NextChild
  <1>8. \A d : /\ d \in c.found => d \in found \/ d = t
               /\ d \in found => d \in c.found
               /\ d \in known /\ d \notin left => d \in c.known /\ d \notin c.left
               /\ d \in c.known \/ d = t => d \in known
    OBVIOUS
  <1> HIDE DEF found, known, left, discovered
  <1>9. /\ c' \in Calls /\ c'.pc = "load" /\ c'.target = t /\ c'.left = left
        /\ c'.known = known /\ c'.found = found /\ c'.children = c.children
    BY <1>1, <1>4, <1>5, <1>6, <1>7 DEF Calls
  <1>10. WalkInv' /\ Kept
    BY <1>1, <1>2, <1>9, CallFrame
  <1>11. (BeforePasses /\ AtRoot /\ TreeReached)'
    BY <1>4, <1>9 DEF BeforePasses, AtRoot, TreeReached
  <1>12. Knows'
    BY <1>1, <1>8, <1>9 DEF ScanInv, Knows
  <1>13. Reaches'
    BY <1>1, <1>4, <1>8, <1>9, <1>10 DEF ScanInv, Reaches, Kept, Calls
  <1>14. DueOK'
    BY <1>1, <1>2, <1>10 DEF ScanInv, DueOK, Kept
  <1>15. Scanned'
    <2> SUFFICES ASSUME NEW d \in due, d # Root, Parent[d] \in known, Parent[d] \notin left
                 PROVE  d \in found \/ d \in c.children \/ d = t
      BY <1>2, <1>9 DEF Scanned, Seen
    <2>1. d \in c.found \/ d \in c.children \/ d = Root
      BY <1>1, <1>2, <1>8 DEF ScanInv, Scanned, Seen, AtRoot
    <2> QED  BY <1>8, <2>1
  <1> QED  BY <1>10, <1>11, <1>12, <1>13, <1>14, <1>15 DEF TreeInv, ScanInv

\* A pass that is through, with nothing left, has found all that was stored when it began.
LEMMA PassComplete ==
  ASSUME WalkInv, ScanInv, c.pc = "scan", c.found = {}, c.left = {}
  PROVE  due \subseteq c.children \cup {Root}
  <1> DEFINE missed == due \ (c.children \cup {Root})
  <1>1. \A d \in due : /\ d \in Runs
                       /\ d # Root => Parent[d] \in due /\ Root \in Ancestors(d)
    BY DEF ScanInv, DueOK
  <1>2. \A d \in due : d # Root /\ Parent[d] \in c.known => d \in c.children
    BY DEF ScanInv, Scanned, Seen, AtRoot
  <1>3. c.children \cup {Root} \subseteq c.known
    BY DEF ScanInv, Knows
  <1>4. missed \in SUBSET (Runs \ {Root})
    BY <1>1
  <1>5. \A d \in missed : Root \in Ancestors(d) /\ Parent[d] \in missed
    BY <1>1, <1>2, <1>3
  <1> HIDE DEF missed
  <1>6. missed = {}
    BY <1>4, <1>5, NoneUngrounded
  <1> QED  BY <1>6 DEF missed

\* The next pass begins, or the call is done.
LEMMA NextPassStep == ASSUME TreeInv, NextPass PROVE TreeInv'
  <1>1. WalkInv /\ ScanInv /\ c \in Calls /\ due \subseteq Runs /\ Root \in Runs
    BY Types, ParentIsRun DEF TreeInv, WalkInv
  <1>2. /\ c.pc = "scan" /\ c.found = {} /\ c.left = {} /\ UNCHANGED <<run, workerVars>>
        /\ c.target = Root
    BY <1>1 DEF NextPass, ScanInv, AtRoot
  <1>3. Kept
    BY <1>1, <1>2, QuietEffect
  <1>4. CASE c' = [NewCall EXCEPT !.pc = "done"] /\ due' = due \ (c.children \cup {Root})
    <2>1. NewCall \in Calls
      BY <1>1, TreeAssumption DEF NewCall, Calls
    <2>2. /\ c' \in Calls /\ c'.pc = "done" /\ c'.target = Root
          /\ c'.known = {Root} /\ c'.found = {} /\ c'.children = {}
      BY <1>4, <2>1 DEF NewCall, Calls
    <2>3. due' = {}
      BY <1>1, <1>2, <1>4, PassComplete
    <2>4. ScanInv'
      BY <2>2, <2>3 DEF ScanInv, BeforePasses, AtRoot, Reaches, Knows, DueOK, Scanned,
                        TreeReached
    <2> QED  BY <1>1, <1>2, <2>2, <2>3, <2>4, CallFrame DEF TreeInv
  <1>5. CASE /\ c.pass < Passes - 1
             /\ c' = [c EXCEPT !.pass = @ + 1, !.left = c.known, !.discovered = FALSE]
             /\ due' = {r \in Runs : Stored(r)}
    <2> DEFINE pass == c.pass + 1
               known == c.known
    <2>1. pass \in 0..(Passes - 1) /\ known \in SUBSET Runs
      BY <1>1, <1>5, TreeAssumption DEF Calls
    <2>2. c' = [c EXCEPT !.pass = pass, !.left = known, !.discovered = FALSE]
      BY <1>5
    <2> HIDE DEF pass, known
    <2>3. /\ c' \in Calls /\ c'.pc = "scan" /\ c'.target = c.target /\ c'.left = known
          /\ c'.known = c.known /\ c'.found = c.found /\ c'.children = c.children
      BY <1>1, <1>2, <2>1, <2>2 DEF Calls
    <2>4. DueOK' /\ due' \subseteq Runs
      BY <1>1, <1>3, <1>5, PassBegins
    <2>5. (BeforePasses /\ AtRoot /\ Knows /\ TreeReached)'
      BY <1>1, <1>2, <2>3 DEF ScanInv, BeforePasses, AtRoot, Knows, TreeReached
    <2>6. Reaches'
      BY <1>2, <2>3 DEF Reaches
    <2>7. Scanned'
      BY <2>3 DEF Scanned, known
    <2> QED  BY <1>1, <1>2, <2>3, <2>4, <2>5, <2>6, <2>7, CallFrame DEF TreeInv, ScanInv
  <1> QED  BY <1>4, <1>5 DEF NextPass

----------------------------------------------------------------------------
(* The theorems                                                            *)

\* The invariant holds before anything is stored.
LEMMA InitTreeInv == Init => TreeInv
  <1> SUFFICES ASSUME Init PROVE TreeInv
    OBVIOUS
  <1>1. c = NewCall /\ NewCall \in Calls
    BY TreeAssumption DEF Init, NewCall, Calls
  <1>2. TypeOK
    <2>1. run \in [Runs -> States]
      BY DEF Init, States, Statuses
    <2>2. /\ pc \in [Runs -> PCs] /\ why \in [Runs -> Reasons]
          /\ at \in [Runs -> Runs \cup {NoRun}] /\ above \in [Runs -> SUBSET Runs]
      BY DEF Init, PCs, Reasons
    <2>3. fresh \in [Runs -> BOOLEAN] /\ resumes \in 0..MaxResumes /\ due \subseteq Runs
      BY TreeAssumption DEF Init
    <2> QED  BY <1>1, <2>1, <2>2, <2>3, Types
  <1>3. \A r \in Runs : RunOK(r)
    BY DEF Init, RunOK, ClaimHolds, Driven, Working, Grounded, Stored, MarksKept, WalksUp,
           Checked
  <1>4. ScanInv
    BY <1>1 DEF Init, NewCall, ScanInv, BeforePasses, AtRoot, Reaches, Knows, DueOK, Scanned,
                TreeReached
  <1> QED  BY <1>2, <1>3, <1>4 DEF TreeInv, WalkInv

\* Every step preserves it.
LEMMA NextTreeInv == TreeInv /\ [Next]_vars => TreeInv'
  <1> SUFFICES ASSUME TreeInv, [Next]_vars PROVE TreeInv'
    OBVIOUS
  <1>1. CASE Next
    BY <1>1, InvocationStep, CancelStep, TargetLoadStep, TargetSaveStep, FindChildrenStep,
       CancelChildStep, NextPassStep DEF Next, CancelTree
  <1>2. CASE UNCHANGED vars
    <2>1. WalkInv /\ ScanInv /\ c \in Calls /\ due \subseteq Runs
      BY Types DEF TreeInv, WalkInv
    <2>2. UNCHANGED <<run, workerVars, c, due>>
      BY <1>2 DEF vars, workerVars
    <2> QED  BY <2>1, <2>2, CallFrame, ScanFrame DEF TreeInv
  <1> QED  BY <1>1, <1>2

\* The invariant of the tree, for any tree, runs and resumptions.
THEOREM TreeInvariance == Spec => []TreeInv
  BY InitTreeInv, NextTreeInv, PTL DEF Spec

\* The types of the tree's variables.
THEOREM TypeCorrect == Spec => []TypeOK
  <1>1. TreeInv => TypeOK
    BY DEF TreeInv, WalkInv
  <1> QED  BY TreeInvariance, <1>1, PTL

\* No late child works below a marked ancestor on a check that began after the mark was
\* stored, in a tree of any depth, whatever ended, failed or was resumed in between.
THEOREM NoLateChild == Spec => []NoneSlipsPast
  <1>1. TreeInv => NoneSlipsPast
    BY DEF TreeInv, WalkInv, RunOK, Checked, NoneSlipsPast
  <1> QED  BY TreeInvariance, <1>1, PTL

\* The result of cancelAgentRunTree lists every descendant that was stored when its last
\* pass began, in a tree of any depth that grows while it is walked.
THEOREM WholeTreeReached == Spec => []TreeReached
  <1>1. TreeInv => TreeReached
    BY DEF TreeInv, ScanInv
  <1> QED  BY TreeInvariance, <1>1, PTL
================================================================================
