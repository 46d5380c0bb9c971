---- MODULE AgentTree ----
(***************************************************************************)
(* The cancellation of a tree of runs: cancelAgentRunTree, which stores    *)
(* the intent on the root and then looks for the runs below it, against    *)
(* the runs of the tree, which start subagents meanwhile and look for an   *)
(* intent stored above them (synchronizeAgentCancellation) before each     *)
(* thing they do.  Every load and save of the run store is a step.         *)
(*                                                                         *)
(* One run in detail, with its lease, journal and checkpoints, is          *)
(* AgentRun; here a run is its status and cascade mark, and at most one    *)
(* invocation drives it at a time (the lease monitor is off).  A revision  *)
(* is known by whether it is still the one a process loaded.               *)
(***************************************************************************)
EXTENDS Integers

CONSTANTS Runs, Root,
          Parent,         \* run -> the run whose subagent it is, but for the root
          Passes,         \* rescans of the tree (4 in the code)
          Modes,          \* options.mode of the callers: "request", "final"
          CascadeOption,  \* options.cascade of the caller of cancelAgentRunTree
          Resumed,        \* bound: runs that are resumed
          MaxResumes,     \* bound: invocations that resume one
          NoRun

ASSUME TreeAssumption ==
  /\ Root \in Runs /\ NoRun \notin Runs
  /\ Parent \in [Runs \ {Root} -> Runs]
  /\ Passes \in Nat \ {0}
  /\ Modes \subseteq {"request", "final"} /\ CascadeOption \in BOOLEAN
  /\ Resumed \subseteq Runs /\ MaxResumes \in Nat

VARIABLES run,      \* run -> its record in the store
          pc,       \* run -> where the invocation that drives it is
          why,      \* run -> what its cancellation check is for
          at,       \* run -> the ancestor the check looks up next
          fresh,    \* run -> its invocation holds the stored revision
          resumes,  \* how often a run was resumed
          c,        \* the call of cancelAgentRunTree
          above,    \* history: run -> the marks its check must find
          due       \* history: runs stored when the last pass began, and in the
                    \* end those of them that are not in the result

vars == <<run, pc, why, at, fresh, resumes, c, above, due>>
workerVars == <<pc, why, at, fresh, resumes, above>>

----------------------------------------------------------------------------

Statuses == {"absent", "queued", "running", "completed", "failed",
             "cancel_requested", "cancelled"}

Reasons == {"claim", "reclaim", "confirm", "model", "step", "tool", "finish", "failure"}

\* Between none and ended the invocation is under way.
PCs == {"none", "ended", "self", "ancestors", "cancelLoad", "cancelSave", "claim", "model",
        "tools", "waiting", "finish", "failLoad", "failSave"}

Working == {"model", "tools", "waiting"}

NewCall == [pc |-> "idle", mode |-> "request", target |-> Root, fresh |-> FALSE,
            pass |-> 0, known |-> {Root}, left |-> {}, found |-> {},
            discovered |-> FALSE, children |-> {}]

TypeOK ==
  /\ run \in [Runs -> [status : Statuses, cascade : BOOLEAN]]
  /\ pc \in [Runs -> PCs]
  /\ why \in [Runs -> Reasons]
  /\ at \in [Runs -> Runs \cup {NoRun}]
  /\ fresh \in [Runs -> BOOLEAN]
  /\ resumes \in 0..MaxResumes
  /\ c \in [pc : {"idle", "load", "save", "scan", "done"}, mode : {"request", "final"},
            target : Runs, fresh : BOOLEAN, pass : 0..(Passes - 1),
            known : SUBSET Runs, left : SUBSET Runs, found : SUBSET Runs,
            discovered : BOOLEAN, children : SUBSET Runs]
  /\ above \in [Runs -> SUBSET Runs]
  /\ due \subseteq Runs

Init ==
  /\ run = [r \in Runs |-> [status |-> "absent", cascade |-> FALSE]]
  /\ pc = [r \in Runs |-> "none"]
  /\ why = [r \in Runs |-> "claim"]
  /\ at = [r \in Runs |-> NoRun]
  /\ fresh = [r \in Runs |-> FALSE]
  /\ resumes = 0
  /\ c = NewCall
  /\ above = [r \in Runs |-> {}]
  /\ due = {}

Stored(r) == run[r].status # "absent"
IsCancelled(s) == s.status \in {"cancel_requested", "cancelled"}
IsTerminal(s) == s.status \in {"completed", "failed", "cancelled"}

\* The intent that holds for the runs below.
Marked(r) == run[r].cascade /\ IsCancelled(run[r])

Children(r) == {d \in DOMAIN Parent : Parent[d] = r}

\* The runs up the chain of parents: the smallest set that has, of the run and
\* of each of its own, the parent.
Ancestors(r) ==
  {a \in Runs : \A up \in SUBSET Runs :
     (\A d \in (up \cup {r}) \ {Root} : Parent[d] \in up) => a \in up}

----------------------------------------------------------------------------
(* Writes.  A write makes old what the other process holds of the record,  *)
(* and takes its marks from those a check under way must find.             *)

StillMarked(r, s) ==
  [d \in Runs |-> IF s.cascade /\ IsCancelled(s) THEN above[d] ELSE above[d] \ {r}]

\* By the invocation that drives the run.
Write(r, s) ==
  /\ run' = [run EXCEPT ![r] = s]
  /\ c' = IF c.target = r THEN [c EXCEPT !.fresh = FALSE] ELSE c
  /\ above' = StillMarked(r, s)

\* By the canceller.
CancellerWrite(r, s) ==
  /\ run' = [run EXCEPT ![r] = s]
  /\ fresh' = [fresh EXCEPT ![r] = FALSE]
  /\ above' = StillMarked(r, s)

Goto(r, there) == pc' = [pc EXCEPT ![r] = there]
Holding(r, b) == fresh' = [fresh EXCEPT ![r] = b]

\* synchronizeAgentCancellation begins.
Check(r, reason) == Goto(r, "self") /\ why' = [why EXCEPT ![r] = reason]

----------------------------------------------------------------------------
(* synchronizeAgentCancellation *)

Leave(r, there) == Goto(r, there) /\ why' = [why EXCEPT ![r] = "claim"]

\* The check found no cancellation.  After a step the response was the final
\* answer or asked for tools.
Clear(r) ==
  \/ why[r] = "claim" /\ Leave(r, "claim")
  \/ why[r] = "confirm" /\ Check(r, "model")
  \/ why[r] = "model" /\ Leave(r, "model")
  \/ why[r] = "step" /\ (Leave(r, "finish") \/ Check(r, "tool"))
  \/ why[r] = "tool" /\ Leave(r, "tools")
  \/ why[r] = "failure" /\ Leave(r, "failLoad")
  \/ why[r] \in {"reclaim", "finish"} /\ Leave(r, "ended")

Found(r) == Leave(r, "ended")

LoadSelf(r) ==
  /\ pc[r] = "self"
  /\ above' = [above EXCEPT ![r] = {a \in Ancestors(r) : Marked(a)}]
  /\ \/ IsCancelled(run[r]) /\ Found(r) /\ UNCHANGED at
     \/ ~IsCancelled(run[r]) /\ r = Root /\ Clear(r) /\ UNCHANGED at
     \/ /\ ~IsCancelled(run[r]) /\ r # Root
        /\ at' = [at EXCEPT ![r] = Parent[r]]
        /\ Goto(r, "ancestors")
        /\ UNCHANGED why
  /\ UNCHANGED <<run, fresh, resumes, c, due>>

\* Mutant: the check does not look past a run that has ended.
LoadAncestorActive(r) ==
  /\ pc[r] = "ancestors"
  /\ \/ /\ Marked(at[r])
        /\ Goto(r, "cancelLoad")
        /\ UNCHANGED <<why, at>>
     \/ /\ ~Marked(at[r])
        /\ ~Stored(at[r]) \/ at[r] = Root \/ IsTerminal(run[at[r]])
        /\ Clear(r)
        /\ at' = [at EXCEPT ![r] = NoRun]
     \/ /\ ~Marked(at[r]) /\ Stored(at[r]) /\ at[r] # Root /\ ~IsTerminal(run[at[r]])
        /\ at' = [at EXCEPT ![r] = Parent[at[r]]]
        /\ UNCHANGED <<pc, why>>
  /\ UNCHANGED <<run, fresh, resumes, c, above, due>>

LoadAncestor(r) ==
  /\ pc[r] = "ancestors"
  /\ \/ /\ Marked(at[r])
        /\ Goto(r, "cancelLoad")
        /\ UNCHANGED <<why, at>>
     \/ /\ ~Marked(at[r])
        /\ ~Stored(at[r]) \/ at[r] = Root
        /\ Clear(r)
        /\ at' = [at EXCEPT ![r] = NoRun]
     \/ /\ ~Marked(at[r]) /\ Stored(at[r]) /\ at[r] # Root
        /\ at' = [at EXCEPT ![r] = Parent[at[r]]]
        /\ UNCHANGED <<pc, why>>
  /\ UNCHANGED <<run, fresh, resumes, c, above, due>>

StatusOf(m) == IF m = "final" THEN "cancelled" ELSE "cancel_requested"

\* cancelAgentState on the run itself, which keeps a terminal status: a run
\* that failed before is not cancelled by its check.  The mode, that of the
\* ancestor, is either one here; a final cancellation is never downgraded.
CancelLoad(r) ==
  /\ pc[r] = "cancelLoad"
  /\ at' = [at EXCEPT ![r] = NoRun]
  /\ \/ IsTerminal(run[r]) /\ ~IsCancelled(run[r]) /\ Clear(r)
     \/ IsCancelled(run[r]) /\ Found(r)
     \/ /\ ~IsTerminal(run[r])
        /\ IsCancelled(run[r]) => "final" \in Modes
        /\ Goto(r, "cancelSave")
        /\ UNCHANGED why
  /\ Holding(r, TRUE)
  /\ UNCHANGED <<run, resumes, c, above, due>>

CancelSave(r) ==
  /\ pc[r] = "cancelSave"
  /\ \/ /\ fresh[r]
        /\ \E m \in Modes : Write(r, [run[r] EXCEPT !.status = StatusOf(m)])
        /\ Found(r)
     \/ ~fresh[r] /\ Goto(r, "cancelLoad") /\ UNCHANGED <<run, c, above, why>>
  /\ UNCHANGED <<at, fresh, resumes, due>>

----------------------------------------------------------------------------
(* The invocation *)

\* runAgent or resumeAgent, by a caller or by the tool of the parent.  The
\* claim of the idempotency key stores a subagent before it is checked; a run
\* without a key is first stored by claimAgentExecution.
Begins(r) ==
  /\ \/ pc[r] = "none" /\ UNCHANGED resumes
     \/ /\ pc[r] = "ended" /\ r \in Resumed /\ resumes < MaxResumes
        /\ resumes' = resumes + 1
  /\ run[r].status # "completed" /\ ~IsCancelled(run[r])
  /\ Holding(r, TRUE)
  /\ UNCHANGED <<at, due>>

Begin(r) == /\ r = Root \/ Stored(r)
            /\ Begins(r)
            /\ Check(r, "claim")
            /\ UNCHANGED <<run, c, above>>

ClaimSave(r) ==
  /\ pc[r] = "claim"
  /\ \/ fresh[r] /\ Write(r, [run[r] EXCEPT !.status = "running"]) /\ Check(r, "confirm")
     \/ ~fresh[r] /\ Check(r, "reclaim") /\ UNCHANGED <<run, c, above>>
  /\ UNCHANGED <<at, fresh, resumes, due>>

\* A checkpoint, moved over the cancellation that changed the record if one
\* did: the status that is stored remains.
Checkpoint(r) ==
  /\ Write(r, run[r])
  /\ Holding(r, TRUE)

\* The model answers and the response is checkpointed.
ModelStep(r) == /\ pc[r] = "model"
                /\ Checkpoint(r)
                /\ Check(r, "step")
                /\ UNCHANGED <<at, resumes, due>>

\* A subagent tool: the parent waits for the run it started.
Delegate(r, d) ==
  /\ pc[r] = "tools"
  /\ Begins(d)
  /\ pc' = [pc EXCEPT ![r] = "waiting", ![d] = "self"]
  /\ why' = [why EXCEPT ![d] = "claim"]
  /\ \/ ~Stored(d) /\ Write(d, [run[d] EXCEPT !.status = "queued"])
     \/ UNCHANGED <<run, c, above>>

\* The tool returned: one of another kind, or a subagent that ended or that
\* was waited for no longer.  Its result is checkpointed.
ToolsDone(r) ==
  /\ \/ pc[r] = "tools"
     \/ pc[r] = "waiting" /\ \E d \in Children(r) : pc[d] = "ended"
  /\ Checkpoint(r)
  /\ Check(r, "model")
  /\ UNCHANGED <<at, resumes, due>>

Finish(r) ==
  /\ pc[r] = "finish"
  /\ Write(r, IF fresh[r] THEN [run[r] EXCEPT !.status = "completed"] ELSE run[r])
  /\ Holding(r, TRUE)
  /\ Check(r, "finish")
  /\ UNCHANGED <<at, resumes, due>>

\* A model, a tool or a store throws: cancellationAfterFailure, then
\* loadFailureState and persistFailureState, whose conflict is swallowed.
Fail(r) == /\ pc[r] \in Working \cup {"finish"}
           /\ Check(r, "failure")
           /\ UNCHANGED <<run, at, fresh, resumes, c, above, due>>

FailLoad(r) == /\ pc[r] = "failLoad"
               /\ Goto(r, "failSave")
               /\ Holding(r, TRUE)
               /\ UNCHANGED <<run, why, at, resumes, c, above, due>>

FailSave(r) ==
  /\ pc[r] = "failSave"
  /\ \/ fresh[r] /\ Write(r, [run[r] EXCEPT !.status = "failed"])
     \/ ~fresh[r] /\ UNCHANGED <<run, c, above>>
  /\ Leave(r, "ended")
  /\ Holding(r, FALSE)
  /\ UNCHANGED <<at, resumes, due>>

Crash(r) == /\ pc[r] \notin {"none", "ended"}
            /\ Leave(r, "ended")
            /\ at' = [at EXCEPT ![r] = NoRun]
            /\ above' = [above EXCEPT ![r] = {}]
            /\ Holding(r, FALSE)
            /\ UNCHANGED <<run, resumes, c, due>>

----------------------------------------------------------------------------
(* cancelAgentRunTree *)

Cancel(m) == /\ c.pc = "idle"
             /\ c' = [c EXCEPT !.pc = "load", !.mode = m]
             /\ UNCHANGED <<run, workerVars, due>>

\* options.cascade of this call of cancelAgentState.
Cascading == c.target = Root \/ CascadeOption

\* cancelAgentState returned for the target: the passes begin, or go on with
\* the next child found.
Reached(d) ==
  IF d.target = Root
  THEN [d EXCEPT !.pc = "scan", !.fresh = FALSE, !.left = {Root}]
  ELSE [d EXCEPT !.pc = "scan", !.fresh = FALSE, !.target = Root,
                 !.children = @ \cup {d.target}]

TargetLoad ==
  LET s == run[c.target]
      returns == \/ c.target # Root /\ IsTerminal(s)
                 \/ /\ IsCancelled(s)
                    /\ s.status = "cancelled" \/ c.mode # "final"
                    /\ Cascading => s.cascade
  IN /\ c.pc = "load"
     /\ c' = IF ~Stored(c.target) THEN [c EXCEPT !.pc = "done"]
             ELSE IF returns THEN Reached(c)
             ELSE [c EXCEPT !.pc = "save", !.fresh = TRUE]
     /\ due' = IF c'.pc = "scan" /\ c.target = Root THEN {r \in Runs : Stored(r)} ELSE due
     /\ UNCHANGED <<run, workerVars>>

TargetSave ==
  LET s == run[c.target]
  IN /\ c.pc = "save"
     /\ \/ /\ c.fresh
           /\ CancellerWrite(c.target,
                [status |-> IF s.status = "cancelled" THEN "cancelled" ELSE StatusOf(c.mode),
                 cascade |-> s.cascade \/ Cascading])
           /\ c' = Reached(c)
           /\ due' = IF c.target = Root THEN {r \in Runs : Stored(r)} ELSE due
        \/ /\ ~c.fresh
           /\ c' = [c EXCEPT !.pc = "load"]
           /\ UNCHANGED <<run, fresh, above, due>>
     /\ UNCHANGED <<pc, why, at, resumes>>

\* findByParentRunId of a run that is known.
FindChildren ==
  /\ c.pc = "scan" /\ c.found = {}
  /\ \E p \in c.left :
       c' = [c EXCEPT !.left = @ \ {p}, !.found = {d \in Children(p) : Stored(d)}]
  /\ UNCHANGED <<run, workerVars, due>>

\* Mutant: the pass goes over the runs known when it began.
NextChildKnown(d) ==
  [c EXCEPT !.pc = "load", !.target = d, !.found = @ \ {d}]

\* A run that is new to the call is scanned in the pass that found it.
NextChild(d) ==
  [c EXCEPT !.pc = "load", !.target = d, !.found = @ \ {d},
            !.known = @ \cup {d},
            !.left = IF d \in c.known THEN @ ELSE @ \cup {d},
            !.discovered = @ \/ d \notin c.known]

CancelChild == /\ c.pc = "scan"
               /\ \E d \in c.found : c' = NextChild(d)
               /\ UNCHANGED <<run, workerVars, due>>

NextPass ==
  /\ c.pc = "scan" /\ c.found = {} /\ c.left = {}
  /\ \/ /\ c.pass = Passes - 1 \/ (c.pass > 0 /\ ~c.discovered)
        /\ c' = [NewCall EXCEPT !.pc = "done"]
        /\ due' = due \ (c.children \cup {Root})
     \/ /\ c.pass < Passes - 1 /\ (c.pass = 0 \/ c.discovered)
        /\ c' = [c EXCEPT !.pass = @ + 1, !.left = c.known, !.discovered = FALSE]
        /\ due' = {r \in Runs : Stored(r)}
  /\ UNCHANGED <<run, workerVars>>

----------------------------------------------------------------------------

\* What an invocation does once it is begun.
Drive(r) ==
  \/ LoadSelf(r) \/ LoadAncestor(r) \/ CancelLoad(r) \/ CancelSave(r)
  \/ ClaimSave(r) \/ ModelStep(r)
  \/ (\E d \in Children(r) : Delegate(r, d))
  \/ ToolsDone(r) \/ Finish(r) \/ FailLoad(r) \/ FailSave(r)

CancelTree ==
  \/ (\E m \in Modes : Cancel(m))
  \/ TargetLoad \/ TargetSave \/ FindChildren \/ CancelChild \/ NextPass

Next ==
  \/ \E r \in Runs : Drive(r) \/ Begin(r) \/ Fail(r) \/ Crash(r)
  \/ CancelTree

Spec == Init /\ [][Next]_vars

----------------------------------------------------------------------------

\* A run that asks its model or runs its tools does so on a check that began
\* before any intent now stored above it was: no late child slips past a
\* marked ancestor, through whatever ended in between.
NoneSlipsPast == \A r \in Runs : pc[r] \in {"model", "tools"} => above[r] = {}

\* When cancelAgentRunTree returns, its result lists every descendant that was
\* stored when its last pass began, at whatever depth.
TreeReached == c.pc = "done" => due = {}
====
