---- MODULE WorkflowClaimProofs ----
(***************************************************************************)
(* What the claim of a workflow does guarantee, for any number of          *)
(* invocations and steps: an execution finalizes only the record it        *)
(* claimed, a known loss stops it, and renewals only extend.               *)
(***************************************************************************)
EXTENDS WorkflowClaim, TLAPS

\* The execution was claimed and its terminal state is not stored yet.
Executing(w) == \/ pc[w] \in Working
                \/ purpose[w] = "claim" /\ pc[w] = "reference"
                \/ purpose[w] = "terminal" /\ pc[w] \in {"load", "create", "record"}

\* The cursor of an execution is the revision of its last write: it meets the
\* record there exactly as long as nobody else has written it.
Cursor(w) ==
  Executing(w) => /\ cursor[w] <= record.rev
                  /\ (record.owner = w <=> record.rev = cursor[w])
                  /\ (record.owner = w => record.state.next <= st[w].next)
Cursors == \A w \in Workers : Cursor(w)

\* A renewal in flight belongs to a working execution that has not lost its
\* claim, and what it has loaded is still what the record says while the revision
\* is the same.
Renewing(w) ==
  /\ hb[w] # "none" => pc[w] \in Working /\ ~lost[w]
  /\ hb[w] = "save" =>
       /\ seen[w].owner = w
       /\ seen[w].rev <= record.rev
       /\ record.rev = seen[w].rev =>
            record.state = seen[w].state /\ record.owner = w
Renewals == \A w \in Workers : Renewing(w)

\* A state that waits, waits at one of its steps, and not while a step runs.
WaitsAtStep(s) == s.waiting => s.next < Steps
Waits == /\ WaitsAtStep(record.state)
         /\ \A w \in Workers : /\ WaitsAtStep(st[w])
                               /\ pc[w] = "running" => ~st[w].waiting

\* An execution, and an invocation on its way to one, has a step to run.
Stepping(w) ==
  \/ pc[w] \in {"check", "revision", "fence", "step", "running"}
  \/ purpose[w] = "claim" /\ pc[w] \in Persisting
HasStep == \A w \in Workers : Stepping(w) => st[w].next < Steps

IInv == TypeOK /\ Waits /\ HasStep /\ LossStopsOwner /\ Cursors /\ Renewals

\* The invariant holds initially.
LEMMA InitIInv == Init => IInv
<1> SUFFICES ASSUME Init PROVE IInv
  OBVIOUS
<1> USE ClaimAssumption
<1>1. BaseState \in States /\ AbsentRecord \in Records
  BY DEF BaseState, AbsentRecord, States, Records
<1>2. record \in Records /\ session \in Nat
  BY <1>1 DEF Init
<1>3. pc \in [Workers -> PCs] /\ purpose \in [Workers -> Purposes]
  BY DEF Init, PCs, Purposes
<1>4. /\ st \in [Workers -> States] /\ seen \in [Workers -> Records]
      /\ cursor \in [Workers -> Nat] /\ fence \in [Workers -> Nat]
      /\ hb \in [Workers -> {"none", "load", "save"}]
  BY <1>1 DEF Init
<1>5. lost \in [Workers -> BOOLEAN]
  BY Zenon DEF Init
<1>6. Waits /\ HasStep
  BY DEF Init, Waits, WaitsAtStep, HasStep, Stepping, Persisting, BaseState, AbsentRecord
<1>7. LossStopsOwner /\ Cursors /\ Renewals
  BY DEF Init, LossStopsOwner, Finalizing, Cursors, Cursor, Executing, Renewals,
     Renewing, Working, Beating, Persisting
<1> QED BY <1>2, <1>3, <1>4, <1>5, <1>6, <1>7 DEF IInv, TypeOK

----------------------------------------------------------------------------
(* The invocation *)

\* The initial state of a workflow is typed, and has a step to run.
LEMMA BaseType == BaseState \in States /\ BaseState.next < Steps /\ ~BaseState.waiting
BY ClaimAssumption DEF BaseState, States

\* The end of an invocation without a renewal in flight preserves the invariant.
LEMMA LeaveStep ==
  ASSUME IInv, NEW w \in Workers, hb[w] = "none", Leave(w),
         session' \in Nat, UNCHANGED <<record, hbVars>>
  PROVE  IInv'
<1> USE BaseType DEF IInv, Leave, Goto, PCs, Claiming, Persisting, Working, Beating, hbVars
<1>1. TypeOK'
  <2>1. /\ pc' \in [Workers -> PCs] /\ purpose' \in [Workers -> Purposes]
        /\ cursor' \in [Workers -> Nat] /\ fence' \in [Workers -> Nat]
    BY DEF TypeOK, Purposes
  <2>2. st' \in [Workers -> States]
    BY DEF TypeOK
  <2> QED BY <2>1, <2>2 DEF TypeOK
<1>2. Waits' /\ HasStep'
  BY DEF TypeOK, Waits, WaitsAtStep, HasStep, Stepping
<1>3. LossStopsOwner'
  BY DEF TypeOK, LossStopsOwner, Finalizing
<1>4. Cursors'
  BY DEF TypeOK, Cursors, Cursor, Executing
<1>5. Renewals'
  BY DEF TypeOK, Renewals, Renewing
<1> QED BY <1>1, <1>2, <1>3, <1>4, <1>5

\* An invocation that is not working has no renewal in flight.
LEMMA NoRenewal == ASSUME IInv, NEW w \in Workers, pc[w] \notin Working \/ lost[w]
                   PROVE  hb[w] = "none"
BY DEF IInv, Renewals, Renewing

\* Entering and leaving a step keep a state typed.
LEMMA StateTypes == ASSUME NEW s \in States, NEW b \in BOOLEAN
                    PROVE  /\ s.next \in 0..Steps
                           /\ [s EXCEPT !.waiting = b] \in States
                           /\ [s EXCEPT !.waiting = b].next = s.next
                           /\ [s EXCEPT !.waiting = b].waiting = b
                           /\ s.next < Steps => [s EXCEPT !.next = @ + 1] \in States
                           /\ [s EXCEPT !.next = @ + 1].next = s.next + 1
                           /\ [s EXCEPT !.next = @ + 1].waiting = s.waiting
BY ClaimAssumption DEF States

\* The start of an invocation preserves the invariant.
LEMMA ResolveStep == ASSUME IInv, NEW w \in Workers, Resolve(w) PROVE IInv'
<1> USE DEF IInv, Goto, PCs, Claiming, Persisting, Working, Beating, hbVars
<1>1. PICK resume, approvals \in BOOLEAN :
        LET s == IF resume /\ record.rev # 0 THEN record.state ELSE BaseState
        IN /\ st' = [st EXCEPT ![w] = s]
           /\ IF NothingToRun(s, approvals) THEN Persist(w, "unclaimed")
              ELSE Goto(w, "check") /\ UNCHANGED purpose
  BY DEF Resolve
<1> DEFINE s == IF resume /\ record.rev # 0 THEN record.state ELSE BaseState
<1>2. s \in States /\ WaitsAtStep(s) /\ st' = [st EXCEPT ![w] = s]
  BY <1>1, BaseType DEF TypeOK, Records, Waits, WaitsAtStep
<1>3. /\ pc' \in [Workers -> PCs] /\ purpose' \in [Workers -> Purposes]
      /\ pc[w] = "idle" /\ pc'[w] \in {"load", "check"}
      /\ pc'[w] = "load" => purpose'[w] = "unclaimed"
      /\ pc'[w] = "check" => s.next < Steps
      /\ \A v \in Workers \ {w} : pc'[v] = pc[v] /\ purpose'[v] = purpose[v]
  <2>1. CASE NothingToRun(s, approvals)
    BY <2>1, <1>1 DEF Resolve, Persist, TypeOK, Purposes
  <2>2. CASE ~NothingToRun(s, approvals)
    <3>1. s.next < Steps
      BY <2>2, <1>2, ClaimAssumption DEF NothingToRun, WaitsAtStep, States
    <3> QED BY <2>2, <3>1, <1>1 DEF Resolve, TypeOK
  <2> QED BY <2>1, <2>2
<1>4. UNCHANGED <<record, session, cursor, fence, hbVars>>
  BY DEF Resolve
<1> HIDE DEF s
<1>5. TypeOK'
  BY <1>2, <1>3, <1>4 DEF TypeOK
<1>6. Waits' /\ HasStep'
  BY <1>2, <1>3, <1>4 DEF TypeOK, Waits, WaitsAtStep, HasStep, Stepping
<1>7. LossStopsOwner'
  BY <1>2, <1>3, <1>4 DEF TypeOK, LossStopsOwner, Finalizing
<1>8. Cursors'
  BY <1>2, <1>3, <1>4 DEF TypeOK, Cursors, Cursor, Executing
<1>9. Renewals'
  BY <1>2, <1>3, <1>4 DEF TypeOK, Renewals, Renewing
<1> QED BY <1>5, <1>6, <1>7, <1>8, <1>9

\* The look at another's claim preserves the invariant.
LEMMA CheckStep == ASSUME IInv, NEW w \in Workers, CheckClaim(w) PROVE IInv'
<1>1. CASE record.live
  <2>1. hb[w] = "none"
    BY NoRenewal DEF CheckClaim, Working, Beating
  <2> QED BY <1>1, <2>1, LeaveStep DEF CheckClaim, IInv, TypeOK
<1>2. CASE ~record.live
  <2> USE <1>2 DEF IInv, CheckClaim, Proceed, Goto, PCs, Claiming, Persisting, Working,
             Beating, hbVars
  <2>1. TypeOK'
    BY DEF TypeOK
  <2>2. Waits' /\ HasStep'
    BY DEF TypeOK, Waits, WaitsAtStep, HasStep, Stepping
  <2>3. LossStopsOwner'
    BY DEF TypeOK, LossStopsOwner, Finalizing
  <2>4. Cursors'
    BY DEF TypeOK, Cursors, Cursor, Executing
  <2>5. Renewals'
    BY DEF TypeOK, Renewals, Renewing
  <2> QED BY <2>1, <2>2, <2>3, <2>4, <2>5
<1> QED BY <1>1, <1>2

\* Reading the revision preserves the invariant.
LEMMA RevisionStep == ASSUME IInv, NEW w \in Workers, ReadRevision(w) PROVE IInv'
<1> USE DEF IInv, Goto, PCs, Claiming, Persisting, Working, Beating, Records, hbVars
<1>1. TypeOK'
  BY DEF ReadRevision, TypeOK
<1>2. Waits' /\ HasStep'
  BY DEF ReadRevision, TypeOK, Waits, WaitsAtStep, HasStep, Stepping
<1>3. LossStopsOwner'
  BY DEF ReadRevision, TypeOK, LossStopsOwner, Finalizing, Renewals, Renewing
<1>4. Cursors'
  BY DEF ReadRevision, TypeOK, Cursors, Cursor, Executing
<1>5. Renewals'
  BY DEF ReadRevision, TypeOK, Renewals, Renewing
<1> QED BY <1>1, <1>2, <1>3, <1>4, <1>5

\* Reading the session preserves the invariant.
LEMMA FenceStep == ASSUME IInv, NEW w \in Workers, ReadFence(w) PROVE IInv'
<1> USE DEF IInv, Goto, PCs, Claiming, Persisting, Working, Beating, Persist, Purposes, hbVars
<1>1. TypeOK'
  BY DEF ReadFence, TypeOK
<1>2. Waits' /\ HasStep'
  BY DEF ReadFence, TypeOK, Waits, WaitsAtStep, HasStep, Stepping
<1>3. LossStopsOwner'
  BY DEF ReadFence, TypeOK, LossStopsOwner, Finalizing, Renewals, Renewing
<1>4. Cursors'
  BY DEF ReadFence, TypeOK, Cursors, Cursor, Executing
<1>5. Renewals'
  BY DEF ReadFence, TypeOK, Renewals, Renewing
<1> QED BY <1>1, <1>2, <1>3, <1>4, <1>5

\* The load before a write preserves the invariant.
LEMMA LoadStep == ASSUME IInv, NEW w \in Workers, PersistLoad(w) PROVE IInv'
<1> USE DEF IInv, Goto, PCs, Claiming, Persisting, Working, Beating, Proceed, hbVars
<1>1. TypeOK'
  BY DEF PersistLoad, TypeOK
<1>2. Waits' /\ HasStep'
  BY DEF PersistLoad, TypeOK, Waits, WaitsAtStep, HasStep, Stepping
<1>3. LossStopsOwner'
  BY DEF PersistLoad, TypeOK, LossStopsOwner, Finalizing, Renewals, Renewing
<1>4. Cursors'
  BY DEF PersistLoad, TypeOK, Cursors, Cursor, Executing
<1>5. Renewals'
  BY DEF PersistLoad, TypeOK, Renewals, Renewing
<1> QED BY <1>1, <1>2, <1>3, <1>4, <1>5

\* Creating the session preserves the invariant.
LEMMA CreateStep == ASSUME IInv, NEW w \in Workers, PersistCreate(w) PROVE IInv'
<1> USE DEF IInv, Goto, PCs, Claiming, Persisting, Working, Beating, Proceed, hbVars
<1>1. TypeOK'
  BY DEF PersistCreate, TypeOK
<1>2. Waits' /\ HasStep'
  BY DEF PersistCreate, TypeOK, Waits, WaitsAtStep, HasStep, Stepping
<1>3. LossStopsOwner'
  BY DEF PersistCreate, TypeOK, LossStopsOwner, Finalizing, Renewals, Renewing
<1>4. Cursors'
  BY DEF PersistCreate, TypeOK, Cursors, Cursor, Executing
<1>5. Renewals'
  BY DEF PersistCreate, TypeOK, Renewals, Renewing
<1> QED BY <1>1, <1>2, <1>3, <1>4, <1>5

\* Writing the record preserves the invariant: the cursor of the writer is its new
\* revision, and every other execution is behind it.
LEMMA RecordStep == ASSUME IInv, NEW w \in Workers, PersistRecord(w) PROVE IInv'
<1>1. CASE ~RecordMatches(w)
  <2>1. hb[w] = "none"
    BY NoRenewal DEF PersistRecord, Working, Beating
  <2> QED BY <1>1, <2>1, LeaveStep DEF PersistRecord, IInv, TypeOK
<1>2. CASE RecordMatches(w)
  <2> USE DEF IInv, Goto, PCs, Claiming, Persisting, Working, Beating, hbVars
  <2>1. /\ pc[w] = "record" /\ pc' = [pc EXCEPT ![w] = "reference"]
        /\ record'.rev = record.rev + 1 /\ record'.state = st[w]
        /\ record'.owner \in {w, NoOwner}
        /\ record'.owner = w <=> purpose[w] = "claim"
        /\ cursor' = [cursor EXCEPT ![w] = record.rev + 1]
        /\ UNCHANGED <<session, purpose, st, fence, hbVars>>
    BY <1>2, ClaimAssumption DEF PersistRecord
  <2>2. record' \in Records
    <3>1. record.rev + 1 \in Nat /\ st[w] \in States
      BY DEF TypeOK, Records
    <3>2. (IF purpose[w] = "claim" THEN w ELSE NoOwner) \in Workers \cup {NoOwner}
      OBVIOUS
    <3>3. (purpose[w] = "claim") \in BOOLEAN
      OBVIOUS
    <3>4. record' = [rev |-> record.rev + 1,
                     owner |-> IF purpose[w] = "claim" THEN w ELSE NoOwner,
                     live |-> purpose[w] = "claim",
                     state |-> st[w]]
      BY <1>2, Zenon DEF PersistRecord
    <3> QED BY <3>1, <3>2, <3>3, <3>4, Zenon DEF Records
  <2>3. record.rev \in Nat /\ NoOwner \notin Workers /\ hb[w] = "none"
    BY <2>1, ClaimAssumption, NoRenewal DEF TypeOK, Records
  <2>4. TypeOK'
    BY <2>1, <2>2, <2>3 DEF TypeOK
  <2>5. Waits' /\ HasStep'
    BY <2>1 DEF TypeOK, Waits, WaitsAtStep, HasStep, Stepping
  <2>6. LossStopsOwner'
    BY <2>1 DEF TypeOK, LossStopsOwner, Finalizing
  <2>7. Cursors'
    <3> SUFFICES ASSUME NEW v \in Workers, Executing(v)' PROVE Cursor(v)'
      BY DEF Cursors, Cursor
    <3>1. CASE v = w
      <4>1. purpose[w] = "claim"
        BY <3>1, <2>1 DEF Executing, TypeOK
      <4>2. st[w].next \in Nat
        BY ClaimAssumption DEF TypeOK, States
      <4> QED BY <3>1, <4>1, <4>2, <2>1, <2>3 DEF Cursor, TypeOK
    <3>2. CASE v # w
      <4>1. cursor[v] \in Nat /\ cursor[v] <= record.rev
        BY <3>2, <2>1 DEF Cursors, Cursor, Executing, TypeOK
      <4> QED BY <3>2, <4>1, <2>1, <2>3 DEF Cursor, TypeOK
    <3> QED BY <3>1, <3>2
  <2>8. Renewals'
    <3> SUFFICES ASSUME NEW v \in Workers PROVE Renewing(v)'
      BY DEF Renewals
    <3>1. seen[v].rev \in Nat
      BY DEF TypeOK, Records
    <3> QED BY <3>1, <2>1, <2>3 DEF Renewals, Renewing, TypeOK
  <2> QED BY <2>4, <2>5, <2>6, <2>7, <2>8
<1> QED BY <1>1, <1>2

\* Saving the reference preserves the invariant.
LEMMA ReferenceStep == ASSUME IInv, NEW w \in Workers, PersistReference(w) PROVE IInv'
<1>1. hb[w] = "none" /\ session + 1 \in Nat
  BY NoRenewal DEF PersistReference, Working, Beating, IInv, TypeOK
<1>2. CASE Leave(w)
  BY <1>1, <1>2, LeaveStep DEF PersistReference, IInv, TypeOK
<1>3. CASE purpose[w] = "claim" /\ Proceed(w, "step")
  <2> USE <1>3 DEF IInv, PersistReference, Proceed, Goto, PCs, Claiming, Persisting,
             Working, Beating, hbVars
  <2>1. TypeOK'
    BY <1>1 DEF TypeOK
  <2>2. Waits' /\ HasStep'
    BY DEF TypeOK, Waits, WaitsAtStep, HasStep, Stepping
  <2>3. LossStopsOwner'
    BY DEF TypeOK, LossStopsOwner, Finalizing
  <2>4. Cursors'
    BY DEF TypeOK, Cursors, Cursor, Executing
  <2>5. Renewals'
    BY DEF TypeOK, Renewals, Renewing
  <2> QED BY <2>1, <2>2, <2>3, <2>4, <2>5
<1> QED BY <1>2, <1>3 DEF PersistReference

----------------------------------------------------------------------------
(* The steps *)

\* The beginning and the end of a step change the state in memory of one
\* execution, which does not fall behind and does not wait beyond its steps.
LEMMA StateStep ==
  ASSUME IInv, NEW w \in Workers, NEW s \in States, NEW there \in Beating,
         pc[w] \in Beating, Goto(w, there), st' = [st EXCEPT ![w] = s],
         WaitsAtStep(s), st[w].next <= s.next,
         there = "running" => ~s.waiting,
         there # "finished" => s.next < Steps,
         session' \in Nat, UNCHANGED <<record, purpose, cursor, fence, hbVars>>
  PROVE  IInv'
<1> USE DEF IInv, Goto, PCs, Claiming, Persisting, Working, Beating, hbVars
<1>1. TypeOK'
  BY DEF TypeOK
<1>2. Waits' /\ HasStep'
  BY DEF TypeOK, Waits, WaitsAtStep, HasStep, Stepping
<1>3. LossStopsOwner'
  BY DEF TypeOK, LossStopsOwner, Finalizing
<1>4. Cursors'
  <2> SUFFICES ASSUME NEW v \in Workers, Executing(v)' PROVE Cursor(v)'
    BY DEF Cursors, Cursor
  <2>1. Executing(v) /\ Cursor(v)
    BY DEF Cursors, Executing, TypeOK
  <2>2. st[v].next <= st'[v].next
    BY ClaimAssumption DEF TypeOK, States
  <2>3. record.state.next \in Nat /\ st[v].next \in Nat /\ st'[v].next \in Nat
    BY <1>1, ClaimAssumption DEF TypeOK, States, Records
  <2> QED BY <2>1, <2>2, <2>3 DEF Cursor
<1>5. Renewals'
  BY DEF TypeOK, Renewals, Renewing
<1> QED BY <1>1, <1>2, <1>3, <1>4, <1>5

\* Entering a step preserves the invariant.
LEMMA BeginStepStep == ASSUME IInv, NEW w \in Workers, BeginStep(w) PROVE IInv'
<1> DEFINE s == [st[w] EXCEPT !.waiting = FALSE]
<1>1. st[w] \in States /\ st[w].next < Steps /\ st[w].next \in Nat
  BY ClaimAssumption DEF BeginStep, IInv, TypeOK, HasStep, Stepping, States
<1>2. s \in States /\ s.next = st[w].next /\ s.waiting = FALSE
  BY <1>1, StateTypes, Zenon
<1>3. st' = [st EXCEPT ![w] = s]
  BY DEF BeginStep
<1> HIDE DEF s
<1>4. WaitsAtStep(s) /\ st[w].next <= s.next /\ s.next < Steps /\ ~s.waiting
  BY <1>1, <1>2 DEF WaitsAtStep
<1>5. /\ pc[w] \in Beating /\ "running" \in Beating /\ Goto(w, "running")
      /\ session' \in Nat /\ UNCHANGED <<record, purpose, cursor, fence, hbVars>>
  BY DEF BeginStep, Beating, IInv, TypeOK
<1> QED BY <1>2, <1>3, <1>4, <1>5, StateStep

\* The end of a step preserves the invariant.
LEMMA FinishStepStep == ASSUME IInv, NEW w \in Workers, FinishStep(w) PROVE IInv'
<1>1. pc[w] = "running" /\ st[w] \in States
  BY DEF FinishStep, IInv, TypeOK
<1>2. st[w].next \in Nat /\ st[w].next < Steps /\ st[w].waiting = FALSE
  BY <1>1, ClaimAssumption DEF IInv, HasStep, Stepping, Waits, States
<1>3. /\ pc[w] \in Beating /\ session' \in Nat
      /\ UNCHANGED <<record, purpose, cursor, fence, hbVars>>
  BY <1>1 DEF FinishStep, Beating, IInv, TypeOK
<1>4. CASE StepCompleted(w)
  <2> DEFINE s == [st[w] EXCEPT !.next = @ + 1]
  <2>1. s \in States /\ s.next = st[w].next + 1 /\ s.waiting = FALSE
    <3>1. /\ [st[w] EXCEPT !.next = @ + 1] \in States
          /\ [st[w] EXCEPT !.next = @ + 1].next = st[w].next + 1
          /\ [st[w] EXCEPT !.next = @ + 1].waiting = st[w].waiting
      BY <1>1, <1>2, StateTypes, Zenon
    <3> QED BY <1>2, <3>1, Zenon
  <2>2. st' = [st EXCEPT ![w] = s]
    BY <1>4, Zenon DEF StepCompleted
  <2>3. PICK there \in Beating : /\ Goto(w, there) /\ there # "running"
                                 /\ there = "step" => st[w].next + 1 < Steps
    BY <1>4 DEF StepCompleted, Beating
  <2> HIDE DEF s
  <2>4. /\ WaitsAtStep(s) /\ st[w].next <= s.next
        /\ there = "running" => ~s.waiting
        /\ there # "finished" => s.next < Steps
    BY <1>2, <2>1, <2>3 DEF WaitsAtStep, Beating
  <2> QED BY <1>3, <2>1, <2>2, <2>3, <2>4, StateStep
<1>5. CASE \E outcome \in Outcomes : StepEnded(w, outcome)
  <2>1. PICK outcome \in Outcomes : StepEnded(w, outcome)
    BY <1>5
  <2> DEFINE s == [st[w] EXCEPT !.waiting = (outcome = "waiting")]
  <2>2. (outcome = "waiting") \in BOOLEAN
    OBVIOUS
  <2>3. s \in States /\ s.next = st[w].next
    BY <1>1, <2>2, StateTypes, Zenon
  <2>4. st' = [st EXCEPT ![w] = s] /\ Goto(w, "finished")
    BY <2>1, Zenon DEF StepEnded
  <2> HIDE DEF s
  <2>5. WaitsAtStep(s) /\ st[w].next <= s.next /\ "finished" \in Beating
    BY <1>2, <2>3 DEF WaitsAtStep, Beating
  <2> QED BY <1>3, <2>3, <2>4, <2>5, StateStep
<1> QED BY <1>4, <1>5 DEF FinishStep

\* Giving up preserves the invariant.
LEMMA GiveUpStep == ASSUME IInv, NEW w \in Workers, GiveUp(w) PROVE IInv'
BY NoRenewal, LeaveStep DEF GiveUp, IInv, TypeOK

\* Asking the heartbeat to stop preserves the invariant.
LEMMA RequestStopStep == ASSUME IInv, NEW w \in Workers, RequestStop(w) PROVE IInv'
<1> USE DEF IInv, Goto, PCs, Claiming, Persisting, Working, Beating, Proceed, hbVars
<1>1. TypeOK'
  BY DEF RequestStop, TypeOK
<1>2. Waits' /\ HasStep'
  BY DEF RequestStop, TypeOK, Waits, WaitsAtStep, HasStep, Stepping
<1>3. LossStopsOwner'
  BY DEF RequestStop, TypeOK, LossStopsOwner, Finalizing, Renewals, Renewing
<1>4. Cursors'
  BY DEF RequestStop, TypeOK, Cursors, Cursor, Executing
<1>5. Renewals'
  BY DEF RequestStop, TypeOK, Renewals, Renewing
<1> QED BY <1>1, <1>2, <1>3, <1>4, <1>5

\* The end of the heartbeat preserves the invariant.
LEMMA StopStep == ASSUME IInv, NEW w \in Workers, Stop(w) PROVE IInv'
<1>1. CASE lost[w]
  BY <1>1, LeaveStep DEF Stop, IInv, TypeOK
<1>2. CASE ~lost[w]
  <2> USE <1>2 DEF IInv, Stop, Persist, Purposes, Goto, PCs, Claiming, Persisting,
             Working, Beating, hbVars
  <2>1. TypeOK'
    BY DEF TypeOK
  <2>2. Waits' /\ HasStep'
    BY DEF TypeOK, Waits, WaitsAtStep, HasStep, Stepping
  <2>3. LossStopsOwner'
    BY DEF TypeOK, LossStopsOwner, Finalizing
  <2>4. Cursors'
    BY DEF TypeOK, Cursors, Cursor, Executing
  <2>5. Renewals'
    BY DEF TypeOK, Renewals, Renewing
  <2> QED BY <2>1, <2>2, <2>3, <2>4, <2>5
<1> QED BY <1>1, <1>2

\* A failed call preserves the invariant.
LEMMA StoreFailsStep == ASSUME IInv, NEW w \in Workers, StoreFails(w) PROVE IInv'
<1>1. hb[w] = "none"
  BY NoRenewal DEF StoreFails, Claiming, Persisting, Working, Beating
<1> QED BY <1>1, LeaveStep DEF StoreFails, IInv, TypeOK

----------------------------------------------------------------------------
(* The heartbeat *)

\* What the heartbeat does without writing the record preserves the invariant.
LEMMA HeartbeatStep ==
  ASSUME IInv, NEW w \in Workers,
         Tick(w) \/ RenewLoad(w) \/ RenewStopped(w) \/ RenewFails(w)
  PROVE  IInv'
<1> USE DEF IInv, Renew, Lose, Stopped, PCs, Claiming, Persisting, Working, Beating,
            invVars, Tick, RenewLoad, RenewStopped, RenewFails
<1>1. TypeOK'
  BY DEF TypeOK
<1>2. Waits' /\ HasStep'
  BY DEF Waits, HasStep, Stepping
<1>3. LossStopsOwner'
  BY DEF TypeOK, LossStopsOwner, Finalizing, Renewals, Renewing
<1>4. Cursors'
  BY DEF Cursors, Cursor, Executing
<1>5. Renewals'
  BY DEF TypeOK, Renewals, Renewing, Records
<1> QED BY <1>1, <1>2, <1>3, <1>4, <1>5

\* A renewed record is a record with the given revision and the rest as it was.
LEMMA RenewedType ==
  ASSUME NEW r \in Records, NEW n \in Nat
  PROVE  /\ [r EXCEPT !.rev = n, !.live = TRUE] \in Records
         /\ [r EXCEPT !.rev = n, !.live = TRUE].rev = n
         /\ [r EXCEPT !.rev = n, !.live = TRUE].owner = r.owner
         /\ [r EXCEPT !.rev = n, !.live = TRUE].state = r.state
BY DEF Records

\* A renewal that is saved writes back what it has loaded.
LEMMA RenewedRecord ==
  ASSUME IInv, NEW w \in Workers, RenewSave(w), record.rev = seen[w].rev
  PROVE  /\ record' \in Records /\ record'.rev = record.rev + 1
         /\ record'.owner = seen[w].owner /\ record'.state = seen[w].state
<1>1. seen[w] \in Records /\ seen[w].rev + 1 \in Nat
  BY DEF IInv, TypeOK, Records
<1>2. record' = [seen[w] EXCEPT !.rev = seen[w].rev + 1, !.live = TRUE]
  BY Zenon DEF RenewSave
<1> QED BY <1>1, <1>2, RenewedType, Zenon

\* The saving of a renewal preserves the invariant: the record it writes back is
\* the one that is stored.
LEMMA RenewSaveStep == ASSUME IInv, NEW w \in Workers, RenewSave(w) PROVE IInv'
<1> USE DEF IInv, Renew, PCs, Claiming, Persisting, Working, Beating
<1>1. CASE record.rev # seen[w].rev
  <2> USE <1>1 DEF RenewSave
  <2>1. TypeOK' /\ LossStopsOwner'
    BY DEF TypeOK, LossStopsOwner, Finalizing
  <2>2. Waits' /\ HasStep' /\ Cursors'
    BY DEF Waits, HasStep, Stepping, Cursors, Cursor, Executing
  <2>3. Renewals'
    BY DEF TypeOK, Renewals, Renewing
  <2> QED BY <2>1, <2>2, <2>3
<1>2. CASE record.rev = seen[w].rev
  <2>1. /\ record.owner = w /\ pc[w] \in Working /\ seen[w].owner = w
        /\ record.state = seen[w].state /\ record.rev \in Nat
    BY <1>2 DEF RenewSave, Renewals, Renewing, TypeOK, Records
  <2>2. /\ record' \in Records /\ record'.rev = record.rev + 1
        /\ record'.owner = w /\ record'.state = record.state
        /\ cursor' = [cursor EXCEPT ![w] = record.rev + 1]
        /\ hb' = [hb EXCEPT ![w] = "none"]
        /\ UNCHANGED <<session, pc, purpose, st, fence, seen, lost>>
    BY <1>2, <2>1, RenewedRecord DEF RenewSave
  <2>3. TypeOK' /\ LossStopsOwner'
    BY <2>1, <2>2 DEF TypeOK, LossStopsOwner, Finalizing
  <2>4. Waits' /\ HasStep'
    BY <2>2 DEF Waits, HasStep, Stepping
  <2>5. Cursors'
    <3> SUFFICES ASSUME NEW v \in Workers, Executing(v) PROVE Cursor(v)'
      BY <2>2 DEF Cursors, Cursor, Executing
    <3>1. Cursor(v) /\ cursor[v] \in Nat
      BY DEF Cursors, TypeOK
    <3> QED BY <3>1, <2>1, <2>2 DEF Cursor, TypeOK
  <2>6. Renewals'
    <3> SUFFICES ASSUME NEW v \in Workers PROVE Renewing(v)'
      BY DEF Renewals
    <3>1. seen[v].rev \in Nat
      BY DEF TypeOK, Records
    <3> QED BY <3>1, <2>1, <2>2 DEF Renewals, Renewing, TypeOK
  <2> QED BY <2>3, <2>4, <2>5, <2>6
<1> QED BY <1>1, <1>2

----------------------------------------------------------------------------
(* The invariant *)

\* Expiry, other use of the session and stuttering preserve the invariant.
LEMMA OutsideStep == IInv /\ (Expire \/ UseSession \/ UNCHANGED vars) => IInv'
<1> SUFFICES ASSUME IInv, Expire \/ UseSession \/ UNCHANGED vars PROVE IInv'
  OBVIOUS
<1>1. /\ record' \in Records /\ session' \in Nat /\ UNCHANGED <<invVars, hbVars>>
      /\ record'.rev = record.rev /\ record'.owner = record.owner
      /\ record'.state = record.state
  <2>1. CASE Expire
    BY <2>1 DEF Expire, IInv, TypeOK, Records
  <2>2. CASE UseSession \/ UNCHANGED vars
    BY <2>2 DEF UseSession, vars, invVars, hbVars, IInv, TypeOK
  <2> QED BY <2>1, <2>2
<1>2. TypeOK' /\ LossStopsOwner' /\ Waits' /\ HasStep'
  BY <1>1 DEF IInv, invVars, hbVars, TypeOK, LossStopsOwner, Finalizing, Waits, HasStep,
     Stepping
<1>3. Cursors' /\ Renewals'
  BY <1>1 DEF IInv, invVars, hbVars, Cursors, Cursor, Executing, Renewals, Renewing
<1> QED BY <1>2, <1>3 DEF IInv

\* Every step preserves the invariant.
LEMMA NextIInv == IInv /\ [Next]_vars => IInv'
BY ResolveStep, CheckStep, RevisionStep, FenceStep, LoadStep, CreateStep, RecordStep,
   ReferenceStep, BeginStepStep, FinishStepStep, GiveUpStep, RequestStopStep, StopStep,
   StoreFailsStep, HeartbeatStep, RenewSaveStep, OutsideStep DEF Next, WorkerStep

\* The inductive invariant holds in every reachable state, however the writes of
\* the invocations and of their heartbeats interleave.
THEOREM Invariance == Spec => []IInv
BY InitIInv, NextIInv, PTL DEF Spec

----------------------------------------------------------------------------
(* The properties *)

\* Every variable of the workflow's claim has its type; an execution never counts
\* beyond the steps of the workflow.
THEOREM TypeCorrect == Spec => []TypeOK
<1>1. IInv => TypeOK
  BY DEF IInv
<1> QED BY Invariance, <1>1, PTL

\* An execution that has learnt that its claim is lost does not finalize the
\* workflow.
THEOREM Loss == Spec => []LossStopsOwner
<1>1. IInv => LossStopsOwner
  BY DEF IInv
<1> QED BY Invariance, <1>1, PTL

\* Only the writing of the record takes an invocation to its reference.
LEMMA ToReference ==
  ASSUME IInv, [Next]_vars, NEW w \in Workers, pc[w] = "record", pc'[w] = "reference"
  PROVE  PersistRecord(w)
<1>1. CASE UNCHANGED pc
  BY <1>1
<1>2. ASSUME NEW v \in Workers, NEW there \in PCs, Goto(v, there)
      PROVE  v = w /\ there = "reference"
  BY <1>2 DEF Goto, IInv, TypeOK
<1>3. ASSUME NEW v \in Workers, WorkerStep(v), ~UNCHANGED pc, ~PersistRecord(v)
      PROVE  v = w /\ pc[w] # "record"
  BY <1>2, <1>3 DEF WorkerStep, Proceed, Leave, Persist, Resolve, CheckClaim,
     ReadRevision, ReadFence, PersistLoad, PersistCreate, PersistReference, BeginStep,
     FinishStep, StepCompleted, StepEnded, GiveUp, RequestStop, Stop, Tick, RenewLoad,
     RenewSave, RenewStopped, RenewFails, StoreFails, invVars, PCs, Claiming,
     Persisting, Working, Beating
<1>4. ASSUME NEW v \in Workers, PersistRecord(v), ~UNCHANGED pc PROVE v = w
  BY <1>2, <1>4 DEF PersistRecord, Leave, PCs, Claiming, Persisting
<1> QED BY <1>1, <1>3, <1>4 DEF Next, Expire, UseSession, vars, invVars

\* An execution stores its terminal state over the record it claimed or not at
\* all, and never goes back behind what is recorded.
THEOREM StaleOwner == Spec => StaleOwnerWritesNothing
<1>1. ASSUME IInv, [Next]_vars, NEW w \in Workers, pc[w] = "record",
             pc'[w] = "reference", purpose[w] = "terminal"
      PROVE  record.owner = w /\ record'.state.next >= record.state.next
  <2>1. PersistRecord(w) /\ Executing(w)
    BY <1>1, ToReference DEF Executing
  <2>2. record.rev = cursor[w] /\ record'.state = st[w]
    BY <1>1, <2>1 DEF PersistRecord, RecordMatches, Unfenced, Leave, Goto, IInv, TypeOK
  <2>3. record.owner = w /\ record.state.next <= st[w].next
    BY <1>1, <2>1, <2>2 DEF IInv, Cursors, Cursor
  <2> QED BY <2>2, <2>3, <1>1, ClaimAssumption DEF IInv, TypeOK, Records, States
<1>2. IInv /\ [Next]_vars =>
        [\A w \in Workers :
           pc[w] = "record" /\ pc'[w] = "reference" /\ purpose[w] = "terminal"
             => record.owner = w /\ record'.state.next >= record.state.next]_vars
  BY <1>1
<1> QED BY Invariance, <1>2, PTL DEF Spec, StaleOwnerWritesNothing

\* Only the saving of a renewal ends it and writes the record.
LEMMA FromSave ==
  ASSUME IInv, [Next]_vars, NEW w \in Workers, hb[w] = "save", hb'[w] = "none",
         record' # record
  PROVE  RenewSave(w)
BY DEF Next, WorkerStep, vars, hbVars, IInv, TypeOK, Renew, Resolve, CheckClaim,
   ReadRevision, ReadFence, PersistLoad, PersistCreate, PersistRecord, PersistReference,
   BeginStep, FinishStep, GiveUp, RequestStop, Stop, Tick, RenewLoad, RenewSave,
   RenewStopped, RenewFails, StoreFails, Expire, UseSession

\* A renewal extends the claim of its own execution and keeps what is recorded,
\* however much time passed between its load and its save.
THEOREM Renewal == Spec => RenewalOnlyExtends
<1>1. ASSUME IInv, [Next]_vars, NEW w \in Workers, hb[w] = "save", hb'[w] = "none",
             record' # record
      PROVE  /\ record.owner = w /\ record'.owner = w
             /\ record'.state = record.state
  <2>1. RenewSave(w)
    BY <1>1, FromSave
  <2>2. record.rev = seen[w].rev
    BY <1>1, <2>1 DEF RenewSave
  <2>3. record'.owner = seen[w].owner /\ record'.state = seen[w].state
    BY <1>1, <2>1, <2>2, RenewedRecord
  <2> QED BY <1>1, <2>2, <2>3 DEF IInv, Renewals, Renewing
<1>2. IInv /\ [Next]_vars =>
        [\A w \in Workers :
           hb[w] = "save" /\ hb'[w] = "none" /\ record' # record
             => /\ record.owner = w /\ record'.owner = w
                /\ record'.state = record.state]_vars
  BY <1>1
<1> QED BY Invariance, <1>2, PTL DEF Spec, RenewalOnlyExtends
====
