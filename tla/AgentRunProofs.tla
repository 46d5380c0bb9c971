---- MODULE AgentRunProofs ----
(***************************************************************************)
(* Theorems about the durable run, for any number of invocations and       *)
(* reconcilers, any ceiling of steps and any of the modelled faults.  Each *)
(* is read off one of the invariants below, which rest on each other:      *)
(*   IInv        types, and one executor per journal row;                  *)
(*   JInv        what the journal has decided, and who may decide it;      *)
(*   RevInv      whose write a revision is, and what is written over it;   *)
(*   LateInv     calls started under a cancellation;                       *)
(*   ResInv      results and evidence of the calls;                        *)
(*   OutcomeInv  what a checkpoint says of the calls still unknown;        *)
(*   LifeInv     what is about to be written is one step ahead of what is  *)
(*               stored, and no row is of a call beyond it.                *)
(***************************************************************************)
EXTENDS AgentRun, SequenceTheorems, TLAPS

\* The call an invocation is about to execute.
Calling(w) == LastCall(st[w])

ModelPCs == {"modelCheck", "model"}
ToolPCs == {"toolCheck", "toolClaim", "toolRun", "toolDone"}

\* The call a resumed run was left with is being answered.
Recovering(w) == pc[w] \in ToolPCs \cup Persisting /\ after[w] = "recovered"

\* Where the checkpoint in memory has room for a step, or a call to execute; that
\* of a recovered call is not looked after for a cancellation.
Placed(w) == /\ pc[w] \in ModelPCs \/ Recovering(w) => ~Exhausted(st[w])
             /\ pc[w] \in ToolPCs => EndsWithCall(st[w])
             /\ pc[w] = "assert" => after[w] # "recovered"
AllPlaced == \A w \in Workers : Placed(w)

\* A call without a row was never started.
RowBeforeEffect == \A id \in CallIds : journal[id].status = "absent" => effects[id] = 0

\* An invocation at the tool has the row of its call, has not started it yet,
\* and is the only one there.
RowHeld == \A w \in Workers :
             pc[w] = "toolRun" => /\ journal[Calling(w)].status # "absent"
                                  /\ effects[Calling(w)] = 0
OneExecutor == \A v, w \in Workers :
                 v # w /\ pc[v] = "toolRun" /\ pc[w] = "toolRun" => Calling(v) # Calling(w)

\* A reconciler that has accepted evidence knows the call it is about.
RCalled == \A r \in Reconcilers :
             rpc[r] \in {"verify", "journal", "project", "save"} => rid[r] \in CallIds

IInv == /\ TypeOK /\ RCalled /\ AllPlaced /\ RowBeforeEffect /\ RowHeld /\ OneExecutor
        /\ EffectAtMostOnce

----------------------------------------------------------------------------
(* Records of the store *)

\* The initial records of the store are typed.
LEMMA AbsentRecords == /\ AbsentRun \in Runs /\ AbsentRow \in Rows
                       /\ FreeLease \in Leases /\ BaseState \in Runs
<1>1. <<>> \in Transcripts
  <2>1. <<>> \in Seq(Turns) /\ Len(<<>>) = 0
    OBVIOUS
  <2> QED BY <2>1, StoreAssumption DEF Transcripts
<1>2. {} \in SUBSET CallIds
  OBVIOUS
<1>3. AbsentRun \in Runs /\ BaseState \in Runs
  BY <1>1, <1>2 DEF AbsentRun, BaseState, Runs, Statuses
<1>4. AbsentRow \in Rows
  BY DEF AbsentRow, Rows, Results, NoResult
<1>5. FreeLease \in Leases
  BY DEF FreeLease, Leases
<1> QED BY <1>3, <1>4, <1>5

\* Updates of the fields of a checkpoint keep its type, and its transcript.
LEMMA StatusType == ASSUME NEW r \in Runs, NEW s \in Statuses
                    PROVE  /\ [r EXCEPT !.status = s] \in Runs
                           /\ [r EXCEPT !.status = s].turns = r.turns
BY DEF Runs

\* A checkpoint given another status and revision is a checkpoint.
LEMMA StatusRevType == ASSUME NEW r \in Runs, NEW s \in Statuses, NEW n \in Nat
                       PROVE  [r EXCEPT !.status = s, !.rev = n] \in Runs
BY DEF Runs

\* A save advances the revision and leaves the transcript alone.
LEMMA RevType == ASSUME NEW r \in Runs
                 PROVE  /\ [r EXCEPT !.rev = r.rev + 1] \in Runs
                        /\ [r EXCEPT !.rev = r.rev + 1].turns = r.turns
BY DEF Runs

\* Refreshing the task outcome gives a checkpoint.
LEMMA RefreshedType == ASSUME NEW r \in Runs PROVE Refreshed(r) \in Runs
<1>1. NeedsReconciliation(r) \in BOOLEAN
  BY Zenon DEF NeedsReconciliation
<1> QED BY <1>1 DEF Refreshed, Runs

\* The fields of a checkpoint have their types.
LEMMA RunFields == ASSUME NEW r \in Runs
                   PROVE  /\ r.rev \in Nat /\ r.status \in Statuses
                          /\ r.turns \in Seq(Turns) /\ Len(r.turns) \in Nat
                          /\ r.turns \in Transcripts /\ Len(r.turns) <= MaxSteps
                          /\ r.recon \in SUBSET CallIds
<1>1. r.turns \in Transcripts
  BY DEF Runs
<1> QED BY <1>1 DEF Runs, Transcripts

\* A turn has a result; one with a call has a provider id and an operation, and
\* may be given another result.
LEMMA TurnType ==
  ASSUME NEW t \in Turns
  PROVE  /\ t.res \in Results
         /\ t.op = Final <=> t = FinalTurn
         /\ t.pid = Final <=> t = FinalTurn
         /\ t.op # Final => t.op \in Ops /\ t.pid \in ProviderIds
         /\ t.op # Final => \A res \in Results : [t EXCEPT !.res = res] \in Turns
BY OutputAssumption DEF Turns, FinalTurn, Results

\* The last turn of a transcript, when it has one.
LEMMA LastTurnType == ASSUME NEW r \in Runs, r.turns # <<>>
                      PROVE  LastTurn(r) \in Turns /\ Len(r.turns) \in 1..MaxSteps
<1>1. r.turns \in Seq(Turns) /\ Len(r.turns) <= MaxSteps
  BY RunFields
<1>2. Len(r.turns) \in Nat /\ Len(r.turns) # 0
  BY <1>1
<1>3. LastTurn(r) \in Turns
  BY <1>1, <1>2 DEF LastTurn
<1> QED BY <1>1, <1>2, <1>3, StoreAssumption

\* The call at the end of a transcript has a durable id.
LEMMA LastCallType == ASSUME NEW r \in Runs, EndsWithCall(r)
                      PROVE  /\ r.turns # <<>> /\ LastCall(r) \in CallIds
                             /\ LastTurn(r) \in Turns /\ LastTurn(r).op # Final
                             /\ LastCall(r) = <<Len(r.turns), LastTurn(r).pid, LastTurn(r).op>>
                             /\ Op(LastCall(r)) = LastTurn(r).op
                             /\ ProviderId(LastCall(r)) = LastTurn(r).pid
<1>1. r.turns # <<>> /\ LastTurn(r).op # Final
  BY DEF EndsWithCall
<1>2. LastTurn(r) \in Turns /\ Len(r.turns) \in 1..MaxSteps
  BY <1>1, LastTurnType
<1>3. LastTurn(r).op \in Ops /\ LastTurn(r).pid \in ProviderIds
  BY <1>1, <1>2, TurnType
<1>4. LastCall(r) = <<Len(r.turns), LastTurn(r).pid, LastTurn(r).op>>
  BY DEF LastCall, CallOf, LastTurn
<1> QED BY <1>1, <1>2, <1>3, <1>4 DEF CallIds, Op, ProviderId

\* What the model may answer.
NewTurns == [pid : ProviderIds, op : Ops, res : {NoResult}] \cup {FinalTurn}

\* A model step adds a turn within the ceiling.
LEMMA AppendType ==
  ASSUME NEW r \in Runs, NEW turn \in NewTurns, NEW s \in Statuses, ~Exhausted(r)
  PROVE  [r EXCEPT !.turns = Append(@, turn), !.status = s] \in Runs
<1>1. r.turns \in Seq(Turns) /\ Len(r.turns) \in Nat
  BY RunFields
<1>2. turn \in Turns
  BY DEF NewTurns, Turns, Results
<1>3. Append(r.turns, turn) \in Seq(Turns) /\ Len(Append(r.turns, turn)) <= MaxSteps
  BY <1>1, <1>2, StoreAssumption DEF Exhausted
<1> QED BY <1>3 DEF Runs, Transcripts

\* A tool result is written into the last turn.
LEMMA ResultType ==
  ASSUME NEW r \in Runs, NEW res \in Results, NEW s \in Statuses, EndsWithCall(r)
  PROVE  /\ [r EXCEPT !.turns[Len(r.turns)].res = res, !.status = s] \in Runs
         /\ Len([r EXCEPT !.turns[Len(r.turns)].res = res, !.status = s].turns)
              = Len(r.turns)
<1> DEFINE n == Len(r.turns)
           turn == [r.turns[n] EXCEPT !.res = res]
<1>1. r.turns \in Seq(Turns) /\ n <= MaxSteps /\ n \in 1..n
  BY RunFields, LastTurnType DEF EndsWithCall
<1>2. turn \in Turns
  BY LastCallType, TurnType DEF LastTurn
<1>3. [r.turns EXCEPT ![n] = turn] \in Seq(Turns) /\ Len([r.turns EXCEPT ![n] = turn]) = n
  BY <1>1, <1>2, ExceptSeq
<1> HIDE DEF turn
<1>4. [r.turns EXCEPT ![n] = turn] \in Transcripts
  BY <1>1, <1>3 DEF Transcripts
<1> QED BY <1>3, <1>4 DEF Runs, turn

----------------------------------------------------------------------------
(* Rows of the journal *)

\* Claiming a row gives a running row, and a typed journal.
LEMMA ClaimRowType ==
  ASSUME TypeOK, NEW id \in CallIds, ClaimRow(id)
  PROVE  /\ journal' \in [CallIds -> Rows]
         /\ journal'[id].status # "absent"
         /\ \A d \in CallIds \ {id} : journal'[d] = journal[d]
<1>1. journal \in [CallIds -> Rows] /\ journal[id] \in Rows
  BY DEF TypeOK, StoreTypeOK
<1>2. [journal[id] EXCEPT !.status = "running"] \in Rows
  BY <1>1 DEF Rows
<1>3. [journal[id] EXCEPT !.status = "running"].status = "running"
  BY <1>1 DEF Rows
<1> QED BY <1>1, <1>2, <1>3 DEF ClaimRow

\* Completing a row keeps the journal typed.
LEMMA CompleteRowType ==
  ASSUME TypeOK, NEW id \in CallIds, NEW n \in Nat, NEW s \in {"completed", "failed"},
         NEW out \in Results, NEW b \in BOOLEAN, CompleteRow(id, n, s, out, b)
  PROVE  /\ journal' \in [CallIds -> Rows]
         /\ journal'[id].status # "absent"
         /\ \A d \in CallIds \ {id} : journal'[d] = journal[d]
<1> DEFINE row == [status |-> s, rev |-> n + 1, out |-> out, recon |-> b]
<1>1. journal[id] \in Rows
  BY DEF TypeOK, StoreTypeOK
<1>2. row \in Rows /\ row.status = s
  BY <1>1 DEF Rows
<1>3. journal' = [journal EXCEPT ![id] = row]
  BY DEF CompleteRow
<1> HIDE DEF row
<1> QED BY <1>2, <1>3 DEF TypeOK, StoreTypeOK

----------------------------------------------------------------------------
(* Steps of one invocation *)

\* Invocation w moves, well typed; the others stay.
Moves(w) == /\ pc' \in [Workers -> PCs] /\ after' \in [Workers -> Afters]
            /\ st' \in [Workers -> Runs] /\ base' \in [Workers -> Runs]
            /\ \A v \in Workers \ {w} : /\ pc'[v] = pc[v] /\ st'[v] = st[v]
                                          /\ after'[v] = after[v]

\* It does not arrive at the tool.
Rests(w) == Moves(w) /\ pc'[w] # "toolRun" /\ Placed(w)'

\* It touches the checkpoint and the lease at most.
Quiet(w) == /\ Rests(w)
            /\ run' \in Runs /\ lease' \in Leases /\ late' \in [Workers -> Nat]
            /\ UNCHANGED <<journal, effects, reconVars>>

\* An invocation that leaves relies on no call any more.
LEMMA LeaveRests ==
  ASSUME TypeOK, NEW w \in Workers, NEW there \in {"done", "threw", "release"},
         Leave(w, there)
  PROVE  Rests(w)
<1>1. there \in PCs /\ "step" \in Afters
  BY DEF PCs, Ended, Afters, Checkpoints
<1>2. Moves(w) /\ pc'[w] = there
  BY <1>1, AbsentRecords DEF Leave, Goto, Set, Purpose, Moves, TypeOK, WorkerTypeOK
<1> QED BY <1>2 DEF Rests, Placed, Recovering, ModelPCs, ToolPCs, Persisting

\* Going on without touching the checkpoint moves one invocation only.
LEMMA ProceedMoves ==
  ASSUME TypeOK, NEW w \in Workers, NEW there \in PCs, Proceed(w, there)
  PROVE  Moves(w) /\ pc'[w] = there /\ st' = st /\ after' = after
BY DEF Proceed, Goto, Moves, TypeOK, WorkerTypeOK

\* Going on to a place outside the tool call relies on no call.
LEMMA ProceedRests ==
  ASSUME TypeOK, NEW w \in Workers,
         NEW there \in PCs \ (ModelPCs \cup ToolPCs \cup Persisting \cup {"assert"}),
         Proceed(w, there)
  PROVE  Rests(w)
BY ProceedMoves DEF Rests, Placed, Recovering, ToolPCs

\* Going on with a new checkpoint moves one invocation only.
LEMMA SetMoves ==
  ASSUME TypeOK, NEW w \in Workers, NEW there \in PCs, NEW r \in Runs, NEW a \in Afters,
         Goto(w, there), Set(w, r), Purpose(w, a) \/ UNCHANGED after,
         base' \in [Workers -> Runs]
  PROVE  /\ Moves(w) /\ pc'[w] = there /\ st'[w] = r
         /\ Purpose(w, a) => after'[w] = a
BY DEF Goto, Set, Purpose, Moves, TypeOK, WorkerTypeOK

\* Going on with a new checkpoint, outside the tool call, relies on no call.
LEMMA SetRests ==
  ASSUME TypeOK, NEW w \in Workers,
         NEW there \in PCs \ (ModelPCs \cup ToolPCs \cup {"assert"}),
         NEW r \in Runs, NEW a \in Afters,
         Goto(w, there), Set(w, r), Purpose(w, a) \/ UNCHANGED after,
         base' \in [Workers -> Runs],
         there \in Persisting => \/ Purpose(w, a) /\ a # "recovered"
                                \/ ~Exhausted(r)
  PROVE  Rests(w)
BY SetMoves DEF Rests, Placed, Recovering, ToolPCs

\* The run and the lease are typed.
LEMMA StoreTypes == TypeOK => run \in Runs /\ lease \in Leases
BY DEF TypeOK, StoreTypeOK

\* What one invocation keeps is typed.
LEMMA StoredTypes == ASSUME TypeOK, NEW w \in Workers
                     PROVE  /\ run \in Runs /\ lease \in Leases
                            /\ st[w] \in Runs /\ base[w] \in Runs
                            /\ late \in [Workers -> Nat] /\ late[w] \in Nat
                            /\ base \in [Workers -> Runs] /\ after[w] \in Afters
BY DEF TypeOK, StoreTypeOK, WorkerTypeOK

\* A step that neither reaches the tool nor touches the journal changes nothing
\* the other invocations rely on.
LEMMA QuietStep == ASSUME IInv, NEW w \in Workers, Quiet(w) PROVE IInv'
<1>1. TypeOK'
  BY DEF IInv, TypeOK, StoreTypeOK, WorkerTypeOK, ReconTypeOK, Quiet, Rests, Moves,
         reconVars
<1>2. AllPlaced'
  <2> SUFFICES ASSUME NEW v \in Workers PROVE Placed(v)'
    BY DEF AllPlaced
  <2>1. CASE v = w
    BY <2>1 DEF Quiet, Rests
  <2>2. CASE v # w
    BY <2>2 DEF Quiet, Rests, Moves, IInv, AllPlaced, Placed, Recovering
  <2> QED BY <2>1, <2>2
<1>3. RowBeforeEffect' /\ EffectAtMostOnce'
  BY DEF IInv, RowBeforeEffect, EffectAtMostOnce, Quiet
<1>4. ASSUME NEW v \in Workers, pc'[v] = "toolRun"
      PROVE  v # w /\ pc[v] = "toolRun" /\ Calling(v)' = Calling(v)
  <2>1. v # w
    BY <1>4 DEF Quiet, Rests
  <2>2. pc'[v] = pc[v] /\ st'[v] = st[v]
    BY <2>1 DEF Quiet, Rests, Moves
  <2> QED BY <1>4, <2>1, <2>2 DEF Calling, LastCall, CallOf
<1>5. RowHeld'
  BY <1>4 DEF IInv, RowHeld, Quiet
<1>6. OneExecutor'
  BY <1>4 DEF IInv, OneExecutor
<1>7. RCalled'
  BY DEF IInv, RCalled, Quiet, reconVars
<1> QED BY <1>1, <1>2, <1>3, <1>5, <1>6, <1>7 DEF IInv

----------------------------------------------------------------------------
(* Resolving, claiming and leasing the run *)

\* The places an invocation may be sent to without a condition on its checkpoint,
\* and those where a checkpoint is on its way to the store.
LEMMA FreePlaces ==
  /\ {"idle", "claimKey", "acquire", "ready", "finish", "failSync", "failLoad",
      "release", "claimSync", "claimSave", "claimResync", "done", "threw"}
       \subseteq PCs \ (ModelPCs \cup ToolPCs \cup Persisting \cup {"assert"})
  /\ Persisting \subseteq PCs \ (ModelPCs \cup ToolPCs \cup {"assert"})
  /\ Persisting = {"refresh", "save", "rebase"}
BY DEF PCs, Claiming, Persisting, Ended, ModelPCs, ToolPCs

\* The purposes of a save, one by one.
LEMMA AllAfters == Afters = {"fresh", "exhausted", "failure", "step", "tools", "recovered",
                             "finish"}
BY DEF Afters, Checkpoints

\* A loaded run is driven on or left alone; neither is a tool call.
LEMMA TakeLoadedRests == ASSUME TypeOK, NEW w \in Workers, TakeLoaded(w) PROVE Rests(w)
<1>1. CASE Resumes(run)
  BY <1>1, SetRests, StoredTypes, FreePlaces, AllAfters DEF TakeLoaded
<1>2. CASE ~Resumes(run)
  BY <1>2, LeaveRests DEF TakeLoaded
<1> QED BY <1>1, <1>2

\* Resolving the run preserves the invariant.
LEMMA ResolveStep ==
  ASSUME IInv, NEW w \in Workers, UNCHANGED reconVars,
         ResolveLoaded(w) \/ ResolveFresh(w) \/ ClaimIdempotencyKey(w)
  PROVE  Quiet(w)
<1> USE DEF IInv, Quiet, storeVars, historyVars
<1>1. CASE ResolveLoaded(w)
  BY <1>1, TakeLoadedRests, StoredTypes DEF ResolveLoaded
<1>2. CASE ResolveFresh(w)
  <2>1. Rests(w)
    BY <1>2, SetRests, StoredTypes, AbsentRecords, FreePlaces, AllAfters DEF ResolveFresh
  <2> QED BY <1>2, <2>1, StoredTypes DEF ResolveFresh
<1>3. CASE ClaimIdempotencyKey(w)
  <2>1. CASE run.status = "absent"
    BY <1>3, <2>1, ProceedRests, FreePlaces, StoredTypes DEF ClaimIdempotencyKey
  <2>2. CASE run.status # "absent"
    BY <1>3, <2>2, TakeLoadedRests, StoredTypes DEF ClaimIdempotencyKey
  <2> QED BY <2>1, <2>2
<1> QED BY <1>1, <1>2, <1>3

\* Acquiring and releasing keep the lease typed.
LEMMA LeaseTypes ==
  ASSUME TypeOK, NEW o \in Owners, AcquireLease(o) \/ ReleaseLease(o)
  PROVE  lease' \in Leases
<1>1. [owner |-> o, live |-> TRUE] \in Leases
  BY DEF Leases
<1> QED BY <1>1, AbsentRecords DEF AcquireLease, ReleaseLease, TypeOK, StoreTypeOK

\* Asking for the lease preserves the invariant, granted or refused.
LEMMA AcquireStep ==
  ASSUME IInv, NEW w \in Workers, UNCHANGED reconVars, AcquireExecutionLease(w)
  PROVE  Quiet(w)
<1> USE DEF IInv, Quiet, historyVars
<1>1. CASE LeaseAvailable(w)
  <2>1. lease' \in Leases
    BY <1>1, LeaseTypes DEF AcquireExecutionLease, Owners
  <2>2. /\ Goto(w, "ready") \/ Goto(w, "claimSync")
        /\ Purpose(w, "step") /\ UNCHANGED <<st, base>>
    BY <1>1 DEF AcquireExecutionLease
  <2>3. Set(w, st[w])
    BY <2>2, Zenon DEF Set, TypeOK, WorkerTypeOK
  <2>4. Rests(w)
    BY <2>2, <2>3, SetRests, StoredTypes, FreePlaces, AllAfters
  <2> QED BY <2>1, <2>4, StoredTypes DEF AcquireExecutionLease
<1>2. CASE ~LeaseAvailable(w)
  BY <1>2, LeaveRests, StoredTypes DEF AcquireExecutionLease
<1> QED BY <1>1, <1>2

\* Leaving a claim relies on no call.
LEMMA LeaveClaimRests == ASSUME TypeOK, NEW w \in Workers, LeaveClaim(w) PROVE Rests(w)
BY LeaveRests DEF LeaveClaim

\* A saved checkpoint is typed and has the transcript of its writer.
LEMMA SaveRunType == ASSUME NEW r \in Runs, SaveRun(r)
                     PROVE  run' \in Runs /\ run'.turns = r.turns
BY RevType DEF SaveRun

\* The three steps of the claim preserve the invariant.
LEMMA ClaimStep ==
  ASSUME IInv, NEW w \in Workers, UNCHANGED reconVars,
         ClaimSync(w) \/ ClaimSave(w) \/ ClaimResync(w)
  PROVE  Quiet(w)
<1> USE DEF IInv, Quiet, storeVars, historyVars
<1>1. CASE ClaimSync(w)
  BY <1>1, LeaveClaimRests, ProceedRests, FreePlaces, StoredTypes DEF ClaimSync
<1>2. CASE ClaimSave(w)
  <2> DEFINE r == [st[w] EXCEPT !.status = "running"]
  <2>1. r \in Runs
    BY StatusType, StoredTypes DEF Statuses
  <2>2. CASE RevisionMatches(r)
    <3>1. SaveRun(r) /\ Set(w, run') /\ base' = [base EXCEPT ![w] = run']
          /\ Goto(w, "claimResync") /\ UNCHANGED after
      BY <1>2, <2>2 DEF ClaimSave
    <3> HIDE DEF r
    <3>2. run' \in Runs
      BY <2>1, <3>1, SaveRunType
    <3>3. base' \in [Workers -> Runs]
      BY <3>1, <3>2, StoredTypes
    <3>4. Rests(w)
      BY <3>1, <3>2, <3>3, SetRests, FreePlaces, AllAfters
    <3> QED BY <1>2, <3>2, <3>4, StoredTypes DEF ClaimSave
  <2>3. CASE ~RevisionMatches(r)
    BY <1>2, <2>3, LeaveClaimRests, StoredTypes DEF ClaimSave
  <2> QED BY <2>2, <2>3
<1>3. CASE ClaimResync(w)
  BY <1>3, LeaveClaimRests, ProceedRests, FreePlaces, StoredTypes DEF ClaimResync
<1> QED BY <1>1, <1>2, <1>3

----------------------------------------------------------------------------
(* The step loop *)

\* Counting late calls keeps the counters typed.
LEMMA CountLateType == ASSUME TypeOK, NEW w \in Workers, CountLate(w)
                       PROVE  late' \in [Workers -> Nat]
BY StoredTypes DEF CountLate

\* Starting the step loop preserves the invariant.
LEMMA ReadyStep ==
  ASSUME IInv, NEW w \in Workers, UNCHANGED reconVars, Ready(w)
  PROVE  Quiet(w)
<1> USE DEF IInv, Quiet, storeVars, historyVars
<1>1. CASE Exhausted(st[w])
  <2>1. [st[w] EXCEPT !.status = "failed"] \in Runs
    BY StatusType, StoredTypes DEF Statuses
  <2>2. Rests(w)
    BY <1>1, <2>1, SetRests, StoredTypes, FreePlaces, AllAfters DEF Ready
  <2> QED BY <1>1, <2>2, StoredTypes DEF Ready
<1>2. CASE ~Exhausted(st[w])
  <2>1. {"toolCheck", "modelCheck"} \subseteq PCs
    BY DEF PCs
  <2>2. CASE Unresolved(st[w])
    <3>1. Goto(w, "toolCheck") /\ Purpose(w, "recovered") /\ UNCHANGED <<st, base>>
      BY <1>2, <2>2 DEF Ready
    <3>2. Set(w, st[w])
      BY <3>1, Zenon DEF Set, TypeOK, WorkerTypeOK
    <3>3. Moves(w) /\ pc'[w] = "toolCheck" /\ st'[w] = st[w]
      BY <2>1, <3>1, <3>2, SetMoves, StoredTypes, AllAfters
    <3>4. Rests(w)
      BY <1>2, <2>2, <3>3 DEF Rests, Placed, Unresolved
    <3> QED BY <3>4, StoredTypes DEF Ready
  <2>3. CASE ~Unresolved(st[w])
    BY <1>2, <2>1, <2>3, ProceedMoves, StoredTypes
    DEF Ready, Rests, Placed, ModelPCs, ToolPCs
  <2> QED BY <2>2, <2>3
<1> QED BY <1>1, <1>2

\* The hooks before a model step and a tool execution preserve it.
LEMMA HookStep ==
  ASSUME IInv, NEW w \in Workers, UNCHANGED reconVars,
         BeforeModelStep(w) \/ BeforeToolExecution(w)
  PROVE  Quiet(w)
<1> USE DEF IInv, Quiet, storeVars, historyVars
<1>1. CASE IsCancelled(run)
  BY <1>1, LeaveRests, StoredTypes DEF BeforeModelStep, BeforeToolExecution
<1>2. CASE ~IsCancelled(run)
  <2>1. {"model", "toolClaim"} \subseteq PCs
    BY DEF PCs
  <2>2. Placed(w)
    BY DEF AllPlaced
  <2>3. CASE BeforeModelStep(w)
    BY <1>2, <2>1, <2>2, <2>3, ProceedMoves, StoredTypes
    DEF BeforeModelStep, Rests, Placed, Recovering, ModelPCs, ToolPCs, Persisting
  <2>4. CASE BeforeToolExecution(w)
    BY <1>2, <2>1, <2>2, <2>4, ProceedMoves, StoredTypes
    DEF BeforeToolExecution, Rests, Placed, Recovering, ModelPCs, ToolPCs
  <2> QED BY <2>3, <2>4
<1> QED BY <1>1, <1>2

\* The step it makes is within the ceiling.
LEMMA ModelStepQuiet ==
  ASSUME IInv, NEW w \in Workers, UNCHANGED reconVars, ModelStep(w)
  PROVE  Quiet(w)
<1> USE DEF IInv, Quiet, storeVars
<1> DEFINE r(turn) == [st[w] EXCEPT !.turns = Append(@, turn),
                                    !.status = IF turn = FinalTurn THEN "completed"
                                               ELSE "running"]
<1>1. PICK turn \in NewTurns : Set(w, r(turn))
  BY DEF ModelStep, NewTurns
<1>2. ~Exhausted(st[w])
  BY DEF ModelStep, AllPlaced, Placed, ModelPCs
<1>3. (IF turn = FinalTurn THEN "completed" ELSE "running") \in Statuses
  BY DEF Statuses
<1>4. r(turn) \in Runs
  BY <1>2, <1>3, AppendType, StoredTypes
<1> HIDE DEF r
<1>5. Rests(w)
  BY <1>1, <1>4, SetRests, StoredTypes, FreePlaces, AllAfters DEF ModelStep
<1> QED BY <1>5, CountLateType, StoredTypes DEF ModelStep

\* A result goes to the call the checkpoint ends with.
LEMMA RecordRests ==
  ASSUME TypeOK, NEW w \in Workers, NEW res \in Results, pc[w] \in ToolPCs, Placed(w),
         RecordResult(w, res)
  PROVE  Rests(w)
<1> DEFINE r == [st[w] EXCEPT !.turns[Len(st[w].turns)].res = res, !.status = "running"]
           a == IF after[w] = "recovered" THEN "recovered" ELSE "tools"
<1>1. r \in Runs /\ Len(r.turns) = Len(st[w].turns)
  BY ResultType, StoredTypes DEF Statuses, Placed
<1>2. /\ Set(w, r) /\ Goto(w, "refresh") /\ Purpose(w, a) /\ UNCHANGED base
  BY DEF RecordResult
<1> HIDE DEF r
<1>3. a = "recovered" => ~Exhausted(r)
  BY <1>1 DEF Placed, Recovering, Exhausted
<1> QED BY <1>1, <1>2, <1>3, SetRests, StoredTypes, FreePlaces, AllAfters

----------------------------------------------------------------------------
(* The tool and its journal *)

\* What the journal answers for a call is a result.
LEMMA JournalResultType == ASSUME TypeOK, NEW id \in CallIds
                           PROVE  JournalResult(id) \in Results
BY DEF TypeOK, StoreTypeOK, JournalResult, Rows, Results

\* The call an invocation with a turn is about is typed.
LEMMA CallType == ASSUME IInv, NEW w \in Workers, pc[w] \in ToolPCs
                  PROVE  /\ EndsWithCall(st[w]) /\ Placed(w) /\ st[w] \in Runs
                         /\ Calling(w) \in CallIds /\ LastCall(st[w]) \in CallIds
<1>1. EndsWithCall(st[w]) /\ Placed(w)
  BY DEF IInv, AllPlaced, Placed
<1>2. st[w] \in Runs
  BY StoredTypes DEF IInv
<1> QED BY <1>1, <1>2, LastCallType DEF Calling

\* A call answered without its row being written leaves the journal alone.
LEMMA AnsweredQuiet ==
  ASSUME IInv, NEW w \in Workers, UNCHANGED <<storeVars, historyVars, reconVars>>,
         pc[w] \in ToolPCs, NEW res \in Results, RecordResult(w, res)
  PROVE  Quiet(w)
<1>1. Rests(w)
  BY CallType, RecordRests DEF IInv
<1> QED BY <1>1, StoredTypes DEF Quiet, IInv, storeVars, historyVars

\* A failed claim is answered without a row being written.
LEMMA ClaimFailsStep ==
  ASSUME IInv, NEW w \in Workers, UNCHANGED reconVars, ClaimFails(w)
  PROVE  Quiet(w)
<1>1. (IF Claimable(LastCall(st[w])) THEN ClaimError ELSE ErrorResult) \in Results
  BY DEF Results
<1> QED BY <1>1, AnsweredQuiet DEF ClaimFails, ToolPCs

\* The row goes to the one invocation that finds none.
LEMMA ClaimToolStep ==
  ASSUME IInv, NEW w \in Workers, UNCHANGED reconVars, ClaimToolExecution(w)
  PROVE  IInv'
<1> DEFINE id == Calling(w)
<1>1. pc[w] = "toolClaim" /\ UNCHANGED <<run, lease, historyVars>>
  BY DEF ClaimToolExecution
<1>2. id \in CallIds /\ Placed(w)
  BY <1>1, CallType DEF ToolPCs
<1>3. CASE Op(id) \in Confirmed(st[w]) \/ ~Claimable(id)
  <2>1. Evidence \in Results /\ JournalResult(id) \in Results
    BY <1>2, JournalResultType DEF IInv, Results, Outputs
  <2>2. /\ RecordResult(w, Evidence) \/ RecordResult(w, JournalResult(id))
        /\ UNCHANGED journal
    BY <1>3 DEF ClaimToolExecution, Calling
  <2>3. Quiet(w)
    BY <1>1, <2>1, <2>2, AnsweredQuiet DEF ToolPCs, storeVars
  <2> QED BY <2>3, QuietStep
<1>4. CASE Op(id) \notin Confirmed(st[w]) /\ Claimable(id)
  <2>1. ClaimRow(id) /\ Proceed(w, "toolRun")
    BY <1>4 DEF ClaimToolExecution, Calling
  <2>2. Moves(w) /\ pc'[w] = "toolRun" /\ st' = st /\ after' = after
    <3>1. "toolRun" \in PCs
      BY DEF PCs
    <3> QED BY <2>1, <3>1, ProceedMoves DEF IInv
  <2>3. /\ journal' \in [CallIds -> Rows]
        /\ journal'[id].status # "absent"
        /\ \A d \in CallIds \ {id} : journal'[d] = journal[d]
    BY <1>2, <2>1, ClaimRowType DEF IInv
  <2>4. journal[id].status = "absent" /\ effects[id] = 0
    BY <1>2, <1>4 DEF Claimable, IInv, RowBeforeEffect
  <2>5. \A v \in Workers : Calling(v)' = Calling(v)
    BY <2>2 DEF Calling, LastCall, CallOf
  <2>6. \A v \in Workers \ {w} : /\ pc'[v] = pc[v]
                                 /\ pc[v] = "toolRun" => Calling(v) # id
    BY <2>2, <2>4 DEF Moves, IInv, RowHeld
  <2>7. TypeOK'
    BY <1>1, <2>2, <2>3 DEF IInv, TypeOK, StoreTypeOK, WorkerTypeOK, ReconTypeOK, Moves,
       reconVars, historyVars
  <2>8. AllPlaced'
    BY <1>1, <1>2, <2>2
    DEF IInv, AllPlaced, Placed, Recovering, Moves, ModelPCs, ToolPCs
  <2>9. RowBeforeEffect' /\ EffectAtMostOnce'
    BY <1>1, <2>3 DEF IInv, RowBeforeEffect, EffectAtMostOnce, historyVars
  <2>10. RowHeld'
    <3> SUFFICES ASSUME NEW v \in Workers, pc'[v] = "toolRun"
                 PROVE  journal'[Calling(v)].status # "absent" /\ effects[Calling(v)] = 0
      BY <1>1, <2>5 DEF RowHeld, historyVars
    <3>1. CASE v = w
      BY <2>3, <2>4, <3>1
    <3>2. CASE v # w
      <4>1. /\ pc[v] = "toolRun" /\ Calling(v) # id
            /\ journal[Calling(v)].status # "absent" /\ effects[Calling(v)] = 0
        BY <2>6, <3>2 DEF IInv, RowHeld
      <4>2. Calling(v) \in CallIds
        BY <4>1, CallType DEF ToolPCs
      <4> QED BY <2>3, <4>1, <4>2
    <3> QED BY <3>1, <3>2
  <2>11. OneExecutor'
    BY <2>2, <2>5, <2>6 DEF IInv, OneExecutor
  <2>12. RCalled'
    BY DEF IInv, RCalled, reconVars
  <2> QED BY <2>7, <2>8, <2>9, <2>10, <2>11, <2>12 DEF IInv
<1> QED BY <1>3, <1>4

\* The call it starts has a row, was never started, and is nobody else's.
LEMMA ExecuteStep ==
  ASSUME IInv, NEW w \in Workers, UNCHANGED reconVars, ExecuteTool(w)
  PROVE  IInv'
<1> DEFINE id == Calling(w)
<1>1. /\ pc[w] = "toolRun" /\ effects' = [effects EXCEPT ![id] = @ + 1]
      /\ UNCHANGED storeVars
  BY DEF ExecuteTool, Calling
<1>2. id \in CallIds /\ Placed(w)
  BY <1>1, CallType DEF ToolPCs
<1>3. Moves(w) /\ pc'[w] = "toolDone" /\ st' = st /\ after' = after
  <2>1. "toolDone" \in PCs
    BY DEF PCs
  <2> QED BY <2>1, ProceedMoves DEF ExecuteTool, IInv
<1>4. effects[id] = 0 /\ journal[id].status # "absent"
  BY <1>1 DEF IInv, RowHeld
<1>5. effects \in [CallIds -> Nat]
  BY DEF IInv, TypeOK, WorkerTypeOK
<1>6. /\ effects' \in [CallIds -> Nat] /\ effects'[id] = 1
      /\ \A d \in CallIds \ {id} : effects'[d] = effects[d]
  BY <1>1, <1>2, <1>4, <1>5
<1>7. TypeOK'
  BY <1>1, <1>3, <1>6, CountLateType
  DEF ExecuteTool, IInv, TypeOK, StoreTypeOK, WorkerTypeOK, ReconTypeOK, Moves,
      reconVars, storeVars
<1>8. AllPlaced'
  BY <1>1, <1>2, <1>3 DEF IInv, AllPlaced, Placed, Recovering, Moves, ModelPCs, ToolPCs
<1>9. RowBeforeEffect'
  BY <1>1, <1>4, <1>6 DEF IInv, RowBeforeEffect, storeVars
<1>10. EffectAtMostOnce'
  BY <1>6 DEF IInv, EffectAtMostOnce
<1>11. ASSUME NEW v \in Workers, pc'[v] = "toolRun"
       PROVE  /\ pc[v] = "toolRun" /\ Calling(v)' = Calling(v)
              /\ Calling(v) # id /\ Calling(v) \in CallIds
  <2>1. v # w /\ pc[v] = "toolRun"
    BY <1>3, <1>11 DEF Moves
  <2>2. Calling(v)' = Calling(v)
    BY <1>3 DEF Calling, LastCall, CallOf
  <2>3. Calling(v) # id
    BY <1>1, <2>1 DEF IInv, OneExecutor
  <2>4. Calling(v) \in CallIds
    BY <2>1, CallType DEF ToolPCs
  <2> QED BY <2>1, <2>2, <2>3, <2>4
<1>12. RowHeld'
  BY <1>1, <1>6, <1>11 DEF IInv, RowHeld, storeVars
<1>13. OneExecutor'
  BY <1>11 DEF IInv, OneExecutor
<1>14. RCalled'
  BY DEF IInv, RCalled, reconVars
<1> QED BY <1>7, <1>8, <1>9, <1>10, <1>12, <1>13, <1>14 DEF IInv

\* A row that is completed stays a row.
LEMMA RowsKept ==
  ASSUME IInv, TypeOK', NEW id \in CallIds,
         journal[id].status # "absent",
         journal'[id].status # "absent",
         \A d \in CallIds \ {id} : journal'[d] = journal[d],
         UNCHANGED effects
  PROVE  /\ RowBeforeEffect'
         /\ \A d \in CallIds : journal[d].status # "absent" => journal'[d].status # "absent"
BY DEF IInv, RowBeforeEffect

\* The end of a tool preserves it, whether its row matches or not.
LEMMA CompleteStep ==
  ASSUME IInv, NEW w \in Workers, UNCHANGED reconVars, CompleteToolExecution(w)
  PROVE  IInv'
<1> DEFINE id == LastCall(st[w])
<1>1. pc[w] = "toolDone" /\ UNCHANGED <<run, lease, historyVars>>
  BY DEF CompleteToolExecution
<1>2. Placed(w) /\ id \in CallIds /\ pc[w] \in ToolPCs
  BY <1>1, CallType DEF ToolPCs
<1>3. ErrorResult \in Results /\ w \in Results
  BY DEF Results, Outputs
<1>4. CASE RecordResult(w, ErrorResult) /\ UNCHANGED journal
  <2>1. Quiet(w)
    BY <1>1, <1>2, <1>3, <1>4, RecordRests, StoredTypes DEF Quiet, IInv, historyVars
  <2> QED BY <2>1, QuietStep
<1>5. ASSUME NEW outcome \in ToolOutcomes, NEW out \in {w, ErrorResult},
             RowMatches(id, 0), CompleteRow(id, 0, outcome, out, FALSE),
             RecordResult(w, out)
      PROVE  IInv'
  <2>1. outcome \in {"completed", "failed"} /\ out \in Results
    BY <1>3, <1>5 DEF ToolOutcomes
  <2>2. /\ journal' \in [CallIds -> Rows]
        /\ journal'[id].status # "absent"
        /\ \A d \in CallIds \ {id} : journal'[d] = journal[d]
    BY <1>2, <1>5, <2>1, CompleteRowType DEF IInv
  <2>3. Rests(w)
    BY <1>2, <1>5, <2>1, RecordRests DEF IInv
  <2>4. TypeOK'
    BY <1>1, <2>2, <2>3 DEF IInv, TypeOK, StoreTypeOK, WorkerTypeOK, ReconTypeOK, Moves,
       Rests, reconVars, historyVars
  <2>5. AllPlaced'
    BY <2>3 DEF Rests, IInv, AllPlaced, Placed, Recovering, Moves
  <2>6. /\ RowBeforeEffect'
        /\ \A d \in CallIds : journal[d].status # "absent" => journal'[d].status # "absent"
    BY <1>1, <1>2, <1>5, <2>2, <2>4, RowsKept DEF RowMatches, historyVars
  <2>7. ASSUME NEW v \in Workers, pc'[v] = "toolRun"
        PROVE  /\ pc[v] = "toolRun" /\ Calling(v)' = Calling(v) /\ Calling(v) \in CallIds
    <3>1. v # w
      BY <2>3, <2>7 DEF Rests
    <3>2. pc[v] = "toolRun" /\ st'[v] = st[v]
      BY <2>3, <2>7, <3>1 DEF Rests, Moves
    <3> QED BY <3>2, CallType DEF ToolPCs, Calling, LastCall, CallOf
  <2>8. RowHeld'
    BY <1>1, <2>6, <2>7 DEF IInv, RowHeld, historyVars
  <2>9. OneExecutor' /\ EffectAtMostOnce'
    BY <1>1, <2>7 DEF IInv, OneExecutor, EffectAtMostOnce, historyVars
  <2>10. RCalled'
    BY DEF IInv, RCalled, reconVars
  <2> QED BY <2>4, <2>5, <2>6, <2>8, <2>9, <2>10 DEF IInv
<1> QED BY <1>4, <1>5 DEF CompleteToolExecution

----------------------------------------------------------------------------
(* Checkpoints and failures *)

\* A failed write relies on no call.
LEMMA PersistErrorRests == ASSUME TypeOK, NEW w \in Workers, PersistError(w)
                           PROVE  Rests(w)
BY LeaveRests, ProceedRests, FreePlaces DEF PersistError

\* Reading the journal before a write preserves the invariant.
LEMMA RefreshStep ==
  ASSUME IInv, NEW w \in Workers, UNCHANGED reconVars, PersistRefresh(w)
  PROVE  Quiet(w)
<1> DEFINE r == Refreshed(st[w])
<1>1. r \in Runs
  BY RefreshedType, StoredTypes DEF IInv
<1>2. r.turns = st[w].turns /\ Placed(w)
  BY StoredTypes DEF IInv, Refreshed, Runs, AllPlaced
<1>3. pc[w] \in Persisting /\ Goto(w, "save") /\ Set(w, r) /\ UNCHANGED <<after, base>>
  BY DEF PersistRefresh, Persisting
<1> HIDE DEF r
<1>4. Rests(w)
  <2>1. Moves(w) /\ pc'[w] = "save" /\ st'[w] = r
    BY <1>1, <1>3, SetMoves, StoredTypes, FreePlaces DEF IInv
  <2> QED BY <1>2, <1>3, <2>1, FreePlaces
          DEF Rests, Placed, Recovering, Exhausted, ToolPCs, ModelPCs
<1> QED BY <1>4, StoredTypes DEF PersistRefresh, Quiet, IInv, storeVars, historyVars

\* A stored checkpoint goes on to the next model step only below the ceiling.
LEMMA SaveStep ==
  ASSUME IInv, NEW w \in Workers, UNCHANGED reconVars, PersistSave(w)
  PROVE  Quiet(w)
<1> USE DEF IInv
<1>1. UNCHANGED <<lease, journal, effects>>
  BY DEF PersistSave
<1>2. late' \in [Workers -> Nat]
  BY StoredTypes DEF PersistSave
<1>3. CASE RevisionMatches(st[w])
  <2>1. SaveRun(st[w])
    BY <1>3 DEF PersistSave
  <2>2. run' \in Runs /\ run'.turns = st[w].turns
    BY <2>1, SaveRunType, StoredTypes
  <2>3. CASE after[w] \in Checkpoints
    <3>1. PICK there \in AfterSave(w) : Goto(w, there)
      BY <1>3, <2>3 DEF PersistSave
    <3>2. /\ Set(w, run') /\ base' = [base EXCEPT ![w] = run'] /\ UNCHANGED after
          /\ pc[w] = "save"
      BY <1>3, <2>3 DEF PersistSave
    <3>3. /\ there \in {"assert", "finish", "modelCheck"} /\ there \in PCs
          /\ there = "modelCheck" => after[w] = "recovered" \/ ~Exhausted(st[w])
          /\ there = "assert" => after[w] # "recovered"
      BY DEF AfterSave, PCs
    <3>4. Moves(w) /\ pc'[w] = there /\ st'[w] = run'
      <4>1. base' \in [Workers -> Runs]
        BY <2>2, <3>2, StoredTypes
      <4>2. after[w] \in Afters
        BY StoredTypes
      <4> QED BY <2>2, <3>1, <3>2, <3>3, <4>1, <4>2, SetMoves
    <3>5. there = "modelCheck" => ~Exhausted(run')
      BY <2>2, <3>2, <3>3, FreePlaces DEF AllPlaced, Placed, Recovering, Exhausted
    <3>6. Rests(w)
      BY <3>2, <3>3, <3>4, <3>5 DEF Rests, Placed, Recovering, ModelPCs, ToolPCs, Persisting
    <3> QED BY <1>1, <1>2, <2>2, <3>6, StoredTypes DEF Quiet
  <2>4. CASE after[w] \notin Checkpoints
    BY <1>1, <1>2, <1>3, <2>2, <2>4, LeaveRests, StoredTypes DEF PersistSave, Quiet
  <2> QED BY <2>3, <2>4
<1>4. CASE ~RevisionMatches(st[w])
  <2>1. UNCHANGED run
    BY <1>4 DEF PersistSave
  <2>2. CASE after[w] \in Checkpoints
    <3>1. Proceed(w, "rebase") /\ pc[w] = "save" /\ Placed(w)
      BY <1>4, <2>2 DEF PersistSave, AllPlaced
    <3>2. Rests(w)
      BY <3>1, ProceedMoves, FreePlaces
      DEF Rests, Placed, Recovering, ModelPCs, ToolPCs
    <3> QED BY <1>1, <1>2, <2>1, <3>2, StoredTypes DEF Quiet
  <2>3. CASE after[w] \notin Checkpoints
    BY <1>1, <1>2, <1>4, <2>1, <2>3, PersistErrorRests, StoredTypes DEF PersistSave, Quiet
  <2> QED BY <2>2, <2>3
<1> QED BY <1>3, <1>4

\* Moving a checkpoint over a cancellation preserves the invariant.
LEMMA RebaseStep ==
  ASSUME IInv, NEW w \in Workers, UNCHANGED reconVars, PersistRebase(w)
  PROVE  Quiet(w)
<1> USE DEF IInv, Quiet, storeVars, historyVars
<1>1. CASE CancellationOnly(base[w], run)
  <2> DEFINE r == [st[w] EXCEPT !.status = run.status, !.rev = run.rev]
  <2>1. r \in Runs /\ r.turns = st[w].turns
    BY StatusRevType, StoredTypes, RunFields DEF Runs
  <2>2. /\ base' = [base EXCEPT ![w] = run] /\ pc[w] \in Persisting /\ Placed(w)
        /\ Set(w, r) /\ Goto(w, "refresh") /\ UNCHANGED after
    BY <1>1 DEF PersistRebase, AllPlaced, Persisting
  <2> HIDE DEF r
  <2>3. Moves(w) /\ pc'[w] = "refresh" /\ st'[w] = r
    BY <2>1, <2>2, SetMoves, StoredTypes, FreePlaces
  <2>4. Rests(w)
    BY <2>1, <2>2, <2>3, FreePlaces
    DEF Rests, Placed, Recovering, Exhausted, ModelPCs, ToolPCs
  <2> QED BY <2>4, StoredTypes DEF PersistRebase
<1>2. CASE ~CancellationOnly(base[w], run)
  BY <1>2, ProceedRests, FreePlaces, StoredTypes DEF PersistRebase
<1> QED BY <1>1, <1>2

\* The cancellation check after a checkpoint preserves the invariant.
LEMMA AssertStep ==
  ASSUME IInv, NEW w \in Workers, UNCHANGED reconVars, AssertNotCancelled(w)
  PROVE  Quiet(w)
<1> USE DEF IInv, Quiet, storeVars, historyVars
<1>1. CASE IsCancelled(run) \/ after[w] = "finish"
  BY <1>1, LeaveRests, StoredTypes DEF AssertNotCancelled
<1>2. CASE ~(IsCancelled(run) \/ after[w] = "finish") /\ ~EndsWithCall(st[w])
  BY <1>2, ProceedRests, FreePlaces, StoredTypes DEF AssertNotCancelled
<1>3. CASE ~(IsCancelled(run) \/ after[w] = "finish") /\ EndsWithCall(st[w])
  <2>1. Proceed(w, "toolCheck") /\ "toolCheck" \in PCs /\ after[w] # "recovered"
    BY <1>3 DEF AssertNotCancelled, PCs, AllPlaced, Placed
  <2>2. Rests(w)
    BY <1>3, <2>1, ProceedMoves
    DEF Rests, Placed, Recovering, ModelPCs, ToolPCs
  <2> QED BY <2>2, StoredTypes DEF AssertNotCancelled
<1> QED BY <1>1, <1>2, <1>3

\* Finalizing the run preserves the invariant.
LEMMA FinishStep ==
  ASSUME IInv, NEW w \in Workers, UNCHANGED reconVars, Finish(w)
  PROVE  Quiet(w)
<1>1. [st[w] EXCEPT !.status = IF Exhausted(st[w]) /\ EndsWithCall(st[w])
                               THEN "failed" ELSE "completed"] \in Runs
  BY StatusType, StoredTypes DEF IInv, Statuses
<1>2. Rests(w)
  BY <1>1, SetRests, StoredTypes, FreePlaces, AllAfters DEF Finish, IInv
<1> QED BY <1>2, StoredTypes DEF Finish, Quiet, IInv, storeVars, historyVars

\* Stops, faults and the cancellation check of a failure preserve it.
LEMMA StopStep ==
  ASSUME IInv, NEW w \in Workers, UNCHANGED reconVars,
         UnknownToolExecution(w) \/ MonitorStops(w) \/ Interrupt(w) \/ FailSync(w)
  PROVE  Quiet(w)
<1> USE DEF IInv, Quiet, storeVars, historyVars
<1>1. CASE UnknownToolExecution(w)
  BY <1>1, ProceedRests, FreePlaces, StoredTypes DEF UnknownToolExecution
<1>2. CASE MonitorStops(w)
  BY <1>2, LeaveRests, StoredTypes DEF MonitorStops
<1>3. CASE Interrupt(w)
  BY <1>3, ProceedRests, PersistErrorRests, LeaveClaimRests, FreePlaces, StoredTypes
  DEF Interrupt
<1>4. CASE FailSync(w)
  BY <1>4, LeaveRests, ProceedRests, FreePlaces, StoredTypes DEF FailSync
<1> QED BY <1>1, <1>2, <1>3, <1>4

\* A checkpoint laid over another is a checkpoint.
LEMMA OverlaidType == ASSUME NEW r \in Runs, NEW d \in Runs
                      PROVE  OverlaidOn(r, d) \in Runs
<1>1. (IF r.recon = {} THEN d.recon ELSE r.recon) \in SUBSET CallIds
  BY RunFields
<1> QED BY <1>1 DEF OverlaidOn, Runs

\* Loading the state a failure is written over preserves it.
LEMMA FailLoadStep ==
  ASSUME IInv, NEW w \in Workers, UNCHANGED reconVars, FailLoad(w)
  PROVE  Quiet(w)
<1> DEFINE failed(r) == [r EXCEPT !.rev = run.rev, !.status = "failed"]
<1>1. ASSUME NEW r \in Runs PROVE failed(r) \in Runs
  <2>1. run.rev \in Nat
    BY RunFields, StoredTypes DEF IInv
  <2> QED BY <1>1, <2>1 DEF Runs, Statuses
<1>2. failed(run) \in Runs /\ failed(OverlaidOn(st[w], run)) \in Runs
  BY <1>1, OverlaidType, StoredTypes DEF IInv
<1>3. Set(w, failed(run)) \/ Set(w, failed(OverlaidOn(st[w], run)))
  BY DEF FailLoad
<1> HIDE DEF failed
<1>4. /\ Purpose(w, "failure") /\ Goto(w, "refresh")
      /\ UNCHANGED <<storeVars, base, historyVars>>
  BY DEF FailLoad
<1>5. Rests(w)
  BY <1>2, <1>3, <1>4, SetRests, StoredTypes, FreePlaces, AllAfters DEF IInv
<1> QED BY <1>4, <1>5, StoredTypes DEF Quiet, IInv, storeVars, historyVars

\* Releasing the lease preserves the invariant.
LEMMA ReleaseStep ==
  ASSUME IInv, NEW w \in Workers, UNCHANGED reconVars, Release(w)
  PROVE  Quiet(w)
BY ProceedRests, FreePlaces, LeaseTypes, StoredTypes
DEF Release, Quiet, IInv, historyVars, Owners

\* Every step of an invocation preserves the invariant.
LEMMA WorkerIInv ==
  ASSUME IInv, NEW w \in Workers, WorkerStep(w), UNCHANGED reconVars
  PROVE  IInv'
<1>1. CASE ClaimToolExecution(w) \/ ExecuteTool(w) \/ CompleteToolExecution(w)
  BY <1>1, ClaimToolStep, ExecuteStep, CompleteStep
<1>2. CASE ~(ClaimToolExecution(w) \/ ExecuteTool(w) \/ CompleteToolExecution(w))
  <2>1. Quiet(w)
    BY <1>2, ResolveStep, AcquireStep, ClaimStep, ReadyStep, HookStep, ModelStepQuiet,
       ClaimFailsStep, RefreshStep, SaveStep, RebaseStep, AssertStep, FinishStep, StopStep,
       FailLoadStep, ReleaseStep DEF WorkerStep
  <2> QED BY <2>1, QuietStep
<1> QED BY <1>1, <1>2

----------------------------------------------------------------------------
(* Reconciliation, cancellation and time *)

\* What one reconciliation keeps is typed.
LEMMA ReconTypes == ASSUME TypeOK, NEW r \in Reconcilers
                    PROVE  /\ rst[r] \in Runs /\ rid[r] \in CallIds \cup {NoCall}
                           /\ rrow[r] \in Rows /\ rrow[r].rev \in Nat
BY DEF TypeOK, ReconTypeOK, Rows

\* A reconciler moves, well typed and with a call where it needs one.
RMoves == ReconTypeOK' /\ RCalled'

\* Steps of others leave every row, and the invocations, where they are.
LEMMA OtherStep ==
  ASSUME IInv, StoreTypeOK', RMoves, UNCHANGED workerVars,
         \A d \in CallIds : journal[d].status # "absent" => journal'[d].status # "absent"
  PROVE  IInv'
<1> USE DEF workerVars
<1>1. AllPlaced'
  BY DEF IInv, AllPlaced, Placed, Recovering
<1>2. RowBeforeEffect' /\ EffectAtMostOnce'
  BY DEF IInv, RowBeforeEffect, EffectAtMostOnce
<1>3. \A v \in Workers : Calling(v)' = Calling(v)
  BY DEF Calling, LastCall, CallOf
<1>4. RowHeld'
  <2> SUFFICES ASSUME NEW v \in Workers, pc'[v] = "toolRun"
               PROVE  journal'[Calling(v)].status # "absent" /\ effects'[Calling(v)] = 0
    BY <1>3 DEF RowHeld
  <2>1. Calling(v) \in CallIds
    BY CallType DEF ToolPCs
  <2> QED BY <2>1 DEF IInv, RowHeld
<1>5. OneExecutor'
  BY <1>3 DEF IInv, OneExecutor
<1>6. TypeOK'
  BY DEF IInv, TypeOK, WorkerTypeOK, RMoves
<1> QED BY <1>1, <1>2, <1>4, <1>5, <1>6 DEF IInv, RMoves

\* Going on with a reconciliation keeps what it knows.
LEMMA RProceedMoves ==
  ASSUME TypeOK, RCalled, NEW r \in Reconcilers, NEW there \in RPCs, RProceed(r, there),
         there \in {"verify", "journal", "project", "save"} => rpc[r] = "verify" \/ rpc[r] = "journal"
  PROVE  RMoves
<1>1. ReconTypeOK'
  BY DEF RProceed, RGoto, TypeOK, ReconTypeOK
<1>2. RCalled'
  BY DEF RProceed, RGoto, TypeOK, ReconTypeOK, RCalled
<1> QED BY <1>1, <1>2 DEF RMoves

\* Leaving a reconciliation forgets its call.
LEMMA RLeaveMoves == ASSUME TypeOK, RCalled, NEW r \in Reconcilers, RLeave(r, "release")
                     PROVE  RMoves
<1>1. "release" \in RPCs
  BY DEF RPCs
<1>2. ReconTypeOK'
  BY <1>1, AbsentRecords DEF RLeave, RGoto, TypeOK, ReconTypeOK
<1>3. RCalled'
  BY DEF RLeave, RGoto, TypeOK, ReconTypeOK, RCalled
<1> QED BY <1>2, <1>3 DEF RMoves

\* Writing the evidence into a transcript keeps it typed, and its length.
LEMMA WithEvidenceType ==
  ASSUME NEW turns \in Transcripts, NEW pid \in ProviderIds
  PROVE  WithEvidence(turns, pid) \in Transcripts /\ Len(WithEvidence(turns, pid)) = Len(turns)
<1>1. Evidence \in Results
  BY DEF Results, Outputs
<1>2. turns \in Seq(Turns) /\ Len(turns) <= MaxSteps
  BY DEF Transcripts
<1>3. \A i \in 1..Len(turns) : turns[i] \in Turns
  BY <1>2
<1>4. \A i \in 1..Len(turns) : turns[i].pid = pid => [turns[i] EXCEPT !.res = Evidence] \in Turns
  BY <1>1, <1>3, TurnType, OutputAssumption
<1> DEFINE new == [i \in 1..Len(turns) |->
                     IF turns[i].pid = pid /\ turns[i].res # NoResult
                     THEN [turns[i] EXCEPT !.res = Evidence] ELSE turns[i]]
<1>5. new \in [1..Len(turns) -> Turns]
  BY <1>3, <1>4
<1>6. WithEvidence(turns, pid) = new /\ Len(turns) \in Nat
  BY <1>2 DEF WithEvidence
<1>7. DOMAIN new = 1..Len(turns)
  OBVIOUS
<1> HIDE DEF new
<1>8. new \in Seq(Turns)
  BY <1>5, <1>6, SeqDef
<1>9. Len(new) = Len(turns)
  BY <1>6, <1>7, <1>8, LenProperties
<1> QED BY <1>2, <1>6, <1>8, <1>9 DEF Transcripts

\* The provider id of a call is one.
LEMMA ProviderIdType == ASSUME NEW id \in CallIds PROVE ProviderId(id) \in ProviderIds
BY DEF CallIds, ProviderId

\* The steps of a reconciliation that write nothing preserve the invariant.
LEMMA RWait ==
  ASSUME IInv, NEW r \in Reconcilers, UNCHANGED workerVars,
         \/ RAcquire(r) \/ RLoadState(r) \/ RLoadEntry(r) \/ RVerify(r) \/ RRelease(r)
  PROVE  IInv'
<1> USE DEF IInv, storeVars
<1>1. {"state", "done", "entry", "verify", "project", "journal"} \subseteq RPCs
  BY DEF RPCs
<1>2. UNCHANGED <<run, journal>>
  BY DEF RAcquire, RLoadState, RLoadEntry, RVerify, RRelease
<1>3. lease' \in Leases
  <2>1. CASE AcquireLease(r) \/ ReleaseLease(r)
    BY <2>1, LeaseTypes DEF Owners
  <2>2. CASE UNCHANGED lease
    BY <2>2, StoreTypes
  <2> QED BY <2>1, <2>2 DEF RAcquire, RLoadState, RLoadEntry, RVerify, RRelease
<1>4. RMoves
  <2>1. CASE RAcquire(r) \/ RVerify(r) \/ RRelease(r)
    BY <1>1, <2>1, RProceedMoves, RLeaveMoves DEF RAcquire, RVerify, RRelease
  <2>2. CASE RLoadState(r)
    <3>1. CASE IsCancelled(run)
      BY <2>2, <3>1, RLeaveMoves DEF RLoadState
    <3>2. CASE ~IsCancelled(run)
      BY <1>1, <2>2, <3>2, StoreTypes
      DEF RLoadState, RGoto, RMoves, TypeOK, ReconTypeOK, RCalled
    <3> QED BY <3>1, <3>2
  <2>3. CASE RLoadEntry(r)
    <3>1. CASE RLeave(r, "release")
      BY <3>1, RLeaveMoves
    <3>2. ASSUME NEW id \in CallIds, rid' = [rid EXCEPT ![r] = id],
                 rrow' = [rrow EXCEPT ![r] = journal[id]], RGoto(r, "verify"),
                 UNCHANGED rst
          PROVE  RMoves
      BY <1>1, <3>2 DEF RGoto, RMoves, TypeOK, StoreTypeOK, ReconTypeOK, RCalled
    <3> QED BY <2>3, <3>1, <3>2 DEF RLoadEntry
  <2> QED BY <2>1, <2>2, <2>3
<1>5. StoreTypeOK'
  BY <1>2, <1>3 DEF TypeOK, StoreTypeOK
<1> QED BY <1>2, <1>4, <1>5, OtherStep

\* The write-ahead decision of a reconciliation preserves it.
LEMMA RCompleteRowStep ==
  ASSUME IInv, NEW r \in Reconcilers, UNCHANGED workerVars, RCompleteRow(r)
  PROVE  IInv'
<1> USE DEF IInv
<1>1. rid[r] \in CallIds /\ "project" \in RPCs
  BY DEF RCompleteRow, RCalled, RPCs
<1>2. UNCHANGED <<run, lease>>
  BY DEF RCompleteRow
<1>3. RMoves
  BY <1>1, RProceedMoves, RLeaveMoves DEF RCompleteRow
<1>4. /\ journal' \in [CallIds -> Rows]
      /\ \A d \in CallIds : journal[d].status # "absent" => journal'[d].status # "absent"
  <2>1. CASE UNCHANGED journal
    BY <2>1 DEF TypeOK, StoreTypeOK
  <2>2. CASE CompleteRow(rid[r], rrow[r].rev, "completed", Evidence, TRUE)
    <3>1. Evidence \in Results
      BY DEF Results, Outputs
    <3> QED BY <1>1, <2>2, <3>1, CompleteRowType, ReconTypes
  <2> QED BY <2>1, <2>2 DEF RCompleteRow
<1>5. StoreTypeOK'
  BY <1>2, <1>4 DEF TypeOK, StoreTypeOK
<1> QED BY <1>3, <1>4, <1>5, OtherStep

\* Projecting the evidence onto the checkpoint preserves it.
LEMMA RProjectStep ==
  ASSUME IInv, NEW r \in Reconcilers, UNCHANGED workerVars, RProject(r)
  PROVE  IInv'
<1> USE DEF IInv
<1> DEFINE new == Requeued(rst[r], rid[r])
<1>1. rid[r] \in CallIds
  BY DEF RProject, RCalled
<1>2. new \in Runs
  <2>1. WithEvidence(rst[r].turns, ProviderId(rid[r])) \in Transcripts
    BY <1>1, ReconTypes, RunFields, WithEvidenceType, ProviderIdType
  <2>2. rst[r].recon \cup {rid[r]} \in SUBSET CallIds
    BY <1>1, ReconTypes, RunFields
  <2> QED BY <2>1, <2>2, ReconTypes DEF Requeued, Runs, Statuses
<1>3. /\ rst' = [rst EXCEPT ![r] = Refreshed(new)]
      /\ RGoto(r, "save") /\ UNCHANGED <<storeVars, rid, rrow>>
  BY DEF RProject
<1> HIDE DEF new
<1>4. Refreshed(new) \in Runs
  BY <1>2, RefreshedType
<1>5. RMoves
  BY <1>1, <1>3, <1>4 DEF RGoto, RMoves, RPCs, TypeOK, ReconTypeOK, RCalled
<1>6. StoreTypeOK' /\ UNCHANGED journal
  BY <1>3 DEF TypeOK, StoreTypeOK, storeVars
<1> QED BY <1>5, <1>6, OtherStep

\* Saving the reconciled checkpoint preserves it.
LEMMA RSaveStep ==
  ASSUME IInv, NEW r \in Reconcilers, UNCHANGED workerVars, RSave(r)
  PROVE  IInv'
<1> USE DEF IInv
<1>1. run' \in Runs
  <2>1. CASE SaveRun(rst[r])
    BY <2>1, SaveRunType, ReconTypes
  <2>2. CASE UNCHANGED run
    BY <2>2, StoreTypes
  <2> QED BY <2>1, <2>2 DEF RSave
<1>2. RMoves
  BY RLeaveMoves DEF RSave
<1>3. StoreTypeOK' /\ UNCHANGED journal
  BY <1>1 DEF RSave, TypeOK, StoreTypeOK
<1> QED BY <1>2, <1>3, OtherStep

\* Cancellations, expiries and stuttering preserve the invariant.
LEMMA OutsideStep ==
  ASSUME IInv, UNCHANGED <<workerVars, reconVars>>,
         (\E mode \in CancelModes : CancelAgentState(mode)) \/ ExpireLease \/ UNCHANGED vars
  PROVE  IInv'
<1> USE DEF IInv, storeVars
<1>1. UNCHANGED journal
  BY DEF CancelAgentState, ExpireLease, vars
<1>2. run' \in Runs
  <2>1. CASE \E mode \in CancelModes : CancelAgentState(mode)
    <3>1. PICK s \in {"cancelled", "cancel_requested"} : SaveRun([run EXCEPT !.status = s])
      BY <2>1 DEF CancelAgentState
    <3>2. [run EXCEPT !.status = s] \in Runs
      BY StatusType, StoreTypes DEF Statuses
    <3> QED BY <3>1, <3>2, SaveRunType
  <2>2. CASE ExpireLease \/ UNCHANGED vars
    BY <2>2, StoreTypes DEF ExpireLease, vars
  <2> QED BY <2>1, <2>2
<1>3. lease' \in Leases
  <2>1. CASE ExpireLease
    BY <2>1, StoreTypes DEF ExpireLease, Leases
  <2>2. CASE UNCHANGED lease
    BY <2>2, StoreTypes
  <2> QED BY <2>1, <2>2 DEF CancelAgentState, vars
<1>4. StoreTypeOK'
  BY <1>1, <1>2, <1>3 DEF TypeOK, StoreTypeOK
<1>5. RMoves
  BY DEF RMoves, TypeOK, ReconTypeOK, RCalled, reconVars
<1> QED BY <1>1, <1>4, <1>5, OtherStep

----------------------------------------------------------------------------
(* The invariant *)

\* The invariant holds initially.
LEMMA InitIInv == Init => IInv
<1> SUFFICES ASSUME Init PROVE IInv
  OBVIOUS
<1> USE DEF Init
<1>1. StoreTypeOK
  BY AbsentRecords DEF StoreInit, StoreTypeOK
<1>2. WorkerTypeOK
  BY AbsentRecords, AllAfters DEF WorkerInit, WorkerTypeOK, PCs
<1>3. ReconTypeOK /\ RCalled
  BY AbsentRecords DEF ReconInit, ReconTypeOK, RCalled, RPCs
<1>4. AllPlaced /\ RowHeld /\ OneExecutor
  BY DEF WorkerInit, AllPlaced, Placed, Recovering, RowHeld, OneExecutor, ModelPCs, ToolPCs,
         Persisting
<1>5. RowBeforeEffect /\ EffectAtMostOnce
  BY DEF WorkerInit, RowBeforeEffect, EffectAtMostOnce
<1> QED BY <1>1, <1>2, <1>3, <1>4, <1>5 DEF IInv, TypeOK

\* Every step preserves the invariant.
LEMMA NextIInv == IInv /\ [Next]_vars => IInv'
<1> SUFFICES ASSUME IInv, [Next]_vars PROVE IInv'
  OBVIOUS
<1>1. ASSUME NEW w \in Workers, WorkerStep(w), UNCHANGED reconVars PROVE IInv'
  BY <1>1, WorkerIInv
<1>2. ASSUME NEW r \in Reconcilers, ReconStep(r), UNCHANGED workerVars PROVE IInv'
  BY <1>2, RWait, RCompleteRowStep, RProjectStep, RSaveStep DEF ReconStep
<1>3. ASSUME NEW mode \in CancelModes, CancelAgentState(mode),
             UNCHANGED <<workerVars, reconVars>>
      PROVE  IInv'
  BY <1>3, OutsideStep
<1>4. CASE ExpireLease /\ UNCHANGED <<workerVars, reconVars>>
  BY <1>4, OutsideStep
<1>5. CASE UNCHANGED vars
  BY <1>5, OutsideStep DEF vars
<1> QED BY <1>1, <1>2, <1>3, <1>4, <1>5 DEF Next

\* The inductive invariant holds in every reachable state: the one fact the
\* safety theorems below are read off (all of AgentRun's actions).
THEOREM Invariance == Spec => []IInv
BY InitIInv, NextIInv, PTL DEF Spec

\* The store holds only records the code can write, and no model step goes over
\* the ceiling of the run.
THEOREM TypeCorrect == Spec => []TypeOK
<1>1. IInv => TypeOK
  BY DEF IInv
<1> QED BY Invariance, <1>1, PTL

\* Whatever invocations take the run over, outlive their lease, fail or are
\* reconciled, a tool call of the transcript is started at most once.
THEOREM ExecutedAtMostOnce == Spec => []EffectAtMostOnce
<1>1. IInv => EffectAtMostOnce
  BY DEF IInv
<1> QED BY Invariance, <1>1, PTL

----------------------------------------------------------------------------
(* Decisions of the journal *)

\* A row nobody claimed is empty, one that is running is at revision 0, and one
\* that is decided is later; a reconciler about to write
\* the journal has seen a running row.
RunningAtZero == \A id \in CallIds :
                   /\ journal[id].status = "absent" => journal[id] = AbsentRow
                   /\ journal[id].status = "running" => journal[id].rev = 0
                   /\ journal[id].status \in {"completed", "failed"} => journal[id].rev # 0
RSeesRunning == \A r \in Reconcilers :
                  /\ rpc[r] = "verify" => rrow[r].recon \/ rrow[r].rev = 0
                  /\ rpc[r] = "journal" => rrow[r].rev = 0

\* A decided row carries the output of an execution, an error, or the evidence
\* of a reconciliation.
Verdict(s, out, b) == \/ s = "completed" /\ out \in Workers /\ ~b
                      \/ s = "failed" /\ out = ErrorResult /\ ~b
                      \/ s = "completed" /\ out = Evidence /\ b
Answered == \A id \in CallIds :
              LET row == journal[id]
              IN IF row.status \in {"completed", "failed"}
                 THEN Verdict(row.status, row.out, row.recon)
                 ELSE ~row.recon
JInv == RunningAtZero /\ RSeesRunning /\ Answered

\* The two ways of writing a row: to claim an absent one, to decide a running one.
Claims(id) == journal[id].status = "absent" /\ ClaimRow(id)
Decides(id) == /\ journal[id].status = "running"
               /\ \E s \in {"completed", "failed"}, out \in Results, b \in BOOLEAN :
                    Verdict(s, out, b) /\ CompleteRow(id, 0, s, out, b)

\* A row an executor may complete at revision 0 is a running one.
LEMMA MatchedRunning ==
  ASSUME IInv, JInv, NEW id \in CallIds, RowMatches(id, 0)
  PROVE  journal[id].status = "running"
BY DEF IInv, TypeOK, StoreTypeOK, Rows, JInv, RunningAtZero, RowMatches

\* An invocation writes a row only by claiming it or by ending it at revision 0.
LEMMA WorkerWrites ==
  ASSUME IInv, JInv, NEW w \in Workers, WorkerStep(w), journal' # journal
  PROVE  \E id \in CallIds : Claims(id) \/ Decides(id)
<1> DEFINE id == LastCall(st[w])
<1>1. CASE ClaimToolExecution(w)
  BY <1>1, CallType DEF ClaimToolExecution, ToolPCs, Claims, Claimable
<1>2. CASE CompleteToolExecution(w)
  <2>1. id \in CallIds
    BY <1>2, CallType DEF CompleteToolExecution, ToolPCs
  <2>2. PICK s \in ToolOutcomes :
          /\ RowMatches(id, 0)
          /\ CompleteRow(id, 0, s, IF s = "completed" THEN w ELSE ErrorResult, FALSE)
    BY <1>2 DEF CompleteToolExecution
  <2>3. s \in {"completed", "failed"}
    BY DEF ToolOutcomes
  <2>4. (IF s = "completed" THEN w ELSE ErrorResult) \in Results
    BY DEF Results, Outputs
  <2>5. Verdict(s, IF s = "completed" THEN w ELSE ErrorResult, FALSE)
    BY <2>3 DEF Verdict
  <2>6. Decides(id)
    BY <2>1, <2>2, <2>3, <2>4, <2>5, MatchedRunning DEF Decides
  <2> QED BY <2>1, <2>6
<1> QED BY <1>1, <1>2
  DEF WorkerStep, storeVars, ResolveLoaded, ResolveFresh, ClaimIdempotencyKey,
      AcquireExecutionLease, ClaimSync, ClaimSave, ClaimResync, Ready, BeforeModelStep,
      ModelStep, BeforeToolExecution, ClaimFails, ExecuteTool, UnknownToolExecution,
      PersistRefresh, PersistSave, PersistRebase, AssertNotCancelled, Finish,
      MonitorStops, Interrupt, FailSync, FailLoad, Release

\* A reconciliation writes a row only at the revision it has read.
LEMMA ReconWrites ==
  ASSUME IInv, JInv, NEW r \in Reconcilers, ReconStep(r), journal' # journal
  PROVE  \E id \in CallIds : Claims(id) \/ Decides(id)
<1>1. RCompleteRow(r)
  BY DEF ReconStep, storeVars, RAcquire, RLoadState, RLoadEntry, RVerify, RProject,
     RSave, RRelease
<1>2. rid[r] \in CallIds /\ rrow[r].rev = 0
  BY <1>1 DEF RCompleteRow, IInv, RCalled, JInv, RSeesRunning
<1>3. RowMatches(rid[r], 0) /\ CompleteRow(rid[r], 0, "completed", Evidence, TRUE)
  BY <1>1, <1>2 DEF RCompleteRow
<1>4. Evidence \in Results
  BY DEF Results, Outputs
<1>5. Decides(rid[r])
  BY <1>2, <1>3, <1>4, MatchedRunning DEF Decides, Verdict
<1> QED BY <1>2, <1>5

\* A journal row is written by a claim or by a decision, and in no other way.
LEMMA JournalWrites ==
  ASSUME IInv, JInv, [Next]_vars, journal' # journal
  PROVE  \E id \in CallIds : Claims(id) \/ Decides(id)
BY WorkerWrites, ReconWrites DEF Next, vars, storeVars, CancelAgentState, ExpireLease

\* A write decides or creates one row, and leaves the decided ones alone.
LEMMA WriteKeepsDecisions ==
  ASSUME IInv, JInv, NEW id \in CallIds, Claims(id) \/ Decides(id)
  PROVE  /\ journal'[id].status # "absent" /\ journal[id].status \in {"absent", "running"}
         /\ journal'[id].status = "running" => journal'[id].rev = 0
         /\ journal'[id].status \in {"completed", "failed"} => journal'[id].rev # 0
         /\ journal[id].status = "running" => journal'[id].status # "running"
         /\ IF journal'[id].status \in {"completed", "failed"}
            THEN Verdict(journal'[id].status, journal'[id].out, journal'[id].recon)
            ELSE ~journal'[id].recon
         /\ \A d \in CallIds \ {id} : journal'[d] = journal[d]
<1>1. CASE Claims(id)
  <2>1. journal[id] = AbsentRow
    BY <1>1 DEF Claims, JInv, RunningAtZero
  <2>2. /\ journal'[id].status = "running" /\ journal'[id].rev = 0 /\ ~journal'[id].recon
        /\ \A d \in CallIds \ {id} : journal'[d] = journal[d]
    BY <1>1, <2>1 DEF Claims, ClaimRow, AbsentRow, IInv, TypeOK, StoreTypeOK
  <2> QED BY <1>1, <2>2 DEF Claims
<1>2. CASE Decides(id)
  BY <1>2 DEF Decides, CompleteRow, IInv, TypeOK, StoreTypeOK
<1> QED BY <1>1, <1>2

\* A step leaves every decided row with its verdict.
LEMMA NextAnswered == IInv /\ JInv /\ [Next]_vars => Answered'
<1> SUFFICES ASSUME IInv, JInv, [Next]_vars PROVE Answered'
  OBVIOUS
<1>1. CASE journal' = journal
  BY <1>1 DEF JInv, Answered, Verdict
<1>2. CASE journal' # journal
  <2>1. PICK id \in CallIds : Claims(id) \/ Decides(id)
    BY <1>2, JournalWrites
  <2> QED BY <2>1, WriteKeepsDecisions DEF JInv, Answered, Verdict
<1> QED BY <1>1, <1>2

\* A step leaves every running row at revision 0.
LEMMA NextRunningAtZero == IInv /\ JInv /\ [Next]_vars => RunningAtZero'
<1> SUFFICES ASSUME IInv, JInv, [Next]_vars PROVE RunningAtZero'
  OBVIOUS
<1>1. CASE journal' = journal
  BY <1>1 DEF JInv, RunningAtZero
<1>2. CASE journal' # journal
  <2>1. PICK id \in CallIds : Claims(id) \/ Decides(id)
    BY <1>2, JournalWrites
  <2> QED BY <2>1, WriteKeepsDecisions DEF JInv, RunningAtZero
<1> QED BY <1>1, <1>2

\* A step leaves what a reconciliation has read about a row true or outdated.
LEMMA NextRSeesRunning == IInv /\ JInv /\ [Next]_vars => RSeesRunning'
<1> SUFFICES ASSUME IInv, JInv, [Next]_vars PROVE RSeesRunning'
  OBVIOUS
<1>1. CASE UNCHANGED reconVars
  BY <1>1 DEF JInv, RSeesRunning, reconVars
<1>2. ASSUME NEW r \in Reconcilers, ReconStep(r) PROVE RSeesRunning'
  <2>1. rpc \in [Reconcilers -> RPCs] /\ rrow \in [Reconcilers -> Rows]
    BY DEF IInv, TypeOK, ReconTypeOK
  <2>2. CASE RLoadEntry(r)
    <3>1. CASE RLeave(r, "release")
      BY <2>1, <3>1 DEF RLeave, RGoto, JInv, RSeesRunning
    <3>2. ASSUME NEW id \in CallIds, journal[id].recon \/ journal[id].status = "running",
                 rrow' = [rrow EXCEPT ![r] = journal[id]], RGoto(r, "verify")
          PROVE  RSeesRunning'
      BY <2>1, <3>2 DEF RGoto, JInv, RSeesRunning, RunningAtZero
    <3> QED BY <2>2, <3>1, <3>2 DEF RLoadEntry
  <2>3. CASE RVerify(r)
    BY <2>1, <2>3 DEF RVerify, RProceed, RLeave, RGoto, JInv, RSeesRunning
  <2>4. CASE ~RLoadEntry(r) /\ ~RVerify(r)
    BY <1>2, <2>1, <2>4
    DEF ReconStep, RAcquire, RLoadState, RCompleteRow, RProject, RSave, RRelease,
        RProceed, RLeave, RGoto, JInv, RSeesRunning
  <2> QED BY <2>2, <2>3, <2>4
<1> QED BY <1>1, <1>2 DEF Next, vars

\* The journal invariant holds in every reachable state (the rows that
\* claimToolExecution and completeToolExecution write).
THEOREM JournalInvariance == Spec => [](IInv /\ JInv)
<1>1. Init => JInv
  BY DEF Init, StoreInit, ReconInit, JInv, RunningAtZero, RSeesRunning, Answered, AbsentRow
<1>2. IInv /\ JInv /\ [Next]_vars => JInv'
  BY NextRunningAtZero, NextRSeesRunning, NextAnswered DEF JInv
<1> QED BY <1>1, <1>2, InitIInv, NextIInv, PTL DEF Spec

\* The decision about a call is final whoever writes last: a late completion
\* does not undo a reconciliation, nor a reconciliation a completion.
THEOREM DecisionsStable == Spec => JournalDecisionStable
<1>1. IInv /\ JInv /\ [Next]_vars =>
        [\A id \in CallIds :
           /\ journal[id].status \in {"completed", "failed"} => journal'[id] = journal[id]
           /\ journal[id].status # "absent" => journal'[id].status # "absent"]_journal
  <2> SUFFICES ASSUME IInv, JInv, [Next]_vars, journal' # journal,
                      NEW d \in CallIds
               PROVE  /\ journal[d].status \in {"completed", "failed"}
                            => journal'[d] = journal[d]
                      /\ journal[d].status # "absent" => journal'[d].status # "absent"
    OBVIOUS
  <2>1. PICK id \in CallIds : Claims(id) \/ Decides(id)
    BY JournalWrites
  <2> QED BY <2>1, WriteKeepsDecisions
<1> QED BY JournalInvariance, <1>1, PTL DEF Spec, JournalDecisionStable

----------------------------------------------------------------------------
(* Revisions *)

\* Before its claim a checkpoint is the run as it was loaded, or a fresh one.
Unclaimed(w) == \/ pc[w] \in {"claimKey", "claimSync", "claimSave"}
                \/ pc[w] = "acquire" /\ after[w] # "fresh"

\* After it, it is the invocation's own last write, until the next is prepared.
Owns(w) == \/ pc[w] \in {"claimResync", "ready", "assert", "finish"} \cup ModelPCs \cup ToolPCs
           \/ pc[w] = "acquire" /\ after[w] = "fresh"
Writing(w) == pc[w] \in Persisting /\ after[w] # "failure"

\* A run that is stored has a revision, unless its key was claimed.
StoredOK == /\ run.status = "absent" => run = AbsentRun
            /\ run.status # "absent" /\ ~Keyed => run.rev # 0

UnclaimedOK(w) ==
  /\ pc[w] \in {"idle", "claimKey"} => after[w] = "step"
  /\ Unclaimed(w) => /\ ~IsCancelled(st[w]) /\ st[w].rev <= run.rev
                     /\ st[w].rev = run.rev => run \in {st[w], AbsentRun}
                     /\ run.status = "absent" => st[w] = BaseState
                     /\ pc[w] = "claimKey" => Keyed

\* The record with the revision of the invocation's last write is that write.
BasedOK(w) ==
  Owns(w) \/ Writing(w) =>
    /\ run.status # "absent"
    /\ base[w].rev <= run.rev
    /\ base[w].rev = run.rev => base[w] = run
    /\ Owns(w) => st[w] = base[w]
    /\ Writing(w) => st[w].rev = base[w].rev /\ Continues(base[w].turns, st[w].turns)

\* A transcript that ends with a response just received, and one that ends with a
\* call that has its result.
Awaits(r) == r.turns # <<>> /\ LastTurn(r).res = NoResult
HasResult(r) == r.turns # <<>> /\ LastTurn(r).op # Final /\ LastTurn(r).res # NoResult

\* What is about to be written: a response, or a call that was made with its
\* result.
WritingOK(w) ==
  /\ pc[w] = "assert" => after[w] = "finish" \/ (after[w] = "step" /\ Awaits(st[w]))
  /\ pc[w] \in Persisting =>
    /\ st[w].status # "absent" /\ after[w] # "fresh"
    /\ pc[w] = "rebase" => after[w] \in Checkpoints
    /\ after[w] \in {"exhausted", "failure"} => st[w].status = "failed"
    /\ after[w] = "step" => Awaits(st[w])
    /\ after[w] \in {"tools", "recovered"} => HasResult(st[w])

\* An invocation at work over its last write has seen that no cancellation is
\* in it, and writes over one only what keeps it, or ends a run that its caller
\* has stopped after a result.
CancelOK(w) ==
  /\ pc[w] \in {"model", "toolClaim", "toolRun", "toolDone"} /\ base[w].rev = run.rev
       => ~IsCancelled(run)
  /\ pc[w] \in ToolPCs => Awaits(st[w])
  /\ pc[w] = "finish" /\ base[w].rev = run.rev /\ IsCancelled(run) => HasResult(st[w])
  /\ Writing(w) /\ base[w].rev = run.rev /\ IsCancelled(run)
       => \/ st[w].status \in {run.status, "failed"}
          \/ st[w].status = "completed" /\ st[w].turns = run.turns /\ HasResult(st[w])

WorkerRev(w) == UnclaimedOK(w) /\ BasedOK(w) /\ WritingOK(w) /\ CancelOK(w)

\* A reconciler has loaded a run that was stored and not cancelled.
ReconRev(r) ==
  /\ rpc[r] \in {"state", "entry", "verify", "journal", "project", "save"}
       => run.status # "absent"
  /\ rpc[r] \in {"entry", "verify", "journal", "project", "save"} =>
       /\ rst[r].rev <= run.rev
       /\ rst[r].rev = run.rev => ~IsCancelled(run) /\ Continues(run.turns, rst[r].turns)
  /\ rpc[r] = "save" => rst[r].status = "queued"

RevInv == /\ StoredOK
          /\ \A w \in Workers : WorkerRev(w)
          /\ \A r \in Reconcilers : ReconRev(r)

\* The ways the run may change: not at all, by a write that advances the
\* revision, continues the transcript and keeps a cancellation or ends a run its
\* caller has stopped, by the claim of its key.
Advances ==
  /\ run'.rev = run.rev + 1
  /\ run'.status # "absent"
  /\ run'.status # "failed" => Continues(run.turns, run'.turns)
  /\ IsCancelled(run) => IsCancelled(run') \/ run'.status = "failed" \/ StoppedByCaller
  /\ run.status = "cancelled" => run'.status # "cancel_requested"
RunStep == \/ run' = run
           \/ Advances
           \/ Keyed /\ run.status = "absent" /\ run' = BaseState

----------------------------------------------------------------------------
(* Lemmas on Continues *)

\* A transcript continues itself.
LEMMA ContinuesItself == ASSUME NEW t \in Seq(Turns) PROVE Continues(t, t)
BY DEF Continues

\* A response added at the end continues a transcript.
LEMMA ContinuesAppend ==
  ASSUME NEW t \in Seq(Turns), NEW turn \in Turns PROVE Continues(t, Append(t, turn))
BY DEF Continues

\* A result continues a transcript that ends with a call without one.
LEMMA ContinuesResult ==
  ASSUME NEW t \in Seq(Turns), NEW res, t # <<>>, t[Len(t)].res = NoResult
  PROVE  Continues(t, [t EXCEPT ![Len(t)].res = res])
<1>1. Len(t) \in 1..Len(t) /\ DOMAIN t = 1..Len(t)
  OBVIOUS
<1> DEFINE u == [t EXCEPT ![Len(t)].res = res]
<1>2. Len(u) = Len(t) /\ \A i \in 1..Len(t) : i # Len(t) => u[i] = t[i]
  OBVIOUS
<1>3. u[Len(t)] = [t[Len(t)] EXCEPT !.res = res]
  BY <1>1
<1>4. t[Len(t)] \in Turns
  BY <1>1
<1>5. u[Len(t)].pid = t[Len(t)].pid /\ u[Len(t)].op = t[Len(t)].op
  BY <1>3, <1>4 DEF Turns, FinalTurn
<1> HIDE DEF u
<1> QED BY <1>1, <1>2, <1>5 DEF Continues

\* What continues a continuation continues the transcript.
LEMMA ContinuesThrough ==
  ASSUME NEW t \in Seq(Turns), NEW u \in Seq(Turns), NEW v \in Seq(Turns),
         Continues(t, u), Continues(u, v)
  PROVE  Continues(t, v)
<1>1. Len(t) \in Nat /\ Len(u) \in Nat /\ Len(v) \in Nat
  OBVIOUS
<1>2. Len(t) <= Len(u) /\ Len(u) <= Len(v)
  BY DEF Continues
<1>3. ASSUME NEW i \in DOMAIN t
      PROVE  /\ v[i].pid = t[i].pid /\ v[i].op = t[i].op
             /\ v[i].res = t[i].res \/ t[i].res = NoResult \/ v[i].res = Evidence
  <2>1. i \in DOMAIN u
    BY <1>1, <1>2
  <2>2. /\ u[i].pid = t[i].pid /\ u[i].op = t[i].op
        /\ u[i].res = t[i].res \/ t[i].res = NoResult \/ u[i].res = Evidence
    BY DEF Continues
  <2>3. /\ v[i].pid = u[i].pid /\ v[i].op = u[i].op
        /\ v[i].res = u[i].res \/ u[i].res = NoResult \/ v[i].res = Evidence
    BY <2>1 DEF Continues
  <2>4. Evidence # NoResult
    BY DEF Evidence, NoResult
  <2> QED BY <2>2, <2>3, <2>4
<1> QED BY <1>1, <1>2, <1>3 DEF Continues

\* Evidence continues a transcript.
LEMMA ContinuesEvidence ==
  ASSUME NEW t \in Transcripts, NEW pid \in ProviderIds
  PROVE  Continues(t, WithEvidence(t, pid))
<1> USE DEF Transcripts
<1> DEFINE u == WithEvidence(t, pid)
<1>1. u = [i \in 1..Len(t) |-> IF t[i].pid = pid /\ t[i].res # NoResult
                               THEN [t[i] EXCEPT !.res = Evidence] ELSE t[i]]
  BY DEF WithEvidence
<1>2. Len(u) = Len(t)
  BY WithEvidenceType
<1>3. ASSUME NEW i \in 1..Len(t)
      PROVE  u[i].pid = t[i].pid /\ u[i].op = t[i].op /\ (u[i].res = t[i].res \/ u[i].res = Evidence)
  <2>1. t[i] \in Turns
    OBVIOUS
  <2>2. u[i] = t[i] \/ u[i] = [t[i] EXCEPT !.res = Evidence]
    BY <1>1
  <2> QED BY <2>1, <2>2 DEF Turns, FinalTurn
<1>4. DOMAIN t = 1..Len(t) /\ Len(t) <= Len(t)
  OBVIOUS
<1>5. Continues(t, u)
  <2> HIDE DEF u
  <2> QED BY <1>2, <1>3, <1>4 DEF Continues
<1> QED BY <1>5

----------------------------------------------------------------------------
(* Frames *)

\* Only invocation w moves.
Alone(w) == \A v \in Workers \ {w} : /\ pc'[v] = pc[v] /\ after'[v] = after[v]
                                     /\ st'[v] = st[v] /\ base'[v] = base[v]

\* It keeps what it knows.
Keeps(w) == after'[w] = after[w] /\ st'[w] = st[w] /\ base'[w] = base[w]

\* Leaving forgets what one invocation knows.
LEMMA Leaving ==
  ASSUME TypeOK, NEW w \in Workers, NEW there, Leave(w, there)
  PROVE  Alone(w) /\ pc'[w] = there /\ after'[w] = "step"
BY DEF Leave, Goto, Set, Purpose, Alone, TypeOK, WorkerTypeOK

\* Going on keeps it.
LEMMA Proceeding ==
  ASSUME TypeOK, NEW w \in Workers, NEW there, Proceed(w, there)
  PROVE  Alone(w) /\ pc'[w] = there /\ Keeps(w)
BY DEF Proceed, Goto, Alone, Keeps, TypeOK, WorkerTypeOK

\* Going on with another checkpoint replaces it.
LEMMA Setting ==
  ASSUME TypeOK, NEW w \in Workers, NEW there, NEW r, Goto(w, there), Set(w, r),
         UNCHANGED base, UNCHANGED after
  PROVE  /\ Alone(w) /\ pc'[w] = there /\ after'[w] = after[w]
         /\ st'[w] = r /\ base'[w] = base[w]
BY DEF Goto, Set, Alone, TypeOK, WorkerTypeOK

\* Preparing a write gives it its purpose.
LEMMA Preparing ==
  ASSUME TypeOK, NEW w \in Workers, NEW there, NEW r, NEW a,
         Goto(w, there), Set(w, r), Purpose(w, a), UNCHANGED base
  PROVE  /\ Alone(w) /\ pc'[w] = there /\ after'[w] = a
         /\ st'[w] = r /\ base'[w] = base[w]
BY DEF Goto, Set, Purpose, Alone, TypeOK, WorkerTypeOK

\* A write that took place is the new baseline.
LEMMA Confirming ==
  ASSUME TypeOK, NEW w \in Workers, NEW there, NEW r, NEW b, Goto(w, there), Set(w, r),
         base' = [base EXCEPT ![w] = b], UNCHANGED after
  PROVE  /\ Alone(w) /\ pc'[w] = there /\ after'[w] = after[w]
         /\ st'[w] = r /\ base'[w] = b
BY DEF Goto, Set, Alone, TypeOK, WorkerTypeOK

\* Checkpoints with the same transcript end alike.
LEMMA SameTurns ==
  ASSUME NEW w \in Workers, st'[w].turns = st[w].turns
  PROVE  Awaits(st[w])' = Awaits(st[w]) /\ HasResult(st[w])' = HasResult(st[w])
BY DEF Awaits, HasResult, LastTurn

\* Where nothing is relied on.
Gone == {"done", "threw", "release", "failSync", "failLoad"}

\* An invocation that is over has nothing to show.
LEMMA GoneRev == ASSUME NEW w \in Workers, pc'[w] \in Gone PROVE WorkerRev(w)'
BY DEF Gone, WorkerRev, UnclaimedOK, BasedOK, WritingOK, CancelOK, Unclaimed, Owns, Writing,
       Persisting, ModelPCs, ToolPCs

\* What a step of an invocation has to show.
Fine(w) == Alone(w) /\ RunStep /\ WorkerRev(w)'

\* Leaving it for good.
LEMMA LeavingFine ==
  ASSUME TypeOK, NEW w \in Workers, NEW there \in Gone, Leave(w, there), UNCHANGED run
  PROVE  Fine(w)
BY Leaving, GoneRev DEF Fine, RunStep

\* Turning to the failure, or to the release.
LEMMA GoneFine ==
  ASSUME TypeOK, NEW w \in Workers, NEW there \in Gone, Proceed(w, there), UNCHANGED run
  PROVE  Fine(w)
BY Proceeding, GoneRev DEF Fine, RunStep

----------------------------------------------------------------------------
(* Claims *)

\* The claim of a run that is driven on begins with the run as it is.
LEMMA TakeLoadedFine ==
  ASSUME IInv, NEW w \in Workers, TakeLoaded(w), UNCHANGED run, after[w] = "step",
         run.status # "absent"
  PROVE  Fine(w)
<1> USE DEF IInv
<1>1. CASE Resumes(run)
  <2>1. Set(w, run) /\ Goto(w, "acquire") /\ UNCHANGED <<after, base>>
    BY <1>1 DEF TakeLoaded
  <2>2. Alone(w) /\ pc'[w] = "acquire" /\ after'[w] = "step" /\ st'[w] = run
    BY <2>1, Setting
  <2>3. run.rev \in Nat /\ ~IsCancelled(run)
    BY <1>1, StoredTypes, RunFields DEF Resumes
  <2>4. WorkerRev(w)'
    BY <2>2, <2>3
    DEF WorkerRev, UnclaimedOK, BasedOK, WritingOK, CancelOK, Unclaimed, Owns, Writing,
        Persisting, ModelPCs, ToolPCs, IsCancelled
  <2> QED BY <2>2, <2>4 DEF Fine, RunStep
<1>2. CASE ~Resumes(run)
  BY <1>2, LeavingFine DEF TakeLoaded, Gone
<1> QED BY <1>1, <1>2

\* Resolving the run.
LEMMA ResolveRev ==
  ASSUME IInv, RevInv, NEW w \in Workers,
         ResolveLoaded(w) \/ ResolveFresh(w) \/ ClaimIdempotencyKey(w)
  PROVE  Fine(w)
<1> USE DEF IInv
<1>1. WorkerRev(w) /\ StoredOK
  BY DEF RevInv
<1>2. CASE ResolveLoaded(w)
  BY <1>1, <1>2, TakeLoadedFine DEF ResolveLoaded, WorkerRev, UnclaimedOK, storeVars
<1>3. CASE ResolveFresh(w)
  <2>1. after[w] = "step" /\ run = AbsentRun /\ run' = run
    BY <1>1, <1>3 DEF ResolveFresh, WorkerRev, UnclaimedOK, StoredOK, storeVars
  <2>2. /\ Alone(w) /\ st'[w] = BaseState
        /\ \/ Keyed /\ pc'[w] = "claimKey" /\ after'[w] = "step"
           \/ ~Keyed /\ pc'[w] = "claimSync" /\ after'[w] = "fresh"
    BY <1>3, <2>1, Setting, Preparing DEF ResolveFresh
  <2>3. BaseState.rev = 0 /\ run.rev = 0 /\ ~IsCancelled(BaseState)
    BY <2>1 DEF BaseState, AbsentRun, IsCancelled
  <2> HIDE DEF IInv
  <2>4. WorkerRev(w)'
    BY <2>1, <2>2, <2>3
    DEF WorkerRev, UnclaimedOK, BasedOK, WritingOK, CancelOK, Unclaimed, Owns, Writing,
        Persisting, ModelPCs, ToolPCs, IsCancelled
  <2> QED BY <2>1, <2>2, <2>4 DEF Fine, RunStep
<1>4. CASE ClaimIdempotencyKey(w)
  <2>1. pc[w] = "claimKey" /\ after[w] = "step" /\ Keyed
    BY <1>1, <1>4 DEF ClaimIdempotencyKey, WorkerRev, UnclaimedOK, Unclaimed
  <2>2. CASE run.status = "absent"
    <3>1. run' = st[w] /\ st[w] = BaseState
      BY <1>1, <1>4, <2>1, <2>2 DEF ClaimIdempotencyKey, WorkerRev, UnclaimedOK, Unclaimed
    <3>2. Alone(w) /\ pc'[w] = "acquire" /\ Keeps(w)
      BY <1>4, <2>2, Proceeding DEF ClaimIdempotencyKey
    <3>3. BaseState.rev = 0 /\ ~IsCancelled(BaseState) /\ BaseState.status # "absent"
      BY DEF BaseState, AbsentRun, IsCancelled
    <3> HIDE DEF IInv
    <3>4. WorkerRev(w)'
      BY <2>1, <3>1, <3>2, <3>3
      DEF WorkerRev, UnclaimedOK, BasedOK, WritingOK, CancelOK, Unclaimed, Owns, Writing,
          Persisting, ModelPCs, ToolPCs, IsCancelled, Keeps
    <3> QED BY <2>1, <2>2, <3>1, <3>2, <3>4 DEF Fine, RunStep
  <2>3. CASE run.status # "absent"
    BY <1>4, <2>1, <2>3, TakeLoadedFine DEF ClaimIdempotencyKey
  <2> QED BY <2>2, <2>3
<1> QED BY <1>2, <1>3, <1>4

\* Asking for the lease.
LEMMA AcquireRev ==
  ASSUME IInv, RevInv, NEW w \in Workers, AcquireExecutionLease(w)
  PROVE  Fine(w)
<1> USE DEF IInv
<1>1. WorkerRev(w) /\ pc[w] = "acquire" /\ run' = run
  BY DEF RevInv, AcquireExecutionLease
<1>2. CASE LeaseAvailable(w)
  <2>1. /\ Alone(w) /\ after'[w] = "step" /\ st'[w] = st[w] /\ base'[w] = base[w]
        /\ pc'[w] = IF after[w] = "fresh" THEN "ready" ELSE "claimSync"
    BY <1>2 DEF AcquireExecutionLease, Goto, Purpose, Alone, TypeOK, WorkerTypeOK
  <2> HIDE DEF IInv
  <2>2. WorkerRev(w)'
    BY <1>1, <2>1
    DEF WorkerRev, UnclaimedOK, BasedOK, WritingOK, CancelOK, Unclaimed, Owns, Writing,
        Persisting, ModelPCs, ToolPCs, IsCancelled
  <2> QED BY <1>1, <2>1, <2>2 DEF Fine, RunStep
<1>3. CASE ~LeaseAvailable(w)
  BY <1>1, <1>3, LeavingFine DEF AcquireExecutionLease, Gone
<1> QED BY <1>2, <1>3

----------------------------------------------------------------------------
(* Fields of a checkpoint *)

\* Another status leaves the other fields alone.
LEMMA StatusFields ==
  ASSUME NEW r \in Runs, NEW s
  PROVE  LET q == [r EXCEPT !.status = s]
         IN /\ q.rev = r.rev /\ q.turns = r.turns /\ q.status = s
            /\ q.needs = r.needs /\ q.recon = r.recon
BY DEF Runs

\* A refresh changes the outcome of a checkpoint only.
LEMMA RefreshedFields ==
  ASSUME NEW r \in Runs
  PROVE  /\ Refreshed(r).rev = r.rev /\ Refreshed(r).turns = r.turns
         /\ Refreshed(r).status = r.status /\ Refreshed(r).recon = r.recon
BY DEF Runs, Refreshed

\* A save changes the revision of a checkpoint only.
LEMMA SavedFields ==
  ASSUME NEW r \in Runs, SaveRun(r)
  PROVE  /\ run'.rev = r.rev + 1 /\ run'.turns = r.turns /\ run'.status = r.status
         /\ run'.needs = r.needs /\ run'.recon = r.recon
BY DEF Runs, SaveRun

\* The empty transcript is continued by every other.
LEMMA ContinuesEmpty == ASSUME NEW t \in Seq(Turns) PROVE Continues(<<>>, t)
BY DEF Continues

\* Leaving a claim.
LEMMA LeavingClaim ==
  ASSUME TypeOK, NEW w \in Workers, LeaveClaim(w), UNCHANGED run
  PROVE  Fine(w)
BY LeavingFine DEF LeaveClaim, Gone

\* The three steps of a claim.
LEMMA ClaimRev ==
  ASSUME IInv, RevInv, NEW w \in Workers, ClaimSync(w) \/ ClaimSave(w) \/ ClaimResync(w)
  PROVE  Fine(w)
<1>1. WorkerRev(w) /\ StoredOK /\ TypeOK
  BY DEF RevInv, IInv
<1>2. CASE ClaimSync(w)
  <2>1. CASE IsCancelled(run)
    BY <1>1, <1>2, <2>1, LeavingClaim DEF ClaimSync, storeVars
  <2>2. CASE ~IsCancelled(run)
    <3>1. Alone(w) /\ pc[w] = "claimSync" /\ pc'[w] = "claimSave" /\ Keeps(w) /\ run' = run
      BY <1>1, <1>2, <2>2, Proceeding DEF ClaimSync, storeVars
    <3>2. WorkerRev(w)'
      BY <1>1, <3>1
      DEF WorkerRev, UnclaimedOK, BasedOK, WritingOK, CancelOK, Unclaimed, Owns, Writing,
          Persisting, ModelPCs, ToolPCs, IsCancelled, Keeps
    <3> QED BY <3>1, <3>2 DEF Fine, RunStep
  <2> QED BY <2>1, <2>2
<1>3. CASE ClaimSave(w)
  <2> DEFINE r == [st[w] EXCEPT !.status = "running"]
  <2>1. r \in Runs
    BY <1>1, StatusType, StoredTypes DEF Statuses
  <2>2. /\ r.rev = st[w].rev /\ r.turns = st[w].turns /\ r.status = "running"
    BY <1>1, StatusFields, StoredTypes
  <2>3. CASE RevisionMatches(r)
    <3>1. /\ pc[w] = "claimSave" /\ SaveRun(r) /\ Goto(w, "claimResync") /\ Set(w, run')
          /\ base' = [base EXCEPT ![w] = run'] /\ UNCHANGED after
      BY <1>3, <2>3 DEF ClaimSave
    <3> HIDE DEF r
    <3>2. /\ Alone(w) /\ pc'[w] = "claimResync"
          /\ st'[w] = run' /\ base'[w] = run'
      BY <1>1, <3>1, Confirming
    <3>3. run'.rev = run.rev + 1 /\ run'.turns = st[w].turns /\ run'.status = "running"
      BY <2>1, <2>2, <2>3, <3>1, SavedFields DEF RevisionMatches
    <3>4. run \in {st[w], AbsentRun} /\ ~IsCancelled(st[w])
      BY <1>1, <2>2, <2>3, <3>1 DEF RevisionMatches, WorkerRev, UnclaimedOK, Unclaimed
    <3>5. Continues(run.turns, run'.turns) /\ ~IsCancelled(run)
      <4>1. st[w].turns \in Seq(Turns)
        BY <1>1, StoredTypes, RunFields
      <4>2. Continues(run.turns, st[w].turns)
        BY <3>4, <4>1, ContinuesItself, ContinuesEmpty DEF AbsentRun
      <4> QED BY <3>3, <3>4, <4>2 DEF AbsentRun, IsCancelled
    <3>6. Advances
      BY <3>3, <3>5 DEF Advances, IsCancelled
    <3>7. run.rev \in Nat /\ run'.rev \in Nat
      BY <1>1, <3>3, StoredTypes, RunFields
    <3>8. WorkerRev(w)'
      BY <3>2, <3>3, <3>7
      DEF WorkerRev, UnclaimedOK, BasedOK, WritingOK, CancelOK, Unclaimed, Owns, Writing,
          Persisting, ModelPCs, ToolPCs
    <3> QED BY <3>2, <3>6, <3>8 DEF Fine, RunStep
  <2>4. CASE ~RevisionMatches(r)
    BY <1>1, <1>3, <2>4, LeavingClaim DEF ClaimSave
  <2> QED BY <2>3, <2>4
<1>4. CASE ClaimResync(w)
  <2>1. CASE IsCancelled(run)
    BY <1>1, <1>4, <2>1, LeavingClaim DEF ClaimResync, storeVars
  <2>2. CASE ~IsCancelled(run)
    <3>1. /\ Alone(w) /\ pc[w] = "claimResync" /\ Keeps(w) /\ run' = run
          /\ pc'[w] = IF after[w] = "fresh" THEN "acquire" ELSE "ready"
      BY <1>1, <1>4, <2>2, Proceeding DEF ClaimResync, storeVars
    <3>2. WorkerRev(w)'
      BY <1>1, <3>1
      DEF WorkerRev, UnclaimedOK, BasedOK, WritingOK, CancelOK, Unclaimed, Owns, Writing,
          Persisting, ModelPCs, ToolPCs, Keeps
    <3> QED BY <3>1, <3>2 DEF Fine, RunStep
  <2> QED BY <2>1, <2>2
<1> QED BY <1>2, <1>3, <1>4

----------------------------------------------------------------------------
(* The step loop *)

\* Entering the step loop.
LEMMA ReadyRev == ASSUME IInv, RevInv, NEW w \in Workers, Ready(w) PROVE Fine(w)
<1>1. WorkerRev(w) /\ TypeOK /\ pc[w] = "ready" /\ run' = run
  BY DEF RevInv, IInv, Ready, storeVars
<1>2. CASE Exhausted(st[w])
  <2> DEFINE r == [st[w] EXCEPT !.status = "failed"]
  <2>1. r.rev = st[w].rev /\ r.turns = st[w].turns /\ r.status = "failed"
    BY <1>1, StatusFields, StoredTypes
  <2>2. Goto(w, "refresh") /\ Set(w, r) /\ Purpose(w, "exhausted") /\ UNCHANGED base
    BY <1>2 DEF Ready
  <2> HIDE DEF r
  <2>3. /\ Alone(w) /\ pc'[w] = "refresh" /\ after'[w] = "exhausted"
        /\ st'[w] = r /\ base'[w] = base[w]
    BY <1>1, <2>2, Preparing
  <2>4. Continues(st[w].turns, r.turns)
    BY <1>1, <2>1, ContinuesItself, StoredTypes, RunFields
  <2>5. WorkerRev(w)'
    BY <1>1, <2>1, <2>3, <2>4
    DEF WorkerRev, UnclaimedOK, BasedOK, WritingOK, CancelOK, Unclaimed, Owns, Writing,
        Persisting, ModelPCs, ToolPCs
  <2> QED BY <1>1, <2>3, <2>5 DEF Fine, RunStep
<1>3. CASE ~Exhausted(st[w])
  <2>1. /\ Alone(w) /\ st'[w] = st[w] /\ base'[w] = base[w]
        /\ \/ Unresolved(st[w]) /\ pc'[w] = "toolCheck"
           \/ pc'[w] = "modelCheck"
    BY <1>1, <1>3, Proceeding DEF Ready, Keeps, Goto, Purpose, Alone, TypeOK, WorkerTypeOK
  <2>2. Unresolved(st[w]) => Awaits(st[w])
    <3>1. st[w].turns \in Seq(Turns)
      BY <1>1, StoredTypes, RunFields
    <3> QED BY <3>1 DEF Unresolved, EndsWithCall, Awaits, LastTurn
  <2>3. WorkerRev(w)'
    BY <1>1, <2>1, <2>2, SameTurns
    DEF WorkerRev, UnclaimedOK, BasedOK, WritingOK, CancelOK, Unclaimed, Owns, Writing,
        Persisting, ModelPCs, ToolPCs
  <2> QED BY <1>1, <2>1, <2>3 DEF Fine, RunStep
<1> QED BY <1>2, <1>3

\* The hooks before a model and a tool call.
LEMMA HookRev ==
  ASSUME IInv, RevInv, NEW w \in Workers, BeforeModelStep(w) \/ BeforeToolExecution(w)
  PROVE  Fine(w)
<1>1. WorkerRev(w) /\ TypeOK /\ run' = run
  BY DEF RevInv, IInv, BeforeModelStep, BeforeToolExecution, storeVars
<1>2. CASE IsCancelled(run)
  BY <1>1, <1>2, LeavingFine DEF BeforeModelStep, BeforeToolExecution, Gone
<1>3. CASE ~IsCancelled(run)
  <2>1. /\ Alone(w) /\ Keeps(w)
        /\ \/ pc[w] = "modelCheck" /\ pc'[w] = "model"
           \/ pc[w] = "toolCheck" /\ pc'[w] = "toolClaim"
    BY <1>1, <1>3, Proceeding DEF BeforeModelStep, BeforeToolExecution
  <2>2. Awaits(st[w])' = Awaits(st[w])
    BY <2>1, SameTurns DEF Keeps
  <2>3. WorkerRev(w)'
    BY <1>1, <1>3, <2>1, <2>2
    DEF WorkerRev, UnclaimedOK, BasedOK, WritingOK, CancelOK, Unclaimed, Owns, Writing,
        Persisting, ModelPCs, ToolPCs, Keeps, IsCancelled
  <2> QED BY <1>1, <2>1, <2>3 DEF Fine, RunStep
<1> QED BY <1>2, <1>3

\* What an invocation with a write of its own prepares, is based on that write.
LEMMA PreparedRev ==
  ASSUME TypeOK, NEW w \in Workers, WorkerRev(w), Owns(w), Alone(w), run' = run,
         pc'[w] = "refresh", base'[w] = base[w], after'[w] \in Checkpoints,
         st'[w].rev = st[w].rev, Continues(st[w].turns, st'[w].turns),
         st'[w].status # "absent",
         after'[w] = "step" => Awaits(st'[w]),
         after'[w] \in {"tools", "recovered"} => HasResult(st'[w]),
         base[w].rev = run.rev /\ IsCancelled(run)
           => \/ st'[w].status = "failed"
              \/ /\ st'[w].status = "completed" /\ st'[w].turns = st[w].turns
                 /\ HasResult(st'[w])
  PROVE  Fine(w)
<1>1. Awaits(st[w])' = Awaits(st'[w]) /\ HasResult(st[w])' = HasResult(st'[w])
  BY DEF Awaits, HasResult, LastTurn
<1>2. WorkerRev(w)'
  BY <1>1
  DEF WorkerRev, UnclaimedOK, BasedOK, WritingOK, CancelOK, Unclaimed, Owns, Writing,
      Persisting, ModelPCs, ToolPCs, Checkpoints, IsCancelled
<1> QED BY <1>2 DEF Fine, RunStep

\* The step of the model.
LEMMA ModelRev == ASSUME IInv, RevInv, NEW w \in Workers, ModelStep(w) PROVE Fine(w)
<1>1. WorkerRev(w) /\ TypeOK /\ pc[w] = "model" /\ run' = run
  BY DEF RevInv, IInv, ModelStep, storeVars
<1> DEFINE r(turn) == [st[w] EXCEPT !.turns = Append(@, turn),
                                    !.status = IF turn = FinalTurn THEN "completed"
                                               ELSE "running"]
<1>2. PICK turn \in NewTurns : Set(w, r(turn))
  BY DEF ModelStep, NewTurns
<1>3. st[w] \in Runs /\ st[w].turns \in Seq(Turns)
  BY <1>1, StoredTypes, RunFields
<1>4. /\ r(turn).rev = st[w].rev /\ r(turn).turns = Append(st[w].turns, turn)
      /\ r(turn).status \in {"completed", "running"}
  BY <1>3 DEF Runs
<1>5. turn \in Turns /\ turn.res = NoResult
  BY DEF NewTurns, Turns, FinalTurn, Results
<1>6. Continues(st[w].turns, r(turn).turns)
  BY <1>3, <1>4, <1>5, ContinuesAppend
<1>7. Goto(w, "refresh") /\ Set(w, r(turn)) /\ Purpose(w, "step") /\ UNCHANGED base
  BY <1>2 DEF ModelStep
<1> HIDE DEF r
<1>8. /\ Alone(w) /\ pc'[w] = "refresh" /\ after'[w] = "step"
      /\ st'[w] = r(turn) /\ base'[w] = base[w]
  BY <1>1, <1>7, Preparing
<1>9. Owns(w) /\ ~(base[w].rev = run.rev /\ IsCancelled(run))
  BY <1>1 DEF Owns, ModelPCs, WorkerRev, CancelOK
<1>10. Awaits(r(turn))
  <2>1. /\ Append(st[w].turns, turn) # <<>>
        /\ Append(st[w].turns, turn)[Len(Append(st[w].turns, turn))] = turn
    BY <1>3, <1>5
  <2> QED BY <1>4, <1>5, <2>1 DEF Awaits, LastTurn
<1> QED BY <1>1, <1>4, <1>6, <1>8, <1>9, <1>10, PreparedRev DEF Checkpoints

----------------------------------------------------------------------------
(* The tool and its journal *)

\* What the journal answers is a result.
LEMMA JournalAnswers ==
  ASSUME IInv, JInv, NEW id \in CallIds PROVE JournalResult(id) # NoResult
<1>1. ErrorResult # NoResult /\ Evidence # NoResult
  BY DEF ErrorResult, NoResult, Evidence
<1>2. CASE journal[id].status = "completed"
  <2>1. journal[id].out \in Workers \/ journal[id].out = Evidence
    BY <1>2 DEF JInv, Answered, Verdict
  <2> QED BY <1>1, <1>2, <2>1, OutputAssumption DEF JournalResult
<1>3. CASE journal[id].status # "completed"
  BY <1>1, <1>3 DEF JournalResult
<1> QED BY <1>2, <1>3

\* What is recorded for a call is a result.
LEMMA RecordedResult ==
  ASSUME IInv, JInv, NEW w \in Workers,
         ClaimToolExecution(w) \/ ClaimFails(w) \/ CompleteToolExecution(w)
  PROVE  \/ \E res \in Results \ {NoResult} : RecordResult(w, res)
         \/ ClaimToolExecution(w) /\ Proceed(w, "toolRun")
<1>1. {ErrorResult, Evidence, ClaimError, w} \subseteq Results \ {NoResult}
  BY OutputAssumption DEF Results, Outputs, ErrorResult, NoResult, Evidence, ClaimError
<1>2. CASE ClaimToolExecution(w)
  <2>1. JournalResult(LastCall(st[w])) \in Results \ {NoResult}
    BY <1>2, CallType, JournalAnswers, JournalResultType DEF ClaimToolExecution, ToolPCs, IInv
  <2> QED BY <1>1, <1>2, <2>1 DEF ClaimToolExecution
<1>3. CASE ClaimFails(w)
  BY <1>1, <1>3 DEF ClaimFails
<1>4. CASE CompleteToolExecution(w)
  BY <1>1, <1>4 DEF CompleteToolExecution
<1> QED BY <1>2, <1>3, <1>4

\* The checkpoint of a call that has got its result.
LEMMA Recorded ==
  ASSUME TypeOK, NEW w \in Workers, NEW res \in Results, EndsWithCall(st[w]),
         RecordResult(w, res)
  PROVE  LET t == st[w].turns
             u == [t EXCEPT ![Len(t)].res = res]
         IN /\ t \in Seq(Turns) /\ t # <<>> /\ Len(t) \in 1..Len(t) /\ t[Len(t)] \in Turns
            /\ Alone(w) /\ pc'[w] = "refresh" /\ base'[w] = base[w]
            /\ after'[w] = IF after[w] = "recovered" THEN "recovered" ELSE "tools"
            /\ st'[w].turns = u /\ st'[w].rev = st[w].rev /\ st'[w].status = "running"
            /\ Len(u) = Len(t) /\ u[Len(t)] = [t[Len(t)] EXCEPT !.res = res]
            /\ u[Len(t)].op = t[Len(t)].op /\ u[Len(t)].pid = t[Len(t)].pid
            /\ u[Len(t)].res = res
            /\ \A i \in 1..Len(t) : i # Len(t) => u[i] = t[i]
<1> DEFINE t == st[w].turns
           n == Len(t)
           u == [t EXCEPT ![n].res = res]
           r == [st[w] EXCEPT !.turns[n].res = res, !.status = "running"]
           a == IF after[w] = "recovered" THEN "recovered" ELSE "tools"
<1>1. st[w] \in Runs /\ t \in Seq(Turns)
  BY StoredTypes, RunFields
<1>2. t # <<>> /\ n \in 1..n /\ t[n] \in Turns
  BY <1>1, LastTurnType DEF EndsWithCall, LastTurn
<1>3. r.rev = st[w].rev /\ r.turns = u /\ r.status = "running"
  BY <1>1 DEF Runs
<1>4. /\ Len(u) = n /\ u[n] = [t[n] EXCEPT !.res = res]
      /\ \A i \in 1..n : i # n => u[i] = t[i]
  BY <1>1, <1>2
<1>5. u[n].op = t[n].op /\ u[n].pid = t[n].pid /\ u[n].res = res
  BY <1>2, <1>4 DEF Turns, FinalTurn
<1>6. Goto(w, "refresh") /\ Set(w, r) /\ Purpose(w, a) /\ UNCHANGED base
  BY DEF RecordResult
<1> HIDE DEF r, a
<1>7. /\ Alone(w) /\ pc'[w] = "refresh" /\ after'[w] = a
      /\ st'[w] = r /\ base'[w] = base[w]
  BY <1>6, Preparing
<1> QED BY <1>1, <1>2, <1>3, <1>4, <1>5, <1>7 DEF a

\* The result of a call.
LEMMA RecordRev ==
  ASSUME IInv, NEW w \in Workers, NEW res \in Results \ {NoResult}, WorkerRev(w),
         pc[w] \in ToolPCs, RecordResult(w, res), run' = run,
         base[w].rev = run.rev => ~IsCancelled(run)
  PROVE  Fine(w)
<1> DEFINE t == st[w].turns
           n == Len(t)
           u == [t EXCEPT ![n].res = res]
<1>1. TypeOK /\ EndsWithCall(st[w]) /\ t[n].res = NoResult
  BY CallType DEF IInv, WorkerRev, CancelOK, Awaits, LastTurn
<1>2. /\ t \in Seq(Turns) /\ t # <<>> /\ Len(u) = n /\ Alone(w)
      /\ pc'[w] = "refresh" /\ base'[w] = base[w] /\ after'[w] \in {"tools", "recovered"}
      /\ st'[w].turns = u /\ st'[w].rev = st[w].rev /\ st'[w].status = "running"
      /\ u[n].op = t[n].op /\ u[n].res = res
  BY <1>1, Recorded
<1>3. Continues(t, u)
  <2>1. ASSUME NEW q \in Seq(Turns), q # <<>>, q[Len(q)].res = NoResult
        PROVE  Continues(q, [q EXCEPT ![Len(q)].res = res])
    BY <2>1, ContinuesResult
  <2> QED BY <1>1, <1>2, <2>1
<1>4. HasResult(st'[w])
  <2>1. u # <<>>
    BY <1>2
  <2>2. t[n].op # Final
    BY <1>1 DEF EndsWithCall, LastTurn
  <2> HIDE DEF u, t, n
  <2>3. LastTurn(st'[w]) = u[n]
    BY <1>2 DEF LastTurn
  <2> QED BY <1>2, <2>1, <2>2, <2>3 DEF HasResult
<1>5. Owns(w) /\ Checkpoints = {"step", "tools", "recovered", "finish"}
  BY DEF Owns, ToolPCs, Checkpoints
<1> HIDE DEF u
<1> QED BY <1>1, <1>2, <1>3, <1>4, <1>5, PreparedRev

\* Claiming the row of a call, or taking what is known of it.
LEMMA ClaimToolRev ==
  ASSUME IInv, JInv, RevInv, NEW w \in Workers, ClaimToolExecution(w) \/ ClaimFails(w)
  PROVE  Fine(w)
<1>1. /\ WorkerRev(w) /\ TypeOK /\ pc[w] = "toolClaim" /\ run' = run
      /\ base[w].rev = run.rev => ~IsCancelled(run)
  BY DEF RevInv, IInv, ClaimToolExecution, ClaimFails, WorkerRev, CancelOK, storeVars
<1>2. CASE Proceed(w, "toolRun")
  <2>1. Alone(w) /\ pc'[w] = "toolRun" /\ Keeps(w)
    BY <1>1, <1>2, Proceeding
  <2>2. Awaits(st[w])' = Awaits(st[w])
    BY <2>1, SameTurns DEF Keeps
  <2>3. WorkerRev(w)'
    BY <1>1, <2>1, <2>2
    DEF WorkerRev, UnclaimedOK, BasedOK, WritingOK, CancelOK, Unclaimed, Owns, Writing,
        Persisting, ModelPCs, ToolPCs, Keeps, IsCancelled
  <2> QED BY <1>1, <2>1, <2>3 DEF Fine, RunStep
<1>3. CASE \E res \in Results \ {NoResult} : RecordResult(w, res)
  BY <1>1, <1>3, RecordRev DEF ToolPCs
<1> QED BY <1>2, <1>3, RecordedResult

\* Running the tool.
LEMMA ExecuteRev == ASSUME IInv, RevInv, NEW w \in Workers, ExecuteTool(w) PROVE Fine(w)
<1>1. /\ WorkerRev(w) /\ TypeOK /\ pc[w] = "toolRun" /\ run' = run
      /\ Proceed(w, "toolDone")
  BY DEF RevInv, IInv, ExecuteTool, storeVars
<1>2. Alone(w) /\ pc'[w] = "toolDone" /\ Keeps(w)
  BY <1>1, Proceeding
<1>3. Awaits(st[w])' = Awaits(st[w])
  BY <1>2, SameTurns DEF Keeps
<1>4. WorkerRev(w)'
  BY <1>1, <1>2, <1>3
  DEF WorkerRev, UnclaimedOK, BasedOK, WritingOK, CancelOK, Unclaimed, Owns, Writing,
      Persisting, ModelPCs, ToolPCs, Keeps, IsCancelled
<1> QED BY <1>1, <1>2, <1>4 DEF Fine, RunStep

\* Recording what the tool returned.
LEMMA CompleteRev ==
  ASSUME IInv, JInv, RevInv, NEW w \in Workers,
         CompleteToolExecution(w) \/ UnknownToolExecution(w)
  PROVE  Fine(w)
<1>1. /\ WorkerRev(w) /\ TypeOK /\ pc[w] = "toolDone" /\ run' = run
      /\ base[w].rev = run.rev => ~IsCancelled(run)
  BY DEF RevInv, IInv, CompleteToolExecution, UnknownToolExecution, WorkerRev, CancelOK,
         storeVars
<1>2. CASE CompleteToolExecution(w)
  <2>1. PICK res \in Results \ {NoResult} : RecordResult(w, res)
    BY <1>1, <1>2, RecordedResult DEF ClaimToolExecution
  <2> QED BY <1>1, <2>1, RecordRev DEF ToolPCs
<1>3. CASE UnknownToolExecution(w)
  BY <1>1, <1>3, GoneFine DEF UnknownToolExecution, Gone
<1> QED BY <1>2, <1>3

----------------------------------------------------------------------------
(* Writes *)

\* An error of a write.
LEMMA PersistErrorFine ==
  ASSUME TypeOK, NEW w \in Workers, PersistError(w), run' = run PROVE Fine(w)
BY GoneFine, LeavingFine DEF PersistError, Gone

\* Refreshing what is about to be written.
LEMMA RefreshRev == ASSUME IInv, RevInv, NEW w \in Workers, PersistRefresh(w) PROVE Fine(w)
<1>1. WorkerRev(w) /\ TypeOK /\ pc[w] = "refresh" /\ run' = run
  BY DEF RevInv, IInv, PersistRefresh, storeVars
<1> DEFINE r == Refreshed(st[w])
<1>2. r.rev = st[w].rev /\ r.turns = st[w].turns /\ r.status = st[w].status
  BY <1>1, RefreshedFields, StoredTypes
<1>3. Goto(w, "save") /\ Set(w, r) /\ UNCHANGED base /\ UNCHANGED after
  BY DEF PersistRefresh
<1> HIDE DEF r
<1>4. /\ Alone(w) /\ pc'[w] = "save" /\ after'[w] = after[w]
      /\ st'[w] = r /\ base'[w] = base[w]
  BY <1>1, <1>3, Setting
<1>5. Awaits(st[w])' = Awaits(st[w]) /\ HasResult(st[w])' = HasResult(st[w])
  BY <1>2, <1>4, SameTurns
<1>6. WorkerRev(w)'
  BY <1>1, <1>2, <1>4, <1>5
  DEF WorkerRev, UnclaimedOK, BasedOK, WritingOK, CancelOK, Unclaimed, Owns, Writing,
      Persisting, ModelPCs, ToolPCs, IsCancelled
<1> QED BY <1>1, <1>4, <1>6 DEF Fine, RunStep

\* The write: it takes place over the last write of the invocation, or over
\* anything if it stores a failure.
LEMMA SaveRev == ASSUME IInv, RevInv, NEW w \in Workers, PersistSave(w) PROVE Fine(w)
<1>1. /\ WorkerRev(w) /\ TypeOK /\ pc[w] = "save" /\ st[w] \in Runs
      /\ run.rev \in Nat /\ after[w] \in Afters
  BY StoredTypes, RunFields DEF RevInv, IInv, PersistSave
<1>2. CASE ~RevisionMatches(st[w])
  <2>1. run' = run /\ ((Proceed(w, "rebase") /\ after[w] \in Checkpoints) \/ PersistError(w))
    BY <1>2 DEF PersistSave
  <2>2. CASE Proceed(w, "rebase") /\ after[w] \in Checkpoints
    <3>1. Alone(w) /\ pc'[w] = "rebase" /\ Keeps(w)
      BY <1>1, <2>2, Proceeding
    <3>2. Awaits(st[w])' = Awaits(st[w]) /\ HasResult(st[w])' = HasResult(st[w])
      BY <3>1, SameTurns DEF Keeps
    <3>3. WorkerRev(w)'
      BY <1>1, <2>1, <2>2, <3>1, <3>2
      DEF WorkerRev, UnclaimedOK, BasedOK, WritingOK, CancelOK, Unclaimed, Owns, Writing,
          Persisting, ModelPCs, ToolPCs, IsCancelled, Keeps
    <3> QED BY <2>1, <3>1, <3>3 DEF Fine, RunStep
  <2>3. CASE PersistError(w)
    BY <1>1, <2>1, <2>3, PersistErrorFine
  <2> QED BY <2>1, <2>2, <2>3
<1>3. CASE RevisionMatches(st[w])
  <2>1. SaveRun(st[w]) /\ st[w].rev = run.rev
    BY <1>3 DEF PersistSave, RevisionMatches
  <2>2. /\ run'.rev = run.rev + 1 /\ run'.turns = st[w].turns /\ run'.status = st[w].status
    BY <1>1, <2>1, SavedFields
  <2>3. st[w].status # "absent" /\ after[w] # "fresh"
    BY <1>1 DEF WorkerRev, WritingOK, Persisting
  <2>4. CASE after[w] \notin Checkpoints
    <3>1. Leave(w, "release")
      BY <1>3, <2>4 DEF PersistSave
    <3>2. Alone(w) /\ WorkerRev(w)'
      BY <1>1, <3>1, Leaving, GoneRev DEF Gone
    <3>3. st[w].status = "failed"
      BY <1>1, <2>3, <2>4 DEF WorkerRev, WritingOK, Persisting, Afters
    <3>4. Advances
      BY <2>2, <3>3 DEF Advances
    <3> QED BY <3>2, <3>4 DEF Fine, RunStep
  <2>5. CASE after[w] \in Checkpoints
    <3>1. PICK there \in AfterSave(w) : Goto(w, there)
      BY <1>3, <2>5 DEF PersistSave
    <3>2. /\ Alone(w) /\ pc'[w] = there /\ after'[w] = after[w]
          /\ st'[w] = run' /\ base'[w] = run'
      BY <1>1, <1>3, <2>5, <3>1, Confirming DEF PersistSave
    <3>3. Writing(w)
      BY <1>1, <2>5 DEF Writing, Persisting, Checkpoints
    <3>4. base[w] = run /\ Continues(base[w].turns, st[w].turns)
      BY <1>1, <2>1, <3>3 DEF WorkerRev, BasedOK
    <3>5. IsCancelled(run) =>
            \/ st[w].status \in {run.status, "failed"}
            \/ st[w].status = "completed" /\ st[w].turns = run.turns /\ HasResult(st[w])
      BY <1>1, <3>3, <3>4 DEF WorkerRev, CancelOK
    <3>6. Advances
      <4>1. CASE st[w].status = "completed" /\ st[w].turns = run.turns /\ HasResult(st[w])
        <5>1. StoppedByCaller
          BY <2>2, <4>1 DEF StoppedByCaller, HasResult, LastTurn
        <5> QED BY <2>2, <2>3, <3>4, <4>1, <5>1 DEF Advances
      <4> QED BY <2>2, <2>3, <3>4, <3>5, <4>1 DEF Advances, IsCancelled
    <3>7. /\ there \in {"assert", "finish", "modelCheck"}
          /\ there = "finish" => after[w] = "tools"
          /\ there = "assert" => after[w] \in {"step", "finish"}
      BY <2>5 DEF AfterSave, Checkpoints
    <3>8. Awaits(st[w])' = Awaits(st[w]) /\ HasResult(st[w])' = HasResult(st[w])
      BY <2>2, <3>2, SameTurns
    <3>9. run'.rev \in Nat
      BY <1>1, <2>2
    <3>10. /\ after[w] = "tools" => HasResult(st[w])
           /\ after[w] = "step" => Awaits(st[w])
      BY <1>1 DEF WorkerRev, WritingOK, Persisting
    <3>11. WorkerRev(w)'
      BY <2>2, <2>3, <3>2, <3>7, <3>8, <3>9, <3>10
      DEF WorkerRev, UnclaimedOK, BasedOK, WritingOK, CancelOK, Unclaimed, Owns, Writing,
          Persisting, ModelPCs, ToolPCs
    <3> QED BY <3>2, <3>6, <3>11 DEF Fine, RunStep
  <2> QED BY <2>4, <2>5
<1> QED BY <1>2, <1>3

\* A write is moved over the cancellation that came before it.
LEMMA RebaseRev == ASSUME IInv, RevInv, NEW w \in Workers, PersistRebase(w) PROVE Fine(w)
<1>1. /\ WorkerRev(w) /\ TypeOK /\ pc[w] = "rebase" /\ run' = run /\ st[w] \in Runs
      /\ run.rev \in Nat
  BY StoredTypes, RunFields DEF RevInv, IInv, PersistRebase, storeVars
<1>2. CASE CancellationOnly(base[w], run)
  <2> DEFINE r == [st[w] EXCEPT !.status = run.status, !.rev = run.rev]
  <2>1. r.rev = run.rev /\ r.turns = st[w].turns /\ r.status = run.status
    BY <1>1 DEF Runs
  <2>2. /\ Goto(w, "refresh") /\ Set(w, r) /\ base' = [base EXCEPT ![w] = run]
        /\ UNCHANGED after
    BY <1>2 DEF PersistRebase
  <2> HIDE DEF r
  <2>3. /\ Alone(w) /\ pc'[w] = "refresh" /\ after'[w] = after[w]
        /\ st'[w] = r /\ base'[w] = run
    BY <1>1, <2>2, Confirming
  <2>4. IsCancelled(run) /\ run.turns = base[w].turns /\ run.status # "absent"
    BY <1>2 DEF CancellationOnly, IsCancelled
  <2>5. Awaits(st[w])' = Awaits(st[w]) /\ HasResult(st[w])' = HasResult(st[w])
    BY <2>1, <2>3, SameTurns
  <2>6. after[w] \in Checkpoints
    BY <1>1 DEF WorkerRev, WritingOK, Persisting
  <2>7. WorkerRev(w)'
    BY <1>1, <2>1, <2>3, <2>4, <2>5, <2>6
    DEF WorkerRev, UnclaimedOK, BasedOK, WritingOK, CancelOK, Unclaimed, Owns, Writing,
        Persisting, ModelPCs, ToolPCs, IsCancelled, Checkpoints
  <2> QED BY <1>1, <2>3, <2>7 DEF Fine, RunStep
<1>3. CASE ~CancellationOnly(base[w], run)
  BY <1>1, <1>3, GoneFine DEF PersistRebase, Gone
<1> QED BY <1>2, <1>3

\* Where an invocation goes from a stored checkpoint.
LEMMA AssertRev ==
  ASSUME IInv, RevInv, NEW w \in Workers, AssertNotCancelled(w) PROVE Fine(w)
<1>1. WorkerRev(w) /\ TypeOK /\ pc[w] = "assert" /\ run' = run
  BY DEF RevInv, IInv, AssertNotCancelled, storeVars
<1>2. CASE IsCancelled(run) \/ after[w] = "finish"
  BY <1>1, <1>2, LeavingFine DEF AssertNotCancelled, Gone
<1>3. CASE ~(IsCancelled(run) \/ after[w] = "finish")
  <2>1. /\ Alone(w) /\ Keeps(w)
        /\ pc'[w] = IF EndsWithCall(st[w]) THEN "toolCheck" ELSE "finish"
    BY <1>1, <1>3, Proceeding DEF AssertNotCancelled
  <2>2. Awaits(st[w])' = Awaits(st[w])
    BY <2>1, SameTurns DEF Keeps
  <2>3. WorkerRev(w)'
    BY <1>1, <1>3, <2>1, <2>2
    DEF WorkerRev, UnclaimedOK, BasedOK, WritingOK, CancelOK, Unclaimed, Owns, Writing,
        Persisting, ModelPCs, ToolPCs, Keeps, IsCancelled
  <2> QED BY <1>1, <2>1, <2>3 DEF Fine, RunStep
<1> QED BY <1>2, <1>3

\* The last checkpoint.
LEMMA FinishRev == ASSUME IInv, RevInv, NEW w \in Workers, Finish(w) PROVE Fine(w)
<1>1. WorkerRev(w) /\ TypeOK /\ pc[w] = "finish" /\ run' = run
  BY DEF RevInv, IInv, Finish, storeVars
<1> DEFINE s == IF Exhausted(st[w]) /\ EndsWithCall(st[w]) THEN "failed" ELSE "completed"
           r == [st[w] EXCEPT !.status = s]
<1>2. r.rev = st[w].rev /\ r.turns = st[w].turns /\ r.status = s
  BY <1>1, StatusFields, StoredTypes
<1>3. Goto(w, "refresh") /\ Set(w, r) /\ Purpose(w, "finish") /\ UNCHANGED base
  BY DEF Finish
<1> HIDE DEF r
<1>4. /\ Alone(w) /\ pc'[w] = "refresh" /\ after'[w] = "finish"
      /\ st'[w] = r /\ base'[w] = base[w]
  BY <1>1, <1>3, Preparing
<1>5. Continues(st[w].turns, r.turns)
  BY <1>1, <1>2, ContinuesItself, StoredTypes, RunFields
<1>6. /\ Owns(w) /\ s \in {"failed", "completed"}
      /\ base[w].rev = run.rev /\ IsCancelled(run) => HasResult(st'[w])
  BY <1>1, <1>2, <1>4 DEF Owns, WorkerRev, CancelOK, HasResult, LastTurn
<1>7. s # "absent"
  OBVIOUS
<1> HIDE DEF s
<1> QED BY <1>1, <1>2, <1>4, <1>5, <1>6, <1>7, PreparedRev DEF Checkpoints

\* The ends of an invocation.
LEMMA StopRev ==
  ASSUME IInv, RevInv, NEW w \in Workers,
         MonitorStops(w) \/ Interrupt(w) \/ FailSync(w) \/ Release(w)
  PROVE  Fine(w)
<1>1. TypeOK /\ run' = run
  BY DEF IInv, MonitorStops, Interrupt, FailSync, Release, storeVars
<1>2. \/ \E there \in Gone : Leave(w, there) \/ Proceed(w, there)
      \/ PersistError(w) \/ LeaveClaim(w)
  BY DEF MonitorStops, Interrupt, FailSync, Release, Gone
<1> QED BY <1>1, <1>2, LeavingFine, GoneFine, PersistErrorFine, LeavingClaim

\* The failure that is about to be stored.
LEMMA FailLoadRev == ASSUME IInv, RevInv, NEW w \in Workers, FailLoad(w) PROVE Fine(w)
<1>1. TypeOK /\ run' = run /\ run \in Runs /\ st[w] \in Runs
  BY StoredTypes DEF IInv, FailLoad, storeVars
<1>2. OverlaidOn(st[w], run) \in Runs
  BY <1>1 DEF OverlaidOn, Runs
<1>3. PICK q \in Runs : Set(w, [q EXCEPT !.rev = run.rev, !.status = "failed"])
  BY <1>1, <1>2 DEF FailLoad
<1> DEFINE r == [q EXCEPT !.rev = run.rev, !.status = "failed"]
<1>4. r.status = "failed"
  BY DEF Runs
<1>5. Goto(w, "refresh") /\ Set(w, r) /\ Purpose(w, "failure") /\ UNCHANGED base
  BY <1>3 DEF FailLoad
<1> HIDE DEF r
<1>6. /\ Alone(w) /\ pc'[w] = "refresh" /\ after'[w] = "failure" /\ st'[w] = r
  BY <1>1, <1>5, Preparing
<1>7. WorkerRev(w)'
  BY <1>4, <1>6
  DEF WorkerRev, UnclaimedOK, BasedOK, WritingOK, CancelOK, Unclaimed, Owns, Writing,
      Persisting, ModelPCs, ToolPCs
<1> QED BY <1>1, <1>6, <1>7 DEF Fine, RunStep

\* Every step of an invocation.
LEMMA WorkerFine == ASSUME IInv, JInv, RevInv, NEW w \in Workers, WorkerStep(w)
                    PROVE  Fine(w)
BY ResolveRev, AcquireRev, ClaimRev, ReadyRev, HookRev, ModelRev, ClaimToolRev, ExecuteRev,
   CompleteRev, RefreshRev, SaveRev, RebaseRev, AssertRev, FinishRev, StopRev, FailLoadRev
DEF WorkerStep

----------------------------------------------------------------------------
(* The others *)

\* What an invocation that does not move knows stays true.
LEMMA OthersRev ==
  ASSUME TypeOK, StoredOK, RunStep, NEW v \in Workers, WorkerRev(v),
         pc'[v] = pc[v], after'[v] = after[v], st'[v] = st[v], base'[v] = base[v]
  PROVE  WorkerRev(v)'
<1>1. /\ run.rev \in Nat /\ base[v].rev \in Nat /\ st[v].rev \in Nat
  BY StoredTypes, RunFields
<1>2. Awaits(st[v])' = Awaits(st[v]) /\ HasResult(st[v])' = HasResult(st[v])
  BY SameTurns
<1>3. CASE run' = run
  BY <1>2, <1>3
  DEF WorkerRev, UnclaimedOK, BasedOK, WritingOK, CancelOK, Unclaimed, Owns, Writing, IsCancelled
<1>4. CASE Advances
  <2>1. run'.rev = run.rev + 1 /\ run'.status # "absent"
    BY <1>4 DEF Advances
  <2>2. UnclaimedOK(v)'
    BY <1>1, <2>1 DEF WorkerRev, UnclaimedOK, Unclaimed, IsCancelled
  <2>3. BasedOK(v)'
    BY <1>1, <2>1 DEF WorkerRev, BasedOK, Owns, Writing
  <2>4. Owns(v) \/ Writing(v) => base[v].rev # run'.rev
    BY <1>1, <2>1 DEF WorkerRev, BasedOK
  <2>5. CancelOK(v)'
    BY <1>2, <2>4 DEF WorkerRev, CancelOK, Owns, Writing, ModelPCs, ToolPCs
  <2>6. WritingOK(v)'
    BY <1>2 DEF WorkerRev, WritingOK
  <2> QED BY <2>2, <2>3, <2>5, <2>6 DEF WorkerRev
<1>5. CASE Keyed /\ run.status = "absent" /\ run' = BaseState
  <2>1. run.rev = 0 /\ run'.rev = 0 /\ ~(Owns(v) \/ Writing(v))
    BY <1>5 DEF StoredOK, BaseState, AbsentRun, WorkerRev, BasedOK
  <2>2. UnclaimedOK(v)'
    BY <1>5, <2>1 DEF WorkerRev, UnclaimedOK, Unclaimed, IsCancelled, StoredOK, BaseState, AbsentRun
  <2>3. BasedOK(v)' /\ WritingOK(v)'
    BY <1>2, <2>1 DEF WorkerRev, BasedOK, WritingOK, Owns, Writing
  <2>4. CancelOK(v)'
    BY <1>2, <2>1 DEF WorkerRev, CancelOK, Owns, Writing, ModelPCs, ToolPCs
  <2> QED BY <2>2, <2>3, <2>4 DEF WorkerRev
<1> QED BY <1>3, <1>4, <1>5 DEF RunStep

\* What a reconciler that does not move knows stays true.
LEMMA OthersRecon ==
  ASSUME TypeOK, StoredOK, RunStep, NEW r \in Reconcilers, ReconRev(r),
         rpc'[r] = rpc[r], rst'[r] = rst[r]
  PROVE  ReconRev(r)'
<1>1. run.rev \in Nat /\ rst[r].rev \in Nat
  BY RunFields DEF TypeOK, StoreTypeOK, ReconTypeOK
<1>2. CASE run' = run
  BY <1>2 DEF ReconRev, IsCancelled
<1>3. CASE Advances
  BY <1>1, <1>3 DEF Advances, ReconRev
<1>4. CASE Keyed /\ run.status = "absent" /\ run' = BaseState
  BY <1>4 DEF ReconRev
<1> QED BY <1>2, <1>3, <1>4 DEF RunStep

\* What is stored stays so.
LEMMA StoredRev == ASSUME TypeOK, StoredOK, RunStep PROVE StoredOK'
<1>1. run.rev \in Nat
  BY RunFields DEF TypeOK, StoreTypeOK
<1> QED BY <1>1 DEF StoredOK, RunStep, Advances, BaseState, AbsentRun

----------------------------------------------------------------------------
(* Reconcilers and cancellation *)

\* A step of a reconciler.
LEMMA ReconFine ==
  ASSUME IInv, RevInv, NEW r \in Reconcilers, ReconStep(r)
  PROVE  /\ RunStep /\ ReconRev(r)'
         /\ \A q \in Reconcilers \ {r} : rpc'[q] = rpc[q] /\ rst'[q] = rst[q]
<1>1. /\ TypeOK /\ ReconRev(r) /\ run \in Runs /\ run.rev \in Nat /\ rst[r] \in Runs
      /\ rpc \in [Reconcilers -> RPCs] /\ rst \in [Reconcilers -> Runs]
      /\ run.turns \in Seq(Turns) /\ rst[r].turns \in Seq(Turns)
      /\ rst[r].turns \in Transcripts
  BY RunFields DEF RevInv, IInv, TypeOK, StoreTypeOK, ReconTypeOK
<1>2. \A q \in Reconcilers \ {r} : rpc'[q] = rpc[q] /\ rst'[q] = rst[q]
  BY <1>1
  DEF ReconStep, RAcquire, RLoadState, RLoadEntry, RVerify, RCompleteRow, RProject, RSave,
      RRelease, RLeave, RProceed, RGoto
<1>3. CASE RLeave(r, "release") /\ run' = run
  BY <1>1, <1>2, <1>3 DEF RLeave, RGoto, ReconRev, RunStep
<1>4. CASE RAcquire(r)
  BY <1>1, <1>2, <1>4 DEF RAcquire, RProceed, RGoto, ReconRev, RunStep
<1>5. CASE RLoadState(r)
  <2>1. CASE ~IsCancelled(run)
    <3>1. rpc'[r] = "entry" /\ rst'[r] = run /\ run' = run /\ run.status # "absent"
      BY <1>1, <1>5, <2>1 DEF RLoadState, RGoto, storeVars, ReconRev
    <3>2. Continues(run.turns, run.turns)
      BY <1>1, ContinuesItself
    <3> QED BY <1>1, <1>2, <2>1, <3>1, <3>2 DEF ReconRev, RunStep, IsCancelled
  <2> QED BY <1>3, <1>5, <2>1 DEF RLoadState, storeVars
<1>6. CASE RLoadEntry(r)
  <2>1. CASE RGoto(r, "verify") /\ UNCHANGED rst /\ run' = run
    BY <1>1, <1>2, <1>6, <2>1 DEF RLoadEntry, RGoto, ReconRev, RunStep, IsCancelled
  <2> QED BY <1>3, <1>6, <2>1 DEF RLoadEntry, storeVars
<1>7. CASE RVerify(r)
  <2>1. CASE /\ rpc[r] = "verify" /\ run' = run
             /\ RProceed(r, "project") \/ RProceed(r, "journal")
    BY <1>1, <1>2, <2>1 DEF RProceed, RGoto, ReconRev, RunStep, IsCancelled
  <2> QED BY <1>3, <1>7, <2>1 DEF RVerify, storeVars
<1>8. CASE RCompleteRow(r)
  <2>1. CASE rpc[r] = "journal" /\ run' = run /\ RProceed(r, "project")
    BY <1>1, <1>2, <2>1 DEF RProceed, RGoto, ReconRev, RunStep, IsCancelled
  <2> QED BY <1>3, <1>8, <2>1 DEF RCompleteRow
<1>9. CASE RProject(r)
  <2> DEFINE q == Requeued(rst[r], rid[r])
             u == WithEvidence(rst[r].turns, ProviderId(rid[r]))
  <2>1. /\ rpc[r] = "project" /\ rpc'[r] = "save" /\ rst'[r] = Refreshed(q) /\ run' = run
    BY <1>1, <1>9 DEF RProject, RGoto, storeVars
  <2>2. q.rev = rst[r].rev /\ q.turns = u /\ q.status = "queued"
    BY <1>1 DEF Requeued, Runs
  <2>3. /\ Refreshed(q).rev = rst[r].rev /\ Refreshed(q).turns = u
        /\ Refreshed(q).status = "queued"
    <3>1. DOMAIN q = DOMAIN rst[r]
      BY DEF Requeued
    <3> QED BY <1>1, <2>2, <3>1 DEF Refreshed, Runs
  <2>4. ProviderId(rid[r]) \in ProviderIds /\ Continues(rst[r].turns, u)
    BY <1>1, <2>1, ContinuesEvidence, ProviderIdType DEF IInv, RCalled
  <2>5. /\ run.status # "absent" /\ rst[r].rev <= run.rev
        /\ rst[r].rev = run.rev => ~IsCancelled(run) /\ Continues(run.turns, rst[r].turns)
    BY <1>1, <2>1 DEF ReconRev
  <2>6. Continues(run.turns, rst[r].turns) => Continues(run.turns, u)
    <3>1. u \in Seq(Turns)
      BY <1>1, <2>4, WithEvidenceType DEF Transcripts
    <3> HIDE DEF u
    <3> QED BY <1>1, <2>4, <3>1, ContinuesThrough
  <2> HIDE DEF q, u
  <2> QED BY <1>2, <2>1, <2>3, <2>5, <2>6 DEF ReconRev, RunStep, IsCancelled
<1>10. CASE RSave(r)
  <2>1. CASE SaveRun(rst[r]) /\ RevisionMatches(rst[r])
    <3>1. /\ run'.rev = run.rev + 1 /\ run'.turns = rst[r].turns
          /\ run'.status = rst[r].status
      BY <1>1, <2>1, SavedFields DEF RevisionMatches
    <3>2. /\ rst[r].status = "queued" /\ ~IsCancelled(run)
          /\ Continues(run.turns, rst[r].turns)
      BY <1>1, <1>10, <2>1 DEF RSave, ReconRev, RevisionMatches
    <3>3. Advances
      BY <3>1, <3>2 DEF Advances, IsCancelled
    <3> QED BY <1>1, <1>2, <1>10, <3>3 DEF RSave, RLeave, RGoto, ReconRev, RunStep
  <2> QED BY <1>3, <1>10, <2>1 DEF RSave
<1>11. CASE RRelease(r)
  BY <1>1, <1>2, <1>11 DEF RRelease, RProceed, RGoto, ReconRev, RunStep
<1> QED BY <1>4, <1>5, <1>6, <1>7, <1>8, <1>9, <1>10, <1>11 DEF ReconStep

\* A cancellation advances the run.
LEMMA CancelAdvances ==
  ASSUME TypeOK, NEW mode \in CancelModes, CancelAgentState(mode) PROVE Advances
<1> DEFINE s == IF mode = "final" THEN "cancelled" ELSE "cancel_requested"
           r == [run EXCEPT !.status = s]
<1>1. run \in Runs /\ run.turns \in Seq(Turns)
  BY StoreTypes, RunFields
<1>2. r \in Runs
  BY <1>1, StatusType DEF Statuses
<1>3. r.rev = run.rev /\ r.turns = run.turns /\ r.status = s
  BY <1>1, StatusFields
<1>4. SaveRun(r)
  BY DEF CancelAgentState
<1> HIDE DEF r
<1>5. run'.rev = run.rev + 1 /\ run'.turns = run.turns /\ run'.status = s
  BY <1>2, <1>3, <1>4, SavedFields
<1>6. Continues(run.turns, run'.turns)
  BY <1>1, <1>5, ContinuesItself
<1> QED BY <1>5, <1>6 DEF Advances, IsCancelled, CancelAgentState

----------------------------------------------------------------------------
(* The revision invariant *)

\* Every write of the run is lawful, and what the others rely on stays true.
LEMMA RevNext == ASSUME IInv, JInv, RevInv, [Next]_vars PROVE RunStep /\ RevInv'
<1>1. TypeOK /\ StoredOK
  BY DEF IInv, RevInv
<1>2. ASSUME RunStep,
             \A v \in Workers : WorkerRev(v)' \/ (/\ pc'[v] = pc[v] /\ after'[v] = after[v]
                                                  /\ st'[v] = st[v] /\ base'[v] = base[v]),
             \A q \in Reconcilers : ReconRev(q)' \/ (rpc'[q] = rpc[q] /\ rst'[q] = rst[q])
      PROVE  RevInv'
  <2>1. \A v \in Workers : WorkerRev(v)'
    BY <1>1, <1>2, OthersRev DEF RevInv
  <2>2. \A q \in Reconcilers : ReconRev(q)'
    BY <1>1, <1>2, OthersRecon DEF RevInv
  <2> QED BY <1>1, <1>2, <2>1, <2>2, StoredRev DEF RevInv
<1>3. ASSUME NEW w \in Workers, WorkerStep(w), UNCHANGED reconVars
      PROVE  RunStep /\ RevInv'
  BY <1>2, <1>3, WorkerFine DEF Fine, Alone, reconVars
<1>4. ASSUME NEW r \in Reconcilers, ReconStep(r), UNCHANGED workerVars
      PROVE  RunStep /\ RevInv'
  BY <1>2, <1>4, ReconFine DEF workerVars
<1>5. ASSUME NEW mode \in CancelModes, CancelAgentState(mode),
             UNCHANGED <<workerVars, reconVars>>
      PROVE  RunStep /\ RevInv'
  BY <1>1, <1>2, <1>5, CancelAdvances DEF workerVars, reconVars, RunStep
<1>6. CASE ExpireLease /\ UNCHANGED <<workerVars, reconVars>>
  BY <1>2, <1>6 DEF ExpireLease, workerVars, reconVars, RunStep
<1>7. CASE UNCHANGED vars
  BY <1>2, <1>7 DEF vars, storeVars, workerVars, reconVars, RunStep
<1> QED BY <1>3, <1>4, <1>5, <1>6, <1>7 DEF Next

\* Initially nobody relies on anything.
LEMMA RevInit == Init => RevInv
<1> SUFFICES ASSUME Init PROVE RevInv
  OBVIOUS
<1>1. run = AbsentRun /\ AbsentRun.status = "absent"
  BY DEF Init, StoreInit, AbsentRun
<1>2. \A w \in Workers : pc[w] = "idle" /\ after[w] = "step"
  BY DEF Init, WorkerInit
<1>3. \A r \in Reconcilers : rpc[r] = "idle"
  BY DEF Init, ReconInit
<1> QED BY <1>1, <1>2, <1>3
  DEF RevInv, StoredOK, ReconRev, WorkerRev, UnclaimedOK, BasedOK, WritingOK, CancelOK,
      Unclaimed, Owns, Writing, Persisting, ModelPCs, ToolPCs

\* The revision invariant holds in every reachable state: before its claim an
\* invocation holds the run as it was stored or knows itself overtaken, after it
\* the record with the revision of its last write is that write, and nobody at
\* work on the current record has a cancellation in it (assertExpectedRevision).
THEOREM RevisionInvariance == Spec => [](IInv /\ JInv /\ RevInv)
<1>1. IInv /\ JInv /\ RevInv /\ [Next]_vars => RevInv'
  BY RevNext
<1> QED BY <1>1, RevInit, JournalInvariance, PTL DEF Spec

\* Every write of the run advances it by one revision and continues the
\* transcript it replaces, failures aside, though its writer may have lost the
\* lease long ago.
THEOREM NoUpdateLost == Spec => NoLostUpdate
<1>1. IInv /\ JInv /\ RevInv /\ [Next]_vars =>
        [run.status # "absent" /\ run'.status # "failed"
           => /\ run'.rev = run.rev + 1 /\ Continues(run.turns, run'.turns)]_run
  BY RevNext DEF RunStep, Advances
<1> QED BY <1>1, RevisionInvariance, PTL DEF Spec, NoLostUpdate

\* A cancelled run is put back to work by nobody, and no answer of the model
\* completes it; a final cancellation is not downgraded.  Who writes over it has
\* seen it, records a failure, or ends a loop that its caller has stopped right
\* after a tool result, as it stands (persistState, assertExpectedRevision).
THEOREM CancellationHolds == Spec => CancellationSticks
<1>1. IInv /\ JInv /\ RevInv /\ [Next]_vars =>
        [/\ IsCancelled(run) => \/ IsCancelled(run')
                               \/ run'.status = "failed"
                               \/ StoppedByCaller
         /\ run.status = "cancelled" => run'.status # "cancel_requested"]_run
  <2> SUFFICES ASSUME IInv, JInv, RevInv, [Next]_vars, run' # run
               PROVE  /\ IsCancelled(run) => \/ IsCancelled(run')
                                            \/ run'.status = "failed"
                                            \/ StoppedByCaller
                      /\ run.status = "cancelled" => run'.status # "cancel_requested"
    OBVIOUS
  <2>1. RunStep
    BY RevNext
  <2> QED BY <2>1 DEF RunStep, Advances, IsCancelled
<1> QED BY <1>1, RevisionInvariance, PTL DEF Spec, CancellationSticks

----------------------------------------------------------------------------
(* Late calls *)

\* A checkpoint of the step loop that is about to be written adds to the last
\* one, and records no failure.
WroteOK(w) == pc[w] \in Persisting /\ after[w] \in {"step", "tools", "recovered"} =>
                st[w].turns # base[w].turns /\ st[w].status # "failed"

\* An invocation that starts no further call.
Over(w) == \/ pc[w] \in Gone \cup {"finish"}
           \/ pc[w] \in Persisting /\ after[w] \in {"finish", "failure", "exhausted"}
           \/ pc[w] = "assert" /\ after[w] = "finish"

\* Its last write has been replaced by another that is not a cancellation of it.
Overtaken(w) == \/ run.rev > base[w].rev + 1
                \/ run.rev = base[w].rev + 1 /\ ~IsCancelled(run)

\* It made a call under a cancellation and has not written it: the write will
\* fail or take the cancellation over.
Unwritten(w) == /\ pc[w] = "toolDone" \/ pc[w] \in Persisting
                /\ IsCancelled(run) \/ Overtaken(w)

\* It has written it: its next check sees the cancellation, which only a failure
\* could overwrite, since every other invocation is behind.
Behind(u, w) == Owns(u) \/ Writing(u) =>
                  /\ base[u].rev < base[w].rev
                  /\ base[u].rev + 1 = base[w].rev => base[u].turns # base[w].turns
Written(w) == /\ pc[w] \in {"modelCheck", "assert"}
              /\ IsCancelled(run)
              /\ \A u \in Workers \ {w} : Behind(u, w)

LateOK(w) == late[w] # 0 => late[w] = 1 /\ (Over(w) \/ Unwritten(w) \/ Written(w))

LateInv == \A w \in Workers : WroteOK(w) /\ LateOK(w)

----------------------------------------------------------------------------
(* What is about to be written *)

\* A recorded result changes the transcript, and the write is not a failure.
LEMMA RecordWrote ==
  ASSUME IInv, NEW w \in Workers, NEW res \in Results \ {NoResult}, WorkerRev(w),
         pc[w] \in ToolPCs, RecordResult(w, res)
  PROVE  WroteOK(w)' /\ pc'[w] = "refresh"
<1> DEFINE t == st[w].turns
           n == Len(t)
           u == [t EXCEPT ![n].res = res]
<1>1. TypeOK /\ EndsWithCall(st[w]) /\ t[n].res = NoResult /\ base[w] = st[w]
  BY CallType DEF IInv, WorkerRev, CancelOK, BasedOK, Owns, Awaits, LastTurn
<1>2. /\ pc'[w] = "refresh" /\ base'[w] = base[w] /\ st'[w].turns = u
      /\ st'[w].status = "running" /\ u[n].res = res
  BY <1>1, Recorded
<1>3. u # t
  <2> HIDE DEF u
  <2> QED BY <1>1, <1>2
<1> HIDE DEF u
<1> QED BY <1>1, <1>2, <1>3 DEF WroteOK

\* The steps that leave no write to be made.
Plain(w) == \/ ResolveLoaded(w) \/ ResolveFresh(w) \/ ClaimIdempotencyKey(w)
            \/ AcquireExecutionLease(w) \/ ClaimSync(w) \/ ClaimSave(w) \/ ClaimResync(w)
            \/ BeforeModelStep(w) \/ BeforeToolExecution(w) \/ ExecuteTool(w)
            \/ UnknownToolExecution(w) \/ AssertNotCancelled(w) \/ MonitorStops(w)
            \/ Interrupt(w) \/ FailSync(w) \/ Release(w)

\* They lead to no write.
LEMMA PlainPlaces == ASSUME TypeOK, NEW w \in Workers, Plain(w) PROVE pc'[w] \notin Persisting
<1> USE DEF TypeOK, WorkerTypeOK, Goto, Leave, Proceed, LeaveClaim, Persisting
<1>1. CASE ResolveLoaded(w) \/ ResolveFresh(w) \/ ClaimIdempotencyKey(w)
  BY <1>1 DEF ResolveLoaded, ResolveFresh, ClaimIdempotencyKey, TakeLoaded
<1>2. CASE AcquireExecutionLease(w) \/ ClaimSync(w) \/ ClaimSave(w) \/ ClaimResync(w)
  BY <1>2 DEF AcquireExecutionLease, ClaimSync, ClaimSave, ClaimResync
<1>3. CASE \/ BeforeModelStep(w) \/ BeforeToolExecution(w) \/ ExecuteTool(w)
           \/ UnknownToolExecution(w) \/ AssertNotCancelled(w)
  BY <1>3 DEF BeforeModelStep, BeforeToolExecution, ExecuteTool, UnknownToolExecution,
              AssertNotCancelled
<1>4. CASE MonitorStops(w) \/ Interrupt(w) \/ FailSync(w) \/ Release(w)
  BY <1>4 DEF MonitorStops, Interrupt, FailSync, Release, PersistError
<1> QED BY <1>1, <1>2, <1>3, <1>4 DEF Plain

\* The step of an invocation keeps what it is about to write.
LEMMA WroteStep ==
  ASSUME IInv, JInv, RevInv, NEW w \in Workers, WroteOK(w), WorkerStep(w)
  PROVE  WroteOK(w)'
<1>1. WorkerRev(w) /\ TypeOK /\ st[w] \in Runs /\ base[w] \in Runs /\ run \in Runs
  BY StoredTypes DEF RevInv, IInv
<1>2. CASE Plain(w)
  BY <1>1, <1>2, PlainPlaces DEF WroteOK
<1>3. CASE Ready(w) \/ Finish(w) \/ FailLoad(w)
  BY <1>1, <1>3 DEF Ready, Finish, FailLoad, Goto, Purpose, Proceed, WroteOK, TypeOK, WorkerTypeOK, Persisting
<1>4. CASE ModelStep(w)
  <2> DEFINE r(turn) == [st[w] EXCEPT !.turns = Append(@, turn),
                                      !.status = IF turn = FinalTurn THEN "completed"
                                                 ELSE "running"]
  <2>1. PICK turn \in NewTurns : Set(w, r(turn))
    BY <1>4 DEF ModelStep, NewTurns
  <2>2. r(turn).turns = Append(st[w].turns, turn) /\ r(turn).status \in {"completed", "running"}
    BY <1>1 DEF Runs
  <2>3. r(turn).turns # st[w].turns
    <3>1. st[w].turns \in Seq(Turns)
      BY <1>1, RunFields
    <3>2. Len(Append(st[w].turns, turn)) = Len(st[w].turns) + 1 /\ Len(st[w].turns) \in Nat
      BY <3>1
    <3> HIDE DEF r
    <3> QED BY <2>2, <3>2
  <2>4. st[w] = base[w]
    BY <1>1, <1>4 DEF ModelStep, WorkerRev, BasedOK, Owns, ModelPCs
  <2>5. Set(w, r(turn)) /\ UNCHANGED base
    BY <1>4, <2>1 DEF ModelStep
  <2> HIDE DEF r
  <2>6. st'[w] = r(turn) /\ base'[w] = base[w]
    BY <1>1, <2>5 DEF Set, TypeOK, WorkerTypeOK
  <2> QED BY <2>2, <2>3, <2>4, <2>6 DEF WroteOK
<1>5. CASE ClaimToolExecution(w) /\ Proceed(w, "toolRun")
  BY <1>1, <1>5 DEF Proceed, Goto, WroteOK, TypeOK, WorkerTypeOK, Persisting
<1>6. CASE /\ ClaimToolExecution(w) \/ ClaimFails(w) \/ CompleteToolExecution(w)
           /\ \E res \in Results \ {NoResult} : RecordResult(w, res)
  BY <1>1, <1>6, RecordWrote
  DEF ClaimToolExecution, ClaimFails, CompleteToolExecution, ToolPCs
<1>7. CASE PersistRefresh(w)
  <2>1. Refreshed(st[w]).turns = st[w].turns /\ Refreshed(st[w]).status = st[w].status
    BY <1>1, RefreshedFields
  <2>2. /\ pc[w] \in Persisting /\ after'[w] = after[w] /\ base'[w] = base[w]
        /\ st'[w] = Refreshed(st[w])
    BY <1>1, <1>7 DEF PersistRefresh, Set, TypeOK, WorkerTypeOK, Persisting
  <2> QED BY <2>1, <2>2 DEF WroteOK
<1>8. CASE PersistSave(w)
  <2>1. CASE RevisionMatches(st[w])
    <3>1. (\E there \in AfterSave(w) : Goto(w, there)) \/ Leave(w, "release")
      BY <1>8, <2>1 DEF PersistSave
    <3> QED BY <1>1, <3>1 DEF AfterSave, Goto, Leave, WroteOK, TypeOK, WorkerTypeOK, Persisting
  <2>2. CASE ~RevisionMatches(st[w])
    <3>1. CASE Proceed(w, "rebase")
      BY <1>8, <3>1 DEF PersistSave, Proceed, WroteOK, Persisting
    <3>2. CASE PersistError(w)
      BY <1>1, <3>2 DEF PersistError, Proceed, Leave, Goto, WroteOK, TypeOK, WorkerTypeOK, Persisting
    <3> QED BY <1>8, <2>2, <3>1, <3>2 DEF PersistSave
  <2> QED BY <2>1, <2>2
<1>9. CASE PersistRebase(w)
  <2>1. CASE CancellationOnly(base[w], run)
    <3> DEFINE r == [st[w] EXCEPT !.status = run.status, !.rev = run.rev]
    <3>1. r.turns = st[w].turns /\ r.status = run.status
      BY <1>1 DEF Runs
    <3>2. /\ pc[w] \in Persisting /\ after'[w] = after[w] /\ base'[w] = run /\ st'[w] = r
      BY <1>1, <1>9, <2>1 DEF PersistRebase, Set, TypeOK, WorkerTypeOK, Persisting
    <3> HIDE DEF r
    <3> QED BY <2>1, <3>1, <3>2 DEF WroteOK, CancellationOnly, IsCancelled
  <2>2. CASE ~CancellationOnly(base[w], run)
    BY <1>1, <1>9, <2>2 DEF PersistRebase, Proceed, Goto, WroteOK, TypeOK, WorkerTypeOK, Persisting
  <2> QED BY <2>1, <2>2
<1> QED BY <1>2, <1>3, <1>4, <1>5, <1>6, <1>7, <1>8, <1>9, RecordedResult
        DEF WorkerStep, Plain

----------------------------------------------------------------------------
(* The invocation that made a late call *)

\* Where no late call can have been made.
Early == {"idle", "claimKey", "acquire", "claimSync", "claimSave", "claimResync", "ready",
          "model", "toolCheck", "toolClaim", "toolRun"}
\* An invocation that has made no call under a cancellation counts none.
LEMMA EarlyNone ==
  ASSUME NEW w \in Workers, LateOK(w), pc[w] \in Early PROVE late[w] = 0
BY DEF LateOK, Over, Unwritten, Written, Early, Persisting, Gone

\* Leaving makes no call.
LEMMA GoneLate ==
  ASSUME NEW w \in Workers, LateOK(w), pc'[w] \in Gone, late'[w] \in {late[w], 0}
  PROVE  LateOK(w)'
BY DEF LateOK, Over

\* The call that is counted is the first.
LEMMA CountedLate ==
  ASSUME TypeOK, NEW w \in Workers, late[w] = 0, CountLate(w), run' = run,
         pc'[w] \in {"refresh", "toolDone"}
  PROVE  LateOK(w)'
BY DEF CountLate, LateOK, Unwritten, Persisting, IsCancelled, TypeOK, WorkerTypeOK

\* A step of an invocation after it made a late call.
LEMMA LateStep ==
  ASSUME IInv, JInv, RevInv, NEW w \in Workers, WroteOK(w), LateOK(w), WorkerStep(w)
  PROVE  LateOK(w)'
<1>1. WorkerRev(w) /\ TypeOK
  BY DEF RevInv, IInv
<1>2. CASE pc[w] \in Early /\ late' = late
  BY <1>2, EarlyNone DEF LateOK
<1>3. CASE ModelStep(w) \/ ExecuteTool(w)
  <2>1. pc[w] \in Early /\ CountLate(w) /\ run' = run
    BY <1>3 DEF ModelStep, ExecuteTool, Early, storeVars
  <2>2. pc'[w] \in {"refresh", "toolDone"}
    BY <1>1, <1>3 DEF ModelStep, ExecuteTool, Proceed, Goto, TypeOK, WorkerTypeOK
  <2> QED BY <1>1, <2>1, <2>2, CountedLate, EarlyNone
<1>4. CASE \/ ResolveLoaded(w) \/ ResolveFresh(w) \/ ClaimIdempotencyKey(w)
           \/ AcquireExecutionLease(w) \/ ClaimSync(w) \/ ClaimSave(w) \/ ClaimResync(w)
           \/ Ready(w) \/ BeforeToolExecution(w) \/ ClaimToolExecution(w) \/ ClaimFails(w)
  BY <1>2, <1>4
  DEF ResolveLoaded, ResolveFresh, ClaimIdempotencyKey, AcquireExecutionLease, ClaimSync,
      ClaimSave, ClaimResync, Ready, BeforeToolExecution, ClaimToolExecution, ClaimFails,
      Early, historyVars
<1>5. CASE MonitorStops(w) \/ Interrupt(w) \/ FailSync(w) \/ Release(w) \/ UnknownToolExecution(w)
  <2>1. pc'[w] \in Gone
    BY <1>1, <1>5
    DEF MonitorStops, Interrupt, FailSync, Release, UnknownToolExecution, PersistError,
        LeaveClaim, Leave, Proceed, Goto, Gone, TypeOK, WorkerTypeOK
  <2>2. late' = late
    BY <1>5 DEF MonitorStops, Interrupt, FailSync, Release, UnknownToolExecution, historyVars
  <2> QED BY <2>1, <2>2, GoneLate
<1>6. CASE BeforeModelStep(w) \/ AssertNotCancelled(w)
  <2>1. late' = late /\ pc[w] \in {"modelCheck", "assert"}
    BY <1>6 DEF BeforeModelStep, AssertNotCancelled, historyVars
  <2>2. CASE IsCancelled(run) \/ (pc[w] = "assert" /\ after[w] = "finish")
    BY <1>1, <1>6, <2>1, <2>2, GoneLate, Leaving DEF BeforeModelStep, AssertNotCancelled, Gone
  <2>3. CASE ~(IsCancelled(run) \/ (pc[w] = "assert" /\ after[w] = "finish"))
    BY <2>1, <2>3 DEF LateOK, Over, Unwritten, Written, Gone, Persisting
  <2> QED BY <2>2, <2>3
<1>7. CASE Finish(w) \/ FailLoad(w)
  <2>1. late' = late /\ pc'[w] = "refresh" /\ after'[w] \in {"finish", "failure"}
    BY <1>1, <1>7 DEF Finish, FailLoad, historyVars, Goto, Purpose, TypeOK, WorkerTypeOK
  <2> QED BY <2>1 DEF LateOK, Over, Persisting
<1>8. CASE CompleteToolExecution(w)
  <2>1. /\ late' = late /\ pc[w] = "toolDone" /\ run' = run
        /\ \E res : RecordResult(w, res)
    BY <1>8 DEF CompleteToolExecution, historyVars
  <2>2. pc'[w] = "refresh" /\ base'[w] = base[w]
    BY <1>1, <2>1 DEF RecordResult, Goto, TypeOK, WorkerTypeOK
  <2> QED BY <2>1, <2>2 DEF LateOK, Over, Unwritten, Written, Persisting, Overtaken, IsCancelled, Gone
<1>9. CASE PersistRefresh(w)
  <2>1. /\ late' = late /\ pc[w] = "refresh" /\ run' = run /\ pc'[w] = "save"
        /\ after'[w] = after[w] /\ base'[w] = base[w]
    BY <1>1, <1>9 DEF PersistRefresh, Goto, TypeOK, WorkerTypeOK, storeVars, historyVars
  <2> QED BY <2>1 DEF LateOK, Over, Unwritten, Written, Persisting, Overtaken, IsCancelled, Gone
<1>10. CASE PersistRebase(w)
  <2>1. late' = late /\ pc[w] = "rebase" /\ run' = run /\ after[w] \in Checkpoints
    BY <1>1, <1>10 DEF PersistRebase, storeVars, historyVars, WorkerRev, WritingOK, Persisting
  <2>2. CASE CancellationOnly(base[w], run)
    <3>1. IsCancelled(run) /\ pc'[w] = "refresh" /\ after'[w] = after[w]
      BY <1>1, <1>10, <2>2 DEF PersistRebase, CancellationOnly, Goto, TypeOK, WorkerTypeOK
    <3> QED BY <2>1, <3>1 DEF LateOK, Over, Unwritten, Written, Persisting, IsCancelled, Gone
  <2>3. CASE ~CancellationOnly(base[w], run)
    BY <1>1, <1>10, <2>1, <2>3, GoneLate, Proceeding DEF PersistRebase, Gone
  <2> QED BY <2>2, <2>3
<1>11. CASE PersistSave(w)
  <2>1. pc[w] = "save" /\ late'[w] \in {late[w], 0}
    BY <1>1, <1>11 DEF PersistSave, TypeOK, WorkerTypeOK
  <2>2. CASE ~RevisionMatches(st[w])
    <3>1. run' = run /\ late' = late
      BY <1>11, <2>2 DEF PersistSave
    <3>2. CASE Proceed(w, "rebase")
      <4>1. Keeps(w) /\ pc'[w] = "rebase"
        BY <1>1, <3>2, Proceeding
      <4> QED BY <2>1, <3>1, <4>1
        DEF LateOK, Over, Unwritten, Written, Persisting, Overtaken, IsCancelled, Gone, Keeps
    <3>3. CASE PersistError(w)
      <4>1. pc'[w] \in Gone
        BY <1>1, <3>3 DEF PersistError, Leave, Proceed, Goto, Gone, TypeOK, WorkerTypeOK
      <4> QED BY <3>1, <4>1, GoneLate
    <3> QED BY <1>11, <2>2, <3>2, <3>3 DEF PersistSave
  <2>3. CASE RevisionMatches(st[w]) /\ after[w] \notin Checkpoints
    <3>1. Leave(w, "release")
      BY <1>11, <2>3 DEF PersistSave
    <3> QED BY <1>1, <2>1, <3>1, GoneLate, Leaving DEF Gone
  <2>4. CASE RevisionMatches(st[w]) /\ after[w] \in Checkpoints
    <3>1. /\ Set(w, run') /\ base' = [base EXCEPT ![w] = run']
          /\ UNCHANGED after /\ SaveRun(st[w])
          /\ late' = IF after[w] = "finish" THEN [v \in Workers |-> 0] ELSE late
          /\ \E there \in AfterSave(w) : Goto(w, there)
      BY <1>11, <2>4 DEF PersistSave, Checkpoints
    <3> PICK there \in AfterSave(w) : Goto(w, there)
      BY <3>1
    <3>2. /\ Alone(w) /\ pc'[w] = there /\ after'[w] = after[w]
          /\ st'[w] = run' /\ base'[w] = run'
      BY <1>1, <3>1, Confirming
    <3>3. /\ st[w] \in Runs /\ run.rev \in Nat /\ st[w].rev = run.rev
          /\ \A u \in Workers : base[u].rev \in Nat
      BY <1>1, <2>4, StoredTypes, RunFields DEF RevisionMatches
    <3>4. run'.rev = run.rev + 1 /\ run'.turns = st[w].turns /\ run'.status = st[w].status
      BY <3>1, <3>3, SavedFields
    <3>5. Writing(w)
      BY <2>1, <2>4 DEF Writing, Persisting, Checkpoints
    <3>6. /\ base[w] = run
          /\ IsCancelled(run) /\ st[w].turns # run.turns => st[w].status \in {run.status, "failed"}
      BY <1>1, <3>3, <3>5 DEF WorkerRev, BasedOK, CancelOK
    <3>7. CASE after[w] = "finish"
      BY <3>1, <3>7 DEF LateOK
    <3>8. CASE after[w] \in {"step", "tools", "recovered"} /\ late[w] # 0
      <4>1. late[w] = 1 /\ IsCancelled(run)
        BY <2>1, <3>3, <3>6, <3>8 DEF LateOK, Over, Unwritten, Written, Overtaken, Gone, Persisting
      <4>2. st[w].turns # run.turns /\ st[w].status # "failed"
        BY <2>1, <3>6, <3>8 DEF WroteOK, Persisting
      <4>3. IsCancelled(run')
        BY <3>4, <3>6, <4>1, <4>2 DEF IsCancelled
      <4>4. ASSUME NEW u \in Workers \ {w} PROVE Behind(u, w)'
        <5>1. (Owns(u) \/ Writing(u))' <=> Owns(u) \/ Writing(u)
          BY <3>2 DEF Alone, Owns, Writing
        <5>2. Owns(u) \/ Writing(u) => base[u].rev <= run.rev /\ (base[u].rev = run.rev => base[u] = run)
          BY DEF RevInv, WorkerRev, BasedOK
        <5>3. base'[u] = base[u]
          BY <3>2 DEF Alone
        <5> QED BY <3>2, <3>3, <3>4, <4>2, <5>1, <5>2, <5>3 DEF Behind
      <4>5. CASE pc'[w] = "finish"
        BY <3>1, <4>1, <4>5 DEF LateOK, Over
      <4>6. CASE pc'[w] \in {"modelCheck", "assert"}
        <5>1. IsCancelled(run)'
          BY <4>3 DEF IsCancelled
        <5>2. Written(w)'
          BY <4>4, <4>6, <5>1 DEF Written
        <5> QED BY <3>1, <4>1, <5>2 DEF LateOK
      <4> QED BY <3>2, <4>5, <4>6 DEF AfterSave
    <3>9. CASE late[w] = 0 /\ after[w] # "finish"
      BY <3>1, <3>9 DEF LateOK
    <3> QED BY <2>4, <3>7, <3>8, <3>9 DEF Checkpoints
  <2> QED BY <2>2, <2>3, <2>4
<1> QED BY <1>3, <1>4, <1>5, <1>6, <1>7, <1>8, <1>9, <1>10, <1>11 DEF WorkerStep

----------------------------------------------------------------------------
(* The others *)

\* Invocation u does not catch up.
Trails(u) == Owns(u)' \/ Writing(u)' => base'[u] = base[u] /\ (Owns(u) \/ Writing(u))

\* Leaving catches up with nothing.
LEMMA GoneTrails == ASSUME NEW u \in Workers, pc'[u] \in Gone PROVE Trails(u)
BY DEF Trails, Gone, Owns, Writing, Persisting, ModelPCs, ToolPCs

\* Going on with what it knew catches up with nothing.
LEMMA KeptTrails ==
  ASSUME NEW u \in Workers, base'[u] = base[u], Owns(u) \/ Writing(u) PROVE Trails(u)
BY DEF Trails

\* While an invocation has written a late call, a step of another one leaves the
\* run as it is, unless it stores a failure and ends the cancellation.
LEMMA WrittenStays ==
  ASSUME IInv, RevInv, NEW v \in Workers, NEW u \in Workers \ {v}, Written(v),
         WorkerStep(u)
  PROVE  late'[v] = 0 \/ (run' = run /\ Trails(u))
<1>1. /\ WorkerRev(u) /\ WorkerRev(v) /\ TypeOK /\ StoredOK /\ st[u] \in Runs
      /\ run.rev \in Nat /\ base[u].rev \in Nat /\ base[v].rev \in Nat
  BY StoredTypes, RunFields DEF RevInv, IInv
<1>2. /\ Owns(v) /\ run.status # "absent" /\ base[v].rev <= run.rev /\ IsCancelled(run)
      /\ base[v].rev = run.rev => base[v] = run
      /\ Behind(u, v)
  BY <1>1 DEF Written, Owns, ModelPCs, WorkerRev, BasedOK
<1>3. Owns(u) \/ Writing(u) => base[u].rev # run.rev /\ ~CancellationOnly(base[u], run)
  BY <1>1, <1>2 DEF Behind, CancellationOnly
<1>4. CASE ResolveLoaded(u) \/ ResolveFresh(u) \/ ClaimIdempotencyKey(u)
  <2>1. run' = run /\ TakeLoaded(u) /\ after[u] = "step"
    BY <1>1, <1>2, <1>4
    DEF ResolveLoaded, ResolveFresh, ClaimIdempotencyKey, storeVars, WorkerRev, UnclaimedOK
  <2>2. pc'[u] \in {"acquire", "done"} /\ after'[u] = "step"
    BY <1>1, <2>1 DEF TakeLoaded, Leave, Goto, Purpose, TypeOK, WorkerTypeOK
  <2> QED BY <2>1, <2>2 DEF Trails, Owns, Writing, Persisting, ModelPCs, ToolPCs
<1>5. CASE AcquireExecutionLease(u)
  <2>1. run' = run /\ pc[u] = "acquire"
    BY <1>5 DEF AcquireExecutionLease
  <2>2. CASE LeaseAvailable(u)
    <3>1. /\ pc'[u] = IF after[u] = "fresh" THEN "ready" ELSE "claimSync"
          /\ base' = base
      BY <1>1, <1>5, <2>2 DEF AcquireExecutionLease, Goto, TypeOK, WorkerTypeOK
    <3> QED BY <2>1, <3>1 DEF Trails, Owns, Writing, Persisting, ModelPCs, ToolPCs
  <2>3. CASE ~LeaseAvailable(u)
    BY <1>1, <1>5, <2>1, <2>3, Leaving, GoneTrails DEF AcquireExecutionLease, Gone
  <2> QED BY <2>2, <2>3
<1>6. CASE ClaimSync(u) \/ ClaimResync(u)
  BY <1>1, <1>2, <1>6, Leaving, GoneTrails DEF ClaimSync, ClaimResync, LeaveClaim, storeVars, Gone
<1>7. CASE ClaimSave(u)
  <2> DEFINE r == [st[u] EXCEPT !.status = "running"]
  <2>1. ~RevisionMatches(r)
    <3>1. r.rev = st[u].rev
      BY <1>1, StatusFields
    <3>2. ~IsCancelled(st[u]) /\ (st[u].rev = run.rev => run \in {st[u], AbsentRun})
      BY <1>1, <1>7 DEF ClaimSave, WorkerRev, UnclaimedOK, Unclaimed
    <3>3. run \notin {st[u], AbsentRun}
      BY <1>2, <3>2 DEF AbsentRun
    <3> QED BY <3>1, <3>2, <3>3 DEF RevisionMatches
  <2>2. LeaveClaim(u) /\ run' = run
    BY <1>7, <2>1 DEF ClaimSave
  <2> QED BY <1>1, <2>2, Leaving, GoneTrails DEF LeaveClaim, Gone
<1>8. CASE \/ Ready(u) \/ BeforeModelStep(u) \/ ModelStep(u) \/ BeforeToolExecution(u)
           \/ ClaimToolExecution(u) \/ ClaimFails(u) \/ ExecuteTool(u)
           \/ CompleteToolExecution(u) \/ AssertNotCancelled(u) \/ Finish(u)
  <2>1. run' = run /\ Owns(u)
    BY <1>8
    DEF Ready, BeforeModelStep, ModelStep, BeforeToolExecution, ClaimToolExecution,
        ClaimFails, ExecuteTool, CompleteToolExecution, AssertNotCancelled, Finish, storeVars, Owns,
        ModelPCs, ToolPCs
  <2>2. CASE Leave(u, "release")
    BY <1>1, <2>1, <2>2, Leaving, GoneTrails DEF Gone
  <2>3. CASE base' = base
    BY <2>1, <2>3, KeptTrails
  <2> QED BY <1>8, <2>2, <2>3
    DEF Ready, BeforeModelStep, ModelStep, BeforeToolExecution, ClaimToolExecution,
        ClaimFails, ExecuteTool, CompleteToolExecution, AssertNotCancelled, Finish, Proceed, RecordResult
<1>9. CASE MonitorStops(u) \/ Interrupt(u) \/ FailSync(u) \/ Release(u) \/ UnknownToolExecution(u)
  <2>1. pc'[u] \in Gone
    BY <1>1, <1>9
    DEF MonitorStops, Interrupt, FailSync, Release, UnknownToolExecution, PersistError,
        LeaveClaim, Leave, Proceed, Goto, Gone, TypeOK, WorkerTypeOK
  <2>2. run' = run
    BY <1>9 DEF MonitorStops, Interrupt, FailSync, Release, UnknownToolExecution, storeVars
  <2> QED BY <2>1, <2>2, GoneTrails
<1>10. CASE FailLoad(u)
  <2>1. run' = run /\ pc'[u] = "refresh" /\ after'[u] = "failure"
    BY <1>1, <1>10 DEF FailLoad, storeVars, Goto, Purpose, TypeOK, WorkerTypeOK
  <2> QED BY <2>1 DEF Trails, Owns, Writing, Persisting, ModelPCs, ToolPCs
<1>11. CASE PersistRefresh(u)
  <2>1. /\ run' = run /\ pc[u] = "refresh" /\ pc'[u] = "save" /\ after' = after /\ base' = base
    BY <1>1, <1>11 DEF PersistRefresh, storeVars, Goto, TypeOK, WorkerTypeOK
  <2> QED BY <2>1 DEF Trails, Owns, Writing, Persisting, ModelPCs, ToolPCs
<1>12. CASE PersistRebase(u)
  <2>1. run' = run /\ pc[u] = "rebase" /\ after[u] \in Checkpoints
    BY <1>1, <1>12 DEF PersistRebase, storeVars, WorkerRev, WritingOK, Persisting
  <2>2. Proceed(u, "failSync")
    BY <1>3, <1>12, <2>1 DEF PersistRebase, Writing, Persisting, Checkpoints
  <2> QED BY <1>1, <2>1, <2>2, Proceeding, GoneTrails DEF Gone
<1>13. CASE PersistSave(u)
  <2>1. pc[u] = "save"
    BY <1>13 DEF PersistSave
  <2>2. CASE RevisionMatches(st[u]) /\ after[u] = "failure"
    BY <1>13, <2>2 DEF PersistSave
  <2>3. CASE RevisionMatches(st[u]) /\ after[u] # "failure"
    <3>1. Writing(u)
      BY <2>1, <2>3 DEF Writing, Persisting
    <3>2. st[u].rev = run.rev /\ st[u].rev = base[u].rev
      BY <1>1, <2>3, <3>1 DEF RevisionMatches, WorkerRev, BasedOK
    <3> QED BY <1>3, <3>1, <3>2
  <2>4. CASE ~RevisionMatches(st[u])
    <3>1. run' = run
      BY <1>13, <2>4 DEF PersistSave
    <3>2. CASE Proceed(u, "rebase") /\ after[u] \in Checkpoints
      <4>1. pc'[u] = "rebase" /\ after'[u] = after[u] /\ base'[u] = base[u] /\ Writing(u)
        BY <1>1, <2>1, <3>2, Proceeding DEF Keeps, Writing, Persisting, Checkpoints
      <4> QED BY <3>1, <4>1, KeptTrails
    <3>3. CASE PersistError(u)
      <4>1. pc'[u] \in Gone
        BY <1>1, <3>3 DEF PersistError, Leave, Proceed, Goto, Gone, TypeOK, WorkerTypeOK
      <4> QED BY <3>1, <4>1, GoneTrails
    <3> QED BY <1>13, <2>4, <3>1, <3>2, <3>3 DEF PersistSave
  <2> QED BY <2>2, <2>3, <2>4
<1> QED BY <1>4, <1>5, <1>6, <1>7, <1>8, <1>9, <1>10, <1>11, <1>12, <1>13 DEF WorkerStep

\* An invocation that does not move and has not written its late call.
LEMMA UnwrittenStays ==
  ASSUME IInv, RevInv, NEW v \in Workers, RunStep, LateOK(v), ~Written(v),
         pc'[v] = pc[v], after'[v] = after[v], base'[v] = base[v],
         late'[v] \in {late[v], 0}
  PROVE  LateOK(v)'
<1>1. WorkerRev(v) /\ run.rev \in Nat /\ base[v].rev \in Nat
  BY StoredTypes, RunFields DEF RevInv, IInv
<1>2. CASE late[v] = 0 \/ late'[v] = 0
  BY <1>2 DEF LateOK
<1>3. CASE late'[v] # 0 /\ Over(v)
  BY <1>3 DEF LateOK, Over
<1>4. CASE late'[v] # 0 /\ Unwritten(v) /\ ~Over(v)
  <2>1. /\ after[v] # "failure" \/ pc[v] = "toolDone"
        /\ Owns(v) \/ Writing(v)
    BY <1>4 DEF Over, Unwritten, Owns, Writing, ToolPCs
  <2>2. run.status # "absent" /\ base[v].rev <= run.rev
    BY <1>1, <2>1 DEF WorkerRev, BasedOK
  <2>3. (IsCancelled(run) \/ Overtaken(v))'
    <3>1. CASE run' = run
      BY <1>4, <3>1 DEF Unwritten, Overtaken, IsCancelled
    <3>2. CASE Advances
      <4>1. CASE IsCancelled(run')
        BY <4>1 DEF IsCancelled
      <4>2. CASE ~IsCancelled(run')
        BY <1>1, <2>2, <3>2, <4>2 DEF Advances, Overtaken, IsCancelled
      <4> QED BY <4>1, <4>2
    <3> QED BY <2>2, <3>1, <3>2 DEF RunStep
  <2> QED BY <1>4, <2>3 DEF LateOK, Unwritten
<1> QED BY <1>2, <1>3, <1>4 DEF LateOK

\* An invocation that does not move and has written its late call.
LEMMA WrittenKept ==
  ASSUME NEW v \in Workers, LateOK(v), Written(v), IsCancelled(run)',
         \A u \in Workers \ {v} : Trails(u),
         pc'[v] = pc[v], base'[v] = base[v], late'[v] = late[v]
  PROVE  LateOK(v)'
<1>1. ASSUME NEW u \in Workers \ {v} PROVE Behind(u, v)'
  BY <1>1 DEF Trails, Behind, Written
<1>2. Written(v)'
  BY <1>1 DEF Written
<1>3. late[v] # 0 => late[v] = 1
  BY DEF LateOK
<1> QED BY <1>2, <1>3 DEF LateOK

\* A step that moves no invocation leaves their places.
LEMMA UnmovedTrails == UNCHANGED workerVars => \A u \in Workers : Trails(u)
BY DEF workerVars, Trails, Owns, Writing

\* A reconciler writes over no cancellation.
LEMMA ReconSpares ==
  ASSUME IInv, RevInv, NEW r \in Reconcilers, ReconStep(r), IsCancelled(run)
  PROVE  run' = run
<1>1. CASE RSave(r)
  <2>1. ~RevisionMatches(rst[r])
    BY <1>1 DEF RSave, RevisionMatches, RevInv, ReconRev
  <2> QED BY <1>1, <2>1 DEF RSave
<1> QED BY <1>1
  DEF ReconStep, storeVars, RAcquire, RLoadState, RLoadEntry, RVerify, RCompleteRow, RProject,
      RRelease

\* What an invocation that does not move has called stays so.
LEMMA LateOthers ==
  ASSUME IInv, JInv, RevInv, NEW v \in Workers, WroteOK(v), LateOK(v), RunStep,
         pc'[v] = pc[v], after'[v] = after[v], st'[v] = st[v], base'[v] = base[v],
         late'[v] \in {late[v], 0},
         Written(v) => \/ late'[v] = 0
                       \/ IsCancelled(run)' /\ \A u \in Workers \ {v} : Trails(u)
  PROVE  WroteOK(v)' /\ LateOK(v)'
<1>1. WroteOK(v)'
  BY DEF WroteOK
<1>2. CASE late'[v] = 0
  BY <1>1, <1>2 DEF LateOK
<1>3. CASE late'[v] = late[v]
  BY <1>1, <1>3, <1>2, UnwrittenStays, WrittenKept
<1> QED BY <1>2, <1>3

\* Only the mover's counter grows, and a failure that is stored clears them all.
LEMMA LateCounters ==
  ASSUME TypeOK, NEW w \in Workers, WorkerStep(w), NEW v \in Workers \ {w}
  PROVE  late'[v] \in {late[v], 0}
<1>1. CASE ModelStep(w) \/ ExecuteTool(w)
  BY <1>1 DEF ModelStep, ExecuteTool, CountLate, TypeOK, WorkerTypeOK
<1>2. CASE PersistSave(w)
  BY <1>2 DEF PersistSave
<1> QED BY <1>1, <1>2
  DEF WorkerStep, historyVars, ResolveLoaded, ResolveFresh, ClaimIdempotencyKey,
      AcquireExecutionLease, ClaimSync, ClaimSave, ClaimResync, Ready, BeforeModelStep,
      BeforeToolExecution, ClaimToolExecution, ClaimFails, CompleteToolExecution,
      UnknownToolExecution, PersistRefresh, PersistRebase, AssertNotCancelled, Finish, MonitorStops, Interrupt,
      FailSync, FailLoad, Release

\* Every step keeps the count of late calls.
LEMMA LateNext == ASSUME IInv, JInv, RevInv, LateInv, [Next]_vars PROVE LateInv'
<1>1. RunStep /\ TypeOK
  BY RevNext DEF IInv
<1>2. ASSUME NEW w \in Workers, WorkerStep(w) PROVE LateInv'
  <2>1. WroteOK(w)' /\ LateOK(w)'
    BY <1>2, WroteStep, LateStep DEF LateInv
  <2>2. Alone(w)
    BY <1>2, WorkerFine DEF Fine
  <2>3. ASSUME NEW v \in Workers \ {w} PROVE WroteOK(v)' /\ LateOK(v)'
    <3>1. late'[v] \in {late[v], 0}
      BY <1>1, <1>2, LateCounters
    <3>2. Written(v) /\ late'[v] # 0 => run' = run /\ Trails(w)
      BY <1>2, WrittenStays
    <3>3. \A u \in Workers \ {w} : Trails(u)
      BY <2>2 DEF Alone, Trails, Owns, Writing
    <3>4. Written(v) => \/ late'[v] = 0
                        \/ IsCancelled(run)' /\ \A u \in Workers \ {v} : Trails(u)
      BY <3>2, <3>3 DEF Written, IsCancelled
    <3> QED BY <1>1, <2>2, <3>1, <3>4, LateOthers DEF Alone, LateInv
  <2> QED BY <2>1, <2>3 DEF LateInv
<1>3. ASSUME UNCHANGED workerVars, IsCancelled(run) => IsCancelled(run)' PROVE LateInv'
  <2> SUFFICES ASSUME NEW v \in Workers PROVE WroteOK(v)' /\ LateOK(v)'
    BY DEF LateInv
  <2>1. /\ pc'[v] = pc[v] /\ after'[v] = after[v] /\ st'[v] = st[v] /\ base'[v] = base[v]
        /\ late'[v] = late[v]
    BY <1>3 DEF workerVars
  <2>2. Written(v) => IsCancelled(run)' /\ \A u \in Workers \ {v} : Trails(u)
    BY <1>3, UnmovedTrails DEF Written
  <2> QED BY <1>1, <2>1, <2>2, LateOthers DEF LateInv
<1>4. ASSUME NEW r \in Reconcilers, ReconStep(r), UNCHANGED workerVars PROVE LateInv'
  BY <1>3, <1>4, ReconSpares DEF IsCancelled
<1>5. ASSUME NEW mode \in CancelModes, CancelAgentState(mode), UNCHANGED workerVars
      PROVE  LateInv'
  <2>1. IsCancelled(run)'
    <3>1. run \in Runs
      BY <1>1, StoreTypes
    <3>2. run'.status \in {"cancelled", "cancel_requested"}
      BY <1>5, <3>1 DEF CancelAgentState, SaveRun, Runs
    <3> QED BY <3>2 DEF IsCancelled
  <2> QED BY <1>3, <1>5, <2>1
<1>6. CASE ExpireLease /\ UNCHANGED workerVars
  BY <1>3, <1>6 DEF ExpireLease, IsCancelled
<1>7. CASE UNCHANGED vars
  BY <1>3, <1>7 DEF vars, storeVars, IsCancelled
<1> QED BY <1>2, <1>4, <1>5, <1>6, <1>7 DEF Next

\* An invocation that has made a call under a cancellation makes no other: its
\* write of the call fails or takes the cancellation over, its next check sees
\* it (assertAgentNotCancelled), and nobody else can have written in between.
THEOREM OneLateEffect == Spec => []AtMostOneLateEffect
<1>1. Init => LateInv
  BY DEF Init, WorkerInit, LateInv, WroteOK, LateOK, Persisting
<1>2. IInv /\ JInv /\ RevInv /\ LateInv /\ [Next]_vars => LateInv'
  BY LateNext
<1>3. LateInv => AtMostOneLateEffect
  BY DEF LateInv, LateOK, AtMostOneLateEffect
<1> QED BY <1>1, <1>2, <1>3, RevisionInvariance, PTL DEF Spec

----------------------------------------------------------------------------
(* Results and the journal *)

\* Every transcript that is stored or in the memory of somebody.
HeldTurns == {run.turns} \cup {st[w].turns : w \in Workers}
               \cup {rst[r].turns : r \in Reconcilers}

\* The result of a call is the one of its row in journal j, or the evidence of a
\* reconciled call of its operation or under its provider id, or an error of a
\* call that was claimed.  The error of a claim that failed says nothing.
Sound(res, id, j) ==
  /\ res \in Workers => j[id].status = "completed" /\ j[id].out = res
  /\ res = Evidence => \E d \in CallIds :
       j[d].recon /\ (Op(d) = Op(id) \/ ProviderId(d) = ProviderId(id))
  /\ res = ErrorResult => j[id].status # "absent"

Backed(T, i, j) == Sound(T[i].res, CallOf(T, i), j)

TurnsOK == \A T \in HeldTurns : \A i \in DOMAIN T : Backed(T, i, journal)

\* A checkpoint carries confirmed evidence only.
ReconOK ==
  /\ \A id \in run.recon : journal[id].recon
  /\ \A w \in Workers : \A id \in st[w].recon : journal[id].recon
  /\ \A r \in Reconcilers :
       /\ \A id \in rst[r].recon : journal[id].recon
       /\ rpc[r] \in {"project", "save"} \/ (rpc[r] = "verify" /\ rrow[r].recon)
            => journal[rid[r]].recon

\* A call whose tool has returned has a row.
DoneHeld == \A w \in Workers :
              pc[w] = "toolDone" => journal[Calling(w)].status # "absent"

ResInv == TurnsOK /\ ReconOK /\ DoneHeld

----------------------------------------------------------------------------
(* What a step does to the journal and to the transcripts *)

\* The operation and the provider id of a call.
LEMMA CallParts ==
  ASSUME NEW T, NEW i PROVE Op(CallOf(T, i)) = T[i].op /\ ProviderId(CallOf(T, i)) = T[i].pid
BY DEF CallOf, Op, ProviderId

\* Transcripts are sequences of turns, and their calls have durable ids.
LEMMA HeldType ==
  ASSUME TypeOK, NEW T \in HeldTurns
  PROVE  /\ T \in Transcripts /\ T \in Seq(Turns) /\ Len(T) \in Nat /\ DOMAIN T = 1..Len(T)
         /\ Len(T) <= MaxSteps
         /\ \A i \in DOMAIN T : /\ T[i] \in Turns
                                /\ T[i].op # Final => CallOf(T, i) \in CallIds
                                /\ T[i].op = Final => T[i].res = NoResult
<1>1. T \in Transcripts
  BY RunFields DEF HeldTurns, TypeOK, StoreTypeOK, WorkerTypeOK, ReconTypeOK
<1>2. T \in Seq(Turns) /\ Len(T) \in Nat /\ DOMAIN T = 1..Len(T) /\ Len(T) <= MaxSteps
  BY <1>1 DEF Transcripts
<1>3. ASSUME NEW i \in DOMAIN T
      PROVE  /\ T[i] \in Turns
             /\ T[i].op # Final => CallOf(T, i) \in CallIds
             /\ T[i].op = Final => T[i].res = NoResult
  <2>1. T[i] \in Turns /\ i \in 1..MaxSteps
    BY <1>2, StoreAssumption
  <2>2. T[i].op # Final => CallOf(T, i) \in CallIds
    BY <2>1, TurnType DEF CallOf, CallIds
  <2>3. T[i].op = Final => T[i].res = NoResult
    BY <2>1, TurnType DEF FinalTurn
  <2> QED BY <2>1, <2>2, <2>3
<1> QED BY <1>1, <1>2, <1>3

\* A turn whose call has no durable id has no result.
LEMMA HeldCall ==
  ASSUME TypeOK, NEW T \in HeldTurns, NEW i \in DOMAIN T
  PROVE  CallOf(T, i) \in CallIds \/ T[i].res = NoResult
<1>1. T \in Seq(Turns) /\ Len(T) \in Nat /\ DOMAIN T = 1..Len(T) /\ Len(T) <= MaxSteps
  BY HeldType
<1>2. T[i] \in Turns /\ i \in 1..MaxSteps
  BY <1>1, StoreAssumption
<1>3. CASE T[i].op # Final
  BY <1>2, <1>3, TurnType DEF CallOf, CallIds
<1>4. CASE T[i].op = Final
  BY <1>2, <1>4, TurnType DEF FinalTurn
<1> QED BY <1>3, <1>4

\* A row keeps its verdict and its evidence.
LEMMA JournalKeeps ==
  ASSUME IInv, JInv, [Next]_vars, NEW d \in CallIds
  PROVE  /\ journal[d].status \in {"completed", "failed"} => journal'[d] = journal[d]
         /\ journal[d].recon => journal'[d] = journal[d]
         /\ journal[d].status # "absent" => journal'[d].status # "absent"
         /\ journal'[d].status = "running" =>
              journal[d].status \in {"absent", "running"}
<1>1. journal[d].recon => journal[d].status \in {"completed", "failed"}
  BY DEF JInv, Answered
<1>2. CASE journal' = journal
  BY <1>2 DEF IInv, TypeOK, StoreTypeOK, Rows
<1>3. CASE journal' # journal
  <2>1. PICK id \in CallIds : Claims(id) \/ Decides(id)
    BY <1>3, JournalWrites
  <2>2. CASE d # id
    BY <1>1, <2>1, <2>2, WriteKeepsDecisions DEF IInv, TypeOK, StoreTypeOK, Rows
  <2>3. CASE d = id
    BY <1>1, <2>1, <2>3, WriteKeepsDecisions
  <2> QED BY <2>2, <2>3
<1> QED BY <1>2, <1>3

\* A result that is sound stays so.
LEMMA SoundStays ==
  ASSUME IInv, JInv, [Next]_vars, NEW id, NEW res, id \in CallIds \/ res = NoResult,
         Sound(res, id, journal)
  PROVE  Sound(res, id, journal')
<1>1. CASE res = NoResult
  BY <1>1, OutputAssumption DEF Sound, NoResult, Evidence, ErrorResult
<1>2. CASE id \in CallIds
  <2>1. res = Evidence => \E d \in CallIds :
          journal'[d].recon /\ (Op(d) = Op(id) \/ ProviderId(d) = ProviderId(id))
    BY JournalKeeps DEF Sound
  <2>2. res \in Workers => journal'[id].status = "completed" /\ journal'[id].out = res
    BY <1>2, JournalKeeps DEF Sound
  <2>3. res = ErrorResult => journal'[id].status # "absent"
    BY <1>2, JournalKeeps DEF Sound
  <2> QED BY <2>1, <2>2, <2>3 DEF Sound
<1> QED BY <1>1, <1>2

\* A row is made by the invocation that claims its last call.
LEMMA RowMade ==
  ASSUME IInv, JInv, [Next]_vars, NEW d \in CallIds,
         journal[d].status = "absent", journal'[d].status # "absent"
  PROVE  \E w \in Workers : /\ ClaimToolExecution(w) /\ pc[w] = "toolClaim"
                            /\ d = Calling(w)
<1>1. ~Decides(d) /\ journal' # journal
  BY DEF Decides
<1>2. PICK id \in CallIds : Claims(id) \/ Decides(id)
  BY <1>1, JournalWrites
<1>3. d = id
  BY <1>2, WriteKeepsDecisions
<1>4. ~\E r \in Reconcilers : ReconStep(r)
  <2> SUFFICES ASSUME NEW r \in Reconcilers, ReconStep(r) PROVE FALSE
    OBVIOUS
  <2>1. RCompleteRow(r)
    BY <1>1 DEF ReconStep, storeVars, RAcquire, RLoadState, RLoadEntry, RVerify, RProject,
       RSave, RRelease
  <2>2. /\ rid[r] \in CallIds /\ RowMatches(rid[r], rrow[r].rev)
        /\ CompleteRow(rid[r], rrow[r].rev, "completed", Evidence, TRUE)
    BY <1>1, <2>1 DEF RCompleteRow, IInv, RCalled
  <2>3. journal[rid[r]].status # "absent" /\ \A e \in CallIds \ {rid[r]} : journal'[e] = journal[e]
    BY <2>2 DEF RowMatches, CompleteRow, IInv, TypeOK, StoreTypeOK
  <2> QED BY <2>2, <2>3
<1>5. PICK w \in Workers : WorkerStep(w)
  BY <1>1, <1>4 DEF Next, vars, storeVars, CancelAgentState, ExpireLease
<1>6. ClaimToolExecution(w) \/ CompleteToolExecution(w)
  BY <1>1, <1>5
  DEF WorkerStep, storeVars, ResolveLoaded, ResolveFresh, ClaimIdempotencyKey,
      AcquireExecutionLease, ClaimSync, ClaimSave, ClaimResync, Ready, BeforeModelStep,
      ModelStep, BeforeToolExecution, ClaimFails, ExecuteTool, UnknownToolExecution,
      PersistRefresh, PersistSave, PersistRebase, AssertNotCancelled, Finish,
      MonitorStops, Interrupt, FailSync, FailLoad, Release
<1>7. Calling(w) \in CallIds
  BY <1>6, CallType DEF ClaimToolExecution, CompleteToolExecution, ToolPCs
<1>8. CASE ClaimToolExecution(w)
  <2>1. ClaimRow(Calling(w)) /\ pc[w] = "toolClaim"
    BY <1>1, <1>8 DEF ClaimToolExecution, Calling
  <2>2. \A e \in CallIds \ {Calling(w)} : journal'[e] = journal[e]
    BY <1>7, <2>1, ClaimRowType DEF IInv
  <2> QED BY <1>8, <2>1, <2>2
<1>9. CASE CompleteToolExecution(w)
  <2>1. PICK s, out : CompleteRow(Calling(w), 0, s, out, FALSE) /\ RowMatches(Calling(w), 0)
    BY <1>1, <1>9 DEF CompleteToolExecution, Calling
  <2>2. journal[Calling(w)].status # "absent"
    BY <2>1 DEF RowMatches
  <2>3. \A e \in CallIds \ {Calling(w)} : journal'[e] = journal[e]
    BY <2>1 DEF CompleteRow, IInv, TypeOK, StoreTypeOK
  <2> QED BY <2>2, <2>3
<1> QED BY <1>6, <1>8, <1>9

\* A step of an invocation stores and keeps transcripts and evidence there were,
\* but for the answer of the model and the result of a call.
LEMMA Origins ==
  ASSUME IInv, RevInv, NEW w \in Workers, WorkerStep(w)
  PROVE  /\ run'.turns \in {run.turns, st[w].turns} /\ run'.recon \in {run.recon, st[w].recon}
         /\ st'[w].recon \in {{}, run.recon, st[w].recon}
         /\ \/ st'[w].turns \in {<<>>, run.turns, st[w].turns}
            \/ ModelStep(w)
            \/ ClaimToolExecution(w) \/ ClaimFails(w) \/ CompleteToolExecution(w)
<1>1. /\ WorkerRev(w) /\ TypeOK /\ st \in [Workers -> Runs] /\ run \in Runs /\ st[w] \in Runs
      /\ AbsentRun.turns = <<>> /\ AbsentRun.recon = {}
      /\ BaseState.turns = <<>> /\ BaseState.recon = {}
  BY StoredTypes DEF RevInv, IInv, TypeOK, WorkerTypeOK, AbsentRun, BaseState
<1>2. ASSUME run' = run, Set(w, AbsentRun) \/ Set(w, run) \/ Set(w, BaseState) \/ st' = st
      PROVE  /\ run'.turns \in {run.turns, st[w].turns} /\ run'.recon \in {run.recon, st[w].recon}
             /\ st'[w].recon \in {{}, run.recon, st[w].recon}
             /\ st'[w].turns \in {<<>>, run.turns, st[w].turns}
  BY <1>1, <1>2 DEF Set
<1>3. CASE ResolveLoaded(w) \/ ResolveFresh(w)
  BY <1>2, <1>3 DEF ResolveLoaded, ResolveFresh, TakeLoaded, Leave, storeVars
<1>4. CASE ClaimIdempotencyKey(w)
  <2>1. CASE run.status = "absent"
    BY <1>4, <2>1 DEF ClaimIdempotencyKey, Proceed
  <2>2. CASE run.status # "absent"
    BY <1>2, <1>4, <2>2 DEF ClaimIdempotencyKey, TakeLoaded, Leave
  <2> QED BY <2>1, <2>2
<1>5. CASE AcquireExecutionLease(w) \/ ClaimSync(w) \/ ClaimResync(w)
  BY <1>2, <1>5 DEF AcquireExecutionLease, ClaimSync, ClaimResync, LeaveClaim, Leave, Proceed,
                    storeVars
<1>6. CASE ClaimSave(w)
  <2> DEFINE r == [st[w] EXCEPT !.status = "running"]
  <2>1. CASE RevisionMatches(r)
    <3>1. SaveRun(r) /\ Set(w, run')
      BY <1>6, <2>1 DEF ClaimSave
    <3>2. r \in Runs /\ r.turns = st[w].turns /\ r.recon = st[w].recon
      BY <1>1, StatusFields, StatusType DEF Statuses
    <3> HIDE DEF r
    <3>3. run'.turns = st[w].turns /\ run'.recon = st[w].recon
      BY <3>1, <3>2, SavedFields
    <3> QED BY <1>1, <3>1, <3>3 DEF Set
  <2>2. CASE ~RevisionMatches(r)
    BY <1>2, <1>6, <2>2 DEF ClaimSave, LeaveClaim, Leave
  <2> QED BY <2>1, <2>2
<1>7. CASE Ready(w)
  <2>1. CASE Exhausted(st[w])
    <3>1. run' = run /\ st'[w] = [st[w] EXCEPT !.status = "failed"]
      BY <1>1, <1>7, <2>1 DEF Ready, storeVars, Set
    <3> QED BY <1>1, <3>1, StatusFields
  <2>2. CASE ~Exhausted(st[w])
    <3>1. run' = run /\ st' = st
      BY <1>7, <2>2 DEF Ready, storeVars, Proceed
    <3> QED BY <1>2, <3>1
  <2> QED BY <2>1, <2>2
<1>8. CASE \/ BeforeModelStep(w) \/ BeforeToolExecution(w) \/ ExecuteTool(w)
           \/ UnknownToolExecution(w) \/ AssertNotCancelled(w)
  BY <1>2, <1>8
  DEF BeforeModelStep, BeforeToolExecution, ExecuteTool, UnknownToolExecution,
      AssertNotCancelled, Leave, Proceed, storeVars
<1>9. CASE ModelStep(w)
  <2>1. PICK turn \in NewTurns :
          Set(w, [st[w] EXCEPT !.turns = Append(@, turn),
                               !.status = IF turn = FinalTurn THEN "completed" ELSE "running"])
    BY <1>9 DEF ModelStep, NewTurns
  <2>2. st'[w].recon = st[w].recon /\ run' = run
    BY <1>1, <1>9, <2>1 DEF ModelStep, Set, Runs, storeVars
  <2> QED BY <1>9, <2>2
<1>10. CASE ClaimToolExecution(w) \/ ClaimFails(w) \/ CompleteToolExecution(w)
  <2>1. run' = run
    BY <1>10 DEF ClaimToolExecution, ClaimFails, CompleteToolExecution, storeVars
  <2>2. CASE Proceed(w, "toolRun")
    BY <1>2, <2>1, <2>2 DEF Proceed
  <2>3. ASSUME NEW res, RecordResult(w, res) PROVE st'[w].recon = st[w].recon
    BY <1>1, <2>3 DEF RecordResult, Set, Runs
  <2>4. Proceed(w, "toolRun") \/ \E res : RecordResult(w, res)
    BY <1>10 DEF ClaimToolExecution, ClaimFails, CompleteToolExecution
  <2> QED BY <1>10, <2>1, <2>2, <2>3, <2>4
<1>11. CASE PersistRefresh(w)
  <2>1. run' = run /\ st'[w] = Refreshed(st[w])
    BY <1>1, <1>11 DEF PersistRefresh, Set, storeVars
  <2> QED BY <1>1, <2>1, RefreshedFields
<1>12. CASE PersistSave(w)
  <2>1. CASE RevisionMatches(st[w])
    <3>1. run'.turns = st[w].turns /\ run'.recon = st[w].recon
      BY <1>1, <1>12, <2>1, SavedFields DEF PersistSave
    <3>2. Set(w, run') \/ Set(w, AbsentRun)
      BY <1>12, <2>1 DEF PersistSave, Leave
    <3> QED BY <1>1, <3>1, <3>2 DEF Set
  <2>2. CASE ~RevisionMatches(st[w])
    BY <1>2, <1>12, <2>2 DEF PersistSave, PersistError, Leave, Proceed
  <2> QED BY <2>1, <2>2
<1>13. CASE PersistRebase(w)
  <2>1. CASE CancellationOnly(base[w], run)
    <3>1. run' = run /\ st'[w] = [st[w] EXCEPT !.status = run.status, !.rev = run.rev]
      BY <1>1, <1>13, <2>1 DEF PersistRebase, Set, storeVars
    <3> QED BY <1>1, <3>1 DEF Runs
  <2>2. CASE ~CancellationOnly(base[w], run)
    BY <1>2, <1>13, <2>2 DEF PersistRebase, Proceed, storeVars
  <2> QED BY <2>1, <2>2
<1>14. CASE Finish(w)
  <2>1. run' = run /\ \E s : st'[w] = [st[w] EXCEPT !.status = s]
    BY <1>1, <1>14 DEF Finish, Set, storeVars
  <2> QED BY <1>1, <2>1, StatusFields
<1>15. CASE MonitorStops(w) \/ Interrupt(w) \/ FailSync(w) \/ Release(w)
  BY <1>2, <1>15
  DEF MonitorStops, Interrupt, FailSync, Release, PersistError, LeaveClaim, Leave, Proceed,
      storeVars
<1>16. CASE FailLoad(w)
  <2>1. /\ run' = run
        /\ \/ st'[w] = [OverlaidOn(st[w], run) EXCEPT !.rev = run.rev, !.status = "failed"]
           \/ st'[w] = [run EXCEPT !.rev = run.rev, !.status = "failed"]
    BY <1>1, <1>16 DEF FailLoad, Set, storeVars
  <2>2. /\ OverlaidOn(st[w], run) \in Runs /\ OverlaidOn(st[w], run).turns = st[w].turns
        /\ OverlaidOn(st[w], run).recon \in {run.recon, st[w].recon}
    BY <1>1 DEF OverlaidOn, Runs
  <2>3. ASSUME NEW q \in Runs
        PROVE  LET f == [q EXCEPT !.rev = run.rev, !.status = "failed"]
               IN f.turns = q.turns /\ f.recon = q.recon
    BY DEF Runs
  <2> QED BY <1>1, <2>1, <2>2, <2>3
<1> QED BY <1>3, <1>4, <1>5, <1>6, <1>7, <1>8, <1>9, <1>10, <1>11, <1>12, <1>13, <1>14,
           <1>15, <1>16 DEF WorkerStep

\* U is T, but for results that its calls have got from the journal.
Derived(U, T) ==
  /\ Len(U) = Len(T)
  /\ \A i \in 1..Len(T) : /\ U[i].pid = T[i].pid /\ U[i].op = T[i].op
                          /\ \/ U[i].res = T[i].res
                             \/ U[i].res # NoResult /\ Backed(U, i, journal')

\* U is the transcript of an invocation with the answer it has just got.
Extended(U, w) == /\ ModelStep(w) /\ U = st'[w].turns
                  /\ \E turn \in NewTurns : U = Append(st[w].turns, turn)

\* A transcript is derived from itself.
LEMMA DerivedItself == ASSUME NEW T PROVE Derived(T, T)
BY DEF Derived

\* A result that is recorded for a call is backed by the journal.
LEMMA RecordDerived ==
  ASSUME TypeOK, NEW w \in Workers, NEW res \in Results, EndsWithCall(st[w]),
         RecordResult(w, res), res # NoResult, Sound(res, Calling(w), journal')
  PROVE  Derived(st'[w].turns, st[w].turns)
<1> DEFINE t == st[w].turns
           n == Len(t)
           u == [t EXCEPT ![n].res = res]
<1>1. /\ n \in 1..n /\ st'[w].turns = u /\ Len(u) = n
      /\ u[n].op = t[n].op /\ u[n].pid = t[n].pid /\ u[n].res = res
      /\ \A i \in 1..n : i # n => u[i] = t[i]
  BY Recorded
<1> HIDE DEF u
<1>2. Backed(u, n, journal')
  BY <1>1 DEF Backed, Calling, LastCall, CallOf
<1> QED BY <1>1, <1>2 DEF Derived

\* The result of a call, taken from the evidence, from the journal or from the
\* tool, or the error of its claim, is backed.
LEMMA ResultBacked ==
  ASSUME IInv, JInv, ResInv, NEW w \in Workers,
         ClaimToolExecution(w) \/ ClaimFails(w) \/ CompleteToolExecution(w)
  PROVE  Derived(st'[w].turns, st[w].turns)
<1> DEFINE id == Calling(w)
<1>1. /\ TypeOK /\ EndsWithCall(st[w]) /\ id \in CallIds
      /\ journal \in [CallIds -> Rows] /\ id = LastCall(st[w])
  BY CallType DEF IInv, ClaimToolExecution, ClaimFails, CompleteToolExecution, ToolPCs,
                  TypeOK, StoreTypeOK, Calling
<1>2. /\ {Evidence, ErrorResult, ClaimError} \subseteq Results \ {NoResult}
      /\ Evidence # ErrorResult /\ Evidence # ClaimError /\ ErrorResult # ClaimError
      /\ {Evidence, ErrorResult, ClaimError, NoResult} \cap Workers = {}
      /\ Workers \subseteq Results
  BY OutputAssumption DEF Evidence, NoResult, ErrorResult, ClaimError, Results, Outputs
<1>3. ASSUME NEW res \in Results \ {NoResult}, RecordResult(w, res), Sound(res, id, journal')
      PROVE  Derived(st'[w].turns, st[w].turns)
  BY <1>1, <1>3, RecordDerived
<1>4. CASE ClaimToolExecution(w)
  <2>1. CASE Proceed(w, "toolRun")
    BY <2>1, DerivedItself DEF Proceed
  <2>2. CASE Op(id) \in Confirmed(st[w]) /\ RecordResult(w, Evidence) /\ journal' = journal
    <3>1. PICK d \in st[w].recon : Op(d) = Op(id)
      BY <2>2 DEF Confirmed
    <3>2. d \in CallIds /\ journal[d].recon
      BY <1>1, StoredTypes, RunFields DEF ResInv, ReconOK
    <3>3. Sound(Evidence, id, journal')
      BY <1>2, <2>2, <3>1, <3>2 DEF Sound
    <3> QED BY <1>2, <1>3, <2>2, <3>3
  <2>3. CASE journal' = journal /\ ~Claimable(id) /\ RecordResult(w, JournalResult(id))
    <3>1. JournalResult(id) \in Results \ {NoResult}
      BY <1>1, JournalAnswers, JournalResultType
    <3>2. Sound(JournalResult(id), id, journal)
      <4>1. CASE journal[id].status = "completed"
        <5>1. /\ JournalResult(id) = journal[id].out
              /\ \/ journal[id].out \in Workers
                 \/ journal[id].out = Evidence /\ journal[id].recon
          BY <1>1, <4>1 DEF JournalResult, JInv, Answered, Verdict
        <5> QED BY <1>1, <1>2, <4>1, <5>1 DEF Sound
      <4>2. CASE journal[id].status # "completed"
        BY <1>1, <1>2, <2>3, <4>2 DEF JournalResult, Claimable, Sound
      <4> QED BY <4>1, <4>2
    <3> QED BY <1>3, <2>3, <3>1, <3>2
  <2> QED BY <1>1, <1>4, <2>1, <2>2, <2>3 DEF ClaimToolExecution
<1>5. CASE ClaimFails(w)
  <2>1. journal' = journal
    BY <1>5 DEF ClaimFails, storeVars
  <2>2. CASE Claimable(id)
    <3>1. Sound(ClaimError, id, journal')
      BY <1>2 DEF Sound
    <3> QED BY <1>1, <1>2, <1>3, <1>5, <2>2, <3>1 DEF ClaimFails
  <2>3. CASE ~Claimable(id)
    <3>1. Sound(ErrorResult, id, journal')
      BY <1>1, <1>2, <2>1, <2>3 DEF Claimable, Sound
    <3> QED BY <1>1, <1>2, <1>3, <1>5, <2>3, <3>1 DEF ClaimFails
  <2> QED BY <2>2, <2>3
<1>6. CASE CompleteToolExecution(w)
  <2>1. pc[w] = "toolDone" /\ journal[id].status # "absent"
    BY <1>6 DEF CompleteToolExecution, ResInv, DoneHeld
  <2>2. CASE \E outcome \in ToolOutcomes :
               LET out == IF outcome = "completed" THEN w ELSE ErrorResult
               IN /\ CompleteRow(id, 0, outcome, out, FALSE)
                  /\ RecordResult(w, out)
    <3>1. PICK outcome \in ToolOutcomes :
               LET out == IF outcome = "completed" THEN w ELSE ErrorResult
               IN /\ CompleteRow(id, 0, outcome, out, FALSE)
                  /\ RecordResult(w, out)
      BY <2>2
    <3> DEFINE out == IF outcome = "completed" THEN w ELSE ErrorResult
    <3>2. outcome \in {"completed", "failed"} /\ RecordResult(w, out)
      BY <3>1 DEF ToolOutcomes
    <3>3. journal'[id].status = outcome /\ journal'[id].out = out
      BY <1>1, <3>1 DEF CompleteRow
    <3>4. Sound(out, id, journal') /\ out \in Results \ {NoResult}
      BY <1>2, <3>2, <3>3 DEF Sound
    <3> HIDE DEF out
    <3> QED BY <1>3, <3>2, <3>4
  <2>3. CASE RecordResult(w, ErrorResult) /\ journal' = journal
    <3>1. Sound(ErrorResult, id, journal')
      BY <1>2, <2>1, <2>3 DEF Sound
    <3> QED BY <1>2, <1>3, <2>3, <3>1
  <2> QED BY <1>1, <1>6, <2>2, <2>3 DEF CompleteToolExecution
<1> QED BY <1>4, <1>5, <1>6

\* The evidence laid over a transcript is backed by the row it is about.
LEMMA EvidenceDerived ==
  ASSUME IInv, JInv, ResInv, NEW r \in Reconcilers, RProject(r)
  PROVE  Derived(rst'[r].turns, rst[r].turns)
<1> DEFINE t == rst[r].turns
           u == WithEvidence(t, ProviderId(rid[r]))
           q == Requeued(rst[r], rid[r])
<1>1. /\ rst[r] \in Runs /\ t \in Seq(Turns) /\ rid[r] \in CallIds
      /\ rst \in [Reconcilers -> Runs] /\ DOMAIN t = 1..Len(t) /\ Len(t) \in Nat
      /\ t \in Transcripts /\ ProviderId(rid[r]) \in ProviderIds
  BY RunFields, ProviderIdType DEF IInv, TypeOK, ReconTypeOK, RCalled, RProject
<1>2. journal[rid[r]].recon /\ journal' = journal
  BY DEF RProject, ResInv, ReconOK, storeVars
<1>3. rst'[r].turns = u
  <2>1. rst'[r] = Refreshed(q)
    BY <1>1 DEF RProject
  <2>2. q.turns = u
    BY <1>1 DEF Requeued, Runs
  <2>3. Refreshed(q).turns = u
    <3>1. DOMAIN q = DOMAIN rst[r]
      BY DEF Requeued
    <3> QED BY <1>1, <2>2, <3>1 DEF Refreshed, Runs
  <2> QED BY <2>1, <2>3
<1>4. u = [i \in 1..Len(t) |-> IF t[i].pid = ProviderId(rid[r]) /\ t[i].res # NoResult
                               THEN [t[i] EXCEPT !.res = Evidence] ELSE t[i]]
  BY <1>1 DEF WithEvidence
<1>5. Len(u) = Len(t)
  BY <1>1, WithEvidenceType
<1>6. ASSUME NEW i \in 1..Len(t)
      PROVE  /\ u[i].pid = t[i].pid /\ u[i].op = t[i].op
             /\ \/ u[i].res = t[i].res
                \/ u[i].res # NoResult /\ Backed(u, i, journal')
  <2>1. t[i] \in Turns
    BY <1>1
  <2>2. CASE t[i].pid = ProviderId(rid[r]) /\ t[i].res # NoResult
    <3>1. u[i] = [t[i] EXCEPT !.res = Evidence]
      BY <1>4, <2>2
    <3>2. u[i].pid = t[i].pid /\ u[i].op = t[i].op /\ u[i].res = Evidence
      BY <2>1, <3>1 DEF Turns, FinalTurn
    <3> HIDE DEF u
    <3>3. ProviderId(CallOf(u, i)) = ProviderId(rid[r])
      BY <2>2, <3>2, CallParts
    <3>4. Sound(Evidence, CallOf(u, i), journal)
      BY <1>1, <1>2, <3>3, OutputAssumption DEF Sound, Evidence, ErrorResult
    <3> QED BY <1>2, <3>2, <3>4 DEF Backed, Evidence, NoResult
  <2>3. CASE ~(t[i].pid = ProviderId(rid[r]) /\ t[i].res # NoResult)
    BY <1>4, <2>3
  <2> QED BY <2>2, <2>3
<1> HIDE DEF u
<1> QED BY <1>3, <1>5, <1>6 DEF Derived

\* What a reconciler does to its checkpoint.
LEMMA ReconOrigins ==
  ASSUME IInv, NEW r \in Reconcilers, ReconStep(r)
  PROVE  /\ run'.turns \in {run.turns, rst[r].turns} /\ run'.recon \in {run.recon, rst[r].recon}
         /\ \/ RProject(r)
            \/ /\ rst'[r].turns \in {<<>>, run.turns, rst[r].turns}
               /\ rst'[r].recon \in {{}, run.recon, rst[r].recon}
         /\ \A v \in Reconcilers \ {r} : /\ rpc'[v] = rpc[v] /\ rst'[v] = rst[v]
                                         /\ rid'[v] = rid[v] /\ rrow'[v] = rrow[v]
<1>1. /\ rpc \in [Reconcilers -> RPCs] /\ rst \in [Reconcilers -> Runs]
      /\ rst[r] \in Runs /\ AbsentRun.turns = <<>> /\ AbsentRun.recon = {}
  BY DEF IInv, TypeOK, ReconTypeOK, AbsentRun
<1>2. \A v \in Reconcilers \ {r} : /\ rpc'[v] = rpc[v] /\ rst'[v] = rst[v]
                                    /\ rid'[v] = rid[v] /\ rrow'[v] = rrow[v]
  BY <1>1
  DEF ReconStep, RAcquire, RLoadState, RLoadEntry, RVerify, RCompleteRow, RProject, RSave,
      RRelease, RLeave, RProceed, RGoto, IInv, TypeOK, ReconTypeOK
<1>3. /\ run'.turns \in {run.turns, rst[r].turns} /\ run'.recon \in {run.recon, rst[r].recon}
  <2>1. CASE SaveRun(rst[r])
    BY <1>1, <2>1, SavedFields
  <2>2. CASE run' = run
    BY <2>2
  <2> QED BY <2>1, <2>2
    DEF ReconStep, storeVars, RAcquire, RLoadState, RLoadEntry, RVerify, RCompleteRow, RProject,
        RSave, RRelease
<1>4. CASE RLeave(r, "release")
  BY <1>1, <1>2, <1>3, <1>4 DEF RLeave
<1>5. CASE rst' = rst
  BY <1>2, <1>3, <1>5
<1>6. CASE rst' = [rst EXCEPT ![r] = run]
  BY <1>1, <1>2, <1>3, <1>6
<1>7. CASE RProject(r)
  BY <1>2, <1>3, <1>7
<1> QED BY <1>4, <1>5, <1>6, <1>7
  DEF ReconStep, RAcquire, RLoadState, RLoadEntry, RVerify, RCompleteRow, RSave, RRelease,
      RProceed

\* Where the transcripts after a step come from.
LEMMA Evolves ==
  ASSUME IInv, JInv, RevInv, ResInv, [Next]_vars, NEW U \in HeldTurns'
  PROVE  \/ U = <<>>
         \/ \E T \in HeldTurns : Derived(U, T)
         \/ \E w \in Workers : Extended(U, w)
<1>1. /\ run.turns \in HeldTurns
      /\ \A w \in Workers : st[w].turns \in HeldTurns
      /\ \A r \in Reconcilers : rst[r].turns \in HeldTurns
  BY DEF HeldTurns
<1>2. \/ U = run'.turns \/ \E w \in Workers : U = st'[w].turns
      \/ \E r \in Reconcilers : U = rst'[r].turns
  BY DEF HeldTurns
<1>3. ASSUME U \in HeldTurns \cup {<<>>}
      PROVE  U = <<>> \/ \E T \in HeldTurns : Derived(U, T)
  BY <1>3, DerivedItself
<1>4. ASSUME NEW w \in Workers, WorkerStep(w), UNCHANGED reconVars
      PROVE  \/ U = <<>>
             \/ \E T \in HeldTurns : Derived(U, T)
             \/ Extended(U, w)
  <2>1. Alone(w)
    BY <1>4, WorkerFine DEF Fine
  <2>2. CASE U # st'[w].turns
    <3>1. U \in HeldTurns
      BY <1>1, <1>2, <1>4, <2>1, <2>2, Origins DEF Alone, reconVars
    <3> QED BY <1>3, <3>1
  <2>3. CASE U = st'[w].turns /\ st'[w].turns \in {<<>>, run.turns, st[w].turns}
    BY <1>1, <1>3, <2>3
  <2>4. CASE /\ U = st'[w].turns
             /\ ClaimToolExecution(w) \/ ClaimFails(w) \/ CompleteToolExecution(w)
    BY <1>1, <2>4, ResultBacked
  <2>5. CASE U = st'[w].turns /\ ModelStep(w)
    <3>1. st[w] \in Runs /\ st \in [Workers -> Runs]
      BY DEF IInv, TypeOK, WorkerTypeOK
    <3>2. PICK turn \in NewTurns :
            Set(w, [st[w] EXCEPT !.turns = Append(@, turn),
                                 !.status = IF turn = FinalTurn THEN "completed"
                                            ELSE "running"])
      BY <2>5 DEF ModelStep, NewTurns
    <3>3. st'[w].turns = Append(st[w].turns, turn)
      BY <3>1, <3>2 DEF Set, Runs
    <3> QED BY <2>5, <3>3 DEF Extended
  <2> QED BY <1>4, <2>2, <2>3, <2>4, <2>5, Origins
<1>5. ASSUME NEW r \in Reconcilers, ReconStep(r), UNCHANGED workerVars
      PROVE  U = <<>> \/ \E T \in HeldTurns : Derived(U, T)
  <2>1. CASE U # rst'[r].turns
    <3>1. U \in HeldTurns
      BY <1>1, <1>2, <1>5, <2>1, ReconOrigins DEF workerVars
    <3> QED BY <1>3, <3>1
  <2>2. CASE U = rst'[r].turns /\ RProject(r)
    BY <1>1, <2>2, EvidenceDerived
  <2>3. CASE U = rst'[r].turns /\ rst'[r].turns \in {<<>>, run.turns, rst[r].turns}
    BY <1>1, <1>3, <2>3
  <2> QED BY <1>5, <2>1, <2>2, <2>3, ReconOrigins
<1>6. ASSUME UNCHANGED <<workerVars, reconVars>>, run'.turns = run.turns
      PROVE  U = <<>> \/ \E T \in HeldTurns : Derived(U, T)
  BY <1>1, <1>2, <1>3, <1>6 DEF workerVars, reconVars
<1>7. ASSUME NEW mode \in CancelModes, CancelAgentState(mode) PROVE run'.turns = run.turns
  BY <1>7 DEF CancelAgentState, SaveRun, IInv, TypeOK, StoreTypeOK, Runs
<1> QED BY <1>4, <1>5, <1>6, <1>7 DEF Next, vars, storeVars, workerVars, reconVars, ExpireLease

----------------------------------------------------------------------------
(* The evidence invariant *)

\* The results of the transcripts stay backed.
LEMMA NextTurnsOK == IInv /\ JInv /\ RevInv /\ ResInv /\ [Next]_vars => TurnsOK'
<1> SUFFICES ASSUME IInv, JInv, RevInv, ResInv, [Next]_vars,
                    NEW U \in HeldTurns', NEW i \in DOMAIN U
             PROVE  Backed(U, i, journal')
  BY DEF TurnsOK, Backed, Sound
<1>1. TypeOK /\ TypeOK'
  BY NextIInv DEF IInv
<1>2. U \in Seq(Turns) /\ Len(U) \in Nat /\ DOMAIN U = 1..Len(U)
  <2>1. U \in Seq(Turns)
    BY <1>1, RunFields DEF HeldTurns, TypeOK, StoreTypeOK, WorkerTypeOK, ReconTypeOK
  <2> QED BY <2>1
<1>3. ASSUME NEW T \in HeldTurns, i \in DOMAIN T, CallOf(U, i) = CallOf(T, i),
             U[i].res = T[i].res
      PROVE  Backed(U, i, journal')
  <2>1. CallOf(T, i) \in CallIds \/ T[i].res = NoResult
    BY <1>1, <1>3, HeldCall
  <2>2. Sound(T[i].res, CallOf(T, i), journal)
    BY <1>3 DEF ResInv, TurnsOK, Backed
  <2>3. Sound(T[i].res, CallOf(T, i), journal')
    BY <2>1, <2>2, SoundStays
  <2> QED BY <1>3, <2>3 DEF Backed
<1>4. ASSUME NEW T \in HeldTurns, Derived(U, T) PROVE Backed(U, i, journal')
  <2>1. i \in 1..Len(T) /\ DOMAIN T = 1..Len(T)
    BY <1>1, <1>2, <1>4, HeldType DEF Derived
  <2>2. CallOf(U, i) = CallOf(T, i)
    BY <1>4, <2>1 DEF Derived, CallOf
  <2>3. U[i].res = T[i].res \/ Backed(U, i, journal')
    BY <1>4, <2>1 DEF Derived
  <2> QED BY <1>3, <2>1, <2>2, <2>3
<1>5. ASSUME NEW w \in Workers, Extended(U, w) PROVE Backed(U, i, journal')
  <2> DEFINE T == st[w].turns
  <2>1. /\ T \in HeldTurns /\ T \in Seq(Turns) /\ Len(T) \in Nat /\ DOMAIN T = 1..Len(T)
    BY <1>1, HeldType DEF HeldTurns
  <2>2. PICK turn \in NewTurns : U = Append(T, turn)
    BY <1>5 DEF Extended
  <2>3. turn.res = NoResult
    BY DEF NewTurns, FinalTurn
  <2> HIDE DEF T
  <2>4. Len(U) = Len(T) + 1 /\ U[Len(T) + 1] = turn /\ \A j \in 1..Len(T) : U[j] = T[j]
    BY <2>1, <2>2
  <2>5. CASE i \in 1..Len(T)
    BY <1>3, <2>1, <2>4, <2>5 DEF CallOf
  <2>6. CASE i = Len(T) + 1
    BY <2>3, <2>4, <2>6, OutputAssumption DEF Backed, Sound, NoResult, Evidence, ErrorResult
  <2> QED BY <1>2, <2>1, <2>4, <2>5, <2>6
<1>6. CASE U = <<>>
  BY <1>2, <1>6
<1> QED BY <1>4, <1>5, <1>6, Evolves

\* Checkpoints go on carrying confirmed evidence only.
LEMMA NextReconOK == IInv /\ JInv /\ RevInv /\ ResInv /\ [Next]_vars => ReconOK'
<1> SUFFICES ASSUME IInv, JInv, RevInv, ResInv, [Next]_vars PROVE ReconOK'
  OBVIOUS
<1>1. TypeOK /\ ReconOK
  BY DEF IInv, ResInv
<1>2. \A d \in CallIds : journal[d].recon => journal'[d].recon
  BY JournalKeeps
<1> DEFINE Held(c) == \A id \in c : journal[id].recon
           Kept(c) == \A id \in c : journal'[id].recon
<1>3. ASSUME NEW c \in SUBSET CallIds, Held(c) PROVE Kept(c)
  BY <1>2, <1>3
<1>4. /\ run.recon \in SUBSET CallIds /\ Held(run.recon)
      /\ \A w \in Workers : st[w].recon \in SUBSET CallIds /\ Held(st[w].recon)
      /\ \A r \in Reconcilers : rst[r].recon \in SUBSET CallIds /\ Held(rst[r].recon)
  BY <1>1, RunFields DEF TypeOK, StoreTypeOK, WorkerTypeOK, ReconTypeOK, ReconOK
<1>5. /\ Kept(run.recon) /\ \A w \in Workers : Kept(st[w].recon)
      /\ \A r \in Reconcilers : Kept(rst[r].recon)
  BY <1>3, <1>4
<1> HIDE DEF Held
<1>6. ASSUME NEW r \in Reconcilers, rpc'[r] = rpc[r], rrow'[r] = rrow[r], rid'[r] = rid[r],
             rpc[r] \in {"project", "save"} \/ (rpc[r] = "verify" /\ rrow[r].recon)
      PROVE  journal'[rid'[r]].recon
  <2>1. rid[r] \in CallIds /\ journal[rid[r]].recon
    BY <1>1, <1>6 DEF IInv, RCalled, ReconOK
  <2> QED BY <1>2, <1>6, <2>1
<1>7. ASSUME NEW w \in Workers, WorkerStep(w), UNCHANGED reconVars PROVE ReconOK'
  <2>1. Alone(w)
    BY <1>7, WorkerFine DEF Fine
  <2>2. Kept(run'.recon) /\ Kept(st'[w].recon)
    BY <1>5, <1>7, Origins
  <2>3. \A v \in Workers : Kept(st'[v].recon)
    BY <1>5, <2>1, <2>2 DEF Alone
  <2> QED BY <1>5, <1>6, <1>7, <2>2, <2>3 DEF ReconOK, reconVars
<1>8. ASSUME NEW r \in Reconcilers, ReconStep(r), UNCHANGED workerVars PROVE ReconOK'
  <2>1. /\ rpc \in [Reconcilers -> RPCs] /\ rst \in [Reconcilers -> Runs]
        /\ rid \in [Reconcilers -> CallIds \cup {NoCall}] /\ rrow \in [Reconcilers -> Rows]
        /\ rst[r] \in Runs
    BY <1>1 DEF TypeOK, ReconTypeOK
  <2>2. Kept(run'.recon)
    BY <1>5, <1>8, ReconOrigins
  <2>3. \A v \in Workers : Kept(st'[v].recon)
    BY <1>5, <1>8 DEF workerVars
  <2>4. Kept(rst'[r].recon)
    <3>1. CASE RProject(r)
      <4>1. rst'[r].recon = rst[r].recon \cup {rid[r]}
        <5> DEFINE q == Requeued(rst[r], rid[r])
        <5>1. rst'[r] = Refreshed(q)
          BY <2>1, <3>1 DEF RProject
        <5>2. q.recon = rst[r].recon \cup {rid[r]} /\ DOMAIN q = DOMAIN rst[r]
          BY <2>1 DEF Requeued, Runs
        <5>3. Refreshed(q).recon = q.recon
          BY <2>1, <5>2 DEF Refreshed, Runs
        <5> QED BY <5>1, <5>2, <5>3
      <4>2. rid[r] \in CallIds /\ journal[rid[r]].recon
        BY <1>1, <3>1 DEF RProject, IInv, RCalled, ReconOK
      <4> QED BY <1>2, <1>5, <4>1, <4>2
    <3>2. CASE ~RProject(r)
      BY <1>5, <1>8, <3>2, ReconOrigins
    <3> QED BY <3>1, <3>2
  <2>5. ASSUME rpc'[r] \in {"project", "save"} \/ (rpc'[r] = "verify" /\ rrow'[r].recon)
        PROVE  journal'[rid'[r]].recon
    <3>1. CASE RLoadEntry(r)
      <4>1. PICK id \in CallIds : rrow'[r] = journal[id] /\ rid'[r] = id /\ rpc'[r] = "verify"
        BY <2>1, <2>5, <3>1 DEF RLoadEntry, RLeave, RGoto
      <4> QED BY <1>2, <2>5, <4>1
    <3>2. CASE RVerify(r)
      <4>1. rpc[r] = "verify" /\ rrow[r].recon /\ rid'[r] = rid[r]
        BY <2>1, <2>5, <3>2 DEF RVerify, RLeave, RProceed, RGoto
      <4>2. rid[r] \in CallIds /\ journal[rid[r]].recon
        BY <1>1, <4>1 DEF IInv, RCalled, ReconOK
      <4> QED BY <1>2, <4>1, <4>2
    <3>3. CASE RCompleteRow(r)
      <4>1. /\ rpc[r] = "journal" /\ rid' = rid
            /\ CompleteRow(rid[r], rrow[r].rev, "completed", Evidence, TRUE)
        BY <2>1, <2>5, <3>3 DEF RCompleteRow, RLeave, RProceed, RGoto
      <4>2. rid[r] \in CallIds /\ journal \in [CallIds -> Rows]
        BY <1>1, <4>1 DEF IInv, RCalled, TypeOK, StoreTypeOK
      <4> QED BY <4>1, <4>2 DEF CompleteRow
    <3>4. CASE RProject(r)
      <4>1. rid[r] \in CallIds /\ journal[rid[r]].recon /\ rid' = rid
        BY <1>1, <3>4 DEF RProject, IInv, RCalled, ReconOK
      <4> QED BY <1>2, <4>1
    <3>5. CASE RAcquire(r) \/ RLoadState(r) \/ RSave(r) \/ RRelease(r)
      BY <2>1, <2>5, <3>5 DEF RAcquire, RLoadState, RSave, RRelease, RLeave, RProceed, RGoto
    <3> QED BY <1>8, <3>1, <3>2, <3>3, <3>4, <3>5 DEF ReconStep
  <2>6. \A v \in Reconcilers : Kept(rst'[v].recon)
    BY <1>5, <1>8, <2>4, ReconOrigins
  <2>7. ASSUME NEW v \in Reconcilers,
               rpc'[v] \in {"project", "save"} \/ (rpc'[v] = "verify" /\ rrow'[v].recon)
        PROVE  journal'[rid'[v]].recon
    <3>1. CASE v = r
      BY <2>5, <2>7, <3>1
    <3>2. CASE v # r
      <4>1. rpc'[v] = rpc[v] /\ rrow'[v] = rrow[v] /\ rid'[v] = rid[v]
        BY <1>8, <3>2, ReconOrigins
      <4> QED BY <1>6, <2>7, <4>1
    <3> QED BY <3>1, <3>2
  <2> QED BY <2>2, <2>3, <2>6, <2>7 DEF ReconOK
<1>9. ASSUME UNCHANGED <<workerVars, reconVars>>, run'.recon = run.recon PROVE ReconOK'
  BY <1>5, <1>6, <1>9 DEF ReconOK, workerVars, reconVars
<1>10. ASSUME NEW mode \in CancelModes, CancelAgentState(mode) PROVE run'.recon = run.recon
  BY <1>1, <1>10 DEF CancelAgentState, SaveRun, TypeOK, StoreTypeOK, Runs
<1> QED BY <1>7, <1>8, <1>9, <1>10
        DEF Next, vars, storeVars, workerVars, reconVars, ExpireLease

\* A returned tool keeps its row.
LEMMA NextDoneHeld == IInv /\ JInv /\ RevInv /\ ResInv /\ [Next]_vars => DoneHeld'
<1> SUFFICES ASSUME IInv, JInv, RevInv, ResInv, [Next]_vars, NEW w \in Workers
             PROVE  pc'[w] = "toolDone" => journal'[Calling(w)'].status # "absent"
  BY DEF DoneHeld
<1>1. TypeOK /\ DoneHeld
  BY DEF IInv, ResInv
<1>2. CASE pc'[w] = pc[w] /\ st'[w] = st[w]
  <2>1. Calling(w)' = Calling(w)
    BY <1>2 DEF Calling, LastCall, CallOf
  <2>2. pc[w] = "toolDone" => Calling(w) \in CallIds
    BY CallType DEF ToolPCs
  <2> QED BY <1>1, <1>2, <2>1, <2>2, JournalKeeps DEF DoneHeld
<1>3. ASSUME NEW v \in Workers \ {w}, WorkerStep(v) PROVE pc'[w] = pc[w] /\ st'[w] = st[w]
  BY <1>3, WorkerFine DEF Fine, Alone
<1>4. CASE ExecuteTool(w)
  <2>1. st' = st /\ pc[w] = "toolRun" /\ journal' = journal /\ pc'[w] = "toolDone"
    BY <1>1, <1>4 DEF ExecuteTool, Proceed, Goto, storeVars, TypeOK, WorkerTypeOK
  <2> QED BY <2>1 DEF IInv, RowHeld, Calling, LastCall, CallOf
<1>5. CASE WorkerStep(w) /\ ~ExecuteTool(w)
  <2> USE <1>1 DEF TypeOK, WorkerTypeOK, Goto, Leave, Proceed, LeaveClaim
  <2>1. CASE \/ ResolveLoaded(w) \/ ResolveFresh(w) \/ ClaimIdempotencyKey(w)
             \/ AcquireExecutionLease(w)
    BY <2>1 DEF ResolveLoaded, ResolveFresh, ClaimIdempotencyKey, TakeLoaded, AcquireExecutionLease
  <2>2. CASE ClaimSync(w) \/ ClaimSave(w) \/ ClaimResync(w) \/ Ready(w)
    BY <2>2 DEF ClaimSync, ClaimSave, ClaimResync, Ready
  <2>3. CASE BeforeModelStep(w) \/ ModelStep(w) \/ BeforeToolExecution(w)
    BY <2>3 DEF BeforeModelStep, ModelStep, BeforeToolExecution
  <2>4. CASE \/ ClaimToolExecution(w) \/ ClaimFails(w) \/ CompleteToolExecution(w)
             \/ UnknownToolExecution(w)
    BY <2>4 DEF ClaimToolExecution, ClaimFails, CompleteToolExecution, UnknownToolExecution,
                RecordResult
  <2>5. CASE PersistRefresh(w) \/ PersistSave(w) \/ PersistRebase(w)
    BY <2>5 DEF PersistRefresh, PersistSave, PersistRebase, PersistError, AfterSave
  <2>6. CASE AssertNotCancelled(w) \/ Finish(w)
    BY <2>6 DEF AssertNotCancelled, Finish
  <2>7. CASE MonitorStops(w) \/ Interrupt(w) \/ FailSync(w) \/ FailLoad(w) \/ Release(w)
    BY <2>7 DEF MonitorStops, Interrupt, FailSync, FailLoad, Release, PersistError
  <2> QED BY <1>5, <2>1, <2>2, <2>3, <2>4, <2>5, <2>6, <2>7 DEF WorkerStep
<1>6. CASE UNCHANGED workerVars
  BY <1>2, <1>6 DEF workerVars
<1> QED BY <1>2, <1>3, <1>4, <1>5, <1>6 DEF Next, vars, workerVars

\* Initially there is nothing to back.
LEMMA InitResInv == Init => ResInv
<1> SUFFICES ASSUME Init PROVE ResInv
  OBVIOUS
<1>1. /\ run = AbsentRun /\ AbsentRun.turns = <<>> /\ AbsentRun.recon = {}
      /\ \A w \in Workers : st[w] = AbsentRun /\ pc[w] = "idle"
      /\ \A r \in Reconcilers : rst[r] = AbsentRun /\ rpc[r] = "idle"
      /\ \A id \in CallIds : journal[id].status = "absent"
  BY DEF Init, StoreInit, WorkerInit, ReconInit, AbsentRun, AbsentRow
<1>2. \A T \in HeldTurns : T = <<>>
  BY <1>1 DEF HeldTurns
<1>3. TurnsOK
  BY <1>2 DEF TurnsOK
<1> QED BY <1>1, <1>3 DEF ResInv, ReconOK, DoneHeld

\* The evidence invariant holds in every reachable state: whoever holds a
\* transcript or its evidence holds what the journal has decided about its calls,
\* about a call of the same operation, or about one under the same provider id,
\* the errors of failed claims aside (wrapToolWithJournal, executeSingleTool,
\* reconcileAgentToolExecution).
THEOREM EvidenceInvariance == Spec => [](IInv /\ JInv /\ RevInv /\ ResInv)
<1>1. IInv /\ JInv /\ RevInv /\ ResInv /\ [Next]_vars => ResInv'
  BY NextTurnsOK, NextReconOK, NextDoneHeld DEF ResInv
<1> QED BY <1>1, InitResInv, RevisionInvariance, PTL DEF Spec

\* The output recorded for a call of the stored run is the one its row was
\* completed with, or the evidence of a reconciled call of its operation or under
\* its provider id.
THEOREM ResultsAgree == Spec => []ResultAgreesWithJournal
<1>1. ResInv => ResultAgreesWithJournal
  BY CallParts DEF ResInv, TurnsOK, HeldTurns, Backed, Sound, ResultAgreesWithJournal
<1> QED BY <1>1, EvidenceInvariance, PTL

----------------------------------------------------------------------------
(* What is known about the calls of a run that is stored *)

\* What checkpoint c does not know of a call: its effect, or the outcome that has
\* been confirmed for it.
Unknown(c, id, j) == j[id].status = "running" \/ (j[id].recon /\ id \notin c.recon)

\* A checkpoint with an unknown call that was answered with an error needs
\* reconciliation.
Flagged(c, j) ==
  \A i \in DOMAIN c.turns :
    c.turns[i].res = ErrorResult /\ Unknown(c, CallOf(c.turns, i), j) => c.needs

\* A turn that waits for nothing, and one that was passed over because a result
\* is there under its provider id.
Resolved(t) == t.op = Final \/ t.res # NoResult
PassedOver(T, i) ==
  \E h \in 1..(i - 1) : T[h].pid = T[i].pid /\ T[h].res # NoResult

\* What the results say nothing of.
Silent(T, i) == \/ T[i].op = Final \/ T[i].res \in {Evidence, ClaimError}
                \/ T[i].res = NoResult /\ PassedOver(T, i)

\* A completed checkpoint that needs no reconciliation has no other call of
\* unknown effect.
Honest(c, j) ==
  c.status = "completed" /\ ~c.needs =>
    \A i \in DOMAIN c.turns :
      ~Silent(c.turns, i) => j[CallOf(c.turns, i)].status # "running"

\* A completed checkpoint ends with a final answer or a result.
EndsResolved(c) == c.status = "completed" => Resolved(LastTurn(c))

\* Every call but the last of a transcript has a result, or was passed over.
AllResolved == \A T \in HeldTurns : \A i \in 1..(Len(T) - 1) :
                 Resolved(T[i]) \/ PassedOver(T, i)

\* An invocation asks the model, or ends its loop, over a resolved checkpoint.
Settled(w) == /\ pc[w] \in ModelPCs => ~Unresolved(st[w])
              /\ pc[w] = "finish" => Resolved(LastTurn(st[w]))

\* What the next write of an invocation may store.
Pending(w) == Unclaimed(w) \/ pc[w] = "save"

\* The runs that are stored or about to be.
OutcomeInv ==
  /\ AllResolved
  /\ Flagged(run, journal) /\ Honest(run, journal) /\ EndsResolved(run)
  /\ \A w \in Workers :
       /\ Settled(w)
       /\ Pending(w) => Flagged(st[w], journal)
       /\ pc[w] = "save" => Honest(st[w], journal)
       /\ pc[w] \in Persisting => EndsResolved(st[w])
  /\ \A r \in Reconcilers : rpc[r] = "save" => Flagged(rst[r], journal)

AllInv == IInv /\ JInv /\ RevInv /\ ResInv /\ OutcomeInv

----------------------------------------------------------------------------

\* A checkpoint whose error has an unknown call goes on being flagged.
LEMMA FlaggedStays ==
  ASSUME IInv, JInv, RevInv, ResInv, [Next]_vars,
         NEW c, c.turns \in HeldTurns, Flagged(c, journal)
  PROVE  Flagged(c, journal')
<1> SUFFICES ASSUME NEW i \in DOMAIN c.turns, c.turns[i].res = ErrorResult,
                    Unknown(c, CallOf(c.turns, i), journal')
             PROVE  c.needs
  BY DEF Flagged
<1> DEFINE id == CallOf(c.turns, i)
<1>1. id \in CallIds
  <2>1. ErrorResult # NoResult
    BY DEF ErrorResult, NoResult
  <2> QED BY <2>1, HeldCall DEF IInv
<1>2. journal[id].status # "absent" /\ journal[id].status \in {"absent", "running", "completed", "failed"}
  <2>1. Sound(c.turns[i].res, id, journal)
    BY DEF ResInv, TurnsOK, Backed
  <2>2. journal[id] \in Rows
    BY <1>1 DEF IInv, TypeOK, StoreTypeOK
  <2> QED BY <2>1, <2>2 DEF Sound, Rows
<1>3. Unknown(c, id, journal')
  OBVIOUS
<1> HIDE DEF id
<1>4. /\ journal[id].status \in {"completed", "failed"} => journal'[id] = journal[id]
      /\ journal'[id].status = "running" => journal[id].status \in {"absent", "running"}
  BY <1>1, JournalKeeps
<1>5. Unknown(c, id, journal)
  BY <1>2, <1>3, <1>4 DEF Unknown
<1> QED BY <1>5 DEF Flagged, id

\* A completed run that hides no unknown effect gets none: the calls that are
\* still to be claimed have no result.
LEMMA HonestStays ==
  ASSUME AllInv, [Next]_vars, NEW c, c.turns \in HeldTurns, EndsResolved(c),
         Honest(c, journal)
  PROVE  Honest(c, journal')
<1> SUFFICES ASSUME c.status = "completed", ~c.needs, NEW i \in DOMAIN c.turns,
                    ~Silent(c.turns, i),
                    journal'[CallOf(c.turns, i)].status = "running"
             PROVE  FALSE
  BY DEF Honest
<1> DEFINE T == c.turns
           id == CallOf(T, i)
<1>1. /\ IInv /\ JInv /\ RevInv /\ ResInv /\ TypeOK /\ AllResolved
  BY DEF AllInv, IInv, OutcomeInv
<1>2. T \in HeldTurns /\ i \in DOMAIN T
  OBVIOUS
<1>3. T[i] \in Turns /\ DOMAIN T = 1..Len(T) /\ Len(T) \in Nat
  <2>1. T \in Seq(Turns) /\ DOMAIN T = 1..Len(T) /\ Len(T) \in Nat
    BY <1>1, <1>2, HeldType
  <2> QED BY <2>1
<1>4. Sound(T[i].res, id, journal)
  BY <1>1 DEF ResInv, TurnsOK, Backed
<1>5. T[i].op # Final /\ T[i].res \notin {Evidence, ClaimError}
      /\ (T[i].res = NoResult => ~PassedOver(T, i))
  BY DEF Silent
<1>6. journal[id].status # "running" /\ journal'[id].status = "running"
  BY DEF Honest
<1>7. T[i].res # NoResult
  <2>1. CASE i = Len(T)
    BY <1>5, <2>1 DEF EndsResolved, LastTurn, Resolved
  <2>2. CASE i # Len(T)
    <3>1. i \in 1..(Len(T) - 1)
      BY <1>3, <2>2
    <3> QED BY <1>1, <1>5, <3>1 DEF AllResolved, Resolved
  <2> QED BY <2>1, <2>2
<1>8. id \in CallIds
  BY <1>1, <1>2, <1>7, HeldCall
<1> HIDE DEF id, T
<1>9. journal[id].status = "absent"
  BY <1>1, <1>6, <1>8, JournalKeeps
<1>10. T[i].res \in Workers \/ T[i].res = ErrorResult
  BY <1>3, <1>5, <1>7, TurnType DEF Results, Outputs
<1> QED BY <1>4, <1>9, <1>10 DEF Sound

\* A checkpoint that has just been refreshed says what the journal says.
LEMMA RefreshedSays ==
  ASSUME NEW c \in Runs
  PROVE  Flagged(Refreshed(c), journal) /\ Honest(Refreshed(c), journal)
<1> DEFINE q == Refreshed(c)
<1>1. q.turns = c.turns /\ q.recon = c.recon /\ q.needs = NeedsReconciliation(c)
  BY RefreshedFields DEF Refreshed, Runs
<1>2. ASSUME NEW i \in DOMAIN c.turns, c.turns[i].op # Final
      PROVE  CallOf(c.turns, i) \in CallIds
  <2>1. c.turns \in Seq(Turns) /\ Len(c.turns) <= MaxSteps
    BY RunFields
  <2>2. c.turns[i] \in Turns /\ i \in 1..MaxSteps
    BY <2>1, StoreAssumption
  <2> QED BY <1>2, <2>2, TurnType DEF CallOf, CallIds
<1>3. ASSUME NEW i \in DOMAIN c.turns, c.turns[i].op # Final,
             Unknown(c, CallOf(c.turns, i), journal)
      PROVE  q.needs
  BY <1>1, <1>2, <1>3 DEF NeedsReconciliation, Unknown
<1>4. ASSUME NEW i \in DOMAIN c.turns, c.turns[i].res = ErrorResult
      PROVE  c.turns[i].op # Final
  <2>1. c.turns[i] \in Turns
    BY RunFields
  <2> QED BY <1>4, <2>1, TurnType DEF FinalTurn, ErrorResult, NoResult
<1> HIDE DEF q
<1>5. Flagged(q, journal)
  BY <1>1, <1>3, <1>4 DEF Flagged, Unknown
<1>6. Honest(q, journal)
  BY <1>1, <1>3 DEF Honest, Unknown, Silent
<1> QED BY <1>5, <1>6 DEF q

\* What is said about a checkpoint rests on its transcript, its evidence, its outcome
\* and its status.
Same(c, d) == c.turns = d.turns /\ c.needs = d.needs /\ c.recon = d.recon

\* Checkpoints that agree on them agree on what is said.
LEMMA SaidOfSame ==
  ASSUME NEW c, NEW d, Same(c, d), NEW j
  PROVE  /\ Flagged(d, j) => Flagged(c, j)
         /\ Honest(d, j) /\ c.status \in {d.status} \cup (Statuses \ {"completed"})
              => Honest(c, j)
         /\ EndsResolved(d) /\ c.status \in {d.status} \cup (Statuses \ {"completed"})
              => EndsResolved(c)
BY DEF Same, Flagged, Unknown, Honest, EndsResolved, LastTurn

----------------------------------------------------------------------------
(* What an invocation stores and prepares *)

\* An invocation stores what it had prepared.
Stores(w) ==
  \/ run' = run
  \/ Pending(w) /\ Same(run', st[w]) /\ run'.status # "completed"
  \/ pc[w] = "save" /\ Same(run', st[w]) /\ run'.status = st[w].status

\* It prepares the run as it is, a fresh one, or one it has just refreshed.
Prepares(w) ==
  /\ Pending(w)' => \/ st'[w] \in {run, BaseState}
                    \/ Unclaimed(w) /\ st'[w] = st[w]
                    \/ pc[w] = "refresh" /\ st'[w] = Refreshed(st[w])
  /\ pc'[w] = "save" => pc[w] = "refresh" /\ st'[w] = Refreshed(st[w])
  /\ Settled(w)'
  /\ pc'[w] \in Persisting => EndsResolved(st'[w])

\* An invocation that leaves, or goes on where nothing is written, prepares nothing.
Aside(w) == pc'[w] \notin ModelPCs \cup Persisting
              \cup {"acquire", "claimKey", "claimSync", "claimSave", "finish"}

\* There is nothing to show there.
LEMMA AsidePrepares == ASSUME NEW w \in Workers, Aside(w) PROVE Prepares(w)
BY DEF Aside, Prepares, Pending, Unclaimed, Settled, Persisting

\* A checkpoint whose last call has got its result is resolved.
LEMMA ResultResolves ==
  ASSUME NEW r, r.turns \in Seq(Turns), HasResult(r)
  PROVE  Resolved(LastTurn(r)) /\ ~Unresolved(r)
<1>1. Len(r.turns) \in DOMAIN r.turns
  BY DEF HasResult
<1> QED BY <1>1 DEF HasResult, Resolved, Unresolved, LastTurn

\* The checkpoint of a result does not say that the run is completed.
LEMMA RecordPrepares ==
  ASSUME TypeOK, NEW w \in Workers, NEW res \in Results, EndsWithCall(st[w]),
         RecordResult(w, res)
  PROVE  Prepares(w)
<1>1. pc'[w] = "refresh" /\ st'[w].status = "running"
  BY Recorded
<1> QED BY <1>1 DEF Prepares, Pending, Unclaimed, Settled, ModelPCs, EndsResolved

\* Resolving and claiming the run.
LEMMA ClaimsStores ==
  ASSUME IInv, RevInv, NEW w \in Workers,
         \/ ResolveLoaded(w) \/ ResolveFresh(w) \/ ClaimIdempotencyKey(w)
         \/ AcquireExecutionLease(w) \/ ClaimSync(w) \/ ClaimSave(w) \/ ClaimResync(w)
  PROVE  Stores(w) /\ Prepares(w)
<1>1. /\ TypeOK /\ WorkerRev(w) /\ st[w] \in Runs /\ st \in [Workers -> Runs]
      /\ pc \in [Workers -> PCs] /\ after \in [Workers -> Afters]
  BY DEF IInv, RevInv, TypeOK, WorkerTypeOK
<1>2. ASSUME NEW there \in {"done", "release"}, Leave(w, there) PROVE Prepares(w)
  <2>1. pc'[w] = there
    BY <1>1, <1>2, Leaving
  <2> QED BY <2>1, AsidePrepares DEF Aside, ModelPCs, Persisting
<1>3. ASSUME TakeLoaded(w) PROVE Prepares(w)
  <2>1. CASE Resumes(run)
    <3>1. st'[w] = run /\ pc'[w] = "acquire"
      BY <1>1, <1>3, <2>1 DEF TakeLoaded, Set, Goto
    <3> QED BY <3>1 DEF Prepares, Settled, ModelPCs, Persisting
  <2>2. CASE ~Resumes(run)
    BY <1>2, <1>3, <2>2 DEF TakeLoaded
  <2> QED BY <2>1, <2>2
<1>4. CASE ResolveLoaded(w)
  BY <1>3, <1>4 DEF ResolveLoaded, Stores, storeVars
<1>5. CASE ResolveFresh(w)
  <2>1. st'[w] = BaseState /\ pc'[w] \in {"claimKey", "claimSync"} /\ run' = run
    BY <1>1, <1>5 DEF ResolveFresh, Set, Goto, storeVars
  <2> QED BY <2>1 DEF Prepares, Settled, ModelPCs, Persisting, Stores
<1>6. CASE ClaimIdempotencyKey(w)
  <2>1. CASE run.status = "absent"
    <3>1. /\ run' = st[w] /\ Proceed(w, "acquire") /\ pc[w] = "claimKey"
      BY <1>6, <2>1 DEF ClaimIdempotencyKey
    <3>2. st[w] = BaseState /\ BaseState.status = "running"
      BY <1>1, <2>1, <3>1 DEF WorkerRev, UnclaimedOK, Unclaimed, BaseState, AbsentRun
    <3>3. Stores(w)
      BY <3>1, <3>2 DEF Stores, Same, Pending, Unclaimed
    <3>4. Prepares(w)
      BY <1>1, <3>1, Proceeding
      DEF Prepares, Pending, Unclaimed, Settled, ModelPCs, Persisting, Keeps
    <3> QED BY <3>3, <3>4
  <2>2. CASE run.status # "absent"
    BY <1>3, <1>6, <2>2 DEF ClaimIdempotencyKey, Stores
  <2> QED BY <2>1, <2>2
<1>7. CASE AcquireExecutionLease(w)
  <2>1. CASE LeaseAvailable(w)
    <3>1. /\ pc'[w] = IF after[w] = "fresh" THEN "ready" ELSE "claimSync"
          /\ st' = st /\ run' = run /\ pc[w] = "acquire"
      BY <1>1, <1>7, <2>1 DEF AcquireExecutionLease, Goto
    <3> QED BY <3>1 DEF Prepares, Pending, Unclaimed, Settled, ModelPCs, Persisting, Stores
  <2>2. CASE ~LeaseAvailable(w)
    BY <1>2, <1>7, <2>2 DEF AcquireExecutionLease, Stores
  <2> QED BY <2>1, <2>2
<1>8. CASE ClaimSync(w) \/ ClaimResync(w)
  <2>1. run' = run
    BY <1>8 DEF ClaimSync, ClaimResync, storeVars
  <2>2. CASE LeaveClaim(w)
    BY <1>2, <2>1, <2>2 DEF LeaveClaim, Stores
  <2>3. CASE Proceed(w, "claimSave") /\ pc[w] = "claimSync"
    BY <1>1, <2>1, <2>3, Proceeding
    DEF Prepares, Pending, Unclaimed, Settled, ModelPCs, Persisting, Keeps, Stores
  <2>4. CASE Proceed(w, IF after[w] = "fresh" THEN "acquire" ELSE "ready")
    BY <1>1, <2>1, <2>4, Proceeding
    DEF Prepares, Pending, Unclaimed, Settled, ModelPCs, Persisting, Keeps, Stores
  <2> QED BY <1>8, <2>2, <2>3, <2>4 DEF ClaimSync, ClaimResync
<1>9. CASE ClaimSave(w)
  <2> DEFINE r == [st[w] EXCEPT !.status = "running"]
  <2>1. CASE RevisionMatches(r)
    <3>1. SaveRun(r) /\ pc'[w] = "claimResync" /\ pc[w] = "claimSave"
      BY <1>1, <1>9, <2>1 DEF ClaimSave, Goto
    <3>2. /\ r \in Runs /\ r.turns = st[w].turns /\ r.needs = st[w].needs
          /\ r.recon = st[w].recon /\ r.status = "running"
      BY <1>1, StatusFields, StatusType DEF Statuses
    <3> HIDE DEF r
    <3>3. /\ run'.turns = st[w].turns /\ run'.needs = st[w].needs
          /\ run'.recon = st[w].recon /\ run'.status = "running"
      BY <3>1, <3>2, SavedFields
    <3> QED BY <3>1, <3>3, AsidePrepares
            DEF Aside, ModelPCs, Persisting, Stores, Same, Pending, Unclaimed
  <2>2. CASE ~RevisionMatches(r)
    BY <1>2, <1>9, <2>2 DEF ClaimSave, LeaveClaim, Stores
  <2> QED BY <2>1, <2>2
<1> QED BY <1>4, <1>5, <1>6, <1>7, <1>8, <1>9

\* The steps before a write of the step loop.
LEMMA DriveStores ==
  ASSUME IInv, JInv, RevInv, NEW w \in Workers, Settled(w),
         \/ Ready(w) \/ BeforeModelStep(w) \/ ModelStep(w) \/ BeforeToolExecution(w)
         \/ ClaimToolExecution(w) \/ ClaimFails(w) \/ ExecuteTool(w)
         \/ CompleteToolExecution(w) \/ UnknownToolExecution(w) \/ AssertNotCancelled(w)
         \/ Finish(w)
  PROVE  Stores(w) /\ Prepares(w)
<1>1. /\ TypeOK /\ WorkerRev(w) /\ st[w] \in Runs /\ st \in [Workers -> Runs]
      /\ pc \in [Workers -> PCs] /\ after \in [Workers -> Afters]
  BY DEF IInv, RevInv, TypeOK, WorkerTypeOK
<1>2. Stores(w)
  BY DEF Stores, storeVars, Ready, BeforeModelStep, ModelStep, BeforeToolExecution,
         ClaimToolExecution, ClaimFails, ExecuteTool, CompleteToolExecution,
         UnknownToolExecution, AssertNotCancelled, Finish
<1>3. ASSUME pc'[w] \in {"release", "toolCheck", "toolClaim", "toolRun", "toolDone",
                         "failSync"}
      PROVE  Prepares(w)
  BY <1>3, AsidePrepares DEF Aside, ModelPCs, Persisting
<1>4. CASE Ready(w)
  <2>1. CASE Exhausted(st[w])
    <3>1. /\ st'[w] = [st[w] EXCEPT !.status = "failed"]
          /\ pc'[w] = "refresh" /\ after'[w] = "exhausted"
      BY <1>1, <1>4, <2>1 DEF Ready, Set, Goto, Purpose
    <3>2. st'[w].status = "failed"
      BY <1>1, <3>1, StatusFields
    <3> QED BY <1>2, <3>1, <3>2
            DEF Prepares, Pending, Unclaimed, Settled, ModelPCs, Persisting, EndsResolved
  <2>2. CASE ~Exhausted(st[w])
    <3>1. /\ st'[w] = st[w] /\ pc'[w] = IF Unresolved(st[w]) THEN "toolCheck" ELSE "modelCheck"
      BY <1>1, <1>4, <2>2 DEF Ready, Proceed, Goto
    <3> QED BY <1>2, <3>1 DEF Prepares, Pending, Unclaimed, Settled, ModelPCs, Persisting
  <2> QED BY <2>1, <2>2
<1>5. CASE BeforeModelStep(w)
  <2>1. CASE IsCancelled(run)
    BY <1>1, <1>2, <1>3, <1>5, <2>1, Leaving DEF BeforeModelStep
  <2>2. CASE ~IsCancelled(run)
    <3>1. pc[w] = "modelCheck" /\ pc'[w] = "model" /\ st'[w] = st[w]
      BY <1>1, <1>5, <2>2 DEF BeforeModelStep, Proceed, Goto
    <3> QED BY <1>2, <3>1 DEF Prepares, Pending, Unclaimed, Settled, ModelPCs, Persisting
  <2> QED BY <2>1, <2>2
<1>6. CASE ModelStep(w)
  <2>1. PICK turn \in NewTurns :
          Set(w, [st[w] EXCEPT !.turns = Append(@, turn),
                               !.status = IF turn = FinalTurn THEN "completed" ELSE "running"])
    BY <1>6 DEF ModelStep, NewTurns
  <2> DEFINE s == IF turn = FinalTurn THEN "completed" ELSE "running"
             u == Append(st[w].turns, turn)
  <2>2. st'[w] = [st[w] EXCEPT !.turns = Append(@, turn), !.status = s]
    BY <1>1, <2>1 DEF Set
  <2>3. s = "completed" => turn.op = Final
    BY DEF FinalTurn
  <2> HIDE DEF s
  <2>4. st'[w].turns = u /\ st'[w].status = s
    BY <1>1, <2>2 DEF Runs
  <2>5. u[Len(u)] = turn
    BY <1>1, RunFields
  <2>6. EndsResolved(st'[w])
    BY <2>3, <2>4, <2>5 DEF EndsResolved, LastTurn, Resolved
  <2>7. pc'[w] = "refresh" /\ after'[w] = "step"
    BY <1>1, <1>6 DEF ModelStep, Goto, Purpose
  <2> QED BY <1>2, <2>6, <2>7 DEF Prepares, Pending, Unclaimed, Settled, ModelPCs
<1>7. CASE BeforeToolExecution(w) \/ ExecuteTool(w) \/ UnknownToolExecution(w)
  BY <1>1, <1>2, <1>3, <1>7, Leaving, Proceeding
  DEF BeforeToolExecution, ExecuteTool, UnknownToolExecution
<1>8. CASE ClaimToolExecution(w) \/ ClaimFails(w) \/ CompleteToolExecution(w)
  <2>1. EndsWithCall(st[w])
    BY <1>8, CallType DEF ClaimToolExecution, ClaimFails, CompleteToolExecution, ToolPCs
  <2>2. CASE Proceed(w, "toolRun")
    BY <1>1, <1>2, <1>3, <2>2, Proceeding
  <2>3. ASSUME NEW res \in Results \ {NoResult}, RecordResult(w, res) PROVE Prepares(w)
    BY <1>1, <2>1, <2>3, RecordPrepares
  <2> QED BY <1>2, <1>8, <2>2, <2>3, RecordedResult
<1>9. CASE AssertNotCancelled(w)
  <2>1. CASE IsCancelled(run) \/ after[w] = "finish"
    BY <1>1, <1>2, <1>3, <1>9, <2>1, Leaving DEF AssertNotCancelled
  <2>2. CASE ~(IsCancelled(run) \/ after[w] = "finish")
    <3>1. /\ pc'[w] = IF EndsWithCall(st[w]) THEN "toolCheck" ELSE "finish"
          /\ st'[w] = st[w] /\ Awaits(st[w])
      BY <1>1, <1>9, <2>2 DEF AssertNotCancelled, Proceed, Goto, WorkerRev, WritingOK
    <3>2. CASE EndsWithCall(st[w])
      BY <1>2, <1>3, <3>1, <3>2
    <3>3. CASE ~EndsWithCall(st[w])
      <4>1. Resolved(LastTurn(st[w]))
        BY <3>1, <3>3 DEF EndsWithCall, Awaits, Resolved
      <4> QED BY <1>2, <3>1, <3>3, <4>1
              DEF Prepares, Pending, Unclaimed, Settled, ModelPCs, Persisting
    <3> QED BY <3>2, <3>3
  <2> QED BY <2>1, <2>2
<1>10. CASE Finish(w)
  <2> DEFINE s == IF Exhausted(st[w]) /\ EndsWithCall(st[w]) THEN "failed" ELSE "completed"
  <2>1. /\ st'[w] = [st[w] EXCEPT !.status = s]
        /\ pc'[w] = "refresh" /\ after'[w] = "finish" /\ pc[w] = "finish"
    BY <1>1, <1>10 DEF Finish, Set, Goto, Purpose
  <2> HIDE DEF s
  <2>2. st'[w].turns = st[w].turns
    BY <1>1, <2>1, StatusFields
  <2>3. EndsResolved(st'[w])
    BY <2>1, <2>2 DEF EndsResolved, LastTurn, Settled
  <2> QED BY <1>2, <2>1, <2>3 DEF Prepares, Pending, Unclaimed, Settled, ModelPCs
<1> QED BY <1>2, <1>4, <1>5, <1>6, <1>7, <1>8, <1>9, <1>10

\* The steps of a write.
LEMMA PersistStores ==
  ASSUME IInv, RevInv, NEW w \in Workers, Settled(w),
         pc[w] \in Persisting => EndsResolved(st[w]),
         PersistRefresh(w) \/ PersistSave(w) \/ PersistRebase(w)
  PROVE  Stores(w) /\ Prepares(w)
<1>1. /\ TypeOK /\ WorkerRev(w) /\ st[w] \in Runs /\ run \in Runs /\ st \in [Workers -> Runs]
      /\ pc \in [Workers -> PCs] /\ after \in [Workers -> Afters]
  BY StoredTypes DEF IInv, RevInv, TypeOK, WorkerTypeOK
<1>2. pc[w] \in {"refresh", "save", "rebase"}
  BY DEF PersistRefresh, PersistSave, PersistRebase
<1>3. EndsResolved(st[w])
  BY <1>2 DEF Persisting
<1>4. ASSUME NEW there \in {"release", "threw"}, Leave(w, there) PROVE Prepares(w)
  <2>1. pc'[w] = there
    BY <1>1, <1>4, Leaving
  <2> QED BY <2>1, AsidePrepares DEF Aside, ModelPCs, Persisting
<1>5. ASSUME Proceed(w, "failSync") PROVE Prepares(w)
  <2>1. pc'[w] = "failSync"
    BY <1>1, <1>5, Proceeding
  <2> QED BY <2>1, AsidePrepares DEF Aside, ModelPCs, Persisting
<1>6. CASE PersistRefresh(w)
  <2>1. /\ run' = run /\ st'[w] = Refreshed(st[w]) /\ pc'[w] = "save" /\ pc[w] = "refresh"
        /\ after'[w] = after[w]
    BY <1>1, <1>6 DEF PersistRefresh, Set, Goto, storeVars
  <2>2. st'[w].turns = st[w].turns /\ st'[w].status = st[w].status
    BY <1>1, <2>1, RefreshedFields
  <2>3. EndsResolved(st'[w])
    BY <1>3, <2>2 DEF EndsResolved, LastTurn
  <2>4. Settled(w)'
    BY <2>1 DEF Settled, ModelPCs
  <2> QED BY <2>1, <2>3, <2>4 DEF Prepares, Stores
<1>7. CASE PersistSave(w) /\ RevisionMatches(st[w])
  <2>1. /\ run'.turns = st[w].turns /\ run'.needs = st[w].needs
        /\ run'.recon = st[w].recon /\ run'.status = st[w].status
    BY <1>1, <1>7, SavedFields DEF PersistSave
  <2>2. Stores(w)
    BY <1>7, <2>1 DEF Stores, Same, PersistSave
  <2>3. CASE after[w] \in Checkpoints
    <3>1. st'[w] = run' /\ pc'[w] \in AfterSave(w)
      BY <1>1, <1>7, <2>3 DEF PersistSave, Set, Goto
    <3>2. CASE after[w] \in {"tools", "recovered"}
      <4>1. pc'[w] \in {"modelCheck", "finish"}
        BY <3>1, <3>2 DEF AfterSave
      <4>2. st'[w].turns = st[w].turns
        BY <2>1, <3>1
      <4>3. st'[w].turns \in Seq(Turns) /\ HasResult(st'[w])
        BY <1>1, <1>2, <3>2, <4>2, RunFields
        DEF WorkerRev, WritingOK, Persisting, HasResult, LastTurn
      <4>4. Resolved(LastTurn(st'[w])) /\ ~Unresolved(st'[w])
        BY <4>3, ResultResolves
      <4> QED BY <2>2, <4>1, <4>4 DEF Prepares, Pending, Unclaimed, Settled, Persisting
    <3>3. CASE after[w] \notin {"tools", "recovered"}
      <4>1. pc'[w] = "assert"
        BY <3>1, <3>3 DEF AfterSave
      <4> QED BY <2>2, <4>1, AsidePrepares DEF Aside, ModelPCs, Persisting
    <3> QED BY <3>2, <3>3
  <2>4. CASE after[w] \notin Checkpoints
    BY <1>4, <1>7, <2>2, <2>4 DEF PersistSave
  <2> QED BY <2>3, <2>4
<1>8. CASE PersistSave(w) /\ ~RevisionMatches(st[w])
  <2>1. Stores(w)
    BY <1>8 DEF PersistSave, Stores
  <2>2. CASE Proceed(w, "rebase")
    <3>1. pc'[w] = "rebase" /\ st'[w] = st[w] /\ after'[w] = after[w]
      BY <1>1, <2>2, Proceeding DEF Keeps
    <3> QED BY <1>3, <2>1, <3>1 DEF Prepares, Pending, Unclaimed, Settled, ModelPCs
  <2>3. CASE PersistError(w)
    BY <1>4, <1>5, <2>1, <2>3 DEF PersistError
  <2> QED BY <1>8, <2>2, <2>3 DEF PersistSave
<1>9. CASE PersistRebase(w)
  <2>1. Stores(w)
    BY <1>9 DEF PersistRebase, Stores, storeVars
  <2>2. CASE CancellationOnly(base[w], run)
    <3>1. /\ st'[w] = [st[w] EXCEPT !.status = run.status, !.rev = run.rev]
          /\ pc'[w] = "refresh" /\ after'[w] = after[w]
      BY <1>1, <1>9, <2>2 DEF PersistRebase, Set, Goto
    <3>2. st'[w].turns = st[w].turns /\ st'[w].status = run.status
      BY <1>1, <3>1 DEF Runs
    <3>3. EndsResolved(st'[w])
      BY <2>2, <3>2 DEF EndsResolved, CancellationOnly, IsCancelled
    <3>4. Settled(w)'
      BY <3>1 DEF Settled, ModelPCs
    <3> QED BY <2>1, <3>1, <3>3, <3>4 DEF Prepares, Pending, Unclaimed
  <2>3. CASE ~CancellationOnly(base[w], run)
    BY <1>5, <1>9, <2>1, <2>3 DEF PersistRebase
  <2> QED BY <2>2, <2>3
<1> QED BY <1>6, <1>7, <1>8, <1>9

\* The steps of a failure.
LEMMA FailureStores ==
  ASSUME IInv, RevInv, NEW w \in Workers,
         \/ MonitorStops(w) \/ Interrupt(w) \/ FailSync(w) \/ FailLoad(w) \/ Release(w)
  PROVE  Stores(w) /\ Prepares(w)
<1>1. /\ TypeOK /\ st[w] \in Runs /\ run \in Runs /\ st \in [Workers -> Runs]
      /\ pc \in [Workers -> PCs] /\ after \in [Workers -> Afters]
  BY StoredTypes DEF IInv, TypeOK, WorkerTypeOK
<1>2. Stores(w)
  BY DEF MonitorStops, Interrupt, FailSync, FailLoad, Release, Stores, storeVars
<1>3. CASE FailLoad(w)
  <2>1. /\ pc'[w] = "refresh" /\ after'[w] = "failure"
        /\ \/ st'[w] = [OverlaidOn(st[w], run) EXCEPT !.rev = run.rev, !.status = "failed"]
           \/ st'[w] = [run EXCEPT !.rev = run.rev, !.status = "failed"]
    BY <1>1, <1>3 DEF FailLoad, Set, Goto, Purpose
  <2>2. ASSUME NEW q \in Runs PROVE [q EXCEPT !.rev = run.rev, !.status = "failed"].status = "failed"
    BY DEF Runs
  <2>3. OverlaidOn(st[w], run) \in Runs
    BY <1>1, OverlaidType
  <2>4. st'[w].status = "failed"
    BY <1>1, <2>1, <2>2, <2>3
  <2> QED BY <1>2, <2>1, <2>4
          DEF Prepares, Pending, Unclaimed, Settled, ModelPCs, EndsResolved
<1>4. CASE MonitorStops(w) \/ Interrupt(w) \/ FailSync(w) \/ Release(w)
  <2>1. pc'[w] \in Gone
    BY <1>1, <1>4 DEF MonitorStops, Interrupt, FailSync, Release, PersistError, LeaveClaim,
                      Leave, Proceed, Goto, Gone
  <2> QED BY <1>2, <2>1, AsidePrepares DEF Aside, ModelPCs, Persisting, Gone
<1> QED BY <1>3, <1>4

\* Every step of an invocation.
LEMMA WorkerStores ==
  ASSUME AllInv, NEW w \in Workers, WorkerStep(w)
  PROVE  Stores(w) /\ Prepares(w) /\ Alone(w)
<1>1. /\ IInv /\ JInv /\ RevInv /\ Settled(w)
      /\ pc[w] \in Persisting => EndsResolved(st[w])
  BY DEF AllInv, OutcomeInv
<1>2. Alone(w)
  BY <1>1, WorkerFine DEF Fine
<1>3. Stores(w) /\ Prepares(w)
  BY <1>1, ClaimsStores, DriveStores, PersistStores, FailureStores DEF WorkerStep
<1> QED BY <1>2, <1>3

----------------------------------------------------------------------------
(* The invariant *)

\* Every call but the last goes on having a result.
LEMMA NextAllResolved == ASSUME AllInv, [Next]_vars PROVE AllResolved'
<1> SUFFICES ASSUME NEW U \in HeldTurns', NEW i \in 1..(Len(U) - 1)
             PROVE  Resolved(U[i]) \/ PassedOver(U, i)
  BY DEF AllResolved, Resolved, PassedOver
<1>1. /\ IInv /\ JInv /\ RevInv /\ ResInv /\ TypeOK /\ AllResolved
      /\ \A w \in Workers : Settled(w)
  BY DEF AllInv, IInv, OutcomeInv
<1>2. CASE U = <<>>
  BY <1>2
<1>3. ASSUME NEW T \in HeldTurns, Derived(U, T) PROVE Resolved(U[i]) \/ PassedOver(U, i)
  <2>1. Len(T) = Len(U) /\ Len(T) \in Nat
    BY <1>1, <1>3, HeldType DEF Derived
  <2>2. (Resolved(T[i]) \/ PassedOver(T, i)) /\ i \in 1..Len(T) /\ 1..(i - 1) \subseteq 1..Len(T)
    BY <1>1, <2>1 DEF AllResolved
  <2>3. \A h \in 1..Len(T) : /\ U[h].pid = T[h].pid /\ U[h].op = T[h].op
                             /\ T[h].res # NoResult => U[h].res # NoResult
    BY <1>3 DEF Derived
  <2> QED BY <2>2, <2>3 DEF Resolved, PassedOver
<1>4. ASSUME NEW w \in Workers, Extended(U, w) PROVE Resolved(U[i]) \/ PassedOver(U, i)
  <2> DEFINE T == st[w].turns
  <2>1. T \in HeldTurns /\ T \in Seq(Turns) /\ Len(T) \in Nat /\ DOMAIN T = 1..Len(T)
    BY <1>1, HeldType DEF HeldTurns
  <2>2. PICK turn \in NewTurns : U = Append(T, turn)
    BY <1>4 DEF Extended
  <2>3. ~Unresolved(st[w])
    BY <1>1, <1>4 DEF Extended, ModelStep, Settled, ModelPCs
  <2>4. T # <<>> /\ i = Len(T) => Resolved(T[i]) \/ PassedOver(T, i)
    <3> SUFFICES ASSUME T # <<>>, i = Len(T), T[i].op # Final
                 PROVE  T[i].res # NoResult \/ PassedOver(T, i)
      BY DEF Resolved
    <3>1. PICK h \in DOMAIN T : T[h].pid = T[i].pid /\ T[h].res # NoResult
      BY <2>3 DEF Unresolved, EndsWithCall, LastTurn
    <3>2. h = i \/ h \in 1..(i - 1)
      BY <2>1
    <3> QED BY <3>1, <3>2 DEF PassedOver
  <2> HIDE DEF T
  <2>5. Len(U) = Len(T) + 1 /\ \A h \in 1..Len(T) : U[h] = T[h]
    BY <2>1, <2>2
  <2>6. i \in 1..Len(T) /\ 1..(i - 1) \subseteq 1..Len(T) /\ T # <<>>
    BY <2>1, <2>5
  <2>7. Resolved(T[i]) \/ PassedOver(T, i)
    <3>1. CASE i = Len(T)
      BY <2>4, <2>6, <3>1
    <3>2. CASE i # Len(T)
      <4>1. i \in 1..(Len(T) - 1)
        <5>1. Len(T) \in Nat /\ i \in 1..Len(T)
          BY <2>1, <2>6
        <5> QED BY <3>2, <5>1
      <4> QED BY <1>1, <2>1, <4>1 DEF AllResolved
    <3> QED BY <3>1, <3>2
  <2> QED BY <2>5, <2>6, <2>7 DEF Resolved, PassedOver
<1> QED BY <1>1, <1>2, <1>3, <1>4, Evolves

\* What is said about the runs stays true when an invocation moves.
LEMMA WorkerOutcome ==
  ASSUME AllInv, NEW w \in Workers, WorkerStep(w), UNCHANGED reconVars, [Next]_vars
  PROVE  OutcomeInv'
<1>1. /\ IInv /\ JInv /\ RevInv /\ ResInv /\ TypeOK /\ OutcomeInv
      /\ Stores(w) /\ Prepares(w) /\ Alone(w)
  BY WorkerStores DEF AllInv, IInv
<1>2. /\ TypeOK' /\ RevInv' /\ AllResolved'
  BY <1>1, NextIInv, RevNext, NextAllResolved DEF IInv
<1>3. /\ run \in Runs /\ run' \in Runs /\ run.turns \in HeldTurns
      /\ \A v \in Workers : st[v] \in Runs /\ st[v].turns \in HeldTurns
      /\ \A r \in Reconcilers : rst[r].turns \in HeldTurns
  BY <1>1, <1>2 DEF TypeOK, StoreTypeOK, WorkerTypeOK, HeldTurns
<1>4. /\ Flagged(run, journal') /\ Honest(run, journal') /\ EndsResolved(run)
      /\ \A v \in Workers :
           /\ Settled(v)
           /\ Pending(v) => Flagged(st[v], journal')
           /\ pc[v] = "save" => Honest(st[v], journal')
           /\ pc[v] \in Persisting => EndsResolved(st[v])
      /\ \A r \in Reconcilers : rpc[r] = "save" => Flagged(rst[r], journal')
  BY <1>1, <1>3, FlaggedStays, HonestStays DEF OutcomeInv, Persisting
<1>5. Flagged(run', journal') /\ Honest(run', journal') /\ EndsResolved(run')
  <2>1. CASE run' = run
    BY <1>4, <2>1
  <2>2. CASE Pending(w) /\ Same(run', st[w]) /\ run'.status # "completed"
    <3>1. Flagged(run', journal')
      BY <1>4, <2>2, SaidOfSame
    <3> QED BY <2>2, <3>1 DEF Honest, EndsResolved
  <2>3. CASE pc[w] = "save" /\ Same(run', st[w]) /\ run'.status = st[w].status
    <3>1. Flagged(st[w], journal') /\ Honest(st[w], journal') /\ EndsResolved(st[w])
      BY <1>4, <2>3 DEF Pending, Persisting
    <3> QED BY <2>3, <3>1, SaidOfSame
  <2> QED BY <1>1, <2>1, <2>2, <2>3 DEF Stores
<1>6. ASSUME pc[w] = "refresh", st'[w] = Refreshed(st[w])
      PROVE  Flagged(st'[w], journal') /\ Honest(st'[w], journal')
  <2>1. journal' = journal
    BY <1>6 DEF WorkerStep, storeVars, ResolveLoaded, ResolveFresh, ClaimIdempotencyKey,
      AcquireExecutionLease, ClaimSync, ClaimSave, ClaimResync, Ready, BeforeModelStep,
      ModelStep, BeforeToolExecution, ClaimToolExecution, ClaimFails, ExecuteTool,
      CompleteToolExecution, UnknownToolExecution, PersistRefresh, PersistSave, PersistRebase, AssertNotCancelled,
      Finish, MonitorStops, Interrupt, FailSync, FailLoad, Release
  <2> QED BY <1>3, <1>6, <2>1, RefreshedSays
<1>7. /\ Pending(w)' => Flagged(st'[w], journal')
      /\ pc'[w] = "save" => Honest(st'[w], journal')
  <2>1. Flagged(BaseState, journal')
    BY DEF Flagged, BaseState, AbsentRun
  <2>2. CASE st'[w] \in {run, BaseState}
    <3>1. Flagged(st'[w], journal')
      BY <1>4, <2>1, <2>2
    <3> QED BY <1>1, <1>6, <3>1 DEF Prepares
  <2>3. CASE Unclaimed(w) /\ st'[w] = st[w]
    <3>1. Flagged(st'[w], journal')
      BY <1>4, <2>3 DEF Pending
    <3> QED BY <1>1, <1>6, <3>1 DEF Prepares
  <2> QED BY <1>1, <1>6, <2>2, <2>3 DEF Prepares
<1>8. ASSUME NEW v \in Workers
      PROVE  /\ Settled(v)'
             /\ Pending(v)' => Flagged(st'[v], journal')
             /\ pc'[v] = "save" => Honest(st'[v], journal')
             /\ pc'[v] \in Persisting => EndsResolved(st'[v])
  <2>1. CASE v = w
    BY <1>1, <1>7, <2>1 DEF Prepares
  <2>2. CASE v # w
    <3>1. pc'[v] = pc[v] /\ after'[v] = after[v] /\ st'[v] = st[v]
      BY <1>1, <2>2 DEF Alone
    <3>2. (Settled(v)' <=> Settled(v)) /\ (Pending(v)' <=> Pending(v))
      BY <3>1 DEF Settled, Pending, Unclaimed
    <3> QED BY <1>4, <3>1, <3>2
  <2> QED BY <2>1, <2>2
<1>9. \A r \in Reconcilers : rpc'[r] = "save" => Flagged(rst'[r], journal')
  BY <1>4 DEF reconVars
<1> QED BY <1>2, <1>5, <1>8, <1>9 DEF OutcomeInv

\* It stays true when a reconciler moves.
LEMMA ReconOutcome ==
  ASSUME AllInv, NEW r \in Reconcilers, ReconStep(r), UNCHANGED workerVars, [Next]_vars
  PROVE  OutcomeInv'
<1>1. /\ IInv /\ JInv /\ RevInv /\ ResInv /\ TypeOK /\ OutcomeInv
  BY DEF AllInv, IInv
<1>2. AllResolved'
  BY NextAllResolved
<1>3. /\ run \in Runs /\ run.turns \in HeldTurns
      /\ \A v \in Workers : st[v] \in Runs /\ st[v].turns \in HeldTurns
      /\ \A q \in Reconcilers : rst[q].turns \in HeldTurns
      /\ rst[r] \in Runs /\ rst \in [Reconcilers -> Runs] /\ rpc \in [Reconcilers -> RPCs]
  BY <1>1 DEF TypeOK, StoreTypeOK, WorkerTypeOK, ReconTypeOK, HeldTurns
<1>4. /\ Flagged(run, journal') /\ Honest(run, journal') /\ EndsResolved(run)
      /\ \A v \in Workers :
           /\ Settled(v)
           /\ Pending(v) => Flagged(st[v], journal')
           /\ pc[v] = "save" => Honest(st[v], journal')
           /\ pc[v] \in Persisting => EndsResolved(st[v])
      /\ \A q \in Reconcilers : rpc[q] = "save" => Flagged(rst[q], journal')
  BY <1>1, <1>3, FlaggedStays, HonestStays DEF OutcomeInv, Persisting
<1>5. Flagged(run', journal') /\ Honest(run', journal') /\ EndsResolved(run')
  <2>1. CASE run' = run
    BY <1>4, <2>1
  <2>2. CASE RSave(r) /\ SaveRun(rst[r])
    <3>1. rpc[r] = "save" /\ rst[r].status = "queued"
      BY <1>1, <2>2 DEF RSave, RevInv, ReconRev
    <3>2. Same(run', rst[r]) /\ run'.status = "queued"
      BY <1>3, <2>2, <3>1, SavedFields DEF Same
    <3>3. Flagged(run', journal')
      BY <1>4, <3>1, <3>2, SaidOfSame
    <3> QED BY <3>2, <3>3 DEF Honest, EndsResolved
  <2> QED BY <2>1, <2>2
      DEF ReconStep, storeVars, RAcquire, RLoadState, RLoadEntry, RVerify, RCompleteRow,
          RProject, RSave, RRelease
<1>6. \A v \in Workers :
        /\ Settled(v)'
        /\ Pending(v)' => Flagged(st'[v], journal')
        /\ pc'[v] = "save" => Honest(st'[v], journal')
        /\ pc'[v] \in Persisting => EndsResolved(st'[v])
  BY <1>4 DEF workerVars, Settled, Pending, Unclaimed
<1>7. ASSUME NEW q \in Reconcilers, rpc'[q] = "save" PROVE Flagged(rst'[q], journal')
  <2>1. CASE q # r
    BY <1>1, <1>4, <1>7, <2>1, ReconOrigins
  <2>2. CASE q = r
    <3>1. RProject(r)
      BY <1>3, <1>7, <2>2
      DEF ReconStep, RAcquire, RLoadState, RLoadEntry, RVerify, RCompleteRow, RSave, RRelease,
          RLeave, RProceed, RGoto
    <3> DEFINE new == Requeued(rst[r], rid[r])
    <3>2. new \in Runs
      <4>1. rid[r] \in CallIds
        BY <1>1, <3>1 DEF RProject, IInv, RCalled
      <4>2. WithEvidence(rst[r].turns, ProviderId(rid[r])) \in Transcripts
        BY <1>3, <4>1, RunFields, ProviderIdType, WithEvidenceType
      <4>3. rst[r].recon \cup {rid[r]} \in SUBSET CallIds
        BY <1>3, <4>1, RunFields
      <4> QED BY <1>3, <4>2, <4>3 DEF Requeued, Runs, Statuses
    <3>3. rst'[r] = Refreshed(new) /\ journal' = journal
      BY <1>3, <3>1 DEF RProject, storeVars
    <3> HIDE DEF new
    <3> QED BY <2>2, <3>2, <3>3, RefreshedSays
  <2> QED BY <2>1, <2>2
<1> QED BY <1>2, <1>5, <1>6, <1>7 DEF OutcomeInv

\* It stays true in every step.
LEMMA NextOutcome == ASSUME AllInv, [Next]_vars PROVE OutcomeInv'
<1>1. ASSUME NEW w \in Workers, WorkerStep(w), UNCHANGED reconVars PROVE OutcomeInv'
  BY <1>1, WorkerOutcome
<1>2. ASSUME NEW r \in Reconcilers, ReconStep(r), UNCHANGED workerVars PROVE OutcomeInv'
  BY <1>2, ReconOutcome
<1>3. ASSUME UNCHANGED <<workerVars, reconVars, journal>>,
             run' = run \/ (Same(run', run) /\ run'.status # "completed")
      PROVE  OutcomeInv'
  <2>1. AllResolved' /\ OutcomeInv
    BY NextAllResolved DEF AllInv
  <2>2. Flagged(run', journal') /\ Honest(run', journal') /\ EndsResolved(run')
    <3>1. CASE run' = run
      BY <1>3, <2>1, <3>1 DEF OutcomeInv
    <3>2. CASE Same(run', run) /\ run'.status # "completed"
      <4>1. Flagged(run', journal')
        BY <1>3, <2>1, <3>2, SaidOfSame DEF OutcomeInv
      <4> QED BY <3>2, <4>1 DEF Honest, EndsResolved
    <3> QED BY <1>3, <3>1, <3>2
  <2> QED BY <1>3, <2>1, <2>2
          DEF OutcomeInv, workerVars, reconVars, Settled, Pending, Unclaimed
<1>4. ASSUME NEW mode \in CancelModes, CancelAgentState(mode)
      PROVE  Same(run', run) /\ run'.status # "completed" /\ journal' = journal
  <2>1. PICK s \in {"cancelled", "cancel_requested"} : SaveRun([run EXCEPT !.status = s])
    BY <1>4 DEF CancelAgentState
  <2>2. /\ run \in Runs /\ [run EXCEPT !.status = s] \in Runs
    BY StatusType, StoreTypes DEF Statuses, AllInv, IInv
  <2> DEFINE q == [run EXCEPT !.status = s]
  <2>3. q.turns = run.turns /\ q.needs = run.needs /\ q.recon = run.recon /\ q.status = s
    BY <2>2, StatusFields
  <2>4. q \in Runs /\ SaveRun(q)
    BY <2>1, <2>2
  <2> HIDE DEF q
  <2>5. /\ run'.turns = q.turns /\ run'.needs = q.needs /\ run'.recon = q.recon
        /\ run'.status = q.status
    BY <2>4, SavedFields
  <2> QED BY <1>4, <2>3, <2>5 DEF Same, CancelAgentState
<1> QED BY <1>1, <1>2, <1>3, <1>4 DEF Next, vars, storeVars, ExpireLease

\* Initially nothing is stored.
LEMMA InitOutcome == Init => OutcomeInv
<1> SUFFICES ASSUME Init PROVE OutcomeInv
  OBVIOUS
<1>1. /\ run = AbsentRun /\ AbsentRun.turns = <<>> /\ AbsentRun.status = "absent"
      /\ \A w \in Workers : st[w] = AbsentRun /\ pc[w] = "idle"
      /\ \A r \in Reconcilers : rst[r] = AbsentRun /\ rpc[r] = "idle"
  BY DEF Init, StoreInit, WorkerInit, ReconInit, AbsentRun
<1>2. AllResolved
  BY <1>1 DEF AllResolved, HeldTurns
<1> QED BY <1>1, <1>2
        DEF OutcomeInv, Flagged, Honest, EndsResolved, Settled, Pending, Unclaimed, ModelPCs,
            Persisting

\* The outcome invariant holds in every reachable state: what a checkpoint says
\* of its calls is what the journal said when it was refreshed, and the calls
\* claimed since are none of its own (refreshAgentTaskOutcome).
THEOREM OutcomeInvariance == Spec => []AllInv
<1>1. AllInv /\ [Next]_vars => OutcomeInv'
  BY NextOutcome
<1> QED BY <1>1, InitOutcome, EvidenceInvariance, PTL DEF Spec, AllInv

\* A call that was answered with an error while its effect, or the outcome that
\* was confirmed for it, is unknown to the run keeps it from being resumed.
THEOREM UnknownFlagged == Spec => []IndeterminateFlagged
<1>1. AllInv => IndeterminateFlagged
  BY DEF AllInv, OutcomeInv, Flagged, Unknown, Open, IndeterminateFlagged
<1> QED BY <1>1, OutcomeInvariance, PTL

\* A run that is stored as completed with nothing to reconcile hides no call of
\* unknown effect, but for those its results say nothing of.
THEOREM CompletionHonest == Spec => []OutcomeHonest
<1>1. AllInv => OutcomeHonest
  <2> SUFFICES ASSUME AllInv, run.status = "completed", ~run.needs,
                      NEW i \in DOMAIN run.turns, run.turns[i].op # Final,
                      run.turns[i].res \notin {Evidence, ClaimError},
                      run.turns[i].res = NoResult => FirstUse(i)
               PROVE  journal[CallOf(run.turns, i)].status # "running"
    BY DEF OutcomeHonest
  <2>1. ~Silent(run.turns, i)
    BY DEF Silent, PassedOver, FirstUse
  <2> QED BY <2>1 DEF AllInv, OutcomeInv, Honest
<1> QED BY <1>1, OutcomeInvariance, PTL

----------------------------------------------------------------------------
(* The run as one process would write it *)

\* The statuses of a run that an invocation drives.
Driving == {"running", "cancel_requested", "cancelled"}

\* What is claimed may be driven on.
ClaimOK(w) == Unclaimed(w) => Resumes(st[w])

\* The last write of an invocation at work says that the run is driven, or, once the loop
\* is over, what the turn it ends with says.
InLoop(w) == \/ pc[w] \in {"claimResync", "ready"} \cup ModelPCs \cup ToolPCs
             \/ pc[w] = "acquire" /\ after[w] = "fresh"
             \/ pc[w] \in Persisting /\ after[w] \in {"step", "tools", "recovered"}
Ending(w) == \/ pc[w] = "finish"
             \/ pc[w] = "assert" /\ after[w] # "finish"
StatusAfter(r) == IF LastTurn(r).op = Final THEN "completed" ELSE "running"
DrivenOK(w) ==
  /\ InLoop(w) => base[w].status \in Driving
  /\ Ending(w) => /\ base[w].turns # <<>>
                  /\ IsCancelled(base[w]) \/ base[w].status = StatusAfter(base[w])

\* A write that was moved over a cancellation has the cancellation beneath it.
MovedOK(w) == Writing(w) /\ IsCancelled(st[w]) => IsCancelled(base[w])

\* A checkpoint is one step ahead of the last one: a response, a result, or nothing but
\* the end.
AddsResponse(w) ==
  \E turn \in NewTurns :
    /\ st[w].turns = Append(base[w].turns, turn)
    /\ \/ st[w].status = IF turn = FinalTurn THEN "completed" ELSE "running"
       \/ IsCancelled(st[w])
AddsResult(w) ==
  /\ EndsWithCall(base[w]) /\ Awaits(base[w])
  /\ \E res \in Results \ {NoResult} :
       st[w].turns = [base[w].turns EXCEPT ![Len(base[w].turns)].res = res]
  /\ st[w].status = "running" \/ IsCancelled(st[w])
AddsNothing(w) ==
  /\ st[w].turns = base[w].turns
  /\ \/ st[w].status = "failed" \/ IsCancelled(st[w])
     \/ /\ st[w].status = "completed" /\ base[w].turns # <<>>
        /\ IsCancelled(base[w]) \/ base[w].status = StatusAfter(base[w])
AddsOneStep(w) ==
  pc[w] \in Persisting =>
    /\ after[w] = "step" => AddsResponse(w)
    /\ after[w] \in {"tools", "recovered"} => AddsResult(w)
    /\ after[w] \in {"finish", "exhausted"} => AddsNothing(w)

Course(w) == ClaimOK(w) /\ DrivenOK(w) /\ MovedOK(w) /\ AddsOneStep(w)

\* Where nothing is driven, claimed or written there is nothing to show.
Bystander(w) == \/ pc[w] \in Gone
                \/ pc[w] \in Persisting /\ after[w] = "failure"

\* An invocation that has nothing to write is on course.
LEMMA CourseAside == ASSUME NEW w \in Workers, Bystander(w)' PROVE Course(w)'
BY DEF Bystander, Gone, Course, ClaimOK, DrivenOK, MovedOK, AddsOneStep, Unclaimed, InLoop, Ending,
       Writing, Persisting, ModelPCs, ToolPCs

\* Leaving.
LEMMA CourseLeaves ==
  ASSUME TypeOK, NEW w \in Workers, NEW there \in Gone, Leave(w, there) \/ Proceed(w, there)
  PROVE  Course(w)'
BY Leaving, Proceeding, CourseAside DEF Bystander

\* An error of a write.
LEMMA CourseErrs ==
  ASSUME TypeOK, NEW w \in Workers, PersistError(w) PROVE Course(w)' /\ pc'[w] \in Gone
<1>1. \/ Proceed(w, "failSync") \/ Leave(w, "threw") \/ Leave(w, "release")
  BY DEF PersistError
<1>2. {"failSync", "threw", "release"} \subseteq Gone
  BY DEF Gone
<1>3. Course(w)'
  BY <1>1, <1>2, CourseLeaves
<1>4. pc'[w] \in Gone
  BY <1>1, <1>2, Leaving, Proceeding
<1> QED BY <1>3, <1>4

\* Going on with the checkpoint as it is.
LEMMA CourseKept ==
  ASSUME NEW w \in Workers, Course(w), Keeps(w),
         Unclaimed(w)' => Unclaimed(w),
         InLoop(w)' => InLoop(w),
         Ending(w)' => Ending(w),
         pc'[w] \in Persisting => pc[w] \in Persisting
  PROVE  Course(w)'
<1>1. /\ StatusAfter(base[w])' = StatusAfter(base[w])
      /\ EndsWithCall(base[w])' = EndsWithCall(base[w]) /\ Awaits(base[w])' = Awaits(base[w])
  BY DEF Keeps, LastTurn, StatusAfter, EndsWithCall, Awaits
<1>2. ClaimOK(w)'
  BY DEF Course, ClaimOK, Keeps, Resumes
<1>3. DrivenOK(w)'
  BY <1>1 DEF Course, DrivenOK, Keeps, IsCancelled
<1>4. MovedOK(w)'
  BY DEF Course, MovedOK, Keeps, IsCancelled, Writing
<1>5. AddsOneStep(w)'
  BY <1>1 DEF Course, AddsOneStep, AddsResponse, AddsResult, AddsNothing, Keeps, IsCancelled
<1> QED BY <1>2, <1>3, <1>4, <1>5 DEF Course
----------------------------------------------------------------------------
\* Taking a run that is stored, or a fresh one.
LEMMA TakeCourse ==
  ASSUME TypeOK, NEW w \in Workers, after[w] = "step", TakeLoaded(w) PROVE Course(w)'
<1>1. CASE Resumes(run)
  <2>1. Set(w, run) /\ Goto(w, "acquire") /\ UNCHANGED <<after, base>>
    BY <1>1 DEF TakeLoaded
  <2>2. pc'[w] = "acquire" /\ after'[w] = "step" /\ st'[w] = run
    BY <2>1, Setting
  <2>3. Resumes(st'[w])
    BY <1>1, <2>2
  <2> QED BY <2>2, <2>3
          DEF Course, ClaimOK, DrivenOK, MovedOK, AddsOneStep, Unclaimed, InLoop, Ending, Writing,
              Persisting, ModelPCs, ToolPCs, Resumes
<1>2. CASE ~Resumes(run)
  BY <1>2, CourseLeaves DEF TakeLoaded, Gone
<1> QED BY <1>1, <1>2

\* Resolving the run an invocation works on.
LEMMA ResolveCourse ==
  ASSUME TypeOK, RevInv, NEW w \in Workers, Course(w),
         ResolveLoaded(w) \/ ResolveFresh(w) \/ ClaimIdempotencyKey(w)
  PROVE  Course(w)'
<1>1. pc[w] \in {"idle", "claimKey"} /\ after[w] = "step"
  BY DEF RevInv, WorkerRev, UnclaimedOK, ResolveLoaded, ResolveFresh, ClaimIdempotencyKey
<1>2. ASSUME TakeLoaded(w) PROVE Course(w)'
  BY <1>1, <1>2, TakeCourse
<1>3. CASE ResolveFresh(w)
  <2>1. pc'[w] \in {"claimKey", "claimSync"} /\ st'[w] = BaseState
    BY <1>3 DEF ResolveFresh, Set, Goto, TypeOK, WorkerTypeOK
  <2>2. Resumes(BaseState)
    BY DEF Resumes, BaseState, AbsentRun, IsCancelled
  <2> QED BY <2>1, <2>2
          DEF Course, ClaimOK, DrivenOK, MovedOK, AddsOneStep, Unclaimed, InLoop, Ending, Writing,
              Persisting, ModelPCs, ToolPCs, Resumes, IsCancelled
<1>4. CASE ClaimIdempotencyKey(w) /\ ~TakeLoaded(w)
  <2>1. Proceed(w, "acquire") /\ pc[w] = "claimKey"
    BY <1>4 DEF ClaimIdempotencyKey
  <2>2. pc'[w] = "acquire" /\ Keeps(w)
    BY <2>1, Proceeding
  <2> QED BY <1>1, <2>1, <2>2, CourseKept
          DEF Unclaimed, InLoop, Ending, Persisting, ModelPCs, ToolPCs, Keeps
<1> QED BY <1>2, <1>3, <1>4 DEF ResolveLoaded

\* The lease is asked for, and the record read again before it is claimed.
LEMMA AcquireCourse ==
  ASSUME TypeOK, NEW w \in Workers, Course(w),
         AcquireExecutionLease(w) \/ ClaimSync(w) \/ ClaimResync(w)
  PROVE  Course(w)'
<1>1. ASSUME LeaveClaim(w) PROVE Course(w)'
  <2>1. {"done", "release"} \subseteq Gone
    BY DEF Gone
  <2> QED BY <1>1, <2>1, CourseLeaves DEF LeaveClaim
<1>2. CASE AcquireExecutionLease(w)
  <2>1. CASE LeaseAvailable(w)
    <3>1. /\ pc[w] = "acquire" /\ after'[w] = "step" /\ st'[w] = st[w] /\ base'[w] = base[w]
          /\ pc'[w] = IF after[w] = "fresh" THEN "ready" ELSE "claimSync"
      BY <1>2, <2>1 DEF AcquireExecutionLease, Goto, Purpose, TypeOK, WorkerTypeOK
    <3>2. CASE after[w] = "fresh"
      BY <3>1, <3>2
      DEF Course, ClaimOK, DrivenOK, MovedOK, AddsOneStep, Unclaimed, InLoop, Ending, Writing,
          Persisting, ModelPCs, ToolPCs, Resumes, IsCancelled
    <3>3. CASE after[w] # "fresh"
      BY <3>1, <3>3
      DEF Course, ClaimOK, DrivenOK, MovedOK, AddsOneStep, Unclaimed, InLoop, Ending, Writing,
          Persisting, ModelPCs, ToolPCs, Resumes, IsCancelled
    <3> QED BY <3>2, <3>3
  <2>2. CASE ~LeaseAvailable(w)
    BY <1>2, <2>2, CourseLeaves DEF AcquireExecutionLease, Gone
  <2> QED BY <2>1, <2>2
<1>3. CASE ClaimSync(w) /\ ~IsCancelled(run)
  <2>1. pc[w] = "claimSync" /\ pc'[w] = "claimSave" /\ Keeps(w)
    BY <1>3, Proceeding DEF ClaimSync
  <2> QED BY <2>1, CourseKept DEF Unclaimed, InLoop, Ending, Persisting, ModelPCs, ToolPCs
<1>4. CASE ClaimResync(w) /\ ~IsCancelled(run)
  <2>1. /\ pc[w] = "claimResync" /\ Keeps(w)
        /\ pc'[w] = IF after[w] = "fresh" THEN "acquire" ELSE "ready"
    BY <1>4, Proceeding DEF ClaimResync
  <2> QED BY <2>1, CourseKept DEF Unclaimed, InLoop, Ending, Persisting, ModelPCs, ToolPCs, Keeps
<1> QED BY <1>1, <1>2, <1>3, <1>4 DEF ClaimSync, ClaimResync

\* The claim is stored; what is in memory is what was stored.
LEMMA ClaimSaveCourse ==
  ASSUME TypeOK, NEW w \in Workers, Course(w), ClaimSave(w) PROVE Course(w)'
<1> DEFINE r == [st[w] EXCEPT !.status = "running"]
<1>1. CASE ~RevisionMatches(r)
  <2>1. {"done", "release"} \subseteq Gone
    BY DEF Gone
  <2> QED BY <1>1, <2>1, CourseLeaves DEF LeaveClaim, ClaimSave
<1>2. CASE RevisionMatches(r)
  <2>1. SaveRun(r)
    BY <1>2 DEF ClaimSave
  <2>2. run'.status = "running"
    <3>1. st[w] \in Runs /\ "running" \in Statuses
      BY StoredTypes DEF Statuses
    <3>2. r \in Runs /\ r.status = "running"
      BY <3>1, StatusType, StatusFields
    <3> HIDE DEF r
    <3> QED BY <2>1, <3>2, SavedFields
  <2>3. pc'[w] = "claimResync" /\ base'[w] = run'
    BY <1>2, Confirming DEF ClaimSave
  <2> QED BY <2>2, <2>3
          DEF Course, ClaimOK, DrivenOK, MovedOK, AddsOneStep, Unclaimed, InLoop, Ending, Writing,
              Persisting, ModelPCs, ToolPCs, Driving
<1> QED BY <1>1, <1>2

\* The loop is entered with room for a step, or the run fails exhausted.
LEMMA ReadyCourse ==
  ASSUME TypeOK, RevInv, NEW w \in Workers, Course(w), Ready(w) PROVE Course(w)'
<1>1. CASE Exhausted(st[w])
  <2> DEFINE r == [st[w] EXCEPT !.status = "failed"]
  <2>1. r.turns = st[w].turns /\ r.status = "failed"
    BY StoredTypes, StatusFields
  <2> HIDE DEF r
  <2>2. /\ pc'[w] = "refresh" /\ after'[w] = "exhausted" /\ st'[w] = r /\ base'[w] = base[w]
    BY <1>1, Preparing DEF Ready, r
  <2>3. st[w] = base[w]
    BY DEF RevInv, WorkerRev, BasedOK, Owns, Ready
  <2> QED BY <2>1, <2>2, <2>3
          DEF Course, ClaimOK, DrivenOK, MovedOK, AddsOneStep, AddsNothing, Unclaimed, InLoop,
              Ending, Writing, Persisting, ModelPCs, ToolPCs, IsCancelled
<1>2. CASE ~Exhausted(st[w]) /\ ~Unresolved(st[w])
  <2>1. pc[w] = "ready" /\ Keeps(w) /\ pc'[w] = "modelCheck"
    BY <1>2, Proceeding DEF Ready
  <2> QED BY <2>1, CourseKept DEF Unclaimed, InLoop, Ending, Persisting, ModelPCs, ToolPCs
<1>3. CASE ~Exhausted(st[w]) /\ Unresolved(st[w])
  <2>1. /\ pc[w] = "ready" /\ pc'[w] = "toolCheck" /\ after'[w] = "recovered"
        /\ st'[w] = st[w] /\ base'[w] = base[w]
    BY <1>3 DEF Ready, Goto, Purpose, TypeOK, WorkerTypeOK
  <2> QED BY <2>1
          DEF Course, ClaimOK, DrivenOK, MovedOK, AddsOneStep, Unclaimed, InLoop, Ending,
              Writing, Persisting, ModelPCs, ToolPCs
<1> QED BY <1>1, <1>2, <1>3

\* The checks before the model and the tool, and the tool itself.
LEMMA HookCourse ==
  ASSUME TypeOK, NEW w \in Workers, Course(w),
         BeforeModelStep(w) \/ BeforeToolExecution(w) \/ ExecuteTool(w)
  PROVE  Course(w)'
<1>1. CASE Leave(w, "release")
  BY <1>1, CourseLeaves DEF Gone
<1>2. CASE ~Leave(w, "release")
  <2>1. pc[w] \in ModelPCs \cup ToolPCs /\ Keeps(w) /\ pc'[w] \in ModelPCs \cup ToolPCs
    BY <1>2, Proceeding DEF BeforeModelStep, BeforeToolExecution, ExecuteTool, ModelPCs, ToolPCs
  <2> QED BY <2>1, CourseKept DEF Unclaimed, InLoop, Ending, Persisting, ModelPCs, ToolPCs
<1> QED BY <1>1, <1>2

\* The model answers: a response is added.
LEMMA ModelCourse ==
  ASSUME TypeOK, RevInv, NEW w \in Workers, Course(w), ModelStep(w) PROVE Course(w)'
<1>1. pc[w] = "model" /\ st[w] = base[w] /\ st[w] \in Runs
  BY StoredTypes DEF RevInv, WorkerRev, BasedOK, Owns, ModelStep, ModelPCs
<1>2. PICK turn \in NewTurns :
        Set(w, [st[w] EXCEPT !.turns = Append(@, turn),
                             !.status = IF turn = FinalTurn THEN "completed" ELSE "running"])
  BY DEF ModelStep, NewTurns
<1> DEFINE s == IF turn = FinalTurn THEN "completed" ELSE "running"
           r == [st[w] EXCEPT !.turns = Append(@, turn), !.status = s]
<1>3. r.turns = Append(st[w].turns, turn) /\ r.status = s
  BY <1>1 DEF Runs
<1>4. pc'[w] = "refresh" /\ after'[w] = "step" /\ st'[w] = r /\ base'[w] = base[w]
  BY <1>2, Preparing DEF ModelStep
<1> HIDE DEF r
<1>5. /\ st'[w].turns = Append(base'[w].turns, turn)
      /\ st'[w].status = IF turn = FinalTurn THEN "completed" ELSE "running"
  BY <1>1, <1>3, <1>4
<1>6. AddsResponse(w)'
  BY <1>5 DEF AddsResponse
<1>7. st'[w].status \in {"completed", "running"}
  BY <1>5
<1> QED BY <1>1, <1>4, <1>6, <1>7
        DEF Course, ClaimOK, DrivenOK, MovedOK, AddsOneStep, Unclaimed, InLoop,
            Ending, Writing, Persisting, ModelPCs, ToolPCs, IsCancelled

\* The last call gets its result.
LEMMA RecordCourse ==
  ASSUME IInv, RevInv, NEW w \in Workers, Course(w), pc[w] \in ToolPCs,
         NEW res \in Results \ {NoResult}, RecordResult(w, res)
  PROVE  Course(w)'
<1>1. /\ TypeOK /\ st[w] = base[w] /\ EndsWithCall(st[w]) /\ Awaits(st[w]) /\ InLoop(w)
  BY CallType DEF IInv, RevInv, WorkerRev, BasedOK, CancelOK, Owns, InLoop
<1>2. /\ st'[w].turns = [st[w].turns EXCEPT ![Len(st[w].turns)].res = res]
      /\ st'[w].status = "running" /\ pc'[w] = "refresh" /\ base'[w] = base[w]
      /\ after'[w] \in {"tools", "recovered"}
  BY <1>1, Recorded
<1>3. EndsWithCall(base[w])' /\ Awaits(base[w])'
  BY <1>1, <1>2 DEF EndsWithCall, Awaits, LastTurn
<1>4. AddsResult(w)'
  BY <1>1, <1>2, <1>3 DEF AddsResult
<1> QED BY <1>1, <1>2, <1>4
        DEF Course, ClaimOK, DrivenOK, MovedOK, AddsOneStep, Unclaimed, InLoop,
            Ending, Writing, Persisting, ModelPCs, ToolPCs, IsCancelled

\* The journal is written, and the result of the call goes into the checkpoint.
LEMMA ToolCourse ==
  ASSUME IInv, JInv, RevInv, NEW w \in Workers, Course(w),
         \/ ClaimToolExecution(w) \/ ClaimFails(w) \/ CompleteToolExecution(w)
         \/ UnknownToolExecution(w)
  PROVE  Course(w)'
<1>1. TypeOK /\ pc[w] \in ToolPCs
  BY DEF IInv, ClaimToolExecution, ClaimFails, CompleteToolExecution, UnknownToolExecution,
         ToolPCs
<1>2. CASE UnknownToolExecution(w)
  BY <1>1, <1>2, CourseLeaves DEF UnknownToolExecution, Gone
<1>3. CASE ClaimToolExecution(w) /\ Proceed(w, "toolRun")
  <2>1. Keeps(w) /\ pc'[w] = "toolRun"
    BY <1>1, <1>3, Proceeding
  <2> QED BY <1>1, <2>1, CourseKept DEF Unclaimed, InLoop, Ending, Persisting, ModelPCs, ToolPCs
<1>4. ASSUME NEW res \in Results \ {NoResult}, RecordResult(w, res) PROVE Course(w)'
  BY <1>1, <1>4, RecordCourse
<1> QED BY <1>2, <1>3, <1>4, RecordedResult

\* A write is prepared, and its errors.
LEMMA RefreshCourse ==
  ASSUME TypeOK, RevInv, NEW w \in Workers, Course(w), PersistRefresh(w) PROVE Course(w)'
<1>1. /\ pc[w] = "refresh" /\ pc'[w] = "save" /\ after'[w] = after[w] /\ base'[w] = base[w]
      /\ st'[w] = Refreshed(st[w])
  BY Setting DEF PersistRefresh
<1>2. st'[w].turns = st[w].turns /\ st'[w].status = st[w].status
  BY <1>1, StoredTypes, RefreshedFields
<1>3. /\ StatusAfter(base[w])' = StatusAfter(base[w])
      /\ EndsWithCall(base[w])' = EndsWithCall(base[w]) /\ Awaits(base[w])' = Awaits(base[w])
  BY <1>1 DEF LastTurn, StatusAfter, EndsWithCall, Awaits
<1>4. AddsOneStep(w)'
  BY <1>1, <1>2, <1>3
  DEF Course, AddsOneStep, AddsResponse, AddsResult, AddsNothing, Persisting, IsCancelled
<1>5. DrivenOK(w)' /\ MovedOK(w)' /\ ClaimOK(w)'
  BY <1>1, <1>2
  DEF Course, ClaimOK, DrivenOK, MovedOK, Unclaimed, InLoop,
      Ending, Writing, Persisting, ModelPCs, ToolPCs, IsCancelled
<1> QED BY <1>4, <1>5 DEF Course

\* A write that took place is what its step says.
LEMMA SaveCourse ==
  ASSUME TypeOK, RevInv, NEW w \in Workers, Course(w), PersistSave(w) PROVE Course(w)'
<1>1. pc[w] = "save" /\ st[w] \in Runs /\ WritingOK(w) /\ base[w] \in Runs
  BY StoredTypes DEF RevInv, WorkerRev, PersistSave
<1>2. CASE PersistError(w)
  BY <1>2, CourseErrs
<1>3. CASE ~RevisionMatches(st[w]) /\ ~PersistError(w)
  <2>1. Keeps(w) /\ pc'[w] = "rebase"
    BY <1>3, Proceeding DEF PersistSave
  <2> QED BY <1>1, <2>1, CourseKept
          DEF Unclaimed, InLoop, Ending, Persisting, ModelPCs, ToolPCs, Keeps
<1>4. CASE Leave(w, "release")
  BY <1>4, CourseLeaves DEF Gone
<1>5. CASE RevisionMatches(st[w]) /\ ~Leave(w, "release")
  <2>1. SaveRun(st[w]) /\ after[w] \in Checkpoints
    BY <1>5 DEF PersistSave
  <2>2. run'.turns = st[w].turns /\ run'.status = st[w].status
    BY <1>1, <2>1, SavedFields
  <2>3. pc'[w] \in AfterSave(w) /\ after'[w] = after[w] /\ st'[w] = run' /\ base'[w] = run'
    BY <1>5, <2>1, Confirming DEF PersistSave
  <2>4. /\ LastTurn(base'[w]) = LastTurn(st[w]) /\ base'[w].turns = st[w].turns
        /\ base'[w].status = st[w].status
    BY <2>2, <2>3 DEF LastTurn
  <2>5. CASE after[w] = "step"
    <3>1. AddsResponse(w) /\ Awaits(st[w])
      BY <1>1, <2>5 DEF Course, AddsOneStep, Persisting, WritingOK
    <3>2. PICK turn \in NewTurns :
            /\ st[w].turns = Append(base[w].turns, turn)
            /\ \/ st[w].status = IF turn = FinalTurn THEN "completed" ELSE "running"
               \/ IsCancelled(st[w])
      BY <3>1 DEF AddsResponse
    <3>3. LastTurn(st[w]) = turn
      BY <1>1, <3>2, RunFields DEF LastTurn
    <3>4. turn.op = Final <=> turn = FinalTurn
      BY TurnType DEF NewTurns, Turns, Results
    <3>5. /\ base'[w].turns # <<>>
          /\ IsCancelled(base'[w]) \/ base'[w].status = StatusAfter(base'[w])
      BY <2>4, <3>1, <3>2, <3>3, <3>4 DEF StatusAfter, IsCancelled, Awaits
    <3>6. pc'[w] = "assert"
      BY <2>3, <2>5 DEF AfterSave
    <3> QED BY <2>3, <2>5, <3>5, <3>6
            DEF Course, ClaimOK, DrivenOK, MovedOK, AddsOneStep, Unclaimed, InLoop,
                Ending, Writing, Persisting, ModelPCs, ToolPCs
  <2>6. CASE after[w] \in {"tools", "recovered"}
    <3>1. st[w].status \in Driving
      BY <1>1, <2>6 DEF Course, AddsOneStep, AddsResult, Persisting, Driving, IsCancelled
    <3>2. HasResult(st[w])
      BY <1>1, <2>6 DEF WritingOK, Persisting
    <3>3. /\ base'[w].turns # <<>>
          /\ IsCancelled(base'[w]) \/ base'[w].status = StatusAfter(base'[w])
      BY <2>4, <3>1, <3>2 DEF StatusAfter, IsCancelled, Driving, HasResult
    <3>4. pc'[w] \in {"finish", "modelCheck"}
      BY <2>3, <2>6 DEF AfterSave
    <3> QED BY <2>2, <2>3, <2>6, <3>1, <3>3, <3>4
            DEF Course, ClaimOK, DrivenOK, MovedOK, AddsOneStep, Unclaimed, InLoop,
                Ending, Writing, Persisting, ModelPCs, ToolPCs
  <2>7. CASE after[w] = "finish"
    <3>1. pc'[w] = "assert"
      BY <2>3, <2>7 DEF AfterSave
    <3> QED BY <2>3, <2>7, <3>1
            DEF Course, ClaimOK, DrivenOK, MovedOK, AddsOneStep, Unclaimed, InLoop,
                Ending, Writing, Persisting, ModelPCs, ToolPCs
  <2> QED BY <2>1, <2>5, <2>6, <2>7 DEF Checkpoints
<1> QED BY <1>2, <1>3, <1>4, <1>5

\* A write moved over a cancellation has the transcript beneath it unchanged.
LEMMA RebaseCourse ==
  ASSUME TypeOK, RevInv, NEW w \in Workers, Course(w), PersistRebase(w) PROVE Course(w)'
<1>1. pc[w] = "rebase" /\ st[w] \in Runs
  BY StoredTypes DEF PersistRebase
<1>2. CASE ~CancellationOnly(base[w], run)
  BY <1>2, CourseLeaves DEF PersistRebase, Gone
<1>3. CASE CancellationOnly(base[w], run)
  <2> DEFINE r == [st[w] EXCEPT !.status = run.status, !.rev = run.rev]
  <2>1. IsCancelled(run) /\ run.turns = base[w].turns
    BY <1>3 DEF CancellationOnly
  <2>2. r.turns = st[w].turns /\ r.status = run.status
    BY <1>1 DEF Runs
  <2>3. Goto(w, "refresh") /\ Set(w, r) /\ base' = [base EXCEPT ![w] = run] /\ UNCHANGED after
    BY <1>3 DEF PersistRebase
  <2> HIDE DEF r
  <2>4. pc'[w] = "refresh" /\ after'[w] = after[w] /\ st'[w] = r /\ base'[w] = run
    BY <2>3, Confirming
  <2>5. /\ base'[w].turns = base[w].turns /\ st'[w].turns = st[w].turns
        /\ IsCancelled(base'[w]) /\ IsCancelled(st'[w]) /\ base'[w].status \in Driving
    BY <2>1, <2>2, <2>4 DEF IsCancelled, Driving
  <2>6. EndsWithCall(base'[w]) = EndsWithCall(base[w]) /\ Awaits(base'[w]) = Awaits(base[w])
    BY <2>5 DEF EndsWithCall, Awaits, LastTurn
  <2>7. AddsOneStep(w)'
    BY <1>1, <2>4, <2>5, <2>6
    DEF Course, AddsOneStep, AddsResponse, AddsResult, AddsNothing, Persisting
  <2>8. DrivenOK(w)' /\ MovedOK(w)' /\ ClaimOK(w)'
    BY <2>4, <2>5
    DEF ClaimOK, DrivenOK, MovedOK, Unclaimed, InLoop,
        Ending, Writing, Persisting, ModelPCs, ToolPCs
  <2> QED BY <2>7, <2>8 DEF Course
<1> QED BY <1>2, <1>3

\* The last checks and the return.
LEMMA EndCourse ==
  ASSUME TypeOK, RevInv, NEW w \in Workers, Course(w), AssertNotCancelled(w) \/ Finish(w)
  PROVE  Course(w)'
<1>1. st[w] = base[w] /\ st[w] \in Runs
  BY StoredTypes DEF RevInv, WorkerRev, BasedOK, Owns, AssertNotCancelled, Finish
<1>2. CASE AssertNotCancelled(w)
  <2>1. CASE Leave(w, "release")
    BY <2>1, CourseLeaves DEF Gone
  <2>2. CASE ~Leave(w, "release")
    <3>1. /\ pc[w] = "assert" /\ after[w] # "finish" /\ Keeps(w)
          /\ pc'[w] = IF EndsWithCall(st[w]) THEN "toolCheck" ELSE "finish"
      BY <1>2, <2>2, Proceeding DEF AssertNotCancelled
    <3>2. /\ base[w].turns # <<>>
          /\ IsCancelled(base[w]) \/ base[w].status = StatusAfter(base[w])
      BY <3>1 DEF Course, DrivenOK, Ending
    <3>3. EndsWithCall(st[w]) => base[w].status \in Driving
      BY <1>1, <3>2 DEF StatusAfter, EndsWithCall, Driving, IsCancelled
    <3>4. LastTurn(base[w])' = LastTurn(base[w])
      BY <3>1 DEF LastTurn, Keeps
    <3> QED BY <3>1, <3>2, <3>3, <3>4
            DEF Course, ClaimOK, DrivenOK, MovedOK, AddsOneStep, Unclaimed, InLoop,
                Ending, Writing, Persisting, ModelPCs, ToolPCs, Keeps, StatusAfter, IsCancelled
  <2> QED BY <2>1, <2>2
<1>3. CASE Finish(w)
  <2> DEFINE s == IF Exhausted(st[w]) /\ EndsWithCall(st[w]) THEN "failed" ELSE "completed"
             r == [st[w] EXCEPT !.status = s]
  <2>1. r.turns = st[w].turns /\ r.status = s
    BY <1>1, StatusFields
  <2> HIDE DEF r
  <2>2. pc'[w] = "refresh" /\ after'[w] = "finish" /\ st'[w] = r /\ base'[w] = base[w]
    BY <1>3, Preparing DEF Finish, r
  <2>3. /\ base[w].turns # <<>>
        /\ IsCancelled(base[w]) \/ base[w].status = StatusAfter(base[w])
    BY <1>3 DEF Course, DrivenOK, Ending, Finish
  <2>4. AddsNothing(w)'
    <3>1. StatusAfter(base[w])' = StatusAfter(base[w])
      BY <2>2 DEF StatusAfter, LastTurn
    <3> QED BY <1>1, <2>1, <2>2, <2>3, <3>1 DEF AddsNothing, IsCancelled
  <2>5. ~IsCancelled(st'[w])
    BY <2>1, <2>2 DEF IsCancelled
  <2> QED BY <2>2, <2>4, <2>5
          DEF Course, ClaimOK, DrivenOK, MovedOK, AddsOneStep, Unclaimed, InLoop,
              Ending, Writing, Persisting, ModelPCs, ToolPCs
<1> QED BY <1>2, <1>3

\* The monitor stops an invocation, or it fails, or it releases the lease.
LEMMA StopCourse ==
  ASSUME TypeOK, NEW w \in Workers, Course(w),
         MonitorStops(w) \/ Interrupt(w) \/ FailSync(w) \/ FailLoad(w) \/ Release(w)
  PROVE  Course(w)'
<1>1. {"done", "release", "failSync", "failLoad"} \subseteq Gone
  BY DEF Gone
<1>2. CASE FailLoad(w)
  <2>1. pc'[w] = "refresh" /\ after'[w] = "failure"
    BY <1>2 DEF FailLoad, Goto, Purpose, TypeOK, WorkerTypeOK
  <2> QED BY <2>1, CourseAside DEF Bystander, Persisting
<1>3. CASE PersistError(w)
  BY <1>3, CourseErrs
<1> QED BY <1>1, <1>2, <1>3, CourseLeaves
        DEF MonitorStops, Interrupt, FailSync, Release, LeaveClaim

\* Every step of an invocation.
LEMMA CourseStep ==
  ASSUME IInv, JInv, RevInv, NEW w \in Workers, Course(w), WorkerStep(w) PROVE Course(w)'
<1>1. TypeOK
  BY DEF IInv
<1> QED BY <1>1, ResolveCourse, AcquireCourse, ClaimSaveCourse, ReadyCourse, HookCourse,
           ModelCourse, ToolCourse, RefreshCourse, SaveCourse, RebaseCourse, EndCourse,
           StopCourse DEF WorkerStep

----------------------------------------------------------------------------
\* A failure is of a run that is stored; it keeps the transcript it finds, or lays over it
\* one that is not shorter, where no cancellation is.
Failing(w) == \/ pc[w] \in {"failSync", "failLoad"}
              \/ pc[w] \in Persisting /\ after[w] = "failure"
FailureOK(w) ==
  /\ Failing(w) => run.status # "absent"
  /\ pc[w] \in Persisting /\ after[w] = "failure" =>
       /\ st[w].rev <= run.rev
       /\ st[w].rev = run.rev =>
            \/ st[w].turns = run.turns
            \/ ~IsCancelled(run) /\ Len(st[w].turns) >= Len(run.turns)

\* An invocation begins to fail from its work.
LEMMA FailsFrom ==
  ASSUME TypeOK, NEW w \in Workers, WorkerRev(w), WorkerStep(w),
         ~FailLoad(w), ~PersistRefresh(w), Failing(w)'
  PROVE  /\ pc'[w] \in {"failSync", "failLoad"}
         /\ Failing(w) \/ Owns(w) \/ Writing(w)
<1> DEFINE Here == /\ pc'[w] \in {"failSync", "failLoad"}
                   /\ Failing(w) \/ Owns(w) \/ Writing(w)
           Past == ~Failing(w)'
<1> SUFFICES Here \/ Past
  OBVIOUS
<1>1. ASSUME NEW there, Leave(w, there), there \notin {"failSync", "failLoad"} \cup Persisting
      PROVE  Past
  BY <1>1, Leaving DEF Failing
<1>2. ASSUME NEW there, Proceed(w, there), there \notin {"failSync", "failLoad"} \cup Persisting
      PROVE  Past
  BY <1>2, Proceeding DEF Failing
<1>3. ASSUME PersistError(w), pc[w] \in Persisting PROVE Here \/ Past
  <2>1. CASE after[w] \in Checkpoints
    <3>1. Proceed(w, "failSync") /\ Writing(w)
      BY <1>3, <2>1 DEF PersistError, Writing, Checkpoints
    <3> QED BY <3>1, Proceeding
  <2>2. CASE after[w] \notin Checkpoints
    <3>1. Leave(w, "threw") \/ Leave(w, "release")
      BY <2>2, <1>3 DEF PersistError
    <3> QED BY <3>1, <1>1 DEF Persisting
  <2> QED BY <2>1, <2>2
<1>4. ASSUME Proceed(w, "failSync"), Owns(w) PROVE Here
  BY <1>4, Proceeding
<1>5. ASSUME LeaveClaim(w) PROVE Past
  BY <1>1, <1>5 DEF LeaveClaim, Persisting
<1>6. ASSUME NEW there, NEW r, NEW a, Goto(w, there), Set(w, r), Purpose(w, a), UNCHANGED base,
             a # "failure", there \notin {"failSync", "failLoad"}
      PROVE  Past
  BY <1>6, Preparing DEF Failing
<1>7. ASSUME NEW there, Goto(w, there), there \notin {"failSync", "failLoad"} \cup Persisting
      PROVE  Past
  BY <1>7 DEF Failing, Goto, TypeOK, WorkerTypeOK
<1>8. CASE \/ ResolveLoaded(w) \/ ResolveFresh(w) \/ ClaimIdempotencyKey(w)
           \/ AcquireExecutionLease(w) \/ ClaimSync(w) \/ ClaimSave(w) \/ ClaimResync(w)
  <2>1. CASE TakeLoaded(w)
    BY <1>1, <1>7, <2>1 DEF TakeLoaded, Persisting
  <2> QED BY <1>1, <1>2, <1>5, <1>7, <1>8, <2>1
          DEF ResolveLoaded, ResolveFresh, ClaimIdempotencyKey, AcquireExecutionLease, ClaimSync,
              ClaimSave, ClaimResync, Persisting
<1>9. CASE Ready(w)
  <2>1. CASE Exhausted(st[w])
    BY <1>6, <1>9, <2>1 DEF Ready
  <2>2. CASE ~Exhausted(st[w])
    BY <1>2, <1>7, <1>9, <2>2 DEF Ready, Persisting
  <2> QED BY <2>1, <2>2
<1>10. CASE ModelStep(w)
  BY <1>6, <1>10 DEF ModelStep
<1>11. CASE Finish(w)
  BY <1>6, <1>11 DEF Finish
<1>12. CASE \/ BeforeModelStep(w) \/ BeforeToolExecution(w) \/ ExecuteTool(w)
            \/ AssertNotCancelled(w) \/ MonitorStops(w) \/ Release(w)
  BY <1>1, <1>2, <1>12
  DEF BeforeModelStep, BeforeToolExecution, ExecuteTool, AssertNotCancelled, MonitorStops,
      Release, Persisting
<1>13. CASE ClaimToolExecution(w) \/ ClaimFails(w) \/ CompleteToolExecution(w)
  <2>1. ASSUME NEW res, RecordResult(w, res) PROVE Past
    BY <1>6, <2>1 DEF RecordResult
  <2>2. CASE Proceed(w, "toolRun")
    BY <1>2, <2>2 DEF Persisting
  <2> QED BY <1>13, <2>1, <2>2 DEF ClaimToolExecution, ClaimFails, CompleteToolExecution
<1>14. CASE UnknownToolExecution(w)
  BY <1>4, <1>14 DEF UnknownToolExecution, Owns, ToolPCs
<1>15. CASE PersistSave(w)
  <2>1. CASE PersistError(w)
    BY <1>3, <1>15, <2>1 DEF PersistSave, Persisting
  <2>2. CASE Leave(w, "release")
    BY <1>1, <2>2 DEF Persisting
  <2>3. CASE \E there \in AfterSave(w) : Goto(w, there)
    <3>1. AfterSave(w) \subseteq {"modelCheck", "finish", "assert"}
      BY DEF AfterSave
    <3> QED BY <1>7, <2>3, <3>1 DEF Persisting
  <2>4. CASE Proceed(w, "rebase") /\ after[w] \in Checkpoints
    <3>1. pc'[w] = "rebase" /\ after'[w] = after[w]
      BY <2>4, Proceeding DEF Keeps
    <3> QED BY <2>4, <3>1 DEF Failing, Checkpoints
  <2> QED BY <1>15, <2>1, <2>2, <2>3, <2>4 DEF PersistSave
<1>16. CASE PersistRebase(w)
  <2>1. pc[w] = "rebase" /\ after[w] \in Checkpoints
    BY <1>16 DEF PersistRebase, WorkerRev, WritingOK, Persisting
  <2>2. CASE CancellationOnly(base[w], run)
    <3>1. pc'[w] = "refresh" /\ after'[w] = after[w]
      BY <1>16, <2>2 DEF PersistRebase, Goto, TypeOK, WorkerTypeOK
    <3> QED BY <2>1, <3>1 DEF Failing, Checkpoints
  <2>3. CASE ~CancellationOnly(base[w], run)
    <3>1. pc'[w] = "failSync" /\ Writing(w)
      BY <1>16, <2>1, <2>3, Proceeding DEF PersistRebase, Writing, Persisting, Checkpoints
    <3> QED BY <3>1
  <2> QED BY <2>2, <2>3
<1>17. CASE Interrupt(w)
  <2>1. CASE Proceed(w, "failSync")
               /\ pc[w] \in {"modelCheck", "model", "toolCheck", "toolClaim", "finish", "assert"}
    BY <1>4, <2>1 DEF Owns, ModelPCs, ToolPCs
  <2> QED BY <1>3, <1>5, <1>17, <2>1 DEF Interrupt
<1>18. CASE FailSync(w)
  <2>1. CASE Leave(w, "release")
    BY <1>1, <2>1 DEF Persisting
  <2>2. CASE Proceed(w, "failLoad")
    BY <1>18, <2>2, Proceeding DEF FailSync, Failing
  <2> QED BY <1>18, <2>1, <2>2 DEF FailSync
<1> HIDE DEF Here, Past
<1>19. CASE PersistRefresh(w) \/ FailLoad(w)
  BY <1>19
<1> QED BY <1>8, <1>9, <1>10, <1>11, <1>12, <1>13, <1>14, <1>15, <1>16, <1>17, <1>18, <1>19
        DEF WorkerStep

\* What a failure is laid over.
LEMMA FailureOwn ==
  ASSUME IInv, JInv, RevInv, NEW w \in Workers, FailureOK(w), WorkerStep(w) PROVE FailureOK(w)'
<1>1. /\ TypeOK /\ WorkerRev(w) /\ run \in Runs /\ st[w] \in Runs /\ run.rev \in Nat
      /\ run.turns \in Seq(Turns)
  BY StoredTypes, RunFields DEF IInv, RevInv
<1>2. CASE FailLoad(w)
  <2>1. PICK q \in Runs :
          /\ Set(w, [q EXCEPT !.rev = run.rev, !.status = "failed"])
          /\ q.turns = run.turns \/ (~IsCancelled(run) /\ Len(q.turns) >= Len(run.turns))
    <3>1. OverlaidOn(st[w], run) \in Runs /\ OverlaidOn(st[w], run).turns = st[w].turns
      BY <1>1 DEF OverlaidOn, Runs
    <3>2. CASE /\ ~IsCancelled(run) /\ Len(st[w].turns) >= Len(run.turns)
               /\ Set(w, [OverlaidOn(st[w], run) EXCEPT !.rev = run.rev, !.status = "failed"])
      BY <3>1, <3>2
    <3>3. CASE Set(w, [run EXCEPT !.rev = run.rev, !.status = "failed"])
      BY <1>1, <3>3
    <3> QED BY <1>2, <3>2, <3>3 DEF FailLoad
  <2> DEFINE r == [q EXCEPT !.rev = run.rev, !.status = "failed"]
  <2>2. r.rev = run.rev /\ r.turns = q.turns
    BY DEF Runs
  <2>3. Goto(w, "refresh") /\ Set(w, r) /\ Purpose(w, "failure") /\ UNCHANGED base
        /\ run' = run /\ pc[w] = "failLoad"
    BY <1>2, <2>1 DEF FailLoad, storeVars
  <2> HIDE DEF r
  <2>4. st'[w] = r
    BY <1>1, <2>3, Preparing
  <2>5. run.status # "absent"
    BY <2>3 DEF FailureOK, Failing
  <2> QED BY <1>1, <2>1, <2>2, <2>3, <2>4, <2>5 DEF FailureOK, IsCancelled
<1>3. CASE PersistRefresh(w)
  <2>1. /\ pc[w] = "refresh" /\ pc'[w] = "save" /\ after'[w] = after[w] /\ run' = run
        /\ st'[w] = Refreshed(st[w])
    BY <1>1, <1>3, Setting DEF PersistRefresh, storeVars
  <2>2. st'[w].turns = st[w].turns /\ st'[w].rev = st[w].rev
    BY <1>1, <2>1, RefreshedFields
  <2> QED BY <2>1, <2>2 DEF FailureOK, Failing, Persisting, IsCancelled
<1>4. CASE ~FailLoad(w) /\ ~PersistRefresh(w)
  <2>1. RunStep
    BY WorkerFine DEF Fine
  <2>2. Failing(w)' => /\ pc'[w] \in {"failSync", "failLoad"}
                       /\ Failing(w) \/ Owns(w) \/ Writing(w)
    BY <1>1, <1>4, FailsFrom
  <2>3. Failing(w)' => run'.status # "absent"
    BY <1>1, <2>1, <2>2 DEF RunStep, Advances, FailureOK, WorkerRev, BasedOK
  <2>4. ~(pc'[w] \in Persisting /\ after'[w] = "failure")
    BY <2>2 DEF Failing, Persisting
  <2> QED BY <2>3, <2>4 DEF FailureOK
<1> QED BY <1>2, <1>3, <1>4

\* A failure that waits is overtaken, or nothing has changed.
LEMMA FailureOther ==
  ASSUME TypeOK, RunStep, NEW v \in Workers, FailureOK(v), pc'[v] = pc[v], after'[v] = after[v],
         st'[v] = st[v]
  PROVE  FailureOK(v)'
<1>1. run.rev \in Nat /\ st[v].rev \in Nat
  BY StoredTypes, RunFields
<1>2. Failing(v)' = Failing(v)
  BY DEF Failing
<1>3. CASE run' = run
  BY <1>2, <1>3 DEF FailureOK, IsCancelled
<1>4. CASE Advances
  BY <1>1, <1>2, <1>4 DEF FailureOK, Advances
<1>5. CASE run.status = "absent"
  BY <1>2, <1>5 DEF FailureOK, Failing
<1> QED BY <1>3, <1>4, <1>5 DEF RunStep

----------------------------------------------------------------------------
\* A call that has a row is the call of a turn that is stored, and no invocation has
\* written a transcript longer than the stored one.
RowsStored == \A id \in CallIds : journal[id].status # "absent" => id[1] <= Len(run.turns)
BasesStored == \A w \in Workers : Len(base[w].turns) <= Len(run.turns)

\* A claim stores what was loaded, as a run that is driven.
LEMMA ClaimWrites ==
  ASSUME TypeOK, NEW w \in Workers, WorkerRev(w), ClaimIdempotencyKey(w) \/ ClaimSave(w),
         run' # run
  PROVE  /\ run'.status = "running" /\ run'.turns = st[w].turns
         /\ Unclaimed(w) /\ st[w].rev <= run.rev
         /\ pc[w] = "claimSave" => st[w].rev = run.rev
         /\ pc[w] = "claimKey" => run.status = "absent"
         /\ pc[w] \in {"claimKey", "claimSave"}
<1>1. st[w] \in Runs /\ run \in Runs
  BY StoredTypes
<1>2. CASE ClaimIdempotencyKey(w)
  <2>1. run' = st[w] /\ run.status = "absent" /\ pc[w] = "claimKey"
    BY <1>2 DEF ClaimIdempotencyKey
  <2>2. st[w] = BaseState
    BY <2>1 DEF WorkerRev, UnclaimedOK, Unclaimed
  <2> QED BY <2>1, <2>2 DEF BaseState, AbsentRun, WorkerRev, UnclaimedOK, Unclaimed
<1>3. CASE ClaimSave(w)
  <2> DEFINE r == [st[w] EXCEPT !.status = "running"]
  <2>1. pc[w] = "claimSave" /\ SaveRun(r) /\ RevisionMatches(r)
    BY <1>3 DEF ClaimSave
  <2>2. r \in Runs /\ r.turns = st[w].turns /\ r.status = "running" /\ r.rev = st[w].rev
    <3>1. "running" \in Statuses
      BY DEF Statuses
    <3> QED BY <1>1, <3>1, StatusFields, StatusType
  <2> HIDE DEF r
  <2>3. run'.turns = st[w].turns /\ run'.status = "running"
    BY <2>1, <2>2, SavedFields
  <2> QED BY <2>1, <2>2, <2>3 DEF RevisionMatches, Unclaimed, WorkerRev, UnclaimedOK
<1> QED BY <1>2, <1>3

\* What a checkpoint that goes in writes is not shorter than what it replaces.
LEMMA SaveLength ==
  ASSUME TypeOK, NEW w \in Workers, WorkerRev(w), FailureOK(w), PersistSave(w)
  PROVE  Len(run.turns) <= Len(run'.turns)
<1>1. st[w] \in Runs /\ run \in Runs /\ Len(run.turns) \in Nat /\ Len(st[w].turns) \in Nat
  BY StoredTypes, RunFields
<1>2. CASE run' = run
  BY <1>1, <1>2
<1>3. CASE run' # run
  <2>1. SaveRun(st[w]) /\ st[w].rev = run.rev /\ pc[w] = "save"
    BY <1>3 DEF PersistSave, RevisionMatches
  <2>2. run'.turns = st[w].turns
    BY <1>1, <2>1, SavedFields
  <2>3. CASE after[w] = "failure"
    BY <1>1, <2>1, <2>2, <2>3 DEF FailureOK, Failing, Persisting
  <2>4. CASE after[w] # "failure"
    <3>1. base[w] = run /\ Continues(base[w].turns, st[w].turns)
      BY <2>1, <2>4 DEF WorkerRev, BasedOK, Writing, Persisting
    <3> QED BY <2>2, <3>1 DEF Continues
  <2> QED BY <2>3, <2>4
<1> QED BY <1>2, <1>3

\* The transcript that is stored never gets shorter.
LEMMA LengthKept ==
  ASSUME IInv, JInv, RevInv, [Next]_vars, \A w \in Workers : FailureOK(w)
  PROVE  Len(run.turns) <= Len(run'.turns)
<1>1. TypeOK /\ run \in Runs /\ run.turns \in Seq(Turns) /\ Len(run.turns) \in Nat
      /\ \A w \in Workers : WorkerRev(w)
  BY StoreTypes, RunFields DEF IInv, RevInv
<1>2. CASE run' = run
  BY <1>1, <1>2
<1>3. CASE run' = BaseState /\ run.status = "absent"
  BY <1>3 DEF RevInv, StoredOK, AbsentRun, BaseState
<1>4. CASE Advances /\ run'.status # "failed"
  BY <1>4 DEF Advances, Continues
<1>5. CASE run' # run /\ run'.status = "failed"
  <2>1. ASSUME NEW w \in Workers, WorkerStep(w) PROVE PersistSave(w)
    <3>1. ~(ClaimIdempotencyKey(w) \/ ClaimSave(w))
      BY <1>1, <1>5, <2>1, ClaimWrites
    <3> QED BY <1>5, <2>1, <3>1
            DEF WorkerStep, storeVars, historyVars, ResolveLoaded, ResolveFresh,
                AcquireExecutionLease, ClaimSync, ClaimResync, Ready, BeforeModelStep, ModelStep,
                BeforeToolExecution, ClaimToolExecution, ClaimFails, ExecuteTool,
                CompleteToolExecution, UnknownToolExecution, PersistRefresh, PersistRebase,
                AssertNotCancelled, Finish, MonitorStops, Interrupt, FailSync, FailLoad, Release
  <2>2. ASSUME NEW r \in Reconcilers, ReconStep(r) PROVE FALSE
    <3>1. RSave(r)
      BY <1>5, <2>2 DEF ReconStep, storeVars, RAcquire, RLoadState, RLoadEntry, RVerify,
                         RCompleteRow, RProject, RRelease
    <3>2. SaveRun(rst[r]) /\ rst[r].status = "queued" /\ rst[r] \in Runs
      BY <1>1, <1>5, <3>1 DEF RSave, RevInv, ReconRev, TypeOK, ReconTypeOK
    <3> QED BY <1>5, <3>2, SavedFields
  <2>3. ASSUME NEW mode \in CancelModes, CancelAgentState(mode) PROVE FALSE
    <3> DEFINE s == IF mode = "final" THEN "cancelled" ELSE "cancel_requested"
               r == [run EXCEPT !.status = s]
    <3>1. SaveRun(r) /\ s # "failed" /\ s \in Statuses
      BY <2>3 DEF CancelAgentState, Statuses
    <3> HIDE DEF s
    <3>2. r \in Runs /\ r.status = s
      BY <1>1, <3>1, StatusType, StatusFields
    <3> QED BY <1>5, <3>1, <3>2, SavedFields
  <2>4. PICK w \in Workers : WorkerStep(w)
    BY <1>5, <2>2, <2>3 DEF Next, vars, storeVars, ExpireLease
  <2> QED BY <1>1, <2>1, <2>4, SaveLength
<1> QED BY <1>2, <1>3, <1>4, <1>5, RevNext DEF RunStep

\* The last write of an invocation is the run, when it becomes another.
LEMMA BaseFrom ==
  ASSUME TypeOK, NEW w \in Workers, WorkerStep(w)
  PROVE  base'[w] \in {base[w], AbsentRun, run, run'}
<1> DEFINE Here == base'[w] \in {base[w], AbsentRun, run, run'}
<1> SUFFICES Here
  OBVIOUS
<1>1. base \in [Workers -> Runs]
  BY DEF TypeOK, WorkerTypeOK
<1>2. ASSUME \/ base' = base \/ base' = [base EXCEPT ![w] = AbsentRun]
             \/ base' = [base EXCEPT ![w] = run] \/ base' = [base EXCEPT ![w] = run']
      PROVE  Here
  BY <1>1, <1>2
<1>3. ASSUME NEW there, Leave(w, there) \/ Proceed(w, there) PROVE Here
  BY <1>2, <1>3 DEF Leave, Proceed
<1>4. ASSUME PersistError(w) \/ LeaveClaim(w) \/ TakeLoaded(w) PROVE Here
  BY <1>2, <1>3, <1>4 DEF PersistError, LeaveClaim, TakeLoaded
<1>5. ASSUME NEW res, RecordResult(w, res) PROVE Here
  BY <1>2, <1>5 DEF RecordResult
<1> HIDE DEF Here
<1>6. CASE \/ ResolveLoaded(w) \/ ResolveFresh(w) \/ ClaimIdempotencyKey(w)
           \/ AcquireExecutionLease(w) \/ ClaimSync(w) \/ ClaimSave(w) \/ ClaimResync(w)
           \/ Ready(w)
  BY <1>2, <1>3, <1>4, <1>6
  DEF ResolveLoaded, ResolveFresh, ClaimIdempotencyKey, AcquireExecutionLease, ClaimSync,
      ClaimSave, ClaimResync, Ready
<1>7. CASE \/ BeforeModelStep(w) \/ ModelStep(w) \/ BeforeToolExecution(w) \/ ExecuteTool(w)
           \/ ClaimToolExecution(w) \/ ClaimFails(w) \/ CompleteToolExecution(w)
           \/ UnknownToolExecution(w)
  BY <1>2, <1>3, <1>5, <1>7
  DEF BeforeModelStep, ModelStep, BeforeToolExecution, ExecuteTool, ClaimToolExecution,
      ClaimFails, CompleteToolExecution, UnknownToolExecution
<1>8. CASE \/ PersistRefresh(w) \/ PersistSave(w) \/ PersistRebase(w)
           \/ AssertNotCancelled(w) \/ Finish(w)
  BY <1>2, <1>3, <1>4, <1>8
  DEF PersistRefresh, PersistSave, PersistRebase, AssertNotCancelled, Finish
<1>9. CASE MonitorStops(w) \/ Interrupt(w) \/ FailSync(w) \/ FailLoad(w) \/ Release(w)
  BY <1>2, <1>3, <1>4, <1>9 DEF MonitorStops, Interrupt, FailSync, FailLoad, Release
<1> QED BY <1>6, <1>7, <1>8, <1>9 DEF WorkerStep, Here

\* No step makes a row, or writes a transcript, beyond what is stored.
LEMMA NextStored ==
  ASSUME IInv, JInv, RevInv, [Next]_vars, RowsStored, BasesStored,
         \A w \in Workers : FailureOK(w)
  PROVE  RowsStored' /\ BasesStored'
<1>1. TypeOK /\ Len(run.turns) <= Len(run'.turns) /\ TypeOK'
  BY LengthKept, NextIInv DEF IInv
<1>2. Len(run.turns) \in Nat /\ Len(run'.turns) \in Nat
  BY <1>1, RunFields DEF TypeOK, StoreTypeOK
<1>3. RowsStored'
  <2> SUFFICES ASSUME NEW id \in CallIds, journal'[id].status # "absent"
               PROVE  id[1] <= Len(run'.turns)
    BY DEF RowsStored
  <2>1. id[1] \in Nat
    BY StoreAssumption DEF CallIds
  <2>2. CASE journal[id].status # "absent"
    BY <1>1, <1>2, <2>1, <2>2 DEF RowsStored
  <2>3. CASE journal[id].status = "absent"
    <3>1. PICK w \in Workers : pc[w] = "toolClaim" /\ id = Calling(w)
      BY <2>3, RowMade
    <3>2. st[w] = base[w]
      BY <3>1 DEF RevInv, WorkerRev, BasedOK, Owns, ToolPCs
    <3>3. id[1] = Len(st[w].turns)
      BY <3>1 DEF Calling, LastCall, CallOf
    <3> QED BY <1>1, <1>2, <2>1, <3>2, <3>3 DEF BasesStored
  <2> QED BY <2>2, <2>3
<1>4. BasesStored'
  <2> SUFFICES ASSUME NEW w \in Workers PROVE Len(base'[w].turns) <= Len(run'.turns)
    BY DEF BasesStored
  <2>1. Len(base[w].turns) \in Nat
    BY <1>1, StoredTypes, RunFields
  <2>2. ASSUME base'[w] \in {base[w], AbsentRun, run, run'}
        PROVE  Len(base'[w].turns) <= Len(run'.turns)
    BY <1>1, <1>2, <2>1, <2>2 DEF BasesStored, AbsentRun
  <2>3. CASE UNCHANGED workerVars
    BY <2>2, <2>3 DEF workerVars
  <2>4. ASSUME NEW v \in Workers, WorkerStep(v)
        PROVE  base'[w] \in {base[w], AbsentRun, run, run'}
    BY <1>1, <2>4, BaseFrom, WorkerFine DEF Fine, Alone
  <2> QED BY <2>2, <2>3, <2>4 DEF Next, vars
<1> QED BY <1>3, <1>4

\* A tool that has returned was started.
DoneStarted(w) == pc[w] = "toolDone" => effects[Calling(w)] = 1

\* It was not started again by another.
LEMMA NextDoneStarted ==
  ASSUME IInv, JInv, RevInv, [Next]_vars, NEW w \in Workers,
         \A v \in Workers : DoneStarted(v)
  PROVE  DoneStarted(w)'
<1> SUFFICES ASSUME pc'[w] = "toolDone" PROVE effects'[Calling(w)'] = 1
  BY DEF DoneStarted
<1>1. TypeOK
  BY DEF IInv
<1>2. ASSUME NEW v \in Workers, ExecuteTool(v) PROVE effects'[Calling(w)'] = 1
  <2>1. /\ pc[v] = "toolRun" /\ Alone(v) /\ pc'[v] = "toolDone" /\ st' = st
        /\ effects' = [effects EXCEPT ![Calling(v)] = @ + 1]
    BY <1>1, <1>2, Proceeding DEF ExecuteTool, Proceed, Calling
  <2>2. /\ Calling(v) \in CallIds /\ effects[Calling(v)] = 0 /\ effects \in [CallIds -> Nat]
    BY <2>1, CallType DEF ToolPCs, IInv, RowHeld, TypeOK, WorkerTypeOK
  <2>3. Calling(w)' = Calling(w)
    BY <2>1 DEF Calling, LastCall, CallOf
  <2>4. CASE v = w
    BY <2>1, <2>2, <2>3, <2>4
  <2>5. CASE v # w
    <3>1. pc[w] = "toolDone"
      BY <2>1, <2>5 DEF Alone
    <3>2. Calling(w) # Calling(v) /\ Calling(w) \in CallIds
      BY <2>2, <3>1, CallType DEF DoneStarted, ToolPCs
    <3> QED BY <2>1, <2>2, <2>3, <3>1, <3>2 DEF DoneStarted
  <2> QED BY <2>4, <2>5
<1>3. ASSUME UNCHANGED <<workerVars>> PROVE effects'[Calling(w)'] = 1
  BY <1>3 DEF DoneStarted, Calling, LastCall, CallOf, workerVars
<1>4. ASSUME NEW v \in Workers, WorkerStep(v), ~ExecuteTool(v) PROVE effects'[Calling(w)'] = 1
  <2>1. effects' = effects
    BY <1>4
    DEF WorkerStep, storeVars, historyVars, ResolveLoaded, ResolveFresh, ClaimIdempotencyKey,
        AcquireExecutionLease, ClaimSync, ClaimSave, ClaimResync, Ready, BeforeModelStep,
        ModelStep, BeforeToolExecution, ClaimToolExecution, ClaimFails, CompleteToolExecution,
        UnknownToolExecution, PersistRefresh, PersistSave, PersistRebase, AssertNotCancelled,
        Finish, MonitorStops, Interrupt, FailSync, FailLoad, Release
  <2>2. v # w
    <3> SUFFICES ASSUME v = w PROVE FALSE
      OBVIOUS
    <3>1. ASSUME NEW there, Goto(w, there), there # "toolDone" PROVE FALSE
      BY <1>1, <3>1 DEF Goto, TypeOK, WorkerTypeOK
    <3>2. ASSUME NEW there, Proceed(w, there) \/ Leave(w, there), there # "toolDone" PROVE FALSE
      BY <3>1, <3>2 DEF Proceed, Leave
    <3>3. ASSUME PersistError(w) \/ LeaveClaim(w) \/ TakeLoaded(w) PROVE FALSE
      BY <3>1, <3>2, <3>3 DEF PersistError, LeaveClaim, TakeLoaded
    <3>4. ASSUME NEW res, RecordResult(w, res) PROVE FALSE
      BY <3>1, <3>4 DEF RecordResult
    <3>5. CASE \/ ResolveLoaded(w) \/ ResolveFresh(w) \/ ClaimIdempotencyKey(w)
               \/ AcquireExecutionLease(w) \/ ClaimSync(w) \/ ClaimSave(w) \/ ClaimResync(w)
               \/ Ready(w) \/ BeforeModelStep(w) \/ ModelStep(w) \/ BeforeToolExecution(w)
      BY <3>1, <3>2, <3>3, <3>5
      DEF ResolveLoaded, ResolveFresh, ClaimIdempotencyKey, AcquireExecutionLease, ClaimSync,
          ClaimSave, ClaimResync, Ready, BeforeModelStep, ModelStep, BeforeToolExecution
    <3>6. CASE \/ ClaimToolExecution(w) \/ ClaimFails(w) \/ CompleteToolExecution(w)
               \/ UnknownToolExecution(w)
      BY <3>2, <3>4, <3>6
      DEF ClaimToolExecution, ClaimFails, CompleteToolExecution, UnknownToolExecution
    <3>7. CASE \/ PersistRefresh(w) \/ PersistSave(w) \/ PersistRebase(w)
               \/ AssertNotCancelled(w) \/ Finish(w)
      BY <3>1, <3>2, <3>3, <3>7
      DEF PersistRefresh, PersistSave, AfterSave, PersistRebase, AssertNotCancelled, Finish
    <3>8. CASE MonitorStops(w) \/ Interrupt(w) \/ FailSync(w) \/ FailLoad(w) \/ Release(w)
      BY <3>1, <3>2, <3>3, <3>8 DEF MonitorStops, Interrupt, FailSync, FailLoad, Release
    <3> QED BY <1>4, <3>5, <3>6, <3>7, <3>8 DEF WorkerStep
  <2>3. Alone(v)
    BY <1>4, WorkerFine DEF Fine
  <2>4. pc[w] = "toolDone" /\ Calling(w)' = Calling(w)
    BY <2>2, <2>3 DEF Alone, Calling, LastCall, CallOf
  <2> QED BY <2>1, <2>4 DEF DoneStarted
<1> QED BY <1>2, <1>3, <1>4 DEF Next, vars

\* A reconciler changes the run it has loaded by the evidence alone.
ReconLife(r) ==
  rst[r].rev = run.rev =>
    /\ rpc[r] \in {"entry", "verify", "journal", "project"} => rst[r].turns = run.turns
    /\ rpc[r] = "save" => rst[r].turns = WithEvidence(run.turns, ProviderId(rid[r]))

\* A step of the reconciler.
LEMMA ReconLifeOwn ==
  ASSUME IInv, RevInv, NEW r \in Reconcilers, ReconLife(r), ReconStep(r) PROVE ReconLife(r)'
<1>1. /\ rpc \in [Reconcilers -> RPCs] /\ rst \in [Reconcilers -> Runs] /\ rst[r] \in Runs
      /\ rid \in [Reconcilers -> CallIds \cup {NoCall}]
  BY DEF IInv, TypeOK, ReconTypeOK
<1>2. ASSUME rpc'[r] \notin {"entry", "verify", "journal", "project", "save"}
      PROVE  ReconLife(r)'
  BY <1>2 DEF ReconLife
<1>3. CASE RLeave(r, "release") \/ RAcquire(r) \/ RRelease(r) \/ RSave(r)
  BY <1>1, <1>2, <1>3 DEF RLeave, RGoto, RAcquire, RProceed, RRelease, RSave
<1>4. CASE RLoadState(r) /\ ~IsCancelled(run)
  BY <1>1, <1>4 DEF RLoadState, RGoto, storeVars, ReconLife
<1>5. CASE RLoadEntry(r) /\ ~RLeave(r, "release")
  BY <1>1, <1>5 DEF RLoadEntry, RGoto, storeVars, ReconLife
<1>6. CASE RVerify(r) /\ ~RLeave(r, "release")
  BY <1>1, <1>6 DEF RVerify, RProceed, RGoto, storeVars, ReconLife
<1>7. CASE RCompleteRow(r) /\ ~RLeave(r, "release")
  BY <1>1, <1>7 DEF RCompleteRow, RProceed, RGoto, ReconLife
<1>8. CASE RProject(r)
  <2> DEFINE q == Requeued(rst[r], rid[r])
             u == WithEvidence(rst[r].turns, ProviderId(rid[r]))
  <2>1. /\ rpc[r] = "project" /\ rpc'[r] = "save" /\ rst'[r] = Refreshed(q) /\ run' = run
        /\ rid' = rid
    BY <1>1, <1>8 DEF RProject, RGoto, storeVars
  <2>2. q.rev = rst[r].rev /\ q.turns = u
    BY <1>1 DEF Requeued, Runs
  <2>3. Refreshed(q).rev = rst[r].rev /\ Refreshed(q).turns = u
    <3>1. DOMAIN q = DOMAIN rst[r]
      BY DEF Requeued
    <3> QED BY <1>1, <2>2, <3>1 DEF Refreshed, Runs
  <2>4. rst[r].rev = run.rev => rst[r].turns = run.turns
    BY <2>1 DEF ReconLife
  <2> HIDE DEF q
  <2> QED BY <2>1, <2>3, <2>4 DEF ReconLife
<1> QED BY <1>3, <1>4, <1>5, <1>6, <1>7, <1>8 DEF ReconStep, RLoadState

\* A step of another.
LEMMA ReconLifeOther ==
  ASSUME TypeOK, RevInv, RunStep, NEW r \in Reconcilers, ReconLife(r),
         rpc'[r] = rpc[r], rst'[r] = rst[r], rid'[r] = rid[r]
  PROVE  ReconLife(r)'
<1>1. run.rev \in Nat /\ rst[r].rev \in Nat /\ ReconRev(r)
  BY RunFields DEF TypeOK, StoreTypeOK, ReconTypeOK, RevInv
<1>2. CASE run' = run
  BY <1>2 DEF ReconLife
<1>3. CASE Advances
  BY <1>1, <1>3 DEF Advances, ReconRev, ReconLife
<1>4. CASE run.status = "absent"
  BY <1>1, <1>4 DEF ReconRev, ReconLife
<1> QED BY <1>2, <1>3, <1>4 DEF RunStep

----------------------------------------------------------------------------
\* What each invocation and each reconciler is about to do to the run.
WorkerLife(w) == Course(w) /\ FailureOK(w) /\ DoneStarted(w)
LifeInv == /\ \A w \in Workers : WorkerLife(w)
           /\ \A r \in Reconcilers : ReconLife(r)
           /\ RowsStored /\ BasesStored

\* Initially, nothing.
LEMMA InitLife == Init => LifeInv
<1> SUFFICES ASSUME Init PROVE LifeInv
  OBVIOUS
<1>1. \A w \in Workers : pc[w] = "idle"
  BY DEF Init, WorkerInit
<1>2. \A r \in Reconcilers : rpc[r] = "idle"
  BY DEF Init, ReconInit
<1>3. RowsStored /\ BasesStored
  BY DEF Init, StoreInit, WorkerInit, RowsStored, BasesStored, AbsentRow, AbsentRun
<1> QED BY <1>1, <1>2, <1>3
        DEF LifeInv, WorkerLife, ReconLife, Course, ClaimOK, DrivenOK, MovedOK, AddsOneStep,
            Unclaimed, InLoop, Ending, Writing, Persisting, ModelPCs, ToolPCs, FailureOK,
            Failing, DoneStarted

\* Every step.
LEMMA NextLife == ASSUME AllInv, LifeInv, [Next]_vars PROVE LifeInv'
<1>1. /\ IInv /\ JInv /\ RevInv /\ TypeOK /\ RunStep
      /\ \A w \in Workers : WorkerLife(w)
  BY RevNext DEF AllInv, IInv, LifeInv
<1>2. \A w \in Workers : DoneStarted(w)'
  BY <1>1, NextDoneStarted DEF WorkerLife
<1>3. ASSUME NEW w \in Workers, ~(WorkerStep(w) /\ UNCHANGED reconVars),
             pc'[w] = pc[w], after'[w] = after[w], st'[w] = st[w], base'[w] = base[w]
      PROVE  WorkerLife(w)'
  <2>1. Course(w)'
    <3>1. Course(w) /\ Keeps(w)
      BY <1>1, <1>3 DEF WorkerLife, Keeps
    <3>2. /\ Unclaimed(w)' = Unclaimed(w) /\ InLoop(w)' = InLoop(w) /\ Ending(w)' = Ending(w)
      BY <1>3 DEF Unclaimed, InLoop, Ending
    <3> QED BY <1>3, <3>1, <3>2, CourseKept
  <2>2. FailureOK(w)'
    BY <1>1, <1>3, FailureOther DEF WorkerLife
  <2> QED BY <1>2, <2>1, <2>2 DEF WorkerLife
<1>4. ASSUME NEW w \in Workers, WorkerStep(w), UNCHANGED reconVars PROVE WorkerLife(w)'
  BY <1>1, <1>2, <1>4, CourseStep, FailureOwn DEF WorkerLife
<1>5. ASSUME NEW w \in Workers, UNCHANGED workerVars, ~(WorkerStep(w) /\ UNCHANGED reconVars)
      PROVE  WorkerLife(w)'
  BY <1>3, <1>5 DEF workerVars
<1>6. ASSUME NEW r \in Reconcilers, rpc'[r] = rpc[r], rst'[r] = rst[r], rid'[r] = rid[r]
      PROVE  ReconLife(r)'
  BY <1>1, <1>6, ReconLifeOther DEF LifeInv
<1>7. ASSUME UNCHANGED reconVars PROVE \A r \in Reconcilers : ReconLife(r)'
  BY <1>6, <1>7 DEF reconVars
<1>8. \A w \in Workers : WorkerLife(w)'
  <2> SUFFICES ASSUME NEW w \in Workers PROVE WorkerLife(w)'
    OBVIOUS
  <2>1. CASE WorkerStep(w) /\ UNCHANGED reconVars
    BY <1>4, <2>1
  <2>2. ASSUME ~(WorkerStep(w) /\ UNCHANGED reconVars), NEW v \in Workers, WorkerStep(v),
               UNCHANGED reconVars
        PROVE  WorkerLife(w)'
    <3>1. v # w /\ Alone(v)
      BY <1>1, <2>2, WorkerFine DEF Fine
    <3> QED BY <1>3, <2>2, <3>1 DEF Alone
  <2>3. CASE ~(WorkerStep(w) /\ UNCHANGED reconVars) /\ UNCHANGED workerVars
    BY <1>5, <2>3
  <2> QED BY <2>1, <2>2, <2>3 DEF Next, vars
<1>9. \A r \in Reconcilers : ReconLife(r)'
  <2>1. ASSUME NEW q \in Reconcilers, ReconStep(q) PROVE \A r \in Reconcilers : ReconLife(r)'
    <3>1. ReconLife(q)'
      BY <1>1, <2>1, ReconLifeOwn DEF LifeInv
    <3> QED BY <1>1, <1>6, <2>1, <3>1, ReconOrigins
  <2> QED BY <1>7, <2>1 DEF Next, vars
<1>10. RowsStored' /\ BasesStored'
  BY <1>1, NextStored DEF LifeInv, WorkerLife
<1> QED BY <1>8, <1>9, <1>10 DEF LifeInv

\* What is about to be written to the run is one step ahead of what is stored, or is known to
\* be refused.
THEOREM LifeInvariance == Spec => [](AllInv /\ LifeInv)
<1>1. AllInv /\ LifeInv /\ [Next]_vars => LifeInv'
  BY NextLife
<1> QED BY <1>1, InitLife, OutcomeInvariance, PTL DEF Spec

----------------------------------------------------------------------------
(* Every step is one of that process, or is not seen in what is stored *)

\* What the run, the journal and the tools leave alone is left alone.
LEMMA NotSeen ==
  ASSUME run'.status = run.status, run'.turns = run.turns, UNCHANGED <<journal, effects>>
  PROVE  UNCHANGED Lifecycle!vars
BY DEF Lifecycle!vars, Called

\* The process takes a step of the run, unless nothing is seen of it.
LEMMA RunActs ==
  ASSUME UNCHANGED <<journal, effects>>,
         \/ Lifecycle!Begin \/ Lifecycle!Drive \/ Lifecycle!Respond \/ Lifecycle!Answer
         \/ Lifecycle!Stop \/ Lifecycle!Fail \/ Lifecycle!Cancel \/ Lifecycle!Requeue
  PROVE  Lifecycle!RunStep \/ UNCHANGED Lifecycle!vars
<1>1. UNCHANGED <<Called, effects>>
  BY DEF Called
<1>2. CASE run'.status = run.status /\ run'.turns = run.turns
  BY <1>2, NotSeen
<1>3. CASE ~(run'.status = run.status /\ run'.turns = run.turns)
  BY <1>1, <1>3 DEF Lifecycle!RunStep
<1> QED BY <1>2, <1>3

\* The row of a call, as the process sees it.
LEMMA CalledIs ==
  ASSUME NEW id \in CallIds
  PROVE  /\ Called[id].status = journal[id].status /\ Called[id].out = journal[id].out
         /\ Called'[id].status = journal'[id].status /\ Called'[id].out = journal'[id].out
BY DEF Called

\* A row with evidence is that of a reconciled call.
LEMMA ReconciledIs ==
  ASSUME JInv, NEW id \in CallIds, journal[id].recon PROVE Lifecycle!Reconciled(id)
<1>1. journal[id].status = "completed" /\ journal[id].out = Evidence
  BY DEF JInv, Answered, Verdict
<1> QED BY <1>1, CalledIs DEF Lifecycle!Reconciled, Lifecycle!Evidence, Evidence

\* A result the journal backs is backed for the process.
LEMMA BackedIs ==
  ASSUME TypeOK, JInv, NEW T \in HeldTurns, NEW i \in DOMAIN T, Backed(T, i, journal)
  PROVE  Lifecycle!Backed(T, i)
<1> DEFINE res == T[i].res
           id == CallOf(T, i)
<1>1. Lifecycle!CallOf(T, i) = id /\ Op(id) = T[i].op /\ ProviderId(id) = T[i].pid
  BY CallParts DEF Lifecycle!CallOf, CallOf
<1>2. Sound(res, id, journal) /\ (id \in CallIds \/ res = NoResult)
  BY HeldCall DEF Backed
<1>3. res \in Workers \cup {Evidence, NoResult, ErrorResult, ClaimError}
  <2>1. T \in Seq(Turns)
    BY HeldType
  <2>2. T[i] \in Turns
    BY <2>1
  <2> QED BY <2>2, TurnType DEF Results, Outputs
<1> HIDE DEF id
<1>4. CASE res \in Workers
  <2>1. res # NoResult
    BY <1>4, OutputAssumption
  <2>2. id \in CallIds /\ journal[id].status = "completed" /\ journal[id].out = res
    BY <1>2, <1>4, <2>1 DEF Sound
  <2> QED BY <1>1, <1>4, <2>2, CalledIs DEF Lifecycle!Backed
<1>5. CASE res = Evidence
  <2>1. PICK d \in CallIds : journal[d].recon /\ (Op(d) = T[i].op \/ ProviderId(d) = T[i].pid)
    BY <1>1, <1>2, <1>5 DEF Sound
  <2>2. Lifecycle!Reconciled(d) /\ (d[2] = T[i].pid \/ d[3] = T[i].op)
    BY <2>1, ReconciledIs DEF Op, ProviderId
  <2> QED BY <1>5, <2>2 DEF Lifecycle!Backed, Lifecycle!Evidence, Evidence
<1>6. CASE res = NoResult \/ res = ClaimError
  BY <1>6 DEF Lifecycle!Backed, Lifecycle!NoResult, NoResult, Lifecycle!ClaimError, ClaimError
<1>7. CASE res = ErrorResult
  <2>1. res # NoResult
    BY <1>7 DEF ErrorResult, NoResult
  <2>2. id \in CallIds /\ journal[id].status # "absent"
    BY <1>2, <1>7, <2>1 DEF Sound
  <2> QED BY <1>1, <1>7, <2>2, CalledIs
          DEF Lifecycle!Backed, Lifecycle!ErrorResult, ErrorResult
<1> QED BY <1>3, <1>4, <1>5, <1>6, <1>7

\* What is stored and what is written are backed.
LEMMA TranscriptBacked ==
  ASSUME TypeOK, JInv, ResInv, NEW T \in HeldTurns, NEW i \in DOMAIN T
  PROVE  Lifecycle!Backed(T, i)
BY BackedIs DEF ResInv, TurnsOK

\* The initial states.
LEMMA InitLifecycle == Init => Lifecycle!Init
BY DEF Init, StoreInit, WorkerInit, Lifecycle!Init, Lifecycle!NoResult,
       AbsentRun, AbsentRow, Called, NoResult

----------------------------------------------------------------------------
\* A claim begins the run, or drives it on.
LEMMA ClaimActs ==
  ASSUME AllInv, LifeInv, NEW w \in Workers, ClaimIdempotencyKey(w) \/ ClaimSave(w),
         UNCHANGED <<journal, effects>>
  PROVE  Lifecycle!RunStep \/ UNCHANGED Lifecycle!vars
<1>1. /\ TypeOK /\ WorkerRev(w) /\ Course(w) /\ StoredOK /\ Flagged(run, journal)
      /\ st[w] \in Runs /\ run \in Runs
  BY StoredTypes DEF AllInv, IInv, RevInv, OutcomeInv, LifeInv, WorkerLife
<1>2. CASE run' = run
  BY <1>2, NotSeen
<1>3. run' # run =>
        /\ run'.status = "running" /\ run'.turns = st[w].turns
        /\ Unclaimed(w) /\ st[w].rev <= run.rev
        /\ pc[w] = "claimSave" => st[w].rev = run.rev
        /\ pc[w] = "claimKey" => run.status = "absent"
        /\ pc[w] \in {"claimKey", "claimSave"}
  BY <1>1, ClaimWrites
<1>4. CASE run' # run /\ run.status = "absent"
  <2>1. st[w] = BaseState /\ run = AbsentRun
    BY <1>1, <1>3, <1>4 DEF WorkerRev, UnclaimedOK, StoredOK
  <2>2. run'.turns = run.turns
    BY <1>3, <1>4, <2>1 DEF BaseState, AbsentRun
  <2> QED BY <1>3, <1>4, <2>2, RunActs DEF Lifecycle!Begin
<1>5. CASE run' # run /\ run.status # "absent"
  <2>1. run = st[w]
    BY <1>1, <1>3, <1>5 DEF WorkerRev, UnclaimedOK, AbsentRun
  <2>2. Resumes(run)
    BY <1>1, <1>3, <1>5, <2>1 DEF Course, ClaimOK
  <2>3. run.status \in {"queued", "running", "failed"} /\ ~run.needs
    BY <1>1, <1>5, <2>2 DEF Resumes, IsCancelled, Runs, Statuses
  <2>4. ASSUME NEW i \in DOMAIN run.turns, run.turns[i].res = Lifecycle!ErrorResult
        PROVE  Called[Lifecycle!CallOf(run.turns, i)].status # "running"
    <3>1. run.turns[i].res = ErrorResult /\ run.turns[i].res # NoResult
      BY <2>4 DEF Lifecycle!ErrorResult, ErrorResult, NoResult
    <3>2. CallOf(run.turns, i) \in CallIds
      BY <1>1, <3>1, HeldCall DEF HeldTurns
    <3>3. journal[CallOf(run.turns, i)].status # "running"
      BY <1>1, <2>3, <3>1 DEF Flagged, Unknown
    <3>4. Lifecycle!CallOf(run.turns, i) = CallOf(run.turns, i)
      BY DEF Lifecycle!CallOf, CallOf
    <3> QED BY <3>2, <3>3, <3>4, CalledIs
  <2> QED BY <1>3, <1>5, <2>1, <2>3, <2>4, RunActs DEF Lifecycle!Drive
<1> QED BY <1>2, <1>4, <1>5

\* The status a checkpoint is stored with.
LEMMA CheckpointActs ==
  ASSUME AllInv, LifeInv, NEW w \in Workers, pc[w] = "save",
         after[w] \in {"step", "tools", "recovered"},
         st[w].rev = run.rev, SaveRun(st[w]), UNCHANGED <<journal, effects>>,
         NEW s, s # "failed", st[w].status = s \/ IsCancelled(st[w]),
         s = "completed" => st[w].turns # base[w].turns
  PROVE  Lifecycle!Checkpoint(s) /\ base[w] = run /\ run'.turns = st[w].turns
<1>1. TypeOK /\ WorkerRev(w) /\ Course(w) /\ st[w] \in Runs
  BY StoredTypes DEF AllInv, IInv, RevInv, LifeInv, WorkerLife
<1>2. Writing(w) /\ base[w] = run /\ InLoop(w)
  BY <1>1 DEF WorkerRev, BasedOK, Writing, Persisting, InLoop
<1>3. run'.turns = st[w].turns /\ run'.status = st[w].status
  BY <1>1, SavedFields
<1>4. run.status \in Driving
  BY <1>1, <1>2 DEF Course, DrivenOK
<1>5. IsCancelled(st[w]) => IsCancelled(run)
  BY <1>1, <1>2 DEF Course, MovedOK
<1>6. IsCancelled(run) => \/ st[w].status \in {run.status, "failed"}
                          \/ st[w].status = "completed" /\ st[w].turns = run.turns
  BY <1>1, <1>2 DEF WorkerRev, CancelOK
<1>7. run'.status = IF IsCancelled(run) THEN run.status ELSE s
  BY <1>2, <1>3, <1>5, <1>6 DEF IsCancelled
<1> QED BY <1>2, <1>3, <1>4, <1>7
        DEF Lifecycle!Checkpoint, Lifecycle!Cancelled, IsCancelled, Driving

\* The checkpoint of a response.
LEMMA RespondActs ==
  ASSUME AllInv, LifeInv, NEW w \in Workers, pc[w] = "save", after[w] = "step",
         st[w].rev = run.rev, SaveRun(st[w]), UNCHANGED <<journal, effects>>
  PROVE  Lifecycle!Respond
<1> DEFINE T == run.turns
           n == Len(run.turns)
<1>1. /\ TypeOK /\ AddsResponse(w) /\ AllResolved /\ RowsStored /\ st[w] \in Runs
      /\ base[w] \in Runs /\ st[w].turns \in HeldTurns
  BY StoredTypes
  DEF AllInv, IInv, LifeInv, WorkerLife, Course, AddsOneStep, Persisting, OutcomeInv, HeldTurns
<1>2. PICK turn \in NewTurns :
        /\ st[w].turns = Append(base[w].turns, turn)
        /\ \/ st[w].status = IF turn = FinalTurn THEN "completed" ELSE "running"
           \/ IsCancelled(st[w])
  BY <1>1 DEF AddsResponse
<1> DEFINE s == IF turn = FinalTurn THEN "completed" ELSE "running"
<1>3. base[w].turns \in Seq(Turns) /\ Len(st[w].turns) <= MaxSteps
  BY <1>1, RunFields
<1>4. st[w].turns # base[w].turns
  <2>1. Len(Append(base[w].turns, turn)) = Len(base[w].turns) + 1
    BY <1>3
  <2> QED BY <1>2, <1>3, <2>1
<1>5. Lifecycle!Checkpoint(s) /\ base[w] = run /\ run'.turns = st[w].turns
  BY <1>2, <1>4, CheckpointActs
<1>6. /\ T \in Seq(Turns) /\ n \in Nat /\ DOMAIN T = 1..n
      /\ run'.turns = Append(T, turn) /\ n + 1 = Len(st[w].turns) /\ n + 1 <= MaxSteps
      /\ \A i \in 1..n : st[w].turns[i] = T[i]
  BY <1>2, <1>3, <1>5
<1>7. ASSUME NEW i \in DOMAIN T PROVE Lifecycle!PassesForAnswered(i)
  <2>1. i \in 1..n /\ i \in 1..(Len(st[w].turns) - 1) /\ st[w].turns[i] = T[i]
    BY <1>6
  <2>2. Resolved(st[w].turns[i]) \/ PassedOver(st[w].turns, i)
    BY <1>1, <2>1 DEF AllResolved
  <2>3. CASE Resolved(st[w].turns[i])
    BY <2>1, <2>3 DEF Resolved, Lifecycle!PassesForAnswered, Lifecycle!Final, Final,
                      Lifecycle!NoResult, NoResult
  <2>4. CASE PassedOver(st[w].turns, i)
    <3>1. PICK h \in 1..(i - 1) : /\ st[w].turns[h].pid = st[w].turns[i].pid
                                  /\ st[w].turns[h].res # NoResult
      BY <2>4 DEF PassedOver
    <3>2. h \in 1..n
      BY <1>6, <2>1
    <3>3. h \in DOMAIN T /\ T[h].pid = T[i].pid /\ T[h].res # NoResult
      BY <1>6, <2>1, <3>1, <3>2
    <3> QED BY <3>3 DEF Lifecycle!PassesForAnswered, Lifecycle!NoResult, NoResult
  <2> QED BY <2>2, <2>3, <2>4
<1>8. CASE turn = FinalTurn
  <2>1. Lifecycle!Checkpoint("completed")
    BY <1>5, <1>8
  <2>2. turn = [pid |-> Lifecycle!Final, op |-> Lifecycle!Final, res |-> Lifecycle!NoResult]
    BY <1>8 DEF FinalTurn, Lifecycle!Final, Final, Lifecycle!NoResult, NoResult
  <2> QED BY <1>6, <1>7, <2>1, <2>2 DEF Lifecycle!Respond
<1>9. CASE turn # FinalTurn
  <2> DEFINE id == <<n + 1, turn.pid, turn.op>>
  <2>1. turn \in [pid : ProviderIds, op : Ops, res : {NoResult}]
    BY <1>9 DEF NewTurns
  <2>2. /\ id \in CallIds /\ id[1] = n + 1 /\ id[2] = turn.pid /\ id[3] = turn.op
        /\ turn = [pid |-> id[2], op |-> id[3], res |-> Lifecycle!NoResult]
    <3>1. n + 1 \in 1..MaxSteps
      BY <1>6, StoreAssumption
    <3> QED BY <2>1, <3>1 DEF CallIds, Lifecycle!NoResult, NoResult
  <2>3. journal[id].status = "absent"
    BY <1>1, <1>6, <2>2 DEF RowsStored
  <2> HIDE DEF id
  <2>4. Called[id].status = "absent"
    BY <2>2, <2>3, CalledIs
  <2>5. Lifecycle!Checkpoint("running")
    BY <1>5, <1>9
  <2> QED BY <1>6, <1>7, <2>2, <2>4, <2>5 DEF Lifecycle!Respond
<1> QED BY <1>8, <1>9

\* The checkpoint of a result.
LEMMA AnswerActs ==
  ASSUME AllInv, LifeInv, NEW w \in Workers, pc[w] = "save", after[w] \in {"tools", "recovered"},
         st[w].rev = run.rev, SaveRun(st[w]), UNCHANGED <<journal, effects>>
  PROVE  Lifecycle!Answer
<1>1. /\ TypeOK /\ JInv /\ ResInv /\ AddsResult(w) /\ st[w].turns \in HeldTurns
      /\ run.turns \in Seq(Turns)
  BY StoreTypes, RunFields
  DEF AllInv, IInv, LifeInv, WorkerLife, Course, AddsOneStep, Persisting, HeldTurns
<1>2. Lifecycle!Checkpoint("running") /\ base[w] = run /\ run'.turns = st[w].turns
  BY <1>1, CheckpointActs DEF AddsResult
<1> DEFINE last == Len(run.turns)
<1>3. PICK res \in Results \ {NoResult} :
        run'.turns = [run.turns EXCEPT ![last].res = res]
  BY <1>1, <1>2 DEF AddsResult
<1>4. res \in Workers \cup {Lifecycle!ErrorResult, Lifecycle!ClaimError, Lifecycle!Evidence}
  BY <1>3 DEF Results, Outputs, Lifecycle!ErrorResult, Lifecycle!ClaimError,
              Lifecycle!Evidence, ErrorResult, ClaimError, Evidence
<1>5. Lifecycle!Awaiting /\ run.turns # <<>>
  BY <1>1, <1>2
  DEF AddsResult, EndsWithCall, Awaits, LastTurn, Lifecycle!Awaiting, Lifecycle!Final, Final,
      Lifecycle!NoResult, NoResult
<1>6. last \in DOMAIN run'.turns
  BY <1>1, <1>3, <1>5
<1>7. Lifecycle!Backed(run'.turns, last)
  BY <1>1, <1>2, <1>6, TranscriptBacked
<1>8. Lifecycle!Backed((run.turns)', last)
  BY <1>7
<1> QED BY <1>2, <1>3, <1>4, <1>5, <1>8 DEF Lifecycle!Answer

\* The last checkpoint changes nothing, fails the run, or stops it after a result.
LEMMA EndActs ==
  ASSUME AllInv, LifeInv, NEW w \in Workers, pc[w] = "save", after[w] \in {"finish", "exhausted"},
         st[w].rev = run.rev, SaveRun(st[w]), UNCHANGED <<journal, effects>>
  PROVE  Lifecycle!Fail \/ Lifecycle!Stop \/ UNCHANGED Lifecycle!vars
<1>1. /\ TypeOK /\ WorkerRev(w) /\ Course(w) /\ st[w] \in Runs /\ AddsNothing(w)
      /\ EndsResolved(st[w])
  BY StoredTypes
  DEF AllInv, IInv, RevInv, LifeInv, WorkerLife, Course, AddsOneStep, Persisting, OutcomeInv
<1>2. Writing(w) /\ base[w] = run /\ run.status # "absent"
  BY <1>1 DEF WorkerRev, BasedOK, Writing, Persisting
<1>3. run'.turns = run.turns /\ run'.status = st[w].status /\ st[w].turns = run.turns
  BY <1>1, <1>2, SavedFields DEF AddsNothing
<1>4. CASE st[w].status = "failed"
  BY <1>2, <1>3, <1>4 DEF Lifecycle!Fail
<1>5. CASE IsCancelled(st[w])
  <2>1. IsCancelled(run)
    BY <1>1, <1>2, <1>5 DEF Course, MovedOK
  <2>2. st[w].status = run.status
    BY <1>1, <1>2, <1>5, <2>1 DEF WorkerRev, CancelOK, IsCancelled
  <2> QED BY <1>3, <2>2, NotSeen
<1>6. CASE st[w].status = "completed"
  <2>1. run.turns # <<>> /\ (IsCancelled(run) \/ run.status = StatusAfter(run))
    BY <1>1, <1>2, <1>6 DEF AddsNothing, IsCancelled
  <2>2. LastTurn(run) = run.turns[Len(run.turns)] /\ LastTurn(st[w]) = LastTurn(run)
    BY <1>3 DEF LastTurn
  <2>3. ASSUME LastTurn(run).res # NoResult, IsCancelled(run) \/ run.status = "running"
        PROVE  Lifecycle!Stop
    BY <1>3, <1>6, <2>1, <2>2, <2>3
    DEF Lifecycle!Stop, Lifecycle!Cancelled, IsCancelled, Lifecycle!NoResult, NoResult
  <2>4. CASE IsCancelled(run)
    <3>1. LastTurn(run).res # NoResult
      BY <1>1, <1>2, <1>6, <2>2, <2>4 DEF WorkerRev, CancelOK, IsCancelled, HasResult
    <3> QED BY <2>3, <2>4, <3>1
  <2>5. CASE run.status = StatusAfter(run) /\ LastTurn(run).op = Final
    <3>1. st[w].status = run.status
      BY <1>6, <2>5 DEF StatusAfter
    <3> QED BY <1>3, <3>1, NotSeen
  <2>6. CASE run.status = StatusAfter(run) /\ LastTurn(run).op # Final
    <3>1. run.status = "running" /\ LastTurn(run).res # NoResult
      BY <1>1, <1>6, <2>2, <2>6 DEF StatusAfter, EndsResolved, Resolved
    <3> QED BY <2>3, <3>1
  <2> QED BY <2>1, <2>4, <2>5, <2>6
<1> QED BY <1>1, <1>4, <1>5, <1>6 DEF AddsNothing

\* The write of a failure.
LEMMA FailActs ==
  ASSUME AllInv, LifeInv, NEW w \in Workers, pc[w] = "save", after[w] = "failure",
         st[w].rev = run.rev, SaveRun(st[w]), UNCHANGED <<journal, effects>>
  PROVE  Lifecycle!Fail
<1>1. /\ TypeOK /\ JInv /\ ResInv /\ WorkerRev(w) /\ FailureOK(w) /\ st[w] \in Runs
      /\ st[w].turns \in HeldTurns
  BY StoredTypes DEF AllInv, IInv, RevInv, LifeInv, WorkerLife, HeldTurns
<1>2. run'.turns = st[w].turns /\ run'.status = "failed"
  BY <1>1, SavedFields DEF WorkerRev, WritingOK, Persisting
<1>3. /\ run.status # "absent"
      /\ \/ st[w].turns = run.turns
         \/ ~IsCancelled(run) /\ Len(st[w].turns) >= Len(run.turns)
  BY <1>1 DEF FailureOK, Failing, Persisting
<1>4. \A i \in DOMAIN run'.turns : Lifecycle!Backed(run'.turns, i)
  BY <1>1, <1>2, TranscriptBacked
<1>5. \A i \in DOMAIN (run.turns)' : Lifecycle!Backed((run.turns)', i)
  BY <1>4
<1> QED BY <1>2, <1>3, <1>5 DEF Lifecycle!Fail, Lifecycle!Cancelled, IsCancelled

\* A write of an invocation.
LEMMA SaveActs ==
  ASSUME AllInv, LifeInv, NEW w \in Workers, PersistSave(w)
  PROVE  Lifecycle!RunStep \/ UNCHANGED Lifecycle!vars
<1>1. pc[w] = "save" /\ UNCHANGED <<journal, effects>> /\ TypeOK /\ WorkerRev(w)
  BY DEF PersistSave, AllInv, IInv, RevInv
<1>2. CASE RevisionMatches(st[w])
  <2>1. st[w].rev = run.rev /\ SaveRun(st[w])
    BY <1>1, <1>2 DEF PersistSave, RevisionMatches
  <2>2. after[w] \in {"step", "tools", "recovered", "finish", "exhausted", "failure"}
    BY <1>1, AllAfters DEF WorkerRev, WritingOK, Persisting, TypeOK, WorkerTypeOK
  <2> QED BY <1>1, <2>1, <2>2, RespondActs, AnswerActs, EndActs, FailActs, RunActs
<1>3. CASE ~RevisionMatches(st[w])
  BY <1>1, <1>3, NotSeen DEF PersistSave
<1> QED BY <1>2, <1>3

\* A cancellation.
LEMMA CancelActs ==
  ASSUME TypeOK, NEW mode \in CancelModes, CancelAgentState(mode),
         UNCHANGED workerVars
  PROVE  Lifecycle!RunStep \/ UNCHANGED Lifecycle!vars
<1> DEFINE s == IF mode = "final" THEN "cancelled" ELSE "cancel_requested"
           r == [run EXCEPT !.status = s]
<1>1. run \in Runs /\ r \in Runs /\ r.turns = run.turns /\ r.status = s
  <2>1. run \in Runs /\ s \in Statuses
    BY StoreTypes DEF Statuses
  <2> HIDE DEF s
  <2> QED BY <2>1, StatusType, StatusFields
<1>2. SaveRun(r)
  BY DEF CancelAgentState
<1> HIDE DEF r
<1>3. run'.turns = run.turns /\ run'.status = s
  BY <1>1, <1>2, SavedFields
<1>4. Lifecycle!Cancel
  BY <1>3 DEF CancelAgentState, Lifecycle!Cancel, Lifecycle!Cancelled, IsCancelled
<1> QED BY <1>4, RunActs DEF CancelAgentState, workerVars, historyVars

\* The evidence of a reconciliation is laid over the run.
LEMMA RequeueActs ==
  ASSUME AllInv, LifeInv, NEW r \in Reconcilers, RSave(r), UNCHANGED workerVars
  PROVE  Lifecycle!RunStep \/ UNCHANGED Lifecycle!vars
<1>1. /\ TypeOK /\ JInv /\ ReconOK /\ RCalled /\ ReconRev(r) /\ ReconLife(r) /\ rst[r] \in Runs
      /\ rpc[r] = "save" /\ UNCHANGED <<journal, effects>>
  BY DEF AllInv, IInv, TypeOK, ReconTypeOK, ResInv, RevInv, LifeInv, RSave, workerVars, historyVars
<1>2. CASE run' = run
  BY <1>1, <1>2, NotSeen
<1>3. CASE run' # run
  <2>1. SaveRun(rst[r]) /\ rst[r].rev = run.rev
    BY <1>3 DEF RSave, RevisionMatches
  <2>2. run'.turns = WithEvidence(run.turns, ProviderId(rid[r])) /\ run'.status = "queued"
    BY <1>1, <2>1, SavedFields DEF ReconLife, ReconRev
  <2>3. rid[r] \in CallIds /\ Lifecycle!Reconciled(rid[r])
    BY <1>1, ReconciledIs DEF RCalled, ReconOK
  <2>4. run.status \notin {"absent", "cancel_requested", "cancelled"}
    BY <1>1, <2>1 DEF ReconRev, IsCancelled
  <2>5. Lifecycle!Requeue
    BY <2>2, <2>3, <2>4
    DEF Lifecycle!Requeue, Lifecycle!Cancelled, Lifecycle!NoResult, NoResult,
        Lifecycle!Evidence, Evidence, WithEvidence, ProviderId
  <2> QED BY <1>1, <2>5, RunActs
<1> QED BY <1>2, <1>3

----------------------------------------------------------------------------
\* A row is claimed.
LEMMA TakeActs ==
  ASSUME AllInv, NEW w \in Workers, ClaimToolExecution(w)
  PROVE  Lifecycle!CallStep \/ UNCHANGED Lifecycle!vars
<1> DEFINE id == Calling(w)
<1>1. TypeOK /\ id \in CallIds /\ run' = run /\ effects' = effects
  BY CallType DEF AllInv, IInv, ToolPCs, ClaimToolExecution, historyVars
<1>2. CASE journal' = journal
  BY <1>1, <1>2, NotSeen
<1>3. CASE journal' # journal
  <2>1. journal[id].status = "absent" /\ ClaimRow(id)
    BY <1>3 DEF ClaimToolExecution, Calling, Claimable
  <2> HIDE DEF id
  <2>2. journal' = [journal EXCEPT ![id].status = "running"] /\ journal \in [CallIds -> Rows]
    BY <1>1, <2>1 DEF ClaimRow, TypeOK, StoreTypeOK
  <2>3. /\ journal'[id].status = "running" /\ journal'[id].out = journal[id].out
        /\ \A d \in CallIds \ {id} : journal'[d] = journal[d]
    BY <1>1, <2>2 DEF Rows
  <2>4. /\ Called' = [Called EXCEPT ![id].status = "running"]
        /\ Called[id].status = "absent" /\ Called'[id].status = "running"
    BY <1>1, <2>1, <2>3 DEF Called
  <2>5. Lifecycle!Take(id)
    BY <1>1, <2>4 DEF Lifecycle!Take
  <2> QED BY <1>1, <2>4, <2>5 DEF Lifecycle!CallStep
<1> QED BY <1>2, <1>3

\* A tool is started.
LEMMA StartActs ==
  ASSUME AllInv, NEW w \in Workers, ExecuteTool(w)
  PROVE  Lifecycle!CallStep
<1> DEFINE id == Calling(w)
<1>1. /\ TypeOK /\ id \in CallIds /\ UNCHANGED <<run, journal>>
      /\ journal[id].status # "absent" /\ effects[id] = 0
      /\ effects' = [effects EXCEPT ![id] = @ + 1] /\ effects \in [CallIds -> Nat]
  BY CallType
  DEF AllInv, IInv, ToolPCs, ExecuteTool, storeVars, RowHeld, TypeOK, WorkerTypeOK, Calling
<1>2. effects' = [effects EXCEPT ![id] = 1] /\ effects'[id] # effects[id]
  BY <1>1
<1>3. UNCHANGED Called /\ Called[id].status # "absent"
  BY <1>1 DEF Called
<1>4. Lifecycle!Start(id)
  BY <1>1, <1>2, <1>3 DEF Lifecycle!Start
<1> QED BY <1>1, <1>2, <1>4 DEF Lifecycle!CallStep

\* A row is decided.
LEMMA DecideActs ==
  ASSUME NEW id \in CallIds, journal[id].status = "running", NEW s \in {"completed", "failed"},
         NEW out, journal'[id].status = s, journal'[id].out = out,
         \A d \in CallIds \ {id} : journal'[d] = journal[d], UNCHANGED effects
  PROVE  Lifecycle!Decide(id, s, out) /\ Called' # Called
<1>1. /\ Called' = [Called EXCEPT ![id].status = s, ![id].out = out]
      /\ Called[id].status = "running" /\ Called'[id].status = s
  BY DEF Called
<1> QED BY <1>1 DEF Lifecycle!Decide

\* By the tool that was started.
LEMMA SettleActs ==
  ASSUME AllInv, LifeInv, NEW w \in Workers, CompleteToolExecution(w)
  PROVE  Lifecycle!CallStep \/ UNCHANGED Lifecycle!vars
<1> DEFINE id == Calling(w)
<1>1. /\ TypeOK /\ IInv /\ JInv /\ id \in CallIds /\ run' = run /\ effects' = effects
      /\ effects[id] = 1
  BY CallType
  DEF AllInv, IInv, ToolPCs, CompleteToolExecution, historyVars, LifeInv, WorkerLife, DoneStarted
<1>2. CASE journal' = journal
  BY <1>1, <1>2, NotSeen
<1>3. CASE journal' # journal
  <2>1. PICK s \in ToolOutcomes :
          /\ RowMatches(id, 0)
          /\ CompleteRow(id, 0, s, IF s = "completed" THEN w ELSE ErrorResult, FALSE)
    BY <1>3 DEF CompleteToolExecution, Calling
  <2>2. s \in {"completed", "failed"} /\ journal[id].status = "running"
    BY <1>1, <2>1, MatchedRunning DEF ToolOutcomes
  <2> DEFINE out == IF s = "completed" THEN w ELSE ErrorResult
  <2>3. /\ journal'[id].status = s /\ journal'[id].out = out
        /\ \A d \in CallIds \ {id} : journal'[d] = journal[d]
    BY <1>1, <2>1 DEF CompleteRow, TypeOK, StoreTypeOK
  <2> HIDE DEF out, id
  <2>4. Lifecycle!Decide(id, s, out) /\ Called' # Called
    BY <1>1, <2>2, <2>3, DecideActs
  <2>5. Lifecycle!Settle(id)
    BY <1>1, <2>2, <2>4 DEF Lifecycle!Settle, Lifecycle!ErrorResult, ErrorResult, out
  <2> QED BY <1>1, <2>4, <2>5 DEF Lifecycle!CallStep
<1> QED BY <1>2, <1>3

\* By evidence.
LEMMA ReconcileActs ==
  ASSUME AllInv, NEW r \in Reconcilers, RCompleteRow(r), UNCHANGED workerVars
  PROVE  Lifecycle!CallStep \/ UNCHANGED Lifecycle!vars
<1>1. /\ TypeOK /\ IInv /\ JInv /\ RCalled /\ RSeesRunning /\ run' = run /\ effects' = effects
  BY DEF AllInv, IInv, JInv, RCompleteRow, workerVars, historyVars
<1>2. CASE journal' = journal
  BY <1>1, <1>2, NotSeen
<1>3. CASE journal' # journal
  <2>1. /\ rpc[r] = "journal" /\ RowMatches(rid[r], rrow[r].rev)
        /\ CompleteRow(rid[r], rrow[r].rev, "completed", Evidence, TRUE)
    BY <1>3 DEF RCompleteRow
  <2>2. rid[r] \in CallIds /\ rrow[r].rev = 0
    BY <1>1, <2>1 DEF RCalled, RSeesRunning
  <2>3. journal[rid[r]].status = "running"
    BY <1>1, <2>1, <2>2, MatchedRunning
  <2>4. Lifecycle!Decide(rid[r], "completed", Evidence) /\ Called' # Called
    <3>1. /\ journal'[rid[r]].status = "completed" /\ journal'[rid[r]].out = Evidence
          /\ \A d \in CallIds \ {rid[r]} : journal'[d] = journal[d]
      BY <1>1, <2>1, <2>2 DEF CompleteRow, TypeOK, StoreTypeOK
    <3> QED BY <1>1, <2>2, <2>3, <3>1, DecideActs
  <2>5. Lifecycle!Reconcile(rid[r])
    BY <2>4 DEF Lifecycle!Reconcile, Lifecycle!Evidence, Evidence
  <2> QED BY <1>1, <2>2, <2>4, <2>5 DEF Lifecycle!CallStep
<1> QED BY <1>2, <1>3

----------------------------------------------------------------------------
\* Every step of an invocation.
LEMMA WorkerActs ==
  ASSUME AllInv, LifeInv, NEW w \in Workers, WorkerStep(w)
  PROVE  Lifecycle!Next \/ UNCHANGED Lifecycle!vars
<1>1. CASE ClaimIdempotencyKey(w) \/ ClaimSave(w)
  <2>1. UNCHANGED <<journal, effects>>
    BY <1>1 DEF ClaimIdempotencyKey, ClaimSave, historyVars
  <2> QED BY <1>1, <2>1, ClaimActs DEF Lifecycle!Next
<1>2. CASE PersistSave(w)
  BY <1>2, SaveActs DEF Lifecycle!Next
<1>3. CASE ClaimToolExecution(w)
  BY <1>3, TakeActs DEF Lifecycle!Next
<1>4. CASE ExecuteTool(w)
  BY <1>4, StartActs DEF Lifecycle!Next
<1>5. CASE CompleteToolExecution(w)
  BY <1>5, SettleActs DEF Lifecycle!Next
<1>6. CASE UNCHANGED <<run, journal, effects>>
  BY <1>6, NotSeen
<1> QED BY <1>1, <1>2, <1>3, <1>4, <1>5, <1>6
  DEF WorkerStep, storeVars, historyVars, ResolveLoaded, ResolveFresh, AcquireExecutionLease,
      ClaimSync, ClaimResync, Ready, BeforeModelStep, ModelStep, BeforeToolExecution,
      ClaimFails, UnknownToolExecution, PersistRefresh, PersistRebase, AssertNotCancelled,
      Finish, MonitorStops, Interrupt, FailSync, FailLoad, Release

\* Every step.
LEMMA NextActs ==
  ASSUME AllInv, LifeInv, [Next]_vars PROVE [Lifecycle!Next]_(Lifecycle!vars)
<1>1. ASSUME NEW r \in Reconcilers, ReconStep(r), UNCHANGED workerVars
      PROVE  Lifecycle!Next \/ UNCHANGED Lifecycle!vars
  <2>1. CASE RSave(r)
    BY <1>1, <2>1, RequeueActs DEF Lifecycle!Next
  <2>2. CASE RCompleteRow(r)
    BY <1>1, <2>2, ReconcileActs DEF Lifecycle!Next
  <2>3. CASE UNCHANGED <<run, journal, effects>>
    BY <2>3, NotSeen
  <2> QED BY <1>1, <2>1, <2>2, <2>3
          DEF ReconStep, storeVars, workerVars, historyVars, RAcquire, RLoadState, RLoadEntry,
              RVerify, RProject, RRelease
<1>2. ASSUME NEW mode \in CancelModes, CancelAgentState(mode), UNCHANGED workerVars
      PROVE  Lifecycle!Next \/ UNCHANGED Lifecycle!vars
  BY <1>2, CancelActs DEF Lifecycle!Next, AllInv, IInv
<1>3. CASE ExpireLease /\ UNCHANGED workerVars
  BY <1>3, NotSeen DEF ExpireLease, workerVars, historyVars
<1>4. CASE UNCHANGED vars
  BY <1>4, NotSeen DEF vars, storeVars, workerVars, historyVars
<1> QED BY <1>1, <1>2, <1>3, <1>4, WorkerActs DEF Next

\* However many invocations, cancellations and reconciliations overlap, lose
\* their leases or die, the run is written as by one process that takes one
\* step at a time.
THEOREM RunActsAsOne == Spec => ActsAsOne
<1>1. Init => Lifecycle!Init
  BY InitLifecycle
<1>2. AllInv /\ LifeInv /\ [Next]_vars => [Lifecycle!Next]_(Lifecycle!vars)
  BY NextActs
<1> QED BY <1>1, <1>2, LifeInvariance, PTL DEF Spec, ActsAsOne, Lifecycle!Spec
====
