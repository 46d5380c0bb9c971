# Zhivex AI SDK: specifications of the durable runtime

TLA+ modules, TLC configurations and TLAPS proofs kept beside the SDK's source. Paths
below are relative to the repository; `core/` stands for `packages/core/src/`.

The SDK is a TypeScript library: provider adapters, a text-generation loop with tools, and
on top of it agents, workflows and a gateway that may run in several processes over one
store. What can really go wrong, and what a unit test hardly reaches, is in that upper
half: several processes resume, cancel and reconcile the same durable run, lose leases,
die in the middle of a tool call, and use timers, locks and compare-and-swap to stay out
of each other's way. These specifications are about that half.

## 1. Inventory

| Part | State | Operations | Hard behaviour | What makes it correct |
| --- | --- | --- | --- | --- |
| Durable agent run (`core/agent/execution.ts`, `context.ts`, `state.ts`, `generate-text.ts`) | the invocation's checkpoint in memory and its last confirmed write, the durable run, its lease | `runAgent`: resolve or claim, acquire the lease, claim by compare-and-swap, model step, tool call, checkpoint, failure, release | two invocations on one run; every await may be followed by an error, a takeover or a cancellation; state loaded before an await and written after it | a tool runs once; no update is lost; a cancellation holds; the lease is given back |
| Run store (`core/agent-store/`) | run with revision, lease with owner and expiry, journal rows with revision, idempotency markers | `load`, `save` with `expectedRevision`, `claimIdempotencyKey`, `acquireLease`, `renewLease`, `releaseLease`, `claimToolExecution`, `completeToolExecution` | atomicity is the store's (synchronous, a transaction, or the lock file) | a conflict is reported, never merged |
| Tool journal and reconciliation (`core/agent/tool-execution.ts`, `core/agent-reconciliation.ts`) | a row per durable call id; the records of the checkpoint; the task outcome | claim, complete, reconcile with evidence, refresh of the outcome | a process dies between claim and completion; a late completion meets a reconciliation; the journal is written before the checkpoint | decisions are final; transcript, journal and outcome agree |
| Cancellation (`core/agent/cancellation.ts`, `cancellation-intent.ts`) | the status of the run, of its ancestors and of its children | `cancelAgentRun`, `cancelAgentRunTree`, the checks of the invocation | stored between a check and what it allowed; the tree grows while it is walked | at most one more call; not overwritten (section 6 says by what it is) |
| Lease monitor (`core/agent/lifecycle.ts`) | the lease, the interval timer's call in flight, the flags the invocation reads | acquire, heartbeat, poll, clean-up, release | a renewal applied after the release; a store that hangs | release is not kept waiting by the monitor, nothing leaks, losses are noticed |
| File store lock (`core/agent-store/file.ts`, `core/store-security.ts`) | the lock file, recovery files, the process table | acquire, recover the lock of an exited owner, release | every system call interleaves with other processes; exits at any of them | one holder; no live owner is robbed; a dead owner's lock recovers |
| File store writes (`core/agent-store/file.ts`) | run, marker, lease and journal files | `save`, `claimIdempotencyKey`, `delete` as several renames | a crash between two files | what a later load makes of half an operation |
| Cancellation of a tree (`core/agent/cancellation.ts`) | a mark on the root, the runs found below it | `cancelAgentRunTree` in up to four passes; the walk up the ancestors in every check of a run | runs start, resume and end while the tree is walked | no late child works; the result lists the runs reached |
| Shared token budget (`core/agent-budget-coordinator.ts`) | a ledger kept as a run | reserve, confirm, mark unknown | compare-and-swap with 32 retries, lost answers, a crash between reserving and settling | one operation is charged once; spending within the budget |
| Workflows (`core/workflow.ts`, `core/workflow-state-service/`) | workflow state, execution claim, a session and a state record with two revisions | claim, heartbeat, step, checkpoint, resume | the claim is checked on one load and written with the revision of a second | one executor, no step lost |
| Gateway policies (`packages/gateway/src/`) | circuit per target (epoch, failures, probes), admission windows, budget windows | permit, success, failure; admit, settle; reserve, settle | permits of an old epoch; leases of an old window; a stream abandoned by its reader | probes bounded; whatever is acquired is released |
| Bounded broadcast (`core/bounded-broadcast.ts`) | replay buffer, subscribers with queues, waiting publishers | publish, subscribe, close, fail | a terminal event overtakes publishers held back | order, completeness, bounds; no waiter left behind |
| Control plane and approvals (`core/agent-control-plane.ts`, `core/agent/approvals.ts`) | pending approvals of a waiting run | list, decide, resume | two decisions; a decision and a cancellation | one decision counts |
| Live agents, MCP, A2A, sandbox, React, AG-UI | sessions, correlation maps, reference counts, a reducer | connect, request, cancel, close | answers after a close | correlation, no leak |
| Provider adapters, catalog, evaluation, observability | none across requests | translation | none of ordering | out of scope: data conversion, static data, sinks |

How they interact. `runAgent` calls the run store for everything durable and hands the
store to a lease monitor, which shares with it an abort signal and two flags
(`leaseLost`, `cancelledState`). `generateText` drives the model and calls back into the
agent's hooks; tools are wrapped with the journal. A cancellation and a reconciliation are
other processes that only share the store. The file store serialises its operations with the
file lock. Workflows run agents as steps; the gateway sits below, between the loop and
the providers.

`PROJECT.json` lists the parts with their status, and every hazard with its line and the
properties that would catch it.

## 2. Modules

| Module | Models | Role |
| --- | --- | --- |
| `AgentRunStore` | one run of the store: checkpoint, lease, journal | operators used as steps by the next two; each store call is one atomic step |
| `AgentWorker` | one `runAgent` invocation per worker | a program counter per worker; an action is what happens between two awaits |
| `AgentReconciliation` | one `reconcileAgentToolExecution` call per reconciler | same |
| `AgentRun` | composition of the three, plus `cancelAgentRun` and the passing of a lease's expiry; the properties | `Spec` |
| `RunLifecycle` | what the three functions promise together of one run: status, transcript, its calls and how often their tools were started, changed by one process | abstract `Spec`, which `AgentRun` implements |
| `MCAgentRun` | symmetry of the workers and of the provider ids | TLC |
| `LeaseMonitor` | `acquireAgentExecutionLease`: the timer and the release, over a store that fails, hangs or answers late | `MonitorSpec` with fairness |
| `FileRunLock` | `acquireFileRunStoreLock`, `recoverFileRunStoreLock` and the release, one action per system call | `Spec` with fairness |
| `MCFileRunLock` | which task runs in which process | TLC |
| `WorkflowClaim` | `runWorkflow` with its execution claim and heartbeat, over one state record and one session | `Spec`; a program counter per invocation and one per heartbeat |
| `MCWorkflowClaim` | symmetry of the invocations | TLC |
| `AgentTree` | the runs of a tree, `synchronizeAgentCancellation` with its walk up the ancestors, `cancelAgentRunTree` | `Spec`; a run is its status and its cascade mark |
| `MCAgentTree` | the shape of the tree | TLC |
| `TokenLedger` | what the budget coordinator promises: a ledger changed atomically | abstract `Spec` |
| `TokenBudget` | `createAgentBudgetCoordinator` over a store with compare-and-swap, and its callers | `Spec`, which implements `TokenLedger` |
| `MCTokenBudget` | who works on which operation | TLC |
| `BoundedBroadcast` | `BoundedReplayBroadcast`: publishers, subscribers, close and fail, one action per run between awaits | `Spec` with fairness |
| `MCBoundedBroadcast` | what is published and accepted | TLC |
| `CircuitBreaker` | `createGatewayCircuitBreaker` under arbitrary callers | `BreakerSpec`; extended by `GatewayLimits`, its operators are steps of `Gateway` too |
| `MCCircuitBreaker` | symmetry of the callers | TLC |
| `GatewayLimits` | the admission controller and one account of the budget store | extends `CircuitBreaker`; operators used as steps by `Gateway` |
| `Gateway` | routed operations: candidates, retries, timeouts, aborts and the executor of each attempt, over the breaker and the limits | extends both; `Spec` with fairness, which implements `BreakerSpec` (`KeepsToBreaker`) |
| `MCGateway` | routes and usages | TLC |
| `AgentRunProofs`, `AgentTreeProofs`, `WorkflowClaimProofs`, `TokenBudgetProofs`, `BoundedBroadcastProofs` | | theorems about the module of that name, and their proofs |
| `OwnershipProofs` | | theorems about `FileRunLock` and `LeaseMonitor` |
| `GatewayProofs` | | theorems about `Gateway` and, through it, `CircuitBreaker` |
| `SumTheorems` | | facts about sums over finite sets, used by the budget's and the gateway's proofs |

### From code to state and actions

*Store.* `run` is the durable `AgentRunState`: `rev` is its revision, `turns` the transcript
(a final answer or one tool call per step, with the recorded result), `needs` says that
`taskOutcome` is `needs_reconciliation`, `recon` lists the calls whose confirmed evidence
the checkpoint holds. `lease.live` replaces clocks: any lease may expire at any time, which
is weaker than every timing a heartbeat could achieve. `journal` is a row per durable call
id. A durable id hashes the run, the step, the provider's id, the tool's name and its input, and is
here `<<step, provider id, operation>>`, an operation being a name with an input. The provider's id
alone tells two calls of a run apart only if the provider does: Ollama's adapter makes it of the tool's name and an
index, so that it repeats from step to step. The journal goes by the durable id, the transcript by the provider's,
and `Unresolved` and `WithEvidence` say what follows. The output of a tool is named after the
worker that executed it, which is what lets the properties see whose result is recorded; an error result is one of a call
that has a row (`ErrorResult`) or of one that the store failed to claim (`ClaimError`).

*Invocation.* `pc[w]` follows `runAgent`: `idle` and `claimKey` are `resolveContext`;
`acquire`, `claimSync`, `claimSave`, `claimResync` the lease and `claimAgentExecution` (a
fresh run without an idempotency key claims first, `after[w] = "fresh"`); `modelCheck`,
`model`, `toolCheck`, `toolClaim`, `toolRun`, `toolDone` the loop of `generateText` with its
hooks and the journal wrapper; `refresh`, `save`, `rebase` are `persistState` and
`after[w]` says whose write it is and where it returns to: after the results of a step the loop goes on or ends, as the
caller's `stopWhen` decides, but not after the result of the call a resumed run was left with (`recovered`); `failSync`, `failLoad` the catch
block; `release` the finally block. `st[w]` is the checkpoint in memory and `base[w]` the entry
of `confirmedCheckpoints`. A worker is used once; resuming is another worker. A crash is a worker
that takes no further step, since nothing makes a worker proceed. `effects` and `late`
are history variables.

*Reconciliation.* `rpc[r]` follows the function: lease, load, entry, verification (of any
length), journal row, projection of the evidence on the checkpoint, save; each write fenced.

*Lifecycle.* `RunLifecycle` has no invocations, leases, revisions or programs: `status` and `transcript` are those of the stored
run, `calls` the journal's rows without their revisions, `started` the counts of `effects`. The refinement mapping reads them off
(`Lifecycle` and `Called` in `AgentRun`). Its actions are what a caller may see happen: the run begins, is driven on, gets a response or the
result of its last call, is stopped by its caller after a result, fails, is cancelled, is requeued with evidence; a call is taken, started, settled, reconciled. What the
implementation needs many steps for, over state that others change meanwhile, is one step there, with its condition on
the run and the journal as they are at that moment.

*Monitor.* A store call is three steps: sent, applied, answered; the store may fail it or
leave it in flight for good. `phase[w]` tells the two waits of `release()` apart: `stopping` for the monitor's call, which is
bounded, and `releasing` for its own `releaseLease`, which is not. `RenewCreates` is a custom store whose `renewLease` also takes a free
lease, which the store interface permits and the clean-up in the code provides for.

*File lock.* `lock` is the owner id in the lock file, which also identifies its inode,
because the file is linked into place complete. `recovery` is the set of recovery files,
each a hard link named after the owner that was read and linked to the lock that was there.

*Workflow claim.* `record` is the `WorkflowStateRecord`: its revision, the owner of `executionClaim` and
whether it is still ahead of the clock, and of the state the index of the next step and whether
that step waits for approval. `session` is the revision of the session. `pc[w]` follows `runWorkflow`: `idle` is
`resolveInitialState`; `check`, `revision`, `fence` the three loads of `claimWorkflowExecution`; `load`, `create`,
`record`, `reference` the calls of `persistWorkflowState`, and `purpose[w]` says whose state they persist (the claim, the
terminal state of a claimed execution, or the state of an invocation that claimed nothing); `step`, `running`,
`finished` the loop, `stopping` the wait for the heartbeat. `hb[w]` is the renewal in flight with the record it has
loaded in `seen[w]`. `cursor[w]` and `fence[w]` are the two expected revisions.

*Tree.* `run[r]` is the status and the `cascade` mark of a stored run; what else a checkpoint holds is
`AgentRun`'s. `pc[r]` is the invocation that drives the run: `self` and `ancestors` are the loads of
`synchronizeAgentCancellation`, `why[r]` says what the check is for and `at[r]` whom it looks up next; `cancelLoad`
and `cancelSave` are `cancelAgentState` on the run itself. `c` is the call of `cancelAgentRunTree`: `target` is the run it
is at, `known`, `left`, `found`, `discovered` and `children` the variables of its passes. `fresh` is the comparison of
revisions. `above` and `due` are history variables.

*Token budget.* `store` is the ledger's record; `pc[w]` with `call[w]`, `next[w]` and `retry[w]` is one worker's
`update()`: load, mutate, conditional save, and again after a conflict. `usage[w]` is what the provider really used, which the
ledger only learns through the receipt. `TokenLedger` is the same ledger without records and retries; the refinement
mapping reads it from the record.

*Broadcast.* `log` is every event published and an event is its index in it; `history`, `queue[s]` and
`waiters[s]` are the class's fields; `resumed[s]` the publishers already released, whose continuations the microtask
queue runs before anything else of that subscriber. `pc[s]` is where the generator of `stream()` stands and `todo[s]` what is
left of its copy of the history; the replay skips what the subscriber's filter refuses.

*Gateway.* `tracked`, `circuit` and `permit` are the breaker's map and the permits its callers hold; `slots` and
`queued` the admission windows; `account` one scope's budget. `pc[o]`, `cand[o]`, `retry[o]` are the operation's
loop. `att[o]` keeps every attempt it ever made, because the executor of an abandoned one goes on: `exec` is where
its `begin()` or its call of the provider stands, `ended` says that `finish()` has run (the code's own flag), and
`lease` and `money` what it holds of the limits. A stream is `paused` while its generator is suspended at a `yield`, until the reader
pulls (`Pull`) or leaves (`ConsumerReturn`), and `streaming` while the next event is pending; only then does its idle timer act, if it
has one (`IdleTimed`). A permit is taken by `Acquire`, which does not look whether the operation still has one, and ended by
`EndOnce`, which does nothing without one, as in the code.

## 3. Runs

| Run | Instance | Shows |
| --- | --- | --- |
| `AgentRun` | 2 invocations, no key, 2 steps, 1 provider id, both cancellation modes, leases that expire, interruption at every await | tools start once, updates are not lost, cancellations hold (up to the cases of section 6), at most one late call; the run implements `RunLifecycle` |
| `AgentRunReconcile` | 2 invocations with the run's key, 1 reconciler, 2 steps, 1 provider id, unknown tool outcomes, claims the store fails, leases that expire | results agree with the journal and decisions are final through takeovers and reconciliation; an open call answered with an error refuses every resume, a completed run hides no unknown effect; the run implements `RunLifecycle`, by which no tool is started twice here either |
| `LeaseMonitor` | 2 invocations with their timers, a store that may hang | nothing leaks, a live lease is left alone, release does not wait for the monitor without end, losses and cancellations are noticed |
| `FileRunLock` | 3 tasks in 3 processes, 2 of which may exit, 2 locks per task | mutual exclusion, nobody is robbed, a dead owner's lock recovers |
| `WorkflowClaim` | 2 invocations with their heartbeats, 2 steps of every outcome, claims that expire, calls that fail, other users of the session | a lost claim finalizes nothing, a terminal write meets the record its execution claimed, a renewal only extends |
| `AgentTree` | a root, its sub-agent and that one's sub-agent, which may be resumed once; three passes | no run works below a cancelled one on a check that ought to have seen it; the result lists what was stored |
| `TokenBudget` | a model call with its resumption and an operator, an auxiliary call with its resumption, two tries each, a limit of 3 and needs of 2 | the record implements the ledger; real spending stays within the budget |
| `BoundedBroadcast` | 2 publishers, 2 subscribers, limits of one, both policies, 3 events | order, completeness, bounds, and no publisher left waiting |
| `CircuitBreaker` | 3 callers, 3 targets over a map of 2 | probes bounded, counters exact, only a probe closes |
| `Gateway` | a `generate()` over two targets and a `stream()` over one of them, one retry, limits of one or two | slots, quota and money agree with what is held; everything is given back, by a stream if it is read on; no operation asks for a permit while it has one |
| `AgentRunCancelLost`, `WorkflowClaimTaken` | the smallest that show it | the findings of section 6 |

Bounds. Two invocations are what every hazard of section 1 needs: one that has outlived its
lease, one that took over; a third would be a second copy of either. Two steps let a run have a
tool call behind it and one in flight, and reach the ceiling with a call unresolved. One
operation is enough, since calls are told apart by their step; evidence matches by operation, so one
operation is also the case where it can match the wrong call. With one provider id every id repeats, which is the hard case of a
resume and of evidence. Ids that differ are the theorems' case, which hold for every set of provider ids; both runs were also
made once with two ids and fewer faults (three million states each). A tool that fails (`tool` in `Faults`) is left to them
too, and so are cancellation and reconciliation in one instance, and claims that fail in a run that is cancelled. Three lock users are needed
for the recovery race (two that recover, one that takes the freed lock); two locks per task let
a task meet a recovery of its earlier self. `MaxSteps` is the code's own ceiling; `MaxLocks`
bounds only acquisitions. `Faults` selects which faults a run has, so that the three large
runs of `AgentRun` divide them: `expire`, `interrupt` and `claim`; `expire` and `unknown`; `expire`, `tool` and `claim`. The workers are
interchangeable and so are the provider ids, hence the symmetry set; the violation runs do not use it.

In `WorkflowClaim` two steps are the least that has a step boundary, where the progress of one execution can be set
back by another. `MaxRev` bounds how far renewals and other users of the session, which have no bound of their
own, drive the revisions: 3 lets an owner renew before and after a takeover, while the writes of the
invocations themselves go on beyond it.

In `AgentTree` the chain of three is the least with a run that is neither root nor the one that slips past; the resumed
leaf lets a run end below a pass and come back behind it; three passes reach every branch of the loop (first, again because
of a discovery, last), and a fourth repeats the second. In `TokenBudget` either operation fits the limit alone and both do
not, confirmed usage may be nothing, less than reserved or more, and a second try is the first
retry. In `BoundedBroadcast` a queue, a history and a terminal margin of one are full at once. In `Gateway` the stream shares the
generate's first target, one slot and one place in the queue make every limit bite, the clock makes one step (a window and a cooldown pass)
and `MaxEpoch` is out of reach: no behaviour of the run comes to it.

Deadlock is not checked: invocations end, streams close, trees come to rest, and then nothing is left to do.

### Fairness

`LeaseMonitor`, `FileRunLock`, `BoundedBroadcast` and `Gateway` have some. In `LeaseMonitor`: an answer that has
arrived is handled and the bounded shutdown wait fires (weak), and the interval timer becomes due
again and again while it runs (strong, because a call in flight disables the tick). The store is
not fair: it may never answer. `ReleaseBounded` says that a monitor's call without an answer does not keep `release()` from sending its
`releaseLease`; that this one is answered nothing bounds, in the code or here, so `release()` ends if the store answers it. `LossNoticed` and
`CancellationNoticed` assume in their statement that the store keeps answering, since the code makes
no second call while one is in flight. In `FileRunLock` the tasks of a running process are
scheduled, system calls return and critical sections end; no process has to exit and no caller has to
time out. In `BoundedBroadcast` released continuations and woken readers run (weak: they are
microtasks); nobody has to publish, read or close, and `PublishersProceed` assumes in its statement that the readers go on asking. In
`Gateway` the operation's own loop, the executor and the armed timers run (weak); no provider has to answer, no caller to
abort and no reader to pull. While a stream is paused no timer is armed, so `EverythingGivenBack` says of a stream that it gives everything back if it
has an idle timeout and is read to its end; of a `generate()` without any condition; and of a caller's abort that it gives back the slot,
the place in the queue and the reservation whatever the reader does, though not the permit, which a paused stream keeps. The other specifications have no fairness and only safety properties.

### Mutants

Each property of a passing run has a mutated definition that a plausible bug would give (a claim that
takes a running row, a save that ignores the revision, a clean-up that frees anyone's
lease, ...), written next to the definition it replaces and marked `Mutant` there, and TLC finds
the property violated with it.

## 4. Proofs

TLC looks at two or three processes; the theorems hold for every number of them, every ceiling,
every set of faults, keyed or not.

`AgentRunProofs`. Every property of the two runs of `AgentRun` that pass, from invariants that rest on each other. `TypeCorrect`
(`TypeOK`) and `ExecutedAtMostOnce` (`EffectAtMostOnce`) are read off `Invariance`. `EffectAtMostOnce` alone is not
inductive: from a state where an invocation is about to start a tool that has been started, a step
breaks it. The argument of the code is that the row is taken before the tool is started and nobody
takes it twice, and `IInv` says just that: `RowBeforeEffect` (no row, never started), `RowHeld` (an
invocation at the tool has its row and the tool has not been started), `OneExecutor` (no two of them
have the same call). `AllPlaced` says where a checkpoint has a last turn, or room for one more,
without which the call's identity is not even typed, and `RCalled` that a reconciler with
evidence has a call. `DecisionsStable` (`JournalDecisionStable`) uses `JInv`: a row that is running, as
somebody read it, was read at revision 0, so the revision check refuses whoever comes second.

`RevisionInvariance` (`RevInv`) gives `NoUpdateLost` (`NoLostUpdate`) and `CancellationHolds` (`CancellationSticks`). Comparing
revisions proves something only if equal revisions mean equal records, and that is its core: while the stored run has the revision
of an invocation's last confirmed write, it is that write (`BasedOK`; `UnclaimedOK` for a run that was loaded and not yet
claimed, `ReconRev` for the one a reconciler has loaded); and what the invocation is about to save continues it. The rest
is about the one write over a foreign revision, the rebase over a cancellation, which takes the status over (`CancelOK`).

`OneLateEffect` (`AtMostOneLateEffect`) needs what becomes of a call started under a cancellation (`LateInv`): it is not written
yet, and then its write will meet the cancellation or a later write (`Unwritten`); or it is written, and then every
other invocation is behind that write and can only fail (`Written`, `Behind`), so that the cancellation is still there at
the next check; or the invocation makes no further call (`Over`).

`EvidenceInvariance` (`ResInv`) gives `ResultsAgree` (`ResultAgreesWithJournal`). It follows the results through every
transcript in store or memory: each is that of its own row, evidence of a reconciled call of its operation or under its provider id, or an error of a call that has
a row (`TurnsOK`, `Sound`), and checkpoints carry confirmed evidence only (`ReconOK`). The error of a claim that failed says nothing, and nothing is claimed of it.
What replaces results under a provider id is always confirmed evidence, which is why repeated ids do no harm to this invariant;
whose evidence it is, is another question (section 6). `OutcomeInvariance` (`OutcomeInv`) adds what a
checkpoint says of unknown effects, a confirmed outcome it does not carry among them (`Unknown`), and gives `UnknownFlagged` (`IndeterminateFlagged`) and `CompletionHonest` (`OutcomeHonest`). The journal
is read before the checkpoint is written, and rows are claimed in between: harmless, because a call before the last of a
transcript has a result or is passed over under its provider id (`AllResolved`), because a row that an error was answered for exists already, because
a checkpoint that does not carry a confirmed outcome is flagged before the row is confirmed too, and because
a completed checkpoint ends with an answer or a result (`EndsResolved`), the second when the caller stopped the loop. `CompletionHonest` names the calls it does not speak of:
answered by evidence, by the error of a failed claim, or passed over.

`RunActsAsOne` (`ActsAsOne`) says all of it at once: every behaviour of `AgentRun` is one of `RunLifecycle`. Each write of an invocation rests on what it read
many awaits ago, and has to be shown to be a step of the run as it is stored now. `LifeInv` says why. `Course`: the
checkpoint about to be written is one response or one result ahead of the invocation's last write (`AddsOneStep`), which by `RevInv` is the
stored run if the write succeeds, and that write has a status that is driven on (`DrivenOK`, `ClaimOK`), or a cancellation beneath it if it was moved over one (`MovedOK`).
`RowsStored`: every row is of a call within the stored transcript, so that a call the model has just named, at a place beyond it, has no row though its
provider id may be an old one; it rests on `BasesStored`, by which nobody's last write is longer than what is stored. `FailureOK`: a failure rests on the stored transcript
or is laid over one that is not longer and not cancelled. `ReconLife`: a reconciler changes the transcript it loaded by the evidence alone. `DoneStarted`: a tool that has
returned was started. Results are backed by the journal by `ResInv`, and a claimed run has no unknown call by `OutcomeInv`, so that `LifeInvariance` and the invariants
above give the step (`WorkerActs`, `NextActs`). The theorem is exact about what is not promised, too: a response may follow a call that passes for answered under its provider id
(`PassesForAnswered`), a loop that its caller stops right after a result overwrites the cancellation that this result was checkpointed over (`Stop`), a failure may
overwrite a cancellation only with the transcript there is, and may set a transcript back to one of the same length or more that an older
invocation made.

`AgentTreeProofs`. `TypeCorrect` (`TypeOK`), `NoLateChild` (`NoneSlipsPast`) and `WholeTreeReached` (`TreeReached`), from `TreeInvariance`
(`TreeInv`), for every tree, every set of runs and every number of passes. Up the tree: the marks that a check has to find are marks
still (`MarksKept`) and are at or above the run it looks up next (`WalksUp`), so that none is left when it ends at the root; it does not end
earlier, because a run is stored only below a stored one (`Grounded`), and nobody takes a mark away, because a record that is
being driven is changed by its driver and by cancellations only (`ClaimHolds`). Down the tree: of every run a pass is through with it has found the children that
were stored when it began (`Scanned`). What it has not found when it ends would be a set of stored runs that has the parent of
each of its own (`PassComplete`), and such a set has none, since everything stored goes up to the root (`NoneUngrounded`).

`OwnershipProofs`. On the file lock: `LockTypeCorrect` (`TypeOK`), `Safety` (`MutualExclusion`), `LockKept` (`NeverStolen`). The
strengthening follows the code's reasoning about the recovery file: a holder's lock file is its own
(`HeldLock`); an owner that was read is the owner of a lock that existed (`SeenOwner`) and, past
the check of its process, has exited (`SeenExited`), for good, since ids are not drawn
again; a task that is recovering has its file (`RecoveryKept`), and nobody else is recovering under
the same name (`RecoveryExclusive`); so that at the unlink the lock is still the exited owner's
(`UnlinkSeen`). On the lease and its monitor: `MonitorTypeCorrect` (`MonitorTypeOK`), `NothingLeaks` (`EndedOwnsNothing`), `LiveLeaseSafe`
(`LiveLeaseKept`). `EndedCleansUp` says that an ended invocation that still owns the lease has a
monitor that is on its way to the clean-up, `CleanupStopped` that only a stopped one cleans up.

`WorkflowClaimProofs`. `TypeCorrect`, `Loss` (`LossStopsOwner`), `StaleOwner` (`StaleOwnerWritesNothing`) and `Renewal`
(`RenewalOnlyExtends`). The argument is about the cursor: it is the revision of the execution's own last write, renewals
included, so it meets the record's revision exactly while nobody else has written (`Cursors`), and a renewal
in flight has loaded what the record still says while the revision is the same (`Renewals`). `Waits` and `HasStep` keep the
index within the steps. None of it needs that claims exclude each other, which they do not
(section 6): what holds of a claim is that whoever lost it writes nothing, not that nobody else works.

`BoundedBroadcastProofs`. `WakeupsDelivered` (`NoLostWakeup`): no publisher is held back for a subscriber with room and no
reader parked with something to do. With the types of the queues it is inductive by itself (`WakeInv`); the work is in the lemmas on
what releasing, trimming and closing leave in the queues. `OrderKept` (`PublisherOrder`), `NothingMissed` (`EndedHasAll`) and
`NeverOutgrown` (`Bounded`) follow from `StreamInv`, which follows an event on its way to one reader (`InLane`): given, left of the copied history, queued, held back, woken. What is
further on this way may come before what is less far (`Earlier`: of one publisher only the older before the newer). That needs a reason for the events that are
held back, which a release may put into the queue in another order than the one they were published in: they are of different
publishers (`Foreign`), because `publish()` returns only when its last delivery is over. Nothing is lost on the way (`NothingLost`): every event
that may not be missed is given or pending while the subscriber lives, and given when its stream has ended on its own; for who
subscribes late, the history has what a replay owes (`HistoryOK`). The bounds
are counted on the sets of ordinary and of terminal events in a queue, and a queue without repetitions is as long as its set is large.

`GatewayProofs`. First the breaker, under any callers: `InFlightAccounted` (`InFlightExact`), `RecoveryIsBounded` (`ProbesBounded`) and
`LateResultsChangeNothing` (`RecoversByProbe`). The bound on probes follows from the count of permits in flight: a circuit
is half open only with as many permits of its own epoch out as it has counted, and permits of earlier epochs, which end meanwhile, are
told apart by the epoch (`PermitEpochs`). The counting is done once, in lemmas on the cardinality of the callers that hold a permit of a target.
Then `GatewayKeepsToBreaker` (`KeepsToBreaker`): every behaviour of the gateway's operations is one of the breaker under callers that have one permit each. `Acquire` itself would
give an operation a second permit and forget the first, which stays counted in flight for ever; that this does not happen is `PermitInv`, by induction over the operation's loop: an operation with a
permit is attempting, paused or streaming, and it comes back to choosing only past the end of it. The refinement makes its step from it.
So the three theorems hold of the gateway as it uses the breaker (`GatewayBreakerSafe`). Last the accounts: `GatewaySlotsExact` (`SlotsExact`), `GatewayQuotaExact` (`QuotaExact`) and
`GatewaySpendingExact` (`SpendingExact`), from `GatewayAccounts` (`GatewayInv`). Every counter of a target or of the budget is a sum over all attempts ever made, abandoned ones
included (`SlotsSay`, `AccountSays`); a step changes one attempt or appends one, and so one term of each sum (the lemmas on `Tally`). `AttemptOK` says what an attempt may
hold where its executor stands, which is why the slot and the money are given back once, by whoever comes first: the end of the attempt or the executor
that finds it ended. That no attempt was admitted in a later window than the current one is what makes the renewal of a window right.

`TokenBudgetProofs`. `BudgetImplementsLedger` (`AtomicLedger`): load, mutate and conditional save of concurrent workers change the ledger as
atomic operations would. The invariant (`BudgetInvariant`) ties the record a worker is about to save to the revision it
loaded: while the revision is the same, the record it saves is what one ledger operation makes of the stored one. `OneCallPerReservation`
says that the workers of an operation that are past an admitted reservation are at most one. `BudgetNeverOverspent` (`SpendingBounded`) is about the tokens the
provider really used: the ledger's charges fit the limit (`ChargesFit`), a receipt that is about to be settled is what the holder of the reservation used, and one that gives
tokens back has no holder (`TrueReceipts`), and what is confirmed was used (`TrueConfirmed`). A use beyond the reservation counts as the reservation, as the property says.

`SumTheorems`. The community module's sum is a recursive function on the subsets of a set. What these proofs need of it (one term changed, two functions
added, one below the other, a factor) would be inductions over finite sets, and the library's induction theorems, which take an operator, cannot be
used here. Strict inclusion on a finite set is well founded, so that a false statement has a smallest counterexample
(`SmallestBad`), which the recursion of the sum refutes.

The only assumptions are those on the constants (`StoreAssumption`, `OutputAssumption`, `WorkerAssumption`,
`LockAssumption`, `MonitorAssumption`, `ClaimAssumption`, `BroadcastAssumption`, `BreakerAssumption`, `LimitsAssumption`,
`GatewayAssumption`, `BudgetAssumption`, `TreeAssumption`), which TLC evaluates in every run. They say that workers and
reconcilers differ, that nobody is `NoOwner` and no output of a worker is a mark of the transcript, that ceilings are numbers, and the budget's operations and workers and the breaker's callers finitely many, and that configured values are in the ranges
the code's own validation demands.

Model-checked only: the six liveness properties `ReleaseBounded`, `LossNoticed`, `CancellationNoticed`, `OwnerExitRecoversUnlessOrphaned`,
`PublishersProceed` and `EverythingGivenBack`; liveness under fairness is outside the prover's reach. Every other property of a passing run
is the statement of a theorem.

Where a proof changed a model. `Released` (the settlement of an admission lease) was a `CASE` whose guards overlapped, of which TLC takes the first and the
semantics any; it is an `IF` now, in the order of the code. The ancestors of a run were computed along the parents and are the
least closed set, which a proof can use and TLC still evaluates. `Gateway` instantiated the breaker for its refinement only; it extends it now, so
that the breaker's theorems are about the operators the gateway uses. A subscriber's copy of the history was filtered when it was taken; the
code copies all of it and filters as it replays, and so does the model.

## 5. What the models leave out

`AgentRunStore` to `AgentRun`: approvals (`waiting_approval`); sub-agents and budgets, which have modules of their own; policy
timeouts (`timed_out`, which also leave the abandoned `generateText` running); compaction; provider
receipts; memory initialization; the smaller checkpoint stored when the state exceeds its
size limit; several tool calls in one turn; stores without leases; retries inside a
provider call; the timeout of a single tool; calls that are answered without a claim (an unregistered tool, an approval that is denied), whose error results the
journal does not know. A failure whose error says that effects are possible (an unknown outcome, a provider error after a tool call) is refused to a resume
by that mark alone (`context.ts:395`), which is left out: such a run may be resumed here once nothing is left to reconcile, so that more happens in the model than in the code. The branch of an input guardrail that refuses has the shape of the exhausted branch and is not
separate. A store write that is applied while its answer is lost is not modelled, the claim of a call included; a claim that fails is the
fault `claim`, and every other store error the fault `interrupt`. `cancelAgentRun` loads and swaps in one step, because the
swap succeeds only on what was loaded and a conflict loads again. An abort by the monitor in
the middle of a model or tool call is `interrupt` too.

`FileRunLock`: lock files whose content cannot be read, for which the code uses the file's
age; a process id that the system gives to a new process.

`LeaseMonitor`: a heartbeat that is disabled, and what the invocation does with what it learns (that is
`MonitorStops` in `AgentWorker`).

`WorkflowClaim`: a workflow persisted in the session's metadata (no state service); parallel and loop steps, which are one
step here, with their children; a state handed in by the caller is an invocation that resolved its state
earlier; telemetry; the content of the outputs. A call that fails has no effect. The state services whose calls are
not atomic: the PostgreSQL one saves a first record without comparing revisions and compares later ones by a
timestamp.

`AgentTree`: a run is driven by one invocation at a time and the lease monitor is off (what two invocations do is `AgentRun`);
a failed descendant keeps its status under a cancellation, as `preserveTerminal` says, and is stopped by the second check of its
claim when it is resumed; the ceilings of 128 ancestors and 10000 runs are not reached. The branch that makes the call fail
when the last pass still discovers runs is the end of the call here, its result being an error. Liveness (the call ends, when runs do not
start for ever) and a chain any run of which is resumed once (ten million states) were checked by hand and are not among the runs.

`TokenBudget`: tokens are one number; the record's ceiling of 4 MiB, a differing configuration and arguments that are refused
end a call as `Stop` does; a child's subpool is an operation of its parent's ledger and a ledger of its own, without relation between
the two; a settlement with the usage that a caller's own compactor reports (`execution.ts:156`) is not one of the
callers. A reservation that nobody settles stays taken after a crash, as the documentation says.

`BoundedBroadcast`: a publisher that gives up (`raceWithAbort`) leaves its event behind like one that is waiting still. A reader that
never asks again keeps publishers waiting also after `close()`, which is the class's backpressure and the assumption of `PublishersProceed`. That
property is of streams with finitely many events (`MaxEvents`): with a publisher that never stops, each freed place could go to it before a
released one continues.

`CircuitBreaker` and `Gateway`: a routed operation is one `generate()` or `stream()`; the exact cache and its coalesced
calls, metrics, adaptive routing and scoring, egress checks, remote stores, settlements that fail, `maxScopes` and currencies, and
`maxTargets` of the admission controller are left out. A stream that is never iterated stays `paused`; one whose reader leaves before its first
pull, which skips the generator's `finally` block, is left out. An answer that arrives after its attempt has
ended changes nothing (the code's `ended`) and is no step.

### Not modelled

* File store on disk: the one crash that matters is between the run and its idempotency marker (`file.ts:386`); the writes are single renames
  under the lock of `FileRunLock`. It is next in the plan.
* The PostgreSQL workflow state service: the atomicity of its statements is the database's; the hazard of its first save is listed.
* Control plane and approvals: a decision is a compare-and-swap like a cancellation's; a model needs `waiting_approval` in `AgentWorker`.
* Live agents: a second driver of the same store and journal, whose protocol towards the provider is external.
* MCP and A2A, sandbox: request correlation and session life cycle over I/O; artifacts, sessions and caches: values with revisions,
  of the shape of the run store without leases.
* React and AG-UI, provider adapters, catalog, evaluation, observability: reducers, conversions between formats, static data, sinks. They are most
  of the repository's lines, and none has a protocol whose steps could interleave.

## 6. Findings

Two have a violation run, on the smallest instance that shows them.

* `AgentRunCancelLost`: a cancellation that is stored after the catch block of `runAgent` has looked
  for one, and before it loads the run that it fails, is overwritten by `failed`
  (`core/agent/execution.ts:1067` and `:1088`); `cancellation-intent.ts:71` says that failure handling
  preserves it.
* `WorkflowClaimTaken`: a workflow claim is looked for in one load and swapped on the revision of a second one
  (`core/workflow.ts:538` and `:547`); a claim stored between the two is overwritten and both
  invocations run the step. `packages/core/tests/codex-security-regressions.test.ts:434` tests the order in which both load before
  either writes.

Seen in the models and not kept as runs; the first three are the exceptions that the properties name:

* A cancellation stored while a tool runs is kept by the checkpoint of its result, which is rebased over it, and then overwritten by `completed`
  when the caller's `stopWhen` ends the loop right after that result (`generate-text.ts:1210`): `finalizeState` sets the status whatever it was (`core/agent/state.ts:85-88`), and the
  write at `core/agent/execution.ts:1056` expects the revision of the rebased checkpoint. `packages/core/CHANGELOG.md:111` says "Preserve cancellation plus confirmed response evidence when checkpoint writes race it".
* A resumed run looks for calls without a result by the provider's id alone (`generate-text.ts:982`). If an earlier result bears the same id, the call it was left with
  passes for answered and the model is called over it; the tool never runs and its row, if there is one, is not looked at. `docs/PRODUCTION.md:153` says that tool results are checkpointed before the next model call.
* The evidence for one call replaces every result under its provider id (`core/agent-reconciliation.ts:65-67`), results of other calls, of other operations, among
  them; the comment at line 69 says that the previous transcript is preserved. Ids repeat with `packages/ollama/src/index.ts:406-410`.
* A fresh invocation without a key claims before it holds the lease and does not claim again; it may call the model on a
  checkpoint that another invocation has replaced, and learns so when it saves (`execution.ts:910`);
  `docs/PRODUCTION.md:145` promises a conflict before a step begins.
* A resumed run without a step left stores its failure outside any `try`; if that write throws, the lease is not
  released and its timer keeps renewing it (`execution.ts:960`).
* A process that exits while recovering the lock of another leaves a recovery file that blocks every later recovery
  (`file.ts:149`); `docs/PRODUCTION.md:147` says that the lock recovers.
* An invocation with nothing to run (the workflow waits for approvals it is not given, or is completed) finalizes without a
  cursor (`workflow.ts:1384`, `:1398`) and erases the claim of the invocation that is running the step, which the
  test at line 393 of `codex-security-regressions.test.ts` says excludes it.
* The broadcast keeps the order of one publisher's events. Between two publishers, an event published after a reader made
  room and before the released publisher's continuation reaches that reader first; concurrent publishers exist
  (`execution.ts:1130`, `core/realtime.ts:213`), and `packages/core/README.md:134` speaks of ordered delivery.
* A gateway attempt that times out while it is queued for admission counts as a retryable error against a target that was not called
  (`packages/gateway/README.md:268`); a provider that ignores its signal goes on after its slot is given back.
* A stale invocation may execute a call whose operation the evidence of another call has answered in a newer transcript under
  the same name (`core/agent/tool-execution.ts`, the look at `reconciliations` before the claim); the completed run's journal
  then has a running row that the answer does not rest on. After a claim that the store failed, and whose error answered the call, a stale
  invocation may claim the row and run the tool as well. `OutcomeHonest` therefore speaks of neither.
* A paused stream keeps its permit of the circuit breaker, a probe's among them, after its caller has aborted, until its reader pulls or leaves
  (`packages/gateway/src/index.ts:1786`); with nobody reading it also keeps its slot and its reservation until then, unless it is aborted.
* The `releaseLease` in `release()` is awaited without a bound (`core/agent/lifecycle.ts:233`), next to a wait for the monitor that is bounded.
* A claim refused by the session's revision stays in the record until it expires; a failure
  after the final checkpoint turns a completed run into a failed one; the failure write of an invocation
  that lost its lease may mark the new owner's run failed; while one call of the monitor hangs, neither the
  loss of the lease nor a cancellation is noticed. Nothing in the repository says otherwise.

## 7. Plan

Done: the durable run (`AgentRunStore`, `AgentWorker`, `AgentReconciliation`, `AgentRun`) with its abstract `RunLifecycle`, what it rests on (`LeaseMonitor`,
`FileRunLock`), the workflow claim, the tree, the token budget with its abstract ledger, the gateway with its breaker, admission and
budget, and the broadcast; every safety and action property of theirs that the passing runs check is proved. Left, in this order:

1. `FileRunStore`: the writes of `save`, `claimIdempotencyKey` and `delete` under the lock, with crashes
   between them; shown to implement one atomic store, or where not.
2. Approvals: `waiting_approval` in `AgentWorker`, the decision and the control plane.
3. `WorkflowClaim` over the session's metadata, where claim and state share one revision; parallel steps.
4. The exact cache of the gateway and its coalesced calls.

## 8. Running

    tlc -workers 2 -config AgentRun.cfg MCAgentRun.tla
    tlc -workers 2 -config Gateway.cfg MCGateway.tla
    tlapm AgentRunProofs.tla

`PROJECT.json` names the module and configuration of each run. `AgentRun`, `AgentRunReconcile`,
`WorkflowClaim`, `AgentTree` have two to four million states each and take one to four minutes (the refinement is half of it in
the first two); `TokenBudget` has 0.9 million; `LeaseMonitor`, `BoundedBroadcast` and `Gateway` fewer, but check liveness and take up to
three minutes; the others take seconds.

Proofs from nothing: `AgentRunProofs` seven minutes, `GatewayProofs` four, `BoundedBroadcastProofs` two and a half, each of the others
half a minute or less. `tlapm` remembers what it proved.
