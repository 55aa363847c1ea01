# Formal model of git-with-intent

This directory holds TLA+ specifications of the parts of git-with-intent that
coordinate work between processes: the run lock, the idempotency records of the worker
and of the engine, the worker that processes queue messages, the durable job store, the
run documents with the engine and the recovery that write them, and the executor that
runs the steps of a workflow, with the graph algorithms around it. TLC checks each of
them on small instances; TLAPS proves their safety properties for every value of the
constants.

Paths below are relative to `src/`. Each definition that models code is tied to
its lines by the `map` of `PROJECT.json`.

## The system

Pub/Sub messages describe jobs. A worker process (`apps/worker`) receives a
message, by push or by pull, and `WorkerProcessor.processJob` runs a handler
for it. Several worker processes run at the same time and share nothing but
Firestore. A job may belong to a run; the jobs of one run exclude each other by
a run lock. Handlers call the engine, agents and forge clients. The API starts
runs through the engine (`packages/engine`), which keeps a heartbeat on each run
and, when a process starts, recovers the runs that look orphaned. Approvals,
step execution and the engine's own idempotency service live in the engine too.

| Component | State | Operations | Interaction | What is hard | What makes it correct |
|---|---|---|---|---|---|
| Run lock (`core/src/reliability/firestore-locking.ts`) | one document per run: holder, expiry, fencing token | tryAcquire, extend, release, getLock, forceRelease, cleanupExpired | transactions of many workers on one document | expiry against the wall clock; time is read before the transaction; three operations delete outside a transaction | at most one unexpired lease per run |
| Idempotency records (`core/src/reliability/firestore-idempotency.ts`, `idempotency.ts`) | one document per job key: status, error, expiry | get, checkIdempotency, create, complete, fail | read by each delivery before it starts, written after | check and create are apart; get deletes; complete and fail are unfenced | a recorded outcome stays until it expires |
| Worker processor (`apps/worker/src/processor.ts`) | local state of each delivery | processJob, executeWithTimeout, extendLock | lock, records, handler, Pub/Sub | every await is a point of interleaving; a time-out leaves the handler running; failures between any two steps | two jobs of a run do not overlap without cause; every job ends or is dead-lettered for a reason; an acknowledged job has been run |
| Delivery (`apps/worker/src/index.ts`, `pubsub.ts`) | acknowledged messages, deliveries of each, the dead-letter topic | push endpoint, pull loop | Pub/Sub delivers at least once, up to the limit of the subscription (`infra/pubsub.tf`) | which outcome acknowledges the message; a refusal costs a delivery too | no job is lost unnoticed |
| Job store (`core/src/queue/firestore-job-store.ts`) | one document per job: status, claimedBy, attempts, heartbeat | createJob, claimJob, startJob, heartbeat, completeJob, failJob, deadLetterJob, cleanupOldJobs | workers claim from one store; stale claims are taken over | zombies; heartbeats against the stale test; clean-up that reads and then deletes | a superseded worker is fenced; a job is not taken from a live one; finished is final |
| Run engine, heartbeats, recovery (`engine/src/run`) | run documents, per-process heartbeat timers | startRun, cancelRun, heartbeat, recoverOrphanedRuns, resume | tenant store, every instance that starts | read, validate and write without a transaction; ids of run and document; recovery by several instances | terminal is terminal; a live run is not failed |
| Run documents (`core/src/storage/firestore-tenant.ts`, `firestore-run.ts`, `run-status-machine.ts`) | one document per run: status, owner, heartbeat, version | createRun, updateRun, updateRunHeartbeat, listOrphanedRuns; versioned transactions | engine, webhook, recovery and API write the same documents | one store validates and writes apart, the other in a transaction with a version the first does not know | a status is followed by what the status machine allows |
| Approval gate (`engine/src/approval`) | one request: status, decisions, approvers, expiry | approve, reject, cancel, poll, time-out, escalation | callers and the polling waiter share the request | decisions race time-outs and escalation | the answer the step gets agrees with the request |
| Engine idempotency (`engine/src/idempotency`) | one record per key with a lease | checkAndSet, markCompleted, markFailed, process, wait | concurrent requests with one key | takeover of a lease; waiting for another request | the work of a key is done once |
| Workflow graphs (`engine/src/workflow`, `executor/dependency-resolver.ts`) | none between calls | validateWorkflow, buildGraph, schedule, critical path, resolveExecutionPlan | the executor relies on the resolver, graph.ts on the validator | four algorithms that must agree on what a dependency, a cycle and a level is | what one accepts is what the others need |
| Step executor (`engine/src/executor`) | one record per step, the promises of running steps | executeWorkflow, executeSteps, executeStep with retries | promises of concurrent steps, the caller's abort signal | slots over several batches, skips that cascade, deadlock detection, an abort at any await | no step starts before what it depends on; every execution returns a result that accounts for its steps |

The components that are not modelled (agents, connectors, forecasting, user
interfaces and so on) are listed in `PROJECT.json` with the reason.

## Modules

`Clock` - `Date.now()` and `Timestamp.now()` as one shared clock that may advance
between any two steps. `MaxTime` bounds it.

`RunLock` - the lock documents, and what one transaction of tryAcquire, extend and
release, or one delete, does to them. It has no actions; the two modules that
follow use it.

`LockClients` extends `RunLock` - the lock manager under arbitrary callers.
tryAcquire and extend read `Date.now()` before their transaction, so a call is two
steps (`BeginAcquire`, `AcquireGranted`). getLock, cleanupExpired and forceRelease
read first (the run becomes `doomed`) and delete later (`DeleteDoomed`). `robbed`
only observes: the holders whose live lease such a delete removed.

`LeaseService` - the abstract specification of the lock: leases that are granted and renewed
only while nobody else holds a valid one, and may be revoked. No documents, no transactions,
no early clock values. `ImplementsLeaseService` in `LockClients` is the refinement: inside are
the holders that hold or extend, `until` is the end of the lease, `robbed` is `revoked`.
`FencingOrder` is about `fence`, which only observes the tokens handed out.

`IdempotencyStore` - the records of the worker, with the effect of each call. Of an error message a record
keeps whether it is a non-empty one, because that is what the processor asks.

`WorkerProcessor` extends `RunLock` and `IdempotencyStore` - processJob as a program
counter for each delivery:

| Step (`slot[d].pc`) | Code in `processor.ts` | Next |
|---|---|---|
| `Deliver` | entry, deadline and handler tests (168-207); counts the delivery | `check` or `answer` |
| `Check`, `DeleteExpired` | checkIdempotency and, for a skipped delivery, `CachedStatus` (209-221) | `acquire`, `create` or `answer` |
| `AcquireLock`, `LockConflict` | tryAcquire (223-248) | `create` or `answer` |
| `CreateRecord` | create, handler invoked (250-277) | `running` |
| `HandlerReturns`, `HandlerThrows`, `Timeout` | executeWithTimeout (272-314, 342-352) | `complete`, `fail` or `failBlank` |
| `RecordResult`, `RecordLost` | complete, fail (279-301) | `release` or `answer` |
| `ReleaseLock`, `ReleaseLost` | finally (315-321) | `answer` |
| `Answer` | `index.ts` 257-284, `pubsub.ts` 133-156 | `idle` |
| `DeadLetter` (no slot) | dead_letter_policy of the subscription (`infra/pubsub.tf` 89-93, `infra/cloud_run.tf` 816-819) | |

A handler whose delivery timed out stays `running` in its slot (`Zombie`) until it
ends by itself; it can still extend a lock it holds. `StoreThrows`, `RecordLost`,
`ReleaseLost`, the second disjunct of `LockConflict` and `Crash` are the faults; the
constant `MaxFaults` bounds their number. A handler result other than completed
and failed is treated by the code like failed and has no action of its own.
A handler that throws an error with an empty message goes by `failBlank`: the failure is recorded, but
`CachedStatus` takes the empty message for no error and answers completed, as line 215 does.
`MaxDeliveries` is max_delivery_attempts; the back-off between deliveries is any delay.
`ended`, `wiped` and the field `cachedUntil` only observe. The holder of a lock is the
delivery itself because generateHolderId makes a new id for every tryAcquire.

`JobStore` - every operation of the job store as one transaction, and the executions
that claimed a job. An execution remembers the claim it came from (`create`,
`attempt`) and the last time the store accepted a call of it (`beat`); the store
sees none of the three. A report that the store refuses ends the execution
(`ReportRefused`); a crash ends all executions of a worker. The job store has no
caller in the worker but for the completion reports of the autopilot handler: it
is modelled from its own interface and its tests.

`RequestDedup` - the engine's idempotency records under calls with one key. checkAndSet is one
transaction with four outcomes: `StartHandler`, `RecordResponse` when it answers new,
`IsDuplicate` and `RecordResponse` when it does not. A call in `Webhook` runs in
service.process; any other call passes through the middleware, which takes the key, answers
the client, and then calls process to record the answer (`recording`); a call whose answer is not recorded
ends as `unrecorded`. `StoreFails`,
`StoreResponse` with a lost acknowledgement, `CheckFails` and `Crash` are the faults.
cleanupExpired is a query and, later, a delete. `evicted` and `started` only observe.

`RunStatusMachine` - RUN_STATUS_TRANSITIONS as a specification: a status is followed by one
the table allows, or by one that some writer found allowed when it looked.

`RunLifecycle` extends `Clock` - the run documents and their writers. updateRun is a read with
validation, which puts a record into `writes`, and later `FinishUpdate` or `UpdateFails`:
resume, fail, cancel and report are four reasons for the same two halves.

| Action | Code |
|---|---|
| `CreatePending`, `StartRun`, `StartUnrecorded` | createRun of the webhook and the API; startRun, with createRun failing (`engine.ts` 290-346) |
| `WorkflowEnds`, `CancelRead` | the end of the background workflow (392-472), cancelRun (496-516) |
| `Heartbeat` | `heartbeat.ts` 128-159, updateRunHeartbeat (`firestore-tenant.ts` 668-675) |
| `Start`, `RecoverRead`, `RecoveryDone` | recoverOrphanedRuns and processOrphanedRun (`recovery.ts` 181-278, 288-407) |
| `FinishUpdate`, `UpdateFails` | the second half of updateRun (607-624), rejected or not |
| `VersionedUpdate`, `ReadVersion` | `firestore-run.ts` 301-330, 241-252 |

A request brings an id of its own, the store gives the document another: `Id` is the union of
both. `Resuming` are the instances whose recovery is given checkpoints it can resume from; the
two callers in the repository give it an empty in-memory store, so in production it is empty.
`correlates` says which documents name a request as their a2aCorrelationId (`Recorded`).
`seen` only observes. `FollowsStatusMachine` is the refinement: `status` of each document, and
the pending writes as `validated`.

`StepGraph` - what is said of dependency graphs without reference to an algorithm: which of them
can be executed (`Plannable`), what a cycle is, when levels are the right ones (`Layered`).
`StepDependencies` declares the workflow, `deps`.

`StepOrder` - the abstract specification: what an execution promises about the status
of steps, without loop, promises, retries or batches. It is a statement of intent and
translates no code.

`StepExecutor` extends `PlanResolver` - executeWorkflow: first the resolver, then the loop. The loop
of executeSteps runs without interruption
from one await to the next, so `Iterate` is a whole turn: complete and abort tests,
getNextBatch with everything it skips, the start of each step of the batch, and the
deadlock test. `Wake` is the resolution of Promise.race, `LeaveLoop` and `Return` are
Promise.all and the result. A step has a status, which getNextBatch reads, and a phase,
which says where its promise is: `attempt`, `backoff`, `returned` (status set, the finally
callback still to come), `none`. A time-out, an error and an abort of an attempt are the
same to the code: `AttemptFails`, or `StepFails` when it is not retried. Conditions and
priorities are left open: any runnable step may turn out not to meet its condition and
any choice of a full batch is possible. `declined` only observes. `KeepsStepOrder` is the
refinement: `StepOrder` with the same `deps` and `status`.

`PlanResolver` - resolveExecutionPlan, whose state is its local variables. The recursive
detectCycle goes one dependency at a time; `path`, which the code keeps anyway, is also the recursion
stack. Kahn's algorithm goes one step of a level at a time. The code takes steps and dependencies in the
order of their listing, the model in any order.

| Action | Code in `dependency-resolver.ts` |
|---|---|
| `CheckNames` | the reverse graph (69-77) |
| `StartSearch`, `Descend`, `PassBy`, `FindCycle`, `Leave` | detectCycle and the loop that calls it (84-112) |
| `StartLevels`, `TakeLevel`, `CountOff`, `FinishLevels` | Kahn's algorithm (114-164) |

`WorkflowSchedule` - createExecutionSchedule of `graph.ts`: `Relax` is one turn of buildGraph's loop, which
moves the dependents of a step below it and queues them again; `TraceBack` is one of findCriticalPath's.

`WorkflowValidator` - validateWorkflow. It works on the lists of dependencies as they are written, so `lists`
are sequences, with unknown ids and duplicates; `calls` is the recursion stack of dfs and of getDepth, and
`looked` says where the loop of each call is.

| Action | Code in `validation.ts` |
|---|---|
| `DetectFrom`, `SkipDependency`, `DfsInto`, `ReportCycle`, `Finish`, `NoCycle` | detectCycles with dfs (300-361) |
| `MeasureFrom`, `TakeAnswer`, `MeasureInto`, `Measure` | calculateMaxDepth with getDepth (469-500) |
| `StartSort`, `TakeDue`, `CountEntry`, `EndSort` | topologicalSort (369-428) |

`WorkflowExecution` composes the three. The functions share nothing but the workflow, so an order is chosen:
a workflow is validated, then planned, then drawn, then executed, and what all of them found is there to be
compared. The executor does not wait for the validator's answer: an invalid workflow is handed to it too.

`LockClientsProofs`, `JobStoreProofs`, `WorkerProcessorProofs`, `StepExecutorProofs`,
`RequestDedupProofs`, `RunLifecycleProofs`, `PlanResolverProofs`, `WorkflowExecutionProofs` - the
theorems and their proofs.

`MCLockClients`, `MCWorker`, `MCJobStore`, `MCStepExecutor`, `MCRequestDedup`, `MCRunLifecycle` -
instances for TLC.

Operators called a wrong variant (such as `FreeTooEarly`) are used by no
specification. Each is one plausible slip in the code, and replacing the operator
it stands next to by it makes the property that guards against it fail.

## Runs

| Run | Instance | Question and answer |
|---|---|---|
| `runlock` | 3 holders, 1 run, times to live 1 and 2, clock to 3 | Is a lease exclusive, do fencing tokens order the grants, is the whole a lease service? Yes, but for leases whose document a non-transactional delete removed; tokens start again at 1 with a new document. |
| `jobstore` | 3 workers, 1 job, 3 claims, 2 creations, clock to 6 | Are zombies fenced, are live workers left alone, is finished final? Yes; a dead-lettered job may still be reported on by the execution that held it. |
| `worker` | 3 deliveries of one message, 2 at a time, pulled, records expire after 2, one fault, clock to 3 | Do handlers of one run overlap, does a recorded outcome stop later deliveries, is an acknowledged job one that has been run, does every job end? Only after a lease ran out or a delivery timed out; yes; yes; yes, or its message is dead-lettered behind a lock that a fault has left. |
| `worker_duplicate` | 2 deliveries, a job without a run | "prevent duplicate processing": violated, see below. |
| `worker_conflict` | 2 deliveries, pushed | "allow retry" after a lock conflict: violated. |
| `worker_failed` | 2 deliveries, pulled | "Record success": violated. |
| `step_executor` | every workflow of 3 steps with up to 2 dependencies each, those of one step also unknown or repeated; 2 at a time, 2 attempts | Does the executor implement `StepOrder`, is its result complete and final, does it return? Do resolver, validator and graph.ts decide right, and do they agree? Yes; the validator's depth may be too small if steps are listed against their dependencies. |
| `step_executor_stuck` | the same, 1 attempt | "no steps can run but workflow incomplete": violated, a step can still be skipped. |
| `request_dedup` | 2 webhook and 2 API calls with one key, lock time-out 1, 2 attempts, clock to 5 | Do handlers of one key exclude each other, are attempts bounded, is a completed record final? They do unless the clean-up deletes the record under one; attempts are; unless a call is overdue or its acknowledgement was lost. |
| `request_once` | the same | "will only run once per idempotency key": violated, what the handler answered is not recorded. |
| `run_lifecycle` | 2 instances, one of them resuming, 2 store ids, 1 request, clock to 3 | What statuses can follow each other, does a version tell a change, is a listed orphan settled? Only the status machine's, or a late write's; unless updateRun wrote; yes, or its recovery dies or reports an error. |
| `run_reported` | the same | "Update run status based on workflow result": violated, the update goes to an id without a document. |

Bounds. Three holders are the smallest number with an old holder, a new one and a
competitor for what a delete leaves; times to live of 1 and 2 make leases that end
in either order. Two deliveries are what one message needs to race with itself,
and every order of their steps is in; a limit of 3 deliveries lets both be used up and a third come after
them, and is reached with and without the job having run. `RecordTtl` 2 with a clock to 3 lets a record
expire during a delivery. One fault at any point reaches each partial failure;
`Fault` leaves enough clock for the longest lease to run out. Six clock values give
three claims of a job that go stale one after the other, and clean-up of the last.
Jobs of the job store do not interact, so one is enough; one run is enough for the
lock for the same reason. `runlock` and `jobstore` use symmetry of
holders or workers; the run with a liveness property does not. Where the clock stops
and nothing else is left to do the model deadlocks by its bound, and those
configurations turn the deadlock check off, as do those of the step executor, which stops
when it has returned, and of the worker, which stops when the message has no deliveries left.

Three steps make every shape the executor tells apart: a chain, a fork, a join, a step
apart; with a limit of 2, a step waits for a slot while two run. The theorems lift these
bounds.

The 2100 workflows of `step_executor` are listed in one fixed order; since every labelling of a graph is
among them, that is every order of listing a graph. They hold each kind of cycle up to length 3, a step that
depends on itself, and duplicates next to both. Depths that come out too small need four steps listed
against their dependencies and are not in the run; `DepthWarningDue` covers them.

In `request_dedup` two calls of each kind are the smallest number with a late and a current
holder on either path; a lock time-out of 1, answers kept for 2 and failures for 1, in a clock to 5,
let a lock run out, a record be taken over, closed and forgotten. Calls of one kind are symmetric.
In `run_lifecycle` a stale threshold of 0 makes a run an orphan one tick after its heartbeat, two
versions show a versioned write between two others, and one cancelRun at a time
is enough because recovery and report already overlap it. Recoveries may start again and again.
Both state spaces are complete within these bounds; the deadlock check is off where the clock
and the calls simply end (`request_dedup`), and on in `run_lifecycle`, whose instances restart.

Fairness of `RunLifecycle`: a recovery that has begun goes on, because it is one async function
whose every await is answered or its process dies. No start, heartbeat or write of anybody else is
assumed.

Fairness of `WorkflowExecution` (`FairExecution`): validator, resolver and schedule are synchronous
functions that run on once called; the loop of the executor goes on when it can, and every attempt ends
because executeWithTimeout gives it a timer.

Fairness (`FairSpec` of `WorkerProcessor`). Time passes. The event loop runs what is
ready: weak fairness of `Proceed`. Pub/Sub delivers a message that is not acknowledged again as long as
it has deliveries left (strong fairness of `Deliver`, because slots come and go), and then moves it to the
dead-letter topic (weak fairness of `DeadLetter`). A handler is
not required to return - that is what the timer is for - except in the last moments
of the bounded clock, where the timer would fire beyond `MaxTime`. Faults are never
forced and never repeat for ever.

## Findings

1. A job can be processed again after its completion is on record. The record is read
   before the lock is taken and the result of create is ignored; jobs without a run take
   no lock at all (`worker_duplicate`; `processor.ts` 8, 210, 267).
2. In push mode a lock conflict loses the message. The endpoint answers 200 for every
   status (`worker_conflict`; `processor.ts` 239, `index.ts` 267).
3. A handler that returns the status failed is recorded as completed, so its redelivery
   is acknowledged as a success (`worker_failed`; `processor.ts` 279). So is the redelivery of a job whose
   handler threw an error with an empty message: it is recorded as failed and answered as completed (line 215).
4. The executor gives up with a deadlock error although it could go on: a step whose
   dependency is skipped in the same turn is not looked at, and if nothing runs the loop
   throws instead of taking another turn. A chain of three steps whose first fails is
   enough (`step_executor_stuck`; `scheduler.ts` 58, `parallel-executor.ts` 196). The theorem
   `DeadlockNeedsSkip` says that this is the only way to that error.
5. The middleware's header promises that a handler "will only run once per idempotency key". It takes the
   key with one check and records the answer through a second, which finds the lock of the first and gives
   up; an answer given in time is never stored, and after the lock's time-out a retry runs the handler again
   (`request_once`; `engine/src/idempotency/middleware.ts` 12, 204, 211).
6. startRun discards the id that the store gives its run. The final status and the heartbeats go to the
   request's id, under which there is no document: the stored run stays running and is failed by the next
   recovery that lists it (`run_reported`; `engine.ts` 330, 332, 398; `heartbeat.ts` 7; `firestore-tenant.ts`
   495, 666).

The following came up while modelling; the properties above state what does hold, and these
runs would fail with the stronger claim.

- "Maximum retries allowed" (`firestore-job-store.ts` 49): failJob honours it, but claimJob takes over a
  stale claim (195-203) without looking at it, and raises attempts beyond it.
- A refusal because of a lock conflict uses up a delivery. Behind a lock that a crash or a failed call has
  left, or that a handler extends for long, a job may be dead-lettered after 5 deliveries without having run;
  `EveryJobEnds` allows that and nothing else.
- Both callers of the recovery pass an empty in-memory checkpoint store, so no run is ever resumed.
- calculateMaxDepth is to "calculate the maximum dependency depth" (`validation.ts` 469), but getDepth
  answers 0 for a step that was visited before: four steps listed against their dependencies can
  come out one too shallow. `DepthWarningIsDue` says what is left.
- "The full cycle is: path + current node + back edge" (`validation.ts` 333): for a step that depends on
  itself the path in front is no part of the cycle (`ValidatorDecides` allows it).
- getMaxParallelism (`graph.ts`) is "the maximum number of steps that can execute simultaneously" but
  returns the width of the widest level; with c and d behind a, and b apart, it is 2, while b, c and d can
  run at once.

## Proofs

`LockClientsProofs`: `LockTypeCorrect`, `LeaseRecordedInvariant`, `LockExclusive`. The
invariant is `TypeOK` with `LeaseRecorded`: a lease its holder may rely on is what the
document says, and no call has read a clock value from the future. It is inductive
because a lock is taken over only when the document has expired by the caller's clock
value, which is never ahead of the clock, while release and extend compare the holder.
Exclusion follows because one document cannot name two holders. `FencingOrderInvariant` needs
`OwnDocuments`: a holder whose token is the document's is its holder. `LeaseServiceImplemented` maps a granted
acquire to a grant, an extend that finds its own document to a renewal, a delete outside a transaction to a
revocation, and the rest to stutters. Assumed: `NoHolder` is
no holder, `RunOf` maps holders to runs, times to live and `MaxTime` are natural numbers.

`JobStoreProofs`: `StoreTypeCorrect`, `StoreFencesZombies`, `StoreClaimsExclusive`,
`StoreFinishedIsFinal`, for every set of jobs and workers and every bound. The invariant
`IInv` adds two conjuncts to the checked properties. `ExecsSane`: heartbeats are not in the
future and no two live executions of a job share a worker id. `RecordFitsExecs`: the owner
of a record has been heard of no later than the record's heartbeat, anybody else with a
claim on it has fallen silent, and nobody owns a completed record. Without the second, exclusiveness is
not inductive: a claim tests the record and not the workers. `StoreFinishedIsFinal` needs it
as well, because completeJob and failJob do not test the status.

`PlanResolverProofs`: `PlanIsRight`, the resolver plans a workflow just when it can be executed, reports a
real cycle, and its levels are the layers of the graph. `PlanInv` has two halves. During the search,
`path` leads along dependencies (`PathIsStack`), so a step found again on it closes a cycle; what has been
left depends only on what has been left (`FollowedLeft`) and holds no cycle (`LeftAcyclic`): the step left last
would have to be in it, and what that depends on was left earlier. In Kahn's algorithm inDegree counts the
dependencies not counted off (`DegreesRight`), and the levels so far are final (`LevelsRight`). If it stopped
early, among the steps left over one would depend on none of them, have no degree left, and be queued: the
code's last error, "incomplete", does not occur.

`StepExecutorProofs`: every safety property of the executor, the action property
`ResultIsFinal` and the refinement `KeepsStepOrder`, for every finite set of steps, every
graph and every limit; `WorkflowsDecided` and `LevelsByDepth` carry the resolver's results over. The invariant `Inv` ties status and phase of a step together
(`PhaseAgrees`), gives each step at work an attempt left (`TriesLeft`), allows cancelled steps
only after an abort (`CancelledByAbort`), and remembers why a step was skipped
(`SkipHasReason`) and how the loop was left (`ResultSettled`). `DeadlockNeedsSkip` is the one
that needs the graph: among the pending steps one depends on no other pending step; nothing
runs, so everything it depends on has ended; had that been so at the start of the turn, it
would have been skipped or started. Assumed: finitely many steps, limits of at least 1.

`WorkerProcessorProofs`: `WorkerTypeCorrect`, `WorkerOverlapExplained`, `WorkerAcksWhatRan`,
`WorkerAnswersFromRecord`, for any number of deliveries, jobs and runs and any faults. The lemmas
`...Becomes` say once for each action what it does to the slot of its delivery; the invariants use only
them. `LeaseHeld`: a delivery between its lock and the end of its handler is the holder in the document as
long as its lease lasts. `CompletionBacked`: an outcome, a record and an acknowledgement that say completed
go back to a handler run that returned or threw an error without a message. `CacheHeld`: a delivery that arrived after an outcome was recorded
finds it, or finds it expired. None of the checked properties is inductive without these. Assumed beyond
the constants' types: pull mode, for `WorkerAcksWhatRan` only; in push mode it is false, which is finding 2.

`RequestDedupProofs`: all four properties of `request_dedup`, for any number of calls. The invariant `Inv`
says that a call whose lock has not run out is covered by the record (`Covered`), that no two calls which are
not overdue are at work (`OneAtWork`), and that a
completed record is the last starter's or an overdue call's (`CompletedByLast`). `NewMeansOverdue` is its
heart: checkAndSet answers new only when everybody at work is overdue. Assumed: `TtlAssumption`, a lock is
over before the record that was closed under it is forgotten, true of DEFAULT_IDEMPOTENCY_CONFIG.
`AttemptsBoundInvariant` follows from `StartsCounted`.

`RunLifecycleProofs`: `RunTypeCorrect`, `VersionTellsInvariant`, `StatusMachineFollowed`. The invariant: no
document has the id of a request (`OwnIdsUnknown`), so no report of the engine is ever pending, and every
pending write is to a document that exists (`WritesKnown`). `SeenHolds` adds that the
version a caller read is not ahead. The refinement needs that one step changes one document.

`WorkflowExecutionProofs`, for every finite set of steps, all lists of dependencies and every order of listing:

- `ScheduleIsRight` of `WorkflowSchedule`. `DrawInv`: no step lies deeper than one below some dependency, and
  each step whose dependents have been looked at lies above them (`DepthsRise`), so when the queue is empty each
  step is one below its deepest dependency (`DepthsExact`); the path made so far is the end of one through
  every level (`TrailRises`).
- `ValidatorIsRight` of `WorkflowValidator`. `ValidInv`: black steps lead to black steps only and hold no cycle,
  and the running calls lead along dependencies (`ColorsRight`, `CallsLead`); a degree counts the places in a
  list that are not counted off, which is what makes duplicates right (`SortRight`).
- `ValidatorAgrees`, `SchedulesSame` and `DepthWarningDue` join them to the resolver (`BothInv`). The first holds
  because both searches decide the same predicate of the graph. The second rests on `OneLayering`: a graph has
  one layering. The third has two halves. Depths are never too great (`HeightsRise`): a deepest step starts a
  chain of that length. They are not too small when steps are listed in order, because getDepth then
  finds every dependency measured and never calls itself (`MeasuredInOrder`).
- `ExecutorBeside`: the composition implements the executor's and the validator's specifications, so everything
  proved of them holds of it.

Assumed: `Step` is finite, `NoStep` is none of it, `Listed` names each step once (`StepAssumption`,
`WorkflowAssumption`).

Only model-checked: liveness (`EveryJobEnds`, `Returns`, `RecoverySettles`), because ENABLED and temporal
arguments under fairness are out of the prover's reach. With it goes that the loops of resolver, validator and
schedule end. Every invariant and every action property of a passing run is a theorem.

## Not modelled

The hash that makes the idempotency key, the content of job payloads, handlers and what
they call, the in-memory variants of the stores, metrics and logs, and the admin endpoints
of the worker. Firestore's transactions are atomic and serialisable and its clock is the
callers' clock; skew between clocks of workers is left out.

Most of the repository's 250 000 lines hold no protocol: user interfaces, generated clients,
connectors and forge clients, agents and prompts, report templates, analytics. Of what does coordinate
something, left out are the approval gate and escalation (no caller outside their tests, and a store in
memory only, so their races are not decided by this code), the Firestore rate limiter and the scheduler
(constructed nowhere), the gateway's admission of runs (a count that is read and compared before the run is
started, which concurrent requests pass together), the step-state store (single transactions that the
executor does not use) and the dead-letter queue (wrappers over Pub/Sub; that a message gets there is `DeadLetter`).

Of `RunLifecycle`: result, error and steps of a run, counters of repositories, the field resumeCount,
which updateRun drops because the document has no such field, and compensation logs. Of `RequestDedup`: the
payload's hash, and waiting with a time-out, which is `StopWaiting` at any time; `AttemptsBound` counts the
handlers that checkAndSet starts, not those that a failed check lets pass the store. Of `WorkflowValidator`: handlers,
entry points, duplicate step ids and conditions, and its early answer for a workflow without steps, which it
refuses and the resolver plans: the properties that compare them are about workflows that have a step.

Of the step executor: an attempt that timed out goes on beside its retry, but the code
ignores what it returns; progress callbacks are taken not to throw, and a stepExecutor not to reject
with undefined, which makes line 305 of `parallel-executor.ts` throw (caught at 97); a signal that was
aborted before executeWorkflow was called is never noticed, and `Abort` stands for the event
only. The fields maxParallelSteps and workflowTimeoutMs of a workflow are not read by the
code; the limit is that of the executor's configuration. The levels that
resolveExecutionPlan computes are not used by the scheduler.

## Plan

What is here: lock, job store, worker, executor, engine idempotency, run documents with recovery, the
graph algorithms; abstractions of the lock (`LeaseService`), of the executor (`StepOrder`) and of run
statuses (`RunStatusMachine`), each with its refinement proved. What would come next, in this order:

1. `Admission`: the gateway's and the engine's limits on runs in flight, over the query that `RunLifecycle`
   has. Property: by how many concurrent requests can exceed a plan.
2. `ApprovalGate`, once it has a store and a caller: the answer the step gets is the status the request
   keeps; a policy is met by distinct approvers.
3. An at-least-once job as the abstract specification that `JobStore` and `WorkerProcessor` implement.
4. The scheduler and the Firestore rate limiter, once something constructs them.
