# model-hub in TLA+

model-hub is a gateway to AI providers: a client posts a task, a worker submits
it to a provider, a scheduler polls the provider until the task ends, and the
client's wallet is charged for the result and the client told. Around this path
stand the services it leans on (prices, routing, circuit breakers, limits,
notifications) and an engine that runs workflows, graphs of such tasks.
This directory holds TLA+ models of the program, the TLC runs that check them,
and theorems about them that TLAPS checks. Paths below are relative to the
repository.

- [The system](#the-system)
- [The modules](#the-modules)
- [What is checked](#what-is-checked)
- [What is proved](#what-is-proved)
- [Disagreements between code and documents](#disagreements-between-code-and-documents)
- [What is abstracted](#what-is-abstracted)
- [What is not modelled, and the plan](#what-is-not-modelled-and-the-plan)

## The system

The program is one NestJS code base run as several processes: API servers,
workers and schedulers, any number of each. They share no memory; all state is
in MongoDB and Redis, and almost every handler is a chain of awaits over both,
without transactions. Between two awaits any other handler of any process may
run, and a process may die. This is what the models are about.

| Component | State | Operations | Hard part |
|---|---|---|---|
| Task API (`src/task`) | `idempotency_records` | createTask, cancelTask, updatePriority | four stores written one after the other, no compensation |
| Task repository | `tasks` | updateStatus (filtered on the old status), poll bookkeeping | callers ignore the null of a lost race |
| Submit queue (`src/queue`, Bull) | jobs in Redis | add, remove, redeliver | at-least-once delivery; a handler that times out runs on |
| Submit worker (`feature-queue.processor.ts`) | a handler's local copies | submitToProvider | status checked long before the provider is called |
| Polling (`src/polling`) | a batch read minutes ago, a Redis lock | handlePolling, pollSingleTask | the lock is a lease and lapses under its holder; what cannot be polled stays at the head of the batch |
| Billing (`billing.adapter.ts`, `billing.service.ts`) | `billing_records` | initBilling, settle, refund | several updates that are atomic one by one only |
| Wallet (`wallet.service.ts`) | `wallets`, `wallet_transactions` | freeze, unfreeze, debit, credit | guards inside the database, on amounts whose sign nobody checks; the ledger is written outside |
| Pricing (`pricing.service.ts`) | a cache of configurations per process | getUnitPrice, the estimate, the actual cost | two readings of one request, in two processes, around an edit |
| Result delivery (`resource-metadata.processor.ts`, `src/callback`) | fields of `tasks`, two queues, callback logs | scheduleForTask, handleExtract, handleCallback | pending flags and fixed job ids that outlive a failure |
| Circuit breaker (`src/provider-health`) | one Redis key per provider, a local cache | evaluate, recordResult, manualOverride, clearOverride | compare-and-set on one field of a document |
| Rate limiter (`src/redis`, the client guard) | sorted sets in Redis | acquire, acquireConcurrent, releaseConcurrent | count and insertion are separate calls, clocks are the callers' |
| Routing (`provider-routing.service.ts`) | rules in MongoDB | tryResolveFromRules | breakers change while they are read |
| Account pool (`src/provider/account-pool`) | a breaker per account, weights in memory | selectAccount, reportResult | scores are old when the turn is taken |
| Notifications (`src/notification`) | rules, cooldown keys, rate windows, a queue | processEvent, dispatch | cooldown, window and queue are taken one after the other |
| Workflow engine (`src/workflow`) | `workflow_runs`, a state per node, leases, a queue | start, schedule, finish a node, cancel, retry | claims, joins and cancellations on copies of different age |
| Workflow definitions | workflows, a counter per user | validation, creation, deletion | the counter is kept apart from what it counts |

The rest (adapters, authentication, administration, statistics, link
conversion, the two browser applications) computes, translates, shows or edits
configuration; it is listed in `PROJECT.json` with the reason it is left out.

How they interact: the API calls billing, which asks pricing; it inserts the
task and adds a job; a worker takes the job, calls the provider, writes the task
and, for a provider that answers at once, settles; the scheduler reads due
tasks, calls the provider, settles or refunds, and writes the task. Billing and
wallets are reached from all three, tasks too; the queue from the first two. A
workflow's executor is one more client: it creates tasks and waits for them.
Routing is asked before a task is created, the breaker and the limiter before a
provider is called, and both hear of the result. Nothing notifies anybody: each
side finds out by reading.

What would make each component correct:

- wallets: never more frozen than there is, never less than nothing, under any
  number of concurrent calls;
- billing: what is set aside for a task is given back once; a task is charged at
  most once, only with a result in hand, and before its success is visible;
- prices: nobody is quoted a price much older than the cache's lifetime, and
  what is charged is what was quoted unless the amount of work differs;
- tasks: the status only moves forward; a task that is accepted is not lost; a
  task that is submitted ends;
- API: a retried request with the same key finds its first task;
- polling: a handler that lost its lease does no harm;
- result delivery: the client is told in the end, not before the result is
  processed, and what the task says of the delivery is true;
- breaker: its states follow each other as designed, it never gets stuck, open or
  half open;
- limits: the number of calls under way, or in a window, exceeds the limit by a
  known amount at most;
- routing: an open provider is avoided and the others keep their shares; the
  account pool lets nobody get further ahead of, or behind, its turn than a bound
  that depends on the pool's weights alone;
- notifications: a storm is damped, not silenced;
- workflows: what validation accepts can be executed; a run that succeeded is
  complete; a cancelled one stays so and stops its tasks; no attempt of a node is
  queued twice; leases are neither lost nor kept; every run ends.

Several of these hold only under conditions, and finding the conditions is the
point of the runs below.

## The modules

| Module | Models | Depends on |
|---|---|---|
| `HubParams` | the constants the task path shares, and what the environment may do | |
| `Wallet` | `wallet.service.ts`: four atomic guarded updates | HubParams |
| `Billing` | `billing.adapter.ts` and `billing.service.ts`, one action per await | Wallet |
| `TaskStore` | `task.repository.ts`, the tasks collection, the provider's side of a task, the clock | HubParams |
| `SubmitQueue` | the Bull queue as `queue.constants.ts` configures it | HubParams |
| `TaskApi` | `task.service.ts`, `idempotency.service.ts`, the administrator's credit | Billing, TaskStore, SubmitQueue |
| `SubmitWorker` | `feature-queue.processor.ts`, and Bull's treatment of its jobs | Billing, TaskStore, SubmitQueue |
| `Polling` | `polling.scheduler.ts`, `polling.service.ts`, `redis-lock.service.ts` | Billing, TaskStore |
| `Escrow` | the abstract contract of billing: deposits, charges, refunds | HubParams |
| `TaskLifecycle` | the composition, its properties, the refinement mapping to `Escrow`, fairness | the above |
| `BullJobs` | one Bull queue with job ids chosen by the caller (external, with the options of the two queues) | |
| `ResultDelivery` | `task-resource-metadata-enqueue.service.ts`, `resource-metadata.processor.ts`, `task-callback-enqueue.service.ts`, `callback.processor.ts`, refresh and replay of `admin-task.controller.ts` | BullJobs |
| `WorkflowRun` | `workflow-execution.service.ts`, `node.executor.ts`, the leases of `workflow-policy.service.ts`, the child tasks as far as a run sees them | |
| `WorkflowGraph` | `execution-graph.resolver.ts`: detectCycle and topologicalSort | |
| `WorkflowQuota` | creating and deleting workflows with the counter on the user | |
| `SafeExpression` | `safe-expression.service.ts`: the parser that computes as it reads, against a meaning given to the tree | |
| `CircuitBreaker` | `circuit-breaker.service.ts`, `circuit-breaker-store.service.ts` of `src/provider-health` | |
| `RateSlots`, `RateWindow` | `rate-limiter.service.ts`: concurrency slots; the sliding window, also checkQps of the client guard | |
| `ProviderRouting` | `provider-routing.service.ts`: the choice of a rule and of a provider | |
| `AccountPool` | `account-pool.service.ts`, the circuit breaker and the two strategies beside it | |
| `Notifications` | `notification.service.ts`, its limiter and its dispatch queue | |
| `Pricing` | `pricing.service.ts`, the estimate of a request, the actual usage of a result | |
| `MCTask`, `MCDelivery`, `MCWorkflow` | values of the constants for TLC | TaskLifecycle, ResultDelivery, WorkflowRun |
| `MCServices` | the small components, one per behaviour, and their values for TLC | CircuitBreaker to Pricing above, WorkflowGraph, WorkflowQuota, SafeExpression |
| `TaskClaims`, `WorkflowClaims` | statements of documents and comments that the code contradicts | MCTask, MCWorkflow |
| `TaskLifecycleProofs` | types, solvency, status order, what a client was promised (keys and jobs) | TaskLifecycle |
| `ChargeProofs` | who pays, and for what | TaskLifecycleProofs |
| `MoneyProofs` | where the money of a task is; the refinement of `Escrow` | ChargeProofs |
| `DeliveryProofs` | what a task says of its callback is true | ResultDelivery |
| `WorkflowRunProofs` | what a run promises | WorkflowRun |
| `WorkflowDefinitionProofs` | what validation promises of a graph; that expressions are read as they are meant | WorkflowGraph, SafeExpression |
| `ServiceProofs` | four limits (workflows per user, slots, window, notifications of a rule); decisions on old copies (breaker, prices) | WorkflowQuota, RateSlots, RateWindow, CircuitBreaker, Pricing, Notifications |
| `SharingProofs` | shares: accounts of a pool, providers of a rule | AccountPool, ProviderRouting |

### State

The task path:

| Variable | In the code |
|---|---|
| `wallet[k]` | the document of API key `k`; `open` says it exists, `frozen` is `frozenAmount` |
| `record[t]` | `status` of the billing record of `t`, `"none"` without one |
| `call[c]` | which await of which adapter call the handler `c` (a request, a worker slot or a cron handler) is about to make |
| `task[t]` | `status`, `polling.pollCount`, whether `nextPollAt` has passed, whether `maxDuration` has |
| `ahead[t]` | the order of `nextPollAt`: the tasks that were due when `t` became due |
| `provider[t]` | the provider's own task (external) |
| `job[j]` | the j-th job ever added: its state in Bull, its task, its failed attempts |
| `request[t]` | where the POST that mints task id `t` stands |
| `keyOwner[<<k, i>>]` | the task recorded for key `i` of client `k` |
| `change[t]` | where a request to change the priority of `t` stands: looking for its job, removing it, adding the next |
| `worker[w]` | a running submitToProvider: its task, its position, its job (0 once Bull gave up on it) |
| `poller[p]` | a running cron handler: its position, the copies left in its batch, the copy in hand |
| `lock` | the holder of `lock:polling:scheduler` |
| `held`, `debits` | history only: what was frozen and not released for a task, how often it was debited |

`ResultDelivery` has a state of its own: `end[t]` (how the task ended),
`payload[t]` (whose URLs its payloads hold), `metadata[t]`
(`resourceMetadataStatus` and fingerprint), `callback[t]` (`callback.status`),
`extract` and `deliver` (the two queues, by job id), `scheduler`, `extractor` and
`courier` (running calls of scheduleForTask, handleExtract and handleCallback),
`report` (where a call is inside enqueueForTerminalTask), and the history
`processed` and `acked`. It meets the task path in `end` alone: handlers end a
task and then call scheduleForTask, and no task ends twice or changes its end,
which is what the theorem `StatusMonotone` says of `TaskLifecycle`. The document
of a task is one for both, but they write different fields of it.

`WorkflowRun` is one run: `status` and `node[n]` (the entry of `nodeStates`:
status, attempt, recorded child task) are the document, `slots` the owner's
leases that have not expired (this run's, unless it expired or was not needed, and how
many others), `queue` the waiting jobs of
`workflow-node`, `task[j]` the child task of an attempt, `defined` whether the
workflow still exists. `handler[h]` is a call in progress: where it is, the copy
of the nodes it decides on (`view`), the nodes it has still to look at, and the
call it goes back to. `workflow` and `environment` are chosen at the start and
never change, so that one run of TLC covers many small workflows.

Of the small components each has the record or set that Redis or MongoDB keeps
(`key`, `tokens`, `logged`, `workflowCount`, `cooling`, ...) and one variable for
the calls in progress (`call`, `slot`, `req`, `request`, `notifier`, ...), with
what each has read. The comments at the VARIABLES say which is which.

### Steps

An action is what happens between two awaits that matter: one call to a store,
with the decision that follows from its answer. Branches chosen early and taken
late are kept in the position (`call[c].step`, `worker[w].pc`, `poller[p].pc`),
as the code keeps them in its control flow. For instance `settle` is
`ReadForSettle` (read the record, choose the branch), `ReleaseForSettle`
(unfreeze), `DebitActual` (debit, or refuse), `MarkSettled` or `MarkFailed`, then
`"returned"` or `"threw"`, which its caller's next action looks at. Any other
handler may take any number of steps between two of these.

One deliberate exception: `cancelTask` is one step. Its first read only chooses
which error a refused call gets, since no status becomes cancellable again.
`updatePriority` is a chain like the others: the status is read, a waiting job is
looked for, that job is removed, another is added, and workers, cancellations and
the death of the process may come between any two of these.

In `WorkflowRun` a handler that finishes a node writes it, reads the run again,
ends the run or schedules on what it has read: a copy that is as old as the
number of steps others take before it is used. In `WorkflowGraph` and
`SafeExpression`, which are sequential, a step is one call of the search, or the
whole evaluation.

### Environment

`Environment` is a constant: the set of things that may go wrong or be asked for.

| Member | Allows |
|---|---|
| `crash` | a request, worker or cron handler ends between any two steps |
| `storeError` | a call to MongoDB or Redis throws, without effect |
| `overrun` | Bull gives up on a handler that is still running; the polling lock lapses under its holder |
| `cancel`, `reprioritise`, `topUp` | the client's and the administrator's operations |

In `ResultDelivery`, `crash` ends a worker's handler, `callerCrash` a call of
scheduleForTask, `overrun` is Bull's timeout of either queue, and `refresh` and
`replay` are the administrator's operations. In `WorkflowRun`, `environment` has
`cancel`, `retry`, `startError` (a start that throws before its first job),
`queueError` (an add that throws), `stall` (a job handed out again while its
executor runs on), `delete` (the workflow is deleted during the run),
`otherRuns` (the owner's other runs come and go), `slow` (the run may outlast its
lease: a lease lasts one `executionTimeout`, and every node has that time to itself)
and `noUser` (the caller is not an active portal user, whom acquireRun does not limit).

The provider is always free: it accepts, refuses, answers at once, fails for a
while, finishes with success or failure, or never; its limits may refuse any
call at any time. So are, in their components, the results of a provider's calls,
the latencies, the administrators and the clocks.

## What is checked

Every run of the task path fixes one to three tasks, one or two clients and the
handlers that can meet; prices of 2 and 3 units make the estimate differ from
the cost, and a wallet that covers one but not the other.

| Run | Instance | Environment | Shows |
|---|---|---|---|
| `polling` | 1 prepaid task of an internal client, or 2 requests of an external client with one key, of which the worker has an adapter for one; 1 worker, 2 pollers, 1 job, 1 attempt | overrun, storeError, crash | `TypeOK`, `NeverOverdrawn`, `ChargedOnlyForResults`, `PolledSuccessIsPaid`, `AcceptedIsRemembered`, `OthersNeverPay` |
| `exclusive` | 1 prepaid polled and 1 token-priced synchronous task, 1 wallet that covers one and a half, 1 worker, 1 poller | cancel, topUp | `HoldMatchesRecord`, `EndedTasksAreClosed`, and that the task path implements `Escrow` |
| `liveness` | 2 tasks, one of them untraceable, batches of 1, 1 worker, 1 poller, a wallet that cannot pay until topped up | cancel, topUp | `SubmittedTasksEnd` |
| `redelivery` | 1 task without a provider id, 2 workers, 1 poller, 2 jobs, 2 attempts | overrun, cancel, reprioritise | `PendingIsQueued`, `StatusOnlyAdvances` |
| `reporting` | 1 task with a callback, with or without URLs, 2 calls of scheduleForTask, 1 slot per queue, 2 attempts, 2 crashes | crash | `ProcessedBeforeReport`, `GivenUpIsVisible`, `EndIsReported` |
| `delivery` | the same, 1 call of scheduleForTask, 2 attempts to extract, 1 to deliver, 1 request of the administrator | all but crash | `EndIsAcknowledged`, and the types |
| `workflow` | 3 nodes in eight scenarios: a branch, a join under both failure strategies, a partial run, each with the faults that matter to it; 2 executors, 1 retry request | see `MCScenarios` | `WorkflowType`, `SucceededIsComplete`, `CancelledNeverSucceeds`, `EnqueuedOnce`, `CancelReachesTasks`, `LeaseMatchesRun`, `RunEnds` |
| `services` | each behaviour is about one of the ten small components | what each allows | the sixteen properties below |
| `claim_idempotent`, `claim_balance`, `claim_branch`, `claim_retry` | 1 task and a crash; 2 tasks with negative estimates; as `workflow` | | a statement of the documents that the code contradicts, see below |

The properties of the task path, in words:

- `NeverOverdrawn`: what is frozen in a wallet is never negative and never more
  than the balance, which is what the guards of `wallet.service.ts` are for. They
  look at no sign, so this is promised to clients none of whose tasks has a negative
  estimate; `claim_balance` shows what happens to the others.
- `ChargedOnlyForResults`: no debit for a task its provider did not complete.
- `PolledSuccessIsPaid`: a polled task of an internal client that shows SUCCESS
  has been debited. Synchronous tasks are excluded because the worker reports
  their success first and charges afterwards, by design.
- `StatusOnlyAdvances`: no task moves back, none leaves an end state. Everything
  the handlers do with stale copies is caught by the filter of `updateStatus`.
- `ImplementsEscrow`: read off the billing state, each task's deal goes through
  the contract of `Escrow`: one deposit, given back once, one charge, never after
  a refund, and always within what is left after everybody's deposits. It holds
  when no two handlers work on a task, none is cut short and no estimate is
  negative; `claim_idempotent` shows that it needs the second condition.
- `HoldMatchesRecord`, `EndedTasksAreClosed`: between calls, money is frozen for a
  task exactly while its record says `pre_deducted`; a task that ended by itself
  has nothing frozen, and one that failed or timed out was not charged. A
  cancelled task keeps its money frozen, in record and wallet alike.
- `PendingIsQueued`: redeliveries, timeouts and priority changes never leave an
  accepted pending task without a job, but for one interval: between the awaits in
  which updatePriority removes its job and adds the next. A process that dies there
  loses the job, so `crash` is not in that run. The job may also have failed for
  good: the task then stays pending (see the hazards).
- `AcceptedIsRemembered`: once a request with a key was accepted, every retry
  replays an existing task, whatever half-finished requests came before.
- `OthersNeverPay`: external and exempt clients take the same paths and never
  pay.
- `SubmittedTasksEnd`: every submitted task that can be asked for ends, unless
  tasks that cannot be asked for fill the batch again and again. They are passed over
  without being put off, so `nextPollAt` keeps them at the head of every batch: with
  as many of them as a batch holds (200), every other task starves, and in the run,
  with one of them and a batch of one, it does until that one is cancelled.
- `EndIsReported`: a success or a cancellation of a task with a callback reaches
  the client or the dead letters, though workers die, the client refuses, and
  scheduleForTask is called twice at once. Bull may lose a job that stalls more
  often than `maxStalledCount`, and a caller that dies between marking the task
  pending and adding its job loses the report (`callerCrash`, not in that run).
- `ProcessedBeforeReport`: no POST is prepared before a metadata job of the task
  got as far as it could. Fails with `storeError`, by design: a task whose job
  cannot be queued is reported without.
- `GivenUpIsVisible`: when the callback job has used up its attempts, and its id
  bars any other, the task shows `DEAD_LETTER` or `SUCCESS`. It needs `maxRetries`
  and the attempts of the queue to agree (6 in `queue.module.ts`, 6 in `README.md:90`), and no timeouts: a
  handler Bull has timed out has not written its failure.
- `EndIsAcknowledged`: a callback marked `SUCCESS` was acknowledged by the client,
  for the end of the task or, replayed early, for the open task. The run has every
  failure but the death of a worker; the theorem below has all of them. The other
  direction does not hold and is not promised: a slower failure may overwrite a
  delivery, and the end of a task whose callback was replayed early is not reported.

Of workflow runs:

- `SucceededIsComplete`: several handlers count nodes on old copies; still a run
  is reported succeeded only with every node succeeded or skipped.
- `CancelledNeverSucceeds`: a run that was once cancelled does not become
  succeeded, even when a retry that had claimed it before sets it running again.
- `EnqueuedOnce`: however many handlers schedule at once, no attempt of a node is
  put into the queue twice.
- `CancelReachesTasks`: after a cancellation every child task was asked to stop,
  or is about to be by the executor that created it. Not after a retry or a
  stalled job, with which it fails.
- `LeaseMatchesRun`: between calls only a run that is running holds a lease, and one
  that is running was admitted and its lease not given back, by a release that came
  late or twice. It may still have none, because it expired or was not needed: the
  number of running runs is not bounded by the number of leases. Not after a retry:
  a late release by the handler that failed the run takes the lease the retry has
  acquired.
- `RunEnds`: no two handlers that finish nodes at once leave the next step to each
  other. Not after the workflow was deleted, when nobody schedules any more.

Of the small components:

- `TransitionsLegal`, `HalfOpenAdmits`, `OpenIsLeft` (breaker): the state's name
  only changes as designed although processes write from copies of different age
  (counters and overrides written in between are lost, see the hazards); a
  half-open breaker always admits a probe, else it would refuse for ever; an open
  one the administrator did not open is left in the end.
- `AcceptedIsAcyclic`, `CycleIsReal`, `LevelsAreOrder` (validation before a run): a
  graph that is accepted has no cycle, a cycle that is reported exists, and the levels
  are the order in which everything comes as early as it can. Saving a workflow does
  not validate it, so this is about workflows that are run.
- `QuotaHolds`: a user never owns more workflows than allowed, though creation,
  repair of the counter, and deletion interleave and break off anywhere.
- `SlotsBounded`, `WindowHolds`: concurrency exceeds its limit by the number of
  workers less one at most; no stretch shorter than the window by the delay of a
  batch has more allowed requests than the limit.
- `OpenIsAvoided`, `SharesAreWeights` (routing): a provider that was open during a
  whole decision is not chosen, except as the fixed one or the fallback, and the
  providers that are left get exactly their weights of the hash buckets.
- `DebtIsBounded` (account pool): however accounts come and go between turns, the
  weights' debts add up to nothing and no account is further ahead or behind than
  the largest weight for each of the other accounts. One round, the sum of all
  weights, is not a bound: with weights 1, 1, 1 and 5, an account can get there.
- `RecurringIsQueued` (notifications): an event that keeps recurring is queued for
  every rule it matches in the end.
- `ReadAsMeant` (expressions): what is computed while reading, with no tree, is what
  the tree means, error for error.
- `QuoteIsRecent`, `QuoteIsKept` (prices): no price is quoted that was replaced
  longer ago than an entry lives and an answer takes; a task whose provider reports
  no amount costs what was estimated, while the model counts the same thing. The
  second is about pieces and seconds and requests that state a positive amount or
  none; for tokens, and for amounts of 0 or less, the code does not do it (below).

### Bounds

`MaxJobs` (jobs ever added), `MaxAttempts` (5 in the code), `MaxPollCount` (720 in
the code) and `MaxTopUps` bound the instances. Two jobs are what one redelivery
beside one priority change needs (a task has one such change under way at a time);
two attempts give one retry and one give-up;
`MaxPollCount = 1` gives one counted poll and one beyond the limit. A batch of 1 with
two tasks makes tasks wait for a place in it; in the other runs a batch holds all
due tasks. `polling` has two clients and the constraint `OneClientActive`: either the
tasks of one are created, or those of the other. What couples clients is handlers
and the lock, which each half has to itself; two tasks over one wallet are in
`exclusive`. `polling` and `redelivery` treat their pollers and workers as symmetric:
handlers differ in nothing but their names, and both runs check safety only.
`MaxCrashes` is one more than `MaxStalls`, so that a job can be recovered and can
be lost; `MaxRequests` bounds the administrator's requests. Hazards of
this system are races of two handlers over one task or of two tasks over one
wallet: two of each suffice to show them, and the proofs below cover any number
for what they prove. All runs disable deadlock checking: a deployment whose
tasks have all ended has nothing left to do, and a run of a workflow ends.

`workflow`: three nodes are the least that make a branch and a join; two executors
finish two nodes at once, and the start, the cancellation and a retry are handlers
of their own beside them. `MaxAttempt = 1` is one retry, `MaxStalls = 1` one job
handed out twice, `MaxConcurrentRuns = 2` leaves room for one other run of the owner.

`services`: 2 processes and 2 probes of the breaker, with `MaxOutages = 1` and
`MaxOrders = 2` (orders of the administrator); all graphs of 3 nodes; 2 requests
over 3 workflows against a quota of 2; 4 calls by 2 workers against 1 slot; 4
requests against 2 per window of 3 ticks, a batch late by 1, until tick `Horizon`
= 4; 3 providers under each strategy; a pool of 3 accounts with weights 1, 1, 2;
2 rules with and without cooldown, 2 handlers, 1 job with 2 attempts, one failing
call (`MaxErrors`); expressions of at most 3 operators over 1 and 2 against a depth
limit of 2; quantities -1, 0 and 2 of a request and of a result; one process quoting
two requests while one edit is made, an entry living one tick and an answer one tick
late. What is excluded by these and is
covered by a theorem: more processes, calls, workers, requests, edits and ticks, larger
graphs and expressions.

### Fairness

`FairSpec` assumes that cron handlers run (the cron fires every 30 seconds and an
async function that was started is resumed), that the lock's expiry timer fires,
and that clocks advance (`nextPollAt` and `maxDuration` eventually pass). It
assumes nothing of the provider, of its limits, of workers, of clients or of
money. `crash` and `storeError` are not in the environment of that run: a store
that fails for ever lets nothing end. Neither is `overrun`: the run has one handler
at a time, so that two tasks fit beside the liveness check, and overlapping handlers
are `polling`'s subject. A task whose provider gave no id to ask for, or has no
adapter, is not `Traceable`: the code passes it over before it looks at its age, it
stays open, and it is in the other tasks' way (`Clogged`).

`FairSpec` of `ResultDelivery` assumes that calls in flight go on and that Bull
hands out waiting jobs, notices stalled ones and promotes delayed ones. It
assumes nothing of the client, whose answer is free, and not that anybody calls
scheduleForTask a second time.

`WorkflowFair` assumes that handlers that were started run on and that executors
take the jobs that wait. It assumes nothing of child tasks, which may never end:
an executor waits with a deadline.

Of the breaker: what a process has begun it finishes, copies and cooldowns run
out, and a record nobody writes any more expires (Redis does that). Of the
notifications: the event recurs, handlers and jobs go on, keys and entries expire.

## What is proved

TLC checks one instance; the theorems hold for every value of the constants:
every set of clients, tasks, workers, pollers, processes and nodes, every graph,
price, balance, limit and environment. They assume only the named assumptions of
the modules that declare the constants: costs and quantities are integers of any
sign; opening balances, credits, unit prices and limits are natural numbers,
populations that are counted are finite, the kinds of handlers are disjoint,
`None` is none of the values it stands beside and `Unset` is no provider, a rule of
type primary_fallback reads two targets at most, the literals of expressions are
integers. What a theorem assumes besides of
the environment is in its row; `Undisturbed` is: no crash, no failing store, no
handler that outlives its lease, no second job of the administrator's
`reprioritise`, no negative estimate - the conditions under which the runs check the
same properties. None is there for the proof's convenience: in any one of the four
environments TLC finds a small instance that does not implement `Escrow`, and with
crashes or failing stores the other two money properties fail as well.

| Theorem | States | Module |
|---|---|---|
| `TypeCorrect`, `Solvency`, `StatusMonotone` | `TypeOK`, `NeverOverdrawn`, `StatusOnlyAdvances` of the task path, costs of either sign included | `TaskLifecycleProofs` |
| `RetriesFindTheirTask` | `AcceptedIsRemembered` | |
| `PendingKeepsItsJob` | `PendingIsQueued`, where nobody is cut short (`~CutShort`: no crash, no failing store) | |
| `NoChargeWithoutResult` | `ChargedOnlyForResults` | `ChargeProofs` |
| `WalletsOfOthers`, `SuccessWasPaid` | `OthersNeverPay`, `PolledSuccessIsPaid` | |
| `HoldsMatchRecords` | `HoldMatchesRecord`, where `Undisturbed` | `MoneyProofs` |
| `EndsAreClosed` | `EndedTasksAreClosed`, where `Undisturbed` and every task has an adapter | |
| `EscrowKept` | `ImplementsEscrow`: `Spec` implements `Escrow`, where `Undisturbed` | |
| `DeliveryTyped`, `DeliveredIsAcknowledged` | `TypeOK`, `EndIsAcknowledged` of result delivery | `DeliveryProofs` |
| `ReportFollowsResult` | `ProcessedBeforeReport`, without failing stores and replays | |
| `GivenUpIsSeen` | `GivenUpIsVisible`, without failing stores, timeouts and replays, for `MaxRetries <= DeliverAttempts` | |
| `WorkflowTyped`, `RunIsComplete`, `CancellationHolds`, `JobsAreAddedOnce`, `LeaseHolds`, `CancellationReaches` | `WorkflowType`, `SucceededIsComplete`, `CancelledNeverSucceeds`, `EnqueuedOnce`, `LeaseMatchesRun`, `CancelReachesTasks` | `WorkflowRunProofs` |
| `ValidIsAcyclic`, `ReportedIsCycle`, `ValidIsOrdered`, `GraphTypeCorrect` | `AcceptedIsAcyclic`, `CycleIsReal`, `LevelsAreOrder`, and the types | `WorkflowDefinitionProofs` |
| `ExpressionIsReadAsMeant` | `ReadAsMeant`, for expressions of any size and depth limit | |
| `QuotaIsKept`, `SlotsAreBounded`, `WindowIsKept` | `QuotaHolds`, `SlotsBounded`, `WindowHolds` | `ServiceProofs` |
| `StormsAreDamped` | `WindowsBounded`: the entries in the window of a limited rule, with those about to be added, exceed its limit by less than there are processes (`MaxPerWindow + N - 1`); no run checks this one | |
| `ProbesAreAdmitted`, `TransitionsAreLegal` | `HalfOpenAdmits`, `TransitionsLegal` | |
| `QuotesAreRecent`, `QuotesAreKept` | `QuoteIsRecent`, `QuoteIsKept` | |
| `DebtsAreBounded` | `DebtIsBounded` of the account pool | `SharingProofs` |
| `OpenAreAvoided`, `SharesAreTheirWeights` | `OpenIsAvoided`, `SharesAreWeights` of routing | |

### The task path

Solvency goes wallet by wallet: a client none of whose tasks has a negative estimate
is frozen and released natural amounts only, whatever the amounts of others, so that
each of the four updates keeps `0 <= frozen <= balance`. An actual cost may be
negative: a debit of it adds to the balance.

`TypeOK` is not inductive. A job's task may be `None` (an unused job), so a worker
that took such a job would have no task; a batch may hold copies of anything; and
`InsertTask` would reset a task that has moved on. `HubInv` adds what rules this
out: a waiting job names a task (`JobOK`), a busy worker does (`HandlersNamed`), a
poller at work has a copy in hand (`CopiesNamed`), a call in progress names a
task (in `BillingOK`, with solvency), and a task whose request has not inserted
it is absent (`NotInserted`). One lemma per component shows its steps preserve
the parts they touch and that statuses only advance; `HubStep` puts them
together.

Acceptance builds on two facts: nobody but its own request names a task before it
is inserted, and an inserted task is never removed (`Inserted`). A key that is
recorded names an inserted task, and it is recorded before the job is added, so
that an accepted request has it (`Remembered`). A job completes only after its
task has left PENDING, or with another job in its place, or after updatePriority has
removed it and is about to add another (`Queued`).

`ChargedOnlyForResults` is proved by following the evidence: `Evidence` says that
whoever is about to charge was handed a result - a call inside `settle`, a worker
holding a synchronous answer, a poller told "succeeded" - and that providers do
not take results back. The last needs that a provider that answers at once never
leaves a task running (`SynchronousNeverRuns`). `Spared` says that wallets change
only in calls for tasks of internal clients; `PaidFor` that the billing record is
there before the task, so that every settlement finds it and debits, and that the
poller that reports a success is one that has settled.

Money needs more: that nobody else is at work on the same task. While `Undisturbed`,
a task is in one hand at a time (`Hands`): its request until that is done, then its
one job and the one slot that has it, and once it is SUBMITTED the cron handler with
the lock, whose batch and hand name no task twice. Therefore at most one billing call
is under way for a task, and what it read of the record is still so when it writes.
`Holding` reads off the record, the record's marks and the call where the estimate of
the task is. `Backed` says the wallet has frozen as much as its tasks have set aside;
with a coin for every unit of money, both sides are cardinalities of finite sets, and
one await adds or removes the coins of one task. `Fund`, the three together, is
inductive; a release then always finds its amount frozen, which is
`HoldMatchesRecord`. `Closed` follows the calls to their ends: no settlement or refund
of a handler ends with the record at pre_deducted, nor is it there when a task has
ended and nobody has it in hand, and a debit belongs to a task that succeeded, was
cancelled meanwhile, or is about to be given its success.

The refinement mapping reads the deal of a task off its record, its debits and the
call at work. It does not read it off the amount that is held: a task whose estimate
is 0 is frozen too, and that must be a step of `Escrow` like any other. Every await
of the adapter is then a step of `Escrow` for one task - set aside, charge, give
back - or a stutter (`BillingDeals`), deposits are deposits, and every other action
of the hub leaves the accounts as they are. The refinement does not say that
`Escrow`'s steps come in the end: that is liveness, and TLC's.

### Result delivery

`EndIsAcknowledged` needs the courier's side of it: a courier that was answered
2xx has told the client (`AcceptedIsTold`), and what a courier is about to post
is what the task is, or that it is open (`PostsTruth`), because an end never
changes. With the shape of documents, jobs and couriers (`CallbackType`) this is
inductive (`DeliveryInv`); schedulers and extractors touch none of it. It holds
for every number of attempts and stalls, and every environment, crashes included.

`ReportOrder` follows a report backwards: wherever one is on its way - a call
inside enqueueForTerminalTask, a job of the callback queue, a courier - the task
was processed, and no scheduler reports. `GivenUpInv` says that jobs in the hands
of couriers are active ones and in one hand each, so that a job that has failed
for good was failed by the courier that has just written what the task shows.

### Workflows

A handler decides on a copy. The invariant says what may be trusted of it: an
entry that has ended never changes, so that whatever an old copy says of such
entries is true of the run (`Agrees`); a copy in which every node has ended is the
state of the nodes for ever. A cancelled run that a retry sets running again has a
failed node, which stays failed, so nobody finds it complete. The claim of an
attempt comes before its job, and no node becomes pending again, so each job is
added once. The lease follows the handler that ended the run: it goes on to
release it and to nothing else. Its expiry is a step of its own, which leaves a run
admitted and therefore leaves the invariant alone. The cancellation reads its copy of the nodes in
the update that ends the run, so an open child task is in the copy, or is yet to be
recorded by the executor that created it, which will find the run ended and ask the
task to stop itself (`Known`); this needs that a job is in one place only, the queue
or one hand, and that its node is running while the run is (`Places`).

Validation is a depth-first search. `ValidIsAcyclic` numbers the nodes in the
order in which they become BLACK and shows that all edges lead to lower numbers;
`ValidIsOrdered` is Kahn's invariant, that a node is in the levels only after
everything it depends on.

Expressions need no invariant, but two facts about functions that are defined by
themselves. `Read` is the parser, a visit to a method as an argument. That its
equation has a solution at all rests on every visit having less ahead of it than the
one that makes it (`Ahead`: tokens left, then levels left), from which `SolutionExists` and `SolutionsAgree` give `ReadEquation`. Then, by the
construction of phrases: wherever a phrase stands in a text, the method of its level
and those below read it as it is meant inside as many parentheses, and stop behind
it, unless an operator follows that one of them would take (`AtomIsRead`,
`ParenthesisedIsRead`, `PrefixIsRead`, `InfixIsRead`). That no such operator follows
is what the parentheses of `Guarded` are for, and here the levels `parseOr` to
`parseMultiplicative` must be the author's. `PhrasesAreRead` is the induction on the
number of operators, over the phrases that are read so, a set.

### Limits, the breaker, prices, shares

Quota: claims that were not saved and deletions that were not released are still
in the number, so it is never less than what is owned. Slots: tokens and those
about to add one exceed the limit by less than the handlers under way. Window:
what a late request removes has left everybody's window, so whatever may still
count is in the set (`YoungAreLogged`).
Notifications: whoever is about to add found room when it counted, and every other
process adds one entry at most before it counts again.

Breaker: each copy, cached or about to be written, is good by itself - it has
probes to spare when half open - and whatever was written since it was read, the
compare-and-set lets it through only as a transition from its own state. Prices:
what an entry or an answer holds was the model's when it was read; the unit price
of a record never changes; and estimate and settlement read the same amount of a
request that states a positive one or none.

Shares: both properties are about sums over sets of any size. The library's
induction takes a predicate as a parameter, which the provers cannot instantiate;
`SetInduction` has a set of sets in its place, and the lemmas about sums (a member
more, two disjoint parts, another numbering) follow from it. Pool: that one debt is
bounded is not inductive, and neither is any bound on single accounts, because
those left out of a turn keep what they have. The invariant is about all sets of
accounts: m of n accounts together are ahead by at most m(n-m) times the largest
weight (`Owed`). The winner pays for the turn, so a set it is in gains nothing; a set
it is not in has no candidate ahead of the winner, and its bound follows from that of
the set with the winner and that of the set without candidates (`Balance`).
Routing: what was open during a whole decision was open at each read of it
(`Reads`). The bucket count goes by induction over the targets; the filtered list is
the list of the targets that are left, renumbered by rank.

### Only model-checked

Liveness is out of the prover's reach, as is everything under fairness:
`SubmittedTasksEnd`, `EndIsReported`, `RunEnds`, `OpenIsLeft`, `RecurringIsQueued`.
Every other property of a run that should hold is stated by a theorem.

## Disagreements between code and documents

Each `claim_*` run checks one statement of a document or comment in `TaskClaims`
or `WorkflowClaims` and TLC shows a behaviour of the code that breaks it;
`PROJECT.json` quotes the lines under "findings".

| Run | The documents say | The code does |
|---|---|---|
| `claim_idempotent` | `SettlementIsIdempotent`: settlement is idempotent (`docs/billing-system.md:32`) | a crash after the debit makes the next poll debit again (`billing.adapter.ts:225`) |
| `claim_balance` | `BalanceIsNeverNegative`: the balance cannot be negative (`docs/billing-system.md:173`) | the sign of an amount is checked nowhere: a quantity below zero, which a model without `params` accepts (`task.service.ts:164`, `pricing.service.ts:131-142`), freezes a negative amount, and what is available then exceeds the balance (`wallet.service.ts:153`) |
| `claim_branch` | `BranchChosen`: a condition chooses one branch (`docs/workflow-and-portal.md:573`) | a node on a branch runs before its condition has chosen: edges whose branch has not been chosen are dropped, so nothing is left to wait for (`workflow-execution.service.ts:717`) |
| `claim_retry` | `RetryMakesAttempt`: a retry makes a new attempt and a real job (`docs/workflow-and-portal.md:858`) | none of its changes to the node states is saved, so no node is attempted again (`workflow-execution.service.ts:333`) |

Smaller divergences met while modelling, which no run is spent on.

Of the task path: the PENDING check does not prevent double consumption
(`docs/technical-design.md:269`), because check and submission are apart;
concurrent requests with one key create two tasks (`:148`); success does not mean
a settled record (`docs/billing-system.md:129`) after one refused debit. A
synchronous task goes from PENDING to SUCCESS, which `VALID_TRANSITIONS` of
`docs/technical-design.md` 11.3 does not list; a task whose provider has no
adapter in the worker fails without the refund `docs/billing-system.md` 4.2
promises; `resourceMetadataStatus` can say pending without a job, where
`task.schema.ts:136` says it is queued; delivery is not guaranteed as
`docs/technical-design.md` 1.2 has it, only up to dead letters and lost jobs;
a batch's worth of tasks without a provider id or adapter stops all polling, because
the poller neither ends them nor moves their `nextPollAt` (`polling.service.ts:72-89`);
an accepted task loses its job for good when the process dies between the awaits of
updatePriority (`task.service.ts:392`, `:402`);
`refund` marks the record refunded
although all three attempts to unfreeze failed; `markFailed` is not a conditional
update and can replace `settled`; the polling lock, meant to prevent duplicate
scans, lapses under a long batch; `resolvePolicy` throws for a client without a
policy, where its comment says it defaults to internal;
`portal-api-key.service.ts:182-195` creates a key without the `name` its schema
requires.

Of prices: a quantity of 0 or less is estimated as it is and charged as the default
(1 piece, 5 seconds), although `actual-usage.util.ts:5` and `:54` say that the two
agree; tokens are priced one by one in both, but without a number the estimate takes
1000 and the charge 1; a quantity that is no number gives an estimate of NaN, which
the billing record's schema refuses, so that such a task is not created; the duration
default is 5 where comments say 1. An entry can
be used for its lifetime and the time of the answer it came from, because
`expireAt` is set when the answer arrives. `refreshCache` has no caller.

Of workflows: one with a cycle can be saved, because create and update do not validate
(`workflow.service.ts:59-70`, `:149-151`), where `docs/workflow-and-portal.md:856` says
it can be neither saved nor run; the expression interpreter of `docs/workflow-and-portal.md:546` builds
a tree; the code computes while it reads, so both sides of `&&` are always
computed and `n != 0 && 10 / n > 1` throws at n = 0. A self-loop that is reached
from elsewhere is reported with the whole path that led to it. A lease may expire
under its run (`workflow-policy.service.ts:135`, `workflow-execution.service.ts:785`),
whose owner may then have more runs than `maxConcurrentRuns`, and callers who are not
active portal users are not limited at all; concurrent schedulers exceed `maxParallelism`; a crash between
claiming a node and adding its job leaves the run waiting for it; a failed start
deletes the run, but the jobs it has added still create tasks; a node that times
out, or a join that fails fast, leaves child tasks running; onNodeComplete does not
look at the attempt; were retry's changes saved, a run with cancelled nodes could be
reported succeeded. A slot of the quota is lost for ever when a request dies between
claim and save, or between deletion and release, and repairing the counter while
another request deletes loses one too; for a user whose counter is behind, from
before there was one, the quota can be exceeded (the model's `behind`).

Of routing: the code orders rules by how specific they are, then by priority
(`provider-routing.service.ts:104-108`), the comment at
`model-routing-rule.schema.ts:27` says the reverse; the same client, model and rule
do not always get the same provider (`:690`) when another target opens; a rule that
leads nowhere is not followed by the next. Of the account pool: the best account is
taken while any scores enough, so weights have no effect until none does; the
half-open state is never entered, because nothing sets `health_status` to open
(`circuit-breaker.service.ts:180-185`); `estimatedCost` is never reported, so cost
limits do nothing; a task submitted with one account may be polled with another.

Of the breaker: an evaluation that has seen OPEN can try again right after a probe
has opened the breaker anew; an override is lost to a write that expected the state
it set, or to the key's expiry; any number of probes are admitted at once, and
counts are lost. Of the limiter: refused requests count, so that a client who keeps
asking starves itself; a call that outlives its token is no longer counted. Of the
notifications: an event takes the cooldown before the window may suppress it;
suppressed events are recorded, where `docs/notification-system.md:181` says they
are silently dropped; a store error at one rule skips the rest
(`notification.service.ts:73-81`).

## What is abstracted

- Money is integers; the code uses floating point.
- An update that throws has no effect; a lost reply to an effective update is not
  modelled.
- The tasks of a batch are handled in any order, and the jobs of the queue, whose
  priorities are not kept, in any order; which tasks are in a batch follows the order
  of `nextPollAt` and the limit. `incrementPollCount` and `deferNextPoll` put a task
  behind all that are due.
- The 24-hour expiry of idempotency records.
- Result delivery: conversion of URLs and reading of media succeed or not; a URL
  that cannot be read counts as read, as in the code. FAILED and TIMEOUT tasks
  get metadata but are not reported. Of the jobs with ids of their own (forced
  refreshes, replays) a task has one at a time.
- In the task path, one queue stands for all; a worker never forwards a job to another queue.
- Timeline, timing, metrics and usage writes: the ones that may throw are part of
  `storeError`, the others have no effect on the properties.
- Workflow runs: what nodes pass to each other is left out, so an executor's result
  is free, and so is a condition's choice. A child task is open, ended or asked to
  stop. Time is a free choice to give up waiting.
- Expressions: strings, division, paths and the tokenizer's limits on length. The depth
  limit of the parser is modelled.
- Breaker: counting failures and the error rate only decide when a closed breaker
  opens, which may be at any evaluation. A Redis that fails is `outages`.
- Window: Redis executes what it reads of one connection back to back. A limiter
  whose Redis fails lets everybody through, which is left out, as is the daily limit.
- Routing: hashes and latencies are free; the preview only reads.
- Account pool: failures are forgotten at any time, as their window slides.
- Prices: a model has one document; several may share a `model_id`, and any of
  them is then taken.

## What is not modelled, and the plan

| Part | Why |
|---|---|
| Provider adapters | translations to and from HTTP interfaces; the models let providers answer anything |
| Health metrics, statistics, usage | counters that are written without waiting and decide nothing by themselves; what reads them is modelled for all values |
| Administration, authentication, portal sessions | CRUD, guards and tokens: sequential, one document at a time |
| Link conversion, media metadata | HTTP and file formats |
| Role changes in the workflow policy | `workflow-policy.service.ts:34-76`, `:173-186`: the limits are constants here |
| Node definitions, ports, templates | data without concurrent state |
| `src/dashboard`, `src/portal` | browser code over the HTTP interface |

The last two and the administration are most of the repository by lines, which is
why the lines that are modelled are a small part of all of them: the control flow
of the server's core is in it, and there is little more of that kind to model.

What could come next: the wallet's ledger (`balanceBefore`, `wallet.service.ts:230`)
and lost replies; the cache of permissions and the sessions of the portal; what
remains of the escrow's promise when a store fails or a process dies, which
`Undisturbed` leaves to the runs.
