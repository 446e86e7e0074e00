# bun-boss in TLA+

bun-boss is a job queue kept in a database table: processes insert jobs, workers
fetch and process them, a supervisor expires and sweeps them. This directory holds
TLA+ models of its core, the TLC runs that check them, and TLAPS proofs of their
main invariants. Definitions are translated from `src/src/*.ts`; `PROJECT.json`
maps each one to its lines.

## Inventory

| Component | State it keeps | Operations | Interacts through | Hard because |
|---|---|---|---|---|
| **Job table and commands** (`plans.ts`, `manager.ts`) | one row per job: state, singleton key and slot, policy, dead letter queue, retry count and limit, timestamps, source | send, fetch, complete, fail, cancel, resume, retry, update, delete, redrive, sweep | SQL, from any number of processes | the policies are partial unique indexes; failing is delete + re-insert with fallbacks; a column one path forgets breaks a rule elsewhere |
| **Worker processing** (`manager.ts` `#processJobs`, `#settlePerJob`; `worker.ts`; `tools.ts`) | `Worker.jobs`, the batch in hand, its timer and abort controller | fetch, call the handler, race it with a timer, settle | awaits between statements; ids, not attempts, in the statements | stale attempts, lost replies, partial settlement, shutdown in the middle |
| **Instance lifecycle** (`index.ts`, start and stop of every subsystem) | started/stopped flags, promises in flight, intervals, busy flags, parked cleanups, the pool | start, stop (graceful, timed, forced) | stops the subsystems one after another, then `failWip`, then the pool | start/stop overlap; handlers that outlive the timeout; flags that passes share |
| **Supervisor** (`boss.ts`) | `monitor_on`, `maintain_on` on the queue rows | expire by timeout and heartbeat, sweep, statistics | statements, gated so that one instance runs per interval | expiry races a late answer; a gate set before the work is done |
| **Flows and Navigator** (`navigator.ts`, `attorney.ts`) | `blocked`, `blocking`, `pending_dependencies`, dependency rows | insert a graph, resolve completed parents | table only | several navigators; parents deleted before they are resolved |
| **Worker loop wake-ups** (`worker.ts`, `notifier.ts`) | `beenNotified`, delay promise, `stopping` | notify, stop, delay | callbacks | lost wake-ups |
| **Timekeeper** (`timekeeper.ts`) | clock skew, `cron_on`, schedules | tick, forward | internal queue with a throttling slot | duplicate or lost ticks with skewed clocks |
| **Queue cache** (`manager.ts`) | name → queue row | refresh, read-through, evict | statistics written by the supervisor | wrong-empty reads, stale policy and `singletonsActive` |
| **Group concurrency** (`plans.ts`) | `group_id`, `group_tier` | part of fetch | counts read before the claim | overlapping fetches |
| **Contractor, adapters, Attorney, spy, dialects** | connection or none | install, run SQL, validate, record | – | little state of their own |

What makes each correct: for the *table*, that policies and throttling slots hold
along every path, that failing never loses or blocks a job, and that each terminal
failure leaves one dead letter; for *processing*, that a job is attempted a bounded
number of times, that its handlers do not overlap unless an attempt ran late or was
lost, that its outcome has a cause, and that it settles; for *flows*, that a
child is released exactly when all its parents completed; for the
*instance*, that stop() leaves nothing behind and nobody waits for ever; for the
*loop*, that no wake-up is lost; for *cron*, one job per tick; for the *cache*, that
a queue that exists is never reported missing and that it converges.

## Modules

| Module | What it is |
|---|---|
| `JobStore` | the table; one action per command |
| `JobStoreProofs` | TLAPS proofs about `JobStore` |
| `Attempts` | abstract specification: what processing promises for each job |
| `Processing` | workers, their statements, the supervisor, stop and crash; refines `Attempts` |
| `ProcessingProofs` | TLAPS proofs about `Processing` |
| `OrderlyProofs` | TLAPS proofs about `Processing` when it is orderly: `OverlapAborted`, the refinement of `Attempts` |
| `Dependencies` | abstract specification: what a flow promises |
| `Flow` | flows, several navigators and the commands around them; refines `Dependencies` |
| `FlowProofs` | TLAPS proofs about `Flow` |
| `Instance` | start() and stop(), subsystems with their passes, worker loops and wake-ups |
| `InstanceProofs` | TLAPS proofs about `Instance` |
| `Cron` | schedules: gate, evaluation, throttled insert, forwarding |
| `CronProofs` | TLAPS proofs about `Cron` |
| `QueueCache` | the cached queue row, its refresh, and the fetch that relies on it |
| `QueueCacheProofs` | TLAPS proofs about `QueueCache` |
| `MC...` | instances for TLC, one for each module that is checked |

The modules are not composed into one: they share the job table only through
statements, and each takes from the others what its own properties can tell apart.
`Processing` keeps the row columns that attempts depend on, `Flow` the flow columns,
`QueueCache` states and keys; `JobStore` has the whole row. `Instance` has the phases
of a worker loop where `Processing` has its statements.

### JobStore

`job` is the table, a function from ids to rows, `NoRow` where there is none. Each
command is a single SQL statement, or several in one transaction, and so is one
action. The guard of an action is the `WHERE` of its statement, its effect the `SET`
or the inserted columns. The unique indexes are `Clash`: the four policies
(`Forbids`) and the throttling slot (`SharesSlot`). A statement that would violate
an index without `ON CONFLICT` has no successor (the database raises 23505 and the
caller sees an error, or an empty fetch).

- *Failing* (`FailJobs`) follows `failJobsBody`: the rows are taken out, put back as
  `retry` where retries are left and the row fits, otherwise as `failed`; each failed
  one with a dead letter queue is copied. `RetryOutcome` allows every set of retry
  rows that `ON CONFLICT DO NOTHING` may let through, because the order in which the
  sub-statements of the `WITH` see the deleted rows is not specified and differs from
  the split form (`reinsertFailedJobs`) for backends without multi-mutation CTEs. The
  columns of a row put back are those the re-insert lists; the source of a dead letter
  is not among them (`Retried`, `Failed`).
- *Updating* (`Updated`) keeps the retry limit when none is given, but sets
  `dead_letter` to whatever the caller passes for the key, `NULL` too
  (`UpdateDeadLetters`).
- *Sending* with debounce tries the current slot, then the next (`CreateJob`).
- *Redriving* drops rows that clash at their destination, as the code comments say.

Abstracted: payloads and outputs; the clock (which jobs are due, late or past
retention is left free, which allows more behaviours than the code); priority. The
variable `runs` of a row is history: how often it was fetched.

### Processing

Each worker belongs to an instance of its own. `worker[w]` holds the program counter
of `Worker.run` and `#processJobs`, `Worker.jobs`, the batch, and the statements not
yet issued. `Poll` is the check of the loop and the call of `fetch()`; `Fetch` the
statement taking effect; `Receive` its reply and the call of the handler;
`HandlerResolves`, `HandlerRejects` and `TimesOut` the three ends of the race in
`resolveWithinSeconds`; `Issue` one settlement statement (perJobResults needs up to
three); `Finish` the return to the loop. `IssueFails` is a statement that fails,
before or after it took effect: the first time, the catch block fails the whole
batch; in the catch block, the error ends the iteration and `Worker.jobs` keeps its
contents, which a later `FailWip` fails again. `LoseReply` is the same for `fetch()`.

`Stop` sets the worker's stopping flag; when time runs out `FailWip` fails the jobs
in `Worker.jobs` and, in a separate step (there is an await between), `Abort` ends
the race with no result, which `#processJobs` takes for the handler's return.
`Crash` ends a process. `Expire` is the supervisor's statement. Statements carry ids
only: `CompleteRows` and `FailRows` hit whatever attempt is current, as in the code.

`resolveWithinSeconds` ends the wait for a handler, not the handler. When the timer
fires or the stop aborts, the worker goes on and the handler stays behind as a *stray*
(`strays`): it ends on its own (`StrayEnds`), with its process, or never. A handler
runs (`Runs`) while its worker waits for it or it is a stray, so that the properties
about overlaps count the strays as well.

Time is abstract. `Elapse` makes an attempt late, after which the supervisor may
expire it and the worker's timer may fire, in any order. `TimersFirst` and
`ForcedStops` select the environment: with `TimersFirst` a live worker settles its
attempt before the supervisor does, with `ForcedStops` a stop may run out of time.
Retries start at once and the queue has no policy, so every failed row fits again;
`JobStore` covers what happens otherwise.

Verdicts of handlers and lost attempts are history variables: they are read by
properties only.

### Attempts, and the refinement

`Attempts` knows no workers: the jobs `Start`, are judged (`Judge`), may lose their
current attempt (`Lose`), are recorded as completed only if the current attempt
succeeded (`Record`), and are given up only if it failed or was lost (`GiveUp`),
finally only after the last attempt or on the handler's word. `Processing` maps to
it with the row state as phase, the number of fetches as attempt, and the verdict
and loss of the *current* attempt. A statement of a stale attempt that hits the next
one has no counterpart there, and that is the point.

### Flow, and the refinement of Dependencies

`job` has the flow columns and the state; a state below `active` is `queued`, a
cancelled or failed one `stopped`, for neither is told apart by any statement of a
flow. `CreateFlow` is flow(), with `ValidFlow` for `validateFlowJobs`. The resolver's
statement is two steps. `Claim` locks a batch of completed parents (`FOR UPDATE SKIP
LOCKED`) and takes the snapshot; `Resolve` decrements, unblocks, clears and commits.
Commands of other sessions run in between, and a `Fail` in between replaces a
child's row: the statement then finds neither the old row (deleted) nor the new one
(not in its snapshot). `moved` remembers these rows, `missed` the decrements they
lost. A pass goes table by table, `BatchSize` parents at a time, at most `MaxBatches`
batches; `Abandon` ends it between or inside statements.

`Dependencies` knows only which jobs are free, which have finished and which were
completed by hand. A job is released when all it needs has finished.
`ImplementsDependencies` maps a stored row that is not blocked to a free job.

### Instance

The code between two awaits is one action, so an action here is a stretch of
straight-line code: `CallStart` is start() up to its first await, `BootSchema` the
part of `#doStart` after the contractor. `boot` and `halt` say where `#doStart` and
`#doStop` wait; a caller waits for one of them or for both in turn. When a promise
settles its callers go on before timers and query results (`Settling`), in any order.
Each subsystem (`part`) has its stopped flag, its interval, the busy flag and the
number of passes that run. `#onSupervise` and `onCron` clear the busy flag in a
`finally` that also runs when a tick returned because the flag was set;
`FlagAfterOverlap` is that difference between them and the navigator.

A worker is in its fetch, its handler or its delay. `Turn` is the check at the top of
the loop, `Rest` the one before the delay, `Woken` what notify(), stop() and the end
of the delay do. offWork() leaves its cleanup in `pendingOffWorkCleanups` (parked)
or lets its caller await it.

### Cron

One schedule; the singleton key keeps schedules apart. `OnCron` is the tick with the
gate `cron_on`, `Evaluate` compares the schedule with the estimated clock of the
database, `Insert` is throttled by the slot the database's clock is in by then;
between them time passes. The unit of the model is ten seconds: a slot is six units.

The forwarding worker goes the way of any worker. `handlers` has the calls of onSendIt
under way for the job of a slot, each with its attempt: `Send` and `SendFails` end its
`Promise.allSettled`, `Complete` and `CompleteFails` are the statement after it, `Fail`
and `FailFails` the catch block of `#processJobs`, `FetchFails` a lost reply. `Overrun`
makes a handler late, after which `TimesOut` leaves it behind as a stray that still
sends, and `Expire` puts its job back. `Crash` ends an instance, `ForcedStop` puts back
what it holds and aborts. Statements go by the job's id, so a late one may hit the next
attempt. The code fetches due ticks in batches; here each job is a batch of its own, for
the jobs of a schedule are a minute apart. Faults (crashes, forced stops, failing
statements, overruns) are bounded by `MaxFaults`; `hurt` is history, the slots whose
job met one.

### QueueCache

The queue row has a version (what updates change) and the keys that `cacheQueueStats`
found active. Every read of the queue may be answered wrong-empty, and the answer of
a refresh is applied later than it was given. `absent` and `wronged` are history: an
instance is wronged when it denies a queue that was there during the whole lookup, or
its refresh drops one that was there since the last refresh that saw it. (The read-back
after createQueue and updateQueue drops the entry after one empty answer; the next
lookup finds the queue again, so this is not counted.) `Fetch` is a batch fetch
of a queue with policy singleton: the cached active keys are left out, one job is
taken for each key, and the unique index makes the whole statement fail or pass.
`Elsewhere` stands for the other instances, of which only the row can be seen.

## Runs

| Run | Properties | Bounds |
|---|---|---|
| `stately` | `TypeOK` `IndInv` `PolicyUpheld` `FailNeverConflicts` `FailKeepsJobs` `SourcesLastUntilFailure` `LettersMatchFailures` | 3 ids, a stately queue and its dead letter queue, 1 key, 1 retry, 2 fetches per job, batches of 2, updates that clear `dead_letter` |
| `slots` | `PolicyUpheld` `ThrottleUpheld` `CompletedOnMatches` | 3 ids, an exclusive queue and a standard one, 1 key, 2 slots, 2 fetches, batches of 1 |
| `adverse` | `TypeOK` `RunsBounded` `IndInv` `OverlapExplained` `OutcomeExplained` `AllSettle` | 2 workers, 1 job, 2 retries, 1 failing statement; w1 has perJobResults and may crash, be stopped by force and lose statements; supervisor and workers race |
| `orderly` | `OverlapAborted` `ImplementsAttempts` | 2 workers (w2 with perJobResults), 2 jobs, batches of 2, 1 retry, 1 failing statement; timers first, no forced stop |
| `flow` | `TypeOK` `PendingExact` `ReadyToRun` `NoCircle` `ImplementsDependencies` `NotStranded` | 3 jobs in 2 tables, 3 candidate edges (a chain, a join, a fork, a circle), 2 navigators, batches of 1, 2 batches a pass, 1 failing pass |
| `instance` | `TypeOK` `NeverBoth` `QuietWhenStopped` `PoolOutlivesWork` `GracefulSpares` `NoLostWakeUp` `OnePassAtATime` `CallsReturn` | 2 callers, 3 calls, 1 worker besides the timekeeper's, 1 failing query, 1 tick during a pass |
| `cron` | `TypeOK` `OneSentPerMinute` `NothingMissed` `ForwardsExplained` | 2 instances, a slot of 6 units, an occurrence at 6, interval 2, clocks exact or 1 ahead, passes of at most 1, 1 fault, 1 retry, 12 units of time |
| `queues` | `TypeOK` `Corroborated` `Converges` `NoHeadOfLine` | 1 instance with a cache and others without, 3 jobs of 2 keys, batches of at most 2, 2 changes of the queue, 1 wrong-empty answer |
| `redriven` | violates `DeadLetterHonoured` | 3 ids, batches of 1, no retry |
| `stale` | violates `FailedMeansSpent` | 2 workers, 1 job, 1 retry, nothing else goes wrong |
| `aborted` | violates `CompletedMeansHandled` | 2 workers, 1 job, 1 retry, a forced stop |
| `twice` | violates `OnlyOneSent` | 2 instances, interval 3, exact clocks, passes of at most 1, no fault |

**Why the bounds are enough to be interesting.** A clash takes two rows of one key,
and the third id gives a dead letter, or a row that takes the slot a cancelled one
left; batches of two let two failing rows compete for one `retry` place; two fetches
give a retry and its exhaustion. In `slots` the constants `MaxLimit` and
`UpdateLimits` bound how far retry() and update() raise a limit. For processing, two
workers and two attempts suffice for a stale attempt to meet the next one; `adverse`
has a third attempt so that a stale attempt can meet another that is not the last, and
for a stray to run beside two. Its worker with perJobResults is the one whose statements
fail, so that a statement of its three may take effect and the catch block fail the job
all the same. `MaxErrors` bounds how many statements fail. Symmetry: ids, jobs and the
instances of `cron`, never in a run with liveness.

In `flow` two parents share a table, so that navigators compete for a batch and a
batch can be full, and the third job is a child in another table; batches of one with
two batches per pass exercise every branch of `AfterBatch`. In `instance` three calls
by two callers give start during stop, stop during start, and a second caller who
joins; one failing query gives the start that is called again. In `cron` the
occurrence is at the second minute, so that a clock ahead can put its job into the
minute before, two intervals, a pass and the error of the clocks just fit in a slot, and
time runs to the end of its minute. One fault is enough for a job to be forwarded
twice, in each of the ways there are; two attempts are enough for two handlers to meet,
and for a late statement to hit the second. In `queues` two changes give
a deletion and a new creation, and one wrong-empty answer is the case the code guards
against; with two the guard is beaten by design. The three jobs are two of one key and
one of another, the smallest case of a job in the way of one behind it.

**Fairness** (`Processing`, for `AllSettle`). Weak fairness of each worker's own
steps: the event loop of a live process goes on, and each of these steps is enabled
until taken. A handler need not return, because `TimesOut` is among them and time
passes (weak fairness of `Elapse`); a stray need not either. Weak fairness of `Expire`: some instance
supervises, at its interval. Nothing is assumed of crashes, errors, stops or aborts.
The property needs one worker that is never stopped; in `adverse` that is w2.

**Fairness of the others.** `Flow`: some navigator starts a pass again and again, and
a statement sent is answered; `Abandon` is bounded. Nothing is assumed of those who
complete, fail or delete jobs. `Instance`: promises settle, queries of start and stop
answer or fail, passes end, fetches answer and handlers return or time out
(`resolveWithinSeconds` sees to that); nobody has to call anything, and no timer of a
poll interval has to fire. `QueueCache`: the refresh interval, the statistics and the
polls of a worker go on, calls are answered; jobs need not settle and nobody has to
send, create or update.

**Orderly is an assumption, not a guarantee.** The code does not ensure
`TimersFirst`: the supervisor's clock starts at the claim and the timer at the
reply, and a batch waits for its longest job. The run says what processing keeps
if timers and stops behave; `stale` and `aborted` say what each assumption is worth.
Nor does `orderly` let statements of a perJobResults worker fail: if one of them takes
effect, its reply is lost, and the catch block fails the whole batch, that
fail() can reach the next attempt of a job already put back, and the refinement does
not hold.

## Findings

1. **stately**: every statement that puts a failing job back leaves out the source columns
   (`plans.ts:1807-1837`, `1882-1912`, `2163-2170`, `manager.ts:1533-1556`), so a dead
   letter that fails, even to be retried, no longer knows where it came from, against
   `docs/api/jobs.md:474` and `docs/api/queues.md:53`; redrive() then finds it only for a
   destination the caller names. `SourcesLastUntilFailure` says exactly that: a failing
   step clears the source, and nothing else does.
2. **redriven**: `redrive()` re-creates jobs without `dead_letter`
   (`plans.ts:2213-2268`), so their next terminal failure leaves no letter, against
   `docs/api/queues.md:53`. `LettersAreLeft` says that only update() with `deadLetter:
   null`, which asks for it, does the same: the promise holds in every queue that gets its
   jobs from `send()` alone, while no update clears the column.
3. **twice**: an occurrence is due for 60 seconds of the clock at the evaluation, and
   throttled by the slot of the clock at the insert (`timekeeper.ts:195`,
   `plans.ts:1543-1547`). A pass that evaluates at the end of a minute and inserts in
   the next sends an occurrence again, against `docs/api/scheduling.md:19`.
   `OneSentPerMinute` says that nothing worse happens, and `OneIsSentIdeally` that exact
   clocks and inserts that take no time are what the promise needs.
4. **stale**: the fail() of an expired attempt fails the attempt after it
   (`manager.ts:400`, `plans.ts:1736`), which `docs/api/queues.md:91` calls no longer
   relevant.
5. **aborted**: `failWip` followed by the abort can complete a job that another
   instance has fetched in between, with no handler having returned
   (`manager.ts:523-532`, `394`).

Observed but not run:

- A handler that ran out of its time and does not heed its signal goes on
  (`tools.ts:49-62`) while its job is put back and another worker handles it. This needs no
  crash and no slow supervisor, against "Exactly-once job delivery" (`README.md:48`).
  `OverlapAborted` is what orderly processing keeps: attempts of a job overlap only so.
- An occurrence is forwarded a second time without any crash: complete() of the internal
  queue's batch fails and the catch block puts the job back (`manager.ts:394-400`), or
  the handler is late, or a stop is forced. `ForwardsExplained` says that one of these
  happened.
- Dead letters are inserted without a policy (`plans.ts:1951-1973`), so a dead letter
  queue with a policy of its own does not keep it for them. `PolicyUpheld` excepts
  queues that receive letters.
- A dead letter takes retry and retention settings from the dead letter queue, where
  `docs/api/queues.md:53` speaks of "the same retention and retry configuration as the
  original job".
- A start() that failed and is called again runs manager.start() a second time
  (`manager.ts:429`); the first intervals can no longer be cleared. A stop() that waited
  for the failed start can also run beside the second one. `retried` marks these
  histories, and the properties of `Instance` except them.
- stop() called while a start() waits for an earlier stop() joins that earlier stop;
  the start then runs, and the instance ends up started. After a stop() that failed,
  start() returns at once, because `#started` is still set.
- A tick of `#onSupervise` or `onCron` during a pass clears the busy flag of that pass:
  isMaintaining() is false while the pass runs (`docs/api/ops.md:88`), the next tick
  starts a second one, and stop() may close the pool under it.
- The cleanup of an offWork() whose caller awaits it is not parked, so the pool may
  close under its handler.
- A child of a flow whose row fail() re-inserts at the very moment of the decrement
  keeps its counter and stays blocked for ever (`plans.ts:1390`); so does a child whose
  parent is deleted after it completed and before it was resolved (`plans.ts:2270`).
  No property of these modules says that this cannot happen, for it can: `PendingExact`
  counts the lost decrements in `missed`, and `NotStranded` excepts both.
- With `cronMonitorIntervalSeconds` of 45 two evaluations can be 90 seconds apart, as
  the gate is strict and the tick after it comes an interval later; an occurrence can
  be skipped. With the default of 30 the gap reaches 60 seconds and a little more as
  soon as a pass takes time. `NothingMissed` assumes `Punctual`: two intervals, a pass
  and the difference between two estimates of the clock fit in a minute. It speaks of
  the job of the minute's slot, because a job carries no occurrence: the late insert
  of the minute before may take the slot, and the job of this minute then meets it and is
  not inserted.
- The singleton key of a schedule is name and key joined by two underscores, which
  does not tell every pair of names and keys apart.

## Proofs

All theorems are about `Spec` without fairness, for every value of the constants that
satisfies the named assumptions (`NoneAssumption`, `ConfigAssumption`,
`BoundAssumption` of `JobStore`; `ProcessingAssumption` of `Processing`;
`JobIdAssumption`, `TableAssumption`, `BoundAssumption` of `Flow`, where the set of ids
is finite because counters are cardinalities; `WorkerAssumption` of `Instance`;
`JobAssumption` and `BoundAssumption` of `QueueCache`; `TimeAssumption` of `Cron`). These give
types only, `WorkerAssumption` that the internal worker is none of the application's, and
`TimeAssumption` that a pass is shorter than the interval. What a theorem assumes beyond
them is a hypothesis of its statement (`Orderly`, `OnTheMinute`, `SmallErrors`,
`Ideal`, `None \notin Destinations`: each redrive() names its destination, and
`None \notin UpdateDeadLetters`: no update() clears `dead_letter`).
Queues, ids, keys, jobs, workers, callers, instances and navigators may be any sets, `Batch` and
`BatchSize` any numbers.

**JobStore.** `Invariance` proves `IndInv`: each row satisfies `RowInv`, and the rows
together satisfy the indexes (`Unique`). `RowInv` is what the properties need to
become inductive: a settled row has `completed_on`, a fetched one `started_on`, the
retry count follows the fetches, and every row outside the dead letter queues carries
its queue's policy. Without the last conjunct the indexes say nothing about the
policy, since they are partial on that column. From it follow `PolicyHolds`,
`ThrottleHolds`, `CompletedOnCorrect` and `RetryCountCorrect`. `FailureFits` shows
that no index stands in the way of a failing batch: a failed row escapes all
indexes but the throttling one, where it keeps the slot it had; a letter has no
policy and no slot. `FailureKeepsJobs`, `SourcesAreKept` and `LettersMatch` are action
properties: only the failing commands take a step that `FailsIn` describes. What
they put back keeps all of its identity but the source; every other command keeps the
source too; and by the fresh-id bijection each terminal failure gets one letter. `LettersMatch` is about jobs with a
`dead_letter`; `LettersAreLeft` is about queues that have one. It takes another invariant,
`AllKnow` (a job of such a queue carries a dead letter queue), which every command keeps
except a redrive() into the queue and an update() that clears the column: hence the
restriction to queues that nobody redrives to and no letters come to, and the hypothesis
on updates.

**Processing.** `ProcessingInvariance` proves `IndInv`: `CountsInv` (a row that may be
fetched has a retry left), `BatchInv` (a worker has one statement to issue for each
job of its batch), `ClaimsInv` (an undisturbed job a worker has yet to settle is
active, and no one else has it), `VerdictsInv` (attempts belong to one worker, and are
judged once), `CausesInv` (a statement yet to be issued has its cause), `StraysInv` (a
stray's attempt is late or lost, so a job with a stray is disturbed). `ClaimsInv` is
the heart: a row leaves `active` only by the claiming worker's own statement, or by
one whose sender is disturbed or which makes the job disturbed. `RunsAreBounded`,
`OverlapsAreExplained` and `OutcomesAreExplained` follow. `JobsMoveForward` is what
`AllSettle` keeps without fairness: a row begins with 2(retry_limit + 1) moves (`Rank`), each
change of it uses up at least one, whoever makes it, and a settled row never changes.

**Orderly processing** (`OrderlyProofs`) assumes `Orderly` of the constants: timers first,
no forced stop, no failing statement of a perJobResults worker. Each is needed, and the
proof breaks at a different step without it: at `Expire`, at `FailWip`, at `IssueFails`.
`OnceInv` strengthens `ClaimsInv` to disturbed jobs: a claim is for the current attempt
of an active job and for one worker, or for a job that was completed by a statement
whose reply was lost, which the catch block then fails in vain. It needs `WholeInv` (an
unreliable worker outside its catch block has one statement, for the whole batch).
`OverlapsAreAborted` says what follows for handlers: those that are waited for are
handlers of the current attempt, one at most, so of two that overlap one is a stray, and
its attempt an earlier one or the same worker's. For the refinement, `PastInv` says that no attempt is late
or lost before it begins, and `ReasonsInv` that a statement follows from the verdict or
the loss of its attempt; with `OnceInv` that attempt is the current one, so each
statement is a `Record` or `GiveUp` of `Attempts` (`RecordMeans`, `GiveUpMeans`). What
is proved of `Attempts` then holds of orderly processing: `Honesty` says that the
abstract specification records no success that was none and gives no job up early, and
`OrderlyIsHonest` carries it over. These are the claims that `aborted` and `stale` refute
in general, so `Orderly` says what a deployment must ensure to have them.

**Flow.** `Invariance` proves `IndInv`, which is `TypeOK`, `PendingExact` and
`Bookkeeping`. The counter alone is not inductive: it needs that claims are exclusive
and hold completed, blocking parents (else two navigators count one parent twice),
that a resolved parent is not blocking any more (else a later pass counts it again),
and that the dependency row of a stored child and a stored parent is still there
(else the cleanup takes a decrement away). The step of `Resolve` splits the parents a
counter waits for into those of the batch and the others, a lemma about
cardinalities. `OnlyWhenReady` and the refinement follow: a counter of zero means that
all parents are resolved, and only completed ones are. The initial state and each
action are mapped to a step of `Dependencies` by a lemma of their own.

`NoCircles` rests on `KahnFindsCircles`: the rounds of `validateFlowJobs` reach every job
exactly if every nonempty set of jobs has one with no parent in it. The induction over
rounds is done through the least element of a set of naturals (the first round that
reaches nothing new, the first that reaches a job of a circle), since the induction
theorems of the library are out of the provers' reach. Two more theorems are what
remains of `NotStranded` when fairness is taken away. `NavigatorsOverlookNothing`: a
child whose parents have all completed has a parent that some navigator has in its
statement or that the query on its table returns, because an unresolved parent of a
stored child is `blocking` (`Findable`). `FlowsDoNotDeadlock`: while jobs are blocked,
one of them waits for a parent that is not blocked, or that is gone (`NoCircle` gives
one with no blocked parent).

**Instance.** `Invariance` proves four parts. `LoopsRight`: a worker that sleeps was
neither notified nor stopped since its last fetch began, whence `WakeUpsAreKept`.
`PassesRight`: a pass without its busy flag comes from a tick during a pass, whence
`PassesExclude`. `EntryRight`: `#doStart` begins on a stopped instance, `#doStop` on one
that is not, and a stop() that waited for a start() finds it over; callers that are about
to go on (`Settling`) belong to the invariant, since another may call before them.
`Tidy`: which subsystem is stopped, not busy and without interval at each await of
`#doStop`, and that nothing that `#doStart` or a tick does brings it back.
`StartAndStopExclude`, `StopIsComplete`, `PoolClosesLast` and `GracefulStopSpares` follow
from the last two. The invariant takes any number of intervals; `TypeCorrect` bounds
them by an accounting of its own (`StartsCounted`: the intervals of the manager, the
start() in flight and those that wait for a stop() are no more than the calls).
`WaitsAreAnswered` is what remains of `CallsReturn` without fairness: the call that a
caller joined has not settled, the pass whose flag stop() watches runs, and the loop
whose cleanup is parked fetches or handles. `IntervalsAreNamed` says that the manager
loses an interval only through a start() called again after it failed.

**QueueCache.** `Invariance` proves that each doubt stands for a wrong-empty read of its
own: a lookup in its second read has seen one, an empty snapshot behind the refresh is
one, and one in its hands another. To believe takes two, so `Corroborated` follows. The
parts about lookups and refreshes except those during which the queue was away.
`KeysAreExclusive` says that batches of instances with stale caches never make two jobs of a
key active. `FreshFetchesGoThrough` and `ConvergenceLasts` are what `NoHeadOfLine` and
`Converges` keep without fairness: a fetch of an instance whose cached keys are up to date
takes jobs whenever some row is left for the query, and an instance that agrees with the
row disagrees again only when the row changes.

**Cron.** `Invariance` proves `IndInv`, which is about one job at a time. A job that is
not in `hurt` is in the hands of one handler at most, that of its only attempt, which is
sending only while nothing was sent; so it is sent once and completed
afterwards. A handler comes to `completing` only when its send was settled or a stop
aborted it (`forced`), and complete() does something only from there. A second attempt, a
stray or a `failing` handler exists only for a job in `hurt`, for each of the ways back to
the queue (`CompleteFails`, `TimesOut`, `Expire`, `ForcedStop`) passes a fault.
`ForwardsAreExplained` follows; `TypeCorrect` needs besides that no attempt begins when
the retries are used up. The others reason about time, through lemmas on the division that
makes slots (`SlotOfTime`, `MinuteSlot`). They assume occurrences on the minute
(`OnTheMinute`): `docs/api/scheduling.md` speaks of minutes and discourages seconds.
`OneIsSentPerMinute`, with clocks at most a minute ahead, and the lag of a clock and the
delay of an insert at most a minute together (`SmallErrors`): a pass
that finds an occurrence due is at most a minute and its own error away from it, so the
job it sends falls in the occurrence's slot or beside it, and the second case is marked
`off`; the throttle leaves one job per slot. `OneIsSentIdeally`, with exact clocks and
inserts that take no time: the second case never arises. `NoMinuteIsMissed`: every
running instance ticks at its interval (`Ticking`), the gate lets a tick through when the
last evaluation is older than an interval, and so, if `Punctual`, from the occurrence on
either the slot has its job, or a pass or a job of the internal queue will fill it in time,
or there is time left for the tick that will (`Covered`).

**Only model-checked:** the liveness properties `AllSettle`, `NotStranded`,
`CallsReturn`, `Converges` and `NoHeadOfLine`, because liveness under fairness is beyond
the prover (what each of them rests on besides fairness is proved, see above); and the four
violations. Every safety property of a passing run is proved.

## Not modelled

- The failure of the supervisor's statements: a run that failed is one that did not
  happen. The interval gates `monitor_on` and `maintain_on` only decide when it runs.
- Heartbeats: a job expired by heartbeat under a live handler is a late attempt of
  `Processing`.
- Group concurrency, priorities, due times and retry delays. The limit of a group may
  be exceeded by overlapping fetches, as `docs/api/workers.md:152` says.
- The select/delete/insert form outside a transaction, which a caller-supplied
  connection without `withTransaction` would get, for failing and for resolving flows.
- `NULL` and `''` as different keys: the indexes treat them as one, and so do we;
  the ranking of a batch fetch does not.
- Ids supplied by the caller of flow() and used before: dependency rows of an older
  job could then be left.
- `close: false`, a connection the caller owns, manual supervise() and resolveFlow()
  beside the intervals, and the clock skew check in stop() (`Instance`). `failWip` is
  one step there; `Processing` has its statements.
- schedule() and unschedule(): the schedules are constant (`Cron`).
- The installation of the schema, the drivers, the validation of options, the dialects
  and the spy: sequential code, text, or input and output.

## Plan

1. Heartbeats in `Processing`.
2. Group concurrency, if its limit is to be more than best effort.
