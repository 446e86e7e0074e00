------------------------------- MODULE JobStore -------------------------------
(***************************************************************************)
(* The job table of bun-boss and the SQL commands that change it.          *)
(*                                                                         *)
(* Every command is one SQL statement (or one transaction), so every       *)
(* command is one action: src/src/plans.ts builds the statements,          *)
(* src/src/manager.ts and src/src/boss.ts issue them.  The callers are     *)
(* any number of processes; the table itself does not know them, so a      *)
(* command may arrive at any time with any ids.                            *)
(*                                                                         *)
(* What the model abstracts: payloads and outputs; the clock (which jobs   *)
(* are due, past their deadline, or past their retention is left free);    *)
(* priority order.  The blocked/blocking columns belong to module Flow.    *)
(***************************************************************************)
EXTENDS Integers, FiniteSets

CONSTANTS
  Queue,           \* names of the queues
  JobId,           \* ids that jobs can be given
  Key,             \* singleton keys; NULL and '' are one key (COALESCE in the indexes)
  None,            \* SQL NULL, where a queue or an id is expected
  Policy,          \* [Queue -> PolicyName], queue.policy
  DeadLetter,      \* [Queue -> Queue \cup {None}], queue.dead_letter
  RetryLimit,      \* [Queue -> Nat], queue.retry_limit
  JobDeadLetters,  \* values callers give for the deadLetter option of a job
  UpdateDeadLetters, \* values callers give for deadLetter in an update, None for null
  Destinations,    \* destinations callers give to redrive(), None for the source queue
  Slot,            \* bound: the throttling slots (singleton_on)
  UpdateLimits,    \* bound: values callers give for retryLimit in an update
  MaxLimit,        \* bound: the largest retry_limit retry() raises a job to
  MaxRuns,         \* bound: how often one job is fetched
  Batch            \* bound: how many ids one command names

PolicyName == {"standard", "short", "singleton", "stately", "exclusive"}

ASSUME NoneAssumption == None \notin Queue /\ None \notin JobId
ASSUME ConfigAssumption ==
  /\ Policy \in [Queue -> PolicyName]
  /\ DeadLetter \in [Queue -> Queue \cup {None}]
  /\ RetryLimit \in [Queue -> Nat]
  /\ JobDeadLetters \subseteq Queue
  /\ UpdateDeadLetters \subseteq Queue \cup {None}
  /\ Destinations \subseteq Queue \cup {None}
ASSUME BoundAssumption ==
  /\ Slot \subseteq Nat /\ UpdateLimits \subseteq Nat
  /\ MaxLimit \in Nat /\ MaxRuns \in Nat /\ Batch \in Nat

VARIABLE job   \* the table: one row per id, NoRow where there is none

-----------------------------------------------------------------------------
(* States are ordered; state < 'active' and state < 'completed' are the     *)
(* guards of most statements.                                               *)

Pending  == {"created", "retry"}                    \* state < 'active'
Live     == Pending \cup {"active"}                 \* state < 'completed'
Settled  == {"completed", "cancelled", "failed"}    \* state > 'active'
JobState == Live \cup Settled

NoSlot == -1

Row == [ state   : JobState \cup {"absent"},
         queue   : Queue \cup {None},
         key     : Key \cup {None},
         slot    : Slot \cup {NoSlot},        \* singleton_on
         policy  : PolicyName \cup {"null"},  \* copied from the queue, or never set
         dlq     : Queue \cup {None},         \* dead_letter
         started : BOOLEAN,                   \* started_on is not NULL
         done    : BOOLEAN,                   \* completed_on is not NULL
         retries : Nat,                       \* retry_count
         limit   : Nat,                       \* retry_limit
         from    : Queue \cup {None},         \* source_name
         src     : JobId \cup {None},         \* source_id
         runs    : Nat ]                      \* history: times the job was fetched

NoRow == [ state |-> "absent", queue |-> None, key |-> None, slot |-> NoSlot,
           policy |-> "null", dlq |-> None, started |-> FALSE, done |-> FALSE,
           retries |-> 0, limit |-> 0, from |-> None, src |-> None, runs |-> 0 ]

\* The table holds rows only: every statement writes a complete, well-typed row
\* (the columns of createTableJob), and removes rows as a whole.
TypeOK == job \in [JobId -> Row]

Free == {i \in JobId : job[i].state = "absent"}
In(q, states) == {i \in JobId : job[i].queue = q /\ job[i].state \in states}

\* The ids a command names: a non-empty set, bounded by Batch.
Batches(S) == {B \in SUBSET S : B # {} /\ Cardinality(B) <= Batch}

-----------------------------------------------------------------------------
(* The partial unique indexes.                                              *)

\* Policy p does not allow one key to have a job in state s and another in t.
Forbids(p, s, t) ==
  \/ p = "short"     /\ s = "created" /\ t = "created"
  \/ p = "singleton" /\ s = "active"  /\ t = "active"
  \/ p = "stately"   /\ s \in Live    /\ t = s
  \/ p = "exclusive" /\ s \in Live    /\ t \in Live

\* Two rows of one queue and key hold the same throttling slot.
SharesSlot(r, t) ==
  /\ r.slot # NoSlot /\ r.slot = t.slot
  /\ r.state # "cancelled" /\ t.state # "cancelled"

\* Variant: without the throttling index.
ClashWithoutSlots(r, t) ==
  r.queue = t.queue /\ r.queue # None /\ r.key = t.key
  /\ r.policy = t.policy /\ Forbids(r.policy, r.state, t.state)

\* Rows r and t cannot be in the table together.
Clash(r, t) ==
  /\ r.queue = t.queue /\ r.queue # None
  /\ r.key = t.key
  /\ \/ r.policy = t.policy /\ Forbids(r.policy, r.state, t.state)
     \/ SharesSlot(r, t)

Unique(tab) == \A i, j \in JobId : i # j => ~Clash(tab[i], tab[j])
Fits(r, tab) == \A i \in JobId : ~Clash(r, tab[i])

-----------------------------------------------------------------------------
(* Creating jobs.                                                           *)

\* An option of the caller, where it was supplied (COALESCE).
Supplied(option, otherwise) == IF option = None THEN otherwise ELSE option

\* A row as the inserts write it: waiting, never started, with policy p, dead
\* letter queue d, retry limit l, and the queue f and id i it was copied from.
Inserted(q, k, s, p, d, l, f, i) ==
  [ state |-> "created", queue |-> q, key |-> k, slot |-> s, policy |-> p,
    dlq |-> d, started |-> FALSE, done |-> FALSE, retries |-> 0, limit |-> l,
    from |-> f, src |-> i, runs |-> 0 ]

\* Variant: the insert does not name the policy.
NewRowWithoutPolicy(q, k, s, d) ==
  Inserted(q, k, s, "null", Supplied(d, DeadLetter[q]), RetryLimit[q], None, None)

\* The row insertJobs derives from the request and the queue's row.
NewRow(q, k, s, d) ==
  Inserted(q, k, s, Policy[q], Supplied(d, DeadLetter[q]), RetryLimit[q], None, None)

\* send(): one insert; when it was skipped and the caller debounces, a second
\* one for the next slot; when that is skipped too, no job.
CreateJob(q, i, k, s, nextSlot, d) ==
  LET here == NewRow(q, k, s, d)
      next == NewRow(q, k, s + 1, d)
  IN  /\ i \in Free
      /\ \/ /\ Fits(here, job)
            /\ job' = [job EXCEPT ![i] = here]
         \/ /\ ~Fits(here, job)
            /\ nextSlot /\ s # NoSlot /\ s + 1 \in Slot
            /\ Fits(next, job)
            /\ job' = [job EXCEPT ![i] = next]

-----------------------------------------------------------------------------
(* Fetching.                                                                *)

\* Variant: every fetch counts as a retry.
ActivatedEachTime(r) ==
  [r EXCEPT !.state = "active", !.started = TRUE, !.runs = r.runs + 1,
            !.retries = r.retries + 1]

Activated(r) ==
  [r EXCEPT !.state = "active", !.started = TRUE, !.runs = r.runs + 1,
            !.retries = IF r.started THEN r.retries + 1 ELSE r.retries]

\* fetch(): T are the rows the statement claims.  With a batch, a singleton or
\* stately queue keeps one row per key; a unique violation (23505) makes the
\* whole fetch empty.
FetchNextJob(q, T) ==
  LET fetched == [i \in JobId |-> IF i \in T THEN Activated(job[i]) ELSE job[i]]
  IN  /\ T \subseteq In(q, Pending)
      /\ \A i \in T : job[i].runs < MaxRuns
      /\ Policy[q] \in {"singleton", "stately"} =>
           \A i, j \in T : job[i].key = job[j].key => i = j
      /\ Unique(fetched)
      /\ job' = fetched

-----------------------------------------------------------------------------
(* Settling: complete, cancel, resume, retry, update.                       *)

\* The rows of S are rewritten by one UPDATE; a unique violation aborts it.
Rewrite(S, new(_)) ==
  LET after == [i \in JobId |-> IF i \in S THEN new(job[i]) ELSE job[i]]
  IN  Unique(after) /\ job' = after

Completed(r) == [r EXCEPT !.state = "completed", !.done = TRUE]
Cancelled(r) == [r EXCEPT !.state = "cancelled", !.done = TRUE]
\* Variant: the row is taken out and put back as a failing statement does it.
ResumedPutBack(r) == [r EXCEPT !.state = "created", !.done = FALSE, !.from = None, !.src = None]
\* Variant: completed_on is not reset.
ResumedKeepsDone(r) == [r EXCEPT !.state = "created"]
Resumed(r)   == [r EXCEPT !.state = "created",   !.done = FALSE]
Retrying(r)  == [r EXCEPT !.state = "retry", !.done = FALSE, !.limit = r.limit + 1]

\* The retry limit is replaced where one is supplied, the dead letter queue where
\* the caller names the option at all: null takes it away.
Updated(r, l, given, d) ==
  [r EXCEPT !.limit = Supplied(l, r.limit), !.dlq = IF given THEN d ELSE r.dlq]

CompleteJobs(q, S, includeQueued) ==
  /\ S \subseteq In(q, IF includeQueued THEN Live ELSE {"active"})
  /\ Rewrite(S, Completed)

CancelJobs(q, S) ==
  /\ S \subseteq In(q, Live)
  /\ Rewrite(S, Cancelled)

ResumeJobs(q, S) ==
  /\ S \subseteq In(q, {"cancelled"})
  /\ Rewrite(S, Resumed)

RetryJobs(q, S) ==
  /\ S \subseteq In(q, {"failed"})
  /\ \A i \in S : job[i].limit < MaxLimit
  /\ Rewrite(S, Retrying)

\* update() and the update half of upsert(), of the fields the model keeps.
UpdateJob(q, S, l, given, d) ==
  LET New(r) == Updated(r, l, given, d)
  IN  /\ S \subseteq In(q, Pending)
      /\ Rewrite(S, New)

-----------------------------------------------------------------------------
(* Failing.  The statement deletes the rows and inserts them again, as      *)
(* 'retry' or, where no retry is left or the retry row does not fit, as     *)
(* 'failed'; each failed one with a dead letter queue is copied there.      *)

\* A row as it is put back: the inserts name every column but those of the
\* source, so that a letter that fails no longer knows where it came from.
Failed(r)  == [r EXCEPT !.state = "failed", !.done = TRUE,  !.from = None, !.src = None]
Retried(r) == [r EXCEPT !.state = "retry",  !.done = FALSE, !.from = None, !.src = None]

\* Variant: source_name and source_id swapped.
LetterSwapped(r, i) ==
  Inserted(r.dlq, r.key, NoSlot, "null", None, RetryLimit[r.dlq], i, r.queue)

\* The copy in the dead letter queue.  Its policy, slot and dead_letter
\* columns are not set by the insert.
Letter(r, i) ==
  Inserted(r.dlq, r.key, NoSlot, "null", None, RetryLimit[r.dlq], r.queue, i)

CanRetry(S, force) == {i \in S : ~force /\ job[i].retries < job[i].limit}

\* Variant: only rows whose retries are used up are inserted as failed.
ReinsertedNoFallback(S, R) ==
  [i \in JobId |-> IF i \in R THEN Retried(job[i])
                   ELSE IF i \notin S THEN job[i]
                   ELSE IF job[i].retries < job[i].limit THEN NoRow ELSE Failed(job[i])]

\* The table after the rows of S were taken out and put back, those of R to retry.
Reinserted(S, R) ==
  [i \in JobId |-> IF i \in R THEN Retried(job[i])
                   ELSE IF i \in S THEN Failed(job[i]) ELSE job[i]]

\* Variant: the rows put back are checked against the rows that stay only.
RetryOutcomeAlone(S, R, force) ==
  /\ R \subseteq CanRetry(S, force)
  /\ \A i \in R : \A j \in (JobId \ S) : ~Clash(Retried(job[i]), job[j])

\* R is what ON CONFLICT DO NOTHING lets through.  The rows of R fit beside the
\* rows that stay and beside each other.  A row that was skipped met a row that
\* stays, a row of R, or a row of S that was not yet deleted: the order in which
\* the sub-statements of the WITH meet the rows is not specified, and the split
\* form of the statement deletes all of S first.
RetryOutcome(S, R, force) ==
  LET skipped == CanRetry(S, force) \ R
  IN  /\ R \subseteq CanRetry(S, force)
      /\ \A i \in R : \A j \in (JobId \ S) : ~Clash(Retried(job[i]), job[j])
      /\ \A i, j \in R : i # j => ~Clash(Retried(job[i]), Retried(job[j]))
      /\ \A i \in skipped :
           \/ \E j \in JobId \ {i} : Clash(Retried(job[i]), job[j])
           \/ \E j \in R : Clash(Retried(job[i]), Retried(job[j]))

DeadLettered(F) == {i \in F : job[i].dlq # None}

\* New rows get fresh ids: g gives each job of D one free id, and None to the rest.
FreshIds(D) ==
  {g \in [Free -> D \cup {None}] :
     \A i \in D : \E x \in Free : g[x] = i /\ \A y \in Free : g[y] = i => y = x}

WithLetters(tab, g) ==
  [i \in JobId |-> IF i \in Free /\ g[i] # None THEN Letter(job[g[i]], g[i]) ELSE tab[i]]

FailJobs(S, force) ==
  \E R \in SUBSET S :
    /\ RetryOutcome(S, R, force)
    /\ \E g \in FreshIds(DeadLettered(S \ R)) :
         LET after == WithLetters(Reinserted(S, R), g)
         IN  Unique(after) /\ job' = after

\* fail(), and the failed set of a perJobResults batch.
FailJobsById(q, S) == S \subseteq In(q, Live) /\ FailJobs(S, FALSE)

\* The deadletter set of a perJobResults batch: terminal whatever retries are left.
DeadLetterJobsById(q, S) == S \subseteq In(q, Live) /\ FailJobs(S, TRUE)

\* The supervisor's failJobsByTimeout and failJobsByHeartbeat: active jobs whose
\* started_on or heartbeat_on is too old, which the model leaves to chance.
FailJobsByTimeout(q, S) == S \subseteq In(q, {"active"}) /\ FailJobs(S, FALSE)

-----------------------------------------------------------------------------
(* Removing.                                                                *)

Remove(S) == job' = [i \in JobId |-> IF i \in S THEN NoRow ELSE job[i]]

DeleteJobsById(q, S) == S \subseteq In(q, JobState) /\ Remove(S)
DeleteQueuedJobs(q)  == Remove(In(q, Pending))
DeleteStoredJobs(q)  == Remove(In(q, Settled))
DeleteAllJobs(q)     == Remove(In(q, JobState))

\* The retention sweep: rows whose completed_on is set and old enough, and
\* queued rows past keep_until.
Deletion(q, S) ==
  /\ S \subseteq {i \in In(q, JobState) : job[i].done \/ job[i].state \in Pending}
  /\ Remove(S)

\* redrive(): S leaves queue q, and one fresh job per row is inserted on the
\* destination (to, or the source queue of the row); rows that clash there are
\* dropped.
Destination(i, to) == IF to = None THEN job[i].from ELSE to

\* Variant: the insert does not name the policy either.
RedrivenWithoutPolicy(r, q) ==
  Inserted(q, r.key, NoSlot, "null", None, RetryLimit[q], None, None)

\* The insert names neither a slot nor a dead_letter.
Redriven(r, q) ==
  Inserted(q, r.key, NoSlot, Policy[q], None, RetryLimit[q], None, None)

RedriveJobs(q, S, to) ==
  LET row(i) == Redriven(job[i], Destination(i, to))
  IN  /\ S \subseteq {i \in In(q, Pending) : Destination(i, to) # None}
      /\ \E I \in SUBSET S :
           /\ \A i \in I : \A j \in (JobId \ S) : ~Clash(row(i), job[j])
           /\ \A i, j \in I : i # j => ~Clash(row(i), row(j))
           /\ \A i \in S \ I : \/ \E j \in JobId : Clash(row(i), job[j])
                               \/ \E j \in I : Clash(row(i), row(j))
           /\ \E g \in FreshIds(I) :
                job' = [i \in JobId |->
                          IF i \in Free /\ g[i] # None THEN row(g[i])
                          ELSE IF i \in S THEN NoRow ELSE job[i]]

-----------------------------------------------------------------------------
Init == job = [i \in JobId |-> NoRow]

Create ==
  \E q \in Queue, i \in Free, k \in Key, s \in Slot \cup {NoSlot}, nextSlot \in BOOLEAN :
    \E d \in JobDeadLetters \cup {None} : CreateJob(q, i, k, s, nextSlot, d)
Fetch == \E q \in Queue : \E T \in Batches(In(q, Pending)) : FetchNextJob(q, T)
Complete == \E q \in Queue, includeQueued \in BOOLEAN :
              \E S \in Batches(In(q, Live)) : CompleteJobs(q, S, includeQueued)
Cancel == \E q \in Queue : \E S \in Batches(In(q, Live)) : CancelJobs(q, S)
Resume == \E q \in Queue : \E S \in Batches(In(q, {"cancelled"})) : ResumeJobs(q, S)
Retry  == \E q \in Queue : \E S \in Batches(In(q, {"failed"})) : RetryJobs(q, S)
Update ==
  \E q \in Queue, l \in UpdateLimits \cup {None} :
    \E S \in Batches(In(q, Pending)) :
      \/ UpdateJob(q, S, l, FALSE, None)
      \/ \E d \in UpdateDeadLetters : UpdateJob(q, S, l, TRUE, d)
Fail == \E q \in Queue : \E S \in Batches(In(q, Live)) :
          \/ FailJobsById(q, S)
          \/ DeadLetterJobsById(q, S)
          \/ FailJobsByTimeout(q, S)
Delete == \E q \in Queue :
            \/ \E S \in Batches(In(q, JobState)) : DeleteJobsById(q, S)
            \/ \E S \in Batches(In(q, JobState)) : Deletion(q, S)
            \/ DeleteQueuedJobs(q)
            \/ DeleteStoredJobs(q)
            \/ DeleteAllJobs(q)
Redrive == \E q \in Queue, to \in Destinations :
             \E S \in Batches(In(q, Pending)) : RedriveJobs(q, S, to)

Next == \/ Create \/ Fetch \/ Complete \/ Cancel \/ Resume \/ Retry
        \/ Update \/ Fail \/ Delete \/ Redrive

Spec == Init /\ [][Next]_job

-----------------------------------------------------------------------------
(* Properties.                                                              *)

\* Queues that dead letters are written to.
LetterQueues ==
  ({DeadLetter[q] : q \in Queue} \cup JobDeadLetters \cup UpdateDeadLetters) \ {None}

\* What every row satisfies by itself, and with Unique the inductive invariant:
\* completed_on follows the state, retry_count follows the fetches, only a dead
\* letter lacks the policy of its queue, and a row that failed has no source.
RowInv(r) ==
  /\ r \in Row
  /\ r.state = "absent" => r = NoRow
  /\ r.state # "absent" => r.queue \in Queue
  /\ r.done <=> r.state \in Settled
  /\ r.started <=> r.runs > 0
  /\ r.retries = IF r.runs = 0 THEN 0 ELSE r.runs - 1
  /\ r.dlq \in LetterQueues \cup {None}
  /\ r.queue \in Queue \ LetterQueues => r.policy = Policy[r.queue]
  /\ r.state \in {"retry", "failed"} => r.from = None /\ r.src = None

\* The table is always one that the commands and the indexes agree on; the
\* properties below follow from it.
IndInv ==
  /\ job \in [JobId -> Row]
  /\ \A i \in JobId : RowInv(job[i])
  /\ Unique(job)

\* The policy of a queue holds for all its jobs whatever path brought them to
\* their state: sent, retried after a failure, resumed, retried by hand or
\* redriven.  Every path has to carry the policy column along.  Queues that
\* receive dead letters are excepted, because letters carry no policy.
PolicyUpheld ==
  \A i, j \in JobId :
    /\ i # j
    /\ job[i].queue = job[j].queue /\ job[i].key = job[j].key
    /\ job[i].queue \in Queue \ LetterQueues
    => ~Forbids(Policy[job[i].queue], job[i].state, job[j].state)

\* A key has at most one job per throttling slot that was not cancelled, also
\* after a cancelled job gave up its slot, another took it, and the first was
\* resumed.
ThrottleUpheld ==
  \A i, j \in JobId :
    i # j /\ job[i].queue = job[j].queue /\ job[i].key = job[j].key
    => ~SharesSlot(job[i], job[j])

\* completed_on is set exactly on settled jobs.  The retention sweep trusts it:
\* a resumed or retried job that kept the timestamp would be deleted as old
\* while it waits or runs.
CompletedOnMatches ==
  \A i \in JobId : job[i].done <=> job[i].state \in Settled

\* retry_count is the number of fetches after the first, through every delete
\* and re-insert, cancel and resume: it is what ends the retries.
RetryCountExact ==
  \A i \in JobId : job[i].retries = IF job[i].runs = 0 THEN 0 ELSE job[i].runs - 1

\* Failing live jobs, in any batch, never meets a unique violation: neither a
\* re-inserted row nor a dead letter is in the way of another row.  Otherwise
\* the statement would abort and the jobs could neither fail nor expire (or, in
\* the split form, the re-insert would be skipped and the job would be gone).
FailNeverConflicts ==
  \A q \in Queue : \A S \in Batches(In(q, Live)), force \in BOOLEAN : \A R \in SUBSET S :
    RetryOutcome(S, R, force) =>
      LET after == Reinserted(S, R)
      IN  /\ Unique(after)
          /\ \A i \in DeadLettered(S \ R) : Fits(Letter(job[i], i), after)

\* In this step job i was failed, for good or to be retried.
FailsIn(i) == /\ job[i].state \in Live
              /\ \/ job'[i].state = "failed"
                 \/ job'[i].state = "retry" /\ job[i].state # "retry"
\* The copies of job i this step writes.
NewLetters(i) == {x \in JobId : job[x].state = "absent" /\ job'[x].src = i}

\* Whatever batch a failing statement settles, no job of the table disappears,
\* and a job put back as retry or failed keeps its queue, key, slot, policy, dead
\* letter queue and counters.  Its source is not kept (SourcesLastUntilFailure).
Identity(r) == [r EXCEPT !.state = "", !.done = FALSE, !.from = None, !.src = None]
KeepsJobs ==
  (\E i \in JobId : FailsIn(i)) =>
    \A i \in JobId : job[i].state # "absent" => Identity(job'[i]) = Identity(job[i])
FailKeepsJobs == [][KeepsJobs]_job

\* A dead letter loses its source in exactly one way, by failing, be it for good
\* or to be retried; through fetch, complete, cancel, resume and update it
\* still knows it.  What lost its source can only be redriven to a
\* destination the caller names.
KeepsSources ==
  \A i \in JobId :
    job[i].src # None /\ job'[i].state # "absent" =>
      <<job'[i].from, job'[i].src>> =
        IF FailsIn(i) THEN <<None, None>> ELSE <<job[i].from, job[i].src>>
SourcesLastUntilFailure == [][KeepsSources]_job

\* A job that ends as failed with a dead letter queue leaves exactly one copy
\* there, in the same step; nothing else writes a dead letter.
MatchesLetters ==
  \A i \in JobId :
    Cardinality(NewLetters(i)) =
      IF FailsIn(i) /\ job'[i].state = "failed" /\ job[i].dlq # None THEN 1 ELSE 0
LettersMatchFailures == [][MatchesLetters]_job

\* queues.md: "When a job fails after all retries, if the queue has a deadLetter
\* property, the job's payload will be copied into that queue".  Refuted for a
\* redriven job, which was inserted without dead_letter.
DeadLetterHonoured ==
  [][ \A i \in JobId :
        FailsIn(i) /\ job'[i].state = "failed" /\ DeadLetter[job[i].queue] # None
        => NewLetters(i) # {} ]_job
=============================================================================
