----------------------------- MODULE Processing -----------------------------
(***************************************************************************)
(* Workers processing the jobs of one queue.                               *)
(*                                                                         *)
(* Each worker belongs to an instance of its own: it loops over fetch,     *)
(* handler, settle (Worker.run, Manager.#processJobs), and its instance    *)
(* may be stopped or die.  A supervisor, on some instance, fails the jobs  *)
(* that stay active too long.  Statements are atomic in the database; what *)
(* a worker does between two awaits is atomic in its process; everything   *)
(* else interleaves, and a statement or its reply may be lost.             *)
(*                                                                         *)
(* Time is abstract: an attempt becomes late at some point (Elapse), and   *)
(* then both the supervisor's statement and the worker's own timer may     *)
(* fire, in either order.  Retries start at once (retryDelay 0) on a queue *)
(* without a policy, so that a failed row is always put back; JobStore     *)
(* has the policies.                                                       *)
(***************************************************************************)
EXTENDS Naturals, FiniteSets

CONSTANTS
  Job,            \* the jobs of the queue
  Worker,         \* workers, each the only one of its instance
  RetryLimit,     \* retry_limit of the jobs
  BatchSize,      \* batchSize of the workers
  PerJobResults,  \* the workers with the perJobResults option
  Mortal,         \* workers whose instance may be stopped or die
  Unreliable,     \* workers whose statements, or the replies to them, may fail
  MaxErrors,      \* bound: how many statements the database fails
  TimersFirst,    \* TRUE: a live worker settles an attempt before the supervisor does
  ForcedStops     \* TRUE: stop() may run out of time, or not be graceful

ASSUME ProcessingAssumption ==
  /\ RetryLimit \in Nat /\ BatchSize \in Nat \ {0} /\ MaxErrors \in Nat
  /\ PerJobResults \subseteq Worker /\ Mortal \subseteq Worker /\ Unreliable \subseteq Worker
  /\ TimersFirst \in BOOLEAN /\ ForcedStops \in BOOLEAN

Attempt == 1..(RetryLimit + 1)

VARIABLES
  job,      \* [Job -> JobRow]: the table
  worker,   \* [Worker -> WorkerState]: Worker and the locals of #processJobs
  stop,     \* [Worker -> StopState]: how far stop() of the instance has come
  errors,   \* number of statements failed so far
  late,     \* <<job, attempt>> whose expire_seconds have passed
  strays,   \* [Worker -> SUBSET (Job \X Attempt)]: the attempts whose handler was
            \* aborted and still runs, although nobody waits for it
  verdict,  \* history: [Job -> [Attempt -> Verdict]], what the handler said
  lost      \* history: <<job, attempt>> whose result could not be had or written

vars == <<job, worker, stop, errors, late, strays, verdict, lost>>

Verdict == {"none", "success", "failure", "deadletter"}

JobRow == [ state   : {"created", "retry", "active", "completed", "failed"},
            retries : Nat,            \* retry_count
            runs    : Nat ]           \* history: how often it was fetched

WorkerState ==
  [ pc       : {"polling", "asking", "fetching", "handling", "settling", "stopped", "dead"},
    jobs     : SUBSET Job,            \* Worker.jobs
    batch    : SUBSET Job,            \* the jobs fetched, jobIds in #processJobs
    run      : [Job -> Nat],          \* history: the attempt fetched
    complete : SUBSET Job,            \* statements still to be issued:
    fail     : SUBSET Job,            \*   ids to complete, then to fail,
    dead     : SUBSET Job,            \*   then to fail for good
    catching : BOOLEAN ]              \* in the catch block of #processJobs

StopState == {"running", "stopping", "aborting", "shut"}

\* The variables keep their types; in particular no attempt beyond the last one
\* the retry limit allows is ever late, judged or lost.
TypeOK ==
  /\ job \in [Job -> JobRow]
  /\ worker \in [Worker -> WorkerState]
  /\ stop \in [Worker -> StopState]
  /\ errors \in 0..MaxErrors
  /\ late \subseteq Job \X Attempt
  /\ strays \in [Worker -> SUBSET (Job \X Attempt)]
  /\ verdict \in [Job -> [Attempt -> Verdict]]
  /\ lost \subseteq Job \X Attempt

\* A worker without jobs.
Idle(pc) ==
  [pc |-> pc, jobs |-> {}, batch |-> {}, run |-> [j \in Job |-> 0],
   complete |-> {}, fail |-> {}, dead |-> {}, catching |-> FALSE]

\* A worker without a batch, whose Worker.jobs keeps what was in it: run() clears
\* it only when the handler's batch was settled without an error.
WithLeftovers(w, pc) ==
  [Idle(pc) EXCEPT !.jobs = worker[w].jobs, !.run = worker[w].run]

Alive(w) == worker[w].pc # "dead"

\* The attempts a worker has in hand.
AttemptsOf(w, S) == {<<j, worker[w].run[j]>> : j \in S}
Current(j) == <<j, job[j].runs>>

\* resolveWithinSeconds stops waiting for the handler and aborts its signal.  A
\* handler that does not heed the signal goes on all the same.
Abandons(w) == strays' = [strays EXCEPT ![w] = @ \cup AttemptsOf(w, worker[w].batch)]

\* The jobs a worker has yet to issue a statement for.
Pending(w) == worker[w].complete \cup worker[w].fail \cup worker[w].dead

-----------------------------------------------------------------------------
(* The statements, on the set of rows they find.                            *)

\* A variant of Waiting, for its mutant.
WaitingOrActive == {j \in Job : job[j].state \in {"created", "retry", "active"}}

Waiting   == {j \in Job : job[j].state \in {"created", "retry"}}
Active    == {j \in Job : job[j].state = "active"}
Unsettled == Waiting \cup Active        \* state < 'completed'

\* fetchNextJob: retry_count counts every fetch but the first.
Activated(r) ==
  [state |-> "active", runs |-> r.runs + 1,
   retries |-> IF r.runs > 0 THEN r.retries + 1 ELSE r.retries]

\* A variant of FailedRow, for its mutant.
FailedRowOnceMore(r, force) ==
  [r EXCEPT !.state = IF ~force /\ r.retries <= RetryLimit THEN "retry" ELSE "failed"]

\* A failing row is retried or failed (failJobs).
FailedRow(r, force) ==
  [r EXCEPT !.state = IF ~force /\ r.retries < RetryLimit THEN "retry" ELSE "failed"]

\* completeJobs: the rows of S that are active, whoever holds them.
CompleteRows(S) ==
  job' = [j \in Job |-> IF j \in S \cap Active
                        THEN [job[j] EXCEPT !.state = "completed"] ELSE job[j]]

\* A variant of FailRows, for its mutant.
FailAnyRows(S, force) ==
  job' = [j \in Job |-> IF j \in S THEN FailedRow(job[j], force) ELSE job[j]]

\* failJobsById: every row of S that is not settled, whoever holds it.
FailRows(S, force) ==
  job' = [j \in Job |-> IF j \in S \cap Unsettled THEN FailedRow(job[j], force) ELSE job[j]]

-----------------------------------------------------------------------------
(* A worker.                                                                *)

\* run() was not told to stop and calls fetch().  Once it did, a stop() does not
\* keep the statement from being issued.
Poll(w) ==
  /\ worker[w].pc = "polling" /\ stop[w] = "running"
  /\ worker' = [worker EXCEPT ![w] = WithLeftovers(w, "asking")]
  /\ UNCHANGED <<job, stop, errors, late, strays, verdict, lost>>

\* fetch() claims up to BatchSize jobs.  Its reply is on its way.
Fetch(w) ==
  /\ worker[w].pc = "asking"
  /\ \E T \in SUBSET Waiting :
       /\ T # {} /\ Cardinality(T) <= BatchSize
       /\ job' = [j \in Job |-> IF j \in T THEN Activated(job[j]) ELSE job[j]]
       /\ worker' = [worker EXCEPT ![w].pc = "fetching", ![w].batch = T,
                       ![w].run = [j \in Job |-> IF j \in T THEN job[j].runs + 1 ELSE @[j]]]
  /\ UNCHANGED <<stop, errors, late, strays, verdict, lost>>

\* The reply arrives: worker.jobs is set and the handler is called.
Receive(w) ==
  /\ worker[w].pc = "fetching"
  /\ worker' = [worker EXCEPT ![w].pc = "handling", ![w].jobs = worker[w].batch]
  /\ UNCHANGED <<job, stop, errors, late, strays, verdict, lost>>

\* fetch() fails, before or after it took effect: run() reports the error and polls
\* again.  worker.jobs keeps what the loop before left in it.
LoseReply(w) ==
  /\ worker[w].pc \in {"asking", "fetching"} /\ w \in Unreliable /\ errors < MaxErrors
  /\ worker' = [worker EXCEPT ![w] = WithLeftovers(w, "polling")]
  /\ errors' = errors + 1
  /\ lost' = lost \cup AttemptsOf(w, worker[w].batch)
  /\ UNCHANGED <<job, stop, late, strays, verdict>>

\* A fetch that finds nothing: worker.jobs becomes the empty batch.
FetchNothing(w) ==
  /\ worker[w].pc = "asking" /\ Waiting = {}
  /\ worker' = [worker EXCEPT ![w] = Idle("polling")]
  /\ UNCHANGED <<job, stop, errors, late, strays, verdict, lost>>

\* The race in resolveWithinSeconds is over; these are the statements to issue.
Settling(w, complete, fail, dead, catching) ==
  worker' = [worker EXCEPT ![w].pc = "settling", ![w].complete = complete,
               ![w].fail = fail, ![w].dead = dead, ![w].catching = catching]

Judged(w, v) ==
  verdict' = [j \in Job |-> [n \in Attempt |->
                IF j \in worker[w].batch /\ n = worker[w].run[j] THEN v[j] ELSE verdict[j][n]]]

\* The handler returns.  With perJobResults it returned a list of results; jobs
\* it left out count as failed.
HandlerResolves(w) ==
  /\ worker[w].pc = "handling"
  /\ \E v \in [worker[w].batch -> Verdict \ {"none"}] :
       /\ w \notin PerJobResults => \A j \in worker[w].batch : v[j] = "success"
       /\ Settling(w, {j \in worker[w].batch : v[j] = "success"},
                      {j \in worker[w].batch : v[j] = "failure"},
                      {j \in worker[w].batch : v[j] = "deadletter"}, FALSE)
       /\ Judged(w, v)
  /\ UNCHANGED <<job, stop, errors, late, strays, lost>>

\* The handler throws.
HandlerRejects(w) ==
  /\ worker[w].pc = "handling"
  /\ Settling(w, {}, worker[w].batch, {}, TRUE)
  /\ Judged(w, [j \in worker[w].batch |-> "failure"])
  /\ UNCHANGED <<job, stop, errors, late, strays, lost>>

\* A variant of TimesOut, for its mutant.
TimesOutEarly(w) ==
  /\ worker[w].pc = "handling"
  /\ Settling(w, {}, worker[w].batch, {}, TRUE)
  /\ Abandons(w)
  /\ UNCHANGED <<job, stop, errors, late, verdict, lost>>

\* The timer fires: the longest expire_seconds of the batch have passed since
\* the reply, hence those of every job since it was fetched.
TimesOut(w) ==
  /\ worker[w].pc = "handling"
  /\ AttemptsOf(w, worker[w].batch) \subseteq late
  /\ Settling(w, {}, worker[w].batch, {}, TRUE)
  /\ Abandons(w)
  /\ UNCHANGED <<job, stop, errors, late, verdict, lost>>

\* An abandoned handler is through with a job; nobody looks at what it returns or
\* throws.
StrayEnds(w) ==
  /\ \E a \in strays[w] : strays' = [strays EXCEPT ![w] = @ \ {a}]
  /\ UNCHANGED <<job, worker, stop, errors, late, verdict, lost>>

\* The next statement is done.
Issue(w) ==
  /\ worker[w].pc = "settling"
  /\ \/ /\ worker[w].complete # {}
        /\ CompleteRows(worker[w].complete)
        /\ worker' = [worker EXCEPT ![w].complete = {}]
     \/ /\ worker[w].complete = {} /\ worker[w].fail # {}
        /\ FailRows(worker[w].fail, FALSE)
        /\ worker' = [worker EXCEPT ![w].fail = {}]
     \/ /\ worker[w].complete = {} /\ worker[w].fail = {} /\ worker[w].dead # {}
        /\ FailRows(worker[w].dead, TRUE)
        /\ worker' = [worker EXCEPT ![w].dead = {}]
  /\ UNCHANGED <<stop, errors, late, strays, verdict, lost>>

\* The statement fails, before or (its reply lost) after it took effect.  The
\* first time the whole batch is failed instead; in the catch block the error
\* leaves #processJobs, and run() forgets the batch but not worker.jobs.
IssueFails(w) ==
  /\ worker[w].pc = "settling" /\ w \in Unreliable /\ errors < MaxErrors
  /\ Pending(w) # {}
  /\ \/ UNCHANGED job
     \/ worker[w].complete # {} /\ CompleteRows(worker[w].complete)
     \/ worker[w].complete = {} /\ worker[w].fail # {} /\ FailRows(worker[w].fail, FALSE)
     \/ worker[w].complete = {} /\ worker[w].fail = {} /\ FailRows(worker[w].dead, TRUE)
  /\ IF worker[w].catching
       THEN worker' = [worker EXCEPT ![w] = WithLeftovers(w, "polling")]
       ELSE Settling(w, {}, worker[w].batch, {}, TRUE)
  /\ errors' = errors + 1
  /\ lost' = lost \cup AttemptsOf(w, worker[w].batch)
  /\ UNCHANGED <<stop, late, strays, verdict>>

\* The reply to the last statement: #processJobs returns and run() goes on.
Finish(w) ==
  /\ worker[w].pc = "settling"
  /\ Pending(w) = {}
  /\ worker' = [worker EXCEPT ![w] = Idle("polling")]
  /\ UNCHANGED <<job, stop, errors, late, strays, verdict, lost>>

-----------------------------------------------------------------------------
(* Stopping and dying.                                                      *)

\* stop(): the worker is told to stop; if its instance waits, it waits for run().
Stop(w) ==
  /\ w \in Mortal /\ Alive(w) /\ stop[w] = "running"
  /\ stop' = [stop EXCEPT ![w] = "stopping"]
  /\ UNCHANGED <<job, worker, errors, late, strays, verdict, lost>>

\* run() leaves its loop; offWork() drops the worker.
Stopped(w) ==
  /\ worker[w].pc = "polling" /\ stop[w] # "running"
  /\ worker' = [worker EXCEPT ![w] = Idle("stopped")]
  /\ UNCHANGED <<job, stop, errors, late, strays, verdict, lost>>

\* failWip(): out of time, the jobs of a worker that has not stopped are failed
\* (a worker without jobs has nothing to abort either) ...
FailWip(w) ==
  /\ stop[w] = "stopping" /\ Alive(w) /\ worker[w].pc # "stopped" /\ ForcedStops
  /\ FailRows(worker[w].jobs, FALSE)
  /\ lost' = lost \cup AttemptsOf(w, worker[w].jobs)
  /\ stop' = [stop EXCEPT ![w] = IF worker[w].jobs = {} THEN "shut" ELSE "aborting"]
  /\ UNCHANGED <<worker, errors, late, strays, verdict>>

\* ... and then its abort controller is fired: the race ends with no result,
\* which counts as the handler's return.
Abort(w) ==
  /\ stop[w] = "aborting" /\ Alive(w)
  /\ stop' = [stop EXCEPT ![w] = "shut"]
  /\ \/ /\ worker[w].pc = "handling"
        /\ IF w \in PerJobResults
             THEN Settling(w, {}, worker[w].batch, {}, FALSE)
             ELSE Settling(w, worker[w].batch, {}, {}, FALSE)
        /\ lost' = lost \cup AttemptsOf(w, worker[w].batch)
        /\ Abandons(w)
     \/ /\ worker[w].pc # "handling"
        /\ UNCHANGED <<worker, strays, lost>>
  /\ UNCHANGED <<job, errors, late, verdict>>

\* The process dies, and every handler with it.
Crash(w) ==
  /\ w \in Mortal /\ Alive(w) /\ worker[w].pc # "stopped"
  /\ worker' = [worker EXCEPT ![w] = Idle("dead")]
  /\ lost' = lost \cup AttemptsOf(w, worker[w].batch)
  /\ strays' = [strays EXCEPT ![w] = {}]
  /\ UNCHANGED <<job, stop, errors, late, verdict>>

-----------------------------------------------------------------------------
(* Time and the supervisor.                                                 *)

\* The expire_seconds of an attempt pass: of the current one of an active job, or
\* of one a worker still waits for.
Elapse(j) ==
  \E n \in Attempt :
    /\ <<j, n>> \notin late
    /\ \/ job[j].state = "active" /\ job[j].runs = n
       \/ \E w \in Worker : /\ worker[w].pc \in {"fetching", "handling"}
                            /\ j \in worker[w].batch /\ worker[w].run[j] = n
    /\ late' = late \cup {<<j, n>>}
    /\ UNCHANGED <<job, worker, stop, errors, strays, verdict, lost>>

\* A live worker has the current attempt of j in hand.
InHand(j) == \E w \in Worker : /\ worker[w].pc \in {"fetching", "handling", "settling"}
                               /\ j \in worker[w].batch /\ worker[w].run[j] = job[j].runs

\* A variant of Expirable, for its mutant.
ExpirableInHand == {j \in Active : Current(j) \in late /\ InHand(j)}
\* failJobsByTimeout: every active job that is late.
Expirable == {j \in Active : Current(j) \in late /\ (TimersFirst => ~InHand(j))}
Expire ==
  /\ Expirable # {}
  /\ FailRows(Expirable, FALSE)
  /\ UNCHANGED <<worker, stop, errors, late, strays, verdict, lost>>

-----------------------------------------------------------------------------
Init ==
  /\ job = [j \in Job |-> [state |-> "created", retries |-> 0, runs |-> 0]]
  /\ worker = [w \in Worker |-> Idle("polling")]
  /\ stop = [w \in Worker |-> "running"]
  /\ errors = 0
  /\ late = {}
  /\ strays = [w \in Worker |-> {}]
  /\ verdict = [j \in Job |-> [n \in Attempt |-> "none"]]
  /\ lost = {}

\* What a worker does as long as its process lives.
Work(w) ==
  \/ Poll(w) \/ Fetch(w) \/ Receive(w) \/ FetchNothing(w)
  \/ HandlerResolves(w) \/ HandlerRejects(w) \/ TimesOut(w)
  \/ Issue(w) \/ Finish(w) \/ Stopped(w)

Disturb(w) == LoseReply(w) \/ IssueFails(w) \/ Stop(w) \/ FailWip(w) \/ Abort(w) \/ Crash(w)

Next ==
  \/ \E w \in Worker : Work(w) \/ Disturb(w) \/ StrayEnds(w)
  \/ \E j \in Job : Elapse(j)
  \/ Expire

Spec == Init /\ [][Next]_vars

\* The event loop of a live process goes on, time passes, and the supervisor of
\* some instance runs at its interval.  A handler need not end by itself: its
\* timer ends the wait, and an abandoned one may run for ever.
Fairness ==
  /\ \A w \in Worker : WF_vars(Work(w))
  /\ \A j \in Job : WF_vars(Elapse(j))
  /\ WF_vars(Expire)

FairSpec == Spec /\ Fairness

-----------------------------------------------------------------------------
(* Properties.                                                              *)

\* The handler of w runs for attempt n of j: w waits for it, or abandoned it.
Waits(w, j, n) ==
  worker[w].pc = "handling" /\ j \in worker[w].batch /\ worker[w].run[j] = n
Runs(w, j, n) == Waits(w, j, n) \/ <<j, n>> \in strays[w]

\* An attempt of j ran late, or its result could not be had or written.
Disturbed(j) == \E n \in Attempt : <<j, n>> \in late \cup lost

\* w has yet to settle j.
Claims(w, j) ==
  /\ j \in worker[w].batch
  /\ worker[w].pc \in {"fetching", "handling"} \/ j \in Pending(w)

\* However fetches, failures, expiry and shutdown interleave, a job is fetched at
\* most retry_limit + 1 times (the retry_limit guard of failJobs).
RunsBounded == \A j \in Job : job[j].runs <= RetryLimit + 1

\* Two handlers run for the same job, in one process or in two, only if an attempt
\* of it ran late or was lost: the state-gated claim of fetchNextJob.
OverlapExplained ==
  \A v, w \in Worker : \A j \in Job : \A m, n \in Attempt :
    Runs(v, j, m) /\ Runs(w, j, n) /\ <<v, m>> # <<w, n>> => Disturbed(j)

FailureCaused(j) ==
  Disturbed(j) \/ \E n \in Attempt : verdict[j][n] \in {"failure", "deadletter"}
SuccessCaused(j) ==
  \/ \E n \in Attempt : verdict[j][n] = "success"
  \/ \E w \in Worker : stop[w] = "shut"

\* A job is failed for good only if a handler failed it or an attempt of it was
\* disturbed; it is completed only if a handler returned, or a stop was forced.
OutcomeExplained ==
  \A j \in Job : /\ job[j].state = "failed" => FailureCaused(j)
                 /\ job[j].state = "completed" => SuccessCaused(j)

\* The inductive invariant behind RunsBounded, OverlapExplained and
\* OutcomeExplained.  retry_count follows the number of fetches, and a row that
\* may be fetched again has a retry left;
CountsInv ==
  \A j \in Job :
    /\ job[j].retries = IF job[j].runs > 0 THEN job[j].runs - 1 ELSE 0
    /\ job[j].state \in {"created", "retry"} => job[j].runs <= RetryLimit
    /\ job[j].runs <= RetryLimit + 1

\* a worker issues one statement for each job of its batch, after the handler;
BatchInv ==
  \A w \in Worker :
    /\ \A j \in worker[w].batch \cup worker[w].jobs : worker[w].run[j] \in 1..job[j].runs
    /\ Pending(w) \subseteq worker[w].batch
    /\ worker[w].pc # "settling" => Pending(w) = {}
    /\ worker[w].complete \cap worker[w].fail = {}
    /\ worker[w].complete \cap worker[w].dead = {}
    /\ worker[w].fail \cap worker[w].dead = {}

\* an undisturbed job that a worker has yet to settle is active, and no other
\* worker has it;
ClaimsInv ==
  \A j \in Job : ~Disturbed(j) =>
    /\ \A w \in Worker : Claims(w, j) => job[j].state = "active"
    /\ \A v, w \in Worker : Claims(v, j) /\ Claims(w, j) => v = w

\* every attempt belongs to one worker and is judged once;
VerdictsInv ==
  \A j \in Job :
    /\ \A n \in Attempt : n > job[j].runs => verdict[j][n] = "none"
    /\ \A w \in Worker :
         j \in worker[w].batch /\ worker[w].pc \in {"fetching", "handling"} =>
           verdict[j][worker[w].run[j]] = "none"
    /\ \A v, w \in Worker :
         /\ v # w
         /\ j \in worker[v].batch \cap worker[w].batch
         => worker[v].run[j] # worker[w].run[j]

\* and every statement still to be issued has its cause.
CausesInv ==
  \A w \in Worker :
    /\ \A j \in worker[w].fail \cup worker[w].dead : FailureCaused(j)
    /\ \A j \in worker[w].complete : SuccessCaused(j)

\* A handler is abandoned for an attempt that ran late or was lost, and no other
\* worker has that attempt.
StraysInv ==
  \A w \in Worker : \A j \in Job, n \in Attempt : <<j, n>> \in strays[w] =>
    /\ <<j, n>> \in late \cup lost
    /\ n <= job[j].runs
    /\ \A v \in Worker \ {w} :
         <<j, n>> \notin strays[v] /\ ~(j \in worker[v].batch /\ worker[v].run[j] = n)

\* All parts together: what the table, the workers and the statements they have
\* yet to issue know of each other in every reachable state.
IndInv ==
  /\ TypeOK /\ CountsInv /\ BatchInv /\ ClaimsInv /\ VerdictsInv /\ CausesInv
  /\ StraysInv /\ OutcomeExplained

\* No job is stuck: whatever is lost, stopped or dies, every job is completed or
\* failed in the end, as long as one worker and the supervisor go on.
AllSettle == \A j \in Job : <>(job[j].state \in {"completed", "failed"})

\* What is left of "Exactly-once job delivery" (README.md): no attempt is handled
\* twice, and while a handler runs for an attempt of a job, one runs for a later
\* attempt only if the earlier one ran out of its time and was told so by its
\* signal.  Handlers that heed job.signal never overlap.
OverlapAborted ==
  \A v, w \in Worker : \A j \in Job : \A m, n \in Attempt :
    Runs(v, j, m) /\ Runs(w, j, n) /\ <<v, m>> # <<w, n>> =>
      /\ m # n
      /\ m < n => <<j, m>> \in strays[v] \cap late

\* A completed job was handled to the end by some attempt (docs/api/workers.md:
\* it is the handler's "returning" that "completes every job in the batch").
CompletedMeansHandled ==
  \A j \in Job : job[j].state = "completed" => \E n \in Attempt : verdict[j][n] = "success"

\* A failed job is one whose last attempt failed, ran late or was lost: an earlier
\* attempt that ran late "is no longer relevant" (docs/api/queues.md).
FailedMeansSpent ==
  \A j \in Job : job[j].state = "failed" =>
    \/ verdict[j][job[j].runs] \in {"failure", "deadletter"}
    \/ Current(j) \in late \cup lost

\* Processing implements Attempts.
phaseOf(j) ==
  CASE job[j].state \in {"created", "retry"} -> "waiting"
    [] job[j].state = "active"               -> "running"
    [] OTHER                                 -> job[j].state

A == INSTANCE Attempts WITH
       MaxAttempts <- RetryLimit + 1,
       phase       <- [j \in Job |-> phaseOf(j)],
       attempt     <- [j \in Job |-> job[j].runs],
       verdict     <- [j \in Job |-> IF job[j].runs \in Attempt
                                      THEN verdict[j][job[j].runs] ELSE "none"],
       lost        <- {j \in Job : Current(j) \in late \cup lost}

\* When workers settle their attempts before the supervisor does and stops are
\* not forced, processing keeps the promises of Attempts.
ImplementsAttempts == A!Spec
=============================================================================
