-------------------------- MODULE ProcessingProofs --------------------------
(***************************************************************************)
(* Proofs about Processing, for any number of jobs, workers, retries and   *)
(* errors, and whatever the workers' options.                              *)
(***************************************************************************)
EXTENDS Processing, TLAPS

-----------------------------------------------------------------------------
(* Rows.                                                                    *)

LEMMA Constants == RetryLimit \in Nat /\ MaxErrors \in Nat /\ Attempt = 1..(RetryLimit + 1)
BY ProcessingAssumption DEF Attempt

\* What a statement may do to the rows: only rows of S change, their counters
\* stay, and a row that changes state was not settled.
Touches(S, states) ==
  \A j \in Job :
    /\ job'[j].runs = job[j].runs
    /\ job'[j].retries = job[j].retries
    /\ job'[j].state # job[j].state =>
         /\ j \in S
         /\ job[j].state \in {"created", "retry", "active"}
         /\ job'[j].state \in states
         /\ job'[j].state = "retry" => job[j].retries < RetryLimit

LEMMA CompleteRowsTouches ==
  ASSUME job \in [Job -> JobRow], NEW S \in SUBSET Job, CompleteRows(S)
  PROVE  job' \in [Job -> JobRow] /\ Touches(S, {"completed"})
<1>1. \A j \in Job : job[j] \in JobRow OBVIOUS
<1>2. \A j \in Job : job'[j] = IF j \in S \cap Active THEN [job[j] EXCEPT !.state = "completed"]
                               ELSE job[j]
  BY DEF CompleteRows
<1>3. \A j \in Job : job'[j] \in JobRow BY <1>1, <1>2 DEF JobRow
<1>4. job' = [j \in Job |-> job'[j]] BY <1>2 DEF CompleteRows
<1>5. Touches(S, {"completed"}) BY <1>1, <1>2 DEF Touches, JobRow, Active
<1>. QED BY <1>3, <1>4, <1>5

LEMMA ActivatedFields ==
  ASSUME NEW r \in JobRow
  PROVE  /\ Activated(r) \in JobRow
         /\ Activated(r).state = "active" /\ Activated(r).runs = r.runs + 1
         /\ Activated(r).retries = IF r.runs > 0 THEN r.retries + 1 ELSE r.retries
BY DEF Activated, JobRow

LEMMA FailedRowFields ==
  ASSUME NEW r \in JobRow, NEW force \in BOOLEAN
  PROVE  /\ FailedRow(r, force) \in JobRow
         /\ FailedRow(r, force).runs = r.runs /\ FailedRow(r, force).retries = r.retries
         /\ FailedRow(r, force).state \in {"retry", "failed"}
         /\ FailedRow(r, force).state = "retry" => r.retries < RetryLimit
<1>1. CASE ~force /\ r.retries < RetryLimit BY <1>1 DEF FailedRow, JobRow
<1>2. CASE ~(~force /\ r.retries < RetryLimit) BY <1>2 DEF FailedRow, JobRow
<1>. QED BY <1>1, <1>2

LEMMA FailRowsTouches ==
  ASSUME job \in [Job -> JobRow], NEW S \in SUBSET Job, NEW force \in BOOLEAN,
         FailRows(S, force)
  PROVE  job' \in [Job -> JobRow] /\ Touches(S, {"retry", "failed"})
<1>1. \A j \in Job : job[j] \in JobRow OBVIOUS
<1>2. \A j \in Job : job'[j] = IF j \in S \cap Unsettled THEN FailedRow(job[j], force) ELSE job[j]
  BY DEF FailRows
<1>3. \A j \in Job : job'[j] \in JobRow BY <1>1, <1>2, FailedRowFields
<1>4. job' = [j \in Job |-> job'[j]] BY <1>2 DEF FailRows
<1>5. Touches(S, {"retry", "failed"})
  BY <1>1, <1>2, FailedRowFields DEF Touches, Unsettled, Waiting, Active
<1>. QED BY <1>3, <1>4, <1>5

LEMMA UnchangedTouches ==
  ASSUME UNCHANGED job PROVE Touches({}, {})
BY DEF Touches

LEMMA IdleType ==
  ASSUME NEW pc \in {"polling", "asking", "stopped", "dead"}
  PROVE  /\ Idle(pc) \in WorkerState
         /\ Idle(pc).pc = pc /\ Idle(pc).jobs = {} /\ Idle(pc).batch = {}
         /\ Idle(pc).complete = {} /\ Idle(pc).fail = {} /\ Idle(pc).dead = {}
BY DEF Idle, WorkerState

LEMMA AttemptsType ==
  ASSUME TypeOK, CountsInv, BatchInv, NEW w \in Worker,
         NEW S \in SUBSET (worker[w].batch \cup worker[w].jobs)
  PROVE  AttemptsOf(w, S) \subseteq Job \X Attempt
<1>1. worker[w] \in WorkerState BY DEF TypeOK
<1>. SUFFICES ASSUME NEW j \in S PROVE <<j, worker[w].run[j]>> \in Job \X Attempt
  BY DEF AttemptsOf
<1>2. j \in Job /\ worker[w].run[j] \in Nat BY <1>1 DEF WorkerState
<1>3. worker[w].run[j] \in 1..job[j].runs BY DEF BatchInv
<1>4. job[j].runs \in Nat BY <1>2 DEF TypeOK, JobRow
<1>5. job[j].runs <= RetryLimit + 1 BY <1>2 DEF CountsInv
<1>. QED BY <1>2, <1>3, <1>4, <1>5, Constants

-----------------------------------------------------------------------------
(* Workers.                                                                 *)

Others(w) == \A v \in Worker \ {w} : worker'[v] = worker[v]

LEMMA Replaced ==
  ASSUME worker \in [Worker -> WorkerState], NEW w \in Worker, NEW x \in WorkerState,
         worker' = [worker EXCEPT ![w] = x]
  PROVE  worker' \in [Worker -> WorkerState] /\ worker'[w] = x /\ Others(w)
BY DEF Others

\* The race is over, and these statements will be issued.
Settles(w, complete, fail, dead) ==
  /\ worker' \in [Worker -> WorkerState]
  /\ Others(w)
  /\ worker'[w].pc = "settling"
  /\ worker'[w].jobs = worker[w].jobs
  /\ worker'[w].batch = worker[w].batch
  /\ worker'[w].run = worker[w].run
  /\ worker'[w].complete = complete
  /\ worker'[w].fail = fail
  /\ worker'[w].dead = dead

LEMMA SettlingSettles ==
  ASSUME worker \in [Worker -> WorkerState], NEW w \in Worker, NEW c \in SUBSET Job,
         NEW f \in SUBSET Job, NEW d \in SUBSET Job, NEW b \in BOOLEAN,
         Settling(w, c, f, d, b)
  PROVE  Settles(w, c, f, d)
<1> DEFINE x == [worker[w] EXCEPT !.pc = "settling", !.complete = c, !.fail = f, !.dead = d,
                                  !.catching = b]
<1>1. worker[w] \in WorkerState OBVIOUS
<1>2. x \in WorkerState BY <1>1 DEF WorkerState
<1>3. worker' = [worker EXCEPT ![w] = x] BY DEF Settling
<1>4. /\ x.pc = "settling" /\ x.jobs = worker[w].jobs /\ x.batch = worker[w].batch
      /\ x.run = worker[w].run /\ x.complete = c /\ x.fail = f /\ x.dead = d
  BY <1>1 DEF WorkerState
<1>. HIDE DEF x
<1>5. worker' \in [Worker -> WorkerState] /\ worker'[w] = x /\ Others(w)
  BY <1>2, <1>3, Replaced
<1>. QED BY <1>4, <1>5 DEF Settles

\* The worker is through with its batch.
Drops(w) ==
  /\ worker' \in [Worker -> WorkerState]
  /\ Others(w)
  /\ worker'[w].pc \in {"polling", "asking", "stopped", "dead"}
  /\ worker'[w].batch = {}
  /\ worker'[w].complete = {} /\ worker'[w].fail = {} /\ worker'[w].dead = {}
  /\ \/ worker'[w].jobs = {}
     \/ worker'[w].jobs = worker[w].jobs /\ worker'[w].run = worker[w].run

LEMMA IdleDrops ==
  ASSUME worker \in [Worker -> WorkerState], NEW w \in Worker,
         NEW pc \in {"polling", "asking", "stopped", "dead"}, worker' = [worker EXCEPT ![w] = Idle(pc)]
  PROVE  Drops(w)
BY IdleType, Replaced DEF Drops

LEMMA LeftoversDrops ==
  ASSUME worker \in [Worker -> WorkerState], NEW w \in Worker,
         NEW pc \in {"polling", "asking"}, worker' = [worker EXCEPT ![w] = WithLeftovers(w, pc)]
  PROVE  Drops(w)
<1> DEFINE x == WithLeftovers(w, pc)
<1>1. worker[w] \in WorkerState OBVIOUS
<1>2. /\ x \in WorkerState /\ x.pc = pc /\ x.jobs = worker[w].jobs
      /\ x.run = worker[w].run /\ x.batch = {}
      /\ x.complete = {} /\ x.fail = {} /\ x.dead = {}
  BY <1>1 DEF WithLeftovers, Idle, WorkerState
<1>. HIDE DEF x
<1>3. worker' \in [Worker -> WorkerState] /\ worker'[w] = x /\ Others(w)
  BY <1>2, Replaced DEF x
<1>. QED BY <1>2, <1>3 DEF Drops

\* No handler is abandoned.
StraysShrink == \A v \in Worker : strays'[v] \subseteq strays[v]

LEMMA QuietDrops ==
  ASSUME TypeOK, NEW w \in Worker,
         Poll(w) \/ LoseReply(w) \/ FetchNothing(w) \/ Finish(w) \/ Stopped(w) \/ Crash(w)
  PROVE  /\ Drops(w) /\ UNCHANGED <<job, stop, late, verdict>>
         /\ StraysShrink /\ strays' \in [Worker -> SUBSET (Job \X Attempt)]
         /\ lost' = lost \/ lost' = lost \cup AttemptsOf(w, worker[w].batch)
         /\ errors' \in 0..MaxErrors
<1>. USE DEF TypeOK, StraysShrink
<1>1. CASE LoseReply(w)
  <2>1. errors' \in 0..MaxErrors BY <1>1, Constants, SMT DEF LoseReply
  <2>2. Drops(w) BY <1>1, LeftoversDrops DEF LoseReply
  <2>. QED BY <1>1, <2>1, <2>2 DEF LoseReply
<1>2. CASE FetchNothing(w) BY <1>2, IdleDrops DEF FetchNothing
<1>3. CASE Finish(w) BY <1>3, IdleDrops DEF Finish
<1>4. CASE Stopped(w) BY <1>4, IdleDrops DEF Stopped
<1>5. CASE Crash(w) BY <1>5, IdleDrops DEF Crash
<1>6. CASE Poll(w) BY <1>6, LeftoversDrops DEF Poll
<1>. QED BY <1>1, <1>2, <1>3, <1>4, <1>5, <1>6

\* What the other actions do, as first-order facts.
LEMMA FetchDoes ==
  ASSUME TypeOK, NEW w \in Worker, Fetch(w)
  PROVE  \E T \in SUBSET Waiting :
           /\ job' \in [Job -> JobRow]
           /\ \A j \in Job : job'[j] = IF j \in T THEN Activated(job[j]) ELSE job[j]
           /\ worker' \in [Worker -> WorkerState] /\ Others(w)
           /\ worker[w].pc = "asking" /\ worker'[w].pc = "fetching"
           /\ worker'[w].batch = T /\ worker'[w].jobs = worker[w].jobs
           /\ worker'[w].complete = worker[w].complete
           /\ worker'[w].fail = worker[w].fail /\ worker'[w].dead = worker[w].dead
           /\ \A j \in Job : worker'[w].run[j] = IF j \in T THEN job[j].runs + 1 ELSE worker[w].run[j]
<1>1. PICK T \in SUBSET Waiting :
        /\ job' = [j \in Job |-> IF j \in T THEN Activated(job[j]) ELSE job[j]]
        /\ worker' = [worker EXCEPT ![w].pc = "fetching", ![w].batch = T,
                        ![w].run = [j \in Job |-> IF j \in T THEN job[j].runs + 1 ELSE @[j]]]
  BY DEF Fetch
<1> DEFINE r == [j \in Job |-> IF j \in T THEN job[j].runs + 1 ELSE worker[w].run[j]]
<1> DEFINE x == [worker[w] EXCEPT !.pc = "fetching", !.batch = T, !.run = r]
<1>2. worker[w] \in WorkerState /\ T \subseteq Job BY DEF TypeOK, Waiting
<1>3. \A j \in Job : job[j] \in JobRow BY DEF TypeOK
<1>4. r \in [Job -> Nat] BY <1>2, <1>3 DEF JobRow, WorkerState
<1>5. \A j \in Job : r[j] = IF j \in T THEN job[j].runs + 1 ELSE worker[w].run[j] OBVIOUS
<1>6. worker' = [worker EXCEPT ![w] = x] BY <1>1, <1>2 DEF WorkerState, TypeOK
<1>. HIDE DEF r
<1>7. /\ x \in WorkerState /\ x.pc = "fetching" /\ x.batch = T /\ x.run = r
      /\ x.jobs = worker[w].jobs /\ x.complete = worker[w].complete
      /\ x.fail = worker[w].fail /\ x.dead = worker[w].dead
  BY <1>2, <1>4 DEF WorkerState
<1>. HIDE DEF x
<1>8. worker' \in [Worker -> WorkerState] /\ worker'[w] = x /\ Others(w)
  BY <1>6, <1>7, Replaced DEF TypeOK
<1>9. \A j \in Job : Activated(job[j]) \in JobRow BY <1>3, ActivatedFields
<1>10. job' \in [Job -> JobRow] BY <1>1, <1>3, <1>9
<1>11. \A j \in Job : job'[j] = IF j \in T THEN Activated(job[j]) ELSE job[j] BY <1>1
<1>12. worker[w].pc = "asking" BY DEF Fetch
<1>13. \A j \in Job : worker'[w].run[j] = IF j \in T THEN job[j].runs + 1 ELSE worker[w].run[j]
  BY <1>5, <1>7, <1>8
<1>14. /\ worker'[w].pc = "fetching" /\ worker'[w].batch = T /\ worker'[w].jobs = worker[w].jobs
       /\ worker'[w].complete = worker[w].complete
       /\ worker'[w].fail = worker[w].fail /\ worker'[w].dead = worker[w].dead
  BY <1>7, <1>8
<1>. WITNESS T \in SUBSET Waiting
<1>. QED BY <1>8, <1>10, <1>11, <1>12, <1>13, <1>14

LEMMA ReceiveDoes ==
  ASSUME TypeOK, NEW w \in Worker, Receive(w)
  PROVE  /\ worker' \in [Worker -> WorkerState] /\ Others(w)
         /\ worker[w].pc = "fetching" /\ worker'[w].pc = "handling"
         /\ worker'[w].jobs = worker[w].batch /\ worker'[w].batch = worker[w].batch
         /\ worker'[w].run = worker[w].run /\ worker'[w].complete = worker[w].complete
         /\ worker'[w].fail = worker[w].fail /\ worker'[w].dead = worker[w].dead
         /\ UNCHANGED <<job, stop, errors, late, strays, verdict, lost>>
<1> DEFINE x == [worker[w] EXCEPT !.pc = "handling", !.jobs = worker[w].batch]
<1>1. worker[w] \in WorkerState BY DEF TypeOK
<1>2. worker' = [worker EXCEPT ![w] = x] BY DEF Receive
<1>3. /\ x \in WorkerState /\ x.pc = "handling" /\ x.jobs = worker[w].batch
      /\ x.batch = worker[w].batch /\ x.run = worker[w].run
      /\ x.complete = worker[w].complete /\ x.fail = worker[w].fail /\ x.dead = worker[w].dead
  BY <1>1 DEF WorkerState
<1>. HIDE DEF x
<1>4. worker' \in [Worker -> WorkerState] /\ worker'[w] = x /\ Others(w)
  BY <1>2, <1>3, Replaced DEF TypeOK
<1>. QED BY <1>3, <1>4 DEF Receive

LEMMA HandlerDoes ==
  ASSUME TypeOK, NEW w \in Worker, HandlerResolves(w) \/ HandlerRejects(w)
  PROVE  \E v \in [worker[w].batch -> Verdict \ {"none"}] :
           /\ worker[w].pc = "handling"
           /\ Settles(w, {j \in worker[w].batch : v[j] = "success"},
                         {j \in worker[w].batch : v[j] = "failure"},
                         {j \in worker[w].batch : v[j] = "deadletter"})
           /\ Judged(w, v)
           /\ UNCHANGED <<job, stop, errors, late, strays, lost>>
<1>1. worker[w].batch \subseteq Job BY DEF TypeOK, WorkerState
<1>2. CASE HandlerResolves(w)
  <2>1. PICK v \in [worker[w].batch -> Verdict \ {"none"}] :
          /\ Settling(w, {j \in worker[w].batch : v[j] = "success"},
                         {j \in worker[w].batch : v[j] = "failure"},
                         {j \in worker[w].batch : v[j] = "deadletter"}, FALSE)
          /\ Judged(w, v)
    BY <1>2 DEF HandlerResolves
  <2>2. Settles(w, {j \in worker[w].batch : v[j] = "success"},
                   {j \in worker[w].batch : v[j] = "failure"},
                   {j \in worker[w].batch : v[j] = "deadletter"})
    BY <1>1, <2>1, SettlingSettles DEF TypeOK
  <2>. QED BY <1>2, <2>1, <2>2 DEF HandlerResolves
<1>3. CASE HandlerRejects(w)
  <2> DEFINE v == [j \in worker[w].batch |-> "failure"]
  <2>1. v \in [worker[w].batch -> Verdict \ {"none"}] BY DEF Verdict
  <2>2. /\ {j \in worker[w].batch : v[j] = "success"} = {}
        /\ {j \in worker[w].batch : v[j] = "failure"} = worker[w].batch
        /\ {j \in worker[w].batch : v[j] = "deadletter"} = {}
    OBVIOUS
  <2>3. Settles(w, {}, worker[w].batch, {})
    BY <1>1, <1>3, SettlingSettles DEF TypeOK, HandlerRejects
  <2>4. Judged(w, v) /\ worker[w].pc = "handling" /\ UNCHANGED <<job, stop, errors, late, strays, lost>>
    BY <1>3 DEF HandlerRejects
  <2>. HIDE DEF v
  <2>. QED BY <2>1, <2>2, <2>3, <2>4
<1>. QED BY <1>2, <1>3

LEMMA IssueDoes ==
  ASSUME TypeOK, NEW w \in Worker, Issue(w)
  PROVE  /\ worker[w].pc = "settling"
         /\ job' \in [Job -> JobRow]
         /\ \/ /\ Touches(worker[w].complete, {"completed"})
               /\ Settles(w, {}, worker[w].fail, worker[w].dead)
            \/ /\ Touches(worker[w].fail, {"retry", "failed"})
               /\ Settles(w, worker[w].complete, {}, worker[w].dead)
            \/ /\ Touches(worker[w].dead, {"retry", "failed"})
               /\ Settles(w, worker[w].complete, worker[w].fail, {})
         /\ UNCHANGED <<stop, errors, late, strays, verdict, lost>>
<1>1. worker[w] \in WorkerState BY DEF TypeOK
<1>2. /\ worker[w].complete \in SUBSET Job /\ worker[w].fail \in SUBSET Job
      /\ worker[w].dead \in SUBSET Job
  BY <1>1 DEF WorkerState
<1>3. worker[w].pc = "settling" /\ UNCHANGED <<stop, errors, late, strays, verdict, lost>>
  BY DEF Issue
<1>4. ASSUME NEW x \in WorkerState, worker' = [worker EXCEPT ![w] = x]
      PROVE  worker' \in [Worker -> WorkerState] /\ worker'[w] = x /\ Others(w)
  BY <1>4, Replaced DEF TypeOK
<1>5. CASE CompleteRows(worker[w].complete) /\ worker' = [worker EXCEPT ![w].complete = {}]
  <2>1. job' \in [Job -> JobRow] /\ Touches(worker[w].complete, {"completed"})
    BY <1>2, <1>5, CompleteRowsTouches DEF TypeOK
  <2> DEFINE x == [worker[w] EXCEPT !.complete = {}]
  <2>2. x \in WorkerState /\ worker' = [worker EXCEPT ![w] = x] BY <1>1, <1>5 DEF WorkerState
  <2>3. Settles(w, {}, worker[w].fail, worker[w].dead)
    BY <1>1, <1>3, <1>4, <2>2 DEF Settles, WorkerState
  <2>. QED BY <1>3, <2>1, <2>3
<1>6. CASE FailRows(worker[w].fail, FALSE) /\ worker' = [worker EXCEPT ![w].fail = {}]
  <2>1. job' \in [Job -> JobRow] /\ Touches(worker[w].fail, {"retry", "failed"})
    BY <1>2, <1>6, FailRowsTouches DEF TypeOK
  <2> DEFINE x == [worker[w] EXCEPT !.fail = {}]
  <2>2. x \in WorkerState /\ worker' = [worker EXCEPT ![w] = x] BY <1>1, <1>6 DEF WorkerState
  <2>3. Settles(w, worker[w].complete, {}, worker[w].dead)
    BY <1>1, <1>3, <1>4, <2>2 DEF Settles, WorkerState
  <2>. QED BY <1>3, <2>1, <2>3
<1>7. CASE FailRows(worker[w].dead, TRUE) /\ worker' = [worker EXCEPT ![w].dead = {}]
  <2>1. job' \in [Job -> JobRow] /\ Touches(worker[w].dead, {"retry", "failed"})
    BY <1>2, <1>7, FailRowsTouches DEF TypeOK
  <2> DEFINE x == [worker[w] EXCEPT !.dead = {}]
  <2>2. x \in WorkerState /\ worker' = [worker EXCEPT ![w] = x] BY <1>1, <1>7 DEF WorkerState
  <2>3. Settles(w, worker[w].complete, worker[w].fail, {})
    BY <1>1, <1>3, <1>4, <2>2 DEF Settles, WorkerState
  <2>. QED BY <1>3, <2>1, <2>3
<1>. QED BY <1>5, <1>6, <1>7 DEF Issue

LEMMA IssueFailsDoes ==
  ASSUME TypeOK, NEW w \in Worker, IssueFails(w)
  PROVE  /\ worker[w].pc = "settling"
         /\ job' \in [Job -> JobRow]
         /\ \/ Touches({}, {})
            \/ Touches(worker[w].complete, {"completed"})
            \/ Touches(worker[w].fail \cup worker[w].dead, {"retry", "failed"})
         /\ Drops(w) \/ Settles(w, {}, worker[w].batch, {})
         /\ lost' = lost \cup AttemptsOf(w, worker[w].batch)
         /\ errors' \in 0..MaxErrors
         /\ UNCHANGED <<stop, late, strays, verdict>>
<1>1. worker[w] \in WorkerState BY DEF TypeOK
<1>2. /\ worker[w].complete \in SUBSET Job /\ worker[w].fail \in SUBSET Job
      /\ worker[w].dead \in SUBSET Job /\ worker[w].batch \in SUBSET Job
  BY <1>1 DEF WorkerState
<1>3. errors' \in 0..MaxErrors BY Constants, SMT DEF IssueFails, TypeOK
<1>4. /\ worker[w].pc = "settling" /\ lost' = lost \cup AttemptsOf(w, worker[w].batch)
      /\ UNCHANGED <<stop, late, strays, verdict>>
  BY DEF IssueFails
<1>5. Drops(w) \/ Settles(w, {}, worker[w].batch, {})
  BY <1>2, LeftoversDrops, SettlingSettles DEF IssueFails, TypeOK
<1>6. /\ job' \in [Job -> JobRow]
      /\ \/ Touches({}, {})
         \/ Touches(worker[w].complete, {"completed"})
         \/ Touches(worker[w].fail \cup worker[w].dead, {"retry", "failed"})
  <2>1. CASE UNCHANGED job BY <2>1, UnchangedTouches DEF TypeOK
  <2>2. CASE CompleteRows(worker[w].complete) BY <1>2, <2>2, CompleteRowsTouches DEF TypeOK
  <2>3. CASE FailRows(worker[w].fail, FALSE)
    BY <1>2, <2>3, FailRowsTouches DEF TypeOK, Touches
  <2>4. CASE FailRows(worker[w].dead, TRUE)
    BY <1>2, <2>4, FailRowsTouches DEF TypeOK, Touches
  <2>. QED BY <2>1, <2>2, <2>3, <2>4 DEF IssueFails
<1>. QED BY <1>3, <1>4, <1>5, <1>6

LEMMA FailWipDoes ==
  ASSUME TypeOK, NEW w \in Worker, FailWip(w)
  PROVE  /\ job' \in [Job -> JobRow] /\ Touches(worker[w].jobs, {"retry", "failed"})
         /\ lost' = lost \cup AttemptsOf(w, worker[w].jobs)
         /\ stop' \in [Worker -> StopState]
         /\ \A v \in Worker : stop[v] = "shut" => stop'[v] = "shut"
         /\ UNCHANGED <<worker, errors, late, strays, verdict>>
<1>1. worker[w].jobs \in SUBSET Job BY DEF TypeOK, WorkerState
<1>2. job' \in [Job -> JobRow] /\ Touches(worker[w].jobs, {"retry", "failed"})
  BY <1>1, FailRowsTouches DEF FailWip, TypeOK
<1>3. stop' \in [Worker -> StopState] BY DEF FailWip, TypeOK, StopState
<1>4. \A v \in Worker : stop[v] = "shut" => stop'[v] = "shut" BY DEF FailWip, TypeOK
<1>. QED BY <1>2, <1>3, <1>4 DEF FailWip

LEMMA AbortDoes ==
  ASSUME TypeOK, NEW w \in Worker, Abort(w)
  PROVE  /\ stop' \in [Worker -> StopState]
         /\ stop'[w] = "shut"
         /\ \A v \in Worker : stop[v] = "shut" => stop'[v] = "shut"
         /\ \/ UNCHANGED <<worker, strays, lost>>
            \/ /\ worker[w].pc = "handling"
               /\ \/ Settles(w, {}, worker[w].batch, {})
                  \/ Settles(w, worker[w].batch, {}, {})
               /\ Abandons(w)
               /\ lost' = lost \cup AttemptsOf(w, worker[w].batch)
         /\ UNCHANGED <<job, errors, late, verdict>>
<1>1. worker[w].batch \in SUBSET Job BY DEF TypeOK, WorkerState
<1>2. /\ stop' \in [Worker -> StopState] /\ stop'[w] = "shut"
      /\ \A v \in Worker : stop[v] = "shut" => stop'[v] = "shut"
  BY DEF Abort, TypeOK, StopState
<1>3. \/ UNCHANGED <<worker, strays, lost>>
      \/ /\ worker[w].pc = "handling"
         /\ \/ Settles(w, {}, worker[w].batch, {})
            \/ Settles(w, worker[w].batch, {}, {})
         /\ Abandons(w)
         /\ lost' = lost \cup AttemptsOf(w, worker[w].batch)
  BY <1>1, SettlingSettles DEF Abort, TypeOK
<1>. QED BY <1>2, <1>3 DEF Abort

LEMMA TimesOutDoes ==
  ASSUME TypeOK, NEW w \in Worker, TimesOut(w)
  PROVE  /\ worker[w].pc = "handling" /\ Settles(w, {}, worker[w].batch, {})
         /\ AttemptsOf(w, worker[w].batch) \subseteq late
         /\ Abandons(w)
         /\ UNCHANGED <<job, stop, errors, late, verdict, lost>>
<1>1. worker[w].batch \in SUBSET Job BY DEF TypeOK, WorkerState
<1>. QED BY <1>1, SettlingSettles DEF TimesOut, TypeOK

LEMMA ExpireDoes ==
  ASSUME TypeOK, Expire
  PROVE  /\ job' \in [Job -> JobRow] /\ Touches(Expirable, {"retry", "failed"})
         /\ UNCHANGED <<worker, stop, errors, late, strays, verdict, lost>>
<1>1. Expirable \in SUBSET Job BY DEF Expirable, Active
<1>. QED BY <1>1, FailRowsTouches DEF Expire, TypeOK

-----------------------------------------------------------------------------
(* The steps, by action.                                                    *)

\* The disjuncts of a step of Spec.
LEMMA Steps ==
  ASSUME [Next]_vars
  PROVE  \/ UNCHANGED vars
         \/ \E w \in Worker :
              \/ Fetch(w) \/ Receive(w) \/ TimesOut(w) \/ Issue(w) \/ IssueFails(w)
              \/ HandlerResolves(w) \/ HandlerRejects(w)
              \/ Poll(w) \/ LoseReply(w) \/ FetchNothing(w) \/ Finish(w) \/ Stopped(w) \/ Crash(w)
              \/ Stop(w) \/ FailWip(w) \/ Abort(w) \/ StrayEnds(w)
         \/ \E j \in Job : Elapse(j)
         \/ Expire
BY DEF Next, Work, Disturb

\* Types.
LEMMA TypeStep == IndInv /\ [Next]_vars => TypeOK'
<1>. SUFFICES ASSUME IndInv, [Next]_vars PROVE TypeOK' OBVIOUS
<1>0. TypeOK /\ CountsInv /\ BatchInv BY DEF IndInv
<1>1. CASE UNCHANGED vars BY <1>0, <1>1 DEF vars, TypeOK
<1>2. ASSUME NEW w \in Worker, Fetch(w) PROVE TypeOK'
  <2>1. UNCHANGED <<stop, errors, late, strays, verdict, lost>> BY <1>2 DEF Fetch
  <2>. QED BY <1>0, <1>2, <2>1, FetchDoes DEF TypeOK
<1>3. ASSUME NEW w \in Worker, Receive(w) PROVE TypeOK'
  BY <1>0, <1>3, ReceiveDoes DEF TypeOK
<1>5. ASSUME NEW w \in Worker, Issue(w) PROVE TypeOK'
  BY <1>0, <1>5, IssueDoes DEF TypeOK, Settles
<1>6. ASSUME NEW w \in Worker PROVE AttemptsOf(w, worker[w].batch) \subseteq Job \X Attempt
  BY <1>0, AttemptsType
<1>a. ASSUME NEW w \in Worker, Abandons(w)
      PROVE  strays' \in [Worker -> SUBSET (Job \X Attempt)]
  BY <1>0, <1>6, <1>a DEF Abandons, TypeOK
<1>4. ASSUME NEW w \in Worker, TimesOut(w) PROVE TypeOK'
  BY <1>0, <1>4, <1>a, TimesOutDoes DEF TypeOK, Settles
<1>7. ASSUME NEW w \in Worker, IssueFails(w) PROVE TypeOK'
  BY <1>0, <1>6, <1>7, IssueFailsDoes DEF TypeOK, Settles, Drops
<1>8. ASSUME NEW w \in Worker, HandlerResolves(w) \/ HandlerRejects(w) PROVE TypeOK'
  <2>1. PICK v \in [worker[w].batch -> Verdict \ {"none"}] :
          /\ worker' \in [Worker -> WorkerState] /\ Judged(w, v)
          /\ UNCHANGED <<job, stop, errors, late, strays, lost>>
    BY <1>0, <1>8, HandlerDoes DEF Settles
  <2>2. verdict' \in [Job -> [Attempt -> Verdict]] BY <1>0, <2>1 DEF Judged, TypeOK
  <2>. QED BY <1>0, <2>1, <2>2 DEF TypeOK
<1>9. ASSUME NEW w \in Worker,
             Poll(w) \/ LoseReply(w) \/ FetchNothing(w) \/ Finish(w) \/ Stopped(w) \/ Crash(w)
      PROVE  TypeOK'
  BY <1>0, <1>6, <1>9, QuietDrops DEF TypeOK, Drops
<1>10. ASSUME NEW w \in Worker, Stop(w) PROVE TypeOK'
  BY <1>0, <1>10 DEF Stop, TypeOK, StopState
<1>11. ASSUME NEW w \in Worker, FailWip(w) PROVE TypeOK'
  <2>1. AttemptsOf(w, worker[w].jobs) \subseteq Job \X Attempt BY <1>0, AttemptsType
  <2>. QED BY <1>0, <1>11, <2>1, FailWipDoes DEF TypeOK
<1>12. ASSUME NEW w \in Worker, Abort(w) PROVE TypeOK'
  BY <1>0, <1>6, <1>12, <1>a, AbortDoes DEF TypeOK, Settles
<1>13. ASSUME NEW j \in Job, Elapse(j) PROVE TypeOK'
  BY <1>0, <1>13 DEF Elapse, TypeOK
<1>14. CASE Expire BY <1>0, <1>14, ExpireDoes DEF TypeOK
<1>15. ASSUME NEW w \in Worker, StrayEnds(w) PROVE TypeOK'
  BY <1>0, <1>15 DEF StrayEnds, TypeOK
<1>. QED BY <1>1, <1>2, <1>3, <1>4, <1>5, <1>7, <1>8, <1>9, <1>10, <1>11, <1>12, <1>13, <1>14, <1>15,
            Steps

\* Counters.
LEMMA TouchesCounts ==
  ASSUME TypeOK, CountsInv, NEW S, NEW states \in SUBSET {"completed", "retry", "failed"},
         Touches(S, states)
  PROVE  CountsInv'
<1>. SUFFICES ASSUME NEW j \in Job
              PROVE  /\ job'[j].retries = IF job'[j].runs > 0 THEN job'[j].runs - 1 ELSE 0
                     /\ job'[j].state \in {"created", "retry"} => job'[j].runs <= RetryLimit
                     /\ job'[j].runs <= RetryLimit + 1
  BY DEF CountsInv
<1>1. job[j].runs \in Nat /\ job[j].retries \in Nat BY DEF TypeOK, JobRow
<1>2. job'[j].runs = job[j].runs /\ job'[j].retries = job[j].retries BY DEF Touches
<1>3. /\ job[j].retries = IF job[j].runs > 0 THEN job[j].runs - 1 ELSE 0
      /\ job[j].state \in {"created", "retry"} => job[j].runs <= RetryLimit
      /\ job[j].runs <= RetryLimit + 1
  BY DEF CountsInv
<1>4. CASE job'[j].state = job[j].state BY <1>2, <1>3, <1>4
<1>5. CASE job'[j].state # job[j].state
  <2>1. job'[j].state \in {"created", "retry"} => job[j].retries < RetryLimit
    BY <1>5 DEF Touches
  <2>2. job'[j].state \in {"created", "retry"} => job[j].runs <= RetryLimit
    BY <1>1, <1>3, <2>1, Constants
  <2>. QED BY <1>2, <1>3, <2>2
<1>. QED BY <1>4, <1>5

\* Every step but a fetch and a statement leaves the table alone.
LEMMA CountsStep == IndInv /\ [Next]_vars => CountsInv'
<1>. SUFFICES ASSUME IndInv, [Next]_vars PROVE CountsInv' OBVIOUS
<1>0. TypeOK /\ CountsInv BY DEF IndInv
<1>1. CASE UNCHANGED job BY <1>0, <1>1 DEF CountsInv
<1>2. ASSUME NEW w \in Worker, Fetch(w) PROVE CountsInv'
  <2>1. PICK T \in SUBSET Waiting :
          \A j \in Job : job'[j] = IF j \in T THEN Activated(job[j]) ELSE job[j]
    BY <1>0, <1>2, FetchDoes
  <2>. SUFFICES ASSUME NEW j \in Job
                PROVE  /\ job'[j].retries = IF job'[j].runs > 0 THEN job'[j].runs - 1 ELSE 0
                       /\ job'[j].state \in {"created", "retry"} => job'[j].runs <= RetryLimit
                       /\ job'[j].runs <= RetryLimit + 1
    BY DEF CountsInv
  <2>2. job[j].runs \in Nat /\ job[j].retries \in Nat BY <1>0 DEF TypeOK, JobRow
  <2>3. CASE j \in T
    <3>1. job[j].runs <= RetryLimit BY <1>0, <2>3 DEF Waiting, CountsInv
    <3>2. job[j].retries = IF job[j].runs > 0 THEN job[j].runs - 1 ELSE 0 BY <1>0 DEF CountsInv
    <3>3. /\ job'[j].state = "active" /\ job'[j].runs = job[j].runs + 1
          /\ job'[j].retries = IF job[j].runs > 0 THEN job[j].retries + 1 ELSE job[j].retries
      BY <1>0, <2>1, <2>3, ActivatedFields DEF TypeOK
    <3>. QED BY <2>2, <3>1, <3>2, <3>3, Constants
  <2>4. CASE j \notin T BY <1>0, <2>1, <2>4 DEF CountsInv
  <2>. QED BY <2>3, <2>4
<1>3. ASSUME NEW w \in Worker, Issue(w) PROVE CountsInv'
  BY <1>0, <1>3, IssueDoes, TouchesCounts
<1>4. ASSUME NEW w \in Worker, IssueFails(w) PROVE CountsInv'
  BY <1>0, <1>4, IssueFailsDoes, TouchesCounts
<1>5. ASSUME NEW w \in Worker, FailWip(w) PROVE CountsInv'
  BY <1>0, <1>5, FailWipDoes, TouchesCounts
<1>6. CASE Expire BY <1>0, <1>6, ExpireDoes, TouchesCounts
<1>7. ASSUME NEW w \in Worker,
             \/ Receive(w) \/ TimesOut(w) \/ HandlerResolves(w) \/ HandlerRejects(w)
             \/ Poll(w) \/ LoseReply(w) \/ FetchNothing(w) \/ Finish(w) \/ Stopped(w) \/ Crash(w)
             \/ Stop(w) \/ Abort(w) \/ StrayEnds(w)
      PROVE  UNCHANGED job
  BY <1>7 DEF Receive, TimesOut, HandlerResolves, HandlerRejects, Poll, LoseReply, FetchNothing,
              Finish, Stopped, Crash, Stop, Abort, StrayEnds
<1>8. ASSUME NEW j \in Job, Elapse(j) PROVE UNCHANGED job BY <1>8 DEF Elapse
<1>. QED BY <1>1, <1>2, <1>3, <1>4, <1>5, <1>6, <1>7, <1>8, Steps DEF vars

\* Batches.  The invariant of one worker:
BatchOK(w) ==
  /\ \A j \in worker[w].batch \cup worker[w].jobs : worker[w].run[j] \in 1..job[j].runs
  /\ Pending(w) \subseteq worker[w].batch
  /\ worker[w].pc # "settling" => Pending(w) = {}
  /\ worker[w].complete \cap worker[w].fail = {}
  /\ worker[w].complete \cap worker[w].dead = {}
  /\ worker[w].fail \cap worker[w].dead = {}

LEMMA BatchFields ==
  ASSUME TypeOK, NEW w \in Worker
  PROVE  /\ worker[w].batch \subseteq Job /\ worker[w].jobs \subseteq Job
         /\ worker[w].complete \subseteq Job /\ worker[w].fail \subseteq Job
         /\ worker[w].dead \subseteq Job
         /\ \A j \in Job : worker[w].run[j] \in Nat
         /\ \A j \in Job : job[j].runs \in Nat
BY DEF TypeOK, WorkerState, JobRow

\* A worker that does not move keeps it.
LEMMA BatchKept ==
  ASSUME TypeOK, TypeOK', NEW w \in Worker, BatchOK(w), worker'[w] = worker[w],
         \A j \in Job : job'[j].runs >= job[j].runs
  PROVE  BatchOK(w)'
<1>1. \A j \in worker[w].batch \cup worker[w].jobs :
        /\ j \in Job /\ worker[w].run[j] \in 1..job[j].runs /\ job[j].runs \in Nat
        /\ job'[j].runs \in Nat /\ job'[j].runs >= job[j].runs
  BY BatchFields DEF BatchOK, TypeOK, JobRow
<1>2. \A j \in worker[w].batch \cup worker[w].jobs : worker[w].run[j] \in 1..job'[j].runs
  BY <1>1
<1>. QED BY <1>2 DEF BatchOK, Pending

LEMMA BatchSettles ==
  ASSUME NEW w \in Worker, BatchOK(w), NEW c, NEW f, NEW d, Settles(w, c, f, d),
         \A j \in worker[w].batch \cup worker[w].jobs : job'[j].runs = job[j].runs,
         c \cup f \cup d \subseteq worker[w].batch, c \cap f = {}, c \cap d = {}, f \cap d = {}
  PROVE  BatchOK(w)'
BY DEF BatchOK, Settles, Pending

LEMMA BatchDrops ==
  ASSUME NEW w \in Worker, BatchOK(w), Drops(w),
         \A j \in worker[w].jobs : job'[j].runs = job[j].runs
  PROVE  BatchOK(w)'
BY DEF BatchOK, Drops, Pending

LEMMA BatchStep == IndInv /\ [Next]_vars => BatchInv'
<1>. SUFFICES ASSUME IndInv, [Next]_vars PROVE BatchInv' OBVIOUS
<1>0. TypeOK /\ BatchInv /\ TypeOK' BY TypeStep DEF IndInv
<1>. SUFFICES ASSUME NEW v \in Worker PROVE BatchOK(v)'
  BY DEF BatchOK, BatchInv, Pending
<1>1. BatchOK(v) BY <1>0 DEF BatchOK, BatchInv
<1>2. \A j \in Job : job[j].runs \in Nat BY <1>0 DEF TypeOK, JobRow
<1>3. CASE UNCHANGED <<job, worker>> BY <1>1, <1>3 DEF BatchOK, Pending
<1>4. ASSUME NEW w \in Worker, Fetch(w) PROVE BatchOK(v)'
  <2>1. PICK T \in SUBSET Waiting :
           /\ \A j \in Job : job'[j] = IF j \in T THEN Activated(job[j]) ELSE job[j]
           /\ Others(w)
           /\ worker[w].pc = "asking" /\ worker'[w].pc = "fetching"
           /\ worker'[w].batch = T /\ worker'[w].jobs = worker[w].jobs
           /\ worker'[w].complete = worker[w].complete
           /\ worker'[w].fail = worker[w].fail /\ worker'[w].dead = worker[w].dead
           /\ \A j \in Job : worker'[w].run[j] = IF j \in T THEN job[j].runs + 1 ELSE worker[w].run[j]
    BY <1>0, <1>4, FetchDoes
  <2>2. \A j \in Job : job'[j].runs = IF j \in T THEN job[j].runs + 1 ELSE job[j].runs
    BY <1>0, <2>1, ActivatedFields DEF TypeOK
  <2>3. \A j \in Job : job'[j].runs >= job[j].runs BY <1>2, <2>2
  <2>4. CASE v # w
    <3>1. worker'[v] = worker[v] BY <2>1, <2>4 DEF Others
    <3>. QED BY <1>0, <1>1, <2>3, <3>1, BatchKept
  <2>5. CASE v = w
    <3>1. Pending(w) = {} /\ Pending(w)' = {} BY <1>1, <2>1, <2>5 DEF BatchOK, Pending
    <3>2. ASSUME NEW j \in T \cup worker[w].jobs
          PROVE  worker'[w].run[j] \in 1..job'[j].runs
      <4>1. j \in Job BY <1>0, <3>2, BatchFields DEF Waiting
      <4>2. j \notin T => worker[w].run[j] \in 1..job[j].runs
        BY <1>1, <2>5, <3>2 DEF BatchOK
      <4>. QED BY <1>2, <2>1, <2>2, <4>1, <4>2
    <3>. QED BY <2>1, <2>5, <3>1, <3>2 DEF BatchOK, Pending
  <2>. QED BY <2>4, <2>5
<1>5. ASSUME NEW w \in Worker, Receive(w) PROVE BatchOK(v)'
  <2>1. CASE v # w
    <3>1. worker'[v] = worker[v] /\ job' = job BY <1>0, <1>5, <2>1, ReceiveDoes DEF Others
    <3>. QED BY <1>1, <3>1 DEF BatchOK, Pending
  <2>2. CASE v = w BY <1>0, <1>1, <1>5, <2>2, ReceiveDoes DEF BatchOK, Pending
  <2>. QED BY <2>1, <2>2
<1>6. ASSUME NEW w \in Worker, Others(w), \A j \in Job : job'[j].runs = job[j].runs, v # w
      PROVE  BatchOK(v)'
  <2>1. worker'[v] = worker[v] BY <1>6 DEF Others
  <2>. QED BY <1>0, <1>1, <1>2, <1>6, <2>1, BatchKept
<1>7. ASSUME NEW w \in Worker, TimesOut(w) \/ Abort(w) PROVE BatchOK(v)'
  <2>1. job' = job /\ (\/ worker' = worker \/ Settles(w, {}, worker[w].batch, {})
                       \/ Settles(w, worker[w].batch, {}, {}))
    BY <1>0, <1>7, TimesOutDoes, AbortDoes
  <2>2. CASE worker' = worker BY <1>3, <2>1, <2>2
  <2>3. CASE v # w BY <1>1, <1>3, <1>6, <2>1, <2>3 DEF Settles
  <2>4. CASE v = w BY <1>1, <1>3, <2>1, <2>4, BatchSettles
  <2>. QED BY <2>2, <2>3, <2>4
<1>8. ASSUME NEW w \in Worker, HandlerResolves(w) \/ HandlerRejects(w) PROVE BatchOK(v)'
  <2>1. PICK r \in [worker[w].batch -> Verdict \ {"none"}] :
          /\ job' = job
          /\ Settles(w, {j \in worker[w].batch : r[j] = "success"},
                        {j \in worker[w].batch : r[j] = "failure"},
                        {j \in worker[w].batch : r[j] = "deadletter"})
    BY <1>0, <1>8, HandlerDoes
  <2>2. CASE v # w BY <1>6, <2>1, <2>2 DEF Settles
  <2>3. CASE v = w BY <1>1, <2>1, <2>3, BatchSettles
  <2>. QED BY <2>2, <2>3
<1>9. ASSUME NEW w \in Worker, Issue(w) PROVE BatchOK(v)'
  <2>1. \A j \in Job : job'[j].runs = job[j].runs BY <1>0, <1>9, IssueDoes DEF Touches
  <2>2. \/ Settles(w, {}, worker[w].fail, worker[w].dead)
        \/ Settles(w, worker[w].complete, {}, worker[w].dead)
        \/ Settles(w, worker[w].complete, worker[w].fail, {})
    BY <1>0, <1>9, IssueDoes
  <2>3. CASE v # w BY <1>6, <2>1, <2>2, <2>3 DEF Settles
  <2>4. CASE v = w
    <3>1. \A j \in worker[w].batch \cup worker[w].jobs : job'[j].runs = job[j].runs
      BY <1>0, <2>1, BatchFields
    <3>2. /\ worker[w].complete \subseteq worker[w].batch
          /\ worker[w].fail \subseteq worker[w].batch /\ worker[w].dead \subseteq worker[w].batch
          /\ worker[w].complete \cap worker[w].fail = {}
          /\ worker[w].complete \cap worker[w].dead = {}
          /\ worker[w].fail \cap worker[w].dead = {}
      BY <1>1, <2>4 DEF BatchOK, Pending
    <3>. QED BY <1>1, <2>2, <2>4, <3>1, <3>2, BatchSettles
  <2>. QED BY <2>3, <2>4
<1>10. ASSUME NEW w \in Worker, IssueFails(w) PROVE BatchOK(v)'
  <2>1. \A j \in Job : job'[j].runs = job[j].runs BY <1>0, <1>10, IssueFailsDoes DEF Touches
  <2>2. Drops(w) \/ Settles(w, {}, worker[w].batch, {}) BY <1>0, <1>10, IssueFailsDoes
  <2>3. CASE v # w BY <1>6, <2>1, <2>2, <2>3 DEF Settles, Drops
  <2>4. CASE v = w BY <1>0, <1>1, <2>1, <2>2, <2>4, BatchSettles, BatchDrops, BatchFields
  <2>. QED BY <2>3, <2>4
<1>11. ASSUME NEW w \in Worker,
              Poll(w) \/ LoseReply(w) \/ FetchNothing(w) \/ Finish(w) \/ Stopped(w) \/ Crash(w)
       PROVE  BatchOK(v)'
  <2>1. job' = job /\ Drops(w) BY <1>0, <1>11, QuietDrops
  <2>2. CASE v # w BY <1>6, <2>1, <2>2 DEF Drops
  <2>3. CASE v = w BY <1>1, <2>1, <2>3, BatchDrops
  <2>. QED BY <2>2, <2>3
<1>12. ASSUME worker' = worker, \A j \in Job : job'[j].runs = job[j].runs PROVE BatchOK(v)'
  BY <1>0, <1>1, <1>2, <1>12, BatchKept
<1>13. ASSUME NEW w \in Worker, FailWip(w) PROVE BatchOK(v)'
  BY <1>0, <1>12, <1>13, FailWipDoes DEF Touches
<1>14. CASE Expire BY <1>0, <1>12, <1>14, ExpireDoes DEF Touches
<1>15. ASSUME NEW w \in Worker, Stop(w) PROVE BatchOK(v)' BY <1>3, <1>15 DEF Stop
<1>16. ASSUME NEW j \in Job, Elapse(j) PROVE BatchOK(v)' BY <1>3, <1>16 DEF Elapse
<1>17. ASSUME NEW w \in Worker, StrayEnds(w) PROVE BatchOK(v)' BY <1>3, <1>17 DEF StrayEnds
<1>. QED BY <1>3, <1>4, <1>5, <1>7, <1>8, <1>9, <1>10, <1>11, <1>13, <1>14, <1>15, <1>16, <1>17,
            Steps DEF vars

\* What happened stays: disturbances, verdicts, forced stops.
Grows ==
  /\ late \subseteq late' /\ lost \subseteq lost'
  /\ \A j \in Job, n \in Attempt : verdict[j][n] # "none" => verdict'[j][n] = verdict[j][n]
  /\ \A w \in Worker : stop[w] = "shut" => stop'[w] = "shut"

LEMMA StepGrows == IndInv /\ [Next]_vars => Grows
<1>. SUFFICES ASSUME IndInv, [Next]_vars PROVE Grows OBVIOUS
<1>0. TypeOK /\ VerdictsInv BY DEF IndInv
<1>1. CASE UNCHANGED <<verdict, stop>> /\ late \subseteq late' /\ lost \subseteq lost'
  BY <1>1 DEF Grows
<1>2. CASE UNCHANGED vars BY <1>1, <1>2 DEF vars
<1>3. ASSUME NEW w \in Worker,
             \/ Fetch(w) \/ Receive(w) \/ TimesOut(w) \/ Issue(w) \/ IssueFails(w)
             \/ Poll(w) \/ LoseReply(w) \/ FetchNothing(w) \/ Finish(w) \/ Stopped(w) \/ Crash(w)
             \/ StrayEnds(w)
      PROVE  Grows
  BY <1>1, <1>3 DEF Fetch, Receive, TimesOut, Issue, IssueFails, Poll, LoseReply, FetchNothing, Finish,
                    Stopped, Crash, StrayEnds
<1>4. ASSUME NEW w \in Worker, HandlerResolves(w) \/ HandlerRejects(w) PROVE Grows
  <2>1. PICK r \in [worker[w].batch -> Verdict \ {"none"}] :
          /\ worker[w].pc = "handling" /\ Judged(w, r) /\ UNCHANGED <<stop, late, lost>>
    BY <1>0, <1>4, HandlerDoes
  <2>2. ASSUME NEW j \in Job, NEW n \in Attempt, verdict[j][n] # "none"
        PROVE  verdict'[j][n] = verdict[j][n]
    <3>1. ~(j \in worker[w].batch /\ n = worker[w].run[j]) BY <1>0, <2>1, <2>2 DEF VerdictsInv
    <3>. QED BY <2>1, <3>1 DEF Judged
  <2>. QED BY <2>1, <2>2 DEF Grows
<1>5. ASSUME NEW w \in Worker, Stop(w) PROVE Grows
  BY <1>0, <1>5 DEF Stop, Grows, TypeOK
<1>6. ASSUME NEW w \in Worker, FailWip(w) PROVE Grows BY <1>0, <1>6, FailWipDoes DEF Grows
<1>7. ASSUME NEW w \in Worker, Abort(w) PROVE Grows BY <1>0, <1>7, AbortDoes DEF Grows
<1>8. ASSUME NEW j \in Job, Elapse(j) PROVE Grows BY <1>1, <1>8 DEF Elapse
<1>9. CASE Expire BY <1>1, <1>9 DEF Expire
<1>. QED BY <1>2, <1>3, <1>4, <1>5, <1>6, <1>7, <1>8, <1>9, Steps

LEMMA DisturbedGrows ==
  ASSUME Grows, NEW j \in Job, Disturbed(j) PROVE Disturbed(j)'
BY DEF Grows, Disturbed

LEMMA Disturbs ==
  ASSUME TypeOK, NEW j \in Job, NEW n, <<j, n>> \in late \cup lost PROVE Disturbed(j)
<1>1. n \in Attempt BY DEF TypeOK
<1>. QED BY <1>1 DEF Disturbed

LEMMA LosesDisturbs ==
  ASSUME TypeOK', NEW w \in Worker, NEW S \in SUBSET Job, AttemptsOf(w, S) \subseteq late' \cup lost',
         NEW j \in S
  PROVE  Disturbed(j)'
<1>1. <<j, worker[w].run[j]>> \in late' \cup lost' BY DEF AttemptsOf
<1>2. worker[w].run[j] \in Attempt BY <1>1 DEF TypeOK
<1>. QED BY <1>1, <1>2 DEF Disturbed

LEMMA ExpirableDisturbed ==
  ASSUME TypeOK, NEW j \in Expirable PROVE Disturbed(j)
BY Disturbs DEF Expirable, Active, Current

-----------------------------------------------------------------------------
(* Undisturbed jobs.                                                        *)

ClaimsOK(j) ==
  /\ \A w \in Worker : Claims(w, j) => job[j].state = "active"
  /\ \A v, w \in Worker : Claims(v, j) /\ Claims(w, j) => v = w

LEMMA ClaimsKept ==
  ASSUME NEW j \in Job, ClaimsOK(j), job'[j].state = job[j].state,
         \A w \in Worker : Claims(w, j)' => Claims(w, j)
  PROVE  ClaimsOK(j)'
BY DEF ClaimsOK

LEMMA ClaimsSame ==
  ASSUME NEW v \in Worker, NEW j, worker'[v] = worker[v] PROVE Claims(v, j)' <=> Claims(v, j)
BY DEF Claims, Pending

\* A worker that settles or drops its batch claims nothing it did not claim.
LEMMA ClaimsShrink ==
  ASSUME BatchInv, NEW w \in Worker, NEW j \in Job,
         \/ Drops(w)
         \/ \E c, f, d : /\ Settles(w, c, f, d)
                        /\ \/ worker[w].pc = "handling"
                           \/ c \cup f \cup d \subseteq Pending(w)
  PROVE  \A v \in Worker : Claims(v, j)' => Claims(v, j)
<1>. SUFFICES ASSUME NEW v \in Worker, Claims(v, j)' PROVE Claims(v, j) OBVIOUS
<1>1. CASE v # w BY <1>1, ClaimsSame DEF Drops, Settles, Others
<1>2. CASE v = w
  <2>1. ~Drops(w) BY <1>2 DEF Drops, Claims
  <2>2. PICK c, f, d : /\ Settles(w, c, f, d)
                       /\ worker[w].pc = "handling" \/ c \cup f \cup d \subseteq Pending(w)
    BY <2>1
  <2>3. j \in worker[w].batch /\ j \in c \cup f \cup d BY <1>2, <2>2 DEF Settles, Claims, Pending
  <2>. QED BY <1>2, <2>2, <2>3 DEF Claims
<1>. QED BY <1>1, <1>2

\* A row changes state only through the worker that claims it, which then has
\* settled it.
LEMMA ClaimsStep == IndInv /\ [Next]_vars => ClaimsInv'
<1>. SUFFICES ASSUME IndInv, [Next]_vars PROVE ClaimsInv' OBVIOUS
<1>0. TypeOK /\ TypeOK' /\ BatchInv /\ ClaimsInv /\ Grows BY TypeStep, StepGrows DEF IndInv
<1>. SUFFICES ASSUME NEW j \in Job, ~Disturbed(j)' PROVE ClaimsOK(j)'
  BY DEF ClaimsInv, ClaimsOK
<1>1. ~Disturbed(j) /\ ClaimsOK(j) BY <1>0, DisturbedGrows DEF ClaimsInv, ClaimsOK
<1>2. CASE UNCHANGED worker /\ job'[j].state = job[j].state
  <2>1. \A w \in Worker : Claims(w, j)' => Claims(w, j) BY <1>2, ClaimsSame
  <2>. QED BY <1>1, <1>2, <2>1, ClaimsKept
<1>3. ASSUME NEW w \in Worker, Fetch(w) PROVE ClaimsOK(j)'
  <2>1. PICK T \in SUBSET Waiting :
          /\ job'[j] = IF j \in T THEN Activated(job[j]) ELSE job[j]
          /\ Others(w) /\ worker'[w].batch = T
    BY <1>0, <1>3, FetchDoes
  <2>2. \A v \in Worker \ {w} : Claims(v, j)' <=> Claims(v, j) BY <2>1, ClaimsSame DEF Others
  <2>3. CASE j \in T
    <3>1. \A v \in Worker : ~Claims(v, j) BY <1>1, <2>3 DEF ClaimsOK, Waiting
    <3>2. job'[j].state = "active" BY <1>0, <2>1, <2>3, ActivatedFields DEF TypeOK
    <3>. QED BY <2>2, <3>1, <3>2 DEF ClaimsOK
  <2>4. CASE j \notin T
    <3>1. ~Claims(w, j)' BY <2>1, <2>4 DEF Claims
    <3>. QED BY <1>1, <2>1, <2>2, <2>4, <3>1, ClaimsKept
  <2>. QED BY <2>3, <2>4
<1>4. ASSUME NEW w \in Worker, Receive(w) PROVE ClaimsOK(j)'
  <2>1. Claims(w, j)' => Claims(w, j) BY <1>0, <1>4, ReceiveDoes DEF Claims
  <2>2. \A v \in Worker \ {w} : Claims(v, j)' => Claims(v, j)
    BY <1>0, <1>4, ReceiveDoes, ClaimsSame DEF Others
  <2>. QED BY <1>0, <1>1, <1>4, <2>1, <2>2, ReceiveDoes, ClaimsKept
<1>5. ASSUME NEW w \in Worker, TimesOut(w) PROVE ClaimsOK(j)'
  <2>1. \A v \in Worker : Claims(v, j)' => Claims(v, j) BY <1>0, <1>5, TimesOutDoes, ClaimsShrink
  <2>. QED BY <1>0, <1>1, <1>5, <2>1, TimesOutDoes, ClaimsKept
<1>6. ASSUME NEW w \in Worker, HandlerResolves(w) \/ HandlerRejects(w) PROVE ClaimsOK(j)'
  <2>1. \A v \in Worker : Claims(v, j)' => Claims(v, j) BY <1>0, <1>6, HandlerDoes, ClaimsShrink
  <2>2. job' = job BY <1>0, <1>6, HandlerDoes
  <2>. QED BY <1>1, <2>1, <2>2, ClaimsKept
<1>7. ASSUME NEW w \in Worker,
             Poll(w) \/ LoseReply(w) \/ FetchNothing(w) \/ Finish(w) \/ Stopped(w) \/ Crash(w)
      PROVE  ClaimsOK(j)'
  <2>1. Drops(w) /\ job' = job BY <1>0, <1>7, QuietDrops
  <2>2. \A v \in Worker : Claims(v, j)' => Claims(v, j) BY <1>0, <2>1, ClaimsShrink
  <2>. QED BY <1>1, <2>1, <2>2, ClaimsKept
<1>8. ASSUME NEW w \in Worker, Abort(w) PROVE ClaimsOK(j)'
  <2>1. CASE UNCHANGED worker BY <1>0, <1>2, <1>8, <2>1, AbortDoes
  <2>2. CASE ~UNCHANGED worker
    <3>1. \A v \in Worker : Claims(v, j)' => Claims(v, j)
      BY <1>0, <1>8, <2>2, AbortDoes, ClaimsShrink
    <3>. QED BY <1>0, <1>1, <1>8, <3>1, AbortDoes, ClaimsKept
  <2>. QED BY <2>1, <2>2
<1>9. ASSUME NEW w \in Worker, Issue(w) PROVE ClaimsOK(j)'
  <2>0. PICK c, f, d :
          /\ Settles(w, c, f, d) /\ c \cup f \cup d \subseteq Pending(w)
          /\ job'[j].state # job[j].state => j \in Pending(w) \ (c \cup f \cup d)
    <3>1. /\ worker[w].complete \cap worker[w].fail = {}
          /\ worker[w].complete \cap worker[w].dead = {}
          /\ worker[w].fail \cap worker[w].dead = {}
      BY <1>0 DEF BatchInv
    <3>. QED BY <1>0, <1>9, <3>1, IssueDoes DEF Touches, Pending
  <2>1. \A v \in Worker : Claims(v, j)' => Claims(v, j) BY <1>0, <2>0, ClaimsShrink
  <2>2. CASE job'[j].state = job[j].state BY <1>1, <2>1, <2>2, ClaimsKept
  <2>3. CASE job'[j].state # job[j].state
    <3>1. Claims(w, j) BY <1>0, <2>0, <2>3 DEF BatchInv, Claims
    <3>2. ~Claims(w, j)' BY <2>0, <2>3 DEF Settles, Claims, Pending
    <3>3. \A v \in Worker : ~Claims(v, j)' BY <1>1, <2>1, <3>1, <3>2 DEF ClaimsOK
    <3>. QED BY <3>3 DEF ClaimsOK
  <2>. QED BY <2>2, <2>3
<1>10. ASSUME NEW w \in Worker, IssueFails(w) PROVE ClaimsOK(j)'
  <2>1. j \notin worker[w].batch BY <1>0, <1>10, IssueFailsDoes, LosesDisturbs, BatchFields
  <2>2. job'[j].state = job[j].state
    <3>1. j \notin Pending(w) BY <1>0, <2>1 DEF BatchInv
    <3>. QED BY <1>0, <1>10, <3>1, IssueFailsDoes DEF Touches, Pending
  <2>3. Others(w) /\ worker'[w].batch \subseteq worker[w].batch
    BY <1>0, <1>10, IssueFailsDoes DEF Drops, Settles
  <2>4. \A v \in Worker : Claims(v, j)' => Claims(v, j)
    <3>1. ~Claims(w, j)' BY <2>1, <2>3 DEF Claims
    <3>. QED BY <2>3, <3>1, ClaimsSame DEF Others
  <2>. QED BY <1>1, <2>2, <2>4, ClaimsKept
<1>11. ASSUME NEW w \in Worker, FailWip(w) PROVE ClaimsOK(j)'
  <2>1. j \notin worker[w].jobs BY <1>0, <1>11, FailWipDoes, LosesDisturbs, BatchFields
  <2>2. UNCHANGED worker /\ job'[j].state = job[j].state
    BY <1>0, <1>11, <2>1, FailWipDoes DEF Touches
  <2>. QED BY <1>2, <2>2
<1>12. CASE Expire
  <2>1. j \notin Expirable BY <1>0, <1>1, ExpirableDisturbed
  <2>2. UNCHANGED worker /\ job'[j].state = job[j].state
    BY <1>0, <1>12, <2>1, ExpireDoes DEF Touches
  <2>. QED BY <1>2, <2>2
<1>13. ASSUME NEW w \in Worker, Stop(w) PROVE ClaimsOK(j)' BY <1>2, <1>13 DEF Stop
<1>14. ASSUME NEW i \in Job, Elapse(i) PROVE ClaimsOK(j)' BY <1>2, <1>14 DEF Elapse
<1>15. CASE UNCHANGED vars BY <1>2, <1>15 DEF vars
<1>16. ASSUME NEW w \in Worker, StrayEnds(w) PROVE ClaimsOK(j)' BY <1>2, <1>16 DEF StrayEnds
<1>. QED BY <1>3, <1>4, <1>5, <1>6, <1>7, <1>8, <1>9, <1>10, <1>11, <1>12, <1>13, <1>14, <1>15, <1>16,
            Steps

-----------------------------------------------------------------------------
(* Verdicts and causes.                                                     *)

VerdictsOK(j) ==
  /\ \A n \in Attempt : n > job[j].runs => verdict[j][n] = "none"
  /\ \A w \in Worker :
       j \in worker[w].batch /\ worker[w].pc \in {"fetching", "handling"} =>
         verdict[j][worker[w].run[j]] = "none"
  /\ \A v, w \in Worker :
       v # w /\ j \in worker[v].batch \cap worker[w].batch => worker[v].run[j] # worker[w].run[j]

\* w has no attempt of j in hand that it had not before.
Keeps(w, j) ==
  j \in worker'[w].batch =>
    /\ j \in worker[w].batch
    /\ worker'[w].run = worker[w].run
    /\ worker'[w].pc \in {"fetching", "handling"} => worker[w].pc \in {"fetching", "handling"}

LEMMA VerdictsKept ==
  ASSUME NEW j \in Job, VerdictsOK(j), job'[j].runs = job[j].runs, UNCHANGED verdict,
         \A w \in Worker : Keeps(w, j)
  PROVE  VerdictsOK(j)'
BY DEF VerdictsOK, Keeps

LEMMA MovesKeep ==
  ASSUME NEW w \in Worker, NEW j \in Job, Drops(w) \/ \E c, f, d : Settles(w, c, f, d)
  PROVE  \A v \in Worker : Keeps(v, j)
BY DEF Drops, Settles, Others, Keeps

\* A fetch begins an attempt nobody had; a verdict is given by the one worker
\* whose attempt it is.
LEMMA VerdictsStep == IndInv /\ [Next]_vars => VerdictsInv'
<1>. SUFFICES ASSUME IndInv, [Next]_vars PROVE VerdictsInv' OBVIOUS
<1>0. TypeOK /\ CountsInv /\ BatchInv /\ VerdictsInv BY DEF IndInv
<1>. SUFFICES ASSUME NEW j \in Job PROVE VerdictsOK(j)'
  BY DEF VerdictsInv, VerdictsOK
<1>1. VerdictsOK(j) BY <1>0 DEF VerdictsInv, VerdictsOK
<1>2. CASE UNCHANGED <<worker, verdict>> /\ job'[j].runs = job[j].runs
  BY <1>1, <1>2, VerdictsKept DEF Keeps
<1>3. ASSUME NEW w \in Worker, Fetch(w) PROVE VerdictsOK(j)'
  <2>1. PICK T \in SUBSET Waiting :
          /\ job'[j] = IF j \in T THEN Activated(job[j]) ELSE job[j]
          /\ Others(w) /\ worker'[w].batch = T
          /\ worker'[w].run[j] = IF j \in T THEN job[j].runs + 1 ELSE worker[w].run[j]
    BY <1>0, <1>3, FetchDoes
  <2>2. verdict' = verdict BY <1>3 DEF Fetch
  <2>3. job[j].runs \in Nat BY <1>0, BatchFields
  <2>4. \A v \in Worker \ {w} : worker'[v] = worker[v] BY <2>1 DEF Others
  <2>5. CASE j \in T
    <3>1. job'[j].runs = job[j].runs + 1 BY <1>0, <2>1, <2>5, ActivatedFields DEF TypeOK
    <3>2. job[j].runs + 1 \in Attempt BY <1>0, <2>3, <2>5, Constants DEF CountsInv, Waiting
    <3>3. \A n \in Attempt : n > job'[j].runs => verdict'[j][n] = "none"
      <4>. SUFFICES ASSUME NEW n \in Attempt, n > job'[j].runs PROVE verdict'[j][n] = "none"
        OBVIOUS
      <4>1. n > job[j].runs BY <2>3, <3>1, Constants
      <4>. QED BY <1>1, <2>2, <4>1 DEF VerdictsOK
    <3>4. verdict'[j][worker'[w].run[j]] = "none"
      <4>1. job[j].runs + 1 > job[j].runs BY <2>3
      <4>. QED BY <1>1, <2>1, <2>2, <2>5, <3>2, <4>1 DEF VerdictsOK
    <3>5. \A v \in Worker \ {w} : j \in worker[v].batch => worker[v].run[j] # worker'[w].run[j]
      <4>. SUFFICES ASSUME NEW v \in Worker \ {w}, j \in worker[v].batch
                    PROVE  worker[v].run[j] # worker'[w].run[j]
        OBVIOUS
      <4>1. worker[v].run[j] \in 1..job[j].runs BY <1>0 DEF BatchInv
      <4>. QED BY <2>1, <2>3, <2>5, <4>1
    <3>. QED BY <1>1, <2>2, <2>4, <3>3, <3>4, <3>5 DEF VerdictsOK
  <2>6. CASE j \notin T
    <3>1. \A v \in Worker : Keeps(v, j) BY <2>1, <2>4, <2>6 DEF Keeps
    <3>. QED BY <1>1, <2>1, <2>2, <2>6, <3>1, VerdictsKept
  <2>. QED BY <2>5, <2>6
<1>4. ASSUME NEW w \in Worker, Receive(w) PROVE VerdictsOK(j)'
  <2>1. \A v \in Worker : Keeps(v, j) BY <1>0, <1>4, ReceiveDoes DEF Keeps, Others
  <2>. QED BY <1>0, <1>1, <1>4, <2>1, ReceiveDoes, VerdictsKept
<1>5. ASSUME NEW w \in Worker, HandlerResolves(w) \/ HandlerRejects(w) PROVE VerdictsOK(j)'
  <2>1. PICK r \in [worker[w].batch -> Verdict \ {"none"}] :
          /\ worker[w].pc = "handling" /\ Judged(w, r) /\ job' = job
          /\ \E c, f, d : Settles(w, c, f, d)
    BY <1>0, <1>5, HandlerDoes
  <2>2. /\ worker'[w].pc = "settling" /\ worker'[w].batch = worker[w].batch
        /\ worker'[w].run = worker[w].run /\ Others(w)
    BY <2>1 DEF Settles
  <2>3. \A n \in Attempt : ~(j \in worker[w].batch /\ n = worker[w].run[j])
                           => verdict'[j][n] = verdict[j][n]
    BY <2>1 DEF Judged
  <2>4. \A n \in Attempt : n > job[j].runs => verdict'[j][n] = "none"
    <3>. SUFFICES ASSUME NEW n \in Attempt, n > job[j].runs PROVE verdict'[j][n] = "none"
      OBVIOUS
    <3>1. j \in worker[w].batch => worker[w].run[j] \in 1..job[j].runs BY <1>0 DEF BatchInv
    <3>2. ~(j \in worker[w].batch /\ n = worker[w].run[j])
      BY <1>0, <3>1, BatchFields, Constants
    <3>. QED BY <1>1, <2>3, <3>2 DEF VerdictsOK
  <2>5. ASSUME NEW v \in Worker, j \in worker'[v].batch, worker'[v].pc \in {"fetching", "handling"}
        PROVE  verdict'[j][worker'[v].run[j]] = "none"
    <3>1. v # w /\ worker'[v] = worker[v] BY <2>2, <2>5 DEF Others
    <3>2. worker[v].run[j] \in Attempt
      <4>1. worker[v].run[j] \in 1..job[j].runs BY <1>0, <2>5, <3>1 DEF BatchInv
      <4>. QED BY <1>0, <4>1, BatchFields, Constants DEF CountsInv
    <3>3. ~(j \in worker[w].batch /\ worker[v].run[j] = worker[w].run[j])
      BY <1>1, <2>5, <3>1 DEF VerdictsOK
    <3>. QED BY <1>1, <2>3, <2>5, <3>1, <3>2, <3>3 DEF VerdictsOK
  <2>6. \A v \in Worker : worker'[v].batch = worker[v].batch /\ worker'[v].run = worker[v].run
    BY <2>2 DEF Others
  <2>. QED BY <1>1, <2>1, <2>4, <2>5, <2>6 DEF VerdictsOK
<1>6. ASSUME NEW w \in Worker, Drops(w) \/ \E c, f, d : Settles(w, c, f, d), UNCHANGED verdict,
             job'[j].runs = job[j].runs
      PROVE  VerdictsOK(j)'
  BY <1>1, <1>6, MovesKeep, VerdictsKept
<1>7. ASSUME NEW w \in Worker, TimesOut(w) PROVE VerdictsOK(j)'
  BY <1>0, <1>6, <1>7, TimesOutDoes
<1>8. ASSUME NEW w \in Worker,
             Poll(w) \/ LoseReply(w) \/ FetchNothing(w) \/ Finish(w) \/ Stopped(w) \/ Crash(w)
      PROVE  VerdictsOK(j)'
  BY <1>0, <1>6, <1>8, QuietDrops
<1>9. ASSUME NEW w \in Worker, Abort(w) PROVE VerdictsOK(j)'
  BY <1>0, <1>2, <1>6, <1>9, AbortDoes
<1>10. ASSUME NEW w \in Worker, Issue(w) PROVE VerdictsOK(j)'
  BY <1>0, <1>6, <1>10, IssueDoes DEF Touches
<1>11. ASSUME NEW w \in Worker, IssueFails(w) PROVE VerdictsOK(j)'
  BY <1>0, <1>6, <1>11, IssueFailsDoes DEF Touches
<1>12. ASSUME NEW w \in Worker, FailWip(w) PROVE VerdictsOK(j)'
  BY <1>0, <1>2, <1>12, FailWipDoes DEF Touches
<1>13. CASE Expire BY <1>0, <1>2, <1>13, ExpireDoes DEF Touches
<1>14. ASSUME NEW w \in Worker, Stop(w) PROVE VerdictsOK(j)' BY <1>2, <1>14 DEF Stop
<1>15. ASSUME NEW i \in Job, Elapse(i) PROVE VerdictsOK(j)' BY <1>2, <1>15 DEF Elapse
<1>16. CASE UNCHANGED vars BY <1>2, <1>16 DEF vars
<1>17. ASSUME NEW w \in Worker, StrayEnds(w) PROVE VerdictsOK(j)' BY <1>2, <1>17 DEF StrayEnds
<1>. QED BY <1>3, <1>4, <1>5, <1>7, <1>8, <1>9, <1>10, <1>11, <1>12, <1>13, <1>14, <1>15, <1>16, <1>17,
            Steps

\* A step that abandons no handler and begins no attempt.
LEMMA StraysKept ==
  ASSUME StraysInv, Grows, StraysShrink, \A j \in Job : job'[j].runs = job[j].runs,
         \A j \in Job, v \in Worker : Keeps(v, j)
  PROVE  StraysInv'
<1>. SUFFICES ASSUME NEW w \in Worker, NEW j \in Job, NEW n \in Attempt, <<j, n>> \in strays'[w]
              PROVE  /\ <<j, n>> \in late' \cup lost'
                     /\ n <= job'[j].runs
                     /\ \A v \in Worker \ {w} :
                          <<j, n>> \notin strays'[v] /\ ~(j \in worker'[v].batch /\ worker'[v].run[j] = n)
  BY DEF StraysInv
<1>1. <<j, n>> \in strays[w] BY DEF StraysShrink
<1>2. /\ <<j, n>> \in late \cup lost /\ n <= job[j].runs
      /\ \A v \in Worker \ {w} :
           <<j, n>> \notin strays[v] /\ ~(j \in worker[v].batch /\ worker[v].run[j] = n)
  BY <1>1 DEF StraysInv
<1>3. <<j, n>> \in late' \cup lost' /\ n <= job'[j].runs BY <1>2 DEF Grows
<1>4. \A v \in Worker \ {w} : <<j, n>> \notin strays'[v] BY <1>2 DEF StraysShrink
<1>5. \A v \in Worker \ {w} : ~(j \in worker'[v].batch /\ worker'[v].run[j] = n)
  BY <1>2 DEF Keeps
<1>. QED BY <1>3, <1>4, <1>5

\* A handler is abandoned for the attempts its worker had, and nobody else has.
LEMMA StraysAbandoned ==
  ASSUME TypeOK, CountsInv, BatchInv, VerdictsInv, StraysInv, Grows, NEW w \in Worker,
         Abandons(w), \E c, f, d : Settles(w, c, f, d), UNCHANGED job,
         AttemptsOf(w, worker[w].batch) \subseteq late' \cup lost'
  PROVE  StraysInv'
<1>. SUFFICES ASSUME NEW u \in Worker, NEW j \in Job, NEW n \in Attempt, <<j, n>> \in strays'[u]
              PROVE  /\ <<j, n>> \in late' \cup lost'
                     /\ n <= job[j].runs
                     /\ \A v \in Worker \ {u} :
                          <<j, n>> \notin strays'[v] /\ ~(j \in worker'[v].batch /\ worker'[v].run[j] = n)
  BY DEF StraysInv
<1>1. \A v \in Worker : worker'[v].batch = worker[v].batch /\ worker'[v].run = worker[v].run
  BY DEF Settles, Others
<1>2. \A v \in Worker : strays'[v] = IF v = w THEN strays[v] \cup AttemptsOf(w, worker[w].batch)
                                     ELSE strays[v]
  BY DEF Abandons, TypeOK
<1>3. \A i \in Job : \A m : <<i, m>> \in AttemptsOf(w, worker[w].batch) =>
        i \in worker[w].batch /\ m = worker[w].run[i]
  BY DEF AttemptsOf
<1>4. CASE <<j, n>> \in strays[u]
  <2>1. <<j, n>> \in late \cup lost /\ n <= job[j].runs BY <1>4 DEF StraysInv
  <2>2. \A v \in Worker \ {u} :
          <<j, n>> \notin strays[v] /\ ~(j \in worker[v].batch /\ worker[v].run[j] = n)
    BY <1>4 DEF StraysInv
  <2>. QED BY <1>1, <1>2, <1>3, <2>1, <2>2 DEF Grows
<1>5. CASE <<j, n>> \notin strays[u]
  <2>1. u = w /\ j \in worker[w].batch /\ n = worker[w].run[j] /\ <<j, n>> \in late' \cup lost'
    BY <1>2, <1>3, <1>5
  <2>2. n <= job[j].runs
    <3>1. worker[w].run[j] \in 1..job[j].runs BY <2>1 DEF BatchInv
    <3>. QED BY <2>1, <3>1, BatchFields
  <2>3. \A v \in Worker \ {u} : ~(j \in worker[v].batch /\ worker[v].run[j] = n)
    BY <2>1 DEF VerdictsInv
  <2>4. \A v \in Worker \ {u} : <<j, n>> \notin strays[v] BY <2>1 DEF StraysInv
  <2>. QED BY <1>1, <1>2, <2>1, <2>2, <2>3, <2>4
<1>. QED BY <1>4, <1>5

\* A fetch begins attempts for which nobody was abandoned.
LEMMA StraysFetched ==
  ASSUME TypeOK, StraysInv, NEW w \in Worker, Fetch(w)
  PROVE  StraysInv'
<1>1. PICK T \in SUBSET Waiting :
        /\ \A j \in Job : job'[j] = IF j \in T THEN Activated(job[j]) ELSE job[j]
        /\ Others(w) /\ worker'[w].batch = T
        /\ \A j \in Job : worker'[w].run[j] = IF j \in T THEN job[j].runs + 1 ELSE worker[w].run[j]
  BY FetchDoes
<1>2. UNCHANGED <<late, lost, strays>> BY DEF Fetch
<1>. SUFFICES ASSUME NEW u \in Worker, NEW j \in Job, NEW n \in Attempt, <<j, n>> \in strays[u]
              PROVE  /\ <<j, n>> \in late \cup lost
                     /\ n <= job'[j].runs
                     /\ \A v \in Worker \ {u} :
                          <<j, n>> \notin strays[v] /\ ~(j \in worker'[v].batch /\ worker'[v].run[j] = n)
  BY <1>2 DEF StraysInv
<1>3. /\ <<j, n>> \in late \cup lost /\ n <= job[j].runs
      /\ \A v \in Worker \ {u} :
           <<j, n>> \notin strays[v] /\ ~(j \in worker[v].batch /\ worker[v].run[j] = n)
  BY DEF StraysInv
<1>4. job[j] \in JobRow /\ job[j].runs \in Nat /\ n \in Nat BY Constants DEF TypeOK, JobRow
<1>5. n <= job'[j].runs BY <1>1, <1>3, <1>4, ActivatedFields
<1>6. ASSUME NEW v \in Worker \ {u}, j \in worker'[v].batch PROVE worker'[v].run[j] # n
  <2>1. CASE v = w BY <1>1, <1>3, <1>4, <1>6, <2>1
  <2>2. CASE v # w BY <1>1, <1>3, <1>6, <2>2 DEF Others
  <2>. QED BY <2>1, <2>2
<1>. QED BY <1>3, <1>5, <1>6

LEMMA StraysStep == IndInv /\ [Next]_vars => StraysInv'
<1>. SUFFICES ASSUME IndInv, [Next]_vars PROVE StraysInv' OBVIOUS
<1>0. TypeOK /\ CountsInv /\ BatchInv /\ VerdictsInv /\ StraysInv /\ Grows BY StepGrows DEF IndInv
<1>1. CASE UNCHANGED worker /\ StraysShrink /\ \A j \in Job : job'[j].runs = job[j].runs
  BY <1>0, <1>1, StraysKept DEF Keeps
<1>2. CASE UNCHANGED <<job, worker, strays>> BY <1>1, <1>2 DEF StraysShrink
<1>3. ASSUME NEW w \in Worker, Drops(w) \/ \E c, f, d : Settles(w, c, f, d), StraysShrink,
             \A j \in Job : job'[j].runs = job[j].runs
      PROVE  StraysInv'
  BY <1>0, <1>3, MovesKeep, StraysKept
<1>4. ASSUME NEW w \in Worker, Fetch(w) PROVE StraysInv' BY <1>0, <1>4, StraysFetched
<1>5. ASSUME NEW w \in Worker, Receive(w) PROVE StraysInv'
  <2>1. \A j \in Job, v \in Worker : Keeps(v, j) BY <1>0, <1>5, ReceiveDoes DEF Keeps, Others
  <2>. QED BY <1>0, <1>5, <2>1, ReceiveDoes, StraysKept DEF StraysShrink
<1>6. ASSUME NEW w \in Worker, TimesOut(w) PROVE StraysInv'
  BY <1>0, <1>6, TimesOutDoes, StraysAbandoned
<1>7. ASSUME NEW w \in Worker, Abort(w) PROVE StraysInv'
  <2>1. CASE UNCHANGED <<worker, strays>> BY <1>0, <1>2, <1>7, <2>1, AbortDoes
  <2>2. CASE ~UNCHANGED <<worker, strays>>
    BY <1>0, <1>7, <2>2, AbortDoes, StraysAbandoned
  <2>. QED BY <2>1, <2>2
<1>8. ASSUME NEW w \in Worker, HandlerResolves(w) \/ HandlerRejects(w) PROVE StraysInv'
  <2>1. UNCHANGED <<job, strays>> /\ \E c, f, d : Settles(w, c, f, d) BY <1>0, <1>8, HandlerDoes
  <2>. QED BY <1>3, <2>1 DEF StraysShrink
<1>9. ASSUME NEW w \in Worker, Issue(w) PROVE StraysInv'
  BY <1>0, <1>3, <1>9, IssueDoes DEF Touches, StraysShrink
<1>10. ASSUME NEW w \in Worker, IssueFails(w) PROVE StraysInv'
  BY <1>0, <1>3, <1>10, IssueFailsDoes DEF Touches, StraysShrink
<1>11. ASSUME NEW w \in Worker,
              Poll(w) \/ LoseReply(w) \/ FetchNothing(w) \/ Finish(w) \/ Stopped(w) \/ Crash(w)
       PROVE  StraysInv'
  BY <1>0, <1>3, <1>11, QuietDrops
<1>12. ASSUME NEW w \in Worker, StrayEnds(w) PROVE StraysInv'
  BY <1>0, <1>1, <1>12 DEF StrayEnds, StraysShrink, TypeOK
<1>13. ASSUME NEW w \in Worker, FailWip(w) PROVE StraysInv'
  BY <1>0, <1>1, <1>13, FailWipDoes DEF Touches, StraysShrink
<1>14. CASE Expire BY <1>0, <1>1, <1>14, ExpireDoes DEF Touches, StraysShrink
<1>15. ASSUME NEW w \in Worker, Stop(w) PROVE StraysInv' BY <1>2, <1>15 DEF Stop
<1>16. ASSUME NEW i \in Job, Elapse(i) PROVE StraysInv' BY <1>2, <1>16 DEF Elapse
<1>17. CASE UNCHANGED vars BY <1>2, <1>17 DEF vars
<1>. QED BY <1>4, <1>5, <1>6, <1>7, <1>8, <1>9, <1>10, <1>11, <1>12, <1>13, <1>14, <1>15, <1>16, <1>17,
            Steps

LEMMA CausesGrow ==
  ASSUME Grows, NEW j \in Job
  PROVE  /\ FailureCaused(j) => FailureCaused(j)'
         /\ SuccessCaused(j) => SuccessCaused(j)'
<1>1. FailureCaused(j) => FailureCaused(j)' BY DisturbedGrows DEF Grows, FailureCaused
<1>2. SuccessCaused(j) => SuccessCaused(j)' BY DEF Grows, SuccessCaused
<1>. QED BY <1>1, <1>2

CausesOK(w) ==
  /\ \A j \in worker[w].fail \cup worker[w].dead : FailureCaused(j)
  /\ \A j \in worker[w].complete : SuccessCaused(j)

LEMMA CausesKept ==
  ASSUME TypeOK, Grows, NEW w \in Worker, CausesOK(w),
         worker'[w].fail \subseteq worker[w].fail, worker'[w].dead \subseteq worker[w].dead,
         worker'[w].complete \subseteq worker[w].complete
  PROVE  CausesOK(w)'
BY CausesGrow, BatchFields DEF CausesOK

LEMMA CausesStep == IndInv /\ [Next]_vars => CausesInv'
<1>. SUFFICES ASSUME IndInv, [Next]_vars PROVE CausesInv' OBVIOUS
<1>0. TypeOK /\ TypeOK' /\ CountsInv /\ BatchInv /\ CausesInv /\ Grows
  BY TypeStep, StepGrows DEF IndInv
<1>. SUFFICES ASSUME NEW v \in Worker PROVE CausesOK(v)' BY DEF CausesInv, CausesOK
<1>1. CausesOK(v) BY <1>0 DEF CausesInv, CausesOK
<1>2. CASE worker'[v] = worker[v] BY <1>0, <1>1, <1>2, CausesKept
<1>3. ASSUME NEW w \in Worker, Others(w), v # w PROVE CausesOK(v)' BY <1>2, <1>3 DEF Others
<1>4. ASSUME NEW w \in Worker, Fetch(w) \/ Receive(w) PROVE CausesOK(v)'
  <2>1. /\ Others(w) /\ worker'[w].complete = worker[w].complete
        /\ worker'[w].fail = worker[w].fail /\ worker'[w].dead = worker[w].dead
    BY <1>0, <1>4, FetchDoes, ReceiveDoes
  <2>. QED BY <1>0, <1>1, <1>3, <2>1, CausesKept
<1>5. ASSUME NEW w \in Worker,
             Poll(w) \/ LoseReply(w) \/ FetchNothing(w) \/ Finish(w) \/ Stopped(w) \/ Crash(w)
      PROVE  CausesOK(v)'
  <2>1. Drops(w) BY <1>0, <1>5, QuietDrops
  <2>. QED BY <1>0, <1>1, <1>3, <2>1, CausesKept DEF Drops
<1>6. ASSUME NEW w \in Worker, Issue(w) PROVE CausesOK(v)'
  <2>1. \/ Settles(w, {}, worker[w].fail, worker[w].dead)
        \/ Settles(w, worker[w].complete, {}, worker[w].dead)
        \/ Settles(w, worker[w].complete, worker[w].fail, {})
    BY <1>0, <1>6, IssueDoes
  <2>. QED BY <1>0, <1>1, <1>3, <2>1, CausesKept DEF Settles
\* The whole batch is failed, and every attempt in it is disturbed.
<1>7. ASSUME NEW w \in Worker, Settles(w, {}, worker[w].batch, {}),
             AttemptsOf(w, worker[w].batch) \subseteq late' \cup lost'
      PROVE  CausesOK(v)'
  <2>1. CASE v # w BY <1>3, <1>7, <2>1 DEF Settles
  <2>2. CASE v = w
    <3>1. \A j \in worker[w].batch : Disturbed(j)' BY <1>0, <1>7, LosesDisturbs, BatchFields
    <3>. QED BY <1>7, <2>2, <3>1 DEF Settles, CausesOK, FailureCaused
  <2>. QED BY <2>1, <2>2
<1>8. ASSUME NEW w \in Worker, TimesOut(w) PROVE CausesOK(v)'
  BY <1>0, <1>7, <1>8, TimesOutDoes
<1>9. ASSUME NEW w \in Worker, IssueFails(w) PROVE CausesOK(v)'
  <2>1. CASE Drops(w) BY <1>0, <1>1, <1>3, <2>1, CausesKept DEF Drops
  <2>2. CASE Settles(w, {}, worker[w].batch, {}) BY <1>0, <1>7, <1>9, <2>2, IssueFailsDoes
  <2>. QED BY <1>0, <1>9, <2>1, <2>2, IssueFailsDoes
<1>10. ASSUME NEW w \in Worker, Abort(w) PROVE CausesOK(v)'
  <2>1. CASE UNCHANGED worker BY <1>2, <2>1
  <2>2. CASE Settles(w, {}, worker[w].batch, {}) /\ ~UNCHANGED worker
    BY <1>0, <1>7, <1>10, <2>2, AbortDoes
  <2>3. CASE Settles(w, worker[w].batch, {}, {})
    <3>1. stop'[w] = "shut" BY <1>0, <1>10, AbortDoes
    <3>. QED BY <1>3, <2>3, <3>1 DEF Settles, CausesOK, SuccessCaused
  <2>. QED BY <1>0, <1>10, <2>1, <2>2, <2>3, AbortDoes
<1>11. ASSUME NEW w \in Worker, HandlerResolves(w) \/ HandlerRejects(w) PROVE CausesOK(v)'
  <2>1. PICK r \in [worker[w].batch -> Verdict \ {"none"}] :
          /\ Judged(w, r)
          /\ Settles(w, {j \in worker[w].batch : r[j] = "success"},
                        {j \in worker[w].batch : r[j] = "failure"},
                        {j \in worker[w].batch : r[j] = "deadletter"})
    BY <1>0, <1>11, HandlerDoes
  <2>2. CASE v # w BY <1>3, <2>1, <2>2 DEF Settles
  <2>3. CASE v = w
    <3>1. ASSUME NEW j \in worker[w].batch
          PROVE  worker[w].run[j] \in Attempt /\ verdict'[j][worker[w].run[j]] = r[j]
      <4>1. j \in Job /\ worker[w].run[j] \in 1..job[j].runs BY <1>0, BatchFields DEF BatchInv
      <4>2. worker[w].run[j] \in Attempt BY <1>0, <4>1, BatchFields, Constants DEF CountsInv
      <4>. QED BY <2>1, <4>1, <4>2 DEF Judged
    <3>2. \A j \in worker[w].batch :
            /\ r[j] \in {"failure", "deadletter"} => FailureCaused(j)'
            /\ r[j] = "success" => SuccessCaused(j)'
      BY <3>1 DEF FailureCaused, SuccessCaused
    <3>. QED BY <2>1, <2>3, <3>2 DEF Settles, CausesOK
  <2>. QED BY <2>2, <2>3
<1>12. ASSUME NEW w \in Worker, Stop(w) \/ FailWip(w) \/ StrayEnds(w) PROVE UNCHANGED worker
  BY <1>12 DEF Stop, FailWip, StrayEnds
<1>13. ASSUME NEW j \in Job, Elapse(j) PROVE UNCHANGED worker BY <1>13 DEF Elapse
<1>14. CASE Expire BY <1>2, <1>14 DEF Expire
<1>15. CASE UNCHANGED vars BY <1>2, <1>15 DEF vars
<1>. QED BY <1>2, <1>4, <1>5, <1>6, <1>8, <1>9, <1>10, <1>11, <1>12, <1>13, <1>14, <1>15, Steps

LEMMA OutcomeStep == IndInv /\ [Next]_vars => OutcomeExplained'
<1>. SUFFICES ASSUME IndInv, [Next]_vars PROVE OutcomeExplained' OBVIOUS
<1>0. TypeOK /\ TypeOK' /\ BatchInv /\ CausesInv /\ OutcomeExplained /\ Grows
  BY TypeStep, StepGrows DEF IndInv
<1>. SUFFICES ASSUME NEW j \in Job
              PROVE  /\ job'[j].state = "failed" => FailureCaused(j)'
                     /\ job'[j].state = "completed" => SuccessCaused(j)'
  BY DEF OutcomeExplained
<1>1. CASE job'[j].state = job[j].state BY <1>0, <1>1, CausesGrow DEF OutcomeExplained
<1>2. ASSUME NEW w \in Worker, Fetch(w) PROVE job'[j].state \notin {"failed", "completed"} \/ job' [j] = job[j]
  BY <1>0, <1>2, FetchDoes, ActivatedFields DEF TypeOK
<1>3. ASSUME NEW w \in Worker, Issue(w) \/ IssueFails(w), job'[j].state # job[j].state
      PROVE  /\ job'[j].state = "failed" => FailureCaused(j)
             /\ job'[j].state = "completed" => SuccessCaused(j)
  BY <1>0, <1>3, IssueDoes, IssueFailsDoes DEF Touches, CausesInv
<1>4. ASSUME NEW w \in Worker, FailWip(w), job'[j].state # job[j].state
      PROVE  Disturbed(j)' /\ job'[j].state # "completed"
  <2>1. j \in worker[w].jobs /\ job'[j].state # "completed" BY <1>0, <1>4, FailWipDoes DEF Touches
  <2>. QED BY <1>0, <1>4, <2>1, FailWipDoes, LosesDisturbs, BatchFields
<1>5. ASSUME Expire, job'[j].state # job[j].state
      PROVE  Disturbed(j)' /\ job'[j].state # "completed"
  <2>1. j \in Expirable /\ job'[j].state # "completed" BY <1>0, <1>5, ExpireDoes DEF Touches
  <2>. QED BY <1>0, <2>1, ExpirableDisturbed, DisturbedGrows
<1>6. ASSUME NEW w \in Worker,
             \/ Receive(w) \/ TimesOut(w) \/ HandlerResolves(w) \/ HandlerRejects(w)
             \/ Poll(w) \/ LoseReply(w) \/ FetchNothing(w) \/ Finish(w) \/ Stopped(w) \/ Crash(w)
             \/ Stop(w) \/ Abort(w) \/ StrayEnds(w)
      PROVE  UNCHANGED job
  BY <1>6 DEF Receive, TimesOut, HandlerResolves, HandlerRejects, Poll, LoseReply, FetchNothing,
              Finish, Stopped, Crash, Stop, Abort, StrayEnds
<1>7. ASSUME NEW i \in Job, Elapse(i) PROVE UNCHANGED job BY <1>7 DEF Elapse
<1>8. CASE job'[j].state # job[j].state
  <2>1. CASE \E w \in Worker : Issue(w) \/ IssueFails(w) BY <1>0, <1>3, <1>8, <2>1, CausesGrow
  <2>2. CASE \E w \in Worker : FailWip(w) BY <1>4, <1>8, <2>2 DEF FailureCaused
  <2>3. CASE Expire BY <1>5, <1>8, <2>3 DEF FailureCaused
  <2>4. CASE \E w \in Worker : Fetch(w) BY <1>2, <1>8, <2>4
  <2>. QED BY <1>6, <1>7, <1>8, <2>1, <2>2, <2>3, <2>4, Steps DEF vars
<1>. QED BY <1>1, <1>8

-----------------------------------------------------------------------------
(* Theorems.                                                                *)

LEMMA InitInv == Init => IndInv
<1>. SUFFICES ASSUME Init PROVE IndInv OBVIOUS
<1>1. Idle("polling") \in WorkerState /\ Idle("polling").run = [j \in Job |-> 0]
      /\ Idle("polling").pc = "polling" /\ Idle("polling").jobs = {} /\ Idle("polling").batch = {}
      /\ Idle("polling").complete = {} /\ Idle("polling").fail = {} /\ Idle("polling").dead = {}
  BY DEF Idle, WorkerState
<1>2. TypeOK BY <1>1, Constants DEF Init, TypeOK, JobRow, StopState, Verdict
<1>3. CountsInv BY Constants DEF Init, CountsInv
<1>4. BatchInv BY <1>1 DEF Init, BatchInv, Pending
<1>5. ClaimsInv BY <1>1 DEF Init, ClaimsInv, Claims
<1>6. VerdictsInv BY <1>1 DEF Init, VerdictsInv
<1>7. CausesInv BY <1>1 DEF Init, CausesInv
<1>8. OutcomeExplained BY DEF Init, OutcomeExplained
<1>9. StraysInv BY DEF Init, StraysInv
<1>. QED BY <1>2, <1>3, <1>4, <1>5, <1>6, <1>7, <1>8, <1>9 DEF IndInv

\* The inductive invariant of Processing.
THEOREM ProcessingInvariance == Spec => []IndInv
<1>1. IndInv /\ [Next]_vars => IndInv'
  BY TypeStep, CountsStep, BatchStep, ClaimsStep, VerdictsStep, CausesStep, StraysStep,
     OutcomeStep DEF IndInv
<1>. QED BY InitInv, <1>1, PTL DEF Spec

\* Every variable has its type; in particular no more verdicts, deadlines or
\* losses than retry_limit + 1 attempts of a job.
THEOREM ProcessingTypeCorrect == Spec => []TypeOK
<1>1. IndInv => TypeOK BY DEF IndInv
<1>. QED BY <1>1, ProcessingInvariance, PTL

\* No job is fetched more than retry_limit + 1 times.
THEOREM RunsAreBounded == Spec => []RunsBounded
<1>1. IndInv => RunsBounded BY DEF IndInv, CountsInv, RunsBounded
<1>. QED BY <1>1, ProcessingInvariance, PTL

\* Two handlers run for a job only if one of its attempts ran late or was lost.
THEOREM OverlapsAreExplained == Spec => []OverlapExplained
<1>1. IndInv => OverlapExplained
  <2>. SUFFICES ASSUME IndInv, NEW v \in Worker, NEW w \in Worker, NEW j \in Job,
                       NEW m \in Attempt, NEW n \in Attempt,
                       Runs(v, j, m), Runs(w, j, n), <<v, m>> # <<w, n>>
                PROVE  Disturbed(j)
    BY DEF OverlapExplained
  <2>1. CASE <<j, m>> \in strays[v] BY <2>1 DEF IndInv, StraysInv, Disturbed
  <2>2. CASE <<j, n>> \in strays[w] BY <2>2 DEF IndInv, StraysInv, Disturbed
  <2>3. CASE Waits(v, j, m) /\ Waits(w, j, n)
    <3>1. v # w BY <2>3 DEF Waits
    <3>. QED BY <2>3, <3>1 DEF IndInv, ClaimsInv, Waits, Claims
  <2>. QED BY <2>1, <2>2, <2>3 DEF Runs
<1>. QED BY <1>1, ProcessingInvariance, PTL

\* Failed and completed jobs have a cause among the handlers and disturbances.
THEOREM OutcomesAreExplained == Spec => []OutcomeExplained
<1>1. IndInv => OutcomeExplained BY DEF IndInv
<1>. QED BY <1>1, ProcessingInvariance, PTL
-----------------------------------------------------------------------------
(* Every job moves towards its end: the part of AllSettle that needs no     *)
(* fairness.                                                                *)

\* How many fetches and settlements a row may still go through.
Rank(r) ==
  CASE r.state \in {"created", "retry"} -> 2 * (RetryLimit - r.runs) + 2
    [] r.state = "active"               -> 2 * (RetryLimit + 1 - r.runs) + 1
    [] OTHER                            -> 0

\* A step takes a job nearer to its end or leaves it where it is; a fail() that
\* comes late may name a waiting job, and leaves it waiting.
NearerTheEnd(j) ==
  \/ Rank(job'[j]) < Rank(job[j])
  \/ job'[j] = job[j]
  \/ job[j].state = "created" /\ job'[j] = [job[j] EXCEPT !.state = "retry"]

MovesForward == \A j \in Job : Rank(job[j]) \in Nat /\ NearerTheEnd(j)

LEMMA RankOf ==
  ASSUME TypeOK, CountsInv, NEW j \in Job
  PROVE  /\ Rank(job[j]) \in Nat
         /\ job[j].state \in {"created", "retry"} => Rank(job[j]) = 2 * (RetryLimit - job[j].runs) + 2
         /\ job[j].state = "active" => Rank(job[j]) = 2 * (RetryLimit + 1 - job[j].runs) + 1
         /\ job[j].state \in {"completed", "failed"} => Rank(job[j]) = 0
         /\ job[j].state \in {"created", "retry", "active"} => Rank(job[j]) > 0
<1>1. /\ job[j].runs \in Nat /\ job[j].runs <= RetryLimit + 1
      /\ job[j].state \in {"created", "retry"} => job[j].runs <= RetryLimit
      /\ job[j].state \in {"created", "retry", "active", "completed", "failed"}
  BY DEF TypeOK, JobRow, CountsInv
<1>2. CASE job[j].state \in {"created", "retry"}
  <2>1. Rank(job[j]) = 2 * (RetryLimit - job[j].runs) + 2 BY <1>2 DEF Rank
  <2>. QED BY <1>1, <1>2, <2>1, Constants
<1>3. CASE job[j].state = "active"
  <2>1. Rank(job[j]) = 2 * (RetryLimit + 1 - job[j].runs) + 1 BY <1>3 DEF Rank
  <2>. QED BY <1>1, <1>3, <2>1, Constants
<1>4. CASE job[j].state \in {"completed", "failed"}
  <2>1. Rank(job[j]) = 0 BY <1>4 DEF Rank
  <2>. QED BY <1>4, <2>1, Constants
<1>. QED BY <1>1, <1>2, <1>3, <1>4

LEMMA NearerSame == ASSUME UNCHANGED job, NEW j \in Job PROVE NearerTheEnd(j)
BY DEF NearerTheEnd

\* A row that is fetched has used up its wait,
LEMMA NearerFetched ==
  ASSUME IndInv, IndInv', NEW w \in Worker, Fetch(w), NEW j \in Job
  PROVE  NearerTheEnd(j)
<1>0. TypeOK /\ CountsInv /\ TypeOK' /\ CountsInv' BY DEF IndInv
<1>1. PICK T \in SUBSET Waiting :
        \A i \in Job : job'[i] = IF i \in T THEN Activated(job[i]) ELSE job[i]
  BY <1>0, FetchDoes
<1>2. CASE j \notin T BY <1>1, <1>2 DEF NearerTheEnd
<1>3. CASE j \in T
  <2>1. job[j].state \in {"created", "retry"} BY <1>3 DEF Waiting
  <2>2. job'[j].state = "active" /\ job'[j].runs = job[j].runs + 1
    BY <1>0, <1>1, <1>3, ActivatedFields DEF TypeOK
  <2>3. Rank(job[j]) = 2 * (RetryLimit - job[j].runs) + 2 BY <1>0, <2>1, RankOf
  <2>4. Rank(job'[j]) = 2 * (RetryLimit + 1 - job'[j].runs) + 1
    BY <2>2 DEF Rank
  <2>5. job[j].runs \in Nat BY <1>0 DEF TypeOK, JobRow
  <2>6. Rank(job'[j]) < Rank(job[j]) BY <2>2, <2>3, <2>4, <2>5, Constants
  <2>. QED BY <2>6 DEF NearerTheEnd
<1>. QED BY <1>2, <1>3

\* and a row that a statement settles or puts back its attempt, whoever sent it.
LEMMA NearerTouched ==
  ASSUME IndInv, IndInv', NEW S, NEW states \in SUBSET {"retry", "completed", "failed"},
         Touches(S, states), NEW j \in Job
  PROVE  NearerTheEnd(j)
<1>0. TypeOK /\ CountsInv /\ TypeOK' /\ CountsInv' BY DEF IndInv
<1>1. /\ job[j] \in JobRow /\ job'[j] \in JobRow
      /\ job'[j].runs = job[j].runs /\ job'[j].retries = job[j].retries
      /\ job[j].runs \in Nat
  BY <1>0 DEF TypeOK, JobRow, Touches
<1>2. CASE job'[j].state = job[j].state
  <2>1. job'[j] = job[j] BY <1>1, <1>2 DEF JobRow
  <2>. QED BY <2>1 DEF NearerTheEnd
<1>3. CASE job'[j].state # job[j].state
  <2>1. /\ job[j].state \in {"created", "retry", "active"}
        /\ job'[j].state \in {"retry", "completed", "failed"}
    BY <1>3 DEF Touches
  <2>2. CASE job'[j].state \in {"completed", "failed"}
    <3>1. Rank(job'[j]) = 0 BY <2>2 DEF Rank
    <3>2. Rank(job[j]) > 0 BY <1>0, <2>1, RankOf
    <3>. QED BY <3>1, <3>2 DEF NearerTheEnd
  <2>3. CASE job'[j].state = "retry" /\ job[j].state = "active"
    <3>1. Rank(job'[j]) = 2 * (RetryLimit - job'[j].runs) + 2 BY <2>3 DEF Rank
    <3>2. Rank(job[j]) = 2 * (RetryLimit + 1 - job[j].runs) + 1 BY <1>0, <2>3, RankOf
    <3>3. Rank(job'[j]) < Rank(job[j]) BY <1>1, <3>1, <3>2, Constants
    <3>. QED BY <3>3 DEF NearerTheEnd
  <2>4. CASE job'[j].state = "retry" /\ job[j].state = "created"
    <3>1. job'[j] = [job[j] EXCEPT !.state = "retry"] BY <1>1, <2>4 DEF JobRow
    <3>. QED BY <2>4, <3>1 DEF NearerTheEnd
  <2>. QED BY <1>3, <2>1, <2>2, <2>3, <2>4
<1>. QED BY <1>2, <1>3

LEMMA NearerStep ==
  ASSUME IndInv, IndInv', [Next]_vars, NEW j \in Job
  PROVE  NearerTheEnd(j)
<1>0. TypeOK BY DEF IndInv
<1>. DEFINE States == SUBSET {"retry", "completed", "failed"}
<1>t. {} \in States /\ {"completed"} \in States /\ {"retry", "failed"} \in States OBVIOUS
<1>1. ASSUME NEW S, NEW states \in States, Touches(S, states) PROVE NearerTheEnd(j)
  BY <1>1, NearerTouched
<1>. HIDE DEF States
<1>2. ASSUME NEW w \in Worker, Issue(w) PROVE NearerTheEnd(j)
  BY <1>0, <1>t, <1>1, <1>2, IssueDoes
<1>3. ASSUME NEW w \in Worker, IssueFails(w) PROVE NearerTheEnd(j)
  BY <1>0, <1>t, <1>1, <1>3, IssueFailsDoes
<1>4. ASSUME NEW w \in Worker, FailWip(w) PROVE NearerTheEnd(j)
  BY <1>0, <1>t, <1>1, <1>4, FailWipDoes
<1>5. CASE Expire BY <1>0, <1>t, <1>1, <1>5, ExpireDoes
<1>6. ASSUME NEW w \in Worker, Fetch(w) PROVE NearerTheEnd(j) BY <1>6, NearerFetched
<1>7. ASSUME NEW w \in Worker,
             \/ Receive(w) \/ TimesOut(w) \/ HandlerResolves(w) \/ HandlerRejects(w)
             \/ Poll(w) \/ LoseReply(w) \/ FetchNothing(w) \/ Finish(w) \/ Stopped(w) \/ Crash(w)
             \/ Stop(w) \/ Abort(w) \/ StrayEnds(w)
      PROVE  UNCHANGED job
  BY <1>7 DEF Receive, TimesOut, HandlerResolves, HandlerRejects, Poll, LoseReply, FetchNothing,
              Finish, Stopped, Crash, Stop, Abort, StrayEnds
<1>8. ASSUME NEW i \in Job, Elapse(i) PROVE UNCHANGED job BY <1>8 DEF Elapse
<1>9. CASE UNCHANGED job BY <1>9, NearerSame
<1>. QED BY <1>2, <1>3, <1>4, <1>5, <1>6, <1>7, <1>8, <1>9, Steps DEF vars

\* No job is processed for ever, and none comes back once it is settled: whatever
\* workers, supervisors and late or repeated statements do, each change of a row uses
\* up one of the 2 * (retry_limit + 1) moves it begins with (failJobs, fetchNextJob).
THEOREM JobsMoveForward == Spec => [][MovesForward]_vars
<1>1. IndInv /\ IndInv' /\ [Next]_vars => MovesForward
  <2>. SUFFICES ASSUME IndInv, IndInv', [Next]_vars, NEW j \in Job
                PROVE  Rank(job[j]) \in Nat /\ NearerTheEnd(j)
    BY DEF MovesForward
  <2>1. TypeOK /\ CountsInv BY DEF IndInv
  <2>. QED BY <2>1, RankOf, NearerStep
<1>. QED BY <1>1, ProcessingInvariance, PTL DEF Spec
=============================================================================
