---------------------------- MODULE OrderlyProofs ----------------------------
(***************************************************************************)
(* What Processing keeps when it is orderly: workers settle late attempts  *)
(* before the supervisor does, stops are not forced, and the statements    *)
(* that may fail are not those of a worker with perJobResults.             *)
(*                                                                         *)
(* A claim then stands for the current attempt of an active job, and for   *)
(* one worker; the one exception is a job that was completed by a          *)
(* statement whose reply was lost, which the catch block fails in vain.    *)
(* A worker therefore never waits for a job another one waits for, and     *)
(* every statement means what Attempts lets it mean.                       *)
(***************************************************************************)
EXTENDS ProcessingProofs

\* What is assumed of the constants; run orderly is an instance.
Orderly == TimersFirst /\ ~ForcedStops /\ PerJobResults \cap Unreliable = {}

\* Nobody is told to abort.
GracefulInv == \A w \in Worker : stop[w] \in {"running", "stopping"}

\* The statements of an unreliable worker are those of the catch block, or one
\* that completes its whole batch.
WholeOK(w) ==
  worker[w].pc = "settling" /\ ~worker[w].catching =>
    /\ worker[w].fail = {} /\ worker[w].dead = {}
    /\ worker[w].complete \in {{}, worker[w].batch}
WholeInv == \A w \in Unreliable : WholeOK(w)

\* An attempt is late or lost only after it began.
PastInv == \A j \in Job, n \in Attempt : <<j, n>> \in late \cup lost => n <= job[j].runs

\* A claim is for the current attempt and exclusive, or for a completed job.
OnceOK(j) ==
  \A w \in Worker : Claims(w, j) =>
    \/ /\ job[j].state = "active" /\ worker[w].run[j] = job[j].runs
       /\ \A v \in Worker : Claims(v, j) => v = w
    \/ job[j].state = "completed" /\ worker[w].pc = "settling"
OnceInv == \A j \in Job : OnceOK(j)

\* A statement to be issued follows from the verdict of its attempt, or from its
\* loss.
ReasonsOK(w) ==
  /\ \A j \in worker[w].complete : verdict[j][worker[w].run[j]] = "success"
  /\ \A j \in worker[w].fail : \/ verdict[j][worker[w].run[j]] \in {"failure", "deadletter"}
                               \/ <<j, worker[w].run[j]>> \in late \cup lost
  /\ \A j \in worker[w].dead : verdict[j][worker[w].run[j]] = "deadletter"
ReasonsInv == \A w \in Worker : ReasonsOK(w)

\* Handlers are abandoned only when their time is up.
AbortsInv == \A w \in Worker : strays[w] \subseteq late

OrderlyInv == GracefulInv /\ WholeInv /\ PastInv /\ OnceInv /\ ReasonsInv /\ AbortsInv

-----------------------------------------------------------------------------
(* Steps.                                                                   *)

\* No stop is forced, so nobody aborts.
LEMMA GracefulStep ==
  ASSUME Orderly, TypeOK, GracefulInv, [Next]_vars
  PROVE  GracefulInv' /\ \A w \in Worker : ~FailWip(w) /\ ~Abort(w)
<1>1. ASSUME NEW w \in Worker PROVE ~FailWip(w) /\ ~Abort(w)
  <2>1. ~ForcedStops BY DEF Orderly
  <2>2. stop[w] # "aborting" BY DEF GracefulInv
  <2>. QED BY <2>1, <2>2 DEF FailWip, Abort
<1>. SUFFICES GracefulInv' BY <1>1
<1>2. ASSUME NEW w \in Worker, Stop(w) PROVE GracefulInv'
  BY <1>2 DEF Stop, TypeOK, GracefulInv
<1>3. CASE UNCHANGED stop BY <1>3 DEF GracefulInv
<1>4. ASSUME NEW w \in Worker,
             \/ Fetch(w) \/ Receive(w) \/ TimesOut(w) \/ Issue(w) \/ IssueFails(w)
             \/ HandlerResolves(w) \/ HandlerRejects(w)
             \/ Poll(w) \/ LoseReply(w) \/ FetchNothing(w) \/ Finish(w) \/ Stopped(w) \/ Crash(w)
             \/ StrayEnds(w)
      PROVE  UNCHANGED stop
  BY <1>4 DEF Fetch, Receive, TimesOut, Issue, IssueFails, HandlerResolves, HandlerRejects, Poll,
              LoseReply, FetchNothing, Finish, Stopped, Crash, StrayEnds
<1>5. ASSUME NEW j \in Job, Elapse(j) PROVE UNCHANGED stop BY <1>5 DEF Elapse
<1>6. CASE Expire BY <1>3, <1>6 DEF Expire
<1>7. CASE UNCHANGED vars BY <1>3, <1>7 DEF vars
<1>. QED BY <1>1, <1>2, <1>3, <1>4, <1>5, <1>6, <1>7, Steps

LEMMA SettlingCatches ==
  ASSUME worker \in [Worker -> WorkerState], NEW w \in Worker, NEW c \in SUBSET Job,
         NEW f \in SUBSET Job, NEW d \in SUBSET Job, NEW b \in BOOLEAN,
         Settling(w, c, f, d, b)
  PROVE  worker'[w].catching = b
BY DEF Settling, WorkerState

\* What fails, and what becomes of the worker, when a statement of an unreliable
\* worker does.
LEMMA IssueFailsOrderly ==
  ASSUME Orderly, TypeOK, BatchInv, WholeInv, NEW w \in Worker, IssueFails(w)
  PROVE  \/ Drops(w)
         \/ /\ Settles(w, {}, worker[w].batch, {}) /\ worker'[w].catching
            /\ Pending(w) = worker[w].batch
            /\ UNCHANGED job \/ CompleteRows(worker[w].batch)
<1>1. worker[w].batch \in SUBSET Job /\ {} \in SUBSET Job BY BatchFields
<1>2. CASE worker[w].catching BY <1>2, LeftoversDrops DEF IssueFails, TypeOK
<1>3. CASE ~worker[w].catching
  <2>1. Settling(w, {}, worker[w].batch, {}, TRUE) BY <1>3 DEF IssueFails
  <2>2. Settles(w, {}, worker[w].batch, {}) /\ worker'[w].catching
    BY <1>1, <2>1, SettlingSettles, SettlingCatches DEF TypeOK
  <2>3. /\ worker[w].fail = {} /\ worker[w].dead = {}
        /\ worker[w].complete \in {{}, worker[w].batch} /\ Pending(w) # {}
    BY <1>3 DEF IssueFails, WholeInv, WholeOK
  <2>4. worker[w].complete = worker[w].batch /\ worker[w].complete # {}
        /\ Pending(w) = worker[w].batch
    BY <2>3 DEF Pending
  <2>5. UNCHANGED job \/ CompleteRows(worker[w].batch) BY <2>4 DEF IssueFails
  <2>. QED BY <2>2, <2>4, <2>5
<1>. QED BY <1>2, <1>3

LEMMA WholeStep ==
  ASSUME Orderly, IndInv, WholeInv, GracefulInv, [Next]_vars
  PROVE  WholeInv'
<1>0. TypeOK /\ BatchInv BY DEF IndInv
<1>. SUFFICES ASSUME NEW v \in Unreliable PROVE WholeOK(v)' BY DEF WholeInv
<1>1. WholeOK(v) /\ v \in Worker /\ v \notin PerJobResults
  BY ProcessingAssumption DEF WholeInv, Orderly
<1>2. CASE worker'[v] = worker[v] BY <1>1, <1>2 DEF WholeOK
<1>3. ASSUME NEW w \in Worker, Others(w), v # w PROVE WholeOK(v)' BY <1>1, <1>2, <1>3 DEF Others
<1>4. ASSUME NEW w \in Worker, Fetch(w) PROVE WholeOK(v)'
  <2>1. Others(w) /\ worker'[w].pc = "fetching" BY <1>0, <1>4, FetchDoes
  <2>. QED BY <1>3, <2>1 DEF WholeOK
<1>5. ASSUME NEW w \in Worker, Receive(w) PROVE WholeOK(v)'
  <2>1. Others(w) /\ worker'[w].pc = "handling" BY <1>0, <1>5, ReceiveDoes
  <2>. QED BY <1>3, <2>1 DEF WholeOK
<1>6. ASSUME NEW w \in Worker, Drops(w) PROVE WholeOK(v)'
  BY <1>3, <1>6 DEF WholeOK, Drops
<1>7. ASSUME NEW w \in Worker, TimesOut(w) \/ HandlerRejects(w) PROVE WholeOK(v)'
  <2>1. worker[w].batch \in SUBSET Job /\ {} \in SUBSET Job BY <1>0, BatchFields
  <2>2. Settling(w, {}, worker[w].batch, {}, TRUE) BY <1>7 DEF TimesOut, HandlerRejects
  <2>3. worker'[w].catching /\ Others(w)
    BY <1>0, <2>1, <2>2, SettlingCatches, SettlingSettles DEF TypeOK, Settles
  <2>. QED BY <1>3, <2>3 DEF WholeOK
<1>8. ASSUME NEW w \in Worker, HandlerResolves(w) PROVE WholeOK(v)'
  <2>1. worker[w].batch \subseteq Job BY <1>0, BatchFields
  <2>2. PICK r \in [worker[w].batch -> Verdict \ {"none"}] :
          /\ w \notin PerJobResults => \A j \in worker[w].batch : r[j] = "success"
          /\ Settling(w, {j \in worker[w].batch : r[j] = "success"},
                         {j \in worker[w].batch : r[j] = "failure"},
                         {j \in worker[w].batch : r[j] = "deadletter"}, FALSE)
    BY <1>8 DEF HandlerResolves
  <2>3. Settles(w, {j \in worker[w].batch : r[j] = "success"},
                   {j \in worker[w].batch : r[j] = "failure"},
                   {j \in worker[w].batch : r[j] = "deadletter"})
    BY <1>0, <2>1, <2>2, SettlingSettles DEF TypeOK
  <2>4. CASE v # w BY <1>3, <2>3, <2>4 DEF Settles
  <2>5. CASE v = w BY <1>1, <2>2, <2>3, <2>5 DEF Settles, WholeOK
  <2>. QED BY <2>4, <2>5
<1>9. ASSUME NEW w \in Worker, Issue(w) PROVE WholeOK(v)'
  <2>1. Others(w) BY <1>0, <1>9, IssueDoes DEF Settles
  <2>2. /\ worker'[w].pc = worker[w].pc /\ worker'[w].catching = worker[w].catching
        /\ worker'[w].batch = worker[w].batch
        /\ worker'[w].complete \in {{}, worker[w].complete}
        /\ worker'[w].fail \in {{}, worker[w].fail} /\ worker'[w].dead \in {{}, worker[w].dead}
    <3>1. worker[w] \in WorkerState BY <1>0 DEF TypeOK
    <3>2. \/ worker' = [worker EXCEPT ![w] = [@ EXCEPT !.complete = {}]]
          \/ worker' = [worker EXCEPT ![w] = [@ EXCEPT !.fail = {}]]
          \/ worker' = [worker EXCEPT ![w] = [@ EXCEPT !.dead = {}]]
      BY <1>9 DEF Issue
    <3>. QED BY <1>0, <3>1, <3>2 DEF TypeOK, WorkerState
  <2>3. CASE v = w BY <1>1, <2>2, <2>3 DEF WholeOK
  <2>. QED BY <1>3, <2>1, <2>3
<1>10. ASSUME NEW w \in Worker, IssueFails(w) PROVE WholeOK(v)'
  <2>1. Drops(w) \/ (worker'[w].catching /\ Others(w))
    BY <1>0, <1>10, IssueFailsOrderly DEF Settles
  <2>. QED BY <1>3, <1>6, <2>1 DEF WholeOK
<1>11. ASSUME NEW w \in Worker,
              Poll(w) \/ LoseReply(w) \/ FetchNothing(w) \/ Finish(w) \/ Stopped(w) \/ Crash(w)
       PROVE  WholeOK(v)'
  BY <1>0, <1>6, <1>11, QuietDrops
<1>12. ASSUME NEW w \in Worker, Stop(w) \/ StrayEnds(w) PROVE WholeOK(v)'
  BY <1>2, <1>12 DEF Stop, StrayEnds
<1>13. ASSUME NEW j \in Job, Elapse(j) PROVE WholeOK(v)' BY <1>2, <1>13 DEF Elapse
<1>14. CASE Expire BY <1>2, <1>14 DEF Expire
<1>15. CASE UNCHANGED vars BY <1>2, <1>15 DEF vars
<1>. QED BY <1>0, <1>4, <1>5, <1>7, <1>8, <1>9, <1>10, <1>11, <1>12, <1>13, <1>14, <1>15,
            GracefulStep, Steps

LEMMA PastStep ==
  ASSUME Orderly, IndInv, GracefulInv, PastInv, [Next]_vars
  PROVE  PastInv'
<1>0. TypeOK /\ TypeOK' /\ CountsInv /\ BatchInv BY TypeStep DEF IndInv
<1>1. \A j \in Job : job[j].runs \in Nat /\ job'[j].runs \in Nat BY <1>0 DEF TypeOK, JobRow
<1>2. \A n \in Attempt : n \in Nat BY Constants
\* The runs do not shrink, and a new pair is one of an attempt that began.
<1>3. ASSUME \A j \in Job : job'[j].runs >= job[j].runs,
             \A j \in Job, n \in Attempt :
               <<j, n>> \in late' \cup lost' => <<j, n>> \in late \cup lost \/ n <= job[j].runs
      PROVE  PastInv'
  BY <1>1, <1>2, <1>3 DEF PastInv
<1>4. CASE UNCHANGED <<job, late, lost>> BY <1>4 DEF PastInv
<1>5. ASSUME NEW w \in Worker, NEW n, NEW j \in Job, <<j, n>> \in AttemptsOf(w, worker[w].batch)
      PROVE  n <= job[j].runs
  <2>1. PICK i \in worker[w].batch : <<j, n>> = <<i, worker[w].run[i]>> BY <1>5 DEF AttemptsOf
  <2>2. worker[w].run[j] \in 1..job[j].runs BY <1>0, <2>1 DEF BatchInv
  <2>. QED BY <1>1, <2>1, <2>2
\* Statements and lost replies.
<1>6. ASSUME NEW w \in Worker, \A j \in Job : job'[j].runs = job[j].runs, UNCHANGED late,
             lost' = lost \/ lost' = lost \cup AttemptsOf(w, worker[w].batch)
      PROVE  PastInv'
  BY <1>1, <1>3, <1>5, <1>6
<1>7. ASSUME NEW w \in Worker, Fetch(w) PROVE PastInv'
  <2>1. PICK T \in SUBSET Waiting :
          \A j \in Job : job'[j] = IF j \in T THEN Activated(job[j]) ELSE job[j]
    BY <1>0, <1>7, FetchDoes
  <2>2. UNCHANGED <<late, lost>> BY <1>7 DEF Fetch
  <2>3. \A j \in Job : job'[j].runs >= job[j].runs
    <3>. SUFFICES ASSUME NEW j \in Job PROVE job'[j].runs >= job[j].runs OBVIOUS
    <3>1. job[j] \in JobRow BY <1>0 DEF TypeOK
    <3>2. job'[j].runs = job[j].runs \/ job'[j].runs = job[j].runs + 1
      BY <2>1, <3>1, ActivatedFields
    <3>. QED BY <1>1, <3>2
  <2>. QED BY <1>3, <2>2, <2>3
<1>8. ASSUME NEW w \in Worker, Issue(w) PROVE PastInv'
  BY <1>0, <1>6, <1>8, IssueDoes DEF Touches
<1>9. ASSUME NEW w \in Worker, IssueFails(w) PROVE PastInv'
  BY <1>0, <1>6, <1>9, IssueFailsDoes DEF Touches
<1>10. ASSUME NEW w \in Worker,
              Poll(w) \/ LoseReply(w) \/ FetchNothing(w) \/ Finish(w) \/ Stopped(w) \/ Crash(w)
       PROVE  PastInv'
  BY <1>0, <1>6, <1>10, QuietDrops
<1>11. ASSUME NEW w \in Worker,
              \/ Receive(w) \/ TimesOut(w) \/ HandlerResolves(w) \/ HandlerRejects(w) \/ Stop(w)
              \/ StrayEnds(w)
       PROVE  PastInv'
  BY <1>4, <1>11 DEF Receive, TimesOut, HandlerResolves, HandlerRejects, Stop, StrayEnds
<1>12. ASSUME NEW i \in Job, Elapse(i) PROVE PastInv'
  <2>1. PICK m \in Attempt :
          /\ \/ job[i].runs = m
             \/ \E w \in Worker : i \in worker[w].batch /\ worker[w].run[i] = m
          /\ late' = late \cup {<<i, m>>} /\ UNCHANGED <<job, lost>>
    BY <1>12 DEF Elapse
  <2>2. m <= job[i].runs
    <3>1. ASSUME NEW w \in Worker, i \in worker[w].batch, worker[w].run[i] = m
          PROVE  m <= job[i].runs
      <4>1. worker[w].run[i] \in 1..job[i].runs BY <1>0, <3>1 DEF BatchInv
      <4>. QED BY <1>1, <3>1, <4>1
    <3>. QED BY <1>1, <2>1, <3>1
  <2>. QED BY <1>1, <1>3, <2>1, <2>2
<1>13. CASE Expire
  <2>1. \A j \in Job : job'[j].runs = job[j].runs BY <1>0, <1>13, ExpireDoes DEF Touches
  <2>2. UNCHANGED <<late, lost>> BY <1>13 DEF Expire
  <2>. QED BY <1>1, <1>3, <2>1, <2>2
<1>14. CASE UNCHANGED vars BY <1>4, <1>14 DEF vars
<1>. QED BY <1>0, <1>7, <1>8, <1>9, <1>10, <1>11, <1>12, <1>13, <1>14, GracefulStep, Steps

-----------------------------------------------------------------------------
(* Claims.                                                                  *)

\* w claims nothing of j that it did not claim before, and does not go back.
Holds(w, j) ==
  Claims(w, j)' =>
    /\ Claims(w, j)
    /\ worker'[w].run[j] = worker[w].run[j]
    /\ worker[w].pc = "settling" => worker'[w].pc = "settling"

LEMMA OnceKept ==
  ASSUME NEW j \in Job, OnceOK(j), \A w \in Worker : Holds(w, j),
         job'[j].state = job[j].state, job'[j].runs = job[j].runs
  PROVE  OnceOK(j)'
BY DEF OnceOK, Holds

LEMMA SameHolds ==
  ASSUME NEW w \in Worker, NEW j, worker'[w] = worker[w] PROVE Holds(w, j)
BY ClaimsSame DEF Holds

\* A worker that drops or settles its batch.
LEMMA HoldsShrink ==
  ASSUME BatchInv, NEW w \in Worker, NEW j \in Job,
         \/ Drops(w)
         \/ \E c, f, d : /\ Settles(w, c, f, d)
                        /\ \/ worker[w].pc = "handling"
                           \/ c \cup f \cup d \subseteq Pending(w)
  PROVE  \A v \in Worker : Holds(v, j)
<1>. SUFFICES ASSUME NEW v \in Worker PROVE Holds(v, j) OBVIOUS
<1>1. CASE v # w BY <1>1, SameHolds DEF Drops, Settles, Others
<1>2. CASE v = w /\ Drops(w) BY <1>2 DEF Drops, Holds, Claims
<1>3. CASE v = w /\ ~Drops(w)
  <2>1. Claims(v, j)' => Claims(v, j) BY ClaimsShrink
  <2>. QED BY <1>3, <2>1 DEF Settles, Holds
<1>. QED BY <1>1, <1>2, <1>3

\* A statement of w: it changes rows that w claims, and w is through with them
\* or has just completed them.
LEMMA OnceSettled ==
  ASSUME NEW j \in Job, OnceOK(j), \A v \in Worker : Holds(v, j), NEW w \in Worker,
         job'[j].runs = job[j].runs,
         job'[j].state # job[j].state =>
           /\ Claims(w, j) /\ job[j].state # "completed"
           /\ Claims(w, j)' => job'[j].state = "completed" /\ worker'[w].pc = "settling"
  PROVE  OnceOK(j)'
<1>1. CASE job'[j].state = job[j].state BY <1>1, OnceKept
<1>2. CASE job'[j].state # job[j].state
  <2>1. \A v \in Worker : Claims(v, j) => v = w BY <1>2 DEF OnceOK
  <2>2. \A v \in Worker : Claims(v, j)' => v = w BY <2>1 DEF Holds
  <2>. QED BY <1>2, <2>2 DEF OnceOK
<1>. QED BY <1>1, <1>2

LEMMA OnceStep ==
  ASSUME Orderly, IndInv, GracefulInv, WholeInv, OnceInv, [Next]_vars
  PROVE  OnceInv'
<1>0. TypeOK /\ BatchInv BY DEF IndInv
<1>. SUFFICES ASSUME NEW j \in Job PROVE OnceOK(j)' BY DEF OnceInv
<1>1. OnceOK(j) BY DEF OnceInv
<1>2. CASE UNCHANGED worker /\ job'[j].state = job[j].state /\ job'[j].runs = job[j].runs
  BY <1>1, <1>2, SameHolds, OnceKept
<1>3. ASSUME NEW w \in Worker, Fetch(w) PROVE OnceOK(j)'
  <2>1. PICK T \in SUBSET Waiting :
          /\ job'[j] = IF j \in T THEN Activated(job[j]) ELSE job[j]
          /\ Others(w) /\ worker'[w].batch = T
          /\ worker'[w].run[j] = IF j \in T THEN job[j].runs + 1 ELSE worker[w].run[j]
    BY <1>0, <1>3, FetchDoes
  <2>2. \A v \in Worker \ {w} : worker'[v] = worker[v] BY <2>1 DEF Others
  <2>3. CASE j \in T
    <3>1. \A v \in Worker : ~Claims(v, j) BY <1>1, <2>3 DEF OnceOK, Waiting
    <3>2. job'[j].state = "active" /\ job'[j].runs = job[j].runs + 1
      BY <1>0, <2>1, <2>3, ActivatedFields DEF TypeOK
    <3>3. \A v \in Worker : Claims(v, j)' => v = w BY <2>2, <3>1, ClaimsSame
    <3>. QED BY <2>1, <2>3, <3>2, <3>3 DEF OnceOK
  <2>4. CASE j \notin T
    <3>1. Holds(w, j) BY <2>1, <2>4 DEF Holds, Claims
    <3>2. \A v \in Worker : Holds(v, j) BY <2>2, <3>1, SameHolds
    <3>. QED BY <1>1, <2>1, <2>4, <3>2, OnceKept
  <2>. QED BY <2>3, <2>4
<1>4. ASSUME NEW w \in Worker, Receive(w) PROVE OnceOK(j)'
  <2>1. Holds(w, j) BY <1>0, <1>4, ReceiveDoes DEF Holds, Claims
  <2>2. \A v \in Worker : Holds(v, j) BY <1>0, <1>4, <2>1, ReceiveDoes, SameHolds DEF Others
  <2>. QED BY <1>0, <1>1, <1>4, <2>2, ReceiveDoes, OnceKept
<1>5. ASSUME NEW w \in Worker, TimesOut(w) PROVE OnceOK(j)'
  <2>1. \A v \in Worker : Holds(v, j) BY <1>0, <1>5, TimesOutDoes, HoldsShrink
  <2>. QED BY <1>0, <1>1, <1>5, <2>1, TimesOutDoes, OnceKept
<1>6. ASSUME NEW w \in Worker, HandlerResolves(w) \/ HandlerRejects(w) PROVE OnceOK(j)'
  <2>1. \A v \in Worker : Holds(v, j) BY <1>0, <1>6, HandlerDoes, HoldsShrink
  <2>2. job' = job BY <1>0, <1>6, HandlerDoes
  <2>. QED BY <1>1, <2>1, <2>2, OnceKept
<1>7. ASSUME NEW w \in Worker,
             Poll(w) \/ LoseReply(w) \/ FetchNothing(w) \/ Finish(w) \/ Stopped(w) \/ Crash(w)
      PROVE  OnceOK(j)'
  <2>1. Drops(w) /\ job' = job BY <1>0, <1>7, QuietDrops
  <2>2. \A v \in Worker : Holds(v, j) BY <1>0, <2>1, HoldsShrink
  <2>. QED BY <1>1, <2>1, <2>2, OnceKept
<1>8. ASSUME NEW w \in Worker, Issue(w) PROVE OnceOK(j)'
  <2>1. PICK c, f, d :
          /\ Settles(w, c, f, d) /\ c \cup f \cup d \subseteq Pending(w)
          /\ job'[j].runs = job[j].runs
          /\ job'[j].state # job[j].state =>
               job[j].state # "completed" /\ j \in Pending(w) \ (c \cup f \cup d)
    <3>1. /\ worker[w].complete \cap worker[w].fail = {}
          /\ worker[w].complete \cap worker[w].dead = {}
          /\ worker[w].fail \cap worker[w].dead = {}
      BY <1>0 DEF BatchInv
    <3>. QED BY <1>0, <1>8, <3>1, IssueDoes DEF Touches, Pending
  <2>2. \A v \in Worker : Holds(v, j) BY <1>0, <2>1, HoldsShrink
  <2>3. j \in Pending(w) => Claims(w, j) BY <1>0 DEF BatchInv, Claims
  <2>4. j \notin c \cup f \cup d => ~Claims(w, j)' BY <2>1 DEF Settles, Claims, Pending
  <2>. QED BY <1>1, <2>1, <2>2, <2>3, <2>4, OnceSettled
<1>9. ASSUME NEW w \in Worker, IssueFails(w) PROVE OnceOK(j)'
  <2>1. /\ job'[j].runs = job[j].runs
        /\ job'[j].state # job[j].state => job[j].state # "completed" /\ j \in Pending(w)
    BY <1>0, <1>9, IssueFailsDoes DEF Touches, Pending
  <2>2. j \in Pending(w) => Claims(w, j) BY <1>0 DEF BatchInv, Claims
  <2>3. CASE Drops(w)
    <3>1. \A v \in Worker : Holds(v, j) BY <1>0, <2>3, HoldsShrink
    <3>2. ~Claims(w, j)' BY <2>3 DEF Drops, Claims
    <3>. QED BY <1>1, <2>1, <2>2, <3>1, <3>2, OnceSettled
  <2>4. CASE ~Drops(w)
    <3>1. /\ Settles(w, {}, worker[w].batch, {}) /\ Pending(w) = worker[w].batch
          /\ UNCHANGED job \/ CompleteRows(worker[w].batch)
      BY <1>0, <1>9, <2>4, IssueFailsOrderly
    <3>2. worker[w].batch \in SUBSET Job BY <1>0, BatchFields
    <3>3. job'[j].state # job[j].state => job'[j].state = "completed"
      BY <1>0, <3>1, <3>2, CompleteRowsTouches DEF TypeOK, Touches
    <3>4. \A v \in Worker : Holds(v, j) BY <1>0, <3>1, HoldsShrink
    <3>5. worker'[w].pc = "settling" BY <3>1 DEF Settles
    <3>. QED BY <1>1, <2>1, <2>2, <3>3, <3>4, <3>5, OnceSettled
  <2>. QED BY <2>3, <2>4
<1>10. CASE Expire
  <2>1. /\ worker' = worker /\ job'[j].runs = job[j].runs
        /\ job'[j].state # job[j].state => j \in Expirable
    BY <1>0, <1>10, ExpireDoes DEF Touches
  <2>2. CASE job'[j].state = job[j].state BY <1>2, <2>1, <2>2
  <2>3. CASE j \in Expirable
    <3>1. job[j].state = "active" /\ ~InHand(j) BY <2>3 DEF Expirable, Active, Orderly
    <3>2. ASSUME NEW w \in Worker, Claims(w, j) PROVE InHand(j)
      <4>1. j \in worker[w].batch /\ worker[w].pc \in {"fetching", "handling", "settling"}
        BY <1>0, <3>2 DEF Claims, BatchInv
      <4>2. worker[w].run[j] = job[j].runs BY <1>1, <3>1, <3>2 DEF OnceOK
      <4>. QED BY <4>1, <4>2 DEF InHand
    <3>3. \A w \in Worker : ~Claims(w, j)' BY <2>1, <3>1, <3>2, ClaimsSame
    <3>. QED BY <3>3 DEF OnceOK
  <2>. QED BY <2>1, <2>2, <2>3
<1>11. ASSUME NEW w \in Worker, Stop(w) \/ StrayEnds(w) PROVE OnceOK(j)'
  BY <1>2, <1>11 DEF Stop, StrayEnds
<1>12. ASSUME NEW i \in Job, Elapse(i) PROVE OnceOK(j)' BY <1>2, <1>12 DEF Elapse
<1>13. CASE UNCHANGED vars BY <1>2, <1>13 DEF vars
<1>. QED BY <1>0, <1>3, <1>4, <1>5, <1>6, <1>7, <1>8, <1>9, <1>10, <1>11, <1>12, <1>13,
            GracefulStep, Steps

-----------------------------------------------------------------------------
(* Reasons.                                                                 *)

LEMMA RunsAreAttempts ==
  ASSUME TypeOK, CountsInv, BatchInv, NEW w \in Worker, NEW j \in worker[w].batch
  PROVE  j \in Job /\ worker[w].run[j] \in Attempt /\ worker[w].run[j] \in 1..job[j].runs
<1>1. j \in Job /\ worker[w].run[j] \in 1..job[j].runs BY BatchFields DEF BatchInv
<1>. QED BY <1>1, BatchFields, Constants DEF CountsInv

\* A worker that adds no statement keeps its reasons, which stay.
LEMMA ReasonsKept ==
  ASSUME TypeOK, CountsInv, BatchInv, Grows, NEW w \in Worker, ReasonsOK(w),
         worker'[w].complete \subseteq worker[w].complete,
         worker'[w].fail \subseteq worker[w].fail, worker'[w].dead \subseteq worker[w].dead,
         Pending(w) # {} => worker'[w].run = worker[w].run \/ Pending(w)' = {}
  PROVE  ReasonsOK(w)'
<1>1. CASE Pending(w)' = {} BY <1>1 DEF Pending, ReasonsOK
<1>2. CASE Pending(w) = {} BY <1>2 DEF Pending, ReasonsOK
<1>3. CASE worker'[w].run = worker[w].run
  <2>1. \A j \in Pending(w) : j \in Job /\ worker[w].run[j] \in Attempt
    BY RunsAreAttempts DEF BatchInv
  <2>. QED BY <1>3, <2>1 DEF Pending, ReasonsOK, Grows
<1>. QED BY <1>1, <1>2, <1>3

LEMMA ReasonsStep ==
  ASSUME Orderly, IndInv, GracefulInv, ReasonsInv, [Next]_vars
  PROVE  ReasonsInv'
<1>0. TypeOK /\ CountsInv /\ BatchInv /\ Grows BY StepGrows DEF IndInv
<1>. SUFFICES ASSUME NEW v \in Worker PROVE ReasonsOK(v)' BY DEF ReasonsInv
<1>1. ReasonsOK(v) BY DEF ReasonsInv
<1>2. CASE worker'[v] = worker[v] BY <1>0, <1>1, <1>2, ReasonsKept
<1>3. ASSUME NEW w \in Worker, Others(w), v # w PROVE ReasonsOK(v)' BY <1>2, <1>3 DEF Others
<1>4. ASSUME NEW w \in Worker, Fetch(w) \/ Receive(w) PROVE ReasonsOK(v)'
  <2>1. /\ Others(w) /\ worker[w].pc # "settling" /\ worker'[w].complete = worker[w].complete
        /\ worker'[w].fail = worker[w].fail /\ worker'[w].dead = worker[w].dead
    BY <1>0, <1>4, FetchDoes, ReceiveDoes
  <2>2. Pending(w) = {} BY <1>0, <2>1 DEF BatchInv
  <2>. QED BY <1>0, <1>1, <1>3, <2>1, <2>2, ReasonsKept
<1>5. ASSUME NEW w \in Worker, Drops(w) PROVE ReasonsOK(v)'
  BY <1>3, <1>5 DEF Drops, ReasonsOK
<1>6. ASSUME NEW w \in Worker, Issue(w) PROVE ReasonsOK(v)'
  <2>1. \/ Settles(w, {}, worker[w].fail, worker[w].dead)
        \/ Settles(w, worker[w].complete, {}, worker[w].dead)
        \/ Settles(w, worker[w].complete, worker[w].fail, {})
    BY <1>0, <1>6, IssueDoes
  <2>. QED BY <1>0, <1>1, <1>3, <2>1, ReasonsKept DEF Settles
\* The whole batch is failed, and every attempt in it is late or lost.
<1>7. ASSUME NEW w \in Worker, Settles(w, {}, worker[w].batch, {}),
             AttemptsOf(w, worker[w].batch) \subseteq late' \cup lost'
      PROVE  ReasonsOK(v)'
  <2>1. CASE v # w BY <1>3, <1>7, <2>1 DEF Settles
  <2>2. CASE v = w
    <3>1. \A j \in worker[w].batch : <<j, worker[w].run[j]>> \in late' \cup lost'
      BY <1>7 DEF AttemptsOf
    <3>. QED BY <1>7, <2>2, <3>1 DEF Settles, ReasonsOK
  <2>. QED BY <2>1, <2>2
<1>8. ASSUME NEW w \in Worker, TimesOut(w) PROVE ReasonsOK(v)'
  BY <1>0, <1>7, <1>8, TimesOutDoes
<1>9. ASSUME NEW w \in Worker, IssueFails(w) PROVE ReasonsOK(v)'
  BY <1>0, <1>5, <1>7, <1>9, IssueFailsDoes
<1>10. ASSUME NEW w \in Worker, HandlerResolves(w) \/ HandlerRejects(w) PROVE ReasonsOK(v)'
  <2>1. PICK r \in [worker[w].batch -> Verdict \ {"none"}] :
          /\ Judged(w, r)
          /\ Settles(w, {j \in worker[w].batch : r[j] = "success"},
                        {j \in worker[w].batch : r[j] = "failure"},
                        {j \in worker[w].batch : r[j] = "deadletter"})
    BY <1>0, <1>10, HandlerDoes
  <2>2. CASE v # w BY <1>3, <2>1, <2>2 DEF Settles
  <2>3. CASE v = w
    <3>1. ASSUME NEW j \in worker[w].batch PROVE verdict'[j][worker[w].run[j]] = r[j]
      BY <1>0, <2>1, <3>1, RunsAreAttempts DEF Judged
    <3>. QED BY <2>1, <2>3, <3>1 DEF Settles, ReasonsOK
  <2>. QED BY <2>2, <2>3
<1>11. ASSUME NEW w \in Worker,
              Poll(w) \/ LoseReply(w) \/ FetchNothing(w) \/ Finish(w) \/ Stopped(w) \/ Crash(w)
       PROVE  ReasonsOK(v)'
  BY <1>0, <1>5, <1>11, QuietDrops
<1>12. ASSUME NEW w \in Worker, Stop(w) \/ StrayEnds(w) PROVE ReasonsOK(v)'
  BY <1>2, <1>12 DEF Stop, StrayEnds
<1>13. ASSUME NEW j \in Job, Elapse(j) PROVE ReasonsOK(v)' BY <1>2, <1>13 DEF Elapse
<1>14. CASE Expire BY <1>2, <1>14 DEF Expire
<1>15. CASE UNCHANGED vars BY <1>2, <1>15 DEF vars
<1>. QED BY <1>0, <1>4, <1>6, <1>8, <1>9, <1>10, <1>11, <1>12, <1>13, <1>14, <1>15, GracefulStep,
            Steps

-----------------------------------------------------------------------------
(* Abandoned handlers.                                                      *)

LEMMA AbortsStep ==
  ASSUME Orderly, IndInv, GracefulInv, AbortsInv, [Next]_vars
  PROVE  AbortsInv'
<1>0. TypeOK /\ Grows BY StepGrows DEF IndInv
<1>1. ASSUME StraysShrink PROVE AbortsInv'
  BY <1>0, <1>1 DEF AbortsInv, StraysShrink, Grows
<1>2. CASE UNCHANGED strays BY <1>1, <1>2 DEF StraysShrink
<1>3. ASSUME NEW w \in Worker, TimesOut(w) PROVE AbortsInv'
  <2>1. AttemptsOf(w, worker[w].batch) \subseteq late /\ Abandons(w) /\ UNCHANGED late
    BY <1>0, <1>3, TimesOutDoes
  <2>. QED BY <1>0, <2>1 DEF AbortsInv, Abandons, TypeOK
<1>4. ASSUME NEW w \in Worker,
             Poll(w) \/ LoseReply(w) \/ FetchNothing(w) \/ Finish(w) \/ Stopped(w) \/ Crash(w)
      PROVE  AbortsInv'
  BY <1>0, <1>1, <1>4, QuietDrops
<1>5. ASSUME NEW w \in Worker, StrayEnds(w) PROVE AbortsInv'
  BY <1>0, <1>1, <1>5 DEF StrayEnds, StraysShrink, TypeOK
<1>6. ASSUME NEW w \in Worker,
             \/ Fetch(w) \/ Receive(w) \/ Issue(w) \/ IssueFails(w)
             \/ HandlerResolves(w) \/ HandlerRejects(w) \/ Stop(w)
      PROVE  UNCHANGED strays
  BY <1>6 DEF Fetch, Receive, Issue, IssueFails, HandlerResolves, HandlerRejects, Stop
<1>7. ASSUME NEW j \in Job, Elapse(j) PROVE UNCHANGED strays BY <1>7 DEF Elapse
<1>8. CASE Expire BY <1>2, <1>8 DEF Expire
<1>9. CASE UNCHANGED vars BY <1>2, <1>9 DEF vars
<1>. QED BY <1>0, <1>2, <1>3, <1>4, <1>5, <1>6, <1>7, <1>8, <1>9, GracefulStep, Steps

-----------------------------------------------------------------------------
(* Theorems.                                                                *)

LEMMA InitOrderly == Init => OrderlyInv
<1>. SUFFICES ASSUME Init PROVE OrderlyInv OBVIOUS
<1>1. /\ Idle("polling").pc = "polling" /\ Idle("polling").batch = {}
      /\ Idle("polling").complete = {} /\ Idle("polling").fail = {} /\ Idle("polling").dead = {}
  BY DEF Idle
<1>2. \A w \in Worker : worker[w] = Idle("polling") BY DEF Init
<1>3. GracefulInv BY DEF Init, GracefulInv
<1>4. WholeInv BY <1>1, <1>2, ProcessingAssumption DEF WholeInv, WholeOK
<1>5. PastInv BY DEF Init, PastInv
<1>6. OnceInv BY <1>1, <1>2 DEF OnceInv, OnceOK, Claims, Pending
<1>7. ReasonsInv BY <1>1, <1>2 DEF ReasonsInv, ReasonsOK
<1>8. AbortsInv BY DEF Init, AbortsInv
<1>. QED BY <1>3, <1>4, <1>5, <1>6, <1>7, <1>8 DEF OrderlyInv

\* While processing is orderly, claims are exclusive and for the current attempt,
\* and every statement to be issued has its reason.
THEOREM OrderlyInvariance == Orderly => (Spec => []OrderlyInv)
<1>. SUFFICES ASSUME Orderly PROVE Spec => []OrderlyInv OBVIOUS
<1>1. IndInv /\ OrderlyInv /\ [Next]_vars => OrderlyInv'
  BY GracefulStep, WholeStep, PastStep, OnceStep, ReasonsStep, AbortsStep DEF OrderlyInv, IndInv
<1>. QED BY InitOrderly, ProcessingInvariance, <1>1, PTL DEF Spec

\* What is left of "Exactly-once job delivery" (README.md) when workers settle late
\* attempts before the supervisor does, stops are not forced and perJobResults
\* statements do not fail: whatever is lost or dies, no attempt is handled twice, and
\* a handler runs beside the one of a later attempt only if it ran out of its time
\* and goes on in spite of its aborted signal (resolveWithinSeconds).
THEOREM OverlapsAreAborted == Orderly => (Spec => []OverlapAborted)
<1>. SUFFICES ASSUME Orderly PROVE Spec => []OverlapAborted OBVIOUS
<1>1. IndInv /\ OrderlyInv => OverlapAborted
  <2>. SUFFICES ASSUME IndInv, OrderlyInv, NEW v \in Worker, NEW w \in Worker, NEW j \in Job,
                       NEW m \in Attempt, NEW n \in Attempt,
                       Runs(v, j, m), Runs(w, j, n), <<v, m>> # <<w, n>>
                PROVE  m # n /\ (m < n => <<j, m>> \in strays[v] \cap late)
    BY DEF OverlapAborted
  <2>0. /\ TypeOK /\ BatchInv /\ StraysInv /\ OnceInv /\ AbortsInv
        /\ m \in Nat /\ n \in Nat /\ job[j].runs \in Nat
    BY BatchFields, Constants DEF IndInv, OrderlyInv
\* An attempt a worker waits for is the current one, and only that worker waits.
  <2>1. ASSUME NEW u \in Worker, NEW k \in Attempt, Waits(u, j, k)
        PROVE  k = job[j].runs /\ \A x \in Worker : \A i : Waits(x, j, i) => x = u
    BY <2>0, <2>1 DEF OnceInv, OnceOK, Claims, Waits
  <2>2. \A u \in Worker, k \in Attempt : Runs(u, j, k) => k <= job[j].runs
    BY <2>0, <2>1 DEF Runs, StraysInv
  <2>3. m # n
    <3>. SUFFICES ASSUME m = n PROVE FALSE OBVIOUS
    <3>1. v # w OBVIOUS
    <3>2. CASE <<j, m>> \in strays[v] BY <2>0, <3>1, <3>2 DEF StraysInv, Runs, Waits
    <3>3. CASE <<j, n>> \in strays[w] BY <2>0, <3>1, <3>3 DEF StraysInv, Runs, Waits
    <3>4. CASE Waits(v, j, m) /\ Waits(w, j, n) BY <2>1, <3>1, <3>4
    <3>. QED BY <3>2, <3>3, <3>4 DEF Runs
  <2>4. ASSUME m < n PROVE <<j, m>> \in strays[v] \cap late
    <3>1. n <= job[j].runs BY <2>2
    <3>2. ~Waits(v, j, m) BY <2>0, <2>1, <2>4, <3>1
    <3>. QED BY <2>0, <3>2 DEF Runs, AbortsInv
  <2>. QED BY <2>3, <2>4
<1>. QED BY <1>1, OrderlyInvariance, ProcessingInvariance, PTL

-----------------------------------------------------------------------------
(* What the steps mean to Attempts.                                         *)

\* The verdict on the current attempt of j, and whether it is late or lost.
Said(j) == IF job[j].runs \in Attempt THEN verdict[j][job[j].runs] ELSE "none"
Gone(j) == Current(j) \in late \cup lost

LEMMA PhaseOf ==
  ASSUME NEW j \in Job
  PROVE  /\ job[j].state \in {"created", "retry"} => phaseOf(j) = "waiting"
         /\ job[j].state = "active" => phaseOf(j) = "running"
         /\ job[j].state = "completed" => phaseOf(j) = "completed"
         /\ job[j].state = "failed" => phaseOf(j) = "failed"
BY DEF phaseOf

LEMMA PhaseOfNext ==
  ASSUME NEW j \in Job
  PROVE  /\ job'[j].state \in {"created", "retry"} => phaseOf(j)' = "waiting"
         /\ job'[j].state = "active" => phaseOf(j)' = "running"
         /\ job'[j].state = "completed" => phaseOf(j)' = "completed"
         /\ job'[j].state = "failed" => phaseOf(j)' = "failed"
         /\ job'[j].state = job[j].state => phaseOf(j)' = phaseOf(j)
BY DEF phaseOf

\* What stays said and gone while no attempt begins and nothing is judged.
LEMMA SaidStays ==
  ASSUME NEW j \in Job, job'[j].runs = job[j].runs, UNCHANGED verdict,
         late \subseteq late', lost \subseteq lost'
  PROVE  Said(j)' = Said(j) /\ (Gone(j) => Gone(j)')
BY DEF Said, Gone, Current

LEMMA LoseMeans ==
  ASSUME UNCHANGED verdict, late \subseteq late', lost \subseteq lost',
         \A j \in Job : job'[j].state = job[j].state /\ job'[j].runs = job[j].runs
  PROVE  A!Next
<1> DEFINE S == {j \in Job : Gone(j)'}
<1>1. \A j \in Job : /\ phaseOf(j)' = phaseOf(j) /\ job'[j].runs = job[j].runs
                     /\ Said(j)' = Said(j) /\ (Gone(j) => Gone(j)')
  BY PhaseOfNext, SaidStays
<1>2. {j \in Job : Gone(j)'} = {j \in Job : Gone(j)} \cup S BY <1>1
<1>3. A!Lose(S) BY <1>1, <1>2 DEF A!Lose, Said, Gone
<1>4. S \in SUBSET Job OBVIOUS
<1>. QED BY <1>3, <1>4 DEF A!Next

LEMMA RecordMeans ==
  ASSUME TypeOK, NEW S \in SUBSET Job, CompleteRows(S), UNCHANGED verdict,
         late \subseteq late', lost \subseteq lost',
         \A j \in S \cap Active : Said(j) = "success"
  PROVE  A!Next
<1> DEFINE R == S \cap Active
           L == {j \in Job : Gone(j)'}
<1>1. \A j \in Job : job[j] \in JobRow /\ (job[j].state = "active" <=> j \in Active)
  BY DEF TypeOK, Active
<1>2. \A j \in Job : /\ job'[j].runs = job[j].runs
                     /\ j \in R => job'[j].state = "completed"
                     /\ j \notin R => job'[j].state = job[j].state
  BY <1>1 DEF CompleteRows, JobRow
<1>3. \A j \in Job : phaseOf(j)' = IF j \in R THEN "completed" ELSE phaseOf(j)
  BY <1>2, PhaseOfNext
<1>4. \A j \in Job : Said(j)' = Said(j) /\ (Gone(j) => Gone(j)') BY <1>2, SaidStays
<1>5. {j \in Job : Gone(j)'} = {j \in Job : Gone(j)} \cup L BY <1>4
<1>6. \A j \in R : j \in Job /\ phaseOf(j) = "running" BY <1>1, PhaseOf
<1>. HIDE DEF R, L
<1>7. A!Record(R, L) BY <1>2, <1>3, <1>4, <1>5, <1>6 DEF A!Record, A!Running, Said, Gone, R
<1>8. R \in SUBSET Job /\ L \in SUBSET Job BY DEF R, L
<1>. QED BY <1>7, <1>8 DEF A!Next

LEMMA GiveUpMeans ==
  ASSUME TypeOK, CountsInv, NEW S \in SUBSET Job, NEW force \in BOOLEAN, FailRows(S, force),
         UNCHANGED verdict, late \subseteq late', lost \subseteq lost',
         \A j \in S \cap Unsettled :
           /\ job[j].state = "active"
           /\ Said(j) \in {"failure", "deadletter"} \/ Gone(j)
           /\ force => Said(j) = "deadletter"
  PROVE  A!Next
<1> DEFINE R == S \cap Unsettled
           final == {j \in R : FailedRow(job[j], force).state = "failed"}
           L == {j \in Job : Gone(j)'}
<1>1. \A j \in Job : job[j] \in JobRow BY DEF TypeOK
<1>2. \A j \in Job : job'[j] = IF j \in R THEN FailedRow(job[j], force) ELSE job[j]
  BY DEF FailRows
<1>3. \A j \in Job : /\ job'[j].runs = job[j].runs
                     /\ j \in final => job'[j].state = "failed"
                     /\ j \in R \ final => job'[j].state = "retry"
                     /\ j \notin R => job'[j].state = job[j].state
  BY <1>1, <1>2, FailedRowFields
<1>4. \A j \in Job : phaseOf(j)' = IF j \in final THEN "failed"
                                   ELSE IF j \in R THEN "waiting" ELSE phaseOf(j)
  BY <1>3, PhaseOfNext
<1>5. \A j \in Job : Said(j)' = Said(j) /\ (Gone(j) => Gone(j)') BY <1>3, SaidStays
<1>6. {j \in Job : Gone(j)'} = {j \in Job : Gone(j)} \cup L BY <1>5
<1>7. \A j \in R : j \in Job /\ phaseOf(j) = "running" BY PhaseOf
<1>8. ASSUME NEW j \in R
      PROVE  /\ job[j].runs = RetryLimit + 1 => j \in final
             /\ j \in final => job[j].runs = RetryLimit + 1 \/ Said(j) = "deadletter"
  <2>1. job[j].runs \in Attempt
    <3>1. CASE Gone(j) BY <3>1 DEF Gone, Current, TypeOK
    <3>2. CASE ~Gone(j) BY <3>2 DEF Said
    <3>. QED BY <3>1, <3>2
  <2>2. job[j].runs \in Nat /\ job[j].runs > 0 /\ RetryLimit \in Nat BY <2>1, Constants
  <2>3. job[j].retries = job[j].runs - 1 /\ job[j].runs <= RetryLimit + 1
    BY <2>2 DEF CountsInv
  <2>4. FailedRow(job[j], force).state =
          IF ~force /\ job[j].retries < RetryLimit THEN "retry" ELSE "failed"
    BY <1>1 DEF FailedRow, JobRow
  <2>5. j \in final <=> force \/ ~(job[j].retries < RetryLimit) BY <2>4
  <2>6. job[j].retries < RetryLimit <=> job[j].runs # RetryLimit + 1 BY <2>2, <2>3
  <2>. QED BY <2>5, <2>6
<1>9. final \in SUBSET R /\ R \in SUBSET Job /\ L \in SUBSET Job OBVIOUS
<1>10. \A j \in R : Said(j) \in {"failure", "deadletter"} \/ Gone(j) OBVIOUS
<1>. HIDE DEF R, final, L
<1>11. A!GiveUp(R, final, L)
  BY <1>3, <1>4, <1>5, <1>6, <1>7, <1>8, <1>9, <1>10 DEF A!GiveUp, A!Running, Said, Gone
<1>. QED BY <1>9, <1>11 DEF A!Next

\* Fetched jobs start an attempt that nobody judged or lost.
LEMMA FetchMeans ==
  ASSUME IndInv, OrderlyInv, NEW w \in Worker, Fetch(w) PROVE A!Next
<1>0. TypeOK /\ CountsInv /\ VerdictsInv /\ PastInv BY DEF IndInv, OrderlyInv
<1>1. PICK T \in SUBSET Waiting :
        \A j \in Job : job'[j] = IF j \in T THEN Activated(job[j]) ELSE job[j]
  BY <1>0, FetchDoes
<1>2. UNCHANGED <<late, lost, verdict>> BY DEF Fetch
<1>3. \A j \in Job : job[j] \in JobRow /\ job[j].runs \in Nat BY <1>0 DEF TypeOK, JobRow
<1>4. T \in SUBSET Job /\ \A j \in T : j \in Job /\ job[j].state \in {"created", "retry"}
  BY DEF Waiting
<1>5. ASSUME NEW j \in T
      PROVE  /\ phaseOf(j) = "waiting" /\ phaseOf(j)' = "running"
             /\ job'[j].runs = job[j].runs + 1 /\ job[j].runs < RetryLimit + 1
             /\ Said(j)' = "none" /\ ~Gone(j)'
  <2>1. job'[j].state = "active" /\ job'[j].runs = job[j].runs + 1
    BY <1>1, <1>3, <1>4, ActivatedFields
  <2>2. job[j].runs <= RetryLimit BY <1>0, <1>4 DEF CountsInv
  <2>3. job[j].runs + 1 \in Attempt /\ job[j].runs + 1 > job[j].runs
        /\ ~(job[j].runs + 1 <= job[j].runs)
    BY <1>3, <1>4, <2>2, Constants
  <2>4. verdict[j][job[j].runs + 1] = "none" BY <1>0, <1>4, <2>3 DEF VerdictsInv
  <2>5. Said(j)' = "none" BY <1>2, <2>1, <2>4 DEF Said
  <2>6. ~Gone(j)'
    <3>1. <<j, job[j].runs + 1>> \notin late \cup lost BY <1>0, <1>4, <2>3 DEF PastInv
    <3>. QED BY <1>2, <2>1, <3>1 DEF Gone, Current
  <2>7. job[j].runs < RetryLimit + 1 BY <1>3, <1>4, <2>2, Constants
  <2>. QED BY <1>4, <2>1, <2>5, <2>6, <2>7, PhaseOf, PhaseOfNext
<1>6. ASSUME NEW j \in Job \ T
      PROVE  /\ phaseOf(j)' = phaseOf(j) /\ job'[j].runs = job[j].runs
             /\ Said(j)' = Said(j) /\ (Gone(j)' <=> Gone(j))
  <2>1. job'[j] = job[j] BY <1>1
  <2>. QED BY <1>2, <2>1, PhaseOfNext DEF Said, Gone, Current
<1>7. {j \in Job : Gone(j)'} = {j \in Job : Gone(j)} \ T BY <1>5, <1>6
<1>8. A!Start(T) BY <1>4, <1>5, <1>6, <1>7 DEF A!Start, Said, Gone
<1>. QED BY <1>4, <1>8 DEF A!Next

\* The verdicts of a handler are the first on the current attempts of its jobs.
LEMMA HandlerMeans ==
  ASSUME IndInv, OrderlyInv, NEW w \in Worker, HandlerResolves(w) \/ HandlerRejects(w)
  PROVE  A!Next
<1>0. TypeOK /\ CountsInv /\ BatchInv /\ VerdictsInv /\ OnceInv BY DEF IndInv, OrderlyInv
<1> DEFINE B == worker[w].batch
<1>1. PICK r \in [B -> Verdict \ {"none"}] :
        worker[w].pc = "handling" /\ Judged(w, r) /\ UNCHANGED <<job, late, lost>>
  BY <1>0, HandlerDoes
<1>2. ASSUME NEW j \in B
      PROVE  /\ j \in Job /\ phaseOf(j) = "running" /\ job[j].runs \in Attempt
             /\ worker[w].run[j] = job[j].runs
             /\ Said(j) = "none" /\ Said(j)' = r[j]
  <2>1. j \in Job /\ worker[w].run[j] \in Attempt BY <1>0, RunsAreAttempts
  <2>2. job[j].state = "active" /\ worker[w].run[j] = job[j].runs
    BY <1>0, <1>1, <2>1 DEF OnceInv, OnceOK, Claims
  <2>3. verdict[j][worker[w].run[j]] = "none" BY <1>0, <1>1, <2>1 DEF VerdictsInv
  <2>4. verdict'[j][worker[w].run[j]] = r[j] BY <1>1, <2>1 DEF Judged
  <2>. QED BY <1>1, <2>1, <2>2, <2>3, <2>4, PhaseOf DEF Said
<1>3. ASSUME NEW j \in Job \ B PROVE Said(j)' = Said(j) BY <1>1, <1>3 DEF Judged, Said
<1>4. \A j \in Job : phaseOf(j)' = phaseOf(j) /\ job'[j].runs = job[j].runs /\ (Gone(j)' <=> Gone(j))
  BY <1>1, PhaseOfNext DEF Gone, Current
<1>5. B \in SUBSET Job /\ r \in [B -> A!Verdict \ {"none"}] BY <1>2 DEF A!Verdict, Verdict
<1>. HIDE DEF B
<1>6. A!Judge(B, r) BY <1>2, <1>3, <1>4, <1>5 DEF A!Judge, A!Running, Said, Gone
<1>. QED BY <1>5, <1>6 DEF A!Next

\* The reasons of a statement speak of the current attempts of the active rows.
LEMMA ReasonsNow ==
  ASSUME IndInv, OrderlyInv, NEW w \in Worker
  PROVE  /\ \A j \in worker[w].complete \cap Active : Said(j) = "success"
         /\ \A j \in worker[w].fail \cap Unsettled :
              job[j].state = "active" /\ (Said(j) \in {"failure", "deadletter"} \/ Gone(j))
         /\ \A j \in worker[w].dead \cap Unsettled :
              job[j].state = "active" /\ Said(j) = "deadletter"
<1>0. TypeOK /\ CountsInv /\ BatchInv /\ OnceInv /\ ReasonsOK(w)
  BY DEF IndInv, OrderlyInv, ReasonsInv
<1>1. ASSUME NEW j \in Pending(w), j \in Unsettled
      PROVE  /\ job[j].state = "active" /\ worker[w].run[j] = job[j].runs
             /\ job[j].runs \in Attempt
  <2>1. j \in worker[w].batch BY <1>0 DEF BatchInv
  <2>2. j \in Job /\ worker[w].run[j] \in Attempt BY <1>0, <2>1, RunsAreAttempts
  <2>3. Claims(w, j) BY <2>1 DEF Claims
  <2>4. job[j].state # "completed" BY <1>1 DEF Unsettled, Waiting, Active
  <2>. QED BY <1>0, <2>2, <2>3, <2>4 DEF OnceInv, OnceOK
<1>. QED BY <1>0, <1>1 DEF ReasonsOK, Pending, Unsettled, Said, Gone, Current

LEMMA StatementMeans ==
  ASSUME IndInv, OrderlyInv, NEW w \in Worker, UNCHANGED verdict,
         late \subseteq late', lost \subseteq lost',
         \/ UNCHANGED job
         \/ CompleteRows(worker[w].complete)
         \/ FailRows(worker[w].fail, FALSE)
         \/ FailRows(worker[w].dead, TRUE)
  PROVE  A!Next
<1>0. /\ TypeOK /\ CountsInv
      /\ worker[w].complete \in SUBSET Job /\ worker[w].fail \in SUBSET Job
      /\ worker[w].dead \in SUBSET Job
  BY BatchFields DEF IndInv
<1>1. CASE UNCHANGED job BY <1>1, LoseMeans
<1>2. CASE CompleteRows(worker[w].complete) BY <1>0, <1>2, ReasonsNow, RecordMeans
<1>3. CASE FailRows(worker[w].fail, FALSE) BY <1>0, <1>3, ReasonsNow, GiveUpMeans
<1>4. CASE FailRows(worker[w].dead, TRUE)
  <2>1. \A j \in worker[w].dead \cap Unsettled :
          /\ job[j].state = "active"
          /\ Said(j) \in {"failure", "deadletter"} \/ Gone(j)
          /\ TRUE => Said(j) = "deadletter"
    BY ReasonsNow
  <2>. QED BY <1>0, <1>4, <2>1, GiveUpMeans
<1>. QED BY <1>1, <1>2, <1>3, <1>4

LEMMA ExpireMeans ==
  ASSUME IndInv, Expire PROVE A!Next
<1>0. TypeOK /\ CountsInv BY DEF IndInv
<1>1. Expirable \in SUBSET Job /\ \A j \in Expirable : job[j].state = "active" /\ Gone(j)
  BY DEF Expirable, Active, Gone
<1>2. FailRows(Expirable, FALSE) /\ UNCHANGED <<verdict, late, lost>> BY DEF Expire
<1>. QED BY <1>0, <1>1, <1>2, GiveUpMeans

LEMMA StepMeans ==
  ASSUME Orderly, IndInv, OrderlyInv, [Next]_vars PROVE A!Next
<1>0. TypeOK /\ GracefulInv BY DEF IndInv, OrderlyInv
<1>1. Grows BY StepGrows
<1>2. CASE UNCHANGED <<job, verdict>> BY <1>1, <1>2, LoseMeans DEF Grows
<1>3. ASSUME NEW w \in Worker, Issue(w) PROVE A!Next
  BY <1>1, <1>3, StatementMeans DEF Issue, Grows
<1>4. ASSUME NEW w \in Worker, IssueFails(w) PROVE A!Next
  BY <1>1, <1>4, StatementMeans DEF IssueFails, Grows
<1>5. ASSUME NEW w \in Worker,
             \/ Receive(w) \/ TimesOut(w) \/ Poll(w) \/ LoseReply(w) \/ FetchNothing(w)
             \/ Finish(w) \/ Stopped(w) \/ Crash(w) \/ Stop(w) \/ StrayEnds(w)
      PROVE  UNCHANGED <<job, verdict>>
  BY <1>5 DEF Receive, TimesOut, Poll, LoseReply, FetchNothing, Finish, Stopped, Crash, Stop, StrayEnds
<1>6. ASSUME NEW j \in Job, Elapse(j) PROVE UNCHANGED <<job, verdict>> BY <1>6 DEF Elapse
<1>7. CASE UNCHANGED vars BY <1>2, <1>7 DEF vars
<1>. QED BY <1>0, <1>2, <1>3, <1>4, <1>5, <1>6, <1>7, FetchMeans, HandlerMeans, ExpireMeans,
            GracefulStep, Steps

\* Orderly processing implements Attempts: a job is attempted by one worker after
\* the other, completed only when its current attempt succeeded, and given up only
\* when that failed, ran late or was lost.
THEOREM OrderlyRefines == Orderly => (Spec => ImplementsAttempts)
<1>. SUFFICES ASSUME Orderly PROVE Spec => ImplementsAttempts OBVIOUS
<1>1. Init => A!Init
  <2>. SUFFICES ASSUME Init PROVE A!Init OBVIOUS
  <2>1. \A j \in Job : /\ phaseOf(j) = "waiting" /\ job[j].runs = 0 /\ ~Gone(j)
                       /\ Said(j) = "none"
    BY Constants, PhaseOf DEF Init, Gone, Said
  <2>. QED BY <2>1 DEF A!Init, Said, Gone
<1>2. IndInv /\ OrderlyInv /\ [Next]_vars => [A!Next]_(A!vars) BY StepMeans
<1>. QED BY <1>1, <1>2, ProcessingInvariance, OrderlyInvariance, PTL
         DEF Spec, A!Spec, ImplementsAttempts

\* In orderly processing no worker records what its handler did not do: a job is
\* completed only after its current attempt succeeded, and fails for good only when
\* that attempt failed, ran late or was lost, with no attempt left unless the handler
\* asked for the dead letter queue.
THEOREM OrderlyIsHonest ==
  Orderly => (Spec => [](A!Honest /\ CompletedMeansHandled /\ FailedMeansSpent))
<1>. SUFFICES ASSUME Orderly
              PROVE  Spec => [](A!Honest /\ CompletedMeansHandled /\ FailedMeansSpent)
  OBVIOUS
<1>1. Spec => A!Spec BY OrderlyRefines DEF ImplementsAttempts
<1>2. A!Spec => []A!Honest BY A!Honesty
<1>3. A!Honest => CompletedMeansHandled /\ FailedMeansSpent
  <2>. SUFFICES ASSUME A!Honest, NEW j \in Job
                PROVE  /\ job[j].state = "completed" =>
                            \E n \in Attempt : verdict[j][n] = "success"
                       /\ job[j].state = "failed" =>
                            \/ verdict[j][job[j].runs] \in {"failure", "deadletter"}
                            \/ Current(j) \in late \cup lost
    BY DEF CompletedMeansHandled, FailedMeansSpent
  <2>1. A!HonestOf(j) BY DEF A!Honest
  <2>2. CASE job[j].state = "completed"
    <3>1. phaseOf(j) = "completed" BY <2>2 DEF phaseOf
    <3>2. (IF job[j].runs \in Attempt THEN verdict[j][job[j].runs] ELSE "none") = "success"
      BY <2>1, <3>1 DEF A!HonestOf
    <3>. QED BY <2>2, <3>2
  <2>3. CASE job[j].state = "failed"
    <3>1. phaseOf(j) = "failed" BY <2>3 DEF phaseOf
    <3>2. \/ (IF job[j].runs \in Attempt THEN verdict[j][job[j].runs] ELSE "none")
                \in {"failure", "deadletter"}
          \/ Current(j) \in late \cup lost
      BY <2>1, <3>1 DEF A!HonestOf
    <3>. QED BY <2>3, <3>2
  <2>. QED BY <2>2, <2>3
<1>. QED BY <1>1, <1>2, <1>3, PTL
=============================================================================
