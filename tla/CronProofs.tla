----------------------------- MODULE CronProofs -----------------------------
(***************************************************************************)
(* Proofs about Cron, for any number of instances, occurrences, retries    *)
(* and faults.                                                             *)
(*                                                                         *)
(* Sends: a job that met no fault has one handler, whose only attempt      *)
(* sends once; and a handler completes only after its send.  Bounds: what  *)
(* a pass knows was due by its estimate of a time within MaxDelay.         *)
(* Minutes: an insert lands in the minute of its occurrence or beside it;  *)
(* and a minute is covered at every moment, by its job, by a pass that     *)
(* will insert it, or by the next one to win the gate, which comes in      *)
(* time.                                                                   *)
(***************************************************************************)
EXTENDS Cron, FiniteSetTheorems, TLAPS

\* The passes without the bounds that only TLC needs, and the rows of any pass.
JobRow == [for : Occurrence \cup {-1}, off : BOOLEAN,
           state : {"created", "active", "completed", "failed"},
           tries : 0..(RetryLimit + 1), sent : 0..2, erred : BOOLEAN, forced : BOOLEAN]
PassRow == [at : {"won", "due"}, since : Nat, due : Occurrence \cup {-1},
            slot : Int, exact : BOOLEAN]

Types ==
  /\ now \in Nat
  /\ pass \in [Instance -> PassRow \cup {NoPass}]
  /\ job \in [Slots -> JobRow \cup {NoJob}]
  /\ handlers \in [Slots -> SUBSET Handler]
  /\ hurt \subseteq Slots

\* What completes a job: its send, a report, or a stop that gave the job up.
Excused(row) == row.sent > 0 \/ row.erred \/ row.forced

\* A job that met no fault since it was fetched is in one handler's hands, once.
Unharmed(row, hands) ==
  /\ row.state # "failed" /\ row.sent <= 1
  /\ row.state = "created" => row.sent = 0
  /\ row.state # "active" => hands = {}
  /\ row.state = "active" =>
       \E h \in hands :
         /\ hands = {h} /\ h.try = row.tries /\ ~h.late
         /\ h.at \in {"sending", "completing"}
         /\ h.at = "sending" => row.sent = 0

JobRight(row, hands, harmed) ==
  /\ row.state = "created" => row.tries <= RetryLimit
  /\ row.state = "completed" \/ (\E h \in hands : h.at = "completing") => Excused(row)
  /\ harmed \/ Unharmed(row, hands)

JobsRight ==
  \A s \in Slots :
    /\ job[s] = NoJob => handlers[s] = {}
    /\ job[s] # NoJob => JobRight(job[s], handlers[s], s \in hurt)

\* The inductive invariant.
IndInv == Types /\ JobsRight

-----------------------------------------------------------------------------
LEMMA SlotType ==
  ASSUME NEW t \in Nat
  PROVE  SlotOf(t) \in Int
BY TimeAssumption DEF SlotOf

LEMMA RowIsNotNoJob ==
  ASSUME NEW row \in JobRow
  PROVE  row # NoJob
<1>1. row.state # "none" BY DEF JobRow
<1>2. NoJob.state = "none" BY DEF NoJob
<1>. QED BY <1>1, <1>2

\* A row that is there, and every row somebody handles, is a row of fields.
LEMMA JobOf ==
  ASSUME IndInv, NEW s \in Slots,
         \/ job[s].state \in {"created", "active", "completed", "failed"}
         \/ handlers[s] # {} \/ job[s] # NoJob
  PROVE  /\ job[s] \in JobRow /\ handlers[s] \subseteq Handler
         /\ JobRight(job[s], handlers[s], s \in hurt)
<1>1. NoJob.state = "none" BY DEF NoJob
<1>2. job[s] # NoJob BY <1>1 DEF IndInv, JobsRight
<1>. QED BY <1>2 DEF IndInv, Types, JobsRight

LEMMA PassOf ==
  ASSUME IndInv, NEW i \in Instance, pass[i] # NoPass
  PROVE  pass[i] \in PassRow
BY DEF IndInv, Types

\* What a step of a worker or of the supervisor does to the job of slot s.
Forwarded(s) ==
  /\ job[s] \in JobRow
  /\ \E row \in JobRow, hands \in SUBSET Handler :
       /\ row.for = job[s].for /\ row.off = job[s].off
       /\ Forwards(s, row, hands)
       /\ JobRight(row, hands, s \in hurt')
  /\ hurt' \in {hurt, hurt \cup {s}}
  /\ faults' = faults \/ Fails

LEMMA ForwardedStep ==
  ASSUME IndInv, NEW s \in Slots, Forwarded(s)
  PROVE  IndInv'
<1>1. PICK row \in JobRow, hands \in SUBSET Handler :
        Forwards(s, row, hands) /\ JobRight(row, hands, s \in hurt')
  BY DEF Forwarded
<1>2. /\ job'[s] = row /\ handlers'[s] = hands
      /\ \A t \in Slots \ {s} : job'[t] = job[t] /\ handlers'[t] = handlers[t]
      /\ \A t \in Slots \ {s} : t \in hurt' <=> t \in hurt
  BY <1>1 DEF Forwarded, Forwards, IndInv, Types
<1>3. Types' BY <1>1 DEF Forwarded, Forwards, IndInv, Types
<1>4. ASSUME NEW t \in Slots
      PROVE  /\ job'[t] = NoJob => handlers'[t] = {}
             /\ job'[t] # NoJob => JobRight(job'[t], handlers'[t], t \in hurt')
  <2>1. CASE t = s BY <1>1, <1>2, <2>1, RowIsNotNoJob
  <2>2. CASE t # s
    <3>1. job'[t] = job[t] /\ handlers'[t] = handlers[t] /\ (t \in hurt' <=> t \in hurt)
      BY <1>2, <2>2
    <3>2. job[t] = NoJob => handlers[t] = {} BY DEF IndInv, JobsRight
    <3>3. job[t] # NoJob => JobRight(job[t], handlers[t], t \in hurt)
      BY DEF IndInv, JobsRight
    <3>. QED BY <3>1, <3>2, <3>3 DEF JobRight
  <2>. QED BY <2>1, <2>2
<1>5. JobsRight' BY <1>4 DEF JobsRight, JobRight, Unharmed, Excused, NoJob
<1>. QED BY <1>3, <1>5 DEF IndInv

\* A step of the clock, an instance or a pass.
LEMMA PassStep ==
  ASSUME IndInv, now' \in Nat, pass' \in [Instance -> PassRow \cup {NoPass}],
         UNCHANGED queue
  PROVE  IndInv'
BY DEF IndInv, Types, JobsRight, JobRight, Unharmed, Excused, NoJob, queue

-----------------------------------------------------------------------------
(* The rows the statements write.                                           *)

\* The fields no statement of a worker changes.
SameJob(row, r) == row.for = r.for /\ row.off = r.off

LEMMA TakenRow ==
  ASSUME NEW r \in JobRow, r.tries <= RetryLimit
  PROVE  /\ Taken(r) \in JobRow /\ SameJob(Taken(r), r)
         /\ Taken(r).state = "active" /\ Taken(r).tries = r.tries + 1
         /\ Taken(r).sent = r.sent /\ Taken(r).erred = r.erred /\ Taken(r).forced = r.forced
<1>1. r.tries + 1 \in 0..(RetryLimit + 1) BY TimeAssumption DEF JobRow
<1>. QED BY <1>1 DEF Taken, JobRow, SameJob

LEMMA PutBackRow ==
  ASSUME NEW r \in JobRow
  PROVE  /\ PutBack(r) \in JobRow /\ SameJob(PutBack(r), r)
         /\ PutBack(r).state = "created" => PutBack(r).tries <= RetryLimit
         /\ PutBack(r).state = "completed" => r.state = "completed"
         /\ PutBack(r).sent = r.sent /\ PutBack(r).erred = r.erred
         /\ PutBack(r).forced = r.forced
<1>1. r.tries \in Nat /\ RetryLimit \in Nat BY TimeAssumption DEF JobRow
<1>2. CASE r.state \in {"created", "active"} /\ r.tries > RetryLimit
  <2>1. PutBack(r) = [r EXCEPT !.state = "failed"] BY <1>2 DEF PutBack
  <2>. QED BY <2>1 DEF JobRow, SameJob
<1>3. CASE r.state \in {"created", "active"} /\ ~(r.tries > RetryLimit)
  <2>1. PutBack(r) = [r EXCEPT !.state = "created"] BY <1>3 DEF PutBack
  <2>. QED BY <1>1, <1>3, <2>1 DEF JobRow, SameJob
<1>4. CASE r.state \notin {"created", "active"}
  <2>1. PutBack(r) = r BY <1>4 DEF PutBack
  <2>. QED BY <1>4, <2>1 DEF JobRow, SameJob
<1>. QED BY <1>2, <1>3, <1>4

LEMMA DoneRow ==
  ASSUME NEW r \in JobRow
  PROVE  /\ Done(r) \in JobRow /\ SameJob(Done(r), r)
         /\ Done(r).state = (IF r.state = "active" THEN "completed" ELSE r.state)
         /\ Done(r).tries = r.tries /\ Done(r).sent = r.sent /\ Done(r).erred = r.erred
         /\ Done(r).forced = r.forced
BY DEF Done, JobRow, SameJob

LEMMA OneMoreRow ==
  ASSUME NEW r \in JobRow
  PROVE  /\ OneMore(r) \in JobRow /\ SameJob(OneMore(r), r)
         /\ OneMore(r).state = r.state /\ OneMore(r).tries = r.tries
         /\ OneMore(r).sent > 0 /\ OneMore(r).sent <= r.sent + 1
         /\ OneMore(r).erred = r.erred /\ OneMore(r).forced = r.forced
<1>. DEFINE n == IF r.sent = 2 THEN 2 ELSE r.sent + 1
<1>1. n \in 0..2 /\ n > 0 /\ n <= r.sent + 1 BY DEF JobRow
<1>2. OneMore(r) = [r EXCEPT !.sent = n] BY DEF OneMore
<1>. HIDE DEF n
<1>. QED BY <1>1, <1>2 DEF JobRow, SameJob

LEMMA ErredRow ==
  ASSUME NEW r \in JobRow
  PROVE  /\ [r EXCEPT !.erred = TRUE] \in JobRow
         /\ SameJob([r EXCEPT !.erred = TRUE], r)
         /\ [r EXCEPT !.erred = TRUE].erred
         /\ [r EXCEPT !.erred = TRUE].state = r.state
         /\ [r EXCEPT !.erred = TRUE].tries = r.tries
         /\ [r EXCEPT !.erred = TRUE].sent = r.sent
BY DEF JobRow, SameJob

LEMMA ForcedRow ==
  ASSUME NEW r \in JobRow
  PROVE  /\ [r EXCEPT !.forced = TRUE] \in JobRow
         /\ SameJob([r EXCEPT !.forced = TRUE], r)
         /\ [r EXCEPT !.forced = TRUE].forced
         /\ [r EXCEPT !.forced = TRUE].state = r.state
         /\ [r EXCEPT !.forced = TRUE].tries = r.tries
BY DEF JobRow, SameJob

-----------------------------------------------------------------------------
LEMMA OnCronStep ==
  ASSUME IndInv, NEW i \in Instance, OnCron(i)
  PROVE  IndInv'
<1>1. [at |-> "won", since |-> now, due |-> -1, slot |-> -1, exact |-> TRUE] \in PassRow
  BY DEF PassRow, IndInv, Types
<1>2. pass' \in [Instance -> PassRow \cup {NoPass}]
  BY <1>1 DEF OnCron, IndInv, Types
<1>. QED BY <1>2, PassStep DEF OnCron, IndInv, Types

LEMMA EvaluateStep ==
  ASSUME IndInv, NEW i \in Instance, Evaluate(i)
  PROVE  IndInv'
<1>1. pass[i] \in PassRow BY PassOf DEF Evaluate
<1>2. now \in Nat /\ SlotOf(now) \in Int BY SlotType DEF IndInv, Types
<1>3. \/ pass' = [pass EXCEPT ![i] = NoPass]
      \/ \E e \in Errors : \E t \in Occurrence :
           pass' = [pass EXCEPT ![i] =
             [@ EXCEPT !.at = "due", !.due = t, !.slot = SlotOf(now), !.exact = (e = 0)]]
  BY DEF Evaluate
<1>4. CASE pass' = [pass EXCEPT ![i] = NoPass]
  <2>1. pass' \in [Instance -> PassRow \cup {NoPass}] BY <1>4 DEF IndInv, Types
  <2>. QED BY <1>2, <2>1, PassStep DEF Evaluate, fleet
<1>5. ASSUME NEW e \in Errors, NEW t \in Occurrence,
             pass' = [pass EXCEPT ![i] =
               [@ EXCEPT !.at = "due", !.due = t, !.slot = SlotOf(now), !.exact = (e = 0)]]
      PROVE  IndInv'
  <2>1. ASSUME NEW p \in PassRow, NEW n \in Int, NEW b \in BOOLEAN
        PROVE  [p EXCEPT !.at = "due", !.due = t, !.slot = n, !.exact = b] \in PassRow
    BY DEF PassRow
  <2>2. [pass[i] EXCEPT !.at = "due", !.due = t, !.slot = SlotOf(now), !.exact = (e = 0)]
          \in PassRow
    BY <1>1, <1>2, <2>1
  <2>3. pass' \in [Instance -> PassRow \cup {NoPass}] BY <1>5, <2>2 DEF IndInv, Types
  <2>. QED BY <1>2, <2>3, PassStep DEF Evaluate
<1>. QED BY <1>3, <1>4, <1>5

\* A new row has sent nothing.
LEMMA NewRow ==
  ASSUME NEW i \in Instance, pass[i] \in PassRow
  PROVE  /\ NewJob(i) \in JobRow /\ NewJob(i).tries = 0 /\ NewJob(i).sent = 0
         /\ NewJob(i).state = "created" /\ NewJob(i).for = pass[i].due
         /\ NewJob(i).off = (~pass[i].exact \/ pass[i].slot # SlotOf(now))
BY TimeAssumption DEF NewJob, JobRow, PassRow

LEMMA InsertStep ==
  ASSUME IndInv, NEW i \in Instance, Insert(i)
  PROVE  IndInv'
<1>. DEFINE s == SlotOf(now)
            new == NewJob(i)
<1>1. pass[i] \in PassRow BY PassOf DEF Insert
<1>2. new \in JobRow /\ new.state = "created" /\ new.tries = 0 /\ new.sent = 0
  BY <1>1, NewRow
<1>3. JobRight(new, {}, FALSE) /\ JobRight(new, {}, TRUE)
  BY <1>2, TimeAssumption DEF JobRight, Unharmed
<1>4. /\ job' = job \/ (job[s] = NoJob /\ job' = [job EXCEPT ![s] = new])
      /\ pass' = [pass EXCEPT ![i] = NoPass] /\ UNCHANGED <<now, handlers, hurt>>
  BY DEF Insert, Throttled
<1>. HIDE DEF s, new
<1>5. Types' BY <1>2, <1>4 DEF IndInv, Types
<1>6. ASSUME NEW t \in Slots
      PROVE  /\ job'[t] = NoJob => handlers'[t] = {}
             /\ job'[t] # NoJob => JobRight(job'[t], handlers'[t], t \in hurt')
  <2>1. CASE job'[t] = job[t]
    <3>1. job[t] = NoJob => handlers[t] = {} BY DEF IndInv, JobsRight
    <3>2. job[t] # NoJob => JobRight(job[t], handlers[t], t \in hurt)
      BY DEF IndInv, JobsRight
    <3>. QED BY <1>4, <2>1, <3>1, <3>2
  <2>2. CASE job'[t] # job[t]
    <3>1. job[t] = NoJob /\ job'[t] = new BY <1>4, <2>2 DEF IndInv, Types
    <3>2. handlers'[t] = {} BY <1>4, <3>1 DEF IndInv, JobsRight
    <3>3. JobRight(new, {}, t \in hurt') BY <1>3 DEF JobRight
    <3>. QED BY <1>2, <3>1, <3>2, <3>3, RowIsNotNoJob
  <2>. QED BY <2>1, <2>2
<1>7. JobsRight' BY <1>6 DEF JobsRight, JobRight, Unharmed, Excused, NoJob
<1>. QED BY <1>5, <1>7 DEF IndInv

-----------------------------------------------------------------------------
(* Instances that go down.                                                  *)

\* Nobody but the jobs an instance holds notices that it goes down.
LEMMA UnharmedWithout ==
  ASSUME IndInv, NEW i \in Instance, NEW s \in Slots, job[s] # NoJob,
         s \notin hurt \cup Held(i)
  PROVE  \A h \in handlers[s] : h.by # i
<1>1. Unharmed(job[s], handlers[s]) BY JobOf DEF JobRight
<1>2. \A h \in handlers[s] : h.at # "stray" BY <1>1 DEF Unharmed
<1>. QED BY <1>2 DEF Held

LEMMA CrashStep ==
  ASSUME IndInv, NEW i \in Instance, Crash(i)
  PROVE  IndInv'
<1>1. /\ UNCHANGED <<now, job>> /\ pass' = [pass EXCEPT ![i] = NoPass]
      /\ hurt' = hurt \cup Held(i)
      /\ handlers' = [s \in Slots |-> {h \in handlers[s] : h.by # i}]
  BY DEF Crash, Down
<1>2. Held(i) \subseteq Slots BY DEF Held
<1>3. Types' BY <1>1, <1>2 DEF IndInv, Types
<1>4. ASSUME NEW s \in Slots
      PROVE  /\ job[s] = NoJob => handlers'[s] = {}
             /\ job[s] # NoJob => JobRight(job[s], handlers'[s], s \in hurt')
  <2>1. handlers'[s] \subseteq handlers[s] BY <1>1
  <2>2. CASE job[s] = NoJob BY <2>1, <2>2 DEF IndInv, JobsRight
  <2>3. CASE job[s] # NoJob
    <3>1. JobRight(job[s], handlers[s], s \in hurt) BY <2>3, JobOf
    <3>2. CASE s \in hurt' BY <2>1, <2>3, <3>1, <3>2 DEF JobRight
    <3>3. CASE s \notin hurt'
      <4>1. \A h \in handlers[s] : h.by # i BY <1>1, <2>3, <3>3, UnharmedWithout
      <4>2. handlers'[s] = handlers[s] BY <1>1, <4>1
      <4>. QED BY <1>1, <2>3, <3>1, <3>3, <4>2 DEF JobRight
    <3>. QED BY <2>3, <3>2, <3>3
  <2>. QED BY <2>2, <2>3
<1>5. JobsRight' BY <1>1, <1>4 DEF JobsRight, JobRight, Unharmed, Excused, NoJob
<1>. QED BY <1>3, <1>5 DEF IndInv

\* The row of a job that a stop gives up.
LEMMA GivenUp ==
  ASSUME NEW r \in JobRow
  PROVE  LET k == [PutBack(r) EXCEPT !.forced = TRUE]
         IN  /\ k \in JobRow /\ SameJob(k, r) /\ k.forced
             /\ k.state = "created" => k.tries <= RetryLimit
<1>1. PutBack(r) \in JobRow BY PutBackRow
<1>. QED BY <1>1, PutBackRow, ForcedRow DEF SameJob

LEMMA AbortedType ==
  ASSUME NEW h \in Handler
  PROVE  Aborted(h) \subseteq Handler
BY DEF Aborted, Handler

LEMMA ForcedHeld ==
  ASSUME IndInv, NEW i \in Instance, ForcedStop(i), NEW s \in Held(i)
  PROVE  /\ job[s] \in JobRow /\ job'[s] \in JobRow
         /\ job'[s].for = job[s].for /\ job'[s].off = job[s].off /\ job'[s].forced
         /\ job'[s].state = "created" => job'[s].tries <= RetryLimit
<1>1. s \in Slots /\ handlers[s] # {} BY DEF Held
<1>2. job[s] \in JobRow BY <1>1, JobOf
<1>3. job'[s] = [PutBack(job[s]) EXCEPT !.forced = TRUE] BY <1>1 DEF ForcedStop
<1>. QED BY <1>2, <1>3, GivenUp DEF SameJob

LEMMA ForcedFree ==
  ASSUME IndInv, NEW i \in Instance, ForcedStop(i), NEW s \in Slots, s \notin Held(i)
  PROVE  /\ job'[s] = job[s]
         /\ \A h \in handlers'[s] : h.at = "completing" => h \in handlers[s]
<1>1. job'[s] = job[s] BY DEF ForcedStop
<1>2. ASSUME NEW h \in handlers'[s], h.at = "completing" PROVE h \in handlers[s]
  <2>1. PICK g \in handlers[s] : h \in IF g.by = i THEN Aborted(g) ELSE {g}
    BY DEF ForcedStop
  <2>2. CASE g.by = i
    <3>1. g.at = "stray" BY <2>2 DEF Held
    <3>. QED BY <2>1, <2>2, <3>1 DEF Aborted
  <2>3. CASE g.by # i BY <2>1, <2>3
  <2>. QED BY <2>2, <2>3
<1>. QED BY <1>1, <1>2

LEMMA ForcedHandlers ==
  ASSUME IndInv, NEW i \in Instance, ForcedStop(i), NEW s \in Slots
  PROVE  handlers'[s] \in SUBSET Handler
<1>1. handlers'[s] = UNION {IF h.by = i THEN Aborted(h) ELSE {h} : h \in handlers[s]}
  BY DEF ForcedStop
<1>2. handlers[s] \subseteq Handler BY DEF IndInv, Types
<1>. SUFFICES ASSUME NEW h \in handlers[s]
              PROVE  (IF h.by = i THEN Aborted(h) ELSE {h}) \subseteq Handler
  BY <1>1
<1>. QED BY <1>2, AbortedType

LEMMA ForcedStopStep ==
  ASSUME IndInv, NEW i \in Instance, ForcedStop(i)
  PROVE  IndInv'
<1>1. /\ now' = now /\ pass' = [pass EXCEPT ![i] = NoPass]
      /\ hurt' = hurt \cup Held(i) /\ Held(i) \subseteq Slots
      /\ job' = [s \in Slots |->
           IF s \in Held(i) THEN [PutBack(job[s]) EXCEPT !.forced = TRUE] ELSE job[s]]
      /\ handlers' = [s \in Slots |->
           UNION {IF h.by = i THEN Aborted(h) ELSE {h} : h \in handlers[s]}]
  BY DEF ForcedStop, Down, Held
<1>2. ASSUME NEW s \in Slots
      PROVE  job'[s] \in JobRow \cup {NoJob} /\ handlers'[s] \in SUBSET Handler
  <2>1. job[s] \in JobRow \cup {NoJob} BY DEF IndInv, Types
  <2>2. handlers'[s] \in SUBSET Handler BY ForcedHandlers
  <2>3. CASE s \in Held(i)
    <3>1. job'[s] \in JobRow BY <2>3, ForcedHeld
    <3>. QED BY <2>2, <3>1
  <2>4. CASE s \notin Held(i)
    <3>1. job'[s] = job[s] BY <2>4, ForcedFree
    <3>. QED BY <2>1, <2>2, <3>1
  <2>. QED BY <2>3, <2>4
<1>3. Types'
  <2>1. job' \in [Slots -> JobRow \cup {NoJob}] BY <1>1, <1>2
  <2>2. handlers' \in [Slots -> SUBSET Handler] BY <1>1, <1>2
  <2>3. pass' \in [Instance -> PassRow \cup {NoPass}] BY <1>1 DEF IndInv, Types
  <2>. QED BY <1>1, <2>1, <2>2, <2>3 DEF IndInv, Types
<1>4. ASSUME NEW s \in Slots
      PROVE  /\ job'[s] = NoJob => handlers'[s] = {}
             /\ job'[s] # NoJob => JobRight(job'[s], handlers'[s], s \in hurt')
  <2>1. CASE s \in Held(i)
    <3>1. s \in hurt' BY <1>1, <2>1
    <3>2. job'[s] \in JobRow /\ job'[s].forced
          /\ (job'[s].state = "created" => job'[s].tries <= RetryLimit)
      BY <2>1, ForcedHeld
    <3>. QED BY <3>1, <3>2, RowIsNotNoJob DEF JobRight, Excused
  <2>2. CASE s \notin Held(i) /\ job[s] = NoJob
    <3>1. handlers[s] = {} /\ job'[s] = NoJob BY <1>1, <2>2 DEF IndInv, JobsRight
    <3>2. handlers'[s] = {} BY <1>1, <3>1
    <3>. QED BY <3>1, <3>2
  <2>3. CASE s \notin Held(i) /\ job[s] # NoJob
    <3>1. job'[s] = job[s] BY <2>3, ForcedFree
    <3>2. JobRight(job[s], handlers[s], s \in hurt) BY <2>3, JobOf
    <3>3. CASE s \in hurt'
      <4>1. \A h \in handlers'[s] : h.at = "completing" => h \in handlers[s]
        BY <2>3, ForcedFree
      <4>. QED BY <2>3, <3>1, <3>2, <3>3, <4>1 DEF JobRight
    <3>4. CASE s \notin hurt'
      <4>1. \A h \in handlers[s] : h.by # i BY <1>1, <2>3, <3>4, UnharmedWithout
      <4>2. handlers'[s] = handlers[s]
        <5>1. handlers'[s] = UNION {{h} : h \in handlers[s]} BY <1>1, <4>1
        <5>. QED BY <5>1
      <4>. QED BY <1>1, <2>3, <3>1, <3>2, <3>4, <4>2 DEF JobRight
    <3>. QED BY <3>3, <3>4
  <2>. QED BY <2>1, <2>2, <2>3
<1>5. JobsRight' BY <1>4 DEF JobsRight, JobRight, Unharmed, Excused, NoJob
<1>. QED BY <1>3, <1>5 DEF IndInv

-----------------------------------------------------------------------------
(* What the worker and the supervisor do to a job.                          *)

LEMMA FetchStep ==
  ASSUME IndInv, NEW i \in Instance, NEW s \in Slots, Fetch(i, s)
  PROVE  Forwarded(s)
<1>. DEFINE h == [by |-> i, try |-> job[s].tries + 1, late |-> FALSE, at |-> "sending"]
            row == Taken(job[s])
            hands == handlers[s] \cup {h}
<1>1. job[s].state = "created" /\ Forwards(s, row, hands) /\ UNCHANGED <<faults, hurt>>
  BY DEF Fetch, Waiting, NoFault
<1>2. /\ job[s] \in JobRow /\ handlers[s] \subseteq Handler
      /\ JobRight(job[s], handlers[s], s \in hurt)
  BY <1>1, JobOf
<1>3. job[s].tries <= RetryLimit BY <1>1, <1>2 DEF JobRight
<1>4. /\ row \in JobRow /\ SameJob(row, job[s]) /\ row.state = "active"
      /\ row.tries = job[s].tries + 1
      /\ row.sent = job[s].sent /\ row.erred = job[s].erred /\ row.forced = job[s].forced
  BY <1>2, <1>3, TakenRow
<1>5. h \in Handler BY <1>2, <1>3, TimeAssumption DEF Handler, JobRow
<1>6. /\ h.at = "sending" /\ ~h.late /\ h.try = job[s].tries + 1 /\ h \in hands
      /\ hands = handlers[s] \cup {h}
  OBVIOUS
<1>. HIDE DEF h, row, hands
<1>7. s \notin hurt => Unharmed(row, hands)
  <2>. SUFFICES ASSUME s \notin hurt PROVE Unharmed(row, hands) OBVIOUS
  <2>1. Unharmed(job[s], handlers[s]) BY <1>2 DEF JobRight
  <2>2. handlers[s] = {} /\ job[s].sent = 0 BY <1>1, <2>1 DEF Unharmed
  <2>. QED BY <1>4, <1>6, <2>2 DEF Unharmed
<1>8. JobRight(row, hands, s \in hurt') BY <1>1, <1>2, <1>4, <1>6, <1>7 DEF JobRight, Excused
<1>. QED BY <1>1, <1>2, <1>4, <1>5, <1>6, <1>8 DEF Forwarded, SameJob

\* A fault gives up what holds of an unharmed job.
LEMMA FaultStep ==
  ASSUME IndInv, NEW s \in Slots, job[s] \in JobRow,
         NEW row \in JobRow, SameJob(row, job[s]), NEW hands \in SUBSET Handler,
         Forwards(s, row, hands),
         row.state = "created" => row.tries <= RetryLimit,
         row.state = "completed" \/ (\E h \in hands : h.at = "completing") => Excused(row),
         hurt' \in {hurt, hurt \cup {s}}, s \in hurt', faults' = faults \/ Fails
  PROVE  Forwarded(s)
<1>1. JobRight(row, hands, s \in hurt') BY DEF JobRight
<1>. QED BY <1>1 DEF Forwarded, SameJob

LEMMA FetchFailsStep ==
  ASSUME IndInv, NEW s \in Slots, FetchFails(s)
  PROVE  Forwarded(s)
<1>. DEFINE row == Taken(job[s])
<1>1. /\ job[s].state = "created" /\ Forwards(s, row, handlers[s])
      /\ Fails /\ hurt' = hurt \cup {s}
  BY DEF FetchFails, Waiting, Fault
<1>2. /\ job[s] \in JobRow /\ handlers[s] \subseteq Handler
      /\ JobRight(job[s], handlers[s], s \in hurt)
  BY <1>1, JobOf
<1>3. job[s].tries <= RetryLimit BY <1>1, <1>2 DEF JobRight
<1>4. /\ row \in JobRow /\ SameJob(row, job[s]) /\ row.state = "active"
      /\ row.sent = job[s].sent /\ row.erred = job[s].erred /\ row.forced = job[s].forced
  BY <1>2, <1>3, TakenRow
<1>. HIDE DEF row
<1>. QED BY <1>1, <1>2, <1>4, FaultStep DEF JobRight, Excused

\* A job somebody handles; unharmed, by nobody else.
LEMMA HandledJob ==
  ASSUME IndInv, NEW s \in Slots, NEW h \in handlers[s]
  PROVE  /\ job[s] \in JobRow /\ handlers[s] \subseteq Handler /\ h \in Handler
         /\ JobRight(job[s], handlers[s], s \in hurt)
         /\ s \notin hurt =>
              /\ handlers[s] = {h} /\ h.try = job[s].tries /\ ~h.late
              /\ h.at \in {"sending", "completing"} /\ job[s].state = "active"
              /\ job[s].sent <= 1 /\ (h.at = "sending" => job[s].sent = 0)
<1>1. /\ job[s] \in JobRow /\ handlers[s] \subseteq Handler
      /\ JobRight(job[s], handlers[s], s \in hurt)
  BY JobOf
<1>2. ASSUME s \notin hurt
      PROVE  /\ handlers[s] = {h} /\ h.try = job[s].tries /\ ~h.late
             /\ h.at \in {"sending", "completing"} /\ job[s].state = "active"
             /\ job[s].sent <= 1 /\ (h.at = "sending" => job[s].sent = 0)
  <2>1. Unharmed(job[s], handlers[s]) BY <1>1, <1>2 DEF JobRight
  <2>2. job[s].state = "active" BY <2>1 DEF Unharmed
  <2>. QED BY <2>1, <2>2 DEF Unharmed
<1>. QED BY <1>1, <1>2

LEMMA HandlerMoves ==
  ASSUME NEW h \in Handler
  PROVE  /\ \A at \in {"sending", "completing", "failing", "stray"} :
              LET g == [h EXCEPT !.at = at]
              IN g \in Handler /\ g.at = at /\ g.try = h.try /\ g.late = h.late
         /\ LET g == [h EXCEPT !.late = TRUE] IN g \in Handler /\ g.at = h.at
BY DEF Handler

\* The send of a handler is over, and row is what became of the job.
LEMMA SendOver ==
  ASSUME IndInv, NEW s \in Slots, NEW h \in handlers[s], h.at \in {"sending", "stray"},
         NEW row \in JobRow, SameJob(row, job[s]), Excused(row),
         row.state = job[s].state, row.tries = job[s].tries, row.sent <= job[s].sent + 1,
         Forwards(s, row, Sent(s, h)), hurt' = hurt, faults' = faults \/ Fails
  PROVE  Forwarded(s)
<1>. DEFINE g == [h EXCEPT !.at = "completing"]
<1>1. /\ job[s] \in JobRow /\ handlers[s] \subseteq Handler /\ h \in Handler
      /\ JobRight(job[s], handlers[s], s \in hurt)
  BY HandledJob
<1>2. g \in Handler /\ g.at = "completing" /\ g.try = h.try /\ g.late = h.late
  BY <1>1, HandlerMoves
<1>3. Sent(s, h) \in SUBSET Handler
  <2>1. Sent(s, h) \subseteq handlers[s] \cup {g} BY DEF Sent, Becomes, Without
  <2>. QED BY <1>1, <1>2, <2>1
<1>4. s \notin hurt => Unharmed(row, Sent(s, h))
  <2>. SUFFICES ASSUME s \notin hurt PROVE Unharmed(row, Sent(s, h)) OBVIOUS
  <2>1. /\ handlers[s] = {h} /\ h.try = job[s].tries /\ ~h.late
        /\ h.at = "sending" /\ job[s].state = "active" /\ job[s].sent = 0
    BY HandledJob
  <2>2. Sent(s, h) = {g} BY <2>1 DEF Sent, Becomes, Without
  <2>3. row.sent <= 1 /\ row.state = "active" BY <2>1
  <2>. HIDE DEF g
  <2>. QED BY <1>2, <2>1, <2>2, <2>3 DEF Unharmed
<1>5. JobRight(row, Sent(s, h), s \in hurt') BY <1>1, <1>4 DEF JobRight
<1>. QED BY <1>1, <1>3, <1>5 DEF Forwarded, SameJob

LEMMA SendStep ==
  ASSUME IndInv, NEW s \in Slots, NEW h \in handlers[s], Send(s, h)
  PROVE  Forwarded(s)
<1>1. job[s] \in JobRow BY HandledJob
<1>2. Excused(OneMore(job[s])) BY <1>1, OneMoreRow DEF Excused
<1>3. h.at \in {"sending", "stray"} /\ Forwards(s, OneMore(job[s]), Sent(s, h))
      /\ hurt' = hurt /\ faults' = faults
  BY DEF Send, NoFault
<1>. QED BY <1>1, <1>2, <1>3, OneMoreRow, SendOver

LEMMA SendFailsStep ==
  ASSUME IndInv, NEW s \in Slots, NEW h \in handlers[s], SendFails(s, h)
  PROVE  Forwarded(s)
<1>1. job[s] \in JobRow BY HandledJob
<1>2. PICK r \in {job[s], OneMore(job[s])} :
        Forwards(s, [r EXCEPT !.erred = TRUE], Sent(s, h))
  BY DEF SendFails
<1>3. /\ r \in JobRow /\ SameJob(r, job[s]) /\ r.state = job[s].state
      /\ r.tries = job[s].tries /\ r.sent <= job[s].sent + 1
  <2>1. CASE r = job[s] BY <1>1, <2>1 DEF SameJob, JobRow
  <2>2. CASE r = OneMore(job[s]) BY <1>1, <2>2, OneMoreRow
  <2>. QED BY <1>2, <2>1, <2>2
<1>. DEFINE row == [r EXCEPT !.erred = TRUE]
<1>4. /\ row \in JobRow /\ SameJob(row, r) /\ row.erred /\ row.state = r.state
      /\ row.tries = r.tries /\ row.sent = r.sent
  BY <1>3, ErredRow
<1>5. Forwards(s, row, Sent(s, h)) BY <1>2
<1>6. h.at \in {"sending", "stray"} /\ hurt' = hurt /\ Fails BY DEF SendFails
<1>. HIDE DEF row
<1>7. SameJob(row, job[s]) /\ Excused(row) BY <1>3, <1>4 DEF SameJob, Excused
<1>. QED BY <1>3, <1>4, <1>5, <1>6, <1>7, SendOver

LEMMA CompleteStep ==
  ASSUME IndInv, NEW s \in Slots, NEW h \in handlers[s], Complete(s, h)
  PROVE  Forwarded(s)
<1>. DEFINE row == Done(job[s])
<1>1. /\ h.at = "completing" /\ Forwards(s, row, Without(s, h))
      /\ hurt' = hurt /\ faults' = faults
  BY DEF Complete, AllSettled, NoFault
<1>2. /\ job[s] \in JobRow /\ handlers[s] \subseteq Handler
      /\ JobRight(job[s], handlers[s], s \in hurt)
  BY HandledJob
<1>3. /\ row \in JobRow /\ SameJob(row, job[s])
      /\ row.state = (IF job[s].state = "active" THEN "completed" ELSE job[s].state)
      /\ row.tries = job[s].tries /\ row.sent = job[s].sent
      /\ row.erred = job[s].erred /\ row.forced = job[s].forced
  BY <1>2, DoneRow
<1>4. Without(s, h) \in SUBSET Handler BY <1>2 DEF Without
<1>. HIDE DEF row
<1>5. Excused(row) BY <1>1, <1>2, <1>3 DEF JobRight, Excused
<1>6. s \notin hurt => Unharmed(row, Without(s, h))
  <2>. SUFFICES ASSUME s \notin hurt PROVE Unharmed(row, Without(s, h)) OBVIOUS
  <2>1. handlers[s] = {h} /\ job[s].state = "active" /\ job[s].sent <= 1 BY HandledJob
  <2>2. Without(s, h) = {} BY <2>1 DEF Without
  <2>. QED BY <1>3, <2>1, <2>2 DEF Unharmed
<1>7. JobRight(row, Without(s, h), s \in hurt')
  BY <1>1, <1>2, <1>3, <1>5, <1>6 DEF JobRight
<1>. QED BY <1>1, <1>2, <1>3, <1>4, <1>7 DEF Forwarded, SameJob

LEMMA CompleteFailsStep ==
  ASSUME IndInv, NEW s \in Slots, NEW h \in handlers[s], CompleteFails(s, h)
  PROVE  Forwarded(s)
<1>1. PICK row \in {job[s], Done(job[s])} : Forwards(s, row, Becomes(s, h, "failing"))
  BY DEF CompleteFails
<1>2. h.at = "completing" /\ Fails /\ hurt' = hurt \cup {s}
  BY DEF CompleteFails, AllSettled, Fault
<1>3. /\ job[s] \in JobRow /\ handlers[s] \subseteq Handler /\ h \in Handler
      /\ JobRight(job[s], handlers[s], s \in hurt)
  BY HandledJob
<1>4. /\ row \in JobRow /\ SameJob(row, job[s])
      /\ row.state = "created" => job[s].state = "created"
      /\ row.tries = job[s].tries /\ row.sent = job[s].sent
      /\ row.erred = job[s].erred /\ row.forced = job[s].forced
  <2>1. CASE row = job[s] BY <1>3, <2>1 DEF SameJob
  <2>2. CASE row = Done(job[s]) BY <1>3, <2>2, DoneRow
  <2>. QED BY <1>1, <2>1, <2>2
<1>5. Becomes(s, h, "failing") \in SUBSET Handler
  <2>1. [h EXCEPT !.at = "failing"] \in Handler BY <1>3, HandlerMoves
  <2>. QED BY <1>3, <2>1 DEF Becomes, Without
<1>6. Excused(row) BY <1>2, <1>3, <1>4 DEF JobRight, Excused
<1>7. row.state = "created" => row.tries <= RetryLimit BY <1>3, <1>4 DEF JobRight
<1>. QED BY <1>1, <1>2, <1>3, <1>4, <1>5, <1>6, <1>7, FaultStep

\* fail() of a handler, whatever became of it: its job had met a fault.
LEMMA FailsStep ==
  ASSUME IndInv, NEW s \in Slots, NEW h \in handlers[s], Fail(s, h) \/ FailFails(s, h)
  PROVE  Forwarded(s)
<1>1. PICK row \in {job[s], PutBack(job[s])} : Forwards(s, row, Without(s, h))
  BY DEF Fail, FailFails
<1>2. h.at = "failing" /\ hurt' = hurt /\ faults' = faults BY DEF Fail, FailFails, NoFault
<1>3. /\ job[s] \in JobRow /\ handlers[s] \subseteq Handler
      /\ JobRight(job[s], handlers[s], s \in hurt)
      /\ s \in hurt
  BY <1>2, HandledJob
<1>4. /\ row \in JobRow /\ SameJob(row, job[s])
      /\ row.state = "created" => row.tries <= RetryLimit
      /\ row.state = "completed" => job[s].state = "completed"
      /\ row.sent = job[s].sent /\ row.erred = job[s].erred /\ row.forced = job[s].forced
  <2>1. CASE row = job[s] BY <1>3, <2>1 DEF SameJob, JobRight
  <2>2. CASE row = PutBack(job[s]) BY <1>3, <2>2, PutBackRow
  <2>. QED BY <1>1, <2>1, <2>2
<1>5. Without(s, h) \in SUBSET Handler /\ Without(s, h) \subseteq handlers[s]
  BY <1>3 DEF Without
<1>6. row.state = "completed" \/ (\E g \in Without(s, h) : g.at = "completing") => Excused(row)
  BY <1>3, <1>4, <1>5 DEF JobRight, Excused
<1>. QED BY <1>1, <1>2, <1>3, <1>4, <1>5, <1>6, FaultStep

LEMMA OverrunStep ==
  ASSUME IndInv, NEW s \in Slots, NEW h \in handlers[s], Overrun(s, h)
  PROVE  Forwarded(s)
<1>. DEFINE g == [h EXCEPT !.late = TRUE]
            hands == Without(s, h) \cup {g}
<1>1. Forwards(s, job[s], hands) /\ Fails /\ hurt' = hurt \cup {s} BY DEF Overrun, Fault
<1>2. /\ job[s] \in JobRow /\ handlers[s] \subseteq Handler /\ h \in Handler
      /\ JobRight(job[s], handlers[s], s \in hurt)
  BY HandledJob
<1>3. g \in Handler /\ g.at = h.at BY <1>2, HandlerMoves
<1>4. hands \subseteq handlers[s] \cup {g} BY DEF Without
<1>. HIDE DEF g, hands
<1>5. hands \in SUBSET Handler BY <1>2, <1>3, <1>4
<1>6. job[s].state = "completed" \/ (\E k \in hands : k.at = "completing") => Excused(job[s])
  BY <1>2, <1>3, <1>4 DEF JobRight
<1>7. job[s].state = "created" => job[s].tries <= RetryLimit BY <1>2 DEF JobRight
<1>8. SameJob(job[s], job[s]) BY DEF SameJob
<1>. QED BY <1>1, <1>2, <1>5, <1>6, <1>7, <1>8, FaultStep

LEMMA TimesOutStep ==
  ASSUME IndInv, NEW s \in Slots, NEW h \in handlers[s], TimesOut(s, h)
  PROVE  Forwarded(s)
<1>. DEFINE f == [h EXCEPT !.at = "failing"]
            g == [h EXCEPT !.at = "stray"]
            hands == Becomes(s, h, "failing") \cup {g}
<1>1. Forwards(s, job[s], hands) /\ h.late /\ hurt' = hurt /\ faults' = faults
  BY DEF TimesOut, NoFault
<1>2. /\ job[s] \in JobRow /\ handlers[s] \subseteq Handler /\ h \in Handler
      /\ JobRight(job[s], handlers[s], s \in hurt)
      /\ s \in hurt
  BY <1>1, HandledJob
<1>3. f \in Handler /\ f.at = "failing" /\ g \in Handler /\ g.at = "stray"
  BY <1>2, HandlerMoves
<1>4. hands \subseteq handlers[s] \cup {f, g} BY DEF Becomes, Without
<1>. HIDE DEF f, g, hands
<1>5. hands \in SUBSET Handler BY <1>2, <1>3, <1>4
<1>6. job[s].state = "completed" \/ (\E k \in hands : k.at = "completing") => Excused(job[s])
  BY <1>2, <1>3, <1>4 DEF JobRight
<1>7. job[s].state = "created" => job[s].tries <= RetryLimit BY <1>2 DEF JobRight
<1>8. SameJob(job[s], job[s]) BY DEF SameJob
<1>. QED BY <1>1, <1>2, <1>5, <1>6, <1>7, <1>8, FaultStep

\* The supervisor leaves an unharmed job to its handler.
LEMMA ExpireStep ==
  ASSUME IndInv, NEW s \in Slots, Expire(s)
  PROVE  Forwarded(s)
<1>. DEFINE row == PutBack(job[s])
<1>1. /\ job[s].state = "active" /\ Forwards(s, row, handlers[s])
      /\ hurt' = hurt /\ faults' = faults
      /\ \A h \in handlers[s] : h.at # "stray" /\ h.try = job[s].tries => h.late
  BY DEF Expire, NoFault
<1>2. /\ job[s] \in JobRow /\ handlers[s] \in SUBSET Handler
      /\ JobRight(job[s], handlers[s], s \in hurt)
  BY <1>1, JobOf
<1>3. s \in hurt
  <2>. SUFFICES ASSUME s \notin hurt PROVE FALSE OBVIOUS
  <2>1. Unharmed(job[s], handlers[s]) BY <1>2 DEF JobRight
  <2>. QED BY <1>1, <2>1 DEF Unharmed
<1>4. /\ row \in JobRow /\ SameJob(row, job[s])
      /\ row.state = "created" => row.tries <= RetryLimit
      /\ row.state = "completed" => job[s].state = "completed"
      /\ row.sent = job[s].sent /\ row.erred = job[s].erred /\ row.forced = job[s].forced
  BY <1>2, PutBackRow
<1>. HIDE DEF row
<1>5. row.state = "completed" \/ (\E g \in handlers[s] : g.at = "completing") => Excused(row)
  BY <1>2, <1>4 DEF JobRight, Excused
<1>. QED BY <1>1, <1>2, <1>3, <1>4, <1>5, FaultStep

-----------------------------------------------------------------------------
LEMMA InitInvariance == Init => IndInv
<1>. SUFFICES ASSUME Init PROVE IndInv OBVIOUS
<1>1. Types BY DEF Init, Types
<1>2. JobsRight BY DEF Init, JobsRight
<1>. QED BY <1>1, <1>2 DEF IndInv

\* Every step is one of the clock, of an instance, of a pass, or of one job.
LEMMA StepKinds ==
  ASSUME IndInv, [Next]_vars
  PROVE  \/ Tick \/ UNCHANGED vars
         \/ \E i \in Instance : \/ Start(i) \/ Crash(i) \/ ForcedStop(i)
                              \/ OnCron(i) \/ Evaluate(i) \/ Insert(i) \/ PassFails(i)
         \/ \E s \in Slots : Forwarded(s)
<1>1. ASSUME NEW i \in Instance, NEW s \in Slots, Fetch(i, s) PROVE Forwarded(s)
  BY <1>1, FetchStep
<1>2. ASSUME NEW s \in Slots, FetchFails(s) \/ Expire(s) PROVE Forwarded(s)
  BY <1>2, FetchFailsStep, ExpireStep
<1>3. ASSUME NEW s \in Slots, NEW h \in handlers[s],
             \/ Send(s, h) \/ SendFails(s, h) \/ Complete(s, h) \/ CompleteFails(s, h)
             \/ Fail(s, h) \/ FailFails(s, h) \/ Overrun(s, h) \/ TimesOut(s, h)
      PROVE  Forwarded(s)
  BY <1>3, SendStep, SendFailsStep, CompleteStep, CompleteFailsStep, FailsStep, OverrunStep,
     TimesOutStep
<1>. QED BY <1>1, <1>2, <1>3 DEF Next

LEMMA NextInvariance ==
  ASSUME IndInv, [Next]_vars
  PROVE  IndInv'
<1>1. CASE UNCHANGED vars
  <2>1. now' \in Nat /\ pass' \in [Instance -> PassRow \cup {NoPass}] /\ UNCHANGED queue
    BY <1>1 DEF vars, IndInv, Types, queue
  <2>. QED BY <2>1, PassStep
<1>2. CASE Tick
  <2>1. now' \in Nat /\ pass' \in [Instance -> PassRow \cup {NoPass}] /\ UNCHANGED queue
    BY <1>2 DEF Tick, IndInv, Types
  <2>. QED BY <2>1, PassStep
<1>3. ASSUME NEW i \in Instance, Start(i) \/ PassFails(i) PROVE IndInv'
  <2>1. now' \in Nat /\ pass' \in [Instance -> PassRow \cup {NoPass}] /\ UNCHANGED queue
    BY <1>3 DEF Start, PassFails, IndInv, Types
  <2>. QED BY <2>1, PassStep
<1>4. ASSUME NEW i \in Instance,
             \/ Crash(i) \/ ForcedStop(i) \/ OnCron(i) \/ Evaluate(i) \/ Insert(i)
      PROVE  IndInv'
  BY <1>4, CrashStep, ForcedStopStep, OnCronStep, EvaluateStep, InsertStep
<1>5. ASSUME NEW s \in Slots, Forwarded(s) PROVE IndInv' BY <1>5, ForwardedStep
<1>. QED BY <1>1, <1>2, <1>3, <1>4, <1>5, StepKinds

\* The inductive invariant holds in every reachable state.
THEOREM Invariance == Spec => []IndInv
<1>1. Init => IndInv BY InitInvariance
<1>2. IndInv /\ [Next]_vars => IndInv' BY NextInvariance
<1>. QED BY <1>1, <1>2, PTL DEF Spec

\* A completed job of the internal queue was forwarded or its failure reported, unless a
\* stop gave it up; and only a job that met a fault after its fetch, its instance going
\* down, a statement of its worker failing or its handler running late, is forwarded
\* twice or fails (onSendIt, #processJobs).
THEOREM ForwardsAreExplained == Spec => []ForwardsExplained
<1>1. IndInv => ForwardsExplained
  <2>. SUFFICES ASSUME IndInv, NEW s \in Slots, job[s] # NoJob
                PROVE  /\ job[s].state = "completed" =>
                            job[s].sent > 0 \/ job[s].erred \/ job[s].forced
                       /\ job[s].sent > 1 => s \in hurt
                       /\ job[s].state = "failed" => s \in hurt
    BY DEF ForwardsExplained
  <2>1. job[s] \in JobRow /\ JobRight(job[s], handlers[s], s \in hurt) BY JobOf
  <2>2. job[s].sent \in Nat BY <2>1 DEF JobRow
  <2>. QED BY <2>1, <2>2 DEF JobRight, Unharmed, Excused
<1>. QED BY <1>1, Invariance, PTL

-----------------------------------------------------------------------------
(* Slots of the clock.                                                      *)

LEMMA Times ==
  /\ Slot \in Nat \ {0} /\ Interval \in Nat \ {0} /\ MaxDelay \in Nat /\ MaxTime \in Nat
  /\ MaxFaults \in Nat /\ RetryLimit \in Nat /\ MaxDelay < Interval
  /\ Occurrence \subseteq Nat /\ Errors \subseteq Int
BY TimeAssumption

LEMMA SlotNat ==
  ASSUME NEW x \in Nat
  PROVE  SlotOf(x) \in Nat /\ Slot * SlotOf(x) <= x /\ x < Slot * SlotOf(x) + Slot
BY Times DEF SlotOf

LEMMA SlotMonotone ==
  ASSUME NEW x \in Nat, NEW y \in Nat, x <= y
  PROVE  SlotOf(x) <= SlotOf(y)
BY Times DEF SlotOf

LEMMA SlotInSlots ==
  ASSUME NEW x \in Nat, x <= MaxTime
  PROVE  SlotOf(x) \in Slots
BY Times, SlotNat, SlotMonotone DEF Slots

\* The occurrences a cron expression without seconds names (docs/api/scheduling.md
\* discourages seconds).
OnTheMinute == \A t \in Occurrence : t % Slot = 0

LEMMA MinuteSlot ==
  ASSUME OnTheMinute, NEW t \in Occurrence
  PROVE  t \in Nat /\ SlotOf(t) \in Nat /\ t = Slot * SlotOf(t)
BY Times, SlotNat DEF OnTheMinute, SlotOf

\* A time lies in slot k when it lies in the k-th minute.
LEMMA SlotOfTime ==
  ASSUME NEW x \in Nat, NEW k \in Nat, Slot * k <= x, x < Slot * k + Slot
  PROVE  SlotOf(x) = k
BY Times DEF SlotOf

LEMMA NextMinute ==
  ASSUME OnTheMinute, NEW t \in Occurrence, NEW u \in Occurrence, t < u
  PROVE  t + Slot <= u
<1>. DEFINE p == SlotOf(t)
            q == SlotOf(u)
<1>1. p \in Nat /\ q \in Nat /\ t = Slot * p /\ u = Slot * q BY MinuteSlot
<1>. HIDE DEF p, q
<1>2. p < q BY <1>1, Times
<1>3. \E d \in Nat : q = p + 1 + d
  <2>1. q - p - 1 \in Nat /\ q = p + 1 + (q - p - 1) BY <1>1, <1>2
  <2>. QED BY <2>1
<1>4. PICK d \in Nat : q = p + 1 + d BY <1>3
<1>5. Slot * q = Slot * p + Slot + Slot * d BY <1>1, <1>4, Times
<1>6. Slot * d \in Nat BY Times
<1>. QED BY <1>1, <1>5, <1>6, Times

\* A time less than a slot before or after a minute lies in the slot beside it.
LEMMA SlotNear ==
  ASSUME OnTheMinute, NEW t \in Occurrence, NEW x \in Nat,
         t <= x + Slot, x < t + 2 * Slot
  PROVE  SlotOf(x) \in {SlotOf(t) - 1, SlotOf(t), SlotOf(t) + 1}
<1>. DEFINE p == SlotOf(t)
<1>1. p \in Nat /\ t = Slot * p BY MinuteSlot
<1>. HIDE DEF p
<1>2. CASE x < t
  <2>1. p # 0 BY <1>1, <1>2, Times
  <2>2. p - 1 \in Nat /\ Slot * (p - 1) = Slot * p - Slot BY <1>1, <2>1, Times
  <2>3. SlotOf(x) = p - 1 BY <1>1, <1>2, <2>2, Times, SlotOfTime
  <2>. QED BY <2>3 DEF p
<1>3. CASE t <= x /\ x < t + Slot
  <2>1. SlotOf(x) = p BY <1>1, <1>3, SlotOfTime
  <2>. QED BY <2>1 DEF p
<1>4. CASE t + Slot <= x
  <2>1. p + 1 \in Nat /\ Slot * (p + 1) = Slot * p + Slot BY <1>1, Times
  <2>2. SlotOf(x) = p + 1 BY <1>1, <1>4, <2>1, Times, SlotOfTime
  <2>. QED BY <2>2 DEF p
<1>. QED BY <1>1, <1>2, <1>3, <1>4, Times

-----------------------------------------------------------------------------
(* Clocks, passes and attempts.                                             *)

\* The gate was won and every interval set at some time up to now.
ClocksRight ==
  /\ now <= MaxTime
  /\ cronOn \in {Never} \cup 0..now
  /\ up \subseteq Instance
  /\ next \in [Instance -> Nat] /\ \A i \in Instance : next[i] <= now + Interval
  /\ faults \in 0..MaxFaults /\ lapses \in 0..faults /\ outage \in BOOLEAN

\* What a pass at time n knows to be due was due by its estimate of an earlier time.
PassRight(p, n) ==
  /\ p.since <= n /\ n <= p.since + MaxDelay
  /\ p.at = "won" => p.due = -1 /\ p.slot = -1
  /\ p.at = "due" =>
       /\ p.due \in Occurrence
       /\ \E a \in p.since..n : \E e \in Errors :
            /\ p.due <= a + e /\ a + e < p.due + Slot
            /\ p.slot = SlotOf(a) /\ p.exact = (e = 0)

PassesRight == \A i \in Instance : pass[i] # NoPass => PassRight(pass[i], now)

\* A job is that of an occurrence: its pass knew what was due.
RowsBounded == \A s \in Slots : job[s] # NoJob => job[s].for \in Occurrence

Bounded == ClocksRight /\ PassesRight /\ RowsBounded

\* No step but the insert of a pass makes a row, and none changes whose job it is.
LEMMA JobsStay ==
  ASSUME IndInv, [Next]_vars, NEW s \in Slots
  PROVE  \/ job'[s] = job[s]
         \/ /\ job[s] \in JobRow /\ job'[s] \in JobRow
            /\ job'[s].for = job[s].for /\ job'[s].off = job[s].off
         \/ \E i \in Instance :
              Insert(i) /\ s = SlotOf(now) /\ job[s] = NoJob /\ job'[s] = NewJob(i)
<1>0. job \in [Slots -> JobRow \cup {NoJob}] BY DEF IndInv, Types
<1>1. CASE job' = job BY <1>1
<1>2. ASSUME NEW t \in Slots, Forwarded(t)
      PROVE  \/ job'[s] = job[s]
             \/ /\ job[s] \in JobRow /\ job'[s] \in JobRow
                /\ job'[s].for = job[s].for /\ job'[s].off = job[s].off
  <2>1. PICK row \in JobRow : /\ row.for = job[t].for /\ row.off = job[t].off
                             /\ job' = [job EXCEPT ![t] = row]
    BY <1>2 DEF Forwarded, Forwards
  <2>2. job[t] \in JobRow BY <1>2 DEF Forwarded
  <2>3. CASE s = t BY <1>0, <2>1, <2>2, <2>3
  <2>4. CASE s # t BY <1>0, <2>1, <2>4
  <2>. QED BY <2>3, <2>4
<1>3. ASSUME NEW i \in Instance, ForcedStop(i)
      PROVE  \/ job'[s] = job[s]
             \/ /\ job[s] \in JobRow /\ job'[s] \in JobRow
                /\ job'[s].for = job[s].for /\ job'[s].off = job[s].off
  <2>1. CASE s \in Held(i) BY <1>3, <2>1, ForcedHeld
  <2>2. CASE s \notin Held(i) BY <1>3, <2>2, ForcedFree
  <2>. QED BY <2>1, <2>2
<1>4. ASSUME NEW i \in Instance, Insert(i)
      PROVE  \/ job'[s] = job[s]
             \/ s = SlotOf(now) /\ job[s] = NoJob /\ job'[s] = NewJob(i)
  BY <1>0, <1>4 DEF Insert, Throttled
<1>5. CASE \/ Tick \/ UNCHANGED vars
           \/ \E i \in Instance : Start(i) \/ Crash(i) \/ OnCron(i) \/ Evaluate(i) \/ PassFails(i)
  BY <1>1, <1>5 DEF Tick, vars, Start, Crash, OnCron, Evaluate, PassFails, queue
<1>. QED BY <1>2, <1>3, <1>4, <1>5, StepKinds

\* A step of a worker or of the supervisor leaves clocks and passes alone.
LEMMA ForwardedLeaves ==
  ASSUME NEW s \in Slots, Forwarded(s)
  PROVE  /\ UNCHANGED <<now, cronOn, pass, lapses, up, next, outage>>
         /\ faults' = faults \/ Fails
BY DEF Forwarded, Forwards, fleet

LEMMA ClocksStep ==
  ASSUME IndInv, ClocksRight, [Next]_vars
  PROVE  ClocksRight'
<1>0. /\ now \in Nat /\ Never \in Int
      /\ next \in [Instance -> Nat] /\ \A i \in Instance : next[i] <= now + Interval
  BY Times DEF IndInv, Types, ClocksRight, Never
<1>1. CASE UNCHANGED <<now, cronOn, up, next, faults, lapses, outage>>
  BY <1>1 DEF ClocksRight
<1>2. CASE Tick
  <2>1. now' = now + 1 /\ now' <= MaxTime BY <1>0, <1>2, Times DEF Tick
  <2>2. next' = next /\ \A i \in Instance : next'[i] <= now' + Interval
    BY <1>0, <1>2, <2>1, Times DEF Tick
  <2>3. cronOn' \in {Never} \cup 0..now'
    BY <1>0, <1>2, <2>1 DEF Tick, ClocksRight
  <2>. QED BY <1>0, <1>2, <2>1, <2>2, <2>3 DEF Tick, ClocksRight
<1>3. ASSUME NEW i \in Instance, Start(i) PROVE ClocksRight'
  <2>1. /\ next' \in [Instance -> Nat]
        /\ \A j \in Instance : next'[j] <= now' + Interval
    BY <1>0, <1>3, Times DEF Start
  <2>. QED BY <1>3, <2>1 DEF Start, ClocksRight
<1>4. ASSUME NEW i \in Instance, Crash(i) \/ ForcedStop(i) \/ PassFails(i) PROVE ClocksRight'
  <2>1. faults' = faults + 1 /\ faults' \in 0..MaxFaults /\ lapses' \in 0..faults'
    BY <1>4, Times DEF Crash, ForcedStop, Down, PassFails, ClocksRight
  <2>2. UNCHANGED <<now, cronOn, next, outage>> /\ up' \subseteq Instance
    BY <1>4 DEF Crash, ForcedStop, Down, PassFails, fleet, ClocksRight
  <2>. QED BY <2>1, <2>2 DEF ClocksRight
<1>5. ASSUME NEW i \in Instance, OnCron(i) PROVE ClocksRight'
  <2>1. /\ next' \in [Instance -> Nat]
        /\ \A j \in Instance : next'[j] <= now' + Interval
    BY <1>0, <1>5, Times DEF OnCron
  <2>2. cronOn' \in {Never} \cup 0..now' BY <1>0, <1>5 DEF OnCron, ClocksRight
  <2>. QED BY <1>5, <2>1, <2>2 DEF OnCron, ClocksRight
<1>6. ASSUME NEW s \in Slots, Forwarded(s) PROVE ClocksRight'
  <2>1. UNCHANGED <<now, cronOn, lapses, up, next, outage>> /\ (faults' = faults \/ Fails)
    BY <1>6, ForwardedLeaves
  <2>2. faults' \in 0..MaxFaults /\ lapses' \in 0..faults'
    BY <2>1, Times DEF Fails, ClocksRight
  <2>. QED BY <2>1, <2>2 DEF ClocksRight
<1>7. ASSUME NEW i \in Instance, Evaluate(i) \/ Insert(i) PROVE ClocksRight'
  BY <1>1, <1>7 DEF Evaluate, Insert, fleet
<1>8. CASE UNCHANGED vars BY <1>1, <1>8 DEF vars
<1>. QED BY <1>2, <1>3, <1>4, <1>5, <1>6, <1>7, <1>8, StepKinds

LEMMA EvaluatedRight ==
  ASSUME IndInv, NEW i \in Instance, pass[i] # NoPass, PassRight(pass[i], now),
         NEW e \in Errors, NEW t \in Occurrence, ShouldSendIt(t, now + e),
         NEW p, p = [pass[i] EXCEPT !.at = "due", !.due = t, !.slot = SlotOf(now),
                                    !.exact = (e = 0)]
  PROVE  PassRight(p, now)
<1>1. pass[i] \in PassRow /\ now \in Nat BY PassOf DEF IndInv, Types
<1>2. /\ p.since = pass[i].since /\ p.at = "due" /\ p.due = t
      /\ p.slot = SlotOf(now) /\ p.exact = (e = 0)
  BY <1>1 DEF PassRow
<1>3. now \in p.since..now BY <1>1, <1>2 DEF PassRight, PassRow
<1>4. t <= now + e /\ now + e < t + Slot BY <1>1, Times DEF ShouldSendIt
<1>5. \E a \in p.since..now : \E d \in Errors :
        /\ p.due <= a + d /\ a + d < p.due + Slot
        /\ p.slot = SlotOf(a) /\ p.exact = (d = 0)
  BY <1>2, <1>3, <1>4
<1>. QED BY <1>2, <1>5 DEF PassRight

LEMMA PassesStep ==
  ASSUME IndInv, PassesRight, [Next]_vars
  PROVE  PassesRight'
<1>0. now \in Nat /\ pass \in [Instance -> PassRow \cup {NoPass}] BY DEF IndInv, Types
<1>1. ASSUME UNCHANGED <<now, pass>> PROVE PassesRight' BY <1>1 DEF PassesRight, PassRight
<1>2. ASSUME NEW i \in Instance, now' = now,
             \A j \in Instance \ {i} : pass'[j] = pass[j],
             pass'[i] = NoPass \/ PassRight(pass'[i], now)
      PROVE  PassesRight'
  BY <1>2 DEF PassesRight, PassRight
<1>3. CASE Tick
  <2>. SUFFICES ASSUME NEW i \in Instance, pass[i] # NoPass
                PROVE  PassRight(pass[i], now + 1)
    BY <1>3 DEF Tick, PassesRight, PassRight
  <2>1. pass[i] \in PassRow /\ PassRight(pass[i], now) BY <1>0 DEF PassesRight
  <2>2. now < pass[i].since + MaxDelay BY <1>3 DEF Tick
  <2>3. pass[i].since..now \subseteq pass[i].since..(now + 1) BY <1>0, <2>1 DEF PassRow
  <2>4. pass[i].since <= now + 1 /\ now + 1 <= pass[i].since + MaxDelay
    BY <1>0, <2>1, <2>2, Times DEF PassRow, PassRight
  <2>. QED BY <2>1, <2>3, <2>4 DEF PassRight
<1>4. ASSUME NEW i \in Instance, Crash(i) \/ ForcedStop(i) \/ Insert(i) \/ PassFails(i)
      PROVE  PassesRight'
  <2>1. pass' = [pass EXCEPT ![i] = NoPass] /\ now' = now
    BY <1>4 DEF Crash, ForcedStop, Down, Insert, PassFails
  <2>. QED BY <1>0, <1>2, <2>1
<1>5. ASSUME NEW i \in Instance, OnCron(i) PROVE PassesRight'
  <2>. DEFINE p == [at |-> "won", since |-> now, due |-> -1, slot |-> -1, exact |-> TRUE]
  <2>1. PassRight(p, now) BY <1>0, Times DEF PassRight
  <2>2. now' = now /\ (pass' = [pass EXCEPT ![i] = p] \/ pass' = pass)
    BY <1>5 DEF OnCron
  <2>. HIDE DEF p
  <2>. QED BY <1>0, <1>1, <1>2, <2>1, <2>2
<1>6. ASSUME NEW i \in Instance, Evaluate(i) PROVE PassesRight'
  <2>1. now' = now /\ pass[i] # NoPass /\ PassRight(pass[i], now)
    BY <1>6 DEF Evaluate, PassesRight
  <2>2. CASE pass' = [pass EXCEPT ![i] = NoPass] BY <1>0, <1>2, <2>1, <2>2
  <2>3. ASSUME NEW e \in Errors, NEW t \in Occurrence, ShouldSendIt(t, now + e),
               pass' = [pass EXCEPT ![i] =
                 [@ EXCEPT !.at = "due", !.due = t, !.slot = SlotOf(now), !.exact = (e = 0)]]
        PROVE  PassesRight'
    <3>. DEFINE p == [pass[i] EXCEPT !.at = "due", !.due = t, !.slot = SlotOf(now),
                                     !.exact = (e = 0)]
    <3>1. PassRight(p, now) BY <2>1, <2>3, EvaluatedRight
    <3>2. pass' = [pass EXCEPT ![i] = p] BY <2>3
    <3>. HIDE DEF p
    <3>. QED BY <1>0, <1>2, <2>1, <3>1, <3>2
  <2>. QED BY <1>6, <2>2, <2>3 DEF Evaluate
<1>7. ASSUME NEW s \in Slots, Forwarded(s) PROVE PassesRight'
  BY <1>1, <1>7, ForwardedLeaves
<1>8. CASE UNCHANGED vars \/ \E i \in Instance : Start(i) BY <1>1, <1>8 DEF vars, Start
<1>. QED BY <1>3, <1>4, <1>5, <1>6, <1>7, <1>8, StepKinds

LEMMA RowsStep ==
  ASSUME IndInv, PassesRight, RowsBounded, [Next]_vars
  PROVE  RowsBounded'
<1>. SUFFICES ASSUME NEW s \in Slots, job'[s] # NoJob PROVE job'[s].for \in Occurrence
  BY DEF RowsBounded
<1>1. CASE job'[s] = job[s] BY <1>1 DEF RowsBounded
<1>2. CASE job[s] \in JobRow /\ job'[s].for = job[s].for
  BY <1>2, RowIsNotNoJob DEF RowsBounded
<1>3. ASSUME NEW i \in Instance, Insert(i), job'[s] = NewJob(i)
      PROVE  job'[s].for \in Occurrence
  <2>1. pass[i].due \in Occurrence /\ pass[i] \in PassRow
    BY <1>3, PassOf DEF Insert, PassesRight, PassRight
  <2>. QED BY <1>3, <2>1, NewRow
<1>. QED BY <1>1, <1>2, <1>3, JobsStay

-----------------------------------------------------------------------------
LEMMA BoundedInit == Init => Bounded
<1>. SUFFICES ASSUME Init PROVE Bounded OBVIOUS
<1>1. ClocksRight
  <2>1. next \in [Instance -> Nat] /\ \A i \in Instance : next[i] = 0 BY DEF Init
  <2>2. now = 0 /\ now <= MaxTime /\ \A i \in Instance : next[i] <= now + Interval
    BY <2>1, Times DEF Init
  <2>3. faults \in 0..MaxFaults /\ lapses \in 0..faults BY Times DEF Init
  <2>. QED BY <2>1, <2>2, <2>3 DEF Init, ClocksRight
<1>2. PassesRight BY DEF Init, PassesRight
<1>3. RowsBounded BY DEF Init, RowsBounded
<1>. QED BY <1>1, <1>2, <1>3 DEF Bounded

LEMMA BoundedTypes ==
  ASSUME IndInv, Bounded
  PROVE  TypeOK
<1>0. now \in 0..MaxTime BY Times DEF IndInv, Types, Bounded, ClocksRight
<1>1. cronOn \in {Never} \cup 0..MaxTime
  BY <1>0, Times DEF Bounded, ClocksRight
<1>2. next \in [Instance -> 0..(MaxTime + Interval)]
  <2>1. \A i \in Instance : next[i] \in 0..(MaxTime + Interval)
    BY <1>0, Times DEF Bounded, ClocksRight
  <2>. QED BY <2>1 DEF Bounded, ClocksRight
<1>3. pass \in [Instance -> Passes \cup {NoPass}]
  <2>1. ASSUME NEW i \in Instance, pass[i] # NoPass PROVE pass[i] \in Passes
    <3>1. pass[i] \in PassRow /\ PassRight(pass[i], now)
      BY <2>1, PassOf DEF Bounded, PassesRight
    <3>2. pass[i].since \in 0..MaxTime BY <1>0, <3>1, Times DEF PassRow, PassRight
    <3>3. pass[i].slot \in -1..SlotOf(MaxTime)
      <4>1. SlotOf(MaxTime) \in Nat BY Times, SlotNat
      <4>2. CASE pass[i].at = "won" BY <3>1, <4>1, <4>2 DEF PassRight
      <4>3. CASE pass[i].at = "due"
        <5>1. PICK a \in pass[i].since..now : pass[i].slot = SlotOf(a)
          BY <3>1, <4>3 DEF PassRight
        <5>2. a \in Nat /\ a <= MaxTime BY <1>0, <3>2, Times
        <5>. QED BY <4>1, <5>1, <5>2, Times, SlotNat, SlotMonotone
      <4>. QED BY <3>1, <4>2, <4>3 DEF PassRow
    <3>. QED BY <3>1, <3>2, <3>3 DEF PassRow, Passes
  <2>. QED BY <2>1 DEF IndInv, Types
<1>4. ASSUME NEW s \in Slots PROVE job[s] \in Jobs \cup {NoJob} /\ handlers[s] \subseteq Handler
  <2>1. job[s] \in JobRow \cup {NoJob} /\ handlers[s] \subseteq Handler BY DEF IndInv, Types
  <2>2. job[s] # NoJob => job[s].for \in Occurrence BY DEF Bounded, RowsBounded
  <2>. QED BY <2>1, <2>2 DEF JobRow, Jobs
<1>5. faults \in 0..MaxFaults /\ lapses \in 0..MaxFaults /\ outage \in BOOLEAN /\ up \subseteq Instance
  BY Times DEF Bounded, ClocksRight
<1>6. hurt \subseteq Slots BY DEF IndInv, Types
<1>. QED BY <1>0, <1>1, <1>2, <1>3, <1>4, <1>5, <1>6 DEF TypeOK

LEMMA BoundedInvariance == Spec => []Bounded
<1>1. Init => Bounded BY BoundedInit
<1>2. IndInv /\ Bounded /\ [Next]_vars => Bounded'
  BY ClocksStep, PassesStep, RowsStep DEF Bounded
<1>. QED BY <1>1, <1>2, Invariance, PTL DEF Spec

\* Clocks, passes, rows and handlers stay within their bounds: a job has no more
\* attempts than its retries allow, whatever its workers' statements meet.
THEOREM TypeCorrect == Spec => []TypeOK
<1>1. IndInv /\ Bounded => TypeOK BY BoundedTypes
<1>. QED BY <1>1, Invariance, BoundedInvariance, PTL

-----------------------------------------------------------------------------
(* One job per minute.                                                      *)

\* The clock is misjudged by less than a minute, and a pass ends in the minute after.
SmallErrors == \A e \in Errors : e <= Slot /\ MaxDelay - e <= Slot

\* Job j may be in slot s.
Beside(j, s) ==
  s = SlotOf(j.for) \/ (j.off /\ s \in {SlotOf(j.for) - 1, SlotOf(j.for) + 1})

Labelled == \A s \in Slots : job[s] # NoJob => Beside(job[s], s)

\* An insert that is not off comes in the minute of its occurrence.
LEMMA InsertBeside ==
  ASSUME OnTheMinute, SmallErrors, IndInv, Bounded, NEW i \in Instance, Insert(i),
         NEW j, j.for = pass[i].due, j.off = (~pass[i].exact \/ pass[i].slot # SlotOf(now))
  PROVE  Beside(j, SlotOf(now))
<1>. DEFINE t == pass[i].due
<1>0. pass[i] \in PassRow /\ PassRight(pass[i], now) /\ pass[i].at = "due" /\ now \in Nat
  BY PassOf DEF Insert, Bounded, PassesRight, IndInv, Types
<1>1. t \in Occurrence /\ t \in Nat /\ pass[i].since \in Nat /\ now <= pass[i].since + MaxDelay
  BY <1>0, Times DEF PassRight, PassRow
<1>2. PICK a \in pass[i].since..now, e \in Errors :
        /\ t <= a + e /\ a + e < t + Slot
        /\ pass[i].slot = SlotOf(a) /\ pass[i].exact = (e = 0)
  BY <1>0 DEF PassRight
<1>. HIDE DEF t
<1>3. a \in Nat /\ e \in Int /\ e <= Slot /\ MaxDelay - e <= Slot
  BY <1>1, Times DEF SmallErrors
<1>4. t <= now + Slot /\ now < t + 2 * Slot
  BY <1>0, <1>1, <1>2, <1>3, Times
<1>5. SlotOf(now) \in {SlotOf(t) - 1, SlotOf(t), SlotOf(t) + 1}
  BY <1>0, <1>1, <1>4, SlotNear
<1>6. ASSUME pass[i].exact, pass[i].slot = SlotOf(now) PROVE SlotOf(now) = SlotOf(t)
  <2>1. SlotOf(t) \in Nat /\ t = Slot * SlotOf(t) BY <1>1, MinuteSlot
  <2>0. e = 0 BY <1>2, <1>6
  <2>2. t <= a /\ a < t + Slot BY <1>1, <1>2, <1>3, <2>0
  <2>3. SlotOf(a) = SlotOf(t) BY <1>3, <2>1, <2>2, SlotOfTime
  <2>. QED BY <1>2, <1>6, <2>3
<1>. QED BY <1>5, <1>6 DEF Beside, t

\* A row keeps its label; a new one is that of a pass that inserts.
Kin(s) ==
  \/ job[s] # NoJob /\ job'[s].for = job[s].for /\ job'[s].off = job[s].off
  \/ \E i \in Instance :
       /\ Insert(i) /\ s = SlotOf(now)
       /\ job'[s].for = pass[i].due
       /\ job'[s].off = (~pass[i].exact \/ pass[i].slot # SlotOf(now))

LEMMA LabelsKept ==
  ASSUME IndInv, [Next]_vars
  PROVE  \A s \in Slots : job'[s] # NoJob => Kin(s)
<1>. SUFFICES ASSUME NEW s \in Slots, job'[s] # NoJob PROVE Kin(s) OBVIOUS
<1>1. CASE job'[s] = job[s] BY <1>1 DEF Kin
<1>2. CASE job[s] \in JobRow /\ job'[s].for = job[s].for /\ job'[s].off = job[s].off
  BY <1>2, RowIsNotNoJob DEF Kin
<1>3. ASSUME NEW i \in Instance, Insert(i), s = SlotOf(now), job'[s] = NewJob(i)
      PROVE  Kin(s)
  <2>1. pass[i] \in PassRow BY <1>3, PassOf DEF Insert
  <2>. QED BY <1>3, <2>1, NewRow DEF Kin
<1>. QED BY <1>1, <1>2, <1>3, JobsStay

LEMMA LabelledStep ==
  ASSUME OnTheMinute, SmallErrors, IndInv, Bounded, Labelled, [Next]_vars
  PROVE  Labelled'
<1>. SUFFICES ASSUME NEW s \in Slots, job'[s] # NoJob PROVE Beside(job'[s], s)
  BY DEF Labelled, Beside
<1>1. CASE job[s] # NoJob /\ job'[s].for = job[s].for /\ job'[s].off = job[s].off
  BY <1>1 DEF Labelled, Beside
<1>2. ASSUME NEW i \in Instance, Insert(i), s = SlotOf(now),
             job'[s].for = pass[i].due,
             job'[s].off = (~pass[i].exact \/ pass[i].slot # SlotOf(now))
      PROVE  Beside(job'[s], s)
  BY <1>2, InsertBeside
<1>. QED BY <1>1, <1>2, LabelsKept DEF Kin

\* An occurrence on the minute gets one job in its own minute; another only in the
\* minute beside it, from a pass that misjudged the clock or was late (SEND_IT's
\* singletonSeconds).
THEOREM OneIsSentPerMinute ==
  OnTheMinute /\ SmallErrors => (Spec => []OneSentPerMinute)
<1>. SUFFICES ASSUME OnTheMinute, SmallErrors PROVE Spec => []OneSentPerMinute OBVIOUS
<1>1. Init => Labelled BY DEF Init, Labelled
<1>2. IndInv /\ Bounded /\ Labelled /\ [Next]_vars => Labelled' BY LabelledStep
<1>3. Labelled => OneSentPerMinute BY DEF Labelled, Beside, OneSentPerMinute, Of
<1>. QED BY <1>1, <1>2, <1>3, Invariance, BoundedInvariance, PTL DEF Spec

\* What docs/api/scheduling.md:19 says, only 1 job is sent, takes exact clocks and
\* passes that take no time: run twice has the passes that do.
Ideal == OnTheMinute /\ Errors = {0} /\ MaxDelay = 0

InItsSlot == \A s \in Slots : job[s] # NoJob => s = SlotOf(job[s].for)

LEMMA InItsSlotStep ==
  ASSUME Ideal, IndInv, Bounded, InItsSlot, [Next]_vars
  PROVE  InItsSlot'
<1>. SUFFICES ASSUME NEW s \in Slots, job'[s] # NoJob PROVE s = SlotOf(job'[s].for)
  BY DEF InItsSlot, SlotOf
<1>1. CASE job[s] # NoJob /\ job'[s].for = job[s].for BY <1>1 DEF InItsSlot
<1>2. ASSUME NEW i \in Instance, Insert(i), s = SlotOf(now), job'[s].for = pass[i].due
      PROVE  s = SlotOf(job'[s].for)
  <2>. DEFINE t == pass[i].due
  <2>1. pass[i] \in PassRow /\ PassRight(pass[i], now) /\ pass[i].at = "due" /\ now \in Nat
    BY <1>2, PassOf DEF Insert, Bounded, PassesRight, IndInv, Types
  <2>2. /\ t \in Occurrence /\ t \in Nat /\ pass[i].since \in Nat
        /\ now <= pass[i].since + 0
    BY <2>1, Times DEF PassRight, PassRow, Ideal
  <2>3. PICK a \in pass[i].since..now : t <= a + 0 /\ a + 0 < t + Slot
    BY <2>1 DEF PassRight, Ideal
  <2>. HIDE DEF t
  <2>4. t <= now /\ now < t + Slot BY <2>1, <2>2, <2>3, Times
  <2>5. SlotOf(t) \in Nat /\ t = Slot * SlotOf(t) BY <2>2, MinuteSlot DEF Ideal
  <2>6. SlotOf(now) = SlotOf(t) BY <2>1, <2>4, <2>5, SlotOfTime
  <2>. QED BY <1>2, <2>6 DEF t
<1>. QED BY <1>1, <1>2, LabelsKept DEF Kin

\* With exact clocks and passes that take no time the throttle of send-it lets one
\* job through per occurrence.
THEOREM OneIsSentIdeally == Ideal => (Spec => []OnlyOneSent)
<1>. SUFFICES ASSUME Ideal PROVE Spec => []OnlyOneSent OBVIOUS
<1>1. Init => InItsSlot BY DEF Init, InItsSlot
<1>2. IndInv /\ Bounded /\ InItsSlot /\ [Next]_vars => InItsSlot' BY InItsSlotStep
<1>3. InItsSlot => OnlyOneSent
  <2>. SUFFICES ASSUME InItsSlot, NEW t \in Occurrence PROVE Cardinality(Of(t)) <= 1
    BY DEF OnlyOneSent
  <2>1. Of(t) \subseteq {SlotOf(t)} BY DEF Of, InItsSlot
  <2>2. Of(t) = {} \/ Of(t) = {SlotOf(t)} BY <2>1
  <2>3. Cardinality({}) = 0 BY FS_EmptySet
  <2>4. Cardinality({SlotOf(t)}) = 1 BY FS_Singleton
  <2>. QED BY <2>2, <2>3, <2>4
<1>. QED BY <1>1, <1>2, <1>3, Invariance, BoundedInvariance, PTL DEF Spec

-----------------------------------------------------------------------------
(* No minute is missed.                                                     *)

\* The interval of an instance that runs has just fired, or fires before two
\* intervals have gone by since the gate was won: so the gate is won by then.
Ticking ==
  /\ cronOn = Never => now = 0
  /\ cronOn # Never => now <= cronOn + 2 * Interval
  /\ \A i \in up : next[i] <= now \/ (cronOn # Never /\ next[i] <= cronOn + 2 * Interval)

\* A pass that won the gate at g sees occurrence t, and is over before t is too old.
Sees(g, t) == \A e \in Errors \cup {0} : t <= g + e
InTime(g, t) == \A e \in Errors \cup {0} : g + MaxDelay + e < t + Slot

\* The minute of t has its job, or a pass will see to it, or the next will come in time.
Covered(t) ==
  \/ job[SlotOf(t)] # NoJob
  \/ \E i \in Instance :
       pass[i] # NoPass /\ Sees(pass[i].since, t) /\ InTime(pass[i].since, t)
  \/ ~Sees(cronOn, t)

Kept ==
  Punctual /\ lapses = 0 /\ ~outage => \A t \in Occurrence : t <= MaxTime => Covered(t)

Watched == (~outage => Ticking) /\ Kept

LEMMA TickingStep ==
  ASSUME IndInv, Bounded, ~outage => Ticking, [Next]_vars
  PROVE  ~outage' => Ticking'
<1>0. /\ now \in Nat /\ Never \in Int /\ Never < 0 /\ next \in [Instance -> Nat]
      /\ up \subseteq Instance /\ cronOn \in {Never} \cup 0..now
  BY Times DEF IndInv, Types, Bounded, ClocksRight, Never
<1>1. CASE UNCHANGED <<now, cronOn, up, next, outage>> BY <1>1 DEF Ticking
<1>2. CASE Tick
  <2>. SUFFICES ASSUME ~outage' PROVE Ticking' OBVIOUS
  <2>1. /\ ~outage /\ up # {} /\ now' = now + 1
        /\ UNCHANGED <<cronOn, up, next>> /\ \A i \in up : next[i] > now
    BY <1>2 DEF Tick
  <2>2. \A i \in up : cronOn # Never /\ next[i] <= cronOn + 2 * Interval
    BY <1>0, <2>1 DEF Ticking
  <2>3. PICK i \in up : TRUE BY <2>1
  <2>4. next[i] \in Nat /\ cronOn # Never /\ cronOn \in Nat BY <1>0, <2>2, <2>3
  <2>5. now + 1 <= cronOn + 2 * Interval BY <1>0, <2>1, <2>2, <2>3, <2>4, Times
  <2>. QED BY <2>1, <2>2, <2>4, <2>5 DEF Ticking
<1>3. ASSUME NEW i \in Instance, Start(i) PROVE ~outage' => Ticking'
  <2>1. /\ UNCHANGED <<now, cronOn, outage>> /\ up' = up \cup {i}
        /\ next'[i] = now /\ \A j \in Instance \ {i} : next'[j] = next[j]
    BY <1>0, <1>3 DEF Start
  <2>. QED BY <1>0, <2>1 DEF Ticking
<1>4. ASSUME NEW i \in Instance, Crash(i) \/ ForcedStop(i) PROVE ~outage' => Ticking'
  BY <1>4 DEF Crash, ForcedStop, Down, Ticking
<1>5. ASSUME NEW i \in Instance, OnCron(i) PROVE ~outage' => Ticking'
  <2>. SUFFICES ASSUME ~outage PROVE Ticking' BY <1>5 DEF OnCron
  <2>1. /\ UNCHANGED <<now, up>>
        /\ next'[i] = now + Interval /\ \A j \in Instance \ {i} : next'[j] = next[j]
    BY <1>0, <1>5 DEF OnCron
  <2>2. CASE cronOn' = now
    <3>1. cronOn' # Never /\ now' <= cronOn' + 2 * Interval
      BY <1>0, <2>1, <2>2, Times
    <3>2. next'[i] <= cronOn' + 2 * Interval BY <1>0, <2>1, <2>2, Times
    <3>3. ASSUME NEW j \in up \ {i}
          PROVE  next'[j] <= now' \/ next'[j] <= cronOn' + 2 * Interval
      <4>1. next[j] \in Nat /\ next'[j] = next[j] BY <1>0, <2>1
      <4>2. CASE next[j] <= now BY <2>1, <4>1, <4>2
      <4>3. CASE cronOn # Never /\ next[j] <= cronOn + 2 * Interval
        <5>1. cronOn \in Nat /\ cronOn <= now BY <1>0, <4>3
        <5>. QED BY <1>0, <2>2, <4>1, <4>3, <5>1, Times
      <4>. QED BY <4>2, <4>3 DEF Ticking
    <3>. QED BY <2>1, <3>1, <3>2, <3>3 DEF Ticking
  <2>3. CASE ~Stale(cronOn) /\ cronOn' = cronOn
    <3>1. cronOn # Never BY <1>0, <2>3, Times DEF Stale, Never
    <3>2. cronOn \in Nat /\ now - cronOn <= Interval BY <1>0, <2>3, <3>1, Times DEF Stale
    <3>3. next'[i] <= cronOn' + 2 * Interval BY <1>0, <2>1, <2>3, <3>2, Times
    <3>4. now' <= cronOn' + 2 * Interval BY <2>1, <2>3, <3>1 DEF Ticking
    <3>5. ASSUME NEW j \in up \ {i}
          PROVE  next'[j] <= now' \/ next'[j] <= cronOn' + 2 * Interval
      BY <1>0, <2>1, <2>3 DEF Ticking
    <3>. QED BY <2>1, <2>3, <3>1, <3>3, <3>4, <3>5 DEF Ticking
  <2>. QED BY <1>5, <2>2, <2>3 DEF OnCron
<1>6. ASSUME NEW i \in Instance, Evaluate(i) \/ Insert(i) \/ PassFails(i)
      PROVE  ~outage' => Ticking'
  BY <1>1, <1>6 DEF Evaluate, Insert, PassFails, fleet
<1>7. ASSUME NEW s \in Slots, Forwarded(s) PROVE ~outage' => Ticking'
  BY <1>1, <1>7, ForwardedLeaves
<1>8. CASE UNCHANGED vars BY <1>1, <1>8 DEF vars
<1>. QED BY <1>2, <1>3, <1>4, <1>5, <1>6, <1>7, <1>8, StepKinds

\* A pass that wins the gate is in time for what the pass before did not see.
LEMMA WinsInTime ==
  ASSUME IndInv, Bounded, Ticking, Punctual, NEW t \in Occurrence, ~Sees(cronOn, t)
  PROVE  InTime(now, t)
<1>. SUFFICES ASSUME NEW e \in Errors \cup {0} PROVE now + MaxDelay + e < t + Slot
  BY DEF InTime
<1>0. /\ now \in Nat /\ t \in Nat /\ e \in Int /\ cronOn \in {Never} \cup 0..now
  BY Times DEF IndInv, Types, Bounded, ClocksRight
<1>1. CASE cronOn = Never
  <2>1. now = 0 BY <1>1 DEF Ticking
  <2>2. 2 * Interval + MaxDelay + e - 0 <= Slot BY DEF Punctual
  <2>. QED BY <1>0, <2>1, <2>2, Times
<1>2. CASE cronOn # Never
  <2>1. PICK d \in Errors \cup {0} : ~(t <= cronOn + d) BY DEF Sees
  <2>2. 2 * Interval + MaxDelay + e - d <= Slot BY DEF Punctual
  <2>3. now <= cronOn + 2 * Interval /\ cronOn \in Nat /\ d \in Int
    BY <1>0, <1>2, Times DEF Ticking
  <2>. QED BY <1>0, <2>1, <2>2, <2>3, Times
<1>. QED BY <1>1, <1>2

\* What a pass has covered is due whenever it evaluates.
LEMMA CoveredIsDue ==
  ASSUME OnTheMinute, IndInv, NEW i \in Instance, pass[i] # NoPass, PassRight(pass[i], now),
         NEW t \in Occurrence, Sees(pass[i].since, t), InTime(pass[i].since, t),
         NEW e \in Errors
  PROVE  ShouldSendIt(t, now + e)
<1>0. /\ now \in Nat /\ t \in Nat /\ e \in Int /\ pass[i].since \in Nat
      /\ pass[i].since <= now /\ now <= pass[i].since + MaxDelay
  BY PassOf, Times DEF IndInv, Types, PassRight, PassRow
<1>1. t <= pass[i].since + e /\ pass[i].since + MaxDelay + e < t + Slot BY DEF Sees, InTime
<1>2. t <= now + e /\ now + e < t + Slot BY <1>0, <1>1, Times
<1>3. ASSUME NEW u \in Occurrence, u <= now + e PROVE u <= t
  <2>1. u \in Nat BY Times
  <2>2. t < u => t + Slot <= u BY NextMinute
  <2>. QED BY <1>0, <1>2, <1>3, <2>1, <2>2, Times
<1>. QED BY <1>0, <1>2, <1>3, Times DEF ShouldSendIt

\* What a pass has covered has a job once it has inserted.
LEMMA CoveredIsInserted ==
  ASSUME OnTheMinute, IndInv, Bounded, NEW i \in Instance, Insert(i),
         NEW t \in Occurrence, t <= MaxTime,
         Sees(pass[i].since, t), InTime(pass[i].since, t)
  PROVE  job'[SlotOf(t)] # NoJob
<1>0. /\ now \in Nat /\ t \in Nat /\ pass[i].since \in Nat
      /\ pass[i].since <= now /\ now <= pass[i].since + MaxDelay
  BY PassOf, Times DEF Insert, IndInv, Types, Bounded, PassesRight, PassRight, PassRow
<1>1. t <= pass[i].since + 0 /\ pass[i].since + MaxDelay + 0 < t + Slot BY DEF Sees, InTime
<1>2. t <= now /\ now < t + Slot BY <1>0, <1>1, Times
<1>3. SlotOf(t) \in Nat /\ t = Slot * SlotOf(t) BY MinuteSlot
<1>4. SlotOf(now) = SlotOf(t) BY <1>0, <1>2, <1>3, SlotOfTime
<1>5. SlotOf(t) \in Slots BY <1>0, SlotInSlots
<1>6. job' = IF job[SlotOf(t)] # NoJob THEN job ELSE [job EXCEPT ![SlotOf(t)] = NewJob(i)]
  BY <1>4 DEF Insert, Throttled
<1>7. NewJob(i) # NoJob
  <2>1. pass[i] \in PassRow BY PassOf DEF Insert
  <2>. QED BY <2>1, NewRow, RowIsNotNoJob
<1>. QED BY <1>5, <1>6, <1>7 DEF IndInv, Types

\* No step removes a row.
LEMMA RowsStay ==
  ASSUME IndInv, [Next]_vars, NEW s \in Slots, job[s] # NoJob
  PROVE  job'[s] # NoJob
BY JobsStay, RowIsNotNoJob

\* Only a pass that ends, and a gate that is won, can uncover a minute.
LEMMA CoveredSame ==
  ASSUME IndInv, [Next]_vars, NEW t \in Occurrence, t <= MaxTime, Covered(t),
         cronOn' = cronOn,
         \A i \in Instance : pass[i] # NoPass =>
           pass'[i] # NoPass /\ pass'[i].since = pass[i].since
  PROVE  Covered(t)'
<1>1. SlotOf(t) \in Slots BY Times, SlotInSlots
<1>2. CASE job[SlotOf(t)] # NoJob BY <1>1, <1>2, RowsStay DEF Covered
<1>3. ASSUME NEW i \in Instance,
             pass[i] # NoPass /\ Sees(pass[i].since, t) /\ InTime(pass[i].since, t)
      PROVE  Covered(t)'
  BY <1>3 DEF Covered, Sees, InTime
<1>4. CASE ~Sees(cronOn, t) BY <1>4 DEF Covered, Sees
<1>. QED BY <1>2, <1>3, <1>4 DEF Covered

LEMMA KeptStep ==
  ASSUME OnTheMinute, IndInv, Bounded, Watched, [Next]_vars
  PROVE  Kept'
<1>. SUFFICES ASSUME Punctual, lapses' = 0, ~outage', NEW t \in Occurrence, t <= MaxTime
              PROVE  Covered(t)'
  BY DEF Kept
<1>0. /\ now \in Nat /\ pass \in [Instance -> PassRow \cup {NoPass}] /\ lapses \in Nat
      /\ t \in Nat
  BY Times DEF IndInv, Types, Bounded, ClocksRight
<1>1. ~outage
  <2>1. ASSUME NEW s \in Slots, Forwarded(s) PROVE ~outage BY <2>1, ForwardedLeaves
  <2>. QED BY <2>1, StepKinds DEF vars, Tick, Start, Crash, ForcedStop, Down, OnCron, Evaluate,
         Insert, PassFails, fleet
<1>2. ASSUME lapses' = lapses PROVE Covered(t)
  BY <1>1, <1>2 DEF Watched, Kept
<1>3. ASSUME UNCHANGED <<cronOn, pass, lapses>> PROVE Covered(t)'
  BY <1>2, <1>3, CoveredSame
<1>4. ASSUME NEW i \in Instance, Crash(i) \/ ForcedStop(i) PROVE Covered(t)'
  <2>1. pass[i] = NoPass /\ lapses' = lapses BY <1>0, <1>4 DEF Crash, ForcedStop, Down
  <2>2. pass' = pass /\ cronOn' = cronOn BY <1>0, <1>4, <2>1 DEF Crash, ForcedStop, Down
  <2>. QED BY <1>3, <2>1, <2>2
<1>5. ASSUME NEW i \in Instance, PassFails(i) PROVE FALSE
  BY <1>0, <1>5 DEF PassFails
<1>6. ASSUME NEW i \in Instance, OnCron(i) PROVE Covered(t)'
  <2>1. pass[i] = NoPass /\ lapses' = lapses BY <1>6 DEF OnCron
  <2>2. CASE UNCHANGED <<cronOn, pass>> BY <1>3, <2>1, <2>2
  <2>3. CASE ~UNCHANGED <<cronOn, pass>>
    <3>. DEFINE p == [at |-> "won", since |-> now, due |-> -1, slot |-> -1, exact |-> TRUE]
    <3>1. cronOn' = now /\ pass' = [pass EXCEPT ![i] = p] BY <1>6, <2>3 DEF OnCron
    <3>2. p.since = now /\ p.at = "won" OBVIOUS
    <3>3. p # NoPass
      <4>1. NoPass.at = "none" BY DEF NoPass
      <4>. QED BY <3>2, <4>1
    <3>. HIDE DEF p
    <3>4. pass'[i] = p /\ \A j \in Instance \ {i} : pass'[j] = pass[j] BY <1>0, <3>1
    <3>5. SlotOf(t) \in Slots BY <1>0, SlotInSlots
    <3>6. CASE job[SlotOf(t)] # NoJob BY <3>5, <3>6, RowsStay DEF Covered
    <3>7. ASSUME NEW j \in Instance,
                 pass[j] # NoPass /\ Sees(pass[j].since, t) /\ InTime(pass[j].since, t)
          PROVE  Covered(t)'
      <4>1. pass'[j] = pass[j] BY <2>1, <3>4, <3>7
      <4>. QED BY <3>7, <4>1 DEF Covered, Sees, InTime
    <3>8. CASE ~Sees(cronOn, t)
      <4>1. InTime(now, t) BY <1>1, <3>8, WinsInTime DEF Watched
      <4>2. CASE Sees(now, t)
        BY <3>2, <3>3, <3>4, <4>1, <4>2 DEF Covered, Sees, InTime
      <4>3. CASE ~Sees(now, t) BY <3>1, <4>3 DEF Covered, Sees
      <4>. QED BY <4>2, <4>3
    <3>. QED BY <1>2, <2>1, <3>6, <3>7, <3>8 DEF Covered
  <2>. QED BY <2>2, <2>3
<1>7. ASSUME NEW i \in Instance, Evaluate(i) PROVE Covered(t)'
  <2>1. pass[i] # NoPass /\ PassRight(pass[i], now) /\ UNCHANGED <<cronOn, job, lapses>>
    BY <1>7 DEF Evaluate, Bounded, PassesRight, queue
  <2>2. CASE /\ pass' = [pass EXCEPT ![i] = NoPass]
             /\ \E e \in Errors : {u \in Occurrence : ShouldSendIt(u, now + e)} = {}
    <3>1. ~(Sees(pass[i].since, t) /\ InTime(pass[i].since, t))
      BY <2>1, <2>2, CoveredIsDue
    <3>2. \A j \in Instance \ {i} : pass'[j] = pass[j] BY <1>0, <2>2
    <3>. QED BY <1>2, <2>1, <3>1, <3>2 DEF Covered, Sees, InTime
  <2>3. ASSUME NEW e \in Errors, NEW u \in Occurrence,
               pass' = [pass EXCEPT ![i] =
                 [@ EXCEPT !.at = "due", !.due = u, !.slot = SlotOf(now), !.exact = (e = 0)]]
        PROVE  Covered(t)'
    <3>. DEFINE p == [pass[i] EXCEPT !.at = "due", !.due = u, !.slot = SlotOf(now),
                                     !.exact = (e = 0)]
    <3>1. pass[i] \in PassRow BY <2>1, PassOf
    <3>2. p.at = "due" /\ p.since = pass[i].since BY <3>1 DEF PassRow
    <3>3. p # NoPass
      <4>1. NoPass.at = "none" BY DEF NoPass
      <4>. QED BY <3>2, <4>1
    <3>4. pass' = [pass EXCEPT ![i] = p] BY <2>3
    <3>. HIDE DEF p
    <3>5. \A j \in Instance : pass[j] # NoPass =>
            pass'[j] # NoPass /\ pass'[j].since = pass[j].since
      BY <1>0, <3>2, <3>3, <3>4
    <3>. QED BY <1>2, <2>1, <3>5, CoveredSame
  <2>. QED BY <1>7, <2>2, <2>3 DEF Evaluate
<1>8. ASSUME NEW i \in Instance, Insert(i) PROVE Covered(t)'
  <2>1. UNCHANGED <<cronOn, lapses>> /\ pass' = [pass EXCEPT ![i] = NoPass]
    BY <1>8 DEF Insert
  <2>2. \A j \in Instance \ {i} : pass'[j] = pass[j] BY <1>0, <2>1
  <2>3. CASE Sees(pass[i].since, t) /\ InTime(pass[i].since, t)
    BY <1>8, <2>3, CoveredIsInserted DEF Covered
  <2>4. CASE ~(Sees(pass[i].since, t) /\ InTime(pass[i].since, t))
    <3>1. SlotOf(t) \in Slots BY <1>0, SlotInSlots
    <3>2. job[SlotOf(t)] # NoJob => job'[SlotOf(t)] # NoJob BY <3>1, RowsStay
    <3>. QED BY <1>2, <2>1, <2>2, <2>4, <3>2 DEF Covered, Sees, InTime
  <2>. QED BY <2>3, <2>4
<1>9. ASSUME NEW s \in Slots, Forwarded(s) PROVE Covered(t)' BY <1>3, <1>9, ForwardedLeaves
<1>10. CASE Tick \/ UNCHANGED vars \/ \E i \in Instance : Start(i)
  BY <1>3, <1>10 DEF Tick, vars, Start
<1>. QED BY <1>4, <1>5, <1>6, <1>7, <1>8, <1>9, <1>10, StepKinds

LEMMA WatchedInit == Init => Watched
<1>. SUFFICES ASSUME Init PROVE Watched OBVIOUS
<1>1. Ticking BY Times DEF Init, Ticking
<1>2. \A t \in Occurrence : ~Sees(cronOn, t)
  <2>. SUFFICES ASSUME NEW t \in Occurrence PROVE ~(t <= Never + 0)
    BY DEF Init, Sees
  <2>. QED BY Times DEF Never
<1>. QED BY <1>1, <1>2 DEF Watched, Kept, Covered

LEMMA WatchedMissesNothing ==
  ASSUME IndInv, Bounded, Watched
  PROVE  NothingMissed
<1>. SUFFICES ASSUME Punctual, lapses = 0, ~outage,
                     NEW t \in Occurrence, now >= t + Slot, job[SlotOf(t)] = NoJob
              PROVE  FALSE
  BY DEF NothingMissed
<1>0. /\ now \in Nat /\ t \in Nat /\ t <= MaxTime /\ Ticking
      /\ cronOn \in {Never} \cup 0..now
  BY Times DEF IndInv, Types, Bounded, ClocksRight, Watched
<1>1. ASSUME NEW i \in Instance, pass[i] # NoPass, InTime(pass[i].since, t) PROVE FALSE
  <2>1. pass[i].since \in Nat /\ now <= pass[i].since + MaxDelay
    BY <1>1, PassOf DEF Bounded, PassesRight, PassRight, PassRow
  <2>2. pass[i].since + MaxDelay + 0 < t + Slot BY <1>1 DEF InTime
  <2>. QED BY <1>0, <2>1, <2>2, Times
<1>2. CASE ~Sees(cronOn, t)
  <2>1. InTime(now, t) BY <1>0, <1>2, WinsInTime
  <2>2. now + MaxDelay + 0 < t + Slot BY <2>1 DEF InTime
  <2>. QED BY <1>0, <2>2, Times
<1>. QED BY <1>0, <1>1, <1>2 DEF Watched, Kept, Covered

\* A minute with an occurrence has its job when it is over, however the instances
\* share the gate, start, crash between passes and delay their inserts, provided two
\* intervals, a pass and what the estimates differ by fit in a minute (onCron,
\* shouldSendIt, trySetCronTime).
THEOREM NoMinuteIsMissed ==
  OnTheMinute => (Spec => []NothingMissed)
<1>. SUFFICES ASSUME OnTheMinute PROVE Spec => []NothingMissed OBVIOUS
<1>1. Init => Watched BY WatchedInit
<1>2. IndInv /\ Bounded /\ Watched /\ [Next]_vars => Watched'
  BY TickingStep, KeptStep DEF Watched
<1>3. IndInv /\ Bounded /\ Watched => NothingMissed BY WatchedMissesNothing
<1>. QED BY <1>1, <1>2, <1>3, Invariance, BoundedInvariance, PTL DEF Spec
=============================================================================
