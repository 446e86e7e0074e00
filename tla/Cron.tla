-------------------------------- MODULE Cron --------------------------------
(***************************************************************************)
(* Schedules (src/src/timekeeper.ts): every instance ticks, one of them    *)
(* wins the gate, evaluates the schedules with its estimate of the         *)
(* database's clock and inserts the due ones into the internal queue       *)
(* send-it, throttled to one per slot of the database's clock; a worker    *)
(* forwards them to their queues.                                          *)
(*                                                                         *)
(* One schedule is modelled: the singleton key keeps schedules apart.  The *)
(* gate, the evaluation and the insert are three statements, and the clock *)
(* runs between them.  Passes are shorter than the interval (module        *)
(* Instance has the ones that overlap).  A job of send-it goes the way of  *)
(* any job (module Processing): its handler may be late, its statements    *)
(* may fail, and every attempt sends again.                                *)
(***************************************************************************)
EXTENDS Integers, FiniteSets

CONSTANTS
  Instance,   \* the instances of the application
  Occurrence, \* the times the cron expression names
  Slot,       \* 60 seconds: singletonSeconds, and the window of shouldSendIt
  Interval,   \* cronMonitorIntervalSeconds
  Errors,     \* how far the estimate of the database's clock may be off
  MaxDelay,   \* bound: time a pass takes
  MaxTime,    \* bound: how long the clock runs
  MaxFaults,  \* bound: crashes, forced stops, failing statements and late handlers
  RetryLimit  \* retries of a job of the internal queue

ASSUME TimeAssumption ==
  /\ {Slot, Interval} \subseteq Nat \ {0}
  /\ {MaxDelay, MaxTime, MaxFaults, RetryLimit} \subseteq Nat
  /\ MaxDelay < Interval
  /\ Occurrence \subseteq Nat /\ Errors \subseteq Int

VARIABLES
  now,    \* the database's clock
  cronOn, \* version.cron_on, when the gate was won last
  up,     \* the instances that run
  next,   \* when the interval of each instance fires
  pass,   \* the pass each instance is in
  job,    \* the internal queue: at most one job per slot
  handlers, \* the calls of onSendIt under way for the job of each slot
  hurt,   \* history: the slots whose job met a fault after it was fetched
  faults, \* faults so far
  lapses, \* history: passes that won the gate and did not finish
  outage  \* history: at some time no instance was up

vars == <<now, cronOn, up, next, pass, job, handlers, hurt, faults, lapses, outage>>
fleet == <<up, next, outage>>
queue == <<job, handlers, hurt>>

SlotOf(t) == t \div Slot

\* A pass has won the gate, or knows what is due.  It is off when the clock was
\* estimated wrongly or when the slot ended before the insert.
Passes == [at : {"won", "due"}, since : 0..MaxTime, due : Occurrence \cup {-1},
           slot : -1..SlotOf(MaxTime), exact : BOOLEAN]
NoPass == [at |-> "none"]

\* sent counts the sends that took effect, 2 for more than one; erred tells of one
\* that was reported, forced of a stop that gave the job up.
Jobs == [for : Occurrence, off : BOOLEAN,
         state : {"created", "active", "completed", "failed"},
         tries : 0..(RetryLimit + 1), sent : 0..2, erred : BOOLEAN, forced : BOOLEAN]
NoJob == [state |-> "none"]

\* A handler for attempt number try.  late: it has run longer than the job may; stray:
\* nobody waits for it any more.
Handler == [by : Instance, try : 1..(RetryLimit + 1), late : BOOLEAN,
            at : {"sending", "completing", "failing", "stray"}]

Slots == 0..SlotOf(MaxTime)
Never == -1 - Interval

TypeOK ==
  /\ now \in 0..MaxTime
  /\ cronOn \in {Never} \cup 0..MaxTime
  /\ up \subseteq Instance
  /\ next \in [Instance -> 0..(MaxTime + Interval)]
  /\ pass \in [Instance -> Passes \cup {NoPass}]
  /\ \A s \in Slots : job[s] \in Jobs \cup {NoJob} /\ handlers[s] \subseteq Handler
  /\ hurt \subseteq Slots
  /\ faults \in 0..MaxFaults /\ lapses \in 0..MaxFaults /\ outage \in BOOLEAN

Init ==
  /\ now = 0 /\ cronOn = Never
  /\ up \in SUBSET Instance
  /\ next = [i \in Instance |-> 0]
  /\ pass = [i \in Instance |-> NoPass]
  /\ job = [s \in Slots |-> NoJob]
  /\ handlers = [s \in Slots |-> {}] /\ hurt = {}
  /\ faults = 0 /\ lapses = 0 /\ outage = FALSE

-----------------------------------------------------------------------------
(* Time, starts and crashes.                                                *)

\* The intervals fire on time and a pass takes at most MaxDelay.
Tick ==
  /\ now < MaxTime
  /\ \A i \in up : next[i] > now
  /\ \A i \in Instance : pass[i] # NoPass => now < pass[i].since + MaxDelay
  /\ now' = now + 1
  /\ outage' = (outage \/ up = {})
  /\ UNCHANGED <<cronOn, up, next, pass, queue, faults, lapses>>

\* timekeeper.start(): the first check comes at once.
Start(i) ==
  /\ i \notin up
  /\ up' = up \cup {i}
  /\ next' = [next EXCEPT ![i] = now]
  /\ UNCHANGED <<now, cronOn, pass, queue, faults, lapses, outage>>

\* The slots whose jobs a worker of the instance has in hand.
Held(i) == {s \in Slots : \E h \in handlers[s] : h.by = i /\ h.at # "stray"}

Down(i) ==
  /\ i \in up /\ faults < MaxFaults
  /\ faults' = faults + 1
  /\ up' = up \ {i}
  /\ pass' = [pass EXCEPT ![i] = NoPass]
  /\ lapses' = lapses + (IF pass[i] = NoPass THEN 0 ELSE 1)
  /\ hurt' = hurt \cup Held(i)
  /\ UNCHANGED <<now, cronOn, next, outage>>

\* The process dies: its pass is lost, the jobs it holds wait for their expiry.
Crash(i) ==
  /\ Down(i)
  /\ handlers' = [s \in Slots |-> {h \in handlers[s] : h.by # i}]
  /\ UNCHANGED job

\* fail(): the job is tried again while retries are left.
PutBack(row) ==
  IF row.state \in {"created", "active"}
  THEN [row EXCEPT !.state = IF row.tries > RetryLimit THEN "failed" ELSE "created"]
  ELSE row

\* The abort counts as a return; the send that was under way goes on.
Aborted(h) ==
  IF h.at = "sending" THEN {[h EXCEPT !.at = "completing"], [h EXCEPT !.at = "stray"]} ELSE {h}

\* stop() has waited long enough: failWip() puts back what the instance holds.
ForcedStop(i) ==
  /\ Down(i)
  /\ job' = [s \in Slots |->
       IF s \in Held(i) THEN [PutBack(job[s]) EXCEPT !.forced = TRUE] ELSE job[s]]
  /\ handlers' = [s \in Slots |->
       UNION {IF h.by = i THEN Aborted(h) ELSE {h} : h \in handlers[s]}]

-----------------------------------------------------------------------------
(* onCron().                                                                *)

\* staleAfter(): more than the interval has passed.
Stale(on) == now - on > Interval

\* The interval fires: trySetCronTime lets one instance pass per interval.
OnCron(i) ==
  /\ i \in up /\ pass[i] = NoPass /\ next[i] <= now
  /\ next' = [next EXCEPT ![i] = now + Interval]
  /\ \/ /\ Stale(cronOn)
        /\ cronOn' = now
        /\ pass' = [pass EXCEPT ![i] =
             [at |-> "won", since |-> now, due |-> -1, slot |-> -1, exact |-> TRUE]]
     \/ /\ ~Stale(cronOn)
        /\ UNCHANGED <<cronOn, pass>>
  /\ UNCHANGED <<now, up, queue, faults, lapses, outage>>

\* Variants: a window as long as the interval of the checks, and one too long.
DueWithinInterval(t, est) == t <= est /\ est - t < Interval
DueTooLong(t, est) == t <= est /\ est - t < 2 * Slot

\* shouldSendIt(): the last occurrence is less than 60 seconds old.
ShouldSendIt(t, est) ==
  /\ t <= est /\ est - t < Slot
  /\ \A u \in Occurrence : u <= est => u <= t

\* getSchedules() has answered: the pass goes on with what is due.
Evaluate(i) ==
  /\ pass[i] # NoPass /\ pass[i].at = "won"
  /\ \E e \in Errors :
       LET Due == {t \in Occurrence : ShouldSendIt(t, now + e)}
       IN \/ /\ Due = {}
             /\ pass' = [pass EXCEPT ![i] = NoPass]
          \/ \E t \in Due :
               pass' = [pass EXCEPT ![i] =
                 [@ EXCEPT !.at = "due", !.due = t, !.slot = SlotOf(now), !.exact = (e = 0)]]
  /\ UNCHANGED <<now, cronOn, queue, faults, lapses, fleet>>

\* The unique index on (name, singleton_on, singleton_key): the slot is taken by
\* a job in any state but cancelled.
Throttled(s) == job[s] # NoJob

NewJob(i) ==
  [for |-> pass[i].due, off |-> ~pass[i].exact \/ pass[i].slot # SlotOf(now),
   state |-> "created", tries |-> 0, sent |-> 0, erred |-> FALSE, forced |-> FALSE]

Insert(i) ==
  /\ pass[i] # NoPass /\ pass[i].at = "due"
  /\ job' = IF Throttled(SlotOf(now)) THEN job ELSE [job EXCEPT ![SlotOf(now)] = NewJob(i)]
  /\ pass' = [pass EXCEPT ![i] = NoPass]
  /\ UNCHANGED <<now, cronOn, handlers, hurt, faults, lapses, fleet>>

\* A statement of the pass fails: an error event, and the gate stays closed.
PassFails(i) ==
  /\ pass[i] # NoPass /\ faults < MaxFaults
  /\ faults' = faults + 1 /\ lapses' = lapses + 1
  /\ pass' = [pass EXCEPT ![i] = NoPass]
  /\ UNCHANGED <<now, cronOn, queue, fleet>>

-----------------------------------------------------------------------------
(* onSendIt(): the worker of the internal queue, each job a batch of its    *)
(* own.  Statements go by the job's id, whichever attempt is under way.     *)

Forwards(s, row, hands) ==
  /\ job' = [job EXCEPT ![s] = row]
  /\ handlers' = [handlers EXCEPT ![s] = hands]
  /\ UNCHANGED <<now, cronOn, pass, lapses, fleet>>

Without(s, h) == handlers[s] \ {h}
Becomes(s, h, at) == Without(s, h) \cup {[h EXCEPT !.at = at]}

NoFault == UNCHANGED <<faults, hurt>>
Fails == faults < MaxFaults /\ faults' = faults + 1
Fault(s) == Fails /\ hurt' = hurt \cup {s}

\* Variant: a fetch takes jobs that are being forwarded.
WaitingOrActive(s) == job[s].state \in {"created", "active"}

Waiting(s) == job[s].state = "created"

Taken(row) == [row EXCEPT !.state = "active", !.tries = @ + 1]

Fetch(i, s) ==
  /\ i \in up /\ Waiting(s)
  /\ LET h == [by |-> i, try |-> job[s].tries + 1, late |-> FALSE, at |-> "sending"]
     IN Forwards(s, Taken(job[s]), handlers[s] \cup {h})
  /\ NoFault

\* The answer of the fetch is lost: the job is active, and nobody handles it.
FetchFails(s) ==
  /\ up # {} /\ Waiting(s)
  /\ Forwards(s, Taken(job[s]), handlers[s])
  /\ Fault(s)

\* A stray's send ends it; after another's comes complete().
Sent(s, h) == IF h.at = "stray" THEN Without(s, h) ELSE Becomes(s, h, "completing")

OneMore(row) == [row EXCEPT !.sent = IF @ = 2 THEN 2 ELSE @ + 1]

Send(s, h) ==
  /\ h.at \in {"sending", "stray"}
  /\ Forwards(s, OneMore(job[s]), Sent(s, h))
  /\ NoFault

\* send() rejects, and may have taken effect: Promise.allSettled, an error event.
SendFails(s, h) ==
  /\ h.at \in {"sending", "stray"}
  /\ \E row \in {job[s], OneMore(job[s])} :
       Forwards(s, [row EXCEPT !.erred = TRUE], Sent(s, h))
  /\ Fails /\ UNCHANGED hurt

\* Variant: the handler does not wait for its sends.
AllSettledAtOnce(h) == h.at \in {"sending", "completing"}

AllSettled(h) == h.at = "completing"

Done(row) == IF row.state = "active" THEN [row EXCEPT !.state = "completed"] ELSE row

\* The handler resolves whatever became of the sends: the batch is completed.
Complete(s, h) ==
  /\ AllSettled(h)
  /\ Forwards(s, Done(job[s]), Without(s, h))
  /\ NoFault

\* complete() rejects, whatever became of it: fail() comes next.
CompleteFails(s, h) ==
  /\ AllSettled(h)
  /\ \E row \in {job[s], Done(job[s])} : Forwards(s, row, Becomes(s, h, "failing"))
  /\ Fault(s)

Fail(s, h) ==
  /\ h.at = "failing"
  /\ Forwards(s, PutBack(job[s]), Without(s, h))
  /\ NoFault

\* fail() rejects as well, in the same outage: an error event of the worker.
FailFails(s, h) ==
  /\ h.at = "failing"
  /\ \E row \in {job[s], PutBack(job[s])} : Forwards(s, row, Without(s, h))
  /\ NoFault

\* A handler, or the statement after it, runs longer than the job may.
Overrun(s, h) ==
  /\ h.at # "stray" /\ ~h.late
  /\ Forwards(s, job[s], Without(s, h) \cup {[h EXCEPT !.late = TRUE]})
  /\ Fault(s)

\* resolveWithinSeconds() rejects: fail() comes next, and the sends go on.
TimesOut(s, h) ==
  /\ h.at = "sending" /\ h.late
  /\ Forwards(s, job[s], Becomes(s, h, "failing") \cup {[h EXCEPT !.at = "stray"]})
  /\ NoFault

\* The supervisor of an instance that is up expires an attempt that nobody handles or
\* that is late.
Expire(s) ==
  /\ up # {} /\ job[s].state = "active"
  /\ \A h \in handlers[s] : h.at # "stray" /\ h.try = job[s].tries => h.late
  /\ Forwards(s, PutBack(job[s]), handlers[s])
  /\ NoFault

-----------------------------------------------------------------------------
Next ==
  \/ Tick
  \/ \E i \in Instance :
       \/ Start(i) \/ Crash(i) \/ ForcedStop(i)
       \/ OnCron(i) \/ Evaluate(i) \/ Insert(i) \/ PassFails(i)
       \/ \E s \in Slots : Fetch(i, s)
  \/ \E s \in Slots :
       \/ FetchFails(s) \/ Expire(s)
       \/ \E h \in handlers[s] :
            \/ Send(s, h) \/ SendFails(s, h) \/ Complete(s, h) \/ CompleteFails(s, h)
            \/ Fail(s, h) \/ FailFails(s, h) \/ Overrun(s, h) \/ TimesOut(s, h)

Spec == Init /\ [][Next]_vars

-----------------------------------------------------------------------------
(* Properties.                                                              *)

Of(t) == {s \in Slots : job[s] # NoJob /\ job[s].for = t}

\* "Internally, job throttling options are then used to make sure only 1 job is
\* sent even if multiple instances are running" (docs/api/scheduling.md:19).
\* Refuted: a pass that evaluates at the very end of the minute and inserts in
\* the next one finds a free slot.
OnlyOneSent == \A t \in Occurrence : Cardinality(Of(t)) <= 1

\* What the throttle achieves for occurrences on the minute: another job only in
\* the slot before or after, from an instance that misjudged the clock or was late
\* with its insert.
OneSentPerMinute ==
  \A t \in Occurrence : \A s \in Of(t) :
    s = SlotOf(t) \/ (job[s].off /\ s \in {SlotOf(t) - 1, SlotOf(t) + 1})

\* A tick just too early for the gate costs a whole interval, then come the delay
\* of the pass and what two estimates may differ by: an occurrence is due longer.
Punctual ==
  \A d, e \in Errors \cup {0} : 2 * Interval + MaxDelay + e - d <= Slot

\* While an instance is up, every minute with an occurrence gets its job, whichever
\* instances win the gate, come and go, and however the job of the minute before was
\* delayed into this one, unless the winner of the gate died or its pass failed.
NothingMissed ==
  Punctual /\ lapses = 0 /\ ~outage =>
    \A t \in Occurrence : now >= t + Slot => job[SlotOf(t)] # NoJob

\* A job of the internal queue is completed only when its send took effect or was
\* reported, unless a stop gave it up.  It sends twice, or fails for good, only when an
\* attempt met a fault: its instance went down, its fetch or complete() failed, or it
\* ran longer than the job may.  A send that fails brings no second one.
ForwardsExplained ==
  \A s \in Slots : job[s] # NoJob =>
    /\ job[s].state = "completed" => job[s].sent > 0 \/ job[s].erred \/ job[s].forced
    /\ job[s].sent > 1 => s \in hurt
    /\ job[s].state = "failed" => s \in hurt
=============================================================================
