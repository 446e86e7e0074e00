------------------------------ MODULE Instance ------------------------------
(***************************************************************************)
(* The life of one bun-boss instance: start() and stop() called by several *)
(* callers at any time (src/src/index.ts), the intervals and background    *)
(* passes they start and stop (boss.ts, navigator.ts, timekeeper.ts,       *)
(* notifier.ts), and the worker loops that stop() has to wait for          *)
(* (worker.ts, work() and offWork() of manager.ts).                        *)
(*                                                                         *)
(* The code between two awaits runs without interruption, so it is one     *)
(* action; every await of a query, a handler or another call's promise     *)
(* ends an action.  A caller whose awaited promise has settled goes on     *)
(* before any timer or query result is looked at (Settling), but another   *)
(* caller that was told of the same promise may call first.                *)
(***************************************************************************)
EXTENDS Integers, FiniteSets

CONSTANTS
  Caller,     \* whoever calls start() and stop()
  UserWorker, \* workers the application registers with work()
  SendIt,     \* the timekeeper's own worker, on an internal queue
  MaxCalls,   \* bound: start() and stop() calls
  MaxFaults,  \* bound: queries of start() or stop() that fail
  MaxOverlaps \* bound: ticks that find the last pass still running

ASSUME WorkerAssumption == SendIt \notin UserWorker
ASSUME BoundAssumption == {MaxCalls, MaxFaults, MaxOverlaps} \subseteq Nat

VARIABLES
  call,     \* what each caller awaits
  started,  \* #started
  stopped,  \* #stopped
  boot,     \* where #doStart awaits, "none" when #startingPromise is null
  halt,     \* where #doStop awaits, with its options and its clock
  pool,     \* db.opened
  manager,  \* manager.stopped, its live intervals, those its fields still name
  listening,\* the notifier has its handle
  part,     \* stopped, live intervals, busy flag and running passes of a subsystem
  worker,   \* the loop of every worker
  calls, faults, overlaps,  \* counted against the bounds
  retried,  \* history: a #doStart ran after one that failed, with no stop() between
  owed      \* history: workers notified since their last fetch began

lifecycle == <<call, started, stopped, boot, halt>>
services  == <<pool, manager, listening, part>>
bounds    == <<calls, faults, overlaps>>
vars == <<call, started, stopped, boot, halt, pool, manager, listening, part,
          worker, calls, faults, overlaps, retried, owed>>

Worker == UserWorker \cup {SendIt}

\* The subsystems that run passes: Boss, Navigator and Timekeeper.
Part == {"boss", "navigator", "timekeeper"}

-----------------------------------------------------------------------------
(* States.                                                                  *)

Waiting == {"starting", "stopping",           \* joined the call in flight
            "startAfterStop", "stopAfterStart"} \* wait for the other to settle
Ready   == {"startReady", "stopReady"}        \* what they waited for has settled
Calls   == [at : {"idle"} \cup Waiting \cup Ready, graceful : BOOLEAN]
Returned == [at |-> "idle", graceful |-> FALSE]

BootAt == {"none", "open", "schema", "queues", "listen", "skew", "sendit"}
HaltAt == {"none", "notifier", "manager", "sendit", "cron", "maintaining",
           "drain", "failWip", "settle", "close"}
NoHalt == [at |-> "none", graceful |-> FALSE, elapsed |-> FALSE]

\* A loop awaits its fetch, the handling and settling of its batch, or its delay
\* (module Processing has the statements of a batch).  offWork() parks the cleanup
\* of a worker or lets its caller await it.
Loops == [phase : {"absent", "fetch", "handle", "sleep"},
          stopping : BOOLEAN, notified : BOOLEAN,
          cleanup : {"none", "parked", "awaited"}]
Absent == [phase |-> "absent", stopping |-> FALSE, notified |-> FALSE, cleanup |-> "none"]

Settling == \E c \in Caller : call[c].at \in Ready
Present == {w \in Worker : worker[w].phase # "absent"}

TypeOK ==
  /\ call \in [Caller -> Calls]
  /\ started \in BOOLEAN /\ stopped \in BOOLEAN /\ pool \in BOOLEAN
  /\ listening \in BOOLEAN /\ retried \in BOOLEAN
  /\ boot \in BootAt
  /\ halt \in [at : HaltAt, graceful : BOOLEAN, elapsed : BOOLEAN]
  /\ manager \in [stopped : BOOLEAN, timers : 0..MaxCalls, named : 0..1]
  /\ part \in [Part -> [stopped : BOOLEAN, timers : 0..1, busy : BOOLEAN,
                        running : 0..(MaxOverlaps + 1)]]
  /\ worker \in [Worker -> Loops]
  /\ owed \subseteq Worker
  /\ calls \in 0..MaxCalls /\ faults \in 0..MaxFaults /\ overlaps \in 0..MaxOverlaps

Init ==
  /\ call = [c \in Caller |-> Returned]
  /\ started = FALSE /\ stopped = TRUE
  /\ boot = "none" /\ halt = NoHalt
  /\ pool = FALSE /\ listening = FALSE
  /\ manager = [stopped |-> FALSE, timers |-> 0, named |-> 0]
  /\ part = [p \in Part |-> [stopped |-> TRUE, timers |-> 0, busy |-> FALSE, running |-> 0]]
  /\ worker = [w \in Worker |-> Absent]
  /\ calls = 0 /\ faults = 0 /\ overlaps = 0
  /\ retried = FALSE /\ owed = {}

Await(c, where, graceful) == call' = [call EXCEPT ![c] = [at |-> where, graceful |-> graceful]]
Return(c) == call' = [call EXCEPT ![c] = Returned]

-----------------------------------------------------------------------------
(* start() and stop().                                                      *)

\* start() once no stop() is in its way, up to its next await.
EnterStart(c) ==
  \/ /\ boot # "none"
     /\ Await(c, "starting", FALSE)
     /\ UNCHANGED <<started, stopped, boot, halt, retried>>
  \/ /\ boot = "none" /\ started
     /\ Return(c)
     /\ UNCHANGED <<started, stopped, boot, halt, retried>>
  \/ /\ boot = "none" /\ ~started
     /\ boot' = "open"
     /\ stopped' = FALSE
     /\ Await(c, "starting", FALSE)
     /\ retried' = (retried \/ ~stopped)
     /\ UNCHANGED <<started, halt>>

\* stop() once no start() is in its way: it does not look at #startingPromise again.
EnterStop(c, graceful) ==
  /\ \/ /\ halt # NoHalt
        /\ Await(c, "stopping", FALSE)
        /\ halt' = halt
     \/ /\ halt = NoHalt /\ stopped
        /\ Return(c)
        /\ halt' = halt
     \/ /\ halt = NoHalt /\ ~stopped
        /\ halt' = [at |-> "notifier", graceful |-> graceful, elapsed |-> FALSE]
        /\ Await(c, "stopping", FALSE)
  /\ UNCHANGED <<started, stopped, boot, retried>>

\* Variant: stop() does not wait for a start() in flight.
StopAtOnce(c, graceful) == EnterStop(c, graceful)

CallStart(c) ==
  IF halt # NoHalt
  THEN Await(c, "startAfterStop", FALSE) /\ UNCHANGED <<started, stopped, boot, halt, retried>>
  ELSE EnterStart(c)

CallStop(c, graceful) ==
  IF boot # "none"
  THEN Await(c, "stopAfterStart", graceful) /\ UNCHANGED <<started, stopped, boot, halt, retried>>
  ELSE EnterStop(c, graceful)

Start(c) ==
  /\ call[c] = Returned /\ calls < MaxCalls
  /\ calls' = calls + 1
  /\ CallStart(c)
  /\ UNCHANGED <<services, worker, owed, faults, overlaps>>

Stop(c) ==
  /\ call[c] = Returned /\ calls < MaxCalls
  /\ calls' = calls + 1
  /\ \E graceful \in BOOLEAN : CallStop(c, graceful)
  /\ UNCHANGED <<services, worker, owed, faults, overlaps>>

\* The promise a call awaited has settled, well or not: the call goes on.
Resume(c) ==
  /\ \/ call[c].at = "startReady" /\ EnterStart(c)
     \/ call[c].at = "stopReady" /\ EnterStop(c, call[c].graceful)
  /\ UNCHANGED <<services, worker, owed, bounds>>

\* #startingPromise settles: it is cleared, the callers of start() return, those
\* of stop() go on.
StartSettles ==
  /\ boot' = "none"
  /\ call' = [c \in Caller |->
       CASE call[c].at = "starting" -> Returned
         [] call[c].at = "stopAfterStart" -> [call[c] EXCEPT !.at = "stopReady"]
         [] OTHER -> call[c]]

StopSettles ==
  /\ halt' = NoHalt
  /\ call' = [c \in Caller |->
       CASE call[c].at = "stopping" -> Returned
         [] call[c].at = "startAfterStop" -> [call[c] EXCEPT !.at = "startReady"]
         [] OTHER -> call[c]]

-----------------------------------------------------------------------------
(* Worker loops.                                                            *)

\* The top of the loop: stop, or clear beenNotified and fetch.
Turn(l) ==
  IF l.stopping THEN Absent ELSE [l EXCEPT !.phase = "fetch", !.notified = FALSE]

\* Variant: the delay starts whatever was notified meanwhile.
RestAnyway(l) == IF ~l.stopping THEN [l EXCEPT !.phase = "sleep"] ELSE Turn(l)

\* The end of an iteration that is not to fetch at once.
Rest(l) ==
  IF ~l.stopping /\ ~l.notified THEN [l EXCEPT !.phase = "sleep"] ELSE Turn(l)

\* Variant: stop() leaves the delay running.
WokenLate(l) == IF l.phase = "sleep" /\ ~l.stopping THEN Turn(l) ELSE l

\* notify(), stop() and the end of the delay end a sleep.
Woken(l) == IF l.phase = "sleep" THEN Turn(l) ELSE l

\* The loop goes on as l; a fetch that begins sees whatever was notified before.
Loop(w, l) ==
  /\ worker' = [worker EXCEPT ![w] = l]
  /\ owed' = IF l.phase \in {"fetch", "absent"} THEN owed \ {w} ELSE owed

\* work(), on an instance that was started.
Work(w) ==
  /\ ~Settling
  /\ ~manager.stopped /\ pool
  /\ worker[w] = Absent
  /\ Loop(w, Turn(worker[w]))
  /\ UNCHANGED <<lifecycle, services, bounds, retried>>

\* The fetch fails, finds nothing, or returns a batch.
Fetched(w) ==
  /\ ~Settling
  /\ worker[w].phase = "fetch"
  /\ \/ Loop(w, Rest(worker[w]))
     \/ pool /\ Loop(w, [worker[w] EXCEPT !.phase = "handle"])
  /\ UNCHANGED <<lifecycle, services, bounds, retried>>

\* The handler has returned, thrown, been aborted or run out of its time, and the
\* batch is settled: the next fetch follows at once if jobs of it settled.
Handled(w) ==
  /\ ~Settling
  /\ worker[w].phase = "handle"
  /\ Loop(w, Turn(worker[w])) \/ Loop(w, Rest(worker[w]))
  /\ UNCHANGED <<lifecycle, services, bounds, retried>>

\* The poll interval is over.
Wake(w) ==
  /\ ~Settling
  /\ worker[w].phase = "sleep"
  /\ Loop(w, Woken(worker[w]))
  /\ UNCHANGED <<lifecycle, services, bounds, retried>>

\* A notification, the reconnected listener, or notifyWorker(); the internal
\* queue does not notify.
Notify(w) ==
  /\ ~Settling
  /\ w \in Present /\ listening
  /\ LET l == Woken([worker[w] EXCEPT !.notified = TRUE])
     IN /\ worker' = [worker EXCEPT ![w] = l]
        /\ owed' = IF worker[w].phase = "sleep" THEN owed ELSE owed \cup {w}
  /\ UNCHANGED <<lifecycle, services, bounds, retried>>

\* offWork() stops the workers of a queue that are not stopping already.
OffWork(l, cleanup) ==
  IF l.phase = "absent" \/ l.stopping THEN l
  ELSE Woken([l EXCEPT !.stopping = TRUE, !.cleanup = cleanup])

CallOffWork(w) ==
  /\ ~Settling
  /\ w \in UserWorker \cap Present /\ ~worker[w].stopping
  /\ \E cleanup \in {"parked", "awaited"} :
       worker' = [worker EXCEPT ![w] = OffWork(worker[w], cleanup)]
  /\ owed' = {v \in owed : worker'[v].phase # "absent"}
  /\ UNCHANGED <<lifecycle, services, bounds, retried>>

hasPendingCleanups == \E w \in Worker : worker[w].cleanup = "parked"

-----------------------------------------------------------------------------
(* The background passes.                                                   *)

\* A tick of the interval, or the setImmediate() of start(), between passes.
Begin(p) ==
  /\ ~Settling
  /\ part[p].timers > 0 /\ ~part[p].stopped /\ ~part[p].busy
  /\ part[p].running < MaxOverlaps + 1
  /\ part' = [part EXCEPT ![p].busy = TRUE, ![p].running = @ + 1]
  /\ UNCHANGED <<lifecycle, pool, manager, listening, worker, owed, bounds, retried>>

\* Variant: the navigator written like the others.
FlagAlwaysCleared(p) == FALSE

\* A tick while a pass runs.  #onSupervise and onCron return from inside their
\* try, whose finally clears the flag of the pass that is still running; the
\* navigator looks at its flag before the try.
FlagAfterOverlap(p) == p = "navigator"

Overlap(p) ==
  /\ ~Settling
  /\ overlaps < MaxOverlaps
  /\ part[p].timers > 0 /\ part[p].busy
  /\ overlaps' = overlaps + 1
  /\ part' = [part EXCEPT ![p].busy = FlagAfterOverlap(p)]
  /\ UNCHANGED <<lifecycle, pool, manager, listening, worker, owed, calls, faults, retried>>

\* A pass ends, by itself or because it looked at the stopping flag.
Finish(p) ==
  /\ ~Settling
  /\ part[p].running > 0
  /\ part' = [part EXCEPT ![p].running = @ - 1, ![p].busy = FALSE]
  /\ UNCHANGED <<lifecycle, pool, manager, listening, worker, owed, bounds, retried>>

-----------------------------------------------------------------------------
(* #doStart.                                                                *)

\* Variant: start() of a subsystem that is running sets another interval.
StartedAgain(p) == [part[p] EXCEPT !.stopped = FALSE, !.timers = @ + 1]

\* start() of the boss and of the navigator.
PartStarted(p) == IF part[p].stopped THEN StartedAgain(p) ELSE part[p]

BootOpen ==
  /\ boot = "open"
  /\ pool' = TRUE
  /\ boot' = "schema"
  /\ UNCHANGED <<call, started, manager, listening, part, worker, owed>>

\* contractor.start() or check() is done; manager.start() sets its intervals and
\* reads the queues.  It has no guard: a second call loses the first interval.
BootSchema ==
  /\ boot = "schema"
  /\ manager' = [stopped |-> FALSE, timers |-> manager.timers + 1, named |-> 1]
  /\ boot' = "queues"
  /\ UNCHANGED <<call, started, pool, listening, part, worker, owed>>

\* The cache is read, or the error swallowed; the notifier connects.
BootQueues ==
  /\ boot = "queues"
  /\ boot' = "listen"
  /\ UNCHANGED <<call, started, pool, manager, listening, part, worker, owed>>

\* The listener is there, or a warning was emitted.  Boss and navigator start and
\* the timekeeper reads the clock.
BootListen ==
  /\ boot = "listen"
  /\ listening' \in {listening, pool}
  /\ part' = [p \in Part |->
       IF p = "timekeeper" THEN [part[p] EXCEPT !.stopped = FALSE] ELSE PartStarted(p)]
  /\ boot' = "skew"
  /\ UNCHANGED <<call, started, pool, manager, worker, owed>>

\* The skew is known or unknown; the internal queue is created.
BootSkew ==
  /\ boot = "skew"
  /\ boot' = "sendit"
  /\ UNCHANGED <<call, started, pool, manager, listening, part, worker, owed>>

\* The internal queue is there: work() on it, the timekeeper's intervals, done.
BootSendIt ==
  /\ boot = "sendit" /\ ~manager.stopped
  /\ IF SendIt \in Present THEN UNCHANGED <<worker, owed>>
     ELSE Loop(SendIt, Turn(worker[SendIt]))
  /\ part' = [part EXCEPT !["timekeeper"].timers = 1]
  /\ started' = TRUE
  /\ StartSettles
  /\ UNCHANGED <<pool, manager, listening>>

\* A query of #doStart fails, or work() finds the manager stopped: what was
\* started stays as it is.
BootFails ==
  /\ boot \in {"open", "schema", "sendit"}
  /\ \/ faults < MaxFaults /\ faults' = faults + 1
     \/ boot = "sendit" /\ manager.stopped /\ faults' = faults
     \/ boot # "open" /\ ~pool /\ faults' = faults
  /\ StartSettles
  /\ UNCHANGED <<started, services, worker, owed>>

Boot ==
  /\ ~Settling
  /\ \/ /\ \/ BootOpen \/ BootQueues \/ BootListen \/ BootSkew
           \/ pool /\ (BootSchema \/ BootSendIt)
        /\ faults' = faults
     \/ BootFails
  /\ UNCHANGED <<stopped, halt, calls, overlaps, retried>>

-----------------------------------------------------------------------------
(* #doStop.                                                                 *)

HaltTo(next) == halt' = [halt EXCEPT !.at = next]

\* Variant: the interval of the boss is left running.
PartStoppedTicking(p) == [part[p] EXCEPT !.stopped = TRUE]

\* The subsystem stops ticking; a pass that runs sees its stopping flag.
PartStopped(p) ==
  IF part[p].stopped THEN part[p] ELSE [part[p] EXCEPT !.stopped = TRUE, !.timers = 0]

HaltNotifier ==
  /\ halt.at = "notifier"
  /\ listening' = FALSE
  /\ HaltTo("manager")
  /\ UNCHANGED <<call, started, stopped, pool, manager, part, worker, owed>>

\* manager.stop() clears the intervals it knows of and parks a cleanup for each
\* worker of the application; timekeeper.stop() takes its own worker off.
HaltManager ==
  /\ halt.at = "manager"
  /\ manager' = [stopped |-> TRUE, timers |-> manager.timers - manager.named, named |-> 0]
  /\ worker' = [w \in Worker |->
       CASE w # SendIt -> OffWork(worker[w], "parked")
         [] w = SendIt /\ ~part["timekeeper"].stopped -> OffWork(worker[w], "awaited")
         [] OTHER -> worker[w]]
  /\ owed' = {w \in owed : worker'[w].phase # "absent"}
  /\ part' = [part EXCEPT !["timekeeper"].stopped = TRUE]
  /\ HaltTo(IF part["timekeeper"].stopped THEN "cron" ELSE "sendit")
  /\ UNCHANGED <<call, started, stopped, pool, listening>>

\* The timekeeper's worker is gone: its intervals are cleared.
HaltSendIt ==
  /\ halt.at = "sendit"
  /\ worker[SendIt].cleanup # "awaited"
  /\ part' = [part EXCEPT !["timekeeper"].timers = 0]
  /\ HaltTo("cron")
  /\ UNCHANGED <<call, started, stopped, pool, manager, listening, worker, owed>>

\* Each stop() waits for the flag of its pass; then the next subsystem stops.
HaltCron ==
  /\ halt.at = "cron"
  /\ ~part["timekeeper"].busy
  /\ part' = [part EXCEPT !["boss"] = PartStopped("boss")]
  /\ HaltTo("maintaining")
  /\ UNCHANGED <<call, started, stopped, pool, manager, listening, worker, owed>>

HaltMaintaining ==
  /\ halt.at = "maintaining"
  /\ ~part["boss"].busy
  /\ part' = [part EXCEPT !["navigator"] = PartStopped("navigator")]
  /\ HaltTo("drain")
  /\ UNCHANGED <<call, started, stopped, pool, manager, listening, worker, owed>>

\* Variant: the wait looks only at workers whose stop() is awaited.
DrainedOfAwaited ==
  halt.graceful => (halt.elapsed \/ \A w \in Worker : worker[w].cleanup # "awaited")

\* The graceful wait ends: no cleanup is pending, or the timeout has passed.
Drained == halt.graceful => (halt.elapsed \/ ~hasPendingCleanups)

\* The navigator's pass is over too, and the workers are drained.
HaltDrain ==
  /\ halt.at = "drain"
  /\ ~part["navigator"].busy
  /\ Drained
  /\ HaltTo("failWip")
  /\ UNCHANGED <<call, started, stopped, services, worker, owed>>

\* failWip(): the jobs in hand are failed and their handlers aborted, so that
\* their loops go on.
HaltFailWip ==
  /\ halt.at = "failWip"
  /\ HaltTo("settle")
  /\ UNCHANGED <<call, started, stopped, services, worker, owed>>

\* Variant: the pool closes without waiting for the parked cleanups.
CleanupsForgotten == TRUE

CleanupsSettled == ~hasPendingCleanups

HaltSettle ==
  /\ halt.at = "settle"
  /\ CleanupsSettled
  /\ HaltTo("close")
  /\ pool' = FALSE
  /\ UNCHANGED <<call, started, stopped, manager, listening, part, worker, owed>>

HaltClose ==
  /\ halt.at = "close"
  /\ stopped' = TRUE /\ started' = FALSE
  /\ StopSettles
  /\ UNCHANGED <<services, worker, owed>>

\* fail() of failWip rejects: stop() rejects and can be called again.
HaltFails ==
  /\ halt.at = "failWip"
  /\ faults < MaxFaults /\ faults' = faults + 1
  /\ \E w \in Worker : worker[w].phase = "handle"
  /\ StopSettles
  /\ UNCHANGED <<started, stopped, services, worker, owed>>

Halt ==
  /\ ~Settling
  /\ \/ /\ \/ HaltNotifier \/ HaltManager \/ HaltSendIt \/ HaltCron
           \/ HaltMaintaining \/ HaltDrain \/ HaltFailWip \/ HaltSettle \/ HaltClose
        /\ faults' = faults
     \/ HaltFails
  /\ UNCHANGED <<boot, calls, overlaps, retried>>

\* The timeout of a graceful stop passes.
Elapse ==
  /\ ~Settling
  /\ halt.at = "drain" /\ halt.graceful /\ ~halt.elapsed
  /\ halt' = [halt EXCEPT !.elapsed = TRUE]
  /\ UNCHANGED <<call, started, stopped, boot, services, worker, owed, bounds, retried>>

-----------------------------------------------------------------------------
Iterate(w) == Fetched(w) \/ Handled(w)

Next ==
  \/ \E c \in Caller : Start(c) \/ Stop(c) \/ Resume(c)
  \/ \E w \in UserWorker : Work(w) \/ CallOffWork(w) \/ Notify(w)
  \/ \E w \in Worker : Iterate(w) \/ Wake(w)
  \/ \E p \in Part : Begin(p) \/ Overlap(p) \/ Finish(p)
  \/ Boot \/ Halt \/ Elapse

\* Promises settle, queries answer, passes end, handlers return or time out.
Fairness ==
  /\ \A c \in Caller : WF_vars(Resume(c))
  /\ WF_vars(Boot) /\ WF_vars(Halt) /\ WF_vars(Elapse)
  /\ \A w \in Worker : WF_vars(Iterate(w))
  /\ \A p \in Part : WF_vars(Finish(p))

Spec == Init /\ [][Next]_vars
FairSpec == Spec /\ Fairness

-----------------------------------------------------------------------------
(* Properties.                                                              *)

\* #doStart and #doStop never run at the same time, unless a caller started the
\* instance again after a start() that failed: the wait of start() and stop() for
\* each other (index.ts:95 and 158) is enough otherwise.
NeverBoth == boot # "none" /\ halt # NoHalt => retried

\* A stopped instance that nobody is starting.
Halted == stopped /\ boot = "none" /\ halt = NoHalt

Ticking == manager.timers > 0 \/ \E p \in Part : part[p].timers > 0

\* After stop() no interval runs, nothing listens and the pool is closed.
QuietWhenStopped ==
  Halted /\ ~retried => ~Ticking /\ ~listening /\ ~pool /\ SendIt \notin Present

\* The pool is not closed under a worker whose cleanup stop() parked, nor under a
\* pass: passes of the boss and the timekeeper excepted whose flag a tick cleared.
PoolOutlivesWork ==
  ~pool /\ ~retried =>
    /\ \A w \in Present : worker[w].cleanup = "awaited"
    /\ \A p \in Part : part[p].running > 0 => p # "navigator" /\ overlaps > 0

\* failWip() of a graceful stop finds a handler only when the timeout has passed,
\* or when an offWork() whose caller awaits it had taken the worker before.
GracefulSpares ==
  halt.at = "failWip" /\ halt.graceful /\ ~halt.elapsed /\ ~retried =>
    \A w \in Worker : worker[w].phase = "handle" => worker[w].cleanup = "awaited"

\* A worker does not sleep through a notification that came after its last fetch
\* began, nor after stop() was asked of it.
NoLostWakeUp ==
  \A w \in Present : worker[w].phase = "sleep" => w \notin owed /\ ~worker[w].stopping

\* Two passes of a navigator never overlap; those of the others only after a tick
\* found one running.
OnePassAtATime ==
  \A p \in Part : part[p].running > 1 => p # "navigator" /\ overlaps > 0

\* Every start() and stop() returns: the flags, cleanups and promises they wait
\* for do not wait for each other.
CallsReturn ==
  \A c \in Caller : call[c] # Returned ~> (call[c] = Returned \/ retried)
=============================================================================
