--------------------------- MODULE InstanceProofs ---------------------------
(***************************************************************************)
(* Proofs about Instance, for any number of callers, workers, calls,       *)
(* failing queries and ticks during a pass.                                *)
(*                                                                         *)
(* The invariant has four parts that lean on each other.  Loops: a worker  *)
(* that sleeps has nothing to wake it.  Passes: what an open busy flag     *)
(* says of the passes that run.  Entry: #doStart begins on a stopped       *)
(* instance and #doStop on a started one, so they exclude each other until *)
(* a start() is retried.  Tidy: what #doStop has taken down by the time it *)
(* reaches each of its awaits, and that nothing puts it up again.          *)
(*                                                                         *)
(* Two accounts are kept beside it: of the intervals against the calls     *)
(* (Bounds), and of what every await waits for (Nobody waits in vain).     *)
(***************************************************************************)
EXTENDS Instance, FiniteSetTheorems, TLAPS

\* TypeOK without the bounds on counters that only TLC needs.
Types ==
  /\ call \in [Caller -> Calls]
  /\ started \in BOOLEAN /\ stopped \in BOOLEAN /\ pool \in BOOLEAN
  /\ listening \in BOOLEAN /\ retried \in BOOLEAN
  /\ boot \in BootAt
  /\ halt \in [at : HaltAt, graceful : BOOLEAN, elapsed : BOOLEAN]
  /\ manager \in [stopped : BOOLEAN, timers : Nat, named : 0..1]
  /\ manager.named <= manager.timers
  /\ part \in [Part -> [stopped : BOOLEAN, timers : Nat, busy : BOOLEAN, running : Nat]]
  /\ worker \in [Worker -> Loops]
  /\ owed \in SUBSET Worker
  /\ overlaps \in Nat

\* A sleeping worker was neither notified nor stopped, and a cleanup belongs to a
\* worker that stops.
LoopRight(l) ==
  /\ l.phase = "absent" => l = Absent
  /\ l.phase = "sleep" => ~l.notified /\ ~l.stopping
  /\ l.stopping <=> l.cleanup # "none"

\* What a worker is owed is noted in beenNotified until its next fetch.
LoopsRight ==
  \A w \in Worker :
    /\ LoopRight(worker[w])
    /\ w \in owed => worker[w].phase \in {"fetch", "handle"} /\ worker[w].notified

\* A pass without its busy flag, or a second pass, comes from a tick that found
\* one running, and never in the navigator.
PassesRight ==
  \A p \in Part :
    /\ part[p].running > 1 => p # "navigator" /\ overlaps > 0
    /\ part[p].running > 0 /\ ~part[p].busy => p # "navigator" /\ overlaps > 0

\* Who may be where, for callers that are about to go on too.
EntryRight ==
  /\ halt.at = "none" => halt = NoHalt
  /\ halt # NoHalt => ~stopped
  /\ ~retried =>
       /\ boot # "none" => ~stopped /\ halt = NoHalt
       /\ \A c \in Caller : call[c].at = "stopReady" => ~stopped /\ boot = "none"

\* Stages of #doStart and #doStop.
Fresh == stopped \/ boot \in {"open", "schema", "queues", "listen"}
Rising == boot \in {"skew", "sendit"}
CronDown == halt.at \in {"maintaining", "drain", "failWip", "settle", "close"}
BossDown == halt.at \in {"drain", "failWip", "settle", "close"}
NavigatorDown == halt.at \in {"failWip", "settle", "close"}
ManagerDown == halt.at \in {"sendit", "cron"} \/ CronDown

ManagerTidy ==
  /\ listening => ~stopped /\ halt.at \in {"none", "notifier"}
  /\ manager.timers = manager.named
  /\ manager.timers > 0 =>
       ~stopped /\ boot \notin {"open", "schema"} /\ halt.at \in {"none", "notifier", "manager"}
  /\ ManagerDown => manager.stopped

PartsTidy ==
  /\ \A p \in Part : p # "timekeeper" /\ part[p].stopped => part[p].timers = 0
  /\ part["timekeeper"].stopped /\ halt.at # "sendit" => part["timekeeper"].timers = 0
  /\ Fresh => \A p \in Part : part[p].stopped /\ part[p].timers = 0 /\ ~part[p].busy
  /\ Rising => ~part["timekeeper"].stopped /\ part["timekeeper"].timers = 0
  /\ ManagerDown => part["timekeeper"].stopped
  /\ CronDown => ~part["timekeeper"].busy /\ part["boss"].stopped
  /\ BossDown => ~part["boss"].busy /\ part["navigator"].stopped
  /\ NavigatorDown => ~part["navigator"].busy

\* The timekeeper's worker lives from the end of #doStart to the wait of its stop().
SendItTidy ==
  SendIt \in Present =>
    /\ ~Fresh /\ ~Rising
    /\ IF part["timekeeper"].stopped
       THEN halt.at = "sendit" /\ worker[SendIt].cleanup = "awaited"
       ELSE ~worker[SendIt].stopping

PoolTidy ==
  /\ stopped \/ halt.at = "close" => ~pool
  /\ boot \notin {"none", "open"} => pool
  /\ ~pool => /\ \A w \in Present : worker[w].cleanup = "awaited"
              /\ \A p \in Part : ~part[p].busy /\ part[p].timers = 0
  /\ manager.stopped => \A w \in Present : worker[w].cleanup # "none"
  /\ halt.at = "failWip" /\ halt.graceful /\ ~halt.elapsed => ~hasPendingCleanups

Tidy == ~retried => ManagerTidy /\ PartsTidy /\ SendItTidy /\ PoolTidy

\* The inductive invariant.
IndInv == Types /\ LoopsRight /\ PassesRight /\ EntryRight /\ Tidy

-----------------------------------------------------------------------------
(* One loop.                                                                *)

LEMMA AbsentLoop == Absent \in Loops /\ LoopRight(Absent) /\ Absent.phase = "absent"
BY DEF Absent, Loops, LoopRight

\* The top of the loop: gone, or fetching and not stopping.
LEMMA TurnRight ==
  ASSUME NEW l \in Loops, l.stopping <=> l.cleanup # "none"
  PROVE  /\ Turn(l) \in Loops /\ LoopRight(Turn(l))
         /\ Turn(l).phase \in {"absent", "fetch"}
         /\ Turn(l).phase = "fetch" =>
              ~Turn(l).stopping /\ ~l.stopping /\ Turn(l).cleanup = l.cleanup
BY AbsentLoop DEF Turn, Loops, LoopRight, Absent

LEMMA RestRight ==
  ASSUME NEW l \in Loops, l.stopping <=> l.cleanup # "none"
  PROVE  /\ Rest(l) \in Loops /\ LoopRight(Rest(l))
         /\ Rest(l).phase \in {"absent", "fetch", "sleep"}
         /\ Rest(l).phase = "sleep" => ~l.notified
         /\ Rest(l).phase # "absent" =>
              ~Rest(l).stopping /\ ~l.stopping /\ Rest(l).cleanup = l.cleanup
<1>1. CASE ~l.stopping /\ ~l.notified
  BY <1>1 DEF Rest, Loops, LoopRight, Absent
<1>2. CASE ~(~l.stopping /\ ~l.notified)
  <2>1. Rest(l) = Turn(l) BY <1>2 DEF Rest
  <2>. QED BY <2>1, TurnRight
<1>. QED BY <1>1, <1>2

\* A wake-up ends a sleep and nothing else.
LEMMA WokenRight ==
  ASSUME NEW l \in Loops, l.stopping <=> l.cleanup # "none",
         l.phase = "absent" => l = Absent
  PROVE  /\ Woken(l) \in Loops /\ LoopRight(Woken(l))
         /\ l.phase = "sleep" => Woken(l) = Turn(l)
         /\ l.phase # "sleep" => Woken(l) = l
         /\ Woken(l).phase # "sleep"
         /\ Woken(l).phase # "absent" =>
              Woken(l).stopping = l.stopping /\ Woken(l).cleanup = l.cleanup
<1>1. CASE l.phase = "sleep"
  <2>1. Woken(l) = Turn(l) BY <1>1 DEF Woken
  <2>. QED BY <2>1, <1>1, TurnRight DEF Loops
<1>2. CASE l.phase # "sleep" BY <1>2 DEF Woken, LoopRight
<1>. QED BY <1>1, <1>2

LEMMA OffWorkRight ==
  ASSUME NEW l \in Loops, LoopRight(l), NEW cleanup \in {"parked", "awaited"}
  PROVE  /\ OffWork(l, cleanup) \in Loops /\ LoopRight(OffWork(l, cleanup))
         /\ OffWork(l, cleanup).phase # "absent" =>
              /\ l.phase = OffWork(l, cleanup).phase
              /\ OffWork(l, cleanup).notified = l.notified
              /\ OffWork(l, cleanup).stopping
              /\ OffWork(l, cleanup).cleanup = IF l.stopping THEN l.cleanup ELSE cleanup
         /\ l.phase \in {"fetch", "handle"} => OffWork(l, cleanup).phase = l.phase
<1>1. CASE l.phase = "absent" \/ l.stopping
  BY <1>1, AbsentLoop DEF OffWork, LoopRight, Loops
<1>2. CASE ~(l.phase = "absent" \/ l.stopping)
  <2>. DEFINE m == [l EXCEPT !.stopping = TRUE, !.cleanup = cleanup]
  <2>1. /\ m \in Loops /\ m.stopping /\ m.cleanup = cleanup
        /\ m.phase = l.phase /\ m.notified = l.notified /\ m.phase # "absent"
    BY <1>2 DEF Loops
  <2>2. OffWork(l, cleanup) = Woken(m) BY <1>2 DEF OffWork
  <2>3. m.stopping <=> m.cleanup # "none" BY <2>1
  <2>4. Turn(m) = Absent BY <2>1 DEF Turn
  <2>. HIDE DEF m
  <2>. QED BY <2>1, <2>2, <2>3, <2>4, <1>2, WokenRight, AbsentLoop
<1>. QED BY <1>1, <1>2

LEMMA OneLoop ==
  ASSUME Types, LoopsRight, NEW w \in Worker
  PROVE  /\ worker[w] \in Loops /\ LoopRight(worker[w])
         /\ worker[w].stopping <=> worker[w].cleanup # "none"
         /\ worker[w].phase = "absent" => worker[w] = Absent
BY DEF Types, LoopsRight, LoopRight

-----------------------------------------------------------------------------
(* All loops.                                                               *)

WorkersTyped == worker \in [Worker -> Loops] /\ owed \in SUBSET Worker

\* What a step of the loops does to a worker that is there afterwards: it goes on,
\* offWork() stops it, or work() has just registered it.
Carried(w) ==
  worker'[w].phase # "absent" =>
    \/ /\ worker[w].phase # "absent"
       /\ worker'[w].stopping = worker[w].stopping
       /\ worker'[w].cleanup = worker[w].cleanup
    \/ /\ w # SendIt
       /\ worker[w].phase # "absent" /\ ~worker[w].stopping /\ worker'[w].stopping
    \/ w # SendIt /\ pool /\ ~manager.stopped

LEMMA LoopStep ==
  ASSUME Types, LoopsRight, NEW w \in Worker, NEW l \in Loops, LoopRight(l), Loop(w, l),
         w \in owed /\ l.phase \notin {"fetch", "absent"} => l.phase = "handle" /\ l.notified
  PROVE  /\ WorkersTyped' /\ LoopsRight'
         /\ worker'[w] = l /\ \A v \in Worker \ {w} : worker'[v] = worker[v]
<1>1. worker' = [worker EXCEPT ![w] = l] BY DEF Loop
<1>2. owed' \in SUBSET Worker /\ owed' \subseteq owed
      /\ (l.phase \in {"fetch", "absent"} => w \notin owed')
  BY DEF Loop, Types
<1>3. worker'[w] = l /\ \A v \in Worker \ {w} : worker'[v] = worker[v]
  BY <1>1 DEF Types
<1>4. WorkersTyped' BY <1>1, <1>2 DEF WorkersTyped, Types
<1>5. LoopsRight' BY <1>2, <1>3 DEF LoopsRight, LoopRight
<1>. QED BY <1>3, <1>4, <1>5

LEMMA OwedAwake ==
  ASSUME Types, LoopsRight, NEW w \in Worker, w \in owed
  PROVE  worker[w].notified /\ worker[w].phase \in {"fetch", "handle"}
BY DEF LoopsRight

LEMMA WorkStep ==
  ASSUME Types, LoopsRight, NEW w \in UserWorker, Work(w)
  PROVE  WorkersTyped' /\ LoopsRight' /\ \A v \in Worker : Carried(v)
<1>1. w \in Worker /\ w # SendIt BY WorkerAssumption DEF Worker
<1>2. Loop(w, Turn(worker[w])) /\ pool /\ ~manager.stopped BY DEF Work
<1>3. /\ Turn(worker[w]) \in Loops /\ LoopRight(Turn(worker[w]))
      /\ Turn(worker[w]).phase \in {"absent", "fetch"}
  BY <1>1, OneLoop, TurnRight
<1>4. WorkersTyped' /\ LoopsRight' /\ \A v \in Worker \ {w} : worker'[v] = worker[v]
  BY <1>1, <1>2, <1>3, LoopStep
<1>. QED BY <1>1, <1>2, <1>4 DEF Carried

LEMMA IterateStep ==
  ASSUME Types, LoopsRight, NEW w \in Worker, Iterate(w) \/ Wake(w)
  PROVE  WorkersTyped' /\ LoopsRight' /\ \A v \in Worker : Carried(v)
<1>1. worker[w] \in Loops /\ LoopRight(worker[w])
      /\ (worker[w].stopping <=> worker[w].cleanup # "none")
      /\ (worker[w].phase = "absent" => worker[w] = Absent)
  BY OneLoop
<1>2. CASE worker[w].phase # "absent" /\ Loop(w, Turn(worker[w]))
  <2>1. /\ Turn(worker[w]) \in Loops /\ LoopRight(Turn(worker[w]))
        /\ Turn(worker[w]).phase \in {"absent", "fetch"}
        /\ Turn(worker[w]).phase = "fetch" =>
             /\ ~Turn(worker[w]).stopping /\ ~worker[w].stopping
             /\ Turn(worker[w]).cleanup = worker[w].cleanup
    BY <1>1, TurnRight
  <2>2. /\ WorkersTyped' /\ LoopsRight'
        /\ worker'[w] = Turn(worker[w]) /\ \A v \in Worker \ {w} : worker'[v] = worker[v]
    BY <1>2, <2>1, LoopStep
  <2>. QED BY <1>1, <1>2, <2>1, <2>2 DEF Carried, Loops
<1>3. CASE worker[w].phase # "absent" /\ Loop(w, Rest(worker[w]))
  <2>1. /\ Rest(worker[w]) \in Loops /\ LoopRight(Rest(worker[w]))
        /\ Rest(worker[w]).phase \in {"absent", "fetch", "sleep"}
        /\ Rest(worker[w]).phase = "sleep" => ~worker[w].notified
        /\ Rest(worker[w]).phase # "absent" =>
             /\ ~Rest(worker[w]).stopping /\ ~worker[w].stopping
             /\ Rest(worker[w]).cleanup = worker[w].cleanup
    BY <1>1, RestRight
  <2>2. Rest(worker[w]).phase = "sleep" => w \notin owed BY <2>1, OwedAwake
  <2>3. /\ WorkersTyped' /\ LoopsRight'
        /\ worker'[w] = Rest(worker[w]) /\ \A v \in Worker \ {w} : worker'[v] = worker[v]
    BY <1>3, <2>1, <2>2, LoopStep
  <2>. QED BY <1>1, <1>3, <2>1, <2>3 DEF Carried, Loops
<1>4. CASE worker[w].phase = "fetch" /\ Loop(w, [worker[w] EXCEPT !.phase = "handle"])
  <2>. DEFINE l == [worker[w] EXCEPT !.phase = "handle"]
  <2>1. /\ l \in Loops /\ LoopRight(l) /\ l.phase = "handle"
        /\ l.notified = worker[w].notified
        /\ l.stopping = worker[w].stopping /\ l.cleanup = worker[w].cleanup
    BY <1>1 DEF Loops, LoopRight
  <2>2. w \in owed => l.notified BY <2>1, OwedAwake
  <2>3. /\ WorkersTyped' /\ LoopsRight'
        /\ worker'[w] = l /\ \A v \in Worker \ {w} : worker'[v] = worker[v]
    BY <1>4, <2>1, <2>2, LoopStep
  <2>. HIDE DEF l
  <2>. QED BY <1>4, <2>1, <2>3 DEF Carried
<1>5. CASE Wake(w)
  <2>1. Loop(w, Woken(worker[w])) /\ worker[w].phase = "sleep" BY <1>5 DEF Wake
  <2>2. Woken(worker[w]) = Turn(worker[w]) BY <2>1 DEF Woken
  <2>. QED BY <2>1, <2>2, <1>2
<1>. QED BY <1>2, <1>3, <1>4, <1>5 DEF Iterate, Fetched, Handled

LEMMA NotifyStep ==
  ASSUME Types, LoopsRight, NEW w \in UserWorker, Notify(w)
  PROVE  WorkersTyped' /\ LoopsRight' /\ \A v \in Worker : Carried(v)
<1>. DEFINE m == [worker[w] EXCEPT !.notified = TRUE]
<1>1. w \in Worker BY DEF Worker
<1>2. /\ worker[w] \in Loops /\ LoopRight(worker[w])
      /\ (worker[w].stopping <=> worker[w].cleanup # "none")
  BY <1>1, OneLoop
<1>3. worker[w].phase # "absent" BY DEF Notify, Present
<1>4. /\ m \in Loops /\ m.notified
      /\ m.phase = worker[w].phase
      /\ m.stopping = worker[w].stopping /\ m.cleanup = worker[w].cleanup
  BY <1>2 DEF Loops
<1>5. /\ worker' = [worker EXCEPT ![w] = Woken(m)]
      /\ owed' = IF worker[w].phase = "sleep" THEN owed ELSE owed \cup {w}
  BY DEF Notify
<1>. HIDE DEF m
<1>6. /\ Woken(m) \in Loops /\ LoopRight(Woken(m))
      /\ m.phase # "sleep" => Woken(m) = m
      /\ Woken(m).phase # "absent" =>
           Woken(m).stopping = m.stopping /\ Woken(m).cleanup = m.cleanup
  BY <1>2, <1>3, <1>4, WokenRight
<1>7. worker'[w] = Woken(m) /\ \A v \in Worker \ {w} : worker'[v] = worker[v]
  BY <1>1, <1>5 DEF Types
<1>8. WorkersTyped' BY <1>1, <1>5, <1>6 DEF WorkersTyped, Types
<1>9. worker[w].phase = "sleep" => w \notin owed BY <1>1, OwedAwake
<1>10. worker[w].phase # "sleep" => m.phase \in {"fetch", "handle"}
  BY <1>2, <1>3, <1>4 DEF Loops
<1>11. LoopsRight'
  <2>. SUFFICES ASSUME NEW v \in Worker
                PROVE  /\ LoopRight(worker[v])'
                       /\ (v \in owed)' => worker'[v].phase \in {"fetch", "handle"}
                                           /\ worker'[v].notified
    BY DEF LoopsRight
  <2>1. CASE v = w
    BY <2>1, <1>4, <1>5, <1>6, <1>7, <1>9, <1>10 DEF LoopRight
  <2>2. CASE v # w
    BY <2>2, <1>5, <1>7 DEF LoopsRight, LoopRight
  <2>. QED BY <2>1, <2>2
<1>12. \A v \in Worker : Carried(v) BY <1>3, <1>4, <1>6, <1>7 DEF Carried
<1>. QED BY <1>8, <1>11, <1>12

\* offWork() of some workers at once.
LEMMA OffWorkStep ==
  ASSUME Types, LoopsRight, worker' \in [Worker -> Loops],
         owed' = {w \in owed : worker'[w].phase # "absent"},
         \A w \in Worker : \/ worker'[w] = worker[w]
                           \/ worker'[w] = OffWork(worker[w], "parked")
                           \/ worker'[w] = OffWork(worker[w], "awaited")
  PROVE  WorkersTyped' /\ LoopsRight'
<1>1. WorkersTyped' BY DEF WorkersTyped, Types
<1>2. LoopsRight'
  <2>. SUFFICES ASSUME NEW w \in Worker
                PROVE  /\ LoopRight(worker[w])'
                       /\ (w \in owed)' => worker'[w].phase \in {"fetch", "handle"}
                                           /\ worker'[w].notified
    BY DEF LoopsRight
  <2>1. /\ worker[w] \in Loops /\ LoopRight(worker[w])
        /\ w \in owed => worker[w].phase \in {"fetch", "handle"} /\ worker[w].notified
    BY OneLoop, OwedAwake
  <2>2. CASE worker'[w] = worker[w] BY <2>1, <2>2 DEF LoopRight
  <2>3. ASSUME NEW cleanup \in {"parked", "awaited"}, worker'[w] = OffWork(worker[w], cleanup)
        PROVE  /\ LoopRight(worker[w])'
               /\ (w \in owed)' => worker'[w].phase \in {"fetch", "handle"}
                                   /\ worker'[w].notified
    <3>1. /\ LoopRight(OffWork(worker[w], cleanup))
          /\ OffWork(worker[w], cleanup).phase # "absent" =>
               /\ worker[w].phase = OffWork(worker[w], cleanup).phase
               /\ OffWork(worker[w], cleanup).notified = worker[w].notified
      BY <2>1, OffWorkRight
    <3>. QED BY <3>1, <2>1, <2>3 DEF LoopRight
  <2>. QED BY <2>2, <2>3
<1>. QED BY <1>1, <1>2

LEMMA CallOffWorkStep ==
  ASSUME Types, LoopsRight, NEW w \in UserWorker, CallOffWork(w)
  PROVE  WorkersTyped' /\ LoopsRight' /\ \A v \in Worker : Carried(v)
<1>1. w \in Worker /\ w # SendIt BY WorkerAssumption DEF Worker
<1>2. PICK cleanup \in {"parked", "awaited"} :
        worker' = [worker EXCEPT ![w] = OffWork(worker[w], cleanup)]
  BY DEF CallOffWork
<1>3. worker[w].phase # "absent" /\ ~worker[w].stopping
      /\ owed' = {v \in owed : worker'[v].phase # "absent"}
  BY <1>1 DEF CallOffWork, Present
<1>4. /\ OffWork(worker[w], cleanup) \in Loops
      /\ OffWork(worker[w], cleanup).phase # "absent" => OffWork(worker[w], cleanup).stopping
  BY <1>1, OneLoop, OffWorkRight
<1>5. /\ worker' \in [Worker -> Loops] /\ worker'[w] = OffWork(worker[w], cleanup)
      /\ \A v \in Worker \ {w} : worker'[v] = worker[v]
  BY <1>1, <1>2, <1>4 DEF Types
<1>6. WorkersTyped' /\ LoopsRight' BY <1>3, <1>5, OffWorkStep
<1>7. \A v \in Worker : Carried(v) BY <1>1, <1>3, <1>4, <1>5 DEF Carried
<1>. QED BY <1>6, <1>7

-----------------------------------------------------------------------------
(* Workers and passes leave the tidy state tidy.                            *)

LEMMA WorkersKeep ==
  ASSUME IndInv, WorkersTyped', LoopsRight', \A w \in Worker : Carried(w),
         UNCHANGED <<lifecycle, services, retried, overlaps>>
  PROVE  IndInv'
<1>. USE DEF IndInv, lifecycle, services
<1>1. Types' BY DEF Types, WorkersTyped
<1>2. PassesRight' /\ EntryRight' BY DEF PassesRight, EntryRight, NoHalt
<1>3. Tidy'
  <2>. SUFFICES ASSUME ~retried PROVE ManagerTidy' /\ PartsTidy' /\ SendItTidy' /\ PoolTidy'
    BY DEF Tidy
  <2>0. ManagerTidy /\ PartsTidy /\ SendItTidy /\ PoolTidy BY DEF Tidy
  <2>1. ManagerTidy' /\ PartsTidy'
    BY <2>0 DEF ManagerTidy, PartsTidy, ManagerDown, CronDown, BossDown, NavigatorDown,
                Fresh, Rising
  <2>2. SendItTidy'
    BY <2>0 DEF SendItTidy, Fresh, Rising, Present, Carried, Worker
  <2>3. manager.stopped => \A w \in Present : worker[w].stopping
    BY <2>0, OneLoop DEF PoolTidy, Present
  <2>4. ~pool => \A w \in Present : worker[w].stopping
    BY <2>0, OneLoop DEF PoolTidy, Present
  <2>5. \A w \in Worker : worker'[w].phase # "absent" /\ (manager.stopped \/ ~pool) =>
          worker[w].phase # "absent" /\ worker'[w].cleanup = worker[w].cleanup
    BY <2>3, <2>4 DEF Carried, Present
  <2>6. /\ ~pool' => \A w \in Present' : worker'[w].cleanup = "awaited"
        /\ manager'.stopped => \A w \in Present' : worker'[w].cleanup # "none"
    BY <2>0, <2>5 DEF PoolTidy, Present
  <2>7. halt'.at = "failWip" /\ halt'.graceful /\ ~halt'.elapsed => ~hasPendingCleanups'
    <3>. SUFFICES ASSUME halt.at = "failWip", halt.graceful, ~halt.elapsed, NEW w \in Worker,
                         worker'[w].cleanup = "parked"
                  PROVE  FALSE
      BY DEF hasPendingCleanups
    <3>1. manager.stopped /\ worker[w].cleanup # "parked"
      BY <2>0 DEF ManagerTidy, ManagerDown, CronDown, PoolTidy, hasPendingCleanups
    <3>2. worker'[w].phase # "absent" BY DEF LoopsRight, LoopRight, Absent
    <3>. QED BY <3>1, <3>2, <2>5
  <2>. QED BY <2>0, <2>1, <2>2, <2>6, <2>7 DEF PoolTidy
<1>. QED BY <1>1, <1>2, <1>3

\* A pass may begin only where an interval runs.
LEMMA PassesKeep ==
  ASSUME IndInv, PassesRight', overlaps' \in Nat,
         part' \in [Part -> [stopped : BOOLEAN, timers : Nat, busy : BOOLEAN, running : Nat]],
         \A p \in Part : /\ part'[p].stopped = part[p].stopped
                         /\ part'[p].timers = part[p].timers
                         /\ part'[p].busy => part[p].busy \/ part[p].timers > 0,
         UNCHANGED <<lifecycle, pool, manager, listening, worker, owed, retried>>
  PROVE  IndInv'
<1>. USE DEF IndInv, lifecycle
<1>1. Types' BY DEF Types
<1>2. LoopsRight' /\ EntryRight' BY DEF LoopsRight, LoopRight, Absent, EntryRight, NoHalt
<1>3. Tidy'
  <2>. SUFFICES ASSUME ~retried PROVE ManagerTidy' /\ PartsTidy' /\ SendItTidy' /\ PoolTidy'
    BY DEF Tidy
  <2>0. ManagerTidy /\ PartsTidy /\ SendItTidy /\ PoolTidy BY DEF Tidy
  <2>1. "timekeeper" \in Part /\ "boss" \in Part /\ "navigator" \in Part BY DEF Part
  <2>2. /\ CronDown => part["timekeeper"].timers = 0 /\ part["boss"].timers = 0
        /\ BossDown => part["navigator"].timers = 0
    BY <2>0, <2>1 DEF PartsTidy, ManagerDown, CronDown, BossDown
  <2>3. PartsTidy'
    <3>1. /\ \A p \in Part : p # "timekeeper" /\ part'[p].stopped => part'[p].timers = 0
          /\ part'["timekeeper"].stopped /\ halt'.at # "sendit" =>
               part'["timekeeper"].timers = 0
          /\ Rising' => ~part'["timekeeper"].stopped /\ part'["timekeeper"].timers = 0
          /\ ManagerDown' => part'["timekeeper"].stopped
      BY <2>0, <2>1 DEF PartsTidy, Rising, ManagerDown, CronDown
    <3>2. Fresh' => \A p \in Part :
            part'[p].stopped /\ part'[p].timers = 0 /\ ~part'[p].busy
      BY <2>0 DEF PartsTidy, Fresh
    <3>3. /\ CronDown' => ~part'["timekeeper"].busy /\ part'["boss"].stopped
          /\ BossDown' => ~part'["boss"].busy /\ part'["navigator"].stopped
          /\ NavigatorDown' => ~part'["navigator"].busy
      BY <2>0, <2>1, <2>2 DEF PartsTidy, CronDown, BossDown, NavigatorDown
    <3>. QED BY <3>1, <3>2, <3>3 DEF PartsTidy
  <2>4. ManagerTidy' BY <2>0 DEF ManagerTidy, ManagerDown, CronDown
  <2>5. SendItTidy' BY <2>0, <2>1 DEF SendItTidy, Fresh, Rising, Present
  <2>6. PoolTidy' BY <2>0 DEF PoolTidy, Present, hasPendingCleanups
  <2>. QED BY <2>3, <2>4, <2>5, <2>6
<1>. QED BY <1>1, <1>2, <1>3

LEMMA BeginStep ==
  ASSUME IndInv, NEW p \in Part, Begin(p)
  PROVE  IndInv'
<1>. USE DEF IndInv
<1>1. /\ part[p].timers > 0 /\ ~part[p].busy
      /\ part' = [part EXCEPT ![p].busy = TRUE, ![p].running = @ + 1]
      /\ UNCHANGED <<lifecycle, pool, manager, listening, worker, owed, bounds, retried>>
  BY DEF Begin
<1>2. /\ part[p].running \in Nat /\ overlaps \in Nat
      /\ part \in [Part -> [stopped : BOOLEAN, timers : Nat, busy : BOOLEAN, running : Nat]]
  BY DEF Types
<1>3. /\ part' \in [Part -> [stopped : BOOLEAN, timers : Nat, busy : BOOLEAN, running : Nat]]
      /\ part'[p].busy /\ part'[p].running = part[p].running + 1
      /\ part'[p].stopped = part[p].stopped /\ part'[p].timers = part[p].timers
      /\ \A q \in Part \ {p} : part'[q] = part[q]
  BY <1>1, <1>2
<1>4. PassesRight' BY <1>1, <1>2, <1>3 DEF PassesRight, bounds
<1>. QED BY <1>1, <1>2, <1>3, <1>4, PassesKeep DEF bounds

LEMMA OverlapStep ==
  ASSUME IndInv, NEW p \in Part, Overlap(p)
  PROVE  IndInv'
<1>. USE DEF IndInv
<1>1. /\ part[p].busy /\ overlaps' = overlaps + 1
      /\ part' = [part EXCEPT ![p].busy = FlagAfterOverlap(p)]
      /\ UNCHANGED <<lifecycle, pool, manager, listening, worker, owed, retried>>
  BY DEF Overlap
<1>2. /\ part[p].running \in Nat /\ overlaps \in Nat
      /\ part \in [Part -> [stopped : BOOLEAN, timers : Nat, busy : BOOLEAN, running : Nat]]
  BY DEF Types
<1>3. /\ part' \in [Part -> [stopped : BOOLEAN, timers : Nat, busy : BOOLEAN, running : Nat]]
      /\ part'[p].busy = (p = "navigator") /\ part'[p].running = part[p].running
      /\ part'[p].stopped = part[p].stopped /\ part'[p].timers = part[p].timers
      /\ \A q \in Part \ {p} : part'[q] = part[q]
  BY <1>1, <1>2 DEF FlagAfterOverlap
<1>4. PassesRight' BY <1>1, <1>2, <1>3 DEF PassesRight
<1>. QED BY <1>1, <1>2, <1>3, <1>4, PassesKeep

LEMMA FinishStep ==
  ASSUME IndInv, NEW p \in Part, Finish(p)
  PROVE  IndInv'
<1>. USE DEF IndInv
<1>1. /\ part[p].running > 0
      /\ part' = [part EXCEPT ![p].running = @ - 1, ![p].busy = FALSE]
      /\ UNCHANGED <<lifecycle, pool, manager, listening, worker, owed, bounds, retried>>
  BY DEF Finish
<1>0. overlaps' = overlaps BY <1>1 DEF bounds
<1>2. /\ part[p].running \in Nat /\ part[p].running - 1 \in Nat /\ overlaps \in Nat
      /\ part \in [Part -> [stopped : BOOLEAN, timers : Nat, busy : BOOLEAN, running : Nat]]
  BY <1>1 DEF Types
<1>3. /\ part' \in [Part -> [stopped : BOOLEAN, timers : Nat, busy : BOOLEAN, running : Nat]]
      /\ ~part'[p].busy /\ part'[p].running = part[p].running - 1
      /\ part'[p].stopped = part[p].stopped /\ part'[p].timers = part[p].timers
      /\ \A q \in Part \ {p} : part'[q] = part[q]
  BY <1>1, <1>2
<1>4. PassesRight'
  <2>. SUFFICES ASSUME NEW q \in Part
                PROVE  /\ part'[q].running > 1 => q # "navigator" /\ overlaps > 0
                       /\ part'[q].running > 0 /\ ~part'[q].busy =>
                            q # "navigator" /\ overlaps > 0
    BY <1>0 DEF PassesRight
  <2>1. part[p].running > 1 => p # "navigator" /\ overlaps > 0 BY DEF PassesRight
  <2>2. CASE q = p BY <2>1, <2>2, <1>2, <1>3
  <2>3. CASE q # p BY <2>3, <1>3 DEF PassesRight
  <2>. QED BY <2>2, <2>3
<1>. QED BY <1>1, <1>2, <1>0, <1>3, <1>4, PassesKeep

-----------------------------------------------------------------------------
(* Callers.                                                                 *)

LEMMA AwaitType ==
  ASSUME Types, NEW c \in Caller, NEW where \in {"idle"} \cup Waiting \cup Ready,
         NEW graceful \in BOOLEAN,
         call' = [call EXCEPT ![c] = [at |-> where, graceful |-> graceful]]
  PROVE  /\ call' \in [Caller -> Calls]
         /\ call'[c].at = where /\ \A d \in Caller \ {c} : call'[d] = call[d]
BY DEF Types, Calls

\* A call that waits or returns leaves the instance as it is.
LEMMA CallsKeep ==
  ASSUME IndInv, call' \in [Caller -> Calls],
         \A c \in Caller : call'[c].at = "stopReady" => call[c].at = "stopReady",
         UNCHANGED <<started, stopped, boot, halt, services, worker, owed, overlaps, retried>>
  PROVE  IndInv'
<1>. USE DEF IndInv, services
<1>1. Types' BY DEF Types
<1>2. LoopsRight' /\ PassesRight' BY DEF LoopsRight, LoopRight, Absent, PassesRight
<1>3. EntryRight' BY DEF EntryRight, NoHalt
<1>4. Tidy'
  BY DEF Tidy, ManagerTidy, PartsTidy, SendItTidy, PoolTidy, ManagerDown, CronDown,
         BossDown, NavigatorDown, Fresh, Rising, Present, hasPendingCleanups
<1>. QED BY <1>1, <1>2, <1>3, <1>4

LEMMA StartBegins ==
  ASSUME IndInv, NEW c \in Caller, boot = "none", boot' = "open", stopped' = FALSE,
         Await(c, "starting", FALSE), retried' = (retried \/ ~stopped),
         UNCHANGED <<started, halt, services, worker, owed, overlaps>>
  PROVE  IndInv'
<1>. USE DEF IndInv, services
<1>1. /\ call' \in [Caller -> Calls]
      /\ call'[c].at = "starting" /\ \A d \in Caller \ {c} : call'[d] = call[d]
  BY AwaitType DEF Await, Waiting
<1>2. Types' BY <1>1 DEF Types, BootAt
<1>3. LoopsRight' /\ PassesRight' BY DEF LoopsRight, LoopRight, Absent, PassesRight
<1>4. ~retried' => stopped /\ ~retried /\ halt = NoHalt /\ halt.at = "none"
  <2>1. ~retried' => stopped /\ ~retried OBVIOUS
  <2>2. stopped => halt = NoHalt BY DEF EntryRight
  <2>3. NoHalt.at = "none" BY DEF NoHalt
  <2>. QED BY <2>1, <2>2, <2>3
<1>5. EntryRight'
  <2>1. (halt.at = "none" => halt = NoHalt)' BY DEF EntryRight, NoHalt
  <2>2. ~retried' => \A d \in Caller : call'[d].at # "stopReady"
    BY <1>1, <1>4 DEF EntryRight
  <2>. QED BY <1>4, <2>1, <2>2 DEF EntryRight, NoHalt
<1>6. Tidy'
  <2>. SUFFICES ASSUME ~retried' PROVE ManagerTidy' /\ PartsTidy' /\ SendItTidy' /\ PoolTidy'
    BY DEF Tidy
  <2>1. stopped /\ halt.at = "none" /\ ManagerTidy /\ PartsTidy /\ SendItTidy /\ PoolTidy
    BY <1>4 DEF Tidy
  <2>2. ManagerTidy'
    BY <2>1 DEF ManagerTidy, ManagerDown, CronDown, Types
  <2>3. PartsTidy'
    BY <2>1 DEF PartsTidy, Fresh, Rising, ManagerDown, CronDown, BossDown, NavigatorDown
  <2>4. SendItTidy' BY <2>1 DEF SendItTidy, Fresh, Rising, Present
  <2>5. PoolTidy' BY <2>1 DEF PoolTidy, Present, hasPendingCleanups
  <2>. QED BY <2>2, <2>3, <2>4, <2>5
<1>. QED BY <1>2, <1>3, <1>5, <1>6

LEMMA StopBegins ==
  ASSUME IndInv, NEW c \in Caller, NEW graceful \in BOOLEAN,
         boot = "none" \/ call[c].at = "stopReady",
         halt = NoHalt, ~stopped,
         halt' = [at |-> "notifier", graceful |-> graceful, elapsed |-> FALSE],
         Await(c, "stopping", FALSE),
         UNCHANGED <<started, stopped, boot, retried, services, worker, owed, overlaps>>
  PROVE  IndInv'
<1>. USE DEF IndInv, services
<1>1. /\ call' \in [Caller -> Calls]
      /\ call'[c].at = "stopping" /\ \A d \in Caller \ {c} : call'[d] = call[d]
  BY AwaitType DEF Await, Waiting
<1>2. Types' BY <1>1 DEF Types, HaltAt
<1>3. LoopsRight' /\ PassesRight' BY DEF LoopsRight, LoopRight, Absent, PassesRight
<1>4. ~retried => boot = "none" BY DEF EntryRight
<1>5. EntryRight' BY <1>1, <1>4 DEF EntryRight, NoHalt
<1>6. Tidy'
  <2>. SUFFICES ASSUME ~retried PROVE ManagerTidy' /\ PartsTidy' /\ SendItTidy' /\ PoolTidy'
    BY DEF Tidy
  <2>1. /\ boot = "none" /\ halt.at = "none" /\ halt'.at = "notifier"
        /\ ManagerTidy /\ PartsTidy /\ SendItTidy /\ PoolTidy
    BY <1>4 DEF Tidy, NoHalt
  <2>2. ManagerTidy' BY <2>1 DEF ManagerTidy, ManagerDown, CronDown
  <2>3. PartsTidy'
    BY <2>1 DEF PartsTidy, Fresh, Rising, ManagerDown, CronDown, BossDown, NavigatorDown
  <2>4. SendItTidy' BY <2>1 DEF SendItTidy, Fresh, Rising, Present
  <2>5. PoolTidy' BY <2>1 DEF PoolTidy, Present, hasPendingCleanups
  <2>. QED BY <2>2, <2>3, <2>4, <2>5
<1>. QED BY <1>2, <1>3, <1>5, <1>6

LEMMA ReturnKeeps ==
  ASSUME IndInv, NEW c \in Caller, NEW where \in {"idle"} \cup Waiting,
         NEW graceful \in BOOLEAN,
         call' = [call EXCEPT ![c] = [at |-> where, graceful |-> graceful]],
         UNCHANGED <<started, stopped, boot, halt, services, worker, owed, overlaps, retried>>
  PROVE  IndInv'
<1>1. where # "stopReady" BY DEF Waiting
<1>2. /\ call' \in [Caller -> Calls]
      /\ call'[c].at = where /\ \A d \in Caller \ {c} : call'[d] = call[d]
  BY AwaitType DEF IndInv
<1>. QED BY <1>1, <1>2, CallsKeep

LEMMA EnterStartStep ==
  ASSUME IndInv, NEW c \in Caller, EnterStart(c),
         UNCHANGED <<services, worker, owed, overlaps>>
  PROVE  IndInv'
<1>1. CASE boot = "none" /\ ~started /\ boot' = "open"
  BY <1>1, StartBegins DEF EnterStart
<1>2. CASE Await(c, "starting", FALSE) /\ UNCHANGED <<started, stopped, boot, halt, retried>>
  BY <1>2, ReturnKeeps DEF Await, Waiting
<1>3. CASE Return(c) /\ UNCHANGED <<started, stopped, boot, halt, retried>>
  BY <1>3, ReturnKeeps DEF Return, Returned
<1>. QED BY <1>1, <1>2, <1>3 DEF EnterStart

LEMMA EnterStopStep ==
  ASSUME IndInv, NEW c \in Caller, NEW graceful \in BOOLEAN, EnterStop(c, graceful),
         boot = "none" \/ call[c].at = "stopReady",
         UNCHANGED <<services, worker, owed, overlaps>>
  PROVE  IndInv'
<1>0. UNCHANGED <<started, stopped, boot, retried>> BY DEF EnterStop
<1>1. CASE /\ halt = NoHalt /\ ~stopped /\ Await(c, "stopping", FALSE)
           /\ halt' = [at |-> "notifier", graceful |-> graceful, elapsed |-> FALSE]
  BY <1>0, <1>1, StopBegins
<1>2. CASE Await(c, "stopping", FALSE) /\ halt' = halt
  BY <1>0, <1>2, ReturnKeeps DEF Await, Waiting
<1>3. CASE Return(c) /\ halt' = halt
  BY <1>0, <1>3, ReturnKeeps DEF Return, Returned
<1>. QED BY <1>1, <1>2, <1>3 DEF EnterStop

LEMMA CallerStep ==
  ASSUME IndInv, NEW c \in Caller, Start(c) \/ Stop(c) \/ Resume(c)
  PROVE  IndInv'
<1>1. UNCHANGED <<services, worker, owed, overlaps>> BY DEF Start, Stop, Resume, bounds
<1>2. CASE Start(c)
  <2>1. CASE halt = NoHalt BY <2>1, <1>1, <1>2, EnterStartStep DEF Start, CallStart
  <2>2. CASE halt # NoHalt
    BY <2>2, <1>1, <1>2, ReturnKeeps DEF Start, CallStart, Await, Waiting
  <2>. QED BY <2>1, <2>2
<1>3. CASE Stop(c)
  <2>1. PICK graceful \in BOOLEAN : CallStop(c, graceful) BY <1>3 DEF Stop
  <2>2. CASE boot = "none" BY <2>1, <2>2, <1>1, EnterStopStep DEF CallStop
  <2>3. CASE boot # "none"
    BY <2>1, <2>3, <1>1, ReturnKeeps DEF CallStop, Await, Waiting
  <2>. QED BY <2>2, <2>3
<1>4. CASE Resume(c)
  <2>1. call[c].graceful \in BOOLEAN BY DEF IndInv, Types, Calls
  <2>2. CASE EnterStart(c) BY <2>2, <1>1, EnterStartStep
  <2>3. CASE call[c].at = "stopReady" /\ EnterStop(c, call[c].graceful)
    BY <2>1, <2>3, <1>1, EnterStopStep
  <2>. QED BY <1>4, <2>2, <2>3 DEF Resume
<1>. QED BY <1>2, <1>3, <1>4

-----------------------------------------------------------------------------
(* #doStart.                                                                *)

PartRow == [stopped : BOOLEAN, timers : Nat, busy : BOOLEAN, running : Nat]

LEMMA PartNames == "timekeeper" \in Part /\ "boss" \in Part /\ "navigator" \in Part
BY DEF Part

LEMMA PartTypes ==
  ASSUME Types
  PROVE  part \in [Part -> PartRow]
BY DEF Types, PartRow

\* Until a start() is retried, #doStart runs on an instance nobody stops.
LEMMA BootAlone ==
  ASSUME IndInv, boot # "none", ~retried
  PROVE  /\ ~stopped /\ halt.at = "none"
         /\ ManagerTidy /\ PartsTidy /\ SendItTidy /\ PoolTidy
BY DEF IndInv, EntryRight, NoHalt, Tidy

\* A step between two awaits of #doStart keeps callers and loops.
LEMMA BootMoves ==
  ASSUME IndInv, boot # "none", boot' \in BootAt \ {"none"},
         UNCHANGED <<call, started, stopped, halt, worker, owed, overlaps, retried>>
  PROVE  LoopsRight' /\ EntryRight'
BY DEF IndInv, LoopsRight, LoopRight, Absent, EntryRight, NoHalt

LEMMA BootOpenStep ==
  ASSUME IndInv, BootOpen, UNCHANGED <<stopped, halt, overlaps, retried>>
  PROVE  IndInv'
<1>. USE DEF IndInv
<1>1. /\ boot = "open" /\ boot' = "schema" /\ pool' = TRUE
      /\ UNCHANGED <<call, started, manager, listening, part, worker, owed>>
  BY DEF BootOpen
<1>2. Types' /\ PassesRight' BY <1>1 DEF Types, BootAt, PassesRight
<1>3. LoopsRight' /\ EntryRight' BY <1>1, BootMoves DEF BootAt
<1>4. Tidy'
  <2>. SUFFICES ASSUME ~retried PROVE ManagerTidy' /\ PartsTidy' /\ SendItTidy' /\ PoolTidy'
    BY DEF Tidy
  <2>1. ~stopped /\ halt.at = "none" /\ ManagerTidy /\ PartsTidy /\ SendItTidy /\ PoolTidy
    BY <1>1, BootAlone
  <2>2. ManagerTidy' BY <1>1, <2>1 DEF ManagerTidy, ManagerDown, CronDown
  <2>3. PartsTidy'
    BY <1>1, <2>1 DEF PartsTidy, Fresh, Rising, ManagerDown, CronDown, BossDown, NavigatorDown
  <2>4. SendItTidy' BY <1>1, <2>1 DEF SendItTidy, Fresh, Rising, Present
  <2>5. PoolTidy' BY <1>1, <2>1 DEF PoolTidy, Present, hasPendingCleanups
  <2>. QED BY <2>2, <2>3, <2>4, <2>5
<1>. QED BY <1>2, <1>3, <1>4

LEMMA BootSchemaStep ==
  ASSUME IndInv, BootSchema, UNCHANGED <<stopped, halt, overlaps, retried>>
  PROVE  IndInv'
<1>. USE DEF IndInv
<1>1. /\ boot = "schema" /\ boot' = "queues"
      /\ manager' = [stopped |-> FALSE, timers |-> manager.timers + 1, named |-> 1]
      /\ UNCHANGED <<call, started, pool, listening, part, worker, owed>>
  BY DEF BootSchema
<1>2. Types' /\ PassesRight' BY <1>1 DEF Types, BootAt, PassesRight
<1>3. LoopsRight' /\ EntryRight' BY <1>1, BootMoves DEF BootAt
<1>4. Tidy'
  <2>. SUFFICES ASSUME ~retried PROVE ManagerTidy' /\ PartsTidy' /\ SendItTidy' /\ PoolTidy'
    BY DEF Tidy
  <2>1. ~stopped /\ halt.at = "none" /\ ManagerTidy /\ PartsTidy /\ SendItTidy /\ PoolTidy
    BY <1>1, BootAlone
  <2>2. manager.timers = 0 BY <1>1, <2>1 DEF ManagerTidy, Types
  <2>3. ManagerTidy' BY <1>1, <2>1, <2>2 DEF ManagerTidy, ManagerDown, CronDown
  <2>4. PartsTidy'
    BY <1>1, <2>1 DEF PartsTidy, Fresh, Rising, ManagerDown, CronDown, BossDown, NavigatorDown
  <2>5. SendItTidy' BY <1>1, <2>1 DEF SendItTidy, Fresh, Rising, Present
  <2>6. PoolTidy' BY <1>1, <2>1 DEF PoolTidy, Present, hasPendingCleanups
  <2>. QED BY <2>3, <2>4, <2>5, <2>6
<1>. QED BY <1>2, <1>3, <1>4

LEMMA BootQueuesStep ==
  ASSUME IndInv, BootQueues, UNCHANGED <<stopped, halt, overlaps, retried>>
  PROVE  IndInv'
<1>. USE DEF IndInv
<1>1. /\ boot = "queues" /\ boot' = "listen"
      /\ UNCHANGED <<call, started, pool, manager, listening, part, worker, owed>>
  BY DEF BootQueues
<1>2. Types' /\ PassesRight' BY <1>1 DEF Types, BootAt, PassesRight
<1>3. LoopsRight' /\ EntryRight' BY <1>1, BootMoves DEF BootAt
<1>4. Tidy'
  <2>. SUFFICES ASSUME ~retried PROVE ManagerTidy' /\ PartsTidy' /\ SendItTidy' /\ PoolTidy'
    BY DEF Tidy
  <2>1. ~stopped /\ halt.at = "none" /\ ManagerTidy /\ PartsTidy /\ SendItTidy /\ PoolTidy
    BY <1>1, BootAlone
  <2>2. ManagerTidy' BY <1>1, <2>1 DEF ManagerTidy, ManagerDown, CronDown
  <2>3. PartsTidy'
    BY <1>1, <2>1 DEF PartsTidy, Fresh, Rising, ManagerDown, CronDown, BossDown, NavigatorDown
  <2>4. SendItTidy' BY <1>1, <2>1 DEF SendItTidy, Fresh, Rising, Present
  <2>5. PoolTidy' BY <1>1, <2>1 DEF PoolTidy, Present, hasPendingCleanups
  <2>. QED BY <2>2, <2>3, <2>4, <2>5
<1>. QED BY <1>2, <1>3, <1>4

\* start() of a subsystem.
LEMMA StartedRow ==
  ASSUME NEW r \in PartRow
  PROVE  /\ [r EXCEPT !.stopped = FALSE, !.timers = r.timers + 1] \in PartRow
         /\ ~[r EXCEPT !.stopped = FALSE, !.timers = r.timers + 1].stopped
         /\ [r EXCEPT !.stopped = FALSE, !.timers = r.timers + 1].busy = r.busy
         /\ [r EXCEPT !.stopped = FALSE, !.timers = r.timers + 1].running = r.running
<1>1. r.timers + 1 \in Nat BY DEF PartRow
<1>. DEFINE n == r.timers + 1
<1>2. n \in Nat BY <1>1
<1>. HIDE DEF n
<1>3. /\ [r EXCEPT !.stopped = FALSE, !.timers = n] \in PartRow
      /\ ~[r EXCEPT !.stopped = FALSE, !.timers = n].stopped
      /\ [r EXCEPT !.stopped = FALSE, !.timers = n].busy = r.busy
      /\ [r EXCEPT !.stopped = FALSE, !.timers = n].running = r.running
  BY <1>2 DEF PartRow
<1>. QED BY <1>3 DEF n

LEMMA PartStartedRow ==
  ASSUME Types, NEW p \in Part
  PROVE  /\ PartStarted(p) \in PartRow /\ ~PartStarted(p).stopped
         /\ PartStarted(p).busy = part[p].busy /\ PartStarted(p).running = part[p].running
<1>1. part[p] \in PartRow BY PartTypes
<1>2. CASE part[p].stopped
  BY <1>1, <1>2, StartedRow DEF PartStarted, StartedAgain
<1>3. CASE ~part[p].stopped BY <1>1, <1>3 DEF PartStarted, PartRow
<1>. QED BY <1>2, <1>3

LEMMA BootListenStep ==
  ASSUME IndInv, BootListen, UNCHANGED <<stopped, halt, overlaps, retried>>
  PROVE  IndInv'
<1>. USE DEF IndInv
<1>1. /\ boot = "listen" /\ boot' = "skew" /\ listening' \in {listening, pool}
      /\ part' = [p \in Part |->
           IF p = "timekeeper" THEN [part[p] EXCEPT !.stopped = FALSE] ELSE PartStarted(p)]
      /\ UNCHANGED <<call, started, pool, manager, worker, owed>>
  BY DEF BootListen
<1>2. \A p \in Part :
        /\ part'[p] \in PartRow /\ ~part'[p].stopped
        /\ part'[p].busy = part[p].busy /\ part'[p].running = part[p].running
        /\ p = "timekeeper" => part'[p].timers = part[p].timers
  <2>. SUFFICES ASSUME NEW p \in Part
                PROVE  /\ part'[p] \in PartRow /\ ~part'[p].stopped
                       /\ part'[p].busy = part[p].busy /\ part'[p].running = part[p].running
                       /\ p = "timekeeper" => part'[p].timers = part[p].timers
    OBVIOUS
  <2>1. CASE p = "timekeeper"
    <3>1. part'[p] = [part[p] EXCEPT !.stopped = FALSE] BY <1>1, <2>1
    <3>2. part[p] \in PartRow BY PartTypes
    <3>. QED BY <3>1, <3>2 DEF PartRow
  <2>2. CASE p # "timekeeper"
    <3>1. part'[p] = PartStarted(p) BY <1>1, <2>2
    <3>. QED BY <3>1, <2>2, PartStartedRow
  <2>. QED BY <2>1, <2>2
<1>3. part' \in [Part -> PartRow] BY <1>1, <1>2
<1>4. Types' BY <1>1, <1>3 DEF Types, BootAt, PartRow
<1>5. PassesRight' BY <1>2 DEF PassesRight
<1>6. LoopsRight' /\ EntryRight' BY <1>1, BootMoves DEF BootAt
<1>7. Tidy'
  <2>. SUFFICES ASSUME ~retried PROVE ManagerTidy' /\ PartsTidy' /\ SendItTidy' /\ PoolTidy'
    BY DEF Tidy
  <2>1. ~stopped /\ halt.at = "none" /\ ManagerTidy /\ PartsTidy /\ SendItTidy /\ PoolTidy
    BY <1>1, BootAlone
  <2>2. ManagerTidy' BY <1>1, <2>1 DEF ManagerTidy, ManagerDown, CronDown
  <2>3. part["timekeeper"].timers = 0 BY <1>1, <2>1, PartNames DEF PartsTidy, Fresh
  <2>4. PartsTidy'
    BY <1>1, <1>2, <2>1, <2>3, PartNames
    DEF PartsTidy, Fresh, Rising, ManagerDown, CronDown, BossDown, NavigatorDown
  <2>5. SendItTidy' BY <1>1, <2>1 DEF SendItTidy, Fresh, Present
  <2>6. PoolTidy' BY <1>1, <2>1 DEF PoolTidy, Present, hasPendingCleanups
  <2>. QED BY <2>2, <2>4, <2>5, <2>6
<1>. QED BY <1>4, <1>5, <1>6, <1>7

LEMMA BootSkewStep ==
  ASSUME IndInv, BootSkew, UNCHANGED <<stopped, halt, overlaps, retried>>
  PROVE  IndInv'
<1>. USE DEF IndInv
<1>1. /\ boot = "skew" /\ boot' = "sendit"
      /\ UNCHANGED <<call, started, pool, manager, listening, part, worker, owed>>
  BY DEF BootSkew
<1>2. Types' /\ PassesRight' BY <1>1 DEF Types, BootAt, PassesRight
<1>3. LoopsRight' /\ EntryRight' BY <1>1, BootMoves DEF BootAt
<1>4. Tidy'
  <2>. SUFFICES ASSUME ~retried PROVE ManagerTidy' /\ PartsTidy' /\ SendItTidy' /\ PoolTidy'
    BY DEF Tidy
  <2>1. ~stopped /\ halt.at = "none" /\ ManagerTidy /\ PartsTidy /\ SendItTidy /\ PoolTidy
    BY <1>1, BootAlone
  <2>2. ManagerTidy' BY <1>1, <2>1 DEF ManagerTidy, ManagerDown, CronDown
  <2>3. PartsTidy'
    BY <1>1, <2>1 DEF PartsTidy, Fresh, Rising, ManagerDown, CronDown, BossDown, NavigatorDown
  <2>4. SendItTidy' BY <1>1, <2>1 DEF SendItTidy, Fresh, Rising, Present
  <2>5. PoolTidy' BY <1>1, <2>1 DEF PoolTidy, Present, hasPendingCleanups
  <2>. QED BY <2>2, <2>3, <2>4, <2>5
<1>. QED BY <1>2, <1>3, <1>4

\* #startingPromise settles: a stop() that waited finds a started instance.
LEMMA StartSettled ==
  ASSUME IndInv, boot # "none", StartSettles, UNCHANGED <<stopped, halt, retried>>
  PROVE  call' \in [Caller -> Calls] /\ boot' = "none" /\ EntryRight'
<1>. USE DEF IndInv
<1>1. call' \in [Caller -> Calls]
  <2>. SUFFICES ASSUME NEW c \in Caller PROVE call'[c] \in Calls
    BY DEF StartSettles
  <2>1. call[c] \in Calls BY DEF Types
  <2>2. \/ call'[c] = Returned \/ call'[c] = call[c]
        \/ call'[c] = [call[c] EXCEPT !.at = "stopReady"]
    BY DEF StartSettles
  <2>3. ASSUME NEW k \in Calls PROVE [k EXCEPT !.at = "stopReady"] \in Calls
    BY DEF Calls, Ready
  <2>4. Returned \in Calls BY DEF Returned, Calls
  <2>. QED BY <2>1, <2>2, <2>3, <2>4
<1>2. boot' = "none" BY DEF StartSettles
<1>3. EntryRight' BY <1>2 DEF EntryRight, NoHalt
<1>. QED BY <1>1, <1>2, <1>3

LEMMA BootSendItStep ==
  ASSUME IndInv, BootSendIt, UNCHANGED <<stopped, halt, overlaps, retried>>
  PROVE  IndInv'
<1>. USE DEF IndInv
<1>1. /\ boot = "sendit" /\ ~manager.stopped /\ StartSettles /\ started' = TRUE
      /\ part' = [part EXCEPT !["timekeeper"].timers = 1]
      /\ UNCHANGED <<pool, manager, listening>>
  BY DEF BootSendIt
<1>2. call' \in [Caller -> Calls] /\ boot' = "none" /\ EntryRight'
  BY <1>1, StartSettled
<1>3. /\ part \in [Part -> PartRow] /\ part' \in [Part -> PartRow]
      /\ part'["timekeeper"].timers = 1
      /\ \A p \in Part : /\ part'[p].stopped = part[p].stopped
                         /\ part'[p].busy = part[p].busy
                         /\ part'[p].running = part[p].running
                         /\ p # "timekeeper" => part'[p].timers = part[p].timers
  BY <1>1, PartTypes, PartNames DEF PartRow
<1>4. /\ WorkersTyped' /\ LoopsRight'
      /\ \A w \in Worker \ {SendIt} : worker'[w] = worker[w]
      /\ \/ worker' = worker
         \/ ~worker'[SendIt].stopping
  <2>1. CASE UNCHANGED <<worker, owed>>
    BY <2>1 DEF WorkersTyped, Types, LoopsRight, LoopRight, Absent
  <2>2. CASE Loop(SendIt, Turn(worker[SendIt])) /\ SendIt \notin Present
    <3>1. SendIt \in Worker /\ worker[SendIt] = Absent
      BY <2>2, OneLoop DEF Worker, Present
    <3>2. /\ Turn(worker[SendIt]) \in Loops /\ LoopRight(Turn(worker[SendIt]))
          /\ Turn(worker[SendIt]).phase = "fetch" /\ ~Turn(worker[SendIt]).stopping
      BY <3>1, AbsentLoop DEF Turn, Absent, Loops, LoopRight
    <3>. QED BY <2>2, <3>1, <3>2, LoopStep
  <2>. QED BY <2>1, <2>2 DEF BootSendIt
<1>5. Types' BY <1>1, <1>2, <1>3, <1>4 DEF Types, BootAt, PartRow, WorkersTyped
<1>6. PassesRight' BY <1>3 DEF PassesRight
<1>7. Tidy'
  <2>. SUFFICES ASSUME ~retried PROVE ManagerTidy' /\ PartsTidy' /\ SendItTidy' /\ PoolTidy'
    BY DEF Tidy
  <2>1. ~stopped /\ halt.at = "none" /\ ManagerTidy /\ PartsTidy /\ SendItTidy /\ PoolTidy
    BY <1>1, BootAlone
  <2>2. ManagerTidy' BY <1>1, <1>2, <2>1 DEF ManagerTidy, ManagerDown, CronDown
  <2>3. ~part["timekeeper"].stopped /\ SendIt \notin Present /\ pool
    BY <1>1, <2>1 DEF PartsTidy, SendItTidy, PoolTidy, Rising
  <2>4. PartsTidy'
    BY <1>1, <1>2, <1>3, <2>1, <2>3, PartNames
    DEF PartsTidy, Fresh, Rising, ManagerDown, CronDown, BossDown, NavigatorDown
  <2>5. SendItTidy'
    BY <1>1, <1>2, <1>3, <1>4, <2>1, <2>3, PartNames
    DEF SendItTidy, Fresh, Rising, Present
  <2>6. PoolTidy' BY <1>1, <1>2, <2>1, <2>3 DEF PoolTidy
  <2>. QED BY <2>2, <2>4, <2>5, <2>6
<1>. QED BY <1>2, <1>4, <1>5, <1>6, <1>7

LEMMA BootFailsStep ==
  ASSUME IndInv, BootFails, UNCHANGED <<stopped, halt, overlaps, retried>>
  PROVE  IndInv'
<1>. USE DEF IndInv
<1>1. /\ boot # "none" /\ StartSettles
      /\ UNCHANGED <<started, pool, manager, listening, part, worker, owed>>
  BY DEF BootFails, services
<1>2. call' \in [Caller -> Calls] /\ boot' = "none" /\ EntryRight'
  BY <1>1, StartSettled
<1>3. Types' /\ PassesRight' /\ LoopsRight'
  BY <1>1, <1>2 DEF Types, BootAt, PassesRight, LoopsRight, LoopRight, Absent
<1>4. Tidy'
  <2>. SUFFICES ASSUME ~retried PROVE ManagerTidy' /\ PartsTidy' /\ SendItTidy' /\ PoolTidy'
    BY DEF Tidy
  <2>1. ~stopped /\ halt.at = "none" /\ ManagerTidy /\ PartsTidy /\ SendItTidy /\ PoolTidy
    BY <1>1, BootAlone
  <2>2. ManagerTidy' BY <1>1, <1>2, <2>1 DEF ManagerTidy, ManagerDown, CronDown
  <2>3. PartsTidy'
    BY <1>1, <1>2, <2>1
    DEF PartsTidy, Fresh, Rising, ManagerDown, CronDown, BossDown, NavigatorDown
  <2>4. SendItTidy' BY <1>1, <1>2, <2>1 DEF SendItTidy, Fresh, Rising, Present
  <2>5. PoolTidy' BY <1>1, <1>2, <2>1 DEF PoolTidy, Present, hasPendingCleanups
  <2>. QED BY <2>2, <2>3, <2>4, <2>5
<1>. QED BY <1>2, <1>3, <1>4

LEMMA BootStep ==
  ASSUME IndInv, Boot
  PROVE  IndInv'
<1>1. UNCHANGED <<stopped, halt, overlaps, retried>> BY DEF Boot
<1>. QED BY <1>1, BootOpenStep, BootSchemaStep, BootQueuesStep, BootListenStep, BootSkewStep,
            BootSendItStep, BootFailsStep DEF Boot

-----------------------------------------------------------------------------
(* #doStop.                                                                 *)

\* Until a start() is retried, #doStop runs on an instance nobody starts.
LEMMA HaltAlone ==
  ASSUME IndInv, halt.at # "none", ~retried
  PROVE  /\ boot = "none" /\ ~stopped
         /\ ManagerTidy /\ PartsTidy /\ SendItTidy /\ PoolTidy
BY DEF IndInv, EntryRight, NoHalt, Tidy

LEMMA HaltMoves ==
  ASSUME IndInv, halt.at # "none", NEW next \in HaltAt \ {"none"}, HaltTo(next),
         UNCHANGED <<call, stopped, boot, retried>>
  PROVE  /\ halt' \in [at : HaltAt, graceful : BOOLEAN, elapsed : BOOLEAN]
         /\ halt'.at = next
         /\ halt'.graceful = halt.graceful /\ halt'.elapsed = halt.elapsed
         /\ EntryRight'
<1>1. halt \in [at : HaltAt, graceful : BOOLEAN, elapsed : BOOLEAN]
  BY DEF IndInv, Types
<1>2. /\ halt' \in [at : HaltAt, graceful : BOOLEAN, elapsed : BOOLEAN]
      /\ halt'.at = next
      /\ halt'.graceful = halt.graceful /\ halt'.elapsed = halt.elapsed
  BY <1>1 DEF HaltTo
<1>3. EntryRight' BY <1>2 DEF IndInv, EntryRight, NoHalt
<1>. QED BY <1>2, <1>3

LEMMA HaltNotifierStep ==
  ASSUME IndInv, HaltNotifier, UNCHANGED <<boot, overlaps, retried>>
  PROVE  IndInv'
<1>. USE DEF IndInv
<1>1. /\ halt.at = "notifier" /\ listening' = FALSE /\ HaltTo("manager")
      /\ UNCHANGED <<call, started, stopped, pool, manager, part, worker, owed>>
  BY DEF HaltNotifier
<1>2. /\ halt' \in [at : HaltAt, graceful : BOOLEAN, elapsed : BOOLEAN]
      /\ halt'.at = "manager" /\ EntryRight'
  BY <1>1, HaltMoves DEF HaltAt
<1>3. Types' /\ PassesRight' /\ LoopsRight'
  BY <1>1, <1>2 DEF Types, PassesRight, LoopsRight, LoopRight, Absent
<1>4. Tidy'
  <2>. SUFFICES ASSUME ~retried PROVE ManagerTidy' /\ PartsTidy' /\ SendItTidy' /\ PoolTidy'
    BY DEF Tidy
  <2>1. /\ boot = "none" /\ ~stopped
        /\ ManagerTidy /\ PartsTidy /\ SendItTidy /\ PoolTidy
    BY <1>1, HaltAlone
  <2>2. ManagerTidy' BY <1>1, <1>2, <2>1 DEF ManagerTidy, ManagerDown, CronDown
  <2>3. PartsTidy'
    BY <1>1, <1>2, <2>1
    DEF PartsTidy, Fresh, Rising, ManagerDown, CronDown, BossDown, NavigatorDown
  <2>4. SendItTidy' BY <1>1, <1>2, <2>1 DEF SendItTidy, Fresh, Rising, Present
  <2>5. PoolTidy' BY <1>1, <1>2, <2>1 DEF PoolTidy, Present, hasPendingCleanups
  <2>. QED BY <2>2, <2>3, <2>4, <2>5
<1>. QED BY <1>2, <1>3, <1>4

LEMMA HaltManagerStep ==
  ASSUME IndInv, HaltManager, UNCHANGED <<boot, overlaps, retried>>
  PROVE  IndInv'
<1>. USE DEF IndInv
<1>1. /\ halt.at = "manager"
      /\ manager' = [stopped |-> TRUE, timers |-> manager.timers - manager.named, named |-> 0]
      /\ worker' = [w \in Worker |->
           CASE w # SendIt -> OffWork(worker[w], "parked")
             [] w = SendIt /\ ~part["timekeeper"].stopped -> OffWork(worker[w], "awaited")
             [] OTHER -> worker[w]]
      /\ owed' = {w \in owed : worker'[w].phase # "absent"}
      /\ part' = [part EXCEPT !["timekeeper"].stopped = TRUE]
      /\ HaltTo(IF part["timekeeper"].stopped THEN "cron" ELSE "sendit")
      /\ UNCHANGED <<call, started, stopped, pool, listening>>
  BY DEF HaltManager
<1>2. /\ halt' \in [at : HaltAt, graceful : BOOLEAN, elapsed : BOOLEAN]
      /\ halt'.at = (IF part["timekeeper"].stopped THEN "cron" ELSE "sendit")
      /\ EntryRight'
  BY <1>1, HaltMoves DEF HaltAt
<1>3. /\ part' \in [Part -> PartRow] /\ part'["timekeeper"].stopped
      /\ \A p \in Part : /\ part'[p].timers = part[p].timers
                         /\ part'[p].busy = part[p].busy
                         /\ part'[p].running = part[p].running
                         /\ p # "timekeeper" => part'[p].stopped = part[p].stopped
  BY <1>1, PartTypes, PartNames DEF PartRow
<1>4. \A w \in Worker :
        /\ worker'[w] \in Loops
        /\ \/ worker'[w] = OffWork(worker[w], "parked")
           \/ w = SendIt /\ ~part["timekeeper"].stopped
              /\ worker'[w] = OffWork(worker[w], "awaited")
           \/ w = SendIt /\ part["timekeeper"].stopped /\ worker'[w] = worker[w]
  BY <1>1, OneLoop, OffWorkRight
<1>5. worker' \in [Worker -> Loops] BY <1>1, <1>4
<1>6. WorkersTyped' /\ LoopsRight' BY <1>1, <1>4, <1>5, OffWorkStep
<1>7. manager.timers - manager.named \in Nat BY DEF Types
<1>8. Types' BY <1>1, <1>2, <1>3, <1>6, <1>7 DEF Types, WorkersTyped, PartRow
<1>9. PassesRight' BY <1>3 DEF PassesRight
<1>10. Tidy'
  <2>. SUFFICES ASSUME ~retried PROVE ManagerTidy' /\ PartsTidy' /\ SendItTidy' /\ PoolTidy'
    BY DEF Tidy
  <2>1. /\ boot = "none" /\ ~stopped
        /\ ManagerTidy /\ PartsTidy /\ SendItTidy /\ PoolTidy
    BY <1>1, HaltAlone
  <2>2. ManagerTidy' BY <1>1, <1>2, <2>1 DEF ManagerTidy, ManagerDown, CronDown, Types
  <2>3. PartsTidy'
    <3>1. /\ halt'.at \in {"cron", "sendit"}
          /\ halt'.at = "cron" => part["timekeeper"].stopped
      BY <1>2
    <3>. QED BY <1>1, <1>3, <2>1, <3>1, PartNames
         DEF PartsTidy, Fresh, Rising, ManagerDown, CronDown, BossDown, NavigatorDown
  <2>4. SendIt \in Present =>
          ~part["timekeeper"].stopped /\ ~worker[SendIt].stopping
    BY <1>1, <2>1 DEF SendItTidy
  <2>5. SendIt \in Present' =>
          SendIt \in Present /\ worker'[SendIt].cleanup = "awaited" /\ halt'.at = "sendit"
    <3>. SUFFICES ASSUME SendIt \in Present'
                  PROVE  /\ SendIt \in Present
                         /\ worker'[SendIt].cleanup = "awaited" /\ halt'.at = "sendit"
      OBVIOUS
    <3>1. SendIt \in Worker /\ worker'[SendIt].phase # "absent" BY DEF Present
    <3>2. CASE part["timekeeper"].stopped
      <4>1. worker'[SendIt] = worker[SendIt] BY <1>1, <3>1, <3>2
      <4>. QED BY <4>1, <3>1, <3>2, <2>4 DEF Present
    <3>3. CASE ~part["timekeeper"].stopped
      <4>1. worker'[SendIt] = OffWork(worker[SendIt], "awaited") BY <1>1, <3>1, <3>3
      <4>2. worker[SendIt].phase # "absent"
            /\ OffWork(worker[SendIt], "awaited").cleanup =
                 IF worker[SendIt].stopping THEN worker[SendIt].cleanup ELSE "awaited"
        BY <4>1, <3>1, OneLoop, OffWorkRight
      <4>. QED BY <4>1, <4>2, <3>1, <3>3, <2>4, <1>2 DEF Present
    <3>. QED BY <3>2, <3>3
  <2>6. SendItTidy' BY <1>1, <1>2, <1>3, <2>1, <2>5 DEF SendItTidy, Fresh, Rising
  <2>7. \A w \in Present' : w \in Present /\ worker'[w].cleanup # "none"
    <3>. SUFFICES ASSUME NEW w \in Worker, worker'[w].phase # "absent"
                  PROVE  w \in Present /\ worker'[w].cleanup # "none"
      BY DEF Present
    <3>1. CASE w = SendIt BY <3>1, <2>5 DEF Present
    <3>2. CASE w # SendIt
      <4>1. worker'[w] = OffWork(worker[w], "parked") BY <1>4, <3>2
      <4>2. worker[w].phase # "absent"
            /\ worker'[w].cleanup = (IF worker[w].stopping THEN worker[w].cleanup ELSE "parked")
        BY <4>1, OneLoop, OffWorkRight DEF Loops
      <4>. QED BY <4>2, OneLoop DEF Present
    <3>. QED BY <3>1, <3>2
  <2>8. ~pool => \A w \in Present' : worker'[w].cleanup = "awaited"
    <3>. SUFFICES ASSUME ~pool, NEW w \in Worker, worker'[w].phase # "absent"
                  PROVE  worker'[w].cleanup = "awaited"
      BY DEF Present
    <3>1. w \in Present /\ worker[w].cleanup = "awaited"
      BY <2>1, <2>7 DEF PoolTidy, Present
    <3>2. worker[w].stopping BY <3>1, OneLoop
    <3>3. worker'[w] = worker[w] BY <1>4, <3>2 DEF OffWork
    <3>. QED BY <3>1, <3>3
  <2>9. PoolTidy'
    BY <1>1, <1>2, <1>3, <2>1, <2>7, <2>8 DEF PoolTidy
  <2>. QED BY <2>2, <2>3, <2>6, <2>9
<1>. QED BY <1>2, <1>6, <1>8, <1>9, <1>10

LEMMA HaltSendItStep ==
  ASSUME IndInv, HaltSendIt, UNCHANGED <<boot, overlaps, retried>>
  PROVE  IndInv'
<1>. USE DEF IndInv
<1>1. /\ halt.at = "sendit" /\ worker[SendIt].cleanup # "awaited" /\ HaltTo("cron")
      /\ part' = [part EXCEPT !["timekeeper"].timers = 0]
      /\ UNCHANGED <<call, started, stopped, pool, manager, listening, worker, owed>>
  BY DEF HaltSendIt
<1>2. /\ halt' \in [at : HaltAt, graceful : BOOLEAN, elapsed : BOOLEAN]
      /\ halt'.at = "cron" /\ EntryRight'
  BY <1>1, HaltMoves DEF HaltAt
<1>3. /\ part' \in [Part -> PartRow] /\ part'["timekeeper"].timers = 0
      /\ \A p \in Part : /\ part'[p].stopped = part[p].stopped
                         /\ part'[p].busy = part[p].busy
                         /\ part'[p].running = part[p].running
                         /\ p # "timekeeper" => part'[p].timers = part[p].timers
  BY <1>1, PartTypes, PartNames DEF PartRow
<1>4. Types' BY <1>1, <1>2, <1>3 DEF Types, PartRow
<1>5. PassesRight' /\ LoopsRight' BY <1>1, <1>3 DEF PassesRight, LoopsRight, LoopRight, Absent
<1>6. Tidy'
  <2>. SUFFICES ASSUME ~retried PROVE ManagerTidy' /\ PartsTidy' /\ SendItTidy' /\ PoolTidy'
    BY DEF Tidy
  <2>1. /\ boot = "none" /\ ~stopped
        /\ ManagerTidy /\ PartsTidy /\ SendItTidy /\ PoolTidy
    BY <1>1, HaltAlone
  <2>2. ManagerTidy' BY <1>1, <1>2, <2>1 DEF ManagerTidy, ManagerDown, CronDown
  <2>3. PartsTidy'
    BY <1>1, <1>2, <1>3, <2>1, PartNames
    DEF PartsTidy, Fresh, Rising, ManagerDown, CronDown, BossDown, NavigatorDown
  <2>4. SendIt \notin Present BY <1>1, <2>1 DEF SendItTidy, PartsTidy, ManagerDown
  <2>5. SendItTidy' BY <1>1, <2>4 DEF SendItTidy, Present
  <2>6. PoolTidy' BY <1>1, <1>2, <1>3, <2>1 DEF PoolTidy, Present
  <2>. QED BY <2>2, <2>3, <2>5, <2>6
<1>. QED BY <1>2, <1>4, <1>5, <1>6

\* stop() of a subsystem.
LEMMA PartStoppedRow ==
  ASSUME Types, NEW p \in Part
  PROVE  /\ PartStopped(p) \in PartRow /\ PartStopped(p).stopped
         /\ PartStopped(p).busy = part[p].busy /\ PartStopped(p).running = part[p].running
         /\ PartStopped(p).timers \in {part[p].timers, 0}
         /\ part[p].stopped => PartStopped(p) = part[p]
         /\ ~part[p].stopped => PartStopped(p).timers = 0
<1>1. part[p] \in PartRow BY PartTypes
<1>2. ASSUME NEW r \in PartRow
      PROVE  /\ [r EXCEPT !.stopped = TRUE, !.timers = 0] \in PartRow
             /\ [r EXCEPT !.stopped = TRUE, !.timers = 0].stopped
             /\ [r EXCEPT !.stopped = TRUE, !.timers = 0].timers = 0
             /\ [r EXCEPT !.stopped = TRUE, !.timers = 0].busy = r.busy
             /\ [r EXCEPT !.stopped = TRUE, !.timers = 0].running = r.running
  BY DEF PartRow
<1>. QED BY <1>1, <1>2 DEF PartStopped

LEMMA HaltPart ==
  ASSUME IndInv, NEW p \in Part \ {"timekeeper"},
         part' = [part EXCEPT ![p] = PartStopped(p)], UNCHANGED overlaps
  PROVE  /\ part' \in [Part -> PartRow] /\ PassesRight'
         /\ part'[p].stopped /\ (~retried /\ PartsTidy => part'[p].timers = 0)
         /\ \A q \in Part : part'[q].busy = part[q].busy
         /\ \A q \in Part \ {p} : part'[q] = part[q]
<1>1. Types /\ part \in [Part -> PartRow] BY PartTypes DEF IndInv
<1>2. /\ PartStopped(p) \in PartRow /\ PartStopped(p).stopped
      /\ PartStopped(p).busy = part[p].busy /\ PartStopped(p).running = part[p].running
      /\ part[p].stopped => PartStopped(p) = part[p]
      /\ ~part[p].stopped => PartStopped(p).timers = 0
  BY <1>1, PartStoppedRow
<1>3. /\ part' \in [Part -> PartRow] /\ part'[p] = PartStopped(p)
      /\ \A q \in Part \ {p} : part'[q] = part[q]
  BY <1>1, <1>2
<1>4. \A q \in Part : part'[q].busy = part[q].busy /\ part'[q].running = part[q].running
  BY <1>2, <1>3
<1>5. PassesRight' BY <1>4 DEF IndInv, PassesRight
<1>6. PartsTidy => part'[p].timers = 0 BY <1>2, <1>3 DEF PartsTidy
<1>. QED BY <1>2, <1>3, <1>4, <1>5, <1>6

LEMMA HaltCronStep ==
  ASSUME IndInv, HaltCron, UNCHANGED <<boot, overlaps, retried>>
  PROVE  IndInv'
<1>. USE DEF IndInv
<1>1. /\ halt.at = "cron" /\ ~part["timekeeper"].busy /\ HaltTo("maintaining")
      /\ part' = [part EXCEPT !["boss"] = PartStopped("boss")]
      /\ UNCHANGED <<call, started, stopped, pool, manager, listening, worker, owed>>
  BY DEF HaltCron
<1>2. /\ halt' \in [at : HaltAt, graceful : BOOLEAN, elapsed : BOOLEAN]
      /\ halt'.at = "maintaining" /\ EntryRight'
  BY <1>1, HaltMoves DEF HaltAt
<1>3. /\ part' \in [Part -> PartRow] /\ PassesRight'
      /\ part'["boss"].stopped /\ (~retried /\ PartsTidy => part'["boss"].timers = 0)
      /\ \A q \in Part : part'[q].busy = part[q].busy
      /\ \A q \in Part \ {"boss"} : part'[q] = part[q]
  BY <1>1, HaltPart, PartNames
<1>4. Types' /\ LoopsRight'
  BY <1>1, <1>2, <1>3 DEF Types, PartRow, LoopsRight, LoopRight, Absent
<1>5. Tidy'
  <2>. SUFFICES ASSUME ~retried PROVE ManagerTidy' /\ PartsTidy' /\ SendItTidy' /\ PoolTidy'
    BY DEF Tidy
  <2>1. /\ boot = "none" /\ ~stopped
        /\ ManagerTidy /\ PartsTidy /\ SendItTidy /\ PoolTidy
    BY <1>1, HaltAlone
  <2>2. ManagerTidy' BY <1>1, <1>2, <2>1 DEF ManagerTidy, ManagerDown, CronDown
  <2>3. PartsTidy'
    BY <1>1, <1>2, <1>3, <2>1, PartNames
    DEF PartsTidy, Fresh, Rising, ManagerDown, CronDown, BossDown, NavigatorDown
  <2>4. SendItTidy'
    BY <1>1, <1>2, <1>3, <2>1, PartNames
    DEF SendItTidy, PartsTidy, ManagerDown, Present
  <2>5. PoolTidy' BY <1>1, <1>2, <1>3, <2>1 DEF PoolTidy, Present
  <2>. QED BY <2>2, <2>3, <2>4, <2>5
<1>. QED BY <1>2, <1>3, <1>4, <1>5

LEMMA HaltMaintainingStep ==
  ASSUME IndInv, HaltMaintaining, UNCHANGED <<boot, overlaps, retried>>
  PROVE  IndInv'
<1>. USE DEF IndInv
<1>1. /\ halt.at = "maintaining" /\ ~part["boss"].busy /\ HaltTo("drain")
      /\ part' = [part EXCEPT !["navigator"] = PartStopped("navigator")]
      /\ UNCHANGED <<call, started, stopped, pool, manager, listening, worker, owed>>
  BY DEF HaltMaintaining
<1>2. /\ halt' \in [at : HaltAt, graceful : BOOLEAN, elapsed : BOOLEAN]
      /\ halt'.at = "drain" /\ EntryRight'
  BY <1>1, HaltMoves DEF HaltAt
<1>3. /\ part' \in [Part -> PartRow] /\ PassesRight'
      /\ part'["navigator"].stopped /\ (~retried /\ PartsTidy => part'["navigator"].timers = 0)
      /\ \A q \in Part : part'[q].busy = part[q].busy
      /\ \A q \in Part \ {"navigator"} : part'[q] = part[q]
  BY <1>1, HaltPart, PartNames
<1>4. Types' /\ LoopsRight'
  BY <1>1, <1>2, <1>3 DEF Types, PartRow, LoopsRight, LoopRight, Absent
<1>5. Tidy'
  <2>. SUFFICES ASSUME ~retried PROVE ManagerTidy' /\ PartsTidy' /\ SendItTidy' /\ PoolTidy'
    BY DEF Tidy
  <2>1. /\ boot = "none" /\ ~stopped
        /\ ManagerTidy /\ PartsTidy /\ SendItTidy /\ PoolTidy
    BY <1>1, HaltAlone
  <2>2. ManagerTidy' BY <1>1, <1>2, <2>1 DEF ManagerTidy, ManagerDown, CronDown
  <2>3. PartsTidy'
    BY <1>1, <1>2, <1>3, <2>1, PartNames
    DEF PartsTidy, Fresh, Rising, ManagerDown, CronDown, BossDown, NavigatorDown
  <2>4. SendItTidy'
    BY <1>1, <1>2, <1>3, <2>1, PartNames
    DEF SendItTidy, PartsTidy, ManagerDown, CronDown, Present
  <2>5. PoolTidy' BY <1>1, <1>2, <1>3, <2>1 DEF PoolTidy, Present
  <2>. QED BY <2>2, <2>3, <2>4, <2>5
<1>. QED BY <1>2, <1>3, <1>4, <1>5

\* The graceful wait is over: whoever it spared is gone, or was stopped before.
LEMMA HaltDrainStep ==
  ASSUME IndInv, HaltDrain, UNCHANGED <<boot, overlaps, retried>>
  PROVE  IndInv'
<1>. USE DEF IndInv
<1>1. /\ halt.at = "drain" /\ ~part["navigator"].busy /\ Drained /\ HaltTo("failWip")
      /\ UNCHANGED <<call, started, stopped, pool, manager, listening, part, worker, owed>>
  BY DEF HaltDrain, services
<1>2. /\ halt' \in [at : HaltAt, graceful : BOOLEAN, elapsed : BOOLEAN]
      /\ halt'.at = "failWip" /\ EntryRight'
      /\ halt'.graceful = halt.graceful /\ halt'.elapsed = halt.elapsed
  BY <1>1, HaltMoves DEF HaltAt
<1>3. Types' /\ PassesRight' /\ LoopsRight'
  BY <1>1, <1>2 DEF Types, PassesRight, LoopsRight, LoopRight, Absent
<1>4. Tidy'
  <2>. SUFFICES ASSUME ~retried PROVE ManagerTidy' /\ PartsTidy' /\ SendItTidy' /\ PoolTidy'
    BY DEF Tidy
  <2>1. /\ boot = "none" /\ ~stopped
        /\ ManagerTidy /\ PartsTidy /\ SendItTidy /\ PoolTidy
    BY <1>1, HaltAlone
  <2>2. ManagerTidy' BY <1>1, <1>2, <2>1 DEF ManagerTidy, ManagerDown, CronDown
  <2>3. PartsTidy'
    BY <1>1, <1>2, <2>1
    DEF PartsTidy, Fresh, Rising, ManagerDown, CronDown, BossDown, NavigatorDown
  <2>4. SendItTidy' BY <1>1, <1>2, <2>1 DEF SendItTidy, Fresh, Rising, Present
  <2>5. PoolTidy'
    BY <1>1, <1>2, <2>1 DEF PoolTidy, Present, Drained, hasPendingCleanups
  <2>. QED BY <2>2, <2>3, <2>4, <2>5
<1>. QED BY <1>2, <1>3, <1>4

LEMMA HaltFailWipStep ==
  ASSUME IndInv, HaltFailWip, UNCHANGED <<boot, overlaps, retried>>
  PROVE  IndInv'
<1>. USE DEF IndInv
<1>1. /\ halt.at = "failWip" /\ HaltTo("settle")
      /\ UNCHANGED <<call, started, stopped, pool, manager, listening, part, worker, owed>>
  BY DEF HaltFailWip, services
<1>2. /\ halt' \in [at : HaltAt, graceful : BOOLEAN, elapsed : BOOLEAN]
      /\ halt'.at = "settle" /\ EntryRight'
  BY <1>1, HaltMoves DEF HaltAt
<1>3. Types' /\ PassesRight' /\ LoopsRight'
  BY <1>1, <1>2 DEF Types, PassesRight, LoopsRight, LoopRight, Absent
<1>4. Tidy'
  <2>. SUFFICES ASSUME ~retried PROVE ManagerTidy' /\ PartsTidy' /\ SendItTidy' /\ PoolTidy'
    BY DEF Tidy
  <2>1. /\ boot = "none" /\ ~stopped
        /\ ManagerTidy /\ PartsTidy /\ SendItTidy /\ PoolTidy
    BY <1>1, HaltAlone
  <2>2. ManagerTidy' BY <1>1, <1>2, <2>1 DEF ManagerTidy, ManagerDown, CronDown
  <2>3. PartsTidy'
    BY <1>1, <1>2, <2>1
    DEF PartsTidy, Fresh, Rising, ManagerDown, CronDown, BossDown, NavigatorDown
  <2>4. SendItTidy' BY <1>1, <1>2, <2>1 DEF SendItTidy, Fresh, Rising, Present
  <2>5. PoolTidy' BY <1>1, <1>2, <2>1 DEF PoolTidy, Present
  <2>. QED BY <2>2, <2>3, <2>4, <2>5
<1>. QED BY <1>2, <1>3, <1>4

\* The pool closes: every worker that is left stops and is not parked, and no
\* subsystem is busy or ticks.
LEMMA HaltSettleStep ==
  ASSUME IndInv, HaltSettle, UNCHANGED <<boot, overlaps, retried>>
  PROVE  IndInv'
<1>. USE DEF IndInv
<1>1. /\ halt.at = "settle" /\ ~hasPendingCleanups /\ HaltTo("close") /\ pool' = FALSE
      /\ UNCHANGED <<call, started, stopped, manager, listening, part, worker, owed>>
  BY DEF HaltSettle, CleanupsSettled
<1>2. /\ halt' \in [at : HaltAt, graceful : BOOLEAN, elapsed : BOOLEAN]
      /\ halt'.at = "close" /\ EntryRight'
  BY <1>1, HaltMoves DEF HaltAt
<1>3. Types' /\ PassesRight' /\ LoopsRight'
  BY <1>1, <1>2 DEF Types, PassesRight, LoopsRight, LoopRight, Absent
<1>4. Tidy'
  <2>. SUFFICES ASSUME ~retried PROVE ManagerTidy' /\ PartsTidy' /\ SendItTidy' /\ PoolTidy'
    BY DEF Tidy
  <2>1. /\ boot = "none" /\ ~stopped
        /\ ManagerTidy /\ PartsTidy /\ SendItTidy /\ PoolTidy
    BY <1>1, HaltAlone
  <2>2. ManagerTidy' BY <1>1, <1>2, <2>1 DEF ManagerTidy, ManagerDown, CronDown
  <2>3. PartsTidy'
    BY <1>1, <1>2, <2>1
    DEF PartsTidy, Fresh, Rising, ManagerDown, CronDown, BossDown, NavigatorDown
  <2>4. SendItTidy' BY <1>1, <1>2, <2>1 DEF SendItTidy, Fresh, Rising, Present
  <2>5. \A w \in Present : worker[w].cleanup = "awaited"
    <3>. SUFFICES ASSUME NEW w \in Worker, worker[w].phase # "absent"
                  PROVE  worker[w].cleanup = "awaited"
      BY DEF Present
    <3>1. worker[w].cleanup # "none"
      BY <1>1, <2>1 DEF PoolTidy, ManagerTidy, ManagerDown, CronDown, Present
    <3>2. worker[w].cleanup # "parked" BY <1>1 DEF hasPendingCleanups
    <3>. QED BY <3>1, <3>2, OneLoop DEF Loops
  <2>6. \A p \in Part : ~part[p].busy /\ part[p].timers = 0
    BY <1>1, <2>1 DEF PartsTidy, ManagerDown, CronDown, BossDown, NavigatorDown, Part
  <2>7. PoolTidy' BY <1>1, <1>2, <2>1, <2>5, <2>6 DEF PoolTidy, Present
  <2>. QED BY <2>2, <2>3, <2>4, <2>7
<1>. QED BY <1>2, <1>3, <1>4

\* #stoppingPromise settles: a start() that waited finds no #doStop.
LEMMA StopSettled ==
  ASSUME IndInv, halt.at # "none", ~Settling, StopSettles, UNCHANGED <<boot, retried>>,
         stopped' \in BOOLEAN
  PROVE  /\ call' \in [Caller -> Calls] /\ halt' = NoHalt /\ EntryRight'
         /\ halt' \in [at : HaltAt, graceful : BOOLEAN, elapsed : BOOLEAN]
<1>. USE DEF IndInv
<1>1. call' \in [Caller -> Calls] /\ \A c \in Caller : call'[c].at # "stopReady"
  <2>. SUFFICES ASSUME NEW c \in Caller
                PROVE  call'[c] \in Calls /\ call'[c].at # "stopReady"
    BY DEF StopSettles
  <2>1. call[c] \in Calls /\ call[c].at # "stopReady" BY DEF Types, Settling, Ready
  <2>2. \/ call'[c] = Returned \/ call'[c] = call[c]
        \/ call'[c] = [call[c] EXCEPT !.at = "startReady"]
    BY DEF StopSettles
  <2>3. ASSUME NEW k \in Calls
        PROVE  /\ [k EXCEPT !.at = "startReady"] \in Calls
               /\ [k EXCEPT !.at = "startReady"].at = "startReady"
    BY DEF Calls, Ready
  <2>4. Returned \in Calls /\ Returned.at = "idle" BY DEF Returned, Calls
  <2>. QED BY <2>1, <2>2, <2>3, <2>4
<1>2. halt' = NoHalt /\ NoHalt.at = "none"
      /\ NoHalt \in [at : HaltAt, graceful : BOOLEAN, elapsed : BOOLEAN]
  BY DEF StopSettles, NoHalt, HaltAt
<1>3. NoHalt' = NoHalt BY DEF NoHalt
<1>4. ~retried => boot = "none" BY HaltAlone
<1>5. EntryRight' BY <1>1, <1>2, <1>3, <1>4 DEF EntryRight
<1>. QED BY <1>1, <1>2, <1>5

LEMMA HaltCloseStep ==
  ASSUME IndInv, HaltClose, ~Settling, UNCHANGED <<boot, overlaps, retried>>
  PROVE  IndInv'
<1>. USE DEF IndInv
<1>1. /\ halt.at = "close" /\ stopped' = TRUE /\ started' = FALSE /\ StopSettles
      /\ UNCHANGED <<pool, manager, listening, part, worker, owed>>
  BY DEF HaltClose, services
<1>2. /\ call' \in [Caller -> Calls] /\ halt' = NoHalt /\ EntryRight'
      /\ halt' \in [at : HaltAt, graceful : BOOLEAN, elapsed : BOOLEAN]
      /\ NoHalt.at = "none"
  BY <1>1, StopSettled DEF NoHalt
<1>3. Types' /\ PassesRight' /\ LoopsRight'
  BY <1>1, <1>2 DEF Types, PassesRight, LoopsRight, LoopRight, Absent
<1>4. Tidy'
  <2>. SUFFICES ASSUME ~retried PROVE ManagerTidy' /\ PartsTidy' /\ SendItTidy' /\ PoolTidy'
    BY DEF Tidy
  <2>1. /\ boot = "none" /\ ~stopped
        /\ ManagerTidy /\ PartsTidy /\ SendItTidy /\ PoolTidy
    BY <1>1, HaltAlone
  <2>2. halt'.at = "none" BY <1>2
  <2>3. \A p \in Part : part[p].stopped /\ ~part[p].busy /\ part[p].timers = 0
    BY <1>1, <2>1 DEF PartsTidy, ManagerDown, CronDown, BossDown, NavigatorDown, Part
  <2>4. ~listening /\ manager.timers = 0 /\ ~pool
    BY <1>1, <2>1 DEF ManagerTidy, PoolTidy, Types
  <2>5. SendIt \notin Present
    BY <1>1, <2>1 DEF SendItTidy, PartsTidy, ManagerDown, CronDown
  <2>6. ManagerTidy' BY <1>1, <2>1, <2>2, <2>4 DEF ManagerTidy, ManagerDown, CronDown
  <2>7. PartsTidy'
    BY <1>1, <2>1, <2>2, <2>3, PartNames
    DEF PartsTidy, Rising, ManagerDown, CronDown, BossDown, NavigatorDown
  <2>8. SendItTidy' BY <1>1, <2>5 DEF SendItTidy, Present
  <2>9. PoolTidy' BY <1>1, <2>1, <2>2, <2>4 DEF PoolTidy, Present
  <2>. QED BY <2>6, <2>7, <2>8, <2>9
<1>. QED BY <1>2, <1>3, <1>4

LEMMA HaltFailsStep ==
  ASSUME IndInv, HaltFails, ~Settling, UNCHANGED <<boot, overlaps, retried>>
  PROVE  IndInv'
<1>. USE DEF IndInv
<1>1. /\ halt.at = "failWip" /\ StopSettles
      /\ UNCHANGED <<started, stopped, pool, manager, listening, part, worker, owed>>
  BY DEF HaltFails, services
<1>2. /\ call' \in [Caller -> Calls] /\ halt' = NoHalt /\ EntryRight'
      /\ halt' \in [at : HaltAt, graceful : BOOLEAN, elapsed : BOOLEAN]
      /\ NoHalt.at = "none"
  BY <1>1, StopSettled DEF NoHalt, Types
<1>3. Types' /\ PassesRight' /\ LoopsRight'
  BY <1>1, <1>2 DEF Types, PassesRight, LoopsRight, LoopRight, Absent
<1>4. Tidy'
  <2>. SUFFICES ASSUME ~retried PROVE ManagerTidy' /\ PartsTidy' /\ SendItTidy' /\ PoolTidy'
    BY DEF Tidy
  <2>1. /\ boot = "none" /\ ~stopped
        /\ ManagerTidy /\ PartsTidy /\ SendItTidy /\ PoolTidy
    BY <1>1, HaltAlone
  <2>2. halt'.at = "none" BY <1>2
  <2>3. ~listening /\ manager.timers = 0
    BY <1>1, <2>1 DEF ManagerTidy, Types
  <2>4. SendIt \notin Present
    BY <1>1, <2>1 DEF SendItTidy, PartsTidy, ManagerDown, CronDown
  <2>5. ManagerTidy' BY <1>1, <2>1, <2>2, <2>3 DEF ManagerTidy, ManagerDown, CronDown
  <2>6. PartsTidy'
    BY <1>1, <2>1, <2>2, PartNames
    DEF PartsTidy, Fresh, Rising, ManagerDown, CronDown, BossDown, NavigatorDown
  <2>7. SendItTidy' BY <1>1, <2>4 DEF SendItTidy, Present
  <2>8. PoolTidy' BY <1>1, <2>1, <2>2 DEF PoolTidy, Present
  <2>. QED BY <2>5, <2>6, <2>7, <2>8
<1>. QED BY <1>2, <1>3, <1>4

LEMMA HaltStep ==
  ASSUME IndInv, Halt
  PROVE  IndInv'
<1>1. ~Settling /\ UNCHANGED <<boot, overlaps, retried>> BY DEF Halt
<1>. QED BY <1>1, HaltNotifierStep, HaltManagerStep, HaltSendItStep, HaltCronStep,
            HaltMaintainingStep, HaltDrainStep, HaltFailWipStep, HaltSettleStep,
            HaltCloseStep, HaltFailsStep DEF Halt

LEMMA ElapseStep ==
  ASSUME IndInv, Elapse
  PROVE  IndInv'
<1>. USE DEF IndInv
<1>1. /\ halt.at = "drain" /\ halt' = [halt EXCEPT !.elapsed = TRUE]
      /\ UNCHANGED <<call, started, stopped, boot, pool, manager, listening, part, worker,
                     owed, overlaps, retried>>
  BY DEF Elapse, services, bounds
<1>2. halt \in [at : HaltAt, graceful : BOOLEAN, elapsed : BOOLEAN] BY DEF Types
<1>3. /\ halt' \in [at : HaltAt, graceful : BOOLEAN, elapsed : BOOLEAN]
      /\ halt'.at = "drain"
  BY <1>1, <1>2
<1>4. EntryRight' BY <1>1, <1>3 DEF EntryRight, NoHalt
<1>5. Types' /\ PassesRight' /\ LoopsRight'
  BY <1>1, <1>3 DEF Types, PassesRight, LoopsRight, LoopRight, Absent
<1>6. Tidy'
  BY <1>1, <1>3
  DEF Tidy, ManagerTidy, PartsTidy, SendItTidy, PoolTidy, ManagerDown, CronDown, BossDown,
      NavigatorDown, Fresh, Rising, Present
<1>. QED BY <1>4, <1>5, <1>6

-----------------------------------------------------------------------------
LEMMA InitInvariance == Init => IndInv
<1>. SUFFICES ASSUME Init PROVE IndInv OBVIOUS
<1>1. \A w \in Worker : worker[w] = Absent BY DEF Init
<1>2. /\ \A p \in Part : part[p] = [stopped |-> TRUE, timers |-> 0, busy |-> FALSE, running |-> 0]
      /\ \A c \in Caller : call[c] = Returned
      /\ halt = NoHalt /\ NoHalt.at = "none"
  BY DEF Init, NoHalt
<1>3. Types
  <2>1. Returned \in Calls BY DEF Returned, Calls
  <2>2. call \in [Caller -> Calls] BY <2>1 DEF Init
  <2>3. halt \in [at : HaltAt, graceful : BOOLEAN, elapsed : BOOLEAN]
    BY DEF Init, NoHalt, HaltAt
  <2>4. /\ manager \in [stopped : BOOLEAN, timers : Nat, named : 0..1]
        /\ manager.named <= manager.timers
    BY DEF Init
  <2>5. part \in [Part -> [stopped : BOOLEAN, timers : Nat, busy : BOOLEAN, running : Nat]]
    BY DEF Init
  <2>6. worker \in [Worker -> Loops] BY AbsentLoop DEF Init
  <2>. QED BY <2>2, <2>3, <2>4, <2>5, <2>6 DEF Init, Types, BootAt
<1>4. LoopsRight BY <1>1, AbsentLoop DEF LoopsRight, Init
<1>5. PassesRight BY <1>2 DEF PassesRight
<1>6. EntryRight BY <1>2 DEF EntryRight, Init, Returned
<1>7. SendIt \notin Present /\ Present = {} BY <1>1, AbsentLoop DEF Present
<1>8. ManagerTidy /\ SendItTidy
  BY <1>2, <1>7 DEF Init, ManagerTidy, SendItTidy, ManagerDown, CronDown
<1>9. PartsTidy
  BY <1>2, PartNames
  DEF Init, PartsTidy, Fresh, Rising, ManagerDown, CronDown, BossDown, NavigatorDown
<1>10. PoolTidy BY <1>2, <1>7 DEF Init, PoolTidy
<1>. QED BY <1>3, <1>4, <1>5, <1>6, <1>8, <1>9, <1>10 DEF IndInv, Tidy

LEMMA NextInvariance ==
  ASSUME IndInv, [Next]_vars
  PROVE  IndInv'
<1>1. CASE UNCHANGED vars
  <2>1. call' = call /\ call' \in [Caller -> Calls] BY <1>1 DEF vars, IndInv, Types
  <2>2. UNCHANGED <<started, stopped, boot, halt, services, worker, owed, overlaps, retried>>
    BY <1>1 DEF vars, services
  <2>. QED BY <2>1, <2>2, CallsKeep
<1>2. ASSUME NEW c \in Caller, Start(c) \/ Stop(c) \/ Resume(c) PROVE IndInv'
  BY <1>2, CallerStep
<1>3. ASSUME NEW w \in UserWorker, Work(w) \/ CallOffWork(w) \/ Notify(w) PROVE IndInv'
  <2>1. Types /\ LoopsRight BY DEF IndInv
  <2>2. WorkersTyped' /\ LoopsRight' /\ \A v \in Worker : Carried(v)
    BY <1>3, <2>1, WorkStep, CallOffWorkStep, NotifyStep
  <2>3. UNCHANGED <<lifecycle, services, retried, overlaps>>
    BY <1>3 DEF Work, CallOffWork, Notify, bounds
  <2>. QED BY <2>2, <2>3, WorkersKeep
<1>4. ASSUME NEW w \in Worker, Iterate(w) \/ Wake(w) PROVE IndInv'
  <2>1. Types /\ LoopsRight BY DEF IndInv
  <2>2. WorkersTyped' /\ LoopsRight' /\ \A v \in Worker : Carried(v)
    BY <1>4, <2>1, IterateStep
  <2>3. UNCHANGED <<lifecycle, services, retried, overlaps>>
    BY <1>4 DEF Iterate, Fetched, Handled, Wake, bounds
  <2>. QED BY <2>2, <2>3, WorkersKeep
<1>5. ASSUME NEW p \in Part, Begin(p) \/ Overlap(p) \/ Finish(p) PROVE IndInv'
  BY <1>5, BeginStep, OverlapStep, FinishStep
<1>6. CASE Boot BY <1>6, BootStep
<1>7. CASE Halt BY <1>7, HaltStep
<1>8. CASE Elapse BY <1>8, ElapseStep
<1>. QED BY <1>1, <1>2, <1>3, <1>4, <1>5, <1>6, <1>7, <1>8 DEF Next

\* The inductive invariant holds in every reachable state of an instance.
THEOREM Invariance == Spec => []IndInv
<1>1. Init => IndInv BY InitInvariance
<1>2. IndInv /\ [Next]_vars => IndInv' BY NextInvariance
<1>. QED BY <1>1, <1>2, PTL DEF Spec

\* #doStart and #doStop exclude each other, however many callers call start() and
\* stop() in whatever order, until a start() that failed is called again.
THEOREM StartAndStopExclude == Spec => []NeverBoth
<1>1. IndInv => NeverBoth BY DEF IndInv, EntryRight, NeverBoth
<1>. QED BY <1>1, Invariance, PTL

\* stop() leaves no interval, no listener, no open pool and no worker of the
\* timekeeper behind, whatever start() had got to when it failed.
THEOREM StopIsComplete == Spec => []QuietWhenStopped
<1>1. IndInv => QuietWhenStopped
  <2>. SUFFICES ASSUME IndInv, Halted, ~retried
                PROVE  ~Ticking /\ ~listening /\ ~pool /\ SendIt \notin Present
    BY DEF QuietWhenStopped
  <2>1. stopped /\ ManagerTidy /\ PartsTidy /\ SendItTidy /\ PoolTidy
    BY DEF IndInv, Tidy, Halted
  <2>2. \A p \in Part : ~(part[p].timers > 0) BY <2>1 DEF PartsTidy, Fresh
  <2>. QED BY <2>1, <2>2 DEF ManagerTidy, SendItTidy, PoolTidy, Fresh, Ticking
<1>. QED BY <1>1, Invariance, PTL

\* The pool stays open for every parked worker and every pass whose flag is set.
THEOREM PoolClosesLast == Spec => []PoolOutlivesWork
<1>1. IndInv => PoolOutlivesWork
  BY DEF IndInv, Tidy, PoolTidy, PassesRight, PoolOutlivesWork
<1>. QED BY <1>1, Invariance, PTL

\* failWip() of a graceful stop spares the handlers that were to be waited for.
THEOREM GracefulStopSpares == Spec => []GracefulSpares
<1>1. IndInv => GracefulSpares
  <2>. SUFFICES ASSUME IndInv, halt.at = "failWip", halt.graceful, ~halt.elapsed, ~retried,
                       NEW w \in Worker, worker[w].phase = "handle"
                PROVE  worker[w].cleanup = "awaited"
    BY DEF GracefulSpares
  <2>1. ManagerTidy /\ PoolTidy BY DEF IndInv, Tidy
  <2>2. w \in Present BY DEF Present
  <2>3. worker[w].cleanup # "none"
    BY <2>1, <2>2 DEF ManagerTidy, ManagerDown, CronDown, PoolTidy
  <2>4. worker[w].cleanup # "parked" BY <2>1 DEF PoolTidy, hasPendingCleanups
  <2>. QED BY <2>3, <2>4, OneLoop DEF IndInv, Loops
<1>. QED BY <1>1, Invariance, PTL

\* No worker sleeps through a notification or a stop() (worker.ts:115).
THEOREM WakeUpsAreKept == Spec => []NoLostWakeUp
<1>1. IndInv => NoLostWakeUp
  BY DEF IndInv, LoopsRight, LoopRight, NoLostWakeUp, Present
<1>. QED BY <1>1, Invariance, PTL

\* Passes overlap only after a tick during a pass, those of the navigator never.
THEOREM PassesExclude == Spec => []OnePassAtATime
<1>1. IndInv => OnePassAtATime BY DEF IndInv, PassesRight, OnePassAtATime
<1>. QED BY <1>1, Invariance, PTL

-----------------------------------------------------------------------------
(* Bounds.                                                                  *)

\* The calls of start() that are still to reach manager.start().
Late == {c \in Caller : call[c].at \in {"startAfterStop", "startReady"}}
Booting == IF boot \in {"open", "schema"} THEN 1 ELSE 0

\* Every interval of the manager stands for a call of start(), lost ones included.
StartsCounted ==
  IsFiniteSet(Late) /\ manager.timers + Booting + Cardinality(Late) <= calls

PartsBounded ==
  \A p \in Part :
    /\ part[p].timers <= 1 /\ part[p].running <= MaxOverlaps + 1
    /\ p # "timekeeper" /\ part[p].stopped => part[p].timers = 0

Bounded ==
  /\ calls \in 0..MaxCalls /\ faults \in 0..MaxFaults /\ overlaps \in 0..MaxOverlaps
  /\ StartsCounted
  /\ PartsBounded

LEMMA CountTypes ==
  ASSUME Types, Bounded
  PROVE  /\ manager.timers \in Nat /\ manager.named \in 0..1 /\ manager.named <= manager.timers
         /\ Booting \in 0..1 /\ IsFiniteSet(Late) /\ Cardinality(Late) \in Nat
         /\ MaxCalls \in Nat /\ MaxFaults \in Nat /\ MaxOverlaps \in Nat
         /\ calls \in Nat /\ calls <= MaxCalls
BY FS_CardinalityType, BoundAssumption DEF Types, Bounded, StartsCounted, Booting

\* A caller of start() begins to wait for a stop().
LEMMA OneMoreLate ==
  ASSUME Types, Bounded, NEW c \in Caller, NEW graceful, Await(c, "startAfterStop", graceful)
  PROVE  /\ IsFiniteSet(Late') /\ Cardinality(Late') \in Nat
         /\ Cardinality(Late') <= Cardinality(Late) + 1
<1>1. call'[c].at = "startAfterStop" /\ \A d \in Caller \ {c} : call'[d] = call[d]
  BY DEF Types, Await
<1>2. IsFiniteSet(Late) /\ Cardinality(Late) \in Nat BY CountTypes
<1>3. Late' = Late \cup {c} BY <1>1 DEF Late
<1>4. IsFiniteSet(Late') /\ Cardinality(Late') <= Cardinality(Late) + 1
  BY <1>2, <1>3, FS_AddElement
<1>. QED BY <1>4, FS_CardinalityType

\* A caller awaits something else, or returns.
LEMMA NotLate ==
  ASSUME Types, Bounded, NEW c \in Caller, NEW graceful,
         \/ Await(c, "starting", graceful) \/ Await(c, "stopping", graceful)
         \/ Await(c, "stopAfterStart", graceful) \/ Await(c, "idle", graceful)
  PROVE  /\ IsFiniteSet(Late') /\ Cardinality(Late') \in Nat
         /\ Cardinality(Late') <= Cardinality(Late)
         /\ Cardinality(Late') = Cardinality(Late) - (IF c \in Late THEN 1 ELSE 0)
<1>1. /\ call'[c].at \notin {"startAfterStop", "startReady"}
      /\ \A d \in Caller \ {c} : call'[d] = call[d]
  BY DEF Types, Await
<1>2. IsFiniteSet(Late) /\ Cardinality(Late) \in Nat BY CountTypes
<1>3. Late' = Late \ {c} BY <1>1 DEF Late
<1>4. /\ IsFiniteSet(Late')
      /\ Cardinality(Late') = IF c \in Late THEN Cardinality(Late) - 1 ELSE Cardinality(Late)
  BY <1>2, <1>3, FS_RemoveElement
<1>5. Cardinality(Late') \in Nat BY <1>4, FS_CardinalityType
<1>. QED BY <1>2, <1>4, <1>5

\* A call of start() that finds no stop() in its way boots or returns.
LEMMA EnterStartCounts ==
  ASSUME Types, Bounded, NEW c \in Caller, EnterStart(c), manager' = manager
  PROVE  /\ IsFiniteSet(Late') /\ Cardinality(Late') \in Nat /\ Booting' \in 0..1
         /\ manager'.timers + Booting' + Cardinality(Late')
              <= manager.timers + Booting + Cardinality(Late) + (IF c \in Late THEN 0 ELSE 1)
<1>1. CASE Await(c, "starting", FALSE) /\ boot' = boot
  <2>1. Booting' = Booting BY <1>1 DEF Booting
  <2>2. IsFiniteSet(Late') /\ Cardinality(Late') <= Cardinality(Late) /\ Cardinality(Late') \in Nat
    BY <1>1, NotLate, Zenon
  <2>. QED BY <2>1, <2>2, CountTypes
<1>2. CASE Return(c) /\ boot' = boot
  <2>1. Booting' = Booting BY <1>2 DEF Booting
  <2>2. IsFiniteSet(Late') /\ Cardinality(Late') <= Cardinality(Late) /\ Cardinality(Late') \in Nat
    <3>1. Await(c, "idle", FALSE) BY <1>2 DEF Return, Returned, Await
    <3>. QED BY <3>1, NotLate, Zenon
  <2>. QED BY <2>1, <2>2, CountTypes
<1>3. CASE boot = "none" /\ boot' = "open" /\ Await(c, "starting", FALSE)
  <2>1. Booting = 0 /\ Booting' = 1 BY <1>3 DEF Booting
  <2>2. /\ IsFiniteSet(Late') /\ Cardinality(Late') \in Nat
        /\ Cardinality(Late') = Cardinality(Late) - (IF c \in Late THEN 1 ELSE 0)
    BY <1>3, NotLate, Zenon
  <2>. QED BY <2>1, <2>2, CountTypes
<1>. QED BY <1>1, <1>2, <1>3 DEF EnterStart

LEMMA EnterStopCounts ==
  ASSUME Types, Bounded, NEW c \in Caller, NEW graceful \in BOOLEAN, EnterStop(c, graceful),
         manager' = manager
  PROVE  /\ IsFiniteSet(Late') /\ Cardinality(Late') \in Nat /\ Booting' \in 0..1
         /\ manager'.timers + Booting' + Cardinality(Late')
              <= manager.timers + Booting + Cardinality(Late)
<1>1. Booting' = Booting BY DEF EnterStop, Booting
<1>2. Await(c, "stopping", FALSE) \/ Await(c, "idle", FALSE)
  BY DEF EnterStop, Await, Return, Returned
<1>3. IsFiniteSet(Late') /\ Cardinality(Late') <= Cardinality(Late) /\ Cardinality(Late') \in Nat
  BY <1>2, NotLate, Zenon
<1>. QED BY <1>1, <1>3, CountTypes

LEMMA CallerCounts ==
  ASSUME Types, Bounded, NEW c \in Caller, Start(c) \/ Stop(c) \/ Resume(c)
  PROVE  calls' \in 0..MaxCalls /\ StartsCounted'
<1>0. manager' = manager BY DEF Start, Stop, Resume, services
<1>1. CASE Start(c)
  <2>1. calls' = calls + 1 /\ calls' \in 0..MaxCalls BY <1>1, CountTypes DEF Start
  <2>2. /\ IsFiniteSet(Late')
        /\ manager'.timers + Booting' + Cardinality(Late')
             <= manager.timers + Booting + Cardinality(Late) + 1
    <3>1. CASE Await(c, "startAfterStop", FALSE) /\ boot' = boot
      <4>1. Booting' = Booting BY <3>1 DEF Booting
      <4>2. /\ IsFiniteSet(Late') /\ Cardinality(Late') \in Nat
            /\ Cardinality(Late') <= Cardinality(Late) + 1
        BY <3>1, OneMoreLate, Zenon
      <4>. QED BY <1>0, <4>1, <4>2, CountTypes
    <3>2. CASE EnterStart(c) BY <1>0, <3>2, EnterStartCounts, CountTypes
    <3>. QED BY <1>1, <3>1, <3>2 DEF Start, CallStart
  <2>3. manager.timers + Booting + Cardinality(Late) <= calls BY DEF Bounded, StartsCounted
  <2>4. Booting' \in 0..1 /\ Cardinality(Late') \in Nat
    BY <2>2, FS_CardinalityType DEF Booting
  <2>. QED BY <1>0, <2>1, <2>2, <2>3, <2>4, CountTypes DEF StartsCounted
<1>2. CASE Stop(c)
  <2>1. calls' = calls + 1 /\ calls' \in 0..MaxCalls BY <1>2, CountTypes DEF Stop
  <2>2. PICK graceful \in BOOLEAN : CallStop(c, graceful) BY <1>2 DEF Stop
  <2>3. /\ IsFiniteSet(Late')
        /\ manager'.timers + Booting' + Cardinality(Late')
             <= manager.timers + Booting + Cardinality(Late)
    <3>1. CASE Await(c, "stopAfterStart", graceful) /\ boot' = boot
      <4>1. Booting' = Booting BY <3>1 DEF Booting
      <4>2. /\ IsFiniteSet(Late') /\ Cardinality(Late') \in Nat
            /\ Cardinality(Late') <= Cardinality(Late)
        BY <3>1, NotLate, Zenon
      <4>. QED BY <1>0, <4>1, <4>2, CountTypes
    <3>2. CASE EnterStop(c, graceful) BY <1>0, <3>2, EnterStopCounts
    <3>. QED BY <2>2, <3>1, <3>2 DEF CallStop
  <2>4. manager.timers + Booting + Cardinality(Late) <= calls BY DEF Bounded, StartsCounted
  <2>5. Booting' \in 0..1 /\ Cardinality(Late') \in Nat
    BY <2>3, FS_CardinalityType DEF Booting
  <2>. QED BY <1>0, <2>1, <2>3, <2>4, <2>5, CountTypes DEF StartsCounted
<1>3. CASE Resume(c)
  <2>1. calls' = calls BY <1>3 DEF Resume, bounds
  <2>2. /\ IsFiniteSet(Late')
        /\ manager'.timers + Booting' + Cardinality(Late')
             <= manager.timers + Booting + Cardinality(Late)
    <3>1. CASE call[c].at = "startReady" /\ EnterStart(c)
      <4>1. c \in Late BY <3>1 DEF Late
      <4>. QED BY <1>0, <3>1, <4>1, EnterStartCounts, CountTypes
    <3>2. CASE EnterStop(c, call[c].graceful)
      <4>1. call[c].graceful \in BOOLEAN BY DEF Types, Calls
      <4>. QED BY <1>0, <3>2, <4>1, EnterStopCounts
    <3>. QED BY <1>3, <3>1, <3>2 DEF Resume
  <2>3. manager.timers + Booting + Cardinality(Late) <= calls BY DEF Bounded, StartsCounted
  <2>4. Booting' \in 0..1 /\ Cardinality(Late') \in Nat
    BY <2>2, FS_CardinalityType DEF Booting
  <2>. QED BY <1>0, <2>1, <2>2, <2>3, <2>4, CountTypes DEF StartsCounted, Bounded
<1>. QED BY <1>1, <1>2, <1>3

\* A promise that settles makes nobody late who was not.
LEMMA SettledLate ==
  ASSUME Types, StartSettles \/ StopSettles
  PROVE  Late' = Late
<1>1. CASE StartSettles
  <2>1. \A c \in Caller :
          call'[c] = CASE call[c].at = "starting" -> Returned
                       [] call[c].at = "stopAfterStart" -> [call[c] EXCEPT !.at = "stopReady"]
                       [] OTHER -> call[c]
    BY <1>1 DEF StartSettles
  <2>2. ASSUME NEW c \in Caller PROVE c \in Late' <=> c \in Late
    <3>1. call[c] \in Calls BY DEF Types
    <3>2. CASE call[c].at = "starting"
      <4>1. call'[c] = Returned BY <2>1, <3>2
      <4>. QED BY <3>2, <4>1 DEF Late, Returned
    <3>3. CASE call[c].at = "stopAfterStart"
      <4>1. call'[c] = [call[c] EXCEPT !.at = "stopReady"] BY <2>1, <3>3
      <4>. QED BY <3>1, <3>3, <4>1 DEF Late, Calls
    <3>4. CASE call[c].at \notin {"starting", "stopAfterStart"} BY <2>1, <3>4 DEF Late
    <3>. QED BY <3>2, <3>3, <3>4
  <2>. QED BY <2>2 DEF Late
<1>2. CASE StopSettles
  <2>1. \A c \in Caller :
          call'[c] = CASE call[c].at = "stopping" -> Returned
                       [] call[c].at = "startAfterStop" -> [call[c] EXCEPT !.at = "startReady"]
                       [] OTHER -> call[c]
    BY <1>2 DEF StopSettles
  <2>2. ASSUME NEW c \in Caller PROVE c \in Late' <=> c \in Late
    <3>1. call[c] \in Calls BY DEF Types
    <3>2. CASE call[c].at = "stopping"
      <4>1. call'[c] = Returned BY <2>1, <3>2
      <4>. QED BY <3>2, <4>1 DEF Late, Returned
    <3>3. CASE call[c].at = "startAfterStop"
      <4>1. call'[c] = [call[c] EXCEPT !.at = "startReady"] BY <2>1, <3>3
      <4>. QED BY <3>1, <3>3, <4>1 DEF Late, Calls
    <3>4. CASE call[c].at \notin {"stopping", "startAfterStop"} BY <2>1, <3>4 DEF Late
    <3>. QED BY <3>2, <3>3, <3>4
  <2>. QED BY <2>2 DEF Late
<1>. QED BY <1>1, <1>2

LEMMA SameLate == ASSUME call' = call PROVE Late' = Late
BY DEF Late

\* Boot: manager.start() turns a call that boots into an interval.
LEMMA BootCounts ==
  ASSUME Types, Bounded, Boot
  PROVE  StartsCounted'
<1>1. calls' = calls BY DEF Boot
<1>2. Late' = Late
  BY SettledLate, SameLate
  DEF Boot, BootOpen, BootSchema, BootQueues, BootListen, BootSkew, BootSendIt, BootFails
<1>3. manager'.timers + Booting' <= manager.timers + Booting
      /\ manager'.timers \in Nat /\ Booting' \in 0..1
  <2>1. CASE BootSchema BY <2>1, CountTypes DEF BootSchema, Booting
  <2>2. CASE BootOpen BY <2>2, CountTypes DEF BootOpen, Booting
  <2>3. CASE manager' = manager /\ boot' \notin {"open", "schema"}
    BY <2>3, CountTypes DEF Booting
  <2>. QED
    BY <2>1, <2>2, <2>3
    DEF Boot, BootQueues, BootListen, BootSkew, BootSendIt, BootFails, StartSettles, services
<1>. QED BY <1>1, <1>2, <1>3, CountTypes DEF Bounded, StartsCounted

LEMMA HaltCounts ==
  ASSUME Types, Bounded, Halt
  PROVE  StartsCounted'
<1>1. calls' = calls /\ Booting' = Booting BY DEF Halt, Booting
<1>2. Late' = Late
  BY SettledLate, SameLate
  DEF Halt, HaltNotifier, HaltManager, HaltSendIt, HaltCron, HaltMaintaining, HaltDrain,
      HaltFailWip, HaltSettle, HaltClose, HaltFails
<1>3. manager'.timers \in Nat /\ manager'.timers <= manager.timers
  <2>1. CASE HaltManager
    <3>1. manager'.timers = manager.timers - manager.named BY <2>1 DEF HaltManager
    <3>. QED BY <3>1, CountTypes
  <2>2. CASE manager' = manager BY <2>2, CountTypes
  <2>. QED
    BY <2>1, <2>2
    DEF Halt, HaltNotifier, HaltSendIt, HaltCron, HaltMaintaining, HaltDrain,
        HaltFailWip, HaltSettle, HaltClose, HaltFails, services
<1>. QED BY <1>1, <1>2, <1>3, CountTypes DEF Bounded, StartsCounted

-----------------------------------------------------------------------------
\* The intervals of a subsystem and its passes, row by row.
RowBounded(p, r) ==
  /\ r.timers <= 1 /\ r.running <= MaxOverlaps + 1
  /\ p # "timekeeper" /\ r.stopped => r.timers = 0

LEMMA StartedBounded ==
  ASSUME NEW p \in Part, part[p] \in PartRow, RowBounded(p, part[p]), p # "timekeeper"
  PROVE  RowBounded(p, PartStarted(p))
<1>1. CASE part[p].stopped
  <2>1. PartStarted(p) = [part[p] EXCEPT !.stopped = FALSE, !.timers = part[p].timers + 1]
    BY <1>1 DEF PartStarted, StartedAgain
  <2>2. part[p].timers + 1 = 1 BY <1>1 DEF RowBounded, PartRow
  <2>. QED BY <2>1, <2>2 DEF RowBounded, PartRow
<1>2. CASE ~part[p].stopped BY <1>2 DEF PartStarted
<1>. QED BY <1>1, <1>2

LEMMA StoppedBounded ==
  ASSUME NEW p \in Part, part[p] \in PartRow, RowBounded(p, part[p])
  PROVE  RowBounded(p, PartStopped(p))
BY DEF PartStopped, RowBounded, PartRow

LEMMA PartsStep ==
  ASSUME Types, Bounded, [Next]_vars
  PROVE  PartsBounded'
<1>0. /\ part \in [Part -> PartRow] /\ \A p \in Part : RowBounded(p, part[p])
      /\ MaxOverlaps \in Nat
  BY CountTypes DEF Types, PartRow, Bounded, PartsBounded, RowBounded
<1>. SUFFICES ASSUME NEW p \in Part PROVE RowBounded(p, part'[p])
  BY DEF PartsBounded, RowBounded
<1>r. part[p] \in PartRow /\ RowBounded(p, part[p]) BY <1>0
<1>1. CASE part' = part BY <1>1, <1>0
<1>2. ASSUME NEW q \in Part, Begin(q) \/ Overlap(q) \/ Finish(q) PROVE RowBounded(p, part'[p])
  <2>1. CASE p # q BY <1>0, <1>2, <2>1 DEF Begin, Overlap, Finish
  <2>2. CASE p = q
    <3>1. part'[p].timers = part[p].timers /\ part'[p].stopped = part[p].stopped
          /\ (part'[p].running <= MaxOverlaps + 1)
      BY <1>0, <1>r, <1>2, <2>2 DEF Begin, Overlap, Finish, PartRow, RowBounded
    <3>. QED BY <1>r, <3>1 DEF RowBounded
  <2>. QED BY <2>1, <2>2
<1>3. CASE BootListen
  <2>1. CASE p = "timekeeper"
    <3>1. part'[p] = [part[p] EXCEPT !.stopped = FALSE] BY <1>3, <2>1 DEF BootListen
    <3>. QED BY <1>r, <2>1, <3>1 DEF RowBounded, PartRow
  <2>2. CASE p # "timekeeper"
    <3>1. part'[p] = PartStarted(p) BY <1>3, <2>2 DEF BootListen
    <3>. QED BY <1>r, <2>2, <3>1, StartedBounded
  <2>. QED BY <2>1, <2>2
<1>4. CASE BootSendIt \/ HaltManager \/ HaltSendIt
  <2>1. CASE p # "timekeeper"
    <3>1. part'[p] = part[p] BY <1>0, <1>4, <2>1 DEF BootSendIt, HaltManager, HaltSendIt
    <3>. QED BY <1>r, <3>1
  <2>2. CASE p = "timekeeper"
    <3>1. part'[p].running = part[p].running
          /\ (part'[p].timers = part[p].timers \/ part'[p].timers \in 0..1)
      BY <1>0, <1>r, <1>4, <2>2 DEF BootSendIt, HaltManager, HaltSendIt, PartRow
    <3>. QED BY <1>r, <2>2, <3>1 DEF RowBounded
  <2>. QED BY <2>1, <2>2
<1>5. CASE HaltCron \/ HaltMaintaining
  <2>1. part'[p] = part[p] \/ part'[p] = PartStopped(p)
    BY <1>0, <1>5 DEF HaltCron, HaltMaintaining
  <2>. QED BY <1>r, <2>1, StoppedBounded
<1>6. CASE Boot
  BY <1>1, <1>3, <1>4, <1>6
  DEF Boot, BootOpen, BootSchema, BootQueues, BootSkew, BootFails, services
<1>7. CASE Halt
  BY <1>1, <1>4, <1>5, <1>7
  DEF Halt, HaltNotifier, HaltDrain, HaltFailWip, HaltSettle, HaltClose, HaltFails, services
<1>8. CASE \/ Elapse \/ UNCHANGED vars
           \/ \E c \in Caller : Start(c) \/ Stop(c) \/ Resume(c)
           \/ \E w \in UserWorker : Work(w) \/ CallOffWork(w) \/ Notify(w)
           \/ \E w \in Worker : Iterate(w) \/ Wake(w)
  <2>1. part' = part
    BY <1>8 DEF Elapse, vars, Start, Stop, Resume, Work, CallOffWork, Notify, Iterate,
                Fetched, Handled, Wake, services
  <2>. QED BY <1>1, <2>1
<1>. QED BY <1>2, <1>6, <1>7, <1>8 DEF Next

LEMMA BoundedStep ==
  ASSUME Types, Bounded, [Next]_vars
  PROVE  Bounded'
<1>0. /\ calls \in 0..MaxCalls /\ faults \in 0..MaxFaults /\ overlaps \in 0..MaxOverlaps
      /\ StartsCounted /\ MaxCalls \in Nat /\ MaxFaults \in Nat /\ MaxOverlaps \in Nat
  BY CountTypes DEF Bounded
<1>1. PartsBounded' BY PartsStep
<1>2. ASSUME call' = call, boot' = boot, manager' = manager, calls' = calls
      PROVE  StartsCounted'
  BY <1>0, <1>2, SameLate DEF StartsCounted, Booting
<1>3. ASSUME NEW c \in Caller, Start(c) \/ Stop(c) \/ Resume(c) PROVE Bounded'
  <2>1. UNCHANGED <<faults, overlaps>> BY <1>3 DEF Start, Stop, Resume, bounds
  <2>. QED BY <1>0, <1>1, <1>3, <2>1, CallerCounts DEF Bounded
<1>4. CASE Boot
  <2>1. faults' \in 0..MaxFaults
    BY <1>0, <1>4 DEF Boot, BootFails
  <2>. QED BY <1>0, <1>1, <1>4, <2>1, BootCounts DEF Bounded, Boot
<1>5. CASE Halt
  <2>1. faults' \in 0..MaxFaults BY <1>0, <1>5 DEF Halt, HaltFails
  <2>. QED BY <1>0, <1>1, <1>5, <2>1, HaltCounts DEF Bounded, Halt
<1>6. ASSUME NEW p \in Part, Begin(p) \/ Overlap(p) \/ Finish(p) PROVE Bounded'
  <2>1. /\ UNCHANGED <<call, boot, manager, calls, faults>>
        /\ overlaps' \in 0..MaxOverlaps
    BY <1>0, <1>6 DEF Begin, Overlap, Finish, lifecycle, bounds
  <2>. QED BY <1>0, <1>1, <1>2, <2>1 DEF Bounded
<1>7. CASE \/ Elapse \/ UNCHANGED vars
           \/ \E w \in UserWorker : Work(w) \/ CallOffWork(w) \/ Notify(w)
           \/ \E w \in Worker : Iterate(w) \/ Wake(w)
  <2>1. UNCHANGED <<call, boot, manager, calls, faults, overlaps>>
    BY <1>7 DEF Elapse, vars, Work, CallOffWork, Notify, Iterate, Fetched, Handled, Wake,
                services, lifecycle, bounds
  <2>. QED BY <1>0, <1>1, <1>2, <2>1 DEF Bounded
<1>. QED BY <1>3, <1>4, <1>5, <1>6, <1>7 DEF Next

LEMMA BoundedInit == Init => Bounded
<1>. SUFFICES ASSUME Init PROVE Bounded OBVIOUS
<1>1. Late = {} BY DEF Init, Late, Returned
<1>2. manager.timers = 0 /\ Booting = 0 /\ calls = 0 BY DEF Init, Booting
<1>3. StartsCounted BY <1>1, <1>2, FS_EmptySet DEF StartsCounted
<1>4. PartsBounded BY BoundAssumption DEF Init, PartsBounded
<1>. QED BY <1>3, <1>4, BoundAssumption DEF Init, Bounded

\* The intervals of an instance and the passes they begin are bounded: the manager
\* never has more intervals than start() was called, not even those a second
\* start() made it lose, and every other subsystem has one.
THEOREM TypeCorrect == Spec => []TypeOK
<1>1. Init => Bounded BY BoundedInit
<1>2. IndInv /\ Bounded /\ [Next]_vars => Bounded' BY BoundedStep DEF IndInv
<1>3. IndInv /\ Bounded => TypeOK
  <2>. SUFFICES ASSUME IndInv, Bounded PROVE TypeOK OBVIOUS
  <2>1. Types BY DEF IndInv
  <2>2. manager \in [stopped : BOOLEAN, timers : 0..MaxCalls, named : 0..1]
    <3>1. manager.timers \in 0..MaxCalls BY <2>1, CountTypes DEF Bounded, StartsCounted
    <3>. QED BY <2>1, <3>1 DEF Types
  <2>3. part \in [Part -> [stopped : BOOLEAN, timers : 0..1, busy : BOOLEAN,
                           running : 0..(MaxOverlaps + 1)]]
    <3>1. ASSUME NEW p \in Part
          PROVE  part[p] \in [stopped : BOOLEAN, timers : 0..1, busy : BOOLEAN,
                              running : 0..(MaxOverlaps + 1)]
      BY <2>1, CountTypes DEF Types, Bounded, PartsBounded
    <3>. QED BY <2>1, <3>1 DEF Types
  <2>. QED BY <2>1, <2>2, <2>3 DEF Types, TypeOK, Bounded
<1>. QED BY <1>1, <1>2, <1>3, Invariance, PTL DEF Spec

-----------------------------------------------------------------------------
(* Nobody waits in vain: the part of CallsReturn that needs no fairness.    *)

\* A caller awaits a #doStart or a #doStop that is still there to settle.
CallsRight ==
  \A c \in Caller :
    /\ call[c].at \in {"starting", "stopAfterStart"} => boot # "none"
    /\ call[c].at \in {"stopping", "startAfterStop"} => halt # NoHalt

\* A busy flag that #doStop waits for belongs to a pass that will clear it.
FlagsRight == \A p \in Part : part[p].busy => part[p].running > 0

\* A cleanup that #doStop waits for belongs to a loop that is at work, so that it
\* comes to the top, where it sees that it is stopping.
CleanupsRight ==
  \A w \in Worker : worker[w].cleanup # "none" => worker[w].phase \in {"fetch", "handle"}

NobodyWaitsInVain == CallsRight /\ FlagsRight /\ CleanupsRight

LEMMA CallsAwait ==
  ASSUME Types, CallsRight, NEW c \in Caller, NEW where \in {"idle"} \cup Waiting \cup Ready,
         NEW graceful \in BOOLEAN, Await(c, where, graceful),
         boot # "none" => boot' # "none", halt # NoHalt => halt' # NoHalt,
         where \in {"starting", "stopAfterStart"} => boot' # "none",
         where \in {"stopping", "startAfterStop"} => halt' # NoHalt
  PROVE  CallsRight'
<1>1. call'[c].at = where /\ \A d \in Caller \ {c} : call'[d] = call[d]
  BY AwaitType DEF Await
<1>. SUFFICES ASSUME NEW d \in Caller
              PROVE  /\ call'[d].at \in {"starting", "stopAfterStart"} => boot' # "none"
                     /\ call'[d].at \in {"stopping", "startAfterStop"} => halt' # NoHalt
  BY DEF CallsRight
<1>2. CASE d = c BY <1>1, <1>2
<1>3. CASE d # c BY <1>1, <1>3 DEF CallsRight
<1>. QED BY <1>2, <1>3

LEMMA EnterStartRight ==
  ASSUME Types, CallsRight, NEW c \in Caller, EnterStart(c)
  PROVE  CallsRight'
<1>0. "idle" \in {"idle"} \cup Waiting \cup Ready /\ "starting" \in {"idle"} \cup Waiting \cup Ready
      /\ FALSE \in BOOLEAN
  BY DEF Waiting, Ready
<1>1. CASE boot # "none" /\ Await(c, "starting", FALSE) /\ UNCHANGED <<boot, halt>>
  BY <1>0, <1>1, CallsAwait
<1>2. CASE Await(c, "idle", FALSE) /\ UNCHANGED <<boot, halt>>
  BY <1>0, <1>2, CallsAwait
<1>3. CASE boot' = "open" /\ Await(c, "starting", FALSE) /\ halt' = halt
  BY <1>0, <1>3, CallsAwait
<1>. QED BY <1>1, <1>2, <1>3 DEF EnterStart, Return, Returned, Await

LEMMA EnterStopRight ==
  ASSUME Types, CallsRight, NEW c \in Caller, NEW graceful \in BOOLEAN, EnterStop(c, graceful)
  PROVE  CallsRight'
<1>0. "idle" \in {"idle"} \cup Waiting \cup Ready /\ "stopping" \in {"idle"} \cup Waiting \cup Ready
      /\ FALSE \in BOOLEAN /\ boot' = boot
  BY DEF Waiting, Ready, EnterStop
<1>1. CASE halt # NoHalt /\ Await(c, "stopping", FALSE) /\ halt' = halt
  BY <1>0, <1>1, CallsAwait
<1>2. CASE Await(c, "idle", FALSE) /\ halt' = halt
  BY <1>0, <1>2, CallsAwait
<1>3. CASE /\ halt' = [at |-> "notifier", graceful |-> graceful, elapsed |-> FALSE]
           /\ Await(c, "stopping", FALSE)
  <2>1. halt' # NoHalt BY <1>3 DEF NoHalt
  <2>. QED BY <1>0, <1>3, <2>1, CallsAwait
<1>. QED BY <1>1, <1>2, <1>3 DEF EnterStop, Return, Returned, Await

LEMMA CallerRight ==
  ASSUME Types, CallsRight, NEW c \in Caller, Start(c) \/ Stop(c) \/ Resume(c)
  PROVE  CallsRight'
<1>0. /\ "startAfterStop" \in {"idle"} \cup Waiting \cup Ready
      /\ "stopAfterStart" \in {"idle"} \cup Waiting \cup Ready
      /\ FALSE \in BOOLEAN /\ call[c].graceful \in BOOLEAN
  BY DEF Waiting, Ready, Types, Calls
<1>1. CASE EnterStart(c) BY <1>1, EnterStartRight
<1>2. ASSUME NEW graceful \in BOOLEAN, EnterStop(c, graceful) PROVE CallsRight'
  BY <1>2, EnterStopRight
<1>3. CASE halt # NoHalt /\ Await(c, "startAfterStop", FALSE) /\ UNCHANGED <<boot, halt>>
  BY <1>0, <1>3, CallsAwait
<1>4. ASSUME NEW graceful \in BOOLEAN, boot # "none", Await(c, "stopAfterStart", graceful),
             UNCHANGED <<boot, halt>>
      PROVE  CallsRight'
  BY <1>0, <1>4, CallsAwait
<1>. QED BY <1>0, <1>1, <1>2, <1>3, <1>4 DEF Start, Stop, Resume, CallStart, CallStop

\* A promise that settles is awaited by nobody afterwards.
LEMMA StartSettlesRight ==
  ASSUME Types, CallsRight, StartSettles, halt' = halt
  PROVE  CallsRight'
<1>. SUFFICES ASSUME NEW c \in Caller
              PROVE  /\ call'[c].at \notin {"starting", "stopAfterStart"}
                     /\ call'[c].at \in {"stopping", "startAfterStop"} => halt' # NoHalt
  BY DEF CallsRight
<1>0. call[c] \in Calls BY DEF Types
<1>1. call'[c] = CASE call[c].at = "starting" -> Returned
                   [] call[c].at = "stopAfterStart" -> [call[c] EXCEPT !.at = "stopReady"]
                   [] OTHER -> call[c]
  BY DEF StartSettles
<1>2. CASE call[c].at = "starting" BY <1>1, <1>2 DEF Returned
<1>3. CASE call[c].at = "stopAfterStart" BY <1>0, <1>1, <1>3 DEF Calls
<1>4. CASE call[c].at \notin {"starting", "stopAfterStart"} BY <1>1, <1>4 DEF CallsRight
<1>. QED BY <1>2, <1>3, <1>4

LEMMA StopSettlesRight ==
  ASSUME Types, CallsRight, StopSettles, boot' = boot
  PROVE  CallsRight'
<1>. SUFFICES ASSUME NEW c \in Caller
              PROVE  /\ call'[c].at \notin {"stopping", "startAfterStop"}
                     /\ call'[c].at \in {"starting", "stopAfterStart"} => boot' # "none"
  BY DEF CallsRight
<1>0. call[c] \in Calls BY DEF Types
<1>1. call'[c] = CASE call[c].at = "stopping" -> Returned
                   [] call[c].at = "startAfterStop" -> [call[c] EXCEPT !.at = "startReady"]
                   [] OTHER -> call[c]
  BY DEF StopSettles
<1>2. CASE call[c].at = "stopping" BY <1>1, <1>2 DEF Returned
<1>3. CASE call[c].at = "startAfterStop" BY <1>0, <1>1, <1>3 DEF Calls
<1>4. CASE call[c].at \notin {"stopping", "startAfterStop"} BY <1>1, <1>4 DEF CallsRight
<1>. QED BY <1>2, <1>3, <1>4

LEMMA CallsStep ==
  ASSUME IndInv, CallsRight, [Next]_vars
  PROVE  CallsRight'
<1>0. Types /\ (halt # NoHalt => halt.at # "none")
  BY DEF IndInv, EntryRight
<1>1. ASSUME call' = call, boot # "none" => boot' # "none", halt # NoHalt => halt' # NoHalt
      PROVE  CallsRight'
  BY <1>1 DEF CallsRight
<1>2. CASE Boot
  <2>1. halt' = halt BY <1>2 DEF Boot
  <2>2. CASE StartSettles BY <1>0, <2>1, <2>2, StartSettlesRight
  <2>3. CASE call' = call /\ boot' # "none" BY <1>1, <2>1, <2>3
  <2>. QED
    BY <1>2, <2>2, <2>3
    DEF Boot, BootOpen, BootSchema, BootQueues, BootListen, BootSkew, BootSendIt, BootFails
<1>3. CASE Halt
  <2>1. boot' = boot BY <1>3 DEF Halt
  <2>2. CASE StopSettles BY <1>0, <2>1, <2>2, StopSettlesRight
  <2>3. ASSUME NEW next \in HaltAt \ {"none"}, HaltTo(next), call' = call PROVE CallsRight'
    <3>1. halt'.at = next BY <1>0, <2>3 DEF HaltTo, Types
    <3>2. halt' # NoHalt BY <2>3, <3>1 DEF NoHalt
    <3>. QED BY <1>1, <2>1, <2>3, <3>2
  <2>4. {"manager", "sendit", "cron", "maintaining", "drain", "failWip", "settle", "close"}
          \subseteq HaltAt \ {"none"}
    BY DEF HaltAt
  <2>. QED
    BY <1>3, <2>2, <2>3, <2>4
    DEF Halt, HaltNotifier, HaltManager, HaltSendIt, HaltCron, HaltMaintaining, HaltDrain,
        HaltFailWip, HaltSettle, HaltClose, HaltFails
<1>4. CASE Elapse
  <2>1. halt'.at = halt.at /\ halt.at = "drain" BY <1>0, <1>4 DEF Elapse, Types
  <2>2. halt' # NoHalt BY <2>1 DEF NoHalt
  <2>. QED BY <1>1, <1>4, <2>2 DEF Elapse
<1>5. ASSUME NEW c \in Caller, Start(c) \/ Stop(c) \/ Resume(c) PROVE CallsRight'
  BY <1>0, <1>5, CallerRight
<1>6. CASE \/ UNCHANGED vars
           \/ \E p \in Part : Begin(p) \/ Overlap(p) \/ Finish(p)
           \/ \E w \in UserWorker : Work(w) \/ CallOffWork(w) \/ Notify(w)
           \/ \E w \in Worker : Iterate(w) \/ Wake(w)
  <2>1. UNCHANGED <<call, boot, halt>>
    BY <1>6 DEF vars, Begin, Overlap, Finish, Work, CallOffWork, Notify, Iterate, Fetched,
                Handled, Wake, lifecycle
  <2>. QED BY <1>1, <2>1
<1>. QED BY <1>2, <1>3, <1>4, <1>5, <1>6 DEF Next

LEMMA FlagsStep ==
  ASSUME Types, FlagsRight, [Next]_vars
  PROVE  FlagsRight'
<1>0. part \in [Part -> [stopped : BOOLEAN, timers : Nat, busy : BOOLEAN, running : Nat]]
      /\ \A p \in Part : part[p].busy => part[p].running > 0
  BY DEF Types, FlagsRight
<1>. SUFFICES ASSUME NEW p \in Part PROVE part'[p].busy => part'[p].running > 0
  BY DEF FlagsRight
<1>1. CASE part'[p].busy = part[p].busy /\ part'[p].running = part[p].running
  BY <1>0, <1>1
<1>2. ASSUME NEW q \in Part, Begin(q) \/ Overlap(q) \/ Finish(q)
      PROVE  part'[p].busy => part'[p].running > 0
  BY <1>0, <1>2 DEF Begin, Overlap, Finish
<1>3. CASE Boot
  <2>1. CASE BootListen BY <1>0, <1>1, <2>1 DEF BootListen, PartStarted, StartedAgain
  <2>2. CASE BootSendIt BY <1>0, <1>1, <2>2 DEF BootSendIt
  <2>3. CASE part' = part BY <1>1, <2>3
  <2>. QED BY <1>3, <2>1, <2>2, <2>3
           DEF Boot, BootOpen, BootSchema, BootQueues, BootSkew, BootFails, services
<1>4. CASE Halt
  <2>1. CASE HaltManager \/ HaltSendIt BY <1>0, <1>1, <2>1 DEF HaltManager, HaltSendIt
  <2>2. CASE HaltCron \/ HaltMaintaining
    BY <1>0, <1>1, <2>2 DEF HaltCron, HaltMaintaining, PartStopped
  <2>3. CASE part' = part BY <1>1, <2>3
  <2>. QED BY <1>4, <2>1, <2>2, <2>3
           DEF Halt, HaltNotifier, HaltDrain, HaltFailWip, HaltSettle, HaltClose, HaltFails,
               services
<1>5. CASE \/ Elapse \/ UNCHANGED vars
           \/ \E c \in Caller : Start(c) \/ Stop(c) \/ Resume(c)
           \/ \E w \in UserWorker : Work(w) \/ CallOffWork(w) \/ Notify(w)
           \/ \E w \in Worker : Iterate(w) \/ Wake(w)
  <2>1. part' = part
    BY <1>5 DEF Elapse, vars, Start, Stop, Resume, Work, CallOffWork, Notify, Iterate,
                Fetched, Handled, Wake, services
  <2>. QED BY <1>1, <2>1
<1>. QED BY <1>2, <1>3, <1>4, <1>5 DEF Next

\* Whatever start() and stop() wait for is under way: the call they joined has not
\* settled, the pass whose flag they watch runs, the loop whose cleanup is parked
\* fetches or handles.  With the fairness of FairSpec this is why calls return.
THEOREM WaitsAreAnswered == Spec => []NobodyWaitsInVain
<1>1. Init => CallsRight /\ FlagsRight
  <2>. SUFFICES ASSUME Init PROVE CallsRight /\ FlagsRight OBVIOUS
  <2>1. CallsRight BY DEF Init, CallsRight, Returned
  <2>2. FlagsRight BY DEF Init, FlagsRight
  <2>. QED BY <2>1, <2>2
<1>2. IndInv /\ CallsRight /\ FlagsRight /\ [Next]_vars => (CallsRight /\ FlagsRight)'
  BY CallsStep, FlagsStep DEF IndInv
<1>3. IndInv => CleanupsRight
  <2>. SUFFICES ASSUME IndInv, NEW w \in Worker, worker[w].cleanup # "none"
                PROVE  worker[w].phase \in {"fetch", "handle"}
    BY DEF CleanupsRight
  <2>1. worker[w] \in Loops /\ LoopRight(worker[w]) /\ worker[w].stopping
    BY OneLoop DEF IndInv
  <2>. QED BY <2>1 DEF LoopRight, Loops, Absent
<1>. QED BY <1>1, <1>2, <1>3, Invariance, PTL DEF Spec, NobodyWaitsInVain

\* The manager loses no interval: stop() can clear every one it set, unless a
\* start() that failed is called again (manager.start() has no guard).
IntervalsNamed == ~retried => manager.timers = manager.named

THEOREM IntervalsAreNamed == Spec => []IntervalsNamed
<1>1. IndInv => IntervalsNamed BY DEF IndInv, Tidy, ManagerTidy, IntervalsNamed
<1>. QED BY <1>1, Invariance, PTL
=============================================================================
