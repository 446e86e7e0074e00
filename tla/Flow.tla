-------------------------------- MODULE Flow --------------------------------
(***************************************************************************)
(* Flows: jobs that wait for other jobs, and the Navigator that releases   *)
(* them (src/src/navigator.ts, Manager.flow(), the flow statements of      *)
(* src/src/plans.ts).                                                      *)
(*                                                                         *)
(* flow() writes the jobs and their dependency rows in one transaction.    *)
(* Completing a parent touches nothing else; a navigator later claims      *)
(* completed parents (row locks, SKIP LOCKED), decrements the counters of  *)
(* their children and clears the parents' blocking flag, all in one        *)
(* statement.  A statement reads from the snapshot taken when it starts,   *)
(* so claiming and writing are two steps here and the commands of other    *)
(* sessions come between them.                                             *)
(*                                                                         *)
(* Retry limits, keys and policies belong to module JobStore: here a job   *)
(* whose state is below 'active' is queued, a cancelled or failed one has  *)
(* stopped, and fail() either queues it again or not.  A command on        *)
(* several ids is a sequence of commands on one, as no row constrains      *)
(* another.  Ids are fresh (randomUUID()).                                 *)
(***************************************************************************)
EXTENDS Integers, FiniteSets

CONSTANTS
  JobId,        \* ids of jobs
  Navigator,    \* the navigators, one per instance
  Tables,       \* number of partition tables; audited one after the other
  TableOf,      \* [JobId -> 1..Tables], the table of a job's queue
  BatchSize,    \* FLOW_BATCH_SIZE
  MaxBatches,   \* MAX_BATCHES_PER_PASS
  Plannable,    \* bound: the dependencies callers ask for, <<child, parent>>
  MaxFaults     \* bound: passes that end early

ASSUME JobIdAssumption == IsFiniteSet(JobId)
ASSUME TableAssumption == Tables \in Nat \ {0} /\ TableOf \in [JobId -> 1..Tables]
ASSUME BoundAssumption ==
  BatchSize \in Nat \ {0} /\ MaxBatches \in Nat \ {0} /\ MaxFaults \in Nat

VARIABLES
  job,       \* the job table: state and flow columns
  dep,       \* the job_dependency table, <<child, parent>>
  nav,       \* the pass each navigator is in
  faults,    \* passes that ended early so far
  plan,      \* history: every dependency that was declared
  finished,  \* history: jobs that completed
  forced,    \* history: jobs completed by hand while they were blocked
  resolved,  \* history: parents whose children were decremented
  missed     \* history: <<child, parent>> whose decrement found no row

store   == <<job, dep>>
history == <<plan, finished, forced, resolved, missed>>
vars    == <<job, dep, nav, faults, plan, finished, forced, resolved, missed>>

-----------------------------------------------------------------------------
(* Rows and passes.                                                         *)

State == {"queued", "active", "completed", "stopped"}
Live  == {"queued", "active"}

Row == [ state    : State \cup {"absent", "unused"},
         blocked  : BOOLEAN,
         blocking : BOOLEAN,
         pending  : Nat ]       \* pending_dependencies

NoRow(s) == [state |-> s, blocked |-> FALSE, blocking |-> FALSE, pending |-> 0]

\* table is the one the pass audits (0: no pass), batches counts the batches it
\* resolved there, claimed are the parents the running statement locked ({}: none
\* runs), moved the blocked rows that were re-inserted since its snapshot.
Pass == [ table   : 0..Tables,
          batches : Nat,
          claimed : SUBSET JobId,
          moved   : SUBSET JobId ]

Auditing(t) == [table |-> t, batches |-> 0, claimed |-> {}, moved |-> {}]
NoPass == Auditing(0)

\* Columns hold what their types allow; a counter never becomes negative.
TypeOK ==
  /\ job \in [JobId -> Row]
  /\ dep \subseteq JobId \X JobId
  /\ nav \in [Navigator -> Pass]
  /\ faults \in Nat
  /\ plan \subseteq JobId \X JobId
  /\ finished \subseteq JobId /\ forced \subseteq finished
  /\ resolved \subseteq JobId
  /\ missed \subseteq plan

Stored == {i \in JobId : job[i].state \in State}
Locked == UNION {nav[n].claimed : n \in Navigator}
Needs(c) == {p \in JobId : <<c, p>> \in plan}

-----------------------------------------------------------------------------
(* Creating a flow.                                                         *)

\* Kahn's algorithm of validateFlowJobs: the jobs that are visited within n
\* rounds, a job being queued when all it depends on was visited.
Visited(J, E) ==
  LET after[n \in 0..Cardinality(J)] ==
        IF n = 0 THEN {}
        ELSE {j \in J : \A p \in J : <<j, p>> \in E => p \in after[n - 1]}
  IN  after[Cardinality(J)]

\* Variant: only the jobs nothing depends on are looked at.
ValidFlowByRoots(J, E) ==
  /\ Cardinality(J) >= 2 /\ E # {}
  /\ \A j \in J : <<j, j>> \notin E
  /\ \E j \in J : \A p \in J : <<j, p>> \notin E

ValidFlow(J, E) ==
  /\ Cardinality(J) >= 2
  /\ E # {}
  /\ \A j \in J : <<j, j>> \notin E
  /\ Visited(J, E) = J

DependsOn(j, J, E) == {p \in J : <<j, p>> \in E}

\* Variant: the counter of a job is the number of its children.
FlowRowCountsChildren(j, J, E) ==
  [ state    |-> "queued",
    blocked  |-> DependsOn(j, J, E) # {},
    blocking |-> \E c \in J : <<c, j>> \in E,
    pending  |-> Cardinality({c \in J : <<c, j>> \in E}) ]

FlowRow(j, J, E) ==
  [ state    |-> "queued",
    blocked  |-> DependsOn(j, J, E) # {},
    blocking |-> \E c \in J : <<c, j>> \in E,
    pending  |-> Cardinality(DependsOn(j, J, E)) ]

\* flow(): all jobs and all dependency rows, or nothing.
CreateFlow(J, E) ==
  /\ \A j \in J : job[j].state = "unused"
  /\ ValidFlow(J, E)
  /\ job' = [i \in JobId |-> IF i \in J THEN FlowRow(i, J, E) ELSE job[i]]
  /\ dep' = dep \cup E
  /\ plan' = plan \cup E
  /\ UNCHANGED <<nav, faults, finished, forced, resolved, missed>>

-----------------------------------------------------------------------------
(* The commands that change the state of a job.                             *)

SetState(i, s) == job' = [job EXCEPT ![i].state = s]

\* Blocked jobs are not fetched.
Fetch(i) ==
  /\ job[i].state = "queued" /\ ~job[i].blocked
  /\ SetState(i, "active")
  /\ UNCHANGED <<dep, nav, faults, history>>

\* complete() of an active job leaves the flow columns alone.
Complete(i) ==
  /\ job[i].state = "active"
  /\ SetState(i, "completed")
  /\ finished' = finished \cup {i}
  /\ UNCHANGED <<dep, nav, faults, plan, forced, resolved, missed>>

\* complete() with includeQueued also takes a job that waits.
CompleteQueued(i) ==
  /\ job[i].state \in Live
  /\ job' = [job EXCEPT ![i].state = "completed", ![i].blocked = FALSE, ![i].pending = 0]
  /\ finished' = finished \cup {i}
  /\ forced' = IF job[i].blocked THEN forced \cup {i} ELSE forced
  /\ UNCHANGED <<dep, nav, faults, plan, resolved, missed>>

\* fail() deletes the row and inserts it again, with its flow columns: for a
\* statement that is running the new row does not exist.
Fail(i, s) ==
  /\ job[i].state \in Live
  /\ s \in {"queued", "stopped"}
  /\ SetState(i, s)
  /\ nav' = [n \in Navigator |->
       IF nav[n].claimed # {} /\ job[i].blocked THEN [nav[n] EXCEPT !.moved = @ \cup {i}] ELSE nav[n]]
  /\ UNCHANGED <<dep, faults, history>>

Cancel(i) ==
  /\ job[i].state \in Live
  /\ SetState(i, "stopped")
  /\ UNCHANGED <<dep, nav, faults, history>>

\* resume() of a cancelled and retry() of a failed job.
Requeue(i) ==
  /\ job[i].state = "stopped"
  /\ SetState(i, "queued")
  /\ UNCHANGED <<dep, nav, faults, history>>

\* deleteJob(), or the retention sweep; it waits for the lock of a claimed row.
Delete(i) ==
  /\ i \in Stored
  /\ i \notin Locked
  /\ job' = [job EXCEPT ![i] = NoRow("absent")]
  /\ UNCHANGED <<dep, nav, faults, history>>

\* The supervisor removes the dependency rows that name a job of this table
\* which is gone.
CleanupDependencies(t) ==
  LET gone == {i \in JobId \ Stored : TableOf[i] = t}
  IN  /\ dep' = {d \in dep : d[1] \notin gone /\ d[2] \notin gone}
      /\ dep' # dep
      /\ UNCHANGED <<job, nav, faults, history>>

-----------------------------------------------------------------------------
(* The navigators.                                                          *)

Idle(n) == nav[n].table = 0

\* #onPoll() when it wins the gate (version.flow_on is older than the interval:
\* left free, like every clock), and resolveNow(), which needs no gate.  A tick
\* during a pass is ignored, resolveNow() waits for the pass in flight.
StartPass(n) ==
  /\ Idle(n)
  /\ nav' = [nav EXCEPT ![n] = Auditing(1)]
  /\ UNCHANGED <<store, faults, history>>

\* Variant: locks are neither held nor skipped.
CandidatesUnlocked(t) ==
  {i \in JobId : TableOf[i] = t /\ job[i].blocking /\ job[i].state = "completed"}

\* Variant: the statement forgets state = 'completed'.
CandidatesInAnyState(t) ==
  {i \in JobId \ Locked : TableOf[i] = t /\ job[i].blocking}

\* The completed blocking parents of a table that nobody has locked.
Candidates(t) ==
  {i \in JobId \ Locked : TableOf[i] = t /\ job[i].blocking /\ job[i].state = "completed"}

\* The statement starts: it locks a batch of parents.
Claim(n, B) ==
  LET found == Candidates(nav[n].table)
  IN  /\ ~Idle(n) /\ nav[n].claimed = {}
      /\ B \subseteq found /\ B # {}
      /\ Cardinality(B) = BatchSize \/ (B = found /\ Cardinality(B) <= BatchSize)
      /\ nav' = [nav EXCEPT ![n].claimed = B]
      /\ UNCHANGED <<store, faults, history>>

\* The pass turns to the next table, or ends after the last.
Onward(pass) == IF pass.table = Tables THEN NoPass ELSE Auditing(pass.table + 1)

\* The statement finds no parent in this table.
NothingToResolve(n) ==
  /\ ~Idle(n) /\ nav[n].claimed = {}
  /\ Candidates(nav[n].table) = {}
  /\ nav' = [nav EXCEPT ![n] = Onward(@)]
  /\ UNCHANGED <<store, faults, history>>

\* The children of the claimed parents that the statement can lock: blocked,
\* and still the row of its snapshot.
Reached(n) == {c \in Stored : job[c].blocked /\ c \notin nav[n].moved}

Settles(n, c) == {p \in nav[n].claimed : <<c, p>> \in dep}

\* Variant: no GREATEST(..., 0), and one too many.
DecrementedTooFar(r, k) ==
  IF k = 0 THEN r
  ELSE [r EXCEPT !.pending = r.pending - k - 1, !.blocked = r.pending - k > 1]

\* Variant: a counter of one is enough to release the child.
DecrementedEarly(r, k) ==
  LET left == IF r.pending > k THEN r.pending - k ELSE 0
  IN  IF k = 0 THEN r ELSE [r EXCEPT !.pending = left, !.blocked = left > 1]

Decremented(r, k) ==
  LET left == IF r.pending > k THEN r.pending - k ELSE 0
  IN  IF k = 0 THEN r ELSE [r EXCEPT !.pending = left, !.blocked = left > 0]

\* Variant: every completed parent of the table is cleared.
ResolutionClearsAll(n) ==
  [i \in JobId |->
    LET r == IF i \in Reached(n) THEN Decremented(job[i], Cardinality(Settles(n, i)))
             ELSE job[i]
    IN  IF job[i].state = "completed" THEN [r EXCEPT !.blocking = FALSE] ELSE r]

\* The rows once navigator n has written: children decremented, parents clear.
Resolution(n) ==
  [i \in JobId |->
    LET r == IF i \in Reached(n) THEN Decremented(job[i], Cardinality(Settles(n, i)))
             ELSE job[i]
    IN  IF i \in nav[n].claimed THEN [r EXCEPT !.blocking = FALSE] ELSE r]

\* A full batch is followed by another one, up to MaxBatches.
AfterBatch(pass) ==
  IF Cardinality(pass.claimed) >= BatchSize /\ pass.batches + 1 < MaxBatches
  THEN [Auditing(pass.table) EXCEPT !.batches = pass.batches + 1]
  ELSE Onward(pass)

\* The statement commits.
Resolve(n) ==
  /\ nav[n].claimed # {}
  /\ job' = Resolution(n)
  /\ resolved' = resolved \cup nav[n].claimed
  /\ missed' = missed \cup {d \in plan :
       d[1] \in nav[n].moved /\ job[d[1]].blocked /\ d[2] \in nav[n].claimed}
  /\ nav' = [nav EXCEPT ![n] = AfterBatch(@)]
  /\ UNCHANGED <<dep, faults, plan, finished, forced>>

\* The pass ends early: the statement fails and rolls back, the instance
\* crashes, or it is stopped.  What was committed stays.
Abandon(n) ==
  /\ ~Idle(n) /\ faults < MaxFaults
  /\ nav' = [nav EXCEPT ![n] = NoPass]
  /\ faults' = faults + 1
  /\ UNCHANGED <<store, history>>

-----------------------------------------------------------------------------

Init ==
  /\ job = [i \in JobId |-> NoRow("unused")]
  /\ dep = {} /\ plan = {}
  /\ nav = [n \in Navigator |-> NoPass]
  /\ faults = 0
  /\ finished = {} /\ forced = {} /\ resolved = {} /\ missed = {}

CreateSomeFlow ==
  \E J \in SUBSET {i \in JobId : job[i].state = "unused"} :
    \E E \in SUBSET (Plannable \cap (J \X J)) : CreateFlow(J, E)

Command(i) ==
  \/ Fetch(i) \/ Complete(i) \/ CompleteQueued(i)
  \/ Fail(i, "queued") \/ Fail(i, "stopped")
  \/ Cancel(i) \/ Requeue(i) \/ Delete(i)

Work(n) ==
  \/ NothingToResolve(n) \/ Resolve(n)
  \/ \E B \in SUBSET JobId : Claim(n, B)

Next ==
  \/ CreateSomeFlow
  \/ \E i \in JobId : Command(i)
  \/ \E t \in 1..Tables : CleanupDependencies(t)
  \/ \E n \in Navigator : StartPass(n) \/ Work(n) \/ Abandon(n)

Spec == Init /\ [][Next]_vars

\* The poll timers fire again and again and somebody wins the gate; a statement
\* that was sent is answered.  Nothing is assumed of the callers.
Fairness ==
  /\ WF_vars(\E n \in Navigator : StartPass(n))
  /\ \A n \in Navigator : WF_vars(Work(n))

FairSpec == Spec /\ Fairness

-----------------------------------------------------------------------------
(* Properties.                                                              *)

\* The parents whose completion the counter of c has still to count.
Waits(c) == {p \in Needs(c) : p \notin resolved \/ <<c, p>> \in missed}

\* The counter of a job is exact whatever the navigators do at the same time:
\* no completed parent is counted twice, and none is forgotten but for the
\* decrement that finds no row (see missed).
PendingExact ==
  \A c \in Stored :
    /\ c \notin forced => job[c].pending = Cardinality(Waits(c))
    /\ job[c].blocked <=> job[c].pending > 0

\* Claims are exclusive and hold completed parents only; flags, states and
\* dependency rows agree with what has happened.
Bookkeeping ==
  /\ \A n, m \in Navigator : n # m => nav[n].claimed \cap nav[m].claimed = {}
  /\ \A n \in Navigator : \A p \in nav[n].claimed :
       job[p].state = "completed" /\ job[p].blocking
  /\ \A i \in JobId :
       /\ job[i].state = "completed" => i \in finished
       /\ job[i].state \in {"active", "completed"} => ~job[i].blocked
       /\ i \notin Stored => ~job[i].blocked /\ ~job[i].blocking
       /\ i \in resolved => ~job[i].blocking
       /\ i \in forced => ~job[i].blocked
       /\ job[i].state = "unused" =>
            /\ i \notin finished
            /\ \A p \in JobId : <<i, p>> \notin plan /\ <<p, i>> \notin plan
  /\ resolved \subseteq finished
  /\ \A d \in missed : d[2] \in resolved
  /\ dep \subseteq plan
  /\ \A c, p \in Stored : <<c, p>> \in plan => <<c, p>> \in dep

\* The invariant the proofs need: types, the counters, and what keeps them exact
\* when several navigators and callers are at work.
IndInv == TypeOK /\ Bookkeeping /\ PendingExact

\* A job can be fetched only when all it depends on has completed, however its
\* parents were resolved, failed, revived or removed.
ReadyToRun ==
  \A c \in Stored : ~job[c].blocked => Needs(c) \subseteq finished \/ c \in forced

\* The parents of c are stored and completed, or resolved already.
Ready(c) ==
  /\ c \in Stored /\ job[c].blocked
  /\ \A p \in Needs(c) :
       IF p \in resolved THEN <<c, p>> \notin missed
       ELSE p \in Stored /\ job[p].state = "completed"

\* A blocked child whose parents have all completed is released, or its row or a
\* parent's is removed or re-inserted first: the batches, tables, gates and
\* failed passes of the navigators never leave it behind.
NotStranded == \A c \in JobId : Ready(c) ~> ~Ready(c)

\* No set of jobs waits only for itself: the flows validateFlowJobs lets through
\* have no circle.
NoCircle ==
  \A K \in SUBSET JobId : K # {} => \E c \in K : Needs(c) \cap K = {}

\* Flow implements what a flow promises.
Free == {c \in Stored : ~job[c].blocked}
Promise == INSTANCE Dependencies WITH edges <- plan, free <- Free
ImplementsDependencies == Promise!Spec
=============================================================================
