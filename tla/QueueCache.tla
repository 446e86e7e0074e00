----------------------------- MODULE QueueCache -----------------------------
(***************************************************************************)
(* The queue row that every instance caches, and the fetch that relies on  *)
(* it (createQueue, updateQueue, deleteQueue, getQueueCache and            *)
(* onCacheQueues of src/src/manager.ts, cacheQueueStats and fetchNextJob   *)
(* of src/src/plans.ts).                                                   *)
(*                                                                         *)
(* One queue with policy singleton: one active job per key, kept by a      *)
(* unique index.  A fetch that meets the index comes back empty, so a      *)
(* waiting job whose key is active stands in the way of those behind it    *)
(* until the supervisor has written the active keys into the queue row and *)
(* the instances have read it.  A read may come back wrong-empty, as some  *)
(* drivers do, and is applied some time after the database answered it.    *)
(***************************************************************************)
EXTENDS Integers, FiniteSets

CONSTANTS
  Instance,   \* the instances
  JobId,      \* jobs, numbered as they are created and fetched
  Key,        \* singleton keys
  KeyOf,      \* [JobId -> Key]
  BatchSize,  \* the largest batch
  MaxChanges, \* bound: creations, updates and deletions of the queue
  MaxFaults   \* bound: wrong-empty reads

ASSUME JobAssumption == JobId \subseteq Nat /\ KeyOf \in [JobId -> Key]
ASSUME BoundAssumption == BatchSize \in Nat \ {0} /\ {MaxChanges, MaxFaults} \subseteq Nat

VARIABLES
  row,     \* the queue's row: its version and the keys cacheQueueStats wrote
  job,     \* state of every job
  cache,   \* what this.queues of each instance holds for the queue
  empty,   \* #lastRefreshEmpty
  refresh, \* the row onCacheQueues has read and not applied yet
  op,      \* the lookup, read-back or eviction each instance is in
  changes, faults, \* counted against the bounds
  absent,  \* history: the queue was away since the last refresh that found it
  wronged  \* history: instances whose lookup denied or refresh dropped a queue that was there

vars == <<row, job, cache, empty, refresh, op, changes, faults, absent, wronged>>

\* The queue or nothing; versions count its creations and updates.
NoRow == [version |-> 0, busy |-> {}]
Row == [version : 0..(MaxChanges + 1), busy : SUBSET Key]
Unread == [version |-> -1, busy |-> {}]

Idle == [at |-> "idle", got |-> NoRow, away |-> FALSE]

TypeOK ==
  /\ row \in Row
  /\ job \in [JobId -> {"none", "waiting", "active", "done"}]
  /\ cache \in [Instance -> Row] /\ empty \in [Instance -> BOOLEAN]
  /\ refresh \in [Instance -> Row \cup {Unread}]
  /\ op \in [Instance -> [at : {"idle", "first", "second", "found", "readBack", "evict"},
                          got : Row, away : BOOLEAN]]
  /\ changes \in 0..MaxChanges /\ faults \in 0..MaxFaults
  /\ absent \in [Instance -> BOOLEAN] /\ wronged \subseteq Instance

Init ==
  /\ row = [NoRow EXCEPT !.version = 1]
  /\ job = [j \in JobId |-> "none"]
  /\ cache = [i \in Instance |-> NoRow] /\ empty = [i \in Instance |-> FALSE]
  /\ refresh = [i \in Instance |-> Unread]
  /\ op = [i \in Instance |-> Idle]
  /\ changes = 0 /\ faults = 0
  /\ absent = [i \in Instance |-> FALSE] /\ wronged = {}

SetOp(i, at, got) == op' = [op EXCEPT ![i] = [at |-> at, got |-> got, away |-> @.away]]
SetCache(i, r) == cache' = [cache EXCEPT ![i] = r]
Return(i) == op' = [op EXCEPT ![i] = Idle]

\* What a read of the queue may answer.
Answers == {row} \cup (IF faults < MaxFaults THEN {NoRow} ELSE {})
CountFault(answer) == faults' = faults + (IF answer = row THEN 0 ELSE 1)

-----------------------------------------------------------------------------
(* The cache.                                                               *)

\* getQueueCache() of a queue that is not cached.
Lookup(i) ==
  /\ op[i] = Idle /\ cache[i] = NoRow
  /\ op' = [op EXCEPT ![i] = [at |-> "first", got |-> NoRow, away |-> (row = NoRow)]]
  /\ UNCHANGED <<row, job, cache, empty, refresh, changes, faults, absent, wronged>>

\* Variant: one empty read is believed.
AfterEmptyOnce(at) == "missing"

\* Variant: two empty reads are not enough.
AfterEmptyThrice(at) == IF at = "first" THEN "second" ELSE "third"

\* An empty answer is asked for again before it is believed.
AfterEmpty(at) == IF at = "first" THEN "second" ELSE "missing"

LookupRead(i) ==
  /\ op[i].at \in {"first", "second"}
  /\ \E answer \in Answers :
       /\ CountFault(answer)
       /\ \/ /\ answer # NoRow
             /\ SetOp(i, "found", answer)
             /\ wronged' = wronged
          \/ /\ answer = NoRow /\ AfterEmpty(op[i].at) # "missing"
             /\ SetOp(i, AfterEmpty(op[i].at), NoRow)
             /\ wronged' = wronged
          \/ /\ answer = NoRow /\ AfterEmpty(op[i].at) = "missing"
             /\ Return(i)
             /\ wronged' = IF op[i].away THEN wronged ELSE wronged \cup {i}
  /\ UNCHANGED <<row, job, cache, empty, refresh, changes, absent>>

\* #cacheQueueRow() arms the guard of the refresh again.
Found(i) ==
  /\ op[i].at = "found"
  /\ SetCache(i, op[i].got)
  /\ empty' = [empty EXCEPT ![i] = FALSE]
  /\ Return(i)
  /\ UNCHANGED <<row, job, refresh, changes, faults, absent, wronged>>

\* onCacheQueues() reads all queues,
RefreshRead(i) ==
  /\ refresh[i] = Unread
  /\ \E answer \in Answers :
       /\ CountFault(answer)
       /\ refresh' = [refresh EXCEPT ![i] = answer]
  /\ UNCHANGED <<row, job, cache, empty, op, changes, absent, wronged>>

\* Variants: the guard never gives in, or is not there.
AlwaysDoubted(i) == refresh[i] = NoRow /\ cache[i] # NoRow
NeverDoubted(i) == FALSE

\* One empty snapshot against a cache that is not empty proves nothing.
Doubted(i) == refresh[i] = NoRow /\ ~empty[i] /\ cache[i] # NoRow

\* and replaces the cache, however old its answer is by now.
RefreshApply(i) ==
  /\ refresh[i] # Unread
  /\ IF Doubted(i) THEN cache' = cache ELSE SetCache(i, refresh[i])
  /\ empty' = [empty EXCEPT ![i] = (refresh[i] = NoRow)]
  /\ wronged' = IF cache[i] # NoRow /\ cache'[i] = NoRow /\ ~absent[i]
                THEN wronged \cup {i} ELSE wronged
  /\ absent' = IF refresh[i] = NoRow THEN absent ELSE [absent EXCEPT ![i] = (row = NoRow)]
  /\ refresh' = [refresh EXCEPT ![i] = Unread]
  /\ UNCHANGED <<row, job, op, changes, faults>>

-----------------------------------------------------------------------------
(* Queue management.                                                        *)

Change == changes < MaxChanges /\ changes' = changes + 1

\* create_queue: nothing happens when the queue is there.
CreateQueue(i) ==
  /\ op[i] = Idle /\ Change
  /\ row' = IF row = NoRow THEN [NoRow EXCEPT !.version = changes + 2] ELSE row
  /\ SetOp(i, "readBack", NoRow)
  /\ UNCHANGED <<job, cache, empty, refresh, faults, absent, wronged>>

\* updateQueue changes the row if there is one.
UpdateQueue(i) ==
  /\ op[i] = Idle /\ Change
  /\ row' = IF row = NoRow THEN NoRow ELSE [row EXCEPT !.version = changes + 2]
  /\ SetOp(i, "readBack", NoRow)
  /\ UNCHANGED <<job, cache, empty, refresh, faults, absent, wronged>>

\* #refreshQueueCacheEntry reads the row back,
ReadBack(i) ==
  /\ op[i].at = "readBack"
  /\ \E answer \in Answers :
       /\ CountFault(answer)
       /\ IF answer # NoRow THEN SetOp(i, "found", answer) ELSE SetOp(i, "evict", NoRow)
  /\ UNCHANGED <<row, job, cache, empty, refresh, changes, absent, wronged>>

\* or drops the entry, as deleteQueue does.
Evict(i) ==
  /\ op[i].at = "evict"
  /\ SetCache(i, NoRow)
  /\ Return(i)
  /\ UNCHANGED <<row, job, empty, refresh, changes, faults, absent, wronged>>

\* delete_queue drops the row and its jobs.
Deleted ==
  /\ row' = NoRow
  /\ job' = [j \in JobId |-> IF job[j] = "none" THEN "none" ELSE "done"]
  /\ absent' = [k \in Instance |-> TRUE]

Away == [k \in Instance |->
  IF op[k].at \in {"first", "second"} THEN [op[k] EXCEPT !.away = TRUE] ELSE op[k]]

\* deleteQueue of a queue the instance knows (of another it is a lookup only).
DeleteQueue(i) ==
  /\ op[i] = Idle /\ cache[i] # NoRow /\ Change
  /\ Deleted
  /\ op' = [Away EXCEPT ![i] = [at |-> "evict", got |-> NoRow, away |-> FALSE]]
  /\ UNCHANGED <<cache, empty, refresh, faults, wronged>>

\* The same calls on an instance that is not modelled: only their effect on the
\* row is seen here.
Elsewhere ==
  /\ Change
  /\ \/ /\ row' = [row EXCEPT !.version = changes + 2]
        /\ UNCHANGED <<job, absent, op>>
     \/ /\ row # NoRow /\ Deleted
        /\ op' = Away
  /\ UNCHANGED <<cache, empty, refresh, faults, wronged>>

-----------------------------------------------------------------------------
(* Jobs.                                                                    *)

\* The fetch takes jobs of one priority in the order they were created in.
Send(j) ==
  /\ row # NoRow /\ job[j] = "none"
  /\ \A k \in JobId : k < j => job[k] # "none"
  /\ job' = [job EXCEPT ![j] = "waiting"]
  /\ UNCHANGED <<row, cache, empty, refresh, op, changes, faults, absent, wronged>>

ActiveKeys == {KeyOf[j] : j \in {k \in JobId : job[k] = "active"}}

\* Variant: the cached keys are left out of the query.
EligibleAnyKey(i) == {j \in JobId : job[j] = "waiting"}

\* The rows the query looks at: waiting, and not of a key the cached row calls
\* active.
Eligible(i) == {j \in JobId : job[j] = "waiting" /\ KeyOf[j] \notin cache[i].busy}

\* The first n of them, one for each key (row_number() has no order).
Picked(i, n) ==
  LET Before(j) == {k \in Eligible(i) : k < j}
      Next_n    == {j \in Eligible(i) : Cardinality(Before(j)) < n}
  IN {S \in SUBSET Next_n : /\ \A j, k \in S : KeyOf[j] = KeyOf[k] => j = k
                            /\ {KeyOf[j] : j \in S} = {KeyOf[j] : j \in Next_n}}

\* The unique index lets the whole statement pass, or none of it.
Allowed(S) == \A j \in S : KeyOf[j] \notin ActiveKeys

Fetch(i) ==
  /\ cache[i] # NoRow
  /\ \E n \in 1..BatchSize : \E S \in Picked(i, n) :
       /\ S # {} /\ Allowed(S)
       /\ job' = [j \in JobId |-> IF j \in S THEN "active" ELSE job[j]]
  /\ UNCHANGED <<row, cache, empty, refresh, op, changes, faults, absent, wronged>>

\* The job completes or fails for good.
Settle(j) ==
  /\ job[j] = "active"
  /\ job' = [job EXCEPT ![j] = "done"]
  /\ UNCHANGED <<row, cache, empty, refresh, op, changes, faults, absent, wronged>>

\* cacheQueueStats, by whichever supervisor won the gate monitor_on: the keys
\* are those getQueueStats calls singletonsActive.
Stats ==
  /\ row # NoRow
  /\ row' = [row EXCEPT !.busy = ActiveKeys]
  /\ UNCHANGED <<job, cache, empty, refresh, op, changes, faults, absent, wronged>>

-----------------------------------------------------------------------------
Calls(i) == Lookup(i) \/ LookupRead(i) \/ Found(i) \/ ReadBack(i) \/ Evict(i)
Refresh(i) == RefreshRead(i) \/ RefreshApply(i)

Next ==
  \/ \E i \in Instance :
       \/ Calls(i) \/ Refresh(i)
       \/ CreateQueue(i) \/ UpdateQueue(i) \/ DeleteQueue(i) \/ Fetch(i)
  \/ \E j \in JobId : Send(j) \/ Settle(j)
  \/ Stats \/ Elsewhere

\* The supervisor and the cache intervals run, calls are answered, workers poll.
Fairness ==
  /\ WF_vars(Stats)
  /\ \A i \in Instance :
       WF_vars(Refresh(i)) /\ WF_vars(Calls(i)) /\ WF_vars(Fetch(i))

Spec == Init /\ [][Next]_vars
FairSpec == Spec /\ Fairness

-----------------------------------------------------------------------------
(* Properties.                                                              *)

\* Fewer than two wrong-empty reads never make a lookup deny a queue that was
\* there all along, nor make a refresh drop it from the cache.  (The read-back of
\* createQueue and updateQueue drops it after one; the next lookup finds it again.)
Corroborated == faults < 2 => wronged = {}

\* Once nobody changes the queue the caches agree with it: late answers, missed
\* updates and deleted queues do not stay.
Converges == <>[](\A i \in Instance : cache[i] \in {NoRow, row})

\* A waiting job whose key is free is fetched in the end: the jobs in front of it
\* whose key stays active do not hold it up for ever.
Waits(j) == job[j] = "waiting" /\ KeyOf[j] \notin ActiveKeys
NoHeadOfLine == \A j \in JobId : Waits(j) ~> ~Waits(j)
=============================================================================
