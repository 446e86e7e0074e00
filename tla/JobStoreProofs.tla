--------------------------- MODULE JobStoreProofs ---------------------------
(***************************************************************************)
(* Proofs about JobStore, for every set of queues, ids and keys, every     *)
(* configuration of the queues and every bound.                            *)
(*                                                                         *)
(* IndInv is inductive: each command keeps the shape of every row          *)
(* (RowInv), and no two rows clash in a unique index.  The commands that   *)
(* update rows in place are aborted by a violation; insert, delete and     *)
(* redrive have to be shown to avoid one, and so does the delete and       *)
(* re-insert of failing jobs (FailureFits).                                *)
(***************************************************************************)
EXTENDS JobStore, FiniteSetTheorems, TLAPS

-----------------------------------------------------------------------------
(* Rows.                                                                    *)

LEMMA StateSets ==
  /\ Pending = {"created", "retry"}
  /\ Live = {"created", "retry", "active"}
  /\ Settled = {"completed", "cancelled", "failed"}
  /\ JobState = Live \cup Settled
BY DEF Pending, Live, Settled, JobState

LEMMA NoRowInv == RowInv(NoRow)
BY NoneAssumption, StateSets, SMT DEF RowInv, NoRow, Row, NoSlot, LetterQueues

\* The rows of the three inserts.
LEMMA InsertedInv ==
  ASSUME NEW q \in Queue, NEW k \in Key \cup {None}, NEW s \in Slot \cup {NoSlot},
         NEW p \in PolicyName \cup {"null"}, NEW d \in LetterQueues \cup {None},
         NEW l \in Nat, NEW f \in Queue \cup {None}, NEW i \in JobId \cup {None},
         q \in LetterQueues \/ p = Policy[q]
  PROVE  RowInv(Inserted(q, k, s, p, d, l, f, i))
<1> DEFINE n == Inserted(q, k, s, p, d, l, f, i)
<1>1. n \in Row
  <2>1. "created" \in JobState \cup {"absent"} BY StateSets
  <2>2. d \in Queue \cup {None} BY ConfigAssumption DEF LetterQueues
  <2>. QED BY <2>1, <2>2 DEF Row, Inserted
<1>2. /\ n.state = "created" /\ n.queue = q /\ n.policy = p /\ n.dlq = d
      /\ n.started = FALSE /\ n.done = FALSE /\ n.retries = 0 /\ n.runs = 0
  BY DEF Inserted
<1>. QED BY <1>1, <1>2, StateSets DEF RowInv

LEMMA NewRowInv ==
  ASSUME NEW q \in Queue, NEW k \in Key, NEW s \in Slot \cup {NoSlot},
         NEW d \in JobDeadLetters \cup {None}
  PROVE  RowInv(NewRow(q, k, s, d))
<1>1. Supplied(d, DeadLetter[q]) \in LetterQueues \cup {None} BY DEF Supplied, LetterQueues
<1>. QED BY <1>1, InsertedInv, ConfigAssumption DEF NewRow

LEMMA RowFields ==
  ASSUME NEW r, RowInv(r), r.state # "absent"
  PROVE  /\ r.queue \in Queue /\ r.key \in Key \cup {None} /\ r.dlq \in LetterQueues \cup {None}
         /\ r.limit \in Nat /\ r.retries \in Nat /\ r.runs \in Nat
BY DEF RowInv, Row

LEMMA LetterInv ==
  ASSUME NEW r, RowInv(r), r.state # "absent", r.dlq # None, NEW i \in JobId
  PROVE  RowInv(Letter(r, i))
<1>1. r.dlq \in LetterQueues /\ r.dlq \in Queue BY RowFields, ConfigAssumption DEF LetterQueues
<1>. QED BY <1>1, RowFields, InsertedInv, ConfigAssumption DEF Letter

LEMMA RedrivenInv ==
  ASSUME NEW r, RowInv(r), r.state # "absent", NEW q \in Queue
  PROVE  RowInv(Redriven(r, q))
BY RowFields, InsertedInv, ConfigAssumption DEF Redriven

\* The rows that updates rewrite, and that a failing statement puts back.
LEMMA ActivatedInv ==
  ASSUME NEW r, RowInv(r), r.state \in Pending
  PROVE  RowInv(Activated(r))
<1> DEFINE c == IF r.started THEN r.retries + 1 ELSE r.retries
<1> DEFINE n == Activated(r)
<1>0. r \in Row BY DEF RowInv
<1>1. n \in Row
  <2>1. "active" \in JobState \cup {"absent"} BY StateSets
  <2>2. r.runs \in Nat /\ r.retries \in Nat BY <1>0 DEF Row
  <2>3. c \in Nat /\ r.runs + 1 \in Nat BY <2>2
  <2>4. n = [r EXCEPT !.state = "active", !.started = TRUE, !.runs = r.runs + 1, !.retries = c]
    BY DEF Activated
  <2>. HIDE DEF c, n
  <2>. QED BY <1>0, <2>1, <2>3, <2>4 DEF Row
<1>2. /\ n.state = "active" /\ n.queue = r.queue /\ n.policy = r.policy /\ n.dlq = r.dlq
      /\ n.started = TRUE /\ n.done = r.done /\ n.runs = r.runs + 1
      /\ n.retries = c
  BY <1>0 DEF Activated, Row
<1>3. r.runs \in Nat /\ r.retries \in Nat /\ r.started \in BOOLEAN BY <1>0 DEF Row
<1>4. r.state # "absent" /\ r.state \notin Settled BY StateSets
<1>. SUFFICES RowInv(n) OBVIOUS
<1>. HIDE DEF n
<1>5. n.state # "absent" /\ n.state \notin Settled BY <1>2, StateSets
<1>6. ~n.done
  <2>1. ~r.done BY <1>4, Zenon DEF RowInv
  <2>. QED BY <2>1, <1>2
<1>7. n.retries = IF n.runs = 0 THEN 0 ELSE n.runs - 1 BY <1>2, <1>3 DEF RowInv
<1>8. n.started <=> n.runs > 0 BY <1>2, <1>3
<1>9. n.queue \in Queue /\ n.dlq \in LetterQueues \cup {None} BY <1>2, <1>4 DEF RowInv
<1>10. n.queue \in Queue \ LetterQueues => n.policy = Policy[n.queue] BY <1>2 DEF RowInv
<1>11. n.state \notin {"retry", "failed"} BY <1>2
<1>. QED BY <1>1, <1>5, <1>6, <1>7, <1>8, <1>9, <1>10, <1>11 DEF RowInv

LEMMA SettledInv ==
  ASSUME NEW r, RowInv(r), r.state # "absent",
         NEW s \in JobState, NEW d \in BOOLEAN, d <=> s \in Settled, s \notin {"retry", "failed"}
  PROVE  RowInv([r EXCEPT !.state = s, !.done = d])
<1> DEFINE n == [r EXCEPT !.state = s, !.done = d]
<1>0. r \in Row BY DEF RowInv
<1>1. n \in Row BY <1>0 DEF Row
<1>2. /\ n.state = s /\ n.queue = r.queue /\ n.policy = r.policy /\ n.dlq = r.dlq
      /\ n.started = r.started /\ n.done = d /\ n.runs = r.runs /\ n.retries = r.retries
  BY <1>0 DEF Row
<1>3. s # "absent" BY StateSets
<1>. SUFFICES RowInv(n) OBVIOUS
<1>. HIDE DEF n
<1>4. n.done <=> n.state \in Settled BY <1>2
<1>5. n.started <=> n.runs > 0 BY <1>2 DEF RowInv
<1>6. n.state \notin {"retry", "failed"} BY <1>2
<1>. QED BY <1>1, <1>2, <1>3, <1>4, <1>5, <1>6 DEF RowInv

LEMMA PutBackInv ==
  ASSUME NEW r, RowInv(r), r.state # "absent",
         NEW s \in {"retry", "failed"}, NEW d \in BOOLEAN, d <=> s = "failed"
  PROVE  RowInv([r EXCEPT !.state = s, !.done = d, !.from = None, !.src = None])
<1> DEFINE n == [r EXCEPT !.state = s, !.done = d, !.from = None, !.src = None]
<1>0. r \in Row BY DEF RowInv
<1>1. n \in Row
  <2>1. s \in JobState \cup {"absent"} BY StateSets
  <2>. QED BY <1>0, <2>1 DEF Row
<1>2. /\ n.state = s /\ n.queue = r.queue /\ n.policy = r.policy /\ n.dlq = r.dlq
      /\ n.started = r.started /\ n.done = d /\ n.runs = r.runs /\ n.retries = r.retries
      /\ n.from = None /\ n.src = None
  BY <1>0 DEF Row
<1>3. s # "absent" OBVIOUS
<1>. SUFFICES RowInv(n) OBVIOUS
<1>. HIDE DEF n
<1>4. n.done <=> n.state \in Settled BY <1>2, StateSets
<1>5. n.started <=> n.runs > 0 BY <1>2 DEF RowInv
<1>. QED BY <1>1, <1>2, <1>3, <1>4, <1>5 DEF RowInv

LEMMA RewrittenInv ==
  ASSUME NEW r, RowInv(r), r.state # "absent"
  PROVE  /\ RowInv(Completed(r)) /\ RowInv(Cancelled(r)) /\ RowInv(Failed(r))
         /\ RowInv(Resumed(r)) /\ RowInv(Retried(r))
<1>1. /\ "completed" \in Settled /\ "cancelled" \in Settled /\ "created" \notin Settled
      /\ {"completed", "cancelled", "created"} \subseteq JobState
  BY StateSets
<1>2. RowInv(Completed(r)) /\ RowInv(Cancelled(r)) /\ RowInv(Resumed(r))
  BY <1>1, SettledInv DEF Completed, Cancelled, Resumed
<1>3. RowInv(Failed(r)) /\ RowInv(Retried(r)) BY PutBackInv DEF Failed, Retried
<1>. QED BY <1>2, <1>3

LEMMA UpdatedInv ==
  ASSUME NEW r, RowInv(r), NEW l \in Nat, NEW d \in LetterQueues \cup {None}, r.state # "absent"
  PROVE  RowInv([r EXCEPT !.limit = l, !.dlq = d])
<1> DEFINE n == [r EXCEPT !.limit = l, !.dlq = d]
<1>0. r \in Row BY DEF RowInv
<1>1. n \in Row
  <2>1. d \in Queue \cup {None} BY ConfigAssumption DEF LetterQueues
  <2>. QED BY <1>0, <2>1 DEF Row
<1>2. /\ n.state = r.state /\ n.queue = r.queue /\ n.policy = r.policy /\ n.dlq = d
      /\ n.started = r.started /\ n.done = r.done /\ n.runs = r.runs /\ n.retries = r.retries
      /\ n.from = r.from /\ n.src = r.src
  BY <1>0 DEF Row
<1>. SUFFICES RowInv(n) OBVIOUS
<1>. HIDE DEF n
<1>4. n.done <=> n.state \in Settled BY <1>2 DEF RowInv
<1>5. n.started <=> n.runs > 0 BY <1>2 DEF RowInv
<1>. QED BY <1>1, <1>2, <1>4, <1>5 DEF RowInv

\* A failed row already lost its source, so that retry() leaves a row without one.
LEMMA RetryingInv ==
  ASSUME NEW r, RowInv(r), r.state = "failed"
  PROVE  RowInv(Retrying(r))
<1> DEFINE n == Retrying(r)
<1>0. r \in Row BY DEF RowInv
<1>1. r.limit + 1 \in Nat BY <1>0 DEF Row
<1>2. n \in Row
  <2>1. "retry" \in JobState \cup {"absent"} BY StateSets
  <2>. QED BY <1>0, <1>1, <2>1 DEF Row, Retrying
<1>3. /\ n.state = "retry" /\ n.queue = r.queue /\ n.policy = r.policy /\ n.dlq = r.dlq
      /\ n.started = r.started /\ n.done = FALSE /\ n.runs = r.runs /\ n.retries = r.retries
      /\ n.from = r.from /\ n.src = r.src
  BY <1>0 DEF Row, Retrying
<1>. SUFFICES RowInv(n) OBVIOUS
<1>. HIDE DEF n
<1>4. n.done <=> n.state \in Settled BY <1>3, StateSets
<1>5. n.started <=> n.runs > 0 BY <1>3 DEF RowInv
<1>6. n.from = None /\ n.src = None BY <1>3 DEF RowInv
<1>. QED BY <1>2, <1>3, <1>4, <1>5, <1>6 DEF RowInv

-----------------------------------------------------------------------------
(* The unique indexes.                                                      *)

LEMMA ClashSymmetric == \A r, t : Clash(r, t) => Clash(t, r)
BY DEF Clash, Forbids, SharesSlot

\* An empty place clashes with nothing.
LEMMA NoRowFits == \A r : ~Clash(r, NoRow) /\ ~Clash(NoRow, r)
BY DEF Clash, NoRow

-----------------------------------------------------------------------------
(* The commands keep the invariant.                                         *)

LEMMA Absent == ASSUME IndInv, NEW i \in JobId, job[i].state = "absent" PROVE job[i] = NoRow
BY DEF IndInv, RowInv

LEMMA InFacts ==
  ASSUME IndInv, NEW q, NEW states, states \subseteq JobState, NEW i \in In(q, states)
  PROVE  i \in JobId /\ RowInv(job[i]) /\ job[i].state # "absent" /\ job[i].state \in states
BY StateSets DEF IndInv, In

LEMMA TableInv ==
  ASSUME NEW tab, job' = [i \in JobId |-> tab[i]],
         \A i \in JobId : RowInv(tab[i]), Unique(job')
  PROVE  IndInv'
<1>1. \A i \in JobId : job'[i] = tab[i] OBVIOUS
<1>2. \A i \in JobId : RowInv(job'[i]) BY <1>1
<1>3. job' \in [JobId -> Row] BY DEF RowInv
<1>. QED BY <1>2, <1>3 DEF IndInv

LEMMA CreateInv == IndInv /\ Create => IndInv'
<1>. SUFFICES ASSUME IndInv, NEW q \in Queue, NEW i \in Free, NEW k \in Key,
                     NEW s \in Slot \cup {NoSlot}, NEW nextSlot \in BOOLEAN,
                     NEW d \in JobDeadLetters \cup {None},
                     CreateJob(q, i, k, s, nextSlot, d)
              PROVE  IndInv'
  BY DEF Create
<1>1. PICK slot \in Slot \cup {NoSlot} :
        Fits(NewRow(q, k, slot, d), job) /\ job' = [job EXCEPT ![i] = NewRow(q, k, slot, d)]
  BY DEF CreateJob
<1>. DEFINE n == NewRow(q, k, slot, d)
<1>2. RowInv(n) BY NewRowInv
<1>. HIDE DEF n
<1>3. \A j \in JobId : RowInv(job'[j]) BY <1>1, <1>2 DEF IndInv, Free, n
<1>4. job' \in [JobId -> Row] BY <1>1, <1>2 DEF IndInv, RowInv, n
<1>5. Unique(job') BY <1>1, ClashSymmetric DEF IndInv, Unique, Fits, Free
<1>. QED BY <1>3, <1>4, <1>5 DEF IndInv

LEMMA FetchInv == IndInv /\ Fetch => IndInv'
<1>. SUFFICES ASSUME IndInv, NEW q \in Queue, NEW T \in Batches(In(q, Pending)), FetchNextJob(q, T)
              PROVE  IndInv'
  BY DEF Fetch
<1>. DEFINE after == [i \in JobId |-> IF i \in T THEN Activated(job[i]) ELSE job[i]]
<1>1. job' = after /\ Unique(after) /\ T \subseteq In(q, Pending) BY DEF FetchNextJob
<1>2. \A i \in T : RowInv(Activated(job[i])) BY <1>1, InFacts, ActivatedInv, StateSets
<1>3. \A i \in JobId : RowInv(after[i]) BY <1>2 DEF IndInv
<1>. HIDE DEF after
<1>. QED BY <1>1, <1>3, TableInv DEF after

LEMMA CompleteInv == IndInv /\ Complete => IndInv'
<1>. SUFFICES ASSUME IndInv, NEW q \in Queue, NEW includeQueued \in BOOLEAN,
                     NEW S \in Batches(In(q, Live)), CompleteJobs(q, S, includeQueued)
              PROVE  IndInv'
  BY DEF Complete
<1>. DEFINE after == [i \in JobId |-> IF i \in S THEN Completed(job[i]) ELSE job[i]]
<1>1. job' = after /\ Unique(after) /\ S \subseteq In(q, Live) BY DEF CompleteJobs, Rewrite, Batches
<1>2. \A i \in S : RowInv(Completed(job[i])) BY <1>1, InFacts, RewrittenInv, StateSets
<1>3. \A i \in JobId : RowInv(after[i]) BY <1>2 DEF IndInv
<1>. HIDE DEF after
<1>. QED BY <1>1, <1>3, TableInv DEF after

LEMMA CancelInv == IndInv /\ Cancel => IndInv'
<1>. SUFFICES ASSUME IndInv, NEW q \in Queue, NEW S \in Batches(In(q, Live)), CancelJobs(q, S)
              PROVE  IndInv'
  BY DEF Cancel
<1>. DEFINE after == [i \in JobId |-> IF i \in S THEN Cancelled(job[i]) ELSE job[i]]
<1>1. job' = after /\ Unique(after) /\ S \subseteq In(q, Live) BY DEF CancelJobs, Rewrite
<1>2. \A i \in S : RowInv(Cancelled(job[i])) BY <1>1, InFacts, RewrittenInv, StateSets
<1>3. \A i \in JobId : RowInv(after[i]) BY <1>2 DEF IndInv
<1>. HIDE DEF after
<1>. QED BY <1>1, <1>3, TableInv DEF after

LEMMA ResumeInv == IndInv /\ Resume => IndInv'
<1>. SUFFICES ASSUME IndInv, NEW q \in Queue, NEW S \in Batches(In(q, {"cancelled"})), ResumeJobs(q, S)
              PROVE  IndInv'
  BY DEF Resume
<1>. DEFINE after == [i \in JobId |-> IF i \in S THEN Resumed(job[i]) ELSE job[i]]
<1>1. job' = after /\ Unique(after) /\ S \subseteq In(q, {"cancelled"}) BY DEF ResumeJobs, Rewrite
<1>2. \A i \in S : RowInv(Resumed(job[i])) BY <1>1, InFacts, RewrittenInv, StateSets
<1>3. \A i \in JobId : RowInv(after[i]) BY <1>2 DEF IndInv
<1>. HIDE DEF after
<1>. QED BY <1>1, <1>3, TableInv DEF after

LEMMA RetryInv == IndInv /\ Retry => IndInv'
<1>. SUFFICES ASSUME IndInv, NEW q \in Queue, NEW S \in Batches(In(q, {"failed"})), RetryJobs(q, S)
              PROVE  IndInv'
  BY DEF Retry
<1>. DEFINE after == [i \in JobId |-> IF i \in S THEN Retrying(job[i]) ELSE job[i]]
<1>1. job' = after /\ Unique(after) /\ S \subseteq In(q, {"failed"}) BY DEF RetryJobs, Rewrite
<1>2. \A i \in S : RowInv(Retrying(job[i])) BY <1>1, InFacts, RetryingInv, StateSets
<1>3. \A i \in JobId : RowInv(after[i]) BY <1>2 DEF IndInv
<1>. HIDE DEF after
<1>. QED BY <1>1, <1>3, TableInv DEF after

LEMMA UpdateInv == IndInv /\ Update => IndInv'
<1>. SUFFICES ASSUME IndInv, NEW q \in Queue, NEW l \in UpdateLimits \cup {None},
                     NEW given \in BOOLEAN, NEW d, given => d \in UpdateDeadLetters,
                     NEW S \in Batches(In(q, Pending)), UpdateJob(q, S, l, given, d)
              PROVE  IndInv'
  BY DEF Update
<1>. DEFINE after == [i \in JobId |-> IF i \in S THEN Updated(job[i], l, given, d) ELSE job[i]]
<1>1. job' = after /\ Unique(after) /\ S \subseteq In(q, Pending) BY DEF UpdateJob, Rewrite
<1>2. \A i \in S : RowInv(Updated(job[i], l, given, d))
  <2>. SUFFICES ASSUME NEW i \in S PROVE RowInv(Updated(job[i], l, given, d)) OBVIOUS
  <2>1. RowInv(job[i]) /\ job[i].state # "absent" BY <1>1, InFacts, StateSets
  <2>2. Supplied(l, job[i].limit) \in Nat BY <2>1, RowFields, BoundAssumption DEF Supplied
  <2>3. (IF given THEN d ELSE job[i].dlq) \in LetterQueues \cup {None}
    BY <2>1, RowFields DEF LetterQueues
  <2>. QED BY <2>1, <2>2, <2>3, UpdatedInv DEF Updated
<1>3. \A i \in JobId : RowInv(after[i]) BY <1>2 DEF IndInv
<1>. HIDE DEF after
<1>. QED BY <1>1, <1>3, TableInv DEF after

LEMMA RemoveInv == ASSUME IndInv, NEW S, Remove(S) PROVE IndInv'
<1>1. \A i \in JobId : job'[i] = IF i \in S THEN NoRow ELSE job[i] BY DEF Remove
<1>2. Unique(job') BY <1>1, NoRowFits DEF IndInv, Unique
<1>3. \A i \in JobId : RowInv(job'[i]) BY <1>1, NoRowInv DEF IndInv
<1>4. job' \in [JobId -> Row] BY <1>3 DEF Remove, RowInv
<1>. QED BY <1>2, <1>3, <1>4 DEF IndInv

LEMMA DeleteInv == IndInv /\ Delete => IndInv'
BY RemoveInv DEF Delete, DeleteJobsById, Deletion, DeleteQueuedJobs, DeleteStoredJobs, DeleteAllJobs

LEMMA FailJobsInv ==
  ASSUME IndInv, NEW q \in Queue, NEW S, S \subseteq In(q, Live), NEW force, FailJobs(S, force)
  PROVE  IndInv'
<1>1. PICK R \in SUBSET S : \E g \in FreshIds(DeadLettered(S \ R)) :
          /\ Unique(WithLetters(Reinserted(S, R), g))
          /\ job' = WithLetters(Reinserted(S, R), g)
  BY DEF FailJobs
<1>2. PICK g \in FreshIds(DeadLettered(S \ R)) :
          /\ Unique(WithLetters(Reinserted(S, R), g))
          /\ job' = WithLetters(Reinserted(S, R), g)
  BY <1>1
<1>3. \A i \in S : i \in JobId /\ RowInv(job[i]) /\ job[i].state # "absent"
  BY InFacts, StateSets
<1>4. \A i \in JobId : RowInv(Reinserted(S, R)[i])
  BY <1>3, RewrittenInv DEF Reinserted, IndInv
<1>5. \A i \in JobId : RowInv(job'[i])
  <2>. SUFFICES ASSUME NEW i \in JobId PROVE RowInv(job'[i]) OBVIOUS
  <2>1. CASE i \in Free /\ g[i] # None
    <3>1. g[i] \in S /\ job[g[i]].dlq # None
      BY <2>1 DEF FreshIds, DeadLettered
    <3>2. job'[i] = Letter(job[g[i]], g[i]) BY <1>2, <2>1 DEF WithLetters
    <3>. QED BY <3>1, <3>2, <1>3, LetterInv
  <2>2. CASE ~(i \in Free /\ g[i] # None) BY <2>2, <1>2, <1>4 DEF WithLetters
  <2>. QED BY <2>1, <2>2
<1>6. job' \in [JobId -> Row] BY <1>2, <1>5 DEF WithLetters, RowInv
<1>. QED BY <1>2, <1>5, <1>6 DEF IndInv

LEMMA FailInv == IndInv /\ Fail => IndInv'
<1>. SUFFICES ASSUME IndInv, NEW q \in Queue, NEW S \in Batches(In(q, Live)),
                     \/ FailJobsById(q, S) \/ DeadLetterJobsById(q, S) \/ FailJobsByTimeout(q, S)
              PROVE  IndInv'
  BY DEF Fail
<1>1. S \subseteq In(q, Live) BY DEF Batches
<1>. QED BY <1>1, FailJobsInv DEF FailJobsById, DeadLetterJobsById, FailJobsByTimeout

LEMMA RedriveInv == IndInv /\ Redrive => IndInv'
<1>. SUFFICES ASSUME IndInv, NEW q \in Queue, NEW to \in Destinations,
                     NEW S \in Batches(In(q, Pending)), RedriveJobs(q, S, to)
              PROVE  IndInv'
  BY DEF Redrive
<1>. DEFINE row(i) == Redriven(job[i], Destination(i, to))
<1>1. S \subseteq In(q, Pending) /\ \A i \in S : Destination(i, to) # None
  BY DEF RedriveJobs
<1>2. PICK I \in SUBSET S :
        /\ \A i \in I : \A j \in (JobId \ S) : ~Clash(row(i), job[j])
        /\ \A i, j \in I : i # j => ~Clash(row(i), row(j))
        /\ \E g \in FreshIds(I) :
             job' = [i \in JobId |-> IF i \in Free /\ g[i] # None THEN row(g[i])
                                    ELSE IF i \in S THEN NoRow ELSE job[i]]
  BY DEF RedriveJobs
<1>3. PICK g \in FreshIds(I) :
        job' = [i \in JobId |-> IF i \in Free /\ g[i] # None THEN row(g[i])
                               ELSE IF i \in S THEN NoRow ELSE job[i]]
  BY <1>2
<1>4. \A i \in S : RowInv(row(i))
  <2>. SUFFICES ASSUME NEW i \in S PROVE RowInv(row(i)) OBVIOUS
  <2>1. RowInv(job[i]) /\ job[i].state # "absent" BY <1>1, InFacts, StateSets
  <2>2. job[i].from \in Queue \cup {None} BY <2>1 DEF RowInv, Row
  <2>3. Destination(i, to) \in Queue BY <1>1, <2>2, ConfigAssumption DEF Destination
  <2>. QED BY <2>1, <2>3, RedrivenInv
<1>5. \A i \in Free : g[i] # None => g[i] \in I BY DEF FreshIds
<1>6. \A i, j \in Free : g[i] = g[j] /\ g[i] # None => i = j BY <1>5 DEF FreshIds
<1>. HIDE DEF row
<1>7. \A i \in JobId : RowInv(job'[i]) BY <1>3, <1>4, <1>5, NoRowInv DEF IndInv
<1>8. job' \in [JobId -> Row] BY <1>3, <1>7 DEF RowInv
<1>9. Unique(job')
  <2>. SUFFICES ASSUME NEW i \in JobId, NEW j \in JobId, i # j PROVE ~Clash(job'[i], job'[j])
    BY DEF Unique
  <2>. DEFINE New(x) == x \in Free /\ g[x] # None
  <2>1. CASE New(i) /\ New(j) BY <2>1, <1>2, <1>3, <1>5, <1>6
  <2>2. CASE New(i) /\ ~New(j) BY <2>2, <1>2, <1>3, <1>5, NoRowFits
  <2>3. CASE ~New(i) /\ New(j) BY <2>3, <1>2, <1>3, <1>5, NoRowFits, ClashSymmetric
  <2>4. CASE ~New(i) /\ ~New(j) BY <2>4, <1>3, NoRowFits DEF IndInv, Unique
  <2>. QED BY <2>1, <2>2, <2>3, <2>4
<1>. QED BY <1>7, <1>8, <1>9 DEF IndInv

LEMMA InitInv == Init => IndInv
BY NoRowInv, NoRowFits DEF Init, IndInv, RowInv, Unique

LEMMA StepInv == IndInv /\ [Next]_job => IndInv'
<1>1. IndInv /\ UNCHANGED job => IndInv' BY DEF IndInv, Unique
<1>. QED BY <1>1, CreateInv, FetchInv, CompleteInv, CancelInv, ResumeInv, RetryInv, UpdateInv,
            FailInv, DeleteInv, RedriveInv DEF Next

-----------------------------------------------------------------------------
(* The theorems.                                                            *)

\* Every reachable table satisfies the inductive invariant.
THEOREM Invariance == Spec => []IndInv
BY InitInv, StepInv, PTL DEF Spec

\* The table always holds rows of the declared shape.
THEOREM TypeCorrect == Spec => []TypeOK
<1>1. IndInv => TypeOK BY DEF IndInv, TypeOK
<1>. QED BY <1>1, Invariance, PTL

\* Whatever path brought jobs to their states, a queue that receives no dead
\* letters never has two jobs of one key that its policy forbids together.
THEOREM PolicyHolds == Spec => []PolicyUpheld
<1>1. IndInv => PolicyUpheld
  <2>. SUFFICES ASSUME IndInv, NEW i \in JobId, NEW j \in JobId, i # j,
                       job[i].queue = job[j].queue, job[i].key = job[j].key,
                       job[i].queue \in Queue \ LetterQueues
                PROVE  ~Forbids(Policy[job[i].queue], job[i].state, job[j].state)
    BY DEF PolicyUpheld
  <2>1. job[i].policy = Policy[job[i].queue] /\ job[j].policy = Policy[job[i].queue]
    BY DEF IndInv, RowInv
  <2>2. ~Clash(job[i], job[j]) BY DEF IndInv, Unique
  <2>. QED BY <2>1, <2>2, NoneAssumption DEF Clash
<1>. QED BY <1>1, Invariance, PTL

\* A key holds a throttling slot of its queue once, in every reachable table.
THEOREM ThrottleHolds == Spec => []ThrottleUpheld
<1>1. IndInv => ThrottleUpheld
  <2>. SUFFICES ASSUME IndInv, NEW i \in JobId, NEW j \in JobId, i # j,
                       job[i].queue = job[j].queue, job[i].key = job[j].key
                PROVE  ~SharesSlot(job[i], job[j])
    BY DEF ThrottleUpheld
  <2>1. ~Clash(job[i], job[j]) BY DEF IndInv, Unique
  <2>2. CASE job[i].queue # None BY <2>1, <2>2 DEF Clash
  <2>3. CASE job[i].queue = None
    <3>1. job[i] = NoRow BY <2>3, NoneAssumption DEF IndInv, RowInv
    <3>. QED BY <3>1 DEF SharesSlot, NoRow
  <2>. QED BY <2>2, <2>3
<1>. QED BY <1>1, Invariance, PTL

\* completed_on is set exactly on settled jobs.
THEOREM CompletedOnCorrect == Spec => []CompletedOnMatches
<1>1. IndInv => CompletedOnMatches BY DEF IndInv, RowInv, CompletedOnMatches
<1>. QED BY <1>1, Invariance, PTL

\* retry_count counts the fetches after the first.
THEOREM RetryCountCorrect == Spec => []RetryCountExact
<1>1. IndInv => RetryCountExact BY DEF IndInv, RowInv, RetryCountExact
<1>. QED BY <1>1, Invariance, PTL

\* A failed row gives up every policy and keeps only the slot it already held.
LEMMA FailedFits ==
  ASSUME NEW r \in Row, NEW t \in Row, r.state \in Live, ~Clash(r, t)
  PROVE  /\ ~Clash(Failed(r), t)
         /\ t.state \in Live => /\ ~Clash(Failed(r), Failed(t))
                               /\ ~Clash(Failed(r), Retried(t))
<1>1. /\ Failed(r).queue = r.queue /\ Failed(r).key = r.key /\ Failed(r).slot = r.slot
      /\ Failed(r).policy = r.policy /\ Failed(r).state = "failed"
  BY DEF Failed, Row
<1>2. /\ Failed(t).queue = t.queue /\ Failed(t).key = t.key /\ Failed(t).slot = t.slot
      /\ Failed(t).policy = t.policy /\ Failed(t).state = "failed"
  BY DEF Failed, Row
<1>3. /\ Retried(t).queue = t.queue /\ Retried(t).key = t.key /\ Retried(t).slot = t.slot
      /\ Retried(t).policy = t.policy /\ Retried(t).state = "retry"
  BY DEF Retried, Row
<1>4. \A p, s : ~Forbids(p, "failed", s) BY StateSets DEF Forbids
<1>5. r.state # "cancelled" BY StateSets
<1>. QED
  <2>1. ~Clash(Failed(r), t) BY <1>1, <1>4, <1>5 DEF Clash, SharesSlot
  <2>2. ASSUME t.state \in Live
        PROVE  ~Clash(Failed(r), Failed(t)) /\ ~Clash(Failed(r), Retried(t))
    <3>1. t.state # "cancelled" BY <2>2, StateSets
    <3>. QED BY <1>1, <1>2, <1>3, <1>4, <1>5, <3>1 DEF Clash, SharesSlot
  <2>. QED BY <2>1, <2>2

\* A dead letter is in nobody's way: it has neither a policy nor a slot.
LEMMA LetterFits == \A r, i, t : ~Clash(Letter(r, i), t)
BY DEF Clash, Letter, Inserted, Forbids, SharesSlot

\* Failing jobs never meets a unique violation, in any batch and with any order
\* of the sub-statements, so jobs can always fail and expire.
THEOREM FailureFits == Spec => []FailNeverConflicts
<1>1. IndInv => FailNeverConflicts
  <2>. SUFFICES ASSUME IndInv, NEW q \in Queue, NEW S \in Batches(In(q, Live)),
                       NEW force \in BOOLEAN, NEW R \in SUBSET S, RetryOutcome(S, R, force)
                PROVE  /\ Unique(Reinserted(S, R))
                       /\ \A i \in DeadLettered(S \ R) : Fits(Letter(job[i], i), Reinserted(S, R))
    BY DEF FailNeverConflicts
  <2>1. \A i \in S : i \in JobId /\ job[i].state \in Live
    BY InFacts, StateSets DEF Batches
  <2>2. \A i \in JobId : job[i] \in Row BY DEF IndInv
  <2>3. \A i, j \in JobId : i # j => ~Clash(job[i], job[j]) BY DEF IndInv, Unique
  <2>4. \A i \in R : \A j \in (JobId \ S) : ~Clash(Retried(job[i]), job[j]) BY DEF RetryOutcome
  <2>5. \A i, j \in R : i # j => ~Clash(Retried(job[i]), Retried(job[j])) BY DEF RetryOutcome
  <2>6. Unique(Reinserted(S, R))
    <3>. SUFFICES ASSUME NEW i \in JobId, NEW j \in JobId, i # j
                  PROVE  ~Clash(Reinserted(S, R)[i], Reinserted(S, R)[j])
      BY DEF Unique
    <3>. DEFINE a(x) == IF x \in R THEN Retried(job[x])
                        ELSE IF x \in S THEN Failed(job[x]) ELSE job[x]
    <3>0. Reinserted(S, R)[i] = a(i) /\ Reinserted(S, R)[j] = a(j) BY DEF Reinserted
    <3>1. CASE i \in S \ R
      BY <3>1, <3>0, <2>1, <2>2, <2>3, FailedFits
    <3>2. CASE j \in S \ R
      BY <3>2, <3>0, <2>1, <2>2, <2>3, FailedFits, ClashSymmetric
    <3>3. CASE i \notin S \ R /\ j \notin S \ R
      BY <3>3, <3>0, <2>3, <2>4, <2>5, ClashSymmetric
    <3>. QED BY <3>1, <3>2, <3>3
  <2>7. \A i \in DeadLettered(S \ R) : Fits(Letter(job[i], i), Reinserted(S, R))
    BY LetterFits DEF Fits
  <2>. QED BY <2>6, <2>7
<1>. QED BY <1>1, Invariance, PTL

-----------------------------------------------------------------------------
(* Failing and dead letters, step by step.                                  *)

\* What one step may do to a row other than by failing it.
LEMMA NotFailed ==
  ASSUME NEW i \in JobId,
         \/ job[i].state \notin Live
         \/ job'[i].state = job[i].state
         \/ job'[i].state \notin {"failed", "retry"}
  PROVE  ~FailsIn(i)
BY StateSets DEF FailsIn

LEMMA RewrittenState ==
  ASSUME NEW r, RowInv(r)
  PROVE  /\ Activated(r).state = "active" /\ Completed(r).state = "completed"
         /\ Cancelled(r).state = "cancelled" /\ Failed(r).state = "failed"
         /\ Resumed(r).state = "created" /\ Retried(r).state = "retry"
         /\ \A l, given, d : Updated(r, l, given, d).state = r.state
<1>1. r \in Row BY DEF RowInv
<1>. QED BY <1>1 DEF Row, Activated, Completed, Cancelled, Failed, Resumed, Retried, Updated

\* What rewriting a row does to its source.
LEMMA RewrittenSource ==
  ASSUME NEW r, RowInv(r)
  PROVE  /\ Activated(r).src = r.src /\ Completed(r).src = r.src /\ Cancelled(r).src = r.src
         /\ Resumed(r).src = r.src /\ Retrying(r).src = r.src
         /\ Activated(r).from = r.from /\ Completed(r).from = r.from
         /\ Cancelled(r).from = r.from /\ Resumed(r).from = r.from /\ Retrying(r).from = r.from
         /\ \A l, given, d : /\ Updated(r, l, given, d).src = r.src
                              /\ Updated(r, l, given, d).from = r.from
         /\ Failed(r).src = None /\ Retried(r).src = None
         /\ Failed(r).from = None /\ Retried(r).from = None
<1>1. r \in Row BY DEF RowInv
<1>. QED BY <1>1 DEF Row, Activated, Completed, Cancelled, Failed, Resumed, Retried, Retrying,
                     Updated

\* The step of an update: d is the dead letter queue the caller names, where given.
LEMMA UpdateStep ==
  ASSUME Update
  PROVE  \E q \in Queue, given \in BOOLEAN : \E l, d : \E S \in SUBSET In(q, Pending) :
           /\ given => d \in UpdateDeadLetters
           /\ job' = [j \in JobId |-> IF j \in S THEN Updated(job[j], l, given, d) ELSE job[j]]
<1> DEFINE New(S, l, given, d) ==
             [j \in JobId |-> IF j \in S THEN Updated(job[j], l, given, d) ELSE job[j]]
<1>1. PICK q \in Queue, l \in UpdateLimits \cup {None} : \E S \in Batches(In(q, Pending)) :
        \/ UpdateJob(q, S, l, FALSE, None)
        \/ \E d \in UpdateDeadLetters : UpdateJob(q, S, l, TRUE, d)
  BY DEF Update
<1>2. PICK S \in Batches(In(q, Pending)) :
        \/ UpdateJob(q, S, l, FALSE, None)
        \/ \E d \in UpdateDeadLetters : UpdateJob(q, S, l, TRUE, d)
  BY <1>1
<1>3. PICK given \in BOOLEAN : \E d : /\ given => d \in UpdateDeadLetters
                                     /\ UpdateJob(q, S, l, given, d)
  <2>1. CASE UpdateJob(q, S, l, FALSE, None) BY <2>1
  <2>2. CASE \E d \in UpdateDeadLetters : UpdateJob(q, S, l, TRUE, d) BY <2>2
  <2>. QED BY <1>2, <2>1, <2>2
<1>4. PICK d : (given => d \in UpdateDeadLetters) /\ UpdateJob(q, S, l, given, d)
  BY <1>3
<1>5. /\ S \in SUBSET In(q, Pending)
      /\ job' = New(S, l, given, d)
  BY <1>4 DEF UpdateJob, Rewrite
<1>. HIDE DEF New
<1>6. \E k, e : \E T \in SUBSET In(q, Pending) :
        (given => e \in UpdateDeadLetters) /\ job' = New(T, k, given, e)
  BY <1>4, <1>5, Zenon
<1>. QED BY <1>6, Zenon DEF New

LEMMA OnlyFailFails ==
  ASSUME IndInv, Next, ~Fail
  PROVE  \A i \in JobId : ~FailsIn(i)
<1>0. \A i \in JobId : RowInv(job[i]) BY DEF IndInv
<1>1. CASE Create BY <1>1, NotFailed, StateSets DEF Create, CreateJob, Free, IndInv
<1>2. CASE Fetch
  BY <1>0, <1>2, NotFailed, RewrittenState DEF Fetch, FetchNextJob
<1>3. CASE Complete
  BY <1>0, <1>3, NotFailed, RewrittenState DEF Complete, CompleteJobs, Rewrite
<1>4. CASE Cancel
  BY <1>0, <1>4, NotFailed, RewrittenState DEF Cancel, CancelJobs, Rewrite
<1>5. CASE Resume
  BY <1>0, <1>5, NotFailed, RewrittenState DEF Resume, ResumeJobs, Rewrite
<1>6. CASE Retry
  <2>1. PICK q \in Queue : \E S \in SUBSET In(q, {"failed"}) :
          job' = [i \in JobId |-> IF i \in S THEN Retrying(job[i]) ELSE job[i]]
    BY <1>6 DEF Retry, RetryJobs, Rewrite
  <2>2. \A i \in In(q, {"failed"}) : job[i].state \notin Live BY StateSets DEF In
  <2>. QED BY <2>1, <2>2, NotFailed
<1>7. CASE Update BY <1>0, <1>7, UpdateStep, NotFailed, RewrittenState
<1>8. CASE Delete
  BY <1>8, NotFailed DEF Delete, DeleteJobsById, Deletion, DeleteQueuedJobs, DeleteStoredJobs,
                         DeleteAllJobs, Remove, NoRow
<1>9. CASE Redrive
  BY <1>9, NotFailed, StateSets DEF Redrive, RedriveJobs, Free, NoRow
<1>. QED BY <1>1, <1>2, <1>3, <1>4, <1>5, <1>6, <1>7, <1>8, <1>9 DEF Next

\* The step of a failing statement: S are its rows, R those put back to retry,
\* and g names the failed job that each fresh id copies.
LEMMA FailStep ==
  ASSUME IndInv, Fail
  PROVE  \E q \in Queue : \E S \in SUBSET In(q, Live) : \E R \in SUBSET S :
           \E g \in FreshIds(DeadLettered(S \ R)) : job' = WithLetters(Reinserted(S, R), g)
<1>1. PICK q \in Queue : \E S \in SUBSET In(q, Live), force \in BOOLEAN : FailJobs(S, force)
  <2>1. PICK q \in Queue : \E S \in Batches(In(q, Live)) :
          FailJobsById(q, S) \/ DeadLetterJobsById(q, S) \/ FailJobsByTimeout(q, S)
    BY DEF Fail
  <2>2. PICK S \in Batches(In(q, Live)) :
          FailJobsById(q, S) \/ DeadLetterJobsById(q, S) \/ FailJobsByTimeout(q, S)
    BY <2>1
  <2>3. S \in SUBSET In(q, Live) BY DEF Batches
  <2>4. FailJobs(S, FALSE) \/ FailJobs(S, TRUE)
    BY <2>2 DEF FailJobsById, DeadLetterJobsById, FailJobsByTimeout
  <2>. QED BY <2>3, <2>4
<1>2. PICK S \in SUBSET In(q, Live), force \in BOOLEAN : FailJobs(S, force) BY <1>1
<1>. QED BY <1>2 DEF FailJobs

LEMMA SameIdentity ==
  ASSUME NEW r \in Row
  PROVE  Identity(Failed(r)) = Identity(r) /\ Identity(Retried(r)) = Identity(r)
BY DEF Identity, Failed, Retried, Row

\* A failing statement loses no job, and what it puts back is the job it took, but
\* for its source.
THEOREM FailureKeepsJobs == Spec => FailKeepsJobs
<1>1. IndInv /\ [Next]_job => [KeepsJobs]_job
  <2>. SUFFICES ASSUME IndInv, Next PROVE KeepsJobs BY DEF KeepsJobs
  <2>1. CASE ~Fail BY <2>1, OnlyFailFails DEF KeepsJobs
  <2>2. CASE Fail
    <3>1. PICK q \in Queue : \E S \in SUBSET In(q, Live) : \E R \in SUBSET S :
            \E g \in FreshIds(DeadLettered(S \ R)) : job' = WithLetters(Reinserted(S, R), g)
      BY <2>2, FailStep
    <3>2. PICK S \in SUBSET In(q, Live) : \E R \in SUBSET S :
            \E g \in FreshIds(DeadLettered(S \ R)) : job' = WithLetters(Reinserted(S, R), g)
      BY <3>1
    <3>. SUFFICES ASSUME NEW i \in JobId, job[i].state # "absent"
                  PROVE  Identity(job'[i]) = Identity(job[i])
      BY DEF KeepsJobs
    <3>3. \/ job'[i] = job[i] \/ job'[i] = Failed(job[i]) \/ job'[i] = Retried(job[i])
      BY <3>2 DEF WithLetters, Reinserted, Free
    <3>4. job[i] \in Row BY DEF IndInv
    <3>. QED BY <3>3, <3>4, SameIdentity
  <2>. QED BY <2>1, <2>2
<1>. QED BY <1>1, Invariance, PTL DEF Spec, FailKeepsJobs

\* Commands other than the failing statements leave the source of a stored row alone.
LEMMA OthersKeepSources ==
  ASSUME IndInv, Next, ~Fail, NEW i \in JobId, job[i].src # None, job'[i].state # "absent"
  PROVE  job'[i].from = job[i].from /\ job'[i].src = job[i].src
<1>0. /\ RowInv(job[i]) /\ job[i].state # "absent"
      /\ i \notin Free
  BY Absent DEF IndInv, NoRow, Free
<1>1. CASE Create BY <1>0, <1>1 DEF Create, CreateJob, IndInv
<1>2. CASE Fetch BY <1>0, <1>2, RewrittenSource DEF Fetch, FetchNextJob
<1>3. CASE Complete BY <1>0, <1>3, RewrittenSource DEF Complete, CompleteJobs, Rewrite
<1>4. CASE Cancel BY <1>0, <1>4, RewrittenSource DEF Cancel, CancelJobs, Rewrite
<1>5. CASE Resume BY <1>0, <1>5, RewrittenSource DEF Resume, ResumeJobs, Rewrite
<1>6. CASE Retry BY <1>0, <1>6, RewrittenSource DEF Retry, RetryJobs, Rewrite
<1>7. CASE Update BY <1>0, <1>7, UpdateStep, RewrittenSource
<1>8. CASE Delete
  BY <1>8 DEF Delete, DeleteJobsById, Deletion, DeleteQueuedJobs, DeleteStoredJobs,
              DeleteAllJobs, Remove, NoRow
<1>9. CASE Redrive BY <1>0, <1>9 DEF Redrive, RedriveJobs, NoRow
<1>. QED BY <1>1, <1>2, <1>3, <1>4, <1>5, <1>6, <1>7, <1>8, <1>9 DEF Next

\* A stored letter loses its source by failing, and in no other way.
THEOREM SourcesAreKept == Spec => SourcesLastUntilFailure
<1>1. IndInv /\ [Next]_job => [KeepsSources]_job
  <2>. SUFFICES ASSUME IndInv, Next, NEW i \in JobId, job[i].src # None, job'[i].state # "absent"
                PROVE  <<job'[i].from, job'[i].src>> =
                         IF FailsIn(i) THEN <<None, None>> ELSE <<job[i].from, job[i].src>>
    BY DEF KeepsSources
  <2>1. CASE ~Fail BY <2>1, OnlyFailFails, OthersKeepSources
  <2>2. CASE Fail
    <3>1. PICK q \in Queue : \E S \in SUBSET In(q, Live) : \E R \in SUBSET S :
            \E g \in FreshIds(DeadLettered(S \ R)) : job' = WithLetters(Reinserted(S, R), g)
      BY <2>2, FailStep
    <3>2. PICK S \in SUBSET In(q, Live) : \E R \in SUBSET S :
            \E g \in FreshIds(DeadLettered(S \ R)) : job' = WithLetters(Reinserted(S, R), g)
      BY <3>1
    <3>3. PICK R \in SUBSET S :
            \E g \in FreshIds(DeadLettered(S \ R)) : job' = WithLetters(Reinserted(S, R), g)
      BY <3>2
    <3>4. RowInv(job[i]) /\ job[i].state \notin {"absent", "retry"}
      BY Absent DEF IndInv, RowInv, NoRow
    <3>5. i \notin Free BY <3>4 DEF Free
    <3>6. job'[i] = IF i \in R THEN Retried(job[i])
                    ELSE IF i \in S THEN Failed(job[i]) ELSE job[i]
      BY <3>3, <3>5 DEF WithLetters, Reinserted
    <3>7. CASE i \in S
      <4>1. job[i].state \in Live BY <3>7, InFacts, StateSets
      <4>2. FailsIn(i) BY <3>4, <3>6, <3>7, <4>1, RewrittenState DEF FailsIn
      <4>3. job'[i].from = None /\ job'[i].src = None BY <3>4, <3>6, <3>7, RewrittenSource
      <4>. QED BY <4>2, <4>3
    <3>8. CASE i \notin S
      <4>1. job'[i] = job[i] BY <3>6, <3>8
      <4>2. ~FailsIn(i) BY <3>4, <4>1, StateSets DEF FailsIn
      <4>. QED BY <4>1, <4>2
    <3>. QED BY <3>7, <3>8
  <2>. QED BY <2>1, <2>2
<1>. QED BY <1>1, Invariance, PTL DEF Spec, SourcesLastUntilFailure

\* No other command writes a dead letter.
LEMMA OnlyFailWritesLetters ==
  ASSUME IndInv, Next, ~Fail
  PROVE  \A i \in JobId : NewLetters(i) = {}
<1>. SUFFICES ASSUME NEW i \in JobId, NEW x \in JobId, job[x].state = "absent", job'[x].src = i
              PROVE  FALSE
  BY DEF NewLetters
<1>. SUFFICES job'[x].src = None BY NoneAssumption
<1>0. job[x] = NoRow /\ job[x].src = None
  <2>1. job[x] = NoRow BY Absent
  <2>. QED BY <2>1 DEF NoRow
<1>1. \A q \in Queue : \A states : states \subseteq JobState => x \notin In(q, states)
  BY StateSets DEF In
<1>2. CASE Create
  <2>1. PICK q \in Queue, k \in Key, s \in Slot \cup {NoSlot}, n \in BOOLEAN :
          \E d \in JobDeadLetters \cup {None}, y \in Free : CreateJob(q, y, k, s, n, d)
    BY <1>2 DEF Create
  <2>. QED BY <2>1, <1>0 DEF CreateJob, NewRow, Inserted, Free, IndInv
<1>3. CASE Fetch
  BY <1>0, <1>1, <1>3, StateSets DEF Fetch, FetchNextJob, Batches
<1>4. CASE Complete
  BY <1>0, <1>1, <1>4, StateSets DEF Complete, CompleteJobs, Rewrite, Batches
<1>5. CASE Cancel
  BY <1>0, <1>1, <1>5, StateSets DEF Cancel, CancelJobs, Rewrite
<1>6. CASE Resume
  BY <1>0, <1>1, <1>6, StateSets DEF Resume, ResumeJobs, Rewrite
<1>7. CASE Retry
  BY <1>0, <1>1, <1>7, StateSets DEF Retry, RetryJobs, Rewrite
<1>8. CASE Update
  BY <1>0, <1>1, <1>8, StateSets DEF Update, UpdateJob, Rewrite
<1>9. CASE Delete
  BY <1>0, <1>9 DEF Delete, DeleteJobsById, Deletion, DeleteQueuedJobs, DeleteStoredJobs,
                    DeleteAllJobs, Remove, NoRow
<1>10. CASE Redrive
  BY <1>0, <1>10 DEF Redrive, RedriveJobs, Redriven, Inserted, NoRow
<1>. QED BY <1>2, <1>3, <1>4, <1>5, <1>6, <1>7, <1>8, <1>9, <1>10 DEF Next

\* A job that ends as failed is copied to its dead letter queue exactly once,
\* and nothing else writes a copy of a job.
THEOREM LettersMatch == Spec => LettersMatchFailures
<1>1. IndInv /\ [Next]_job => [MatchesLetters]_job
  <2>. SUFFICES ASSUME IndInv, Next, NEW i \in JobId
                PROVE  Cardinality(NewLetters(i)) =
                         IF FailsIn(i) /\ job'[i].state = "failed" /\ job[i].dlq # None THEN 1 ELSE 0
    BY DEF MatchesLetters
  <2>1. CASE ~Fail BY <2>1, OnlyFailFails, OnlyFailWritesLetters, FS_EmptySet
  <2>2. CASE Fail
    <3>1. PICK q \in Queue : \E S \in SUBSET In(q, Live) : \E R \in SUBSET S :
            \E g \in FreshIds(DeadLettered(S \ R)) : job' = WithLetters(Reinserted(S, R), g)
      BY <2>2, FailStep
    <3>. PICK S \in SUBSET In(q, Live) : \E R \in SUBSET S :
            \E g \in FreshIds(DeadLettered(S \ R)) : job' = WithLetters(Reinserted(S, R), g)
      BY <3>1
    <3>2. PICK R \in SUBSET S :
            \E g \in FreshIds(DeadLettered(S \ R)) : job' = WithLetters(Reinserted(S, R), g)
      OBVIOUS
    <3>3. PICK g \in FreshIds(DeadLettered(S \ R)) : job' = WithLetters(Reinserted(S, R), g)
      BY <3>2
    <3>4. NewLetters(i) = {x \in Free : g[x] = i}
      <4>1. ASSUME NEW x \in Free PROVE job'[x].src = i <=> g[x] = i
        <5>1. x \in JobId /\ x \notin S /\ job[x] = NoRow
          BY InFacts, Absent, StateSets DEF Free
        <5>2. g[x] # None => job'[x] = Letter(job[g[x]], g[x])
          BY <3>3, <4>1, <5>1 DEF WithLetters
        <5>3. g[x] = None => job'[x] = NoRow BY <3>3, <5>1 DEF WithLetters, Reinserted
        <5>. QED BY <5>2, <5>3, NoneAssumption DEF Letter, Inserted, NoRow
      <4>. QED BY <4>1 DEF NewLetters, Free
    <3>5. i \in S => i \notin Free /\ job[i].state \in Live /\ RowInv(job[i])
      BY InFacts, StateSets DEF Free
    <3>6. FailsIn(i) /\ job'[i].state = "failed" <=> i \in S \ R
      <4>1. CASE i \in S \ R
        <5>1. job'[i] = Failed(job[i]) BY <3>3, <3>5, <4>1 DEF WithLetters, Reinserted
        <5>. QED BY <4>1, <5>1, <3>5, RewrittenState DEF FailsIn
      <4>2. CASE i \in R
        <5>1. job'[i] = Retried(job[i]) BY <3>3, <3>5, <4>2 DEF WithLetters, Reinserted
        <5>. QED BY <4>2, <5>1, <3>5, RewrittenState DEF FailsIn
      <4>3. CASE i \notin S
        <5>1. i \notin Free => job'[i] = job[i] BY <3>3, <4>3 DEF WithLetters, Reinserted
        <5>. QED BY <4>3, <5>1, StateSets DEF FailsIn, Free
      <4>. QED BY <4>1, <4>2, <4>3
    <3>7. CASE i \in DeadLettered(S \ R)
      <4>1. PICK x \in Free : {y \in Free : g[y] = i} = {x} BY <3>7 DEF FreshIds
      <4>. QED BY <4>1, <3>4, <3>6, <3>7, FS_Singleton DEF DeadLettered
    <3>8. CASE i \notin DeadLettered(S \ R)
      <4>1. {y \in Free : g[y] = i} = {} BY <3>8, NoneAssumption DEF FreshIds
      <4>. QED BY <4>1, <3>4, <3>6, <3>8, FS_EmptySet DEF DeadLettered
    <3>. QED BY <3>7, <3>8
  <2>. QED BY <2>1, <2>2
<1>. QED BY <1>1, Invariance, PTL DEF Spec, LettersMatchFailures

-----------------------------------------------------------------------------
(* What redrive() and update() cost: DeadLetterHonoured holds of the queues  *)
(* that nobody redrives to while no update takes a dead letter queue away.   *)

\* A queue that gets its jobs from send() alone.
Fed(q) == q \in Queue \ (LetterQueues \cup Destinations)

\* Its jobs know its dead letter queue, or one they were given instead.
Knows(r) ==
  r.state # "absent" /\ Fed(r.queue) /\ DeadLetter[r.queue] # None => r.dlq # None
AllKnow == \A i \in JobId : Knows(job[i])

\* As DeadLetterHonoured, of the jobs of such a queue.
HonouredWhereFed ==
  \A i \in JobId :
    /\ Fed(job[i].queue) /\ DeadLetter[job[i].queue] # None
    /\ FailsIn(i) /\ job'[i].state = "failed"
    => NewLetters(i) # {}

LEMMA NoRowKnows == Knows(NoRow)
BY DEF Knows, NoRow

LEMMA NewRowKnows ==
  ASSUME NEW q \in Queue, NEW k, NEW s, NEW d
  PROVE  Knows(NewRow(q, k, s, d))
BY DEF Knows, NewRow, Inserted, Supplied

\* A command that rewrites a row leaves its queue and its dead letter queue alone.
LEMMA RewrittenKnows ==
  ASSUME NEW r, RowInv(r), r.state # "absent", Knows(r)
  PROVE  /\ Knows(Activated(r)) /\ Knows(Completed(r)) /\ Knows(Cancelled(r))
         /\ Knows(Failed(r)) /\ Knows(Resumed(r)) /\ Knows(Retried(r)) /\ Knows(Retrying(r))
<1>1. r \in Row BY DEF RowInv
<1>2. ASSUME NEW t, t.queue = r.queue, t.dlq = r.dlq PROVE Knows(t)
  BY <1>2 DEF Knows
<1>3. /\ Activated(r).queue = r.queue /\ Activated(r).dlq = r.dlq
      /\ Completed(r).queue = r.queue /\ Completed(r).dlq = r.dlq
      /\ Cancelled(r).queue = r.queue /\ Cancelled(r).dlq = r.dlq
      /\ Failed(r).queue = r.queue /\ Failed(r).dlq = r.dlq
      /\ Resumed(r).queue = r.queue /\ Resumed(r).dlq = r.dlq
      /\ Retried(r).queue = r.queue /\ Retried(r).dlq = r.dlq
  BY <1>1 DEF Row, Activated, Completed, Cancelled, Failed, Resumed, Retried
<1>4. Retrying(r).queue = r.queue /\ Retrying(r).dlq = r.dlq
  BY <1>1 DEF Row, Retrying
<1>. QED BY <1>2, <1>3, <1>4

\* An update that names no null replaces the dead letter queue at most.
LEMMA UpdatedKnows ==
  ASSUME NEW r, RowInv(r), r.state # "absent", Knows(r), NEW l, NEW given \in BOOLEAN, NEW d,
         given => d # None
  PROVE  Knows(Updated(r, l, given, d))
<1>1. r \in Row BY DEF RowInv
<1>2. /\ Updated(r, l, given, d).queue = r.queue
      /\ Updated(r, l, given, d).dlq = IF given THEN d ELSE r.dlq
  BY <1>1 DEF Row, Updated
<1>3. Updated(r, l, given, d).dlq = None => r.dlq = None BY <1>2
<1>. QED BY <1>2, <1>3 DEF Knows

LEMMA LetterKnows ==
  ASSUME NEW r, RowInv(r), r.dlq # None, NEW i
  PROVE  Knows(Letter(r, i))
<1>1. r.dlq \in LetterQueues BY DEF RowInv
<1>. QED BY <1>1 DEF Knows, Fed, Letter, Inserted

LEMMA KnowsStep ==
  ASSUME IndInv, AllKnow, None \notin Destinations, None \notin UpdateDeadLetters, [Next]_job
  PROVE  AllKnow'
<1>. SUFFICES ASSUME NEW i \in JobId PROVE Knows(job'[i])
  BY DEF AllKnow
<1>0. /\ \A j \in JobId : RowInv(job[j]) /\ Knows(job[j])
      /\ \A q, states : states \subseteq JobState =>
           \A j \in In(q, states) : j \in JobId /\ job[j].state # "absent"
  BY InFacts DEF IndInv, AllKnow
<1>1. CASE job' = job BY <1>0, <1>1
<1>r. ASSUME NEW q, NEW states, states \subseteq JobState, NEW S \in SUBSET In(q, states),
             \/ job' = [j \in JobId |-> IF j \in S THEN Activated(job[j]) ELSE job[j]]
             \/ job' = [j \in JobId |-> IF j \in S THEN Completed(job[j]) ELSE job[j]]
             \/ job' = [j \in JobId |-> IF j \in S THEN Cancelled(job[j]) ELSE job[j]]
             \/ job' = [j \in JobId |-> IF j \in S THEN Resumed(job[j]) ELSE job[j]]
             \/ job' = [j \in JobId |-> IF j \in S THEN Retrying(job[j]) ELSE job[j]]
      PROVE  Knows(job'[i])
  <2>1. CASE i \notin S BY <1>0, <1>r, <2>1
  <2>2. CASE i \in S
    <3>1. job[i].state # "absent" /\ RowInv(job[i]) /\ Knows(job[i]) BY <1>0, <1>r, <2>2
    <3>2. \/ job'[i] = Activated(job[i]) \/ job'[i] = Completed(job[i])
          \/ job'[i] = Cancelled(job[i]) \/ job'[i] = Resumed(job[i])
          \/ job'[i] = Retrying(job[i])
      BY <1>r, <2>2
    <3>. QED BY <3>1, <3>2, RewrittenKnows
  <2>. QED BY <2>1, <2>2
<1>2. CASE Create
  <2>1. PICK q \in Queue, k \in Key, s \in Slot \cup {NoSlot}, n \in BOOLEAN :
          \E d \in JobDeadLetters \cup {None}, y \in Free : CreateJob(q, y, k, s, n, d)
    BY <1>2 DEF Create
  <2>2. PICK d \in JobDeadLetters \cup {None}, y \in Free : CreateJob(q, y, k, s, n, d)
    BY <2>1
  <2>3. \E t : job' = [job EXCEPT ![y] = NewRow(q, k, t, d)] BY <2>2 DEF CreateJob
  <2>4. PICK t : job' = [job EXCEPT ![y] = NewRow(q, k, t, d)] BY <2>3
  <2>5. job'[i] = job[i] \/ job'[i] = NewRow(q, k, t, d) BY <2>4 DEF IndInv
  <2>. QED BY <1>0, <2>5, NewRowKnows
<1>3. CASE Fetch
  BY <1>3, <1>r, StateSets DEF Fetch, FetchNextJob, Batches
<1>4. CASE Complete
  BY <1>4, <1>r, StateSets DEF Complete, CompleteJobs, Rewrite, Batches
<1>5. CASE Cancel
  BY <1>5, <1>r, StateSets DEF Cancel, CancelJobs, Rewrite
<1>6. CASE Resume
  BY <1>6, <1>r, StateSets DEF Resume, ResumeJobs, Rewrite
<1>7. CASE Retry
  BY <1>7, <1>r, StateSets DEF Retry, RetryJobs, Rewrite
<1>8. CASE Update
  <2>1. PICK q \in Queue, given \in BOOLEAN : \E l, d : \E S \in SUBSET In(q, Pending) :
          /\ given => d \in UpdateDeadLetters
          /\ job' = [j \in JobId |-> IF j \in S THEN Updated(job[j], l, given, d) ELSE job[j]]
    BY <1>8, UpdateStep
  <2>0. PICK l, d : \E S \in SUBSET In(q, Pending) :
          /\ given => d \in UpdateDeadLetters
          /\ job' = [j \in JobId |-> IF j \in S THEN Updated(job[j], l, given, d) ELSE job[j]]
    BY <2>1
  <2>2. PICK S \in SUBSET In(q, Pending) :
          /\ given => d \in UpdateDeadLetters
          /\ job' = [j \in JobId |-> IF j \in S THEN Updated(job[j], l, given, d) ELSE job[j]]
    BY <2>0
  <2>3. CASE i \notin S BY <1>0, <2>2, <2>3
  <2>4. CASE i \in S
    <3>1. job[i].state # "absent" BY <1>0, <2>4, StateSets
    <3>2. job'[i] = Updated(job[i], l, given, d) BY <2>2, <2>4
    <3>3. given => d # None BY <2>2
    <3>. QED BY <1>0, <3>1, <3>2, <3>3, UpdatedKnows
  <2>. QED BY <2>3, <2>4
<1>9. CASE Delete
  <2>1. job'[i] = NoRow \/ job'[i] = job[i]
    BY <1>9 DEF Delete, DeleteJobsById, Deletion, DeleteQueuedJobs, DeleteStoredJobs,
                DeleteAllJobs, Remove
  <2>. QED BY <1>0, <2>1, NoRowKnows
<1>10. CASE Fail
  <2>1. PICK q \in Queue : \E S \in SUBSET In(q, Live) : \E R \in SUBSET S :
          \E g \in FreshIds(DeadLettered(S \ R)) : job' = WithLetters(Reinserted(S, R), g)
    BY <1>10, FailStep
  <2>2. PICK S \in SUBSET In(q, Live) : \E R \in SUBSET S :
          \E g \in FreshIds(DeadLettered(S \ R)) : job' = WithLetters(Reinserted(S, R), g)
    BY <2>1
  <2>3. PICK R \in SUBSET S :
          \E g \in FreshIds(DeadLettered(S \ R)) : job' = WithLetters(Reinserted(S, R), g)
    BY <2>2
  <2>4. PICK g \in FreshIds(DeadLettered(S \ R)) : job' = WithLetters(Reinserted(S, R), g)
    BY <2>3
  <2>5. CASE i \in Free /\ g[i] # None
    <3>1. g[i] \in S /\ job[g[i]].dlq # None BY <2>5 DEF FreshIds, DeadLettered
    <3>2. RowInv(job[g[i]]) BY <1>0, <3>1, StateSets
    <3>3. job'[i] = Letter(job[g[i]], g[i]) BY <2>4, <2>5 DEF WithLetters
    <3>. QED BY <3>1, <3>2, <3>3, LetterKnows
  <2>6. CASE ~(i \in Free /\ g[i] # None)
    <3>1. job'[i] = IF i \in R THEN Retried(job[i])
                    ELSE IF i \in S THEN Failed(job[i]) ELSE job[i]
      BY <2>4, <2>6 DEF WithLetters, Reinserted
    <3>2. CASE i \notin S BY <1>0, <3>1, <3>2
    <3>3. CASE i \in S
      <4>1. job[i].state # "absent" BY <1>0, <3>3, StateSets
      <4>2. job'[i] = Retried(job[i]) \/ job'[i] = Failed(job[i]) BY <3>1, <3>3
      <4>. QED BY <1>0, <4>1, <4>2, RewrittenKnows
    <3>. QED BY <3>2, <3>3
  <2>. QED BY <2>5, <2>6
<1>11. CASE Redrive
  <2>1. PICK q \in Queue, to \in Destinations : \E S : RedriveJobs(q, S, to)
    BY <1>11 DEF Redrive
  <2>2. PICK S : RedriveJobs(q, S, to) BY <2>1
  <2>3. \A j : Destination(j, to) = to BY DEF Destination
  <2>4. PICK I \in SUBSET S : \E g \in FreshIds(I) :
             job' = [j \in JobId |->
                       IF j \in Free /\ g[j] # None THEN Redriven(job[g[j]], Destination(g[j], to))
                       ELSE IF j \in S THEN NoRow ELSE job[j]]
    BY <2>2 DEF RedriveJobs
  <2>5. \/ job'[i] = NoRow \/ job'[i] = job[i]
        \/ \E j : job'[i] = Redriven(job[j], to)
    BY <2>3, <2>4
  <2>6. ASSUME NEW j PROVE Knows(Redriven(job[j], to))
    BY DEF Knows, Fed, Redriven, Inserted
  <2>. QED BY <1>0, <2>5, <2>6, NoRowKnows
<1>. QED
  BY <1>1, <1>2, <1>3, <1>4, <1>5, <1>6, <1>7, <1>8, <1>9, <1>10, <1>11 DEF Next

\* When no caller redrives to the sources of letters and none takes a dead letter
\* queue away in an update, a job that fails for good in a queue with a dead letter
\* queue, that is fed by send() alone, leaves its letter.  The rule that run redriven
\* refutes breaks through redrive() or through update() with deadLetter null, and
\* through nothing else that the commands do.
THEOREM LettersAreLeft ==
  None \notin Destinations /\ None \notin UpdateDeadLetters => (Spec => [][HonouredWhereFed]_job)
<1>. SUFFICES ASSUME None \notin Destinations, None \notin UpdateDeadLetters
              PROVE  Spec => [][HonouredWhereFed]_job
  OBVIOUS
<1>1. Init => AllKnow BY NoRowKnows DEF Init, AllKnow
<1>2. IndInv /\ AllKnow /\ [Next]_job => AllKnow' BY KnowsStep
<1>3. IndInv /\ AllKnow /\ MatchesLetters => HonouredWhereFed
  <2>. SUFFICES ASSUME AllKnow, MatchesLetters, NEW i \in JobId,
                       Fed(job[i].queue), DeadLetter[job[i].queue] # None,
                       FailsIn(i), job'[i].state = "failed", NewLetters(i) = {}
                PROVE  FALSE
    BY DEF HonouredWhereFed
  <2>1. job[i].state # "absent" BY StateSets DEF FailsIn
  <2>2. job[i].dlq # None BY <2>1 DEF AllKnow, Knows
  <2>3. Cardinality(NewLetters(i)) = 1 BY <2>2 DEF MatchesLetters
  <2>. QED BY <2>3, FS_EmptySet
<1>. QED BY <1>1, <1>2, <1>3, Invariance, LettersMatch, PTL DEF Spec, LettersMatchFailures
=============================================================================
