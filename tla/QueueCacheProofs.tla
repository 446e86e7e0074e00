-------------------------- MODULE QueueCacheProofs --------------------------
(***************************************************************************)
(* Proofs about QueueCache, for any number of instances, jobs, keys,       *)
(* changes of the queue and wrong-empty reads.                             *)
(*                                                                         *)
(* Every doubt an instance has of a queue that was there all along stands  *)
(* for a wrong-empty read of its own: the first answer of a lookup that is *)
(* in its second, an empty snapshot behind it and one in its hands.        *)
(* Believing takes two of them, so two reads were wrong.                   *)
(*                                                                         *)
(* Fetches and Convergence prove what NoHeadOfLine and Converges keep when *)
(* nothing is fair.                                                        *)
(***************************************************************************)
EXTENDS QueueCache, FiniteSetTheorems, WellFoundedInduction, TLAPS

\* The row counts its creations and updates, so there is only one empty row.
RowKnown == row.version = 0 => row = NoRow

\* A lookup that saw no deletion: the queue is there, and the second answer is
\* asked for because the first was wrong.
LookupsDoubt ==
  \A i \in Instance : op[i].at \in {"first", "second"} /\ ~op[i].away =>
    /\ row # NoRow
    /\ op[i].at = "second" => faults >= 1

\* The same for the refresh of an instance whose last one found the queue.
RefreshesDoubt ==
  \A i \in Instance : ~absent[i] =>
    /\ row # NoRow
    /\ empty[i] \/ refresh[i] = NoRow => faults >= 1
    /\ empty[i] /\ refresh[i] = NoRow => faults >= 2

\* The inductive invariant.
IndInv == TypeOK /\ RowKnown /\ LookupsDoubt /\ RefreshesDoubt /\ Corroborated

-----------------------------------------------------------------------------
LEMMA RowTypes ==
  /\ NoRow \in Row /\ Unread \notin Row /\ NoRow # Unread
  /\ NoRow.version = 0 /\ NoRow.busy = {}
BY BoundAssumption DEF NoRow, Unread, Row

LEMMA InitInvariance == Init => IndInv
<1>. SUFFICES ASSUME Init PROVE IndInv OBVIOUS
<1>1. row \in Row /\ row.version = 1
  BY BoundAssumption DEF Init, NoRow, Row
<1>2. TypeOK BY <1>1, RowTypes, BoundAssumption DEF Init, TypeOK, Idle
<1>3. row # NoRow BY <1>1, RowTypes
<1>4. RowKnown BY <1>1 DEF RowKnown
<1>5. LookupsDoubt BY <1>3 DEF LookupsDoubt, Init, Idle
<1>6. RefreshesDoubt BY <1>3, RowTypes DEF RefreshesDoubt, Init
<1>7. Corroborated BY DEF Init, Corroborated
<1>. QED BY <1>2, <1>4, <1>5, <1>6, <1>7 DEF IndInv

\* What a read answers, and what it counts.
LEMMA Answered ==
  ASSUME TypeOK, NEW answer \in Answers, CountFault(answer)
  PROVE  /\ answer \in Row
         /\ faults' \in 0..MaxFaults /\ faults' >= faults
         /\ answer = NoRow /\ row # NoRow => faults' = faults + 1
         /\ answer # NoRow => answer = row
BY RowTypes, BoundAssumption DEF TypeOK, Answers, CountFault

LEMMA OpTypes ==
  ASSUME TypeOK, NEW i \in Instance
  PROVE  /\ op[i] = [at |-> op[i].at, got |-> op[i].got, away |-> op[i].away]
         /\ op[i].at \in {"idle", "first", "second", "found", "readBack", "evict"}
         /\ op[i].got \in Row /\ op[i].away \in BOOLEAN
BY DEF TypeOK

-----------------------------------------------------------------------------
(* The cache.                                                               *)

LEMMA LookupStep ==
  ASSUME IndInv, NEW i \in Instance, Lookup(i)
  PROVE  IndInv'
<1>. USE DEF IndInv
<1>1. TypeOK' BY RowTypes DEF Lookup, TypeOK
<1>2. \A k \in Instance : k # i => op'[k] = op[k] BY DEF Lookup, TypeOK
<1>3. op'[i].at = "first" /\ op'[i].away = (row = NoRow) BY DEF Lookup, TypeOK
<1>4. LookupsDoubt' BY <1>2, <1>3 DEF Lookup, LookupsDoubt
<1>5. RowKnown' /\ RefreshesDoubt' /\ Corroborated'
  BY DEF Lookup, RowKnown, RefreshesDoubt, Corroborated, NoRow
<1>. QED BY <1>1, <1>4, <1>5

LEMMA LookupReadStep ==
  ASSUME IndInv, NEW i \in Instance, LookupRead(i)
  PROVE  IndInv'
<1>. USE DEF IndInv
<1>1. PICK answer \in Answers :
       /\ CountFault(answer)
       /\ \/ /\ answer # NoRow
             /\ SetOp(i, "found", answer)
             /\ wronged' = wronged
          \/ /\ answer = NoRow /\ AfterEmpty(op[i].at) # "missing"
             /\ SetOp(i, AfterEmpty(op[i].at), NoRow)
             /\ wronged' = wronged
          \/ /\ answer = NoRow /\ AfterEmpty(op[i].at) = "missing"
             /\ Return(i)
             /\ wronged' = IF op[i].away THEN wronged ELSE wronged \cup {i}
  BY DEF LookupRead
<1>2. /\ answer \in Row
      /\ faults' \in 0..MaxFaults /\ faults' >= faults
      /\ answer = NoRow /\ row # NoRow => faults' = faults + 1
  BY <1>1, Answered
<1>3. /\ op[i].at \in {"first", "second"}
      /\ UNCHANGED <<row, job, cache, empty, refresh, changes, absent>>
  BY DEF LookupRead
<1>4. /\ op[i].got \in Row /\ op[i].away \in BOOLEAN
  BY OpTypes
<1>5. faults \in Nat /\ faults' \in Nat BY <1>2, BoundAssumption DEF TypeOK
<1>6. RowKnown' BY <1>3 DEF RowKnown, NoRow
<1>7. RefreshesDoubt' BY <1>2, <1>3, <1>5 DEF RefreshesDoubt, NoRow
<1>8. CASE answer # NoRow /\ SetOp(i, "found", answer) /\ wronged' = wronged
  <2>1. op' = [op EXCEPT ![i] = [at |-> "found", got |-> answer, away |-> op[i].away]]
    BY <1>8 DEF SetOp
  <2>2. TypeOK' BY <2>1, <1>2, <1>3, <1>4, <1>8 DEF TypeOK
  <2>3. LookupsDoubt'
    <3>. SUFFICES ASSUME NEW k \in Instance, op'[k].at \in {"first", "second"}, ~op'[k].away
                  PROVE  row' # NoRow' /\ (op'[k].at = "second" => faults' >= 1)
      BY DEF LookupsDoubt
    <3>1. op'[k] = op[k] BY <2>1 DEF TypeOK
    <3>. QED BY <3>1, <1>2, <1>3, <1>5 DEF LookupsDoubt, NoRow
  <2>4. Corroborated' BY <1>8, <1>2, <1>5 DEF Corroborated
  <2>. QED BY <1>6, <1>7, <2>2, <2>3, <2>4
<1>9. CASE /\ answer = NoRow /\ AfterEmpty(op[i].at) # "missing"
           /\ SetOp(i, AfterEmpty(op[i].at), NoRow) /\ wronged' = wronged
  <2>0. op[i].at = "first" /\ AfterEmpty(op[i].at) = "second"
    BY <1>9, <1>3 DEF AfterEmpty
  <2>1. op' = [op EXCEPT ![i] = [at |-> "second", got |-> NoRow, away |-> op[i].away]]
    BY <1>9, <2>0 DEF SetOp
  <2>2. TypeOK' BY <2>1, <1>2, <1>3, <1>4, <1>9, RowTypes DEF TypeOK
  <2>3. LookupsDoubt'
    <3>. SUFFICES ASSUME NEW k \in Instance, op'[k].at \in {"first", "second"}, ~op'[k].away
                  PROVE  row' # NoRow' /\ (op'[k].at = "second" => faults' >= 1)
      BY DEF LookupsDoubt
    <3>1. CASE k = i
      <4>1. ~op[i].away BY <3>1, <2>1 DEF TypeOK
      <4>2. row # NoRow BY <4>1, <2>0 DEF LookupsDoubt
      <4>. QED BY <4>2, <1>2, <1>3, <1>5, <1>9 DEF NoRow
    <3>2. CASE k # i
      <4>1. op'[k] = op[k] BY <3>2, <2>1 DEF TypeOK
      <4>. QED BY <4>1, <1>2, <1>3, <1>5 DEF LookupsDoubt, NoRow
    <3>. QED BY <3>1, <3>2
  <2>4. Corroborated' BY <1>9, <1>2, <1>5 DEF Corroborated
  <2>. QED BY <1>6, <1>7, <2>2, <2>3, <2>4
<1>10. CASE /\ answer = NoRow /\ AfterEmpty(op[i].at) = "missing" /\ Return(i)
            /\ wronged' = IF op[i].away THEN wronged ELSE wronged \cup {i}
  <2>0. op[i].at = "second" BY <1>10, <1>3 DEF AfterEmpty
  <2>1. op' = [op EXCEPT ![i] = Idle] BY <1>10 DEF Return
  <2>2. TypeOK' BY <2>1, <1>2, <1>3, <1>10, RowTypes DEF TypeOK, Idle
  <2>3. LookupsDoubt'
    <3>. SUFFICES ASSUME NEW k \in Instance, op'[k].at \in {"first", "second"}, ~op'[k].away
                  PROVE  row' # NoRow' /\ (op'[k].at = "second" => faults' >= 1)
      BY DEF LookupsDoubt
    <3>1. op'[k] = op[k] BY <2>1 DEF TypeOK, Idle
    <3>. QED BY <3>1, <1>2, <1>3, <1>5 DEF LookupsDoubt, NoRow
  <2>4. Corroborated'
    <3>1. CASE op[i].away BY <3>1, <1>10, <1>2, <1>5 DEF Corroborated
    <3>2. CASE ~op[i].away
      <4>1. row # NoRow /\ faults >= 1 BY <3>2, <2>0 DEF LookupsDoubt
      <4>2. faults' >= 2 BY <4>1, <1>2, <1>5, <1>10
      <4>. QED BY <4>2, <1>5 DEF Corroborated
    <3>. QED BY <3>1, <3>2
  <2>. QED BY <1>6, <1>7, <2>2, <2>3, <2>4
<1>. QED BY <1>1, <1>8, <1>9, <1>10

\* The three actions that end or advance an operation with no lookup in it, and
\* touch neither the row nor the refresh.
LEMMA OtherOps ==
  ASSUME IndInv, NEW i \in Instance,
         op' \in [Instance -> [at : {"idle", "first", "second", "found", "readBack", "evict"},
                               got : Row, away : BOOLEAN]],
         op'[i].at \notin {"first", "second"},
         \A k \in Instance \ {i} : op'[k] = op[k],
         row' # NoRow \/ row' = row, faults' >= faults, faults' \in Nat
  PROVE  LookupsDoubt'
<1>. SUFFICES ASSUME NEW k \in Instance, op'[k].at \in {"first", "second"}, ~op'[k].away
              PROVE  row' # NoRow' /\ (op'[k].at = "second" => faults' >= 1)
  BY DEF LookupsDoubt
<1>1. op'[k] = op[k] OBVIOUS
<1>2. faults \in Nat BY BoundAssumption DEF IndInv, TypeOK
<1>. QED BY <1>1, <1>2 DEF IndInv, LookupsDoubt, NoRow

LEMMA FoundStep ==
  ASSUME IndInv, NEW i \in Instance, Found(i)
  PROVE  IndInv'
<1>. USE DEF IndInv
<1>1. op[i].got \in Row BY OpTypes
<1>2. op' = [op EXCEPT ![i] = Idle] BY DEF Found, Return
<1>3. TypeOK' BY <1>1, <1>2, RowTypes DEF Found, SetCache, TypeOK, Idle
<1>4. faults \in Nat BY BoundAssumption DEF TypeOK
<1>5. LookupsDoubt' BY <1>2, <1>3, <1>4, OtherOps DEF Found, TypeOK, Idle
<1>6. RefreshesDoubt' BY DEF Found, RefreshesDoubt, TypeOK, NoRow
<1>7. RowKnown' /\ Corroborated' BY DEF Found, RowKnown, Corroborated, NoRow
<1>. QED BY <1>3, <1>5, <1>6, <1>7

LEMMA RefreshReadStep ==
  ASSUME IndInv, NEW i \in Instance, RefreshRead(i)
  PROVE  IndInv'
<1>. USE DEF IndInv
<1>1. PICK answer \in Answers :
       CountFault(answer) /\ refresh' = [refresh EXCEPT ![i] = answer]
  BY DEF RefreshRead
<1>2. /\ answer \in Row
      /\ faults' \in 0..MaxFaults /\ faults' >= faults
      /\ answer = NoRow /\ row # NoRow => faults' = faults + 1
  BY <1>1, Answered
<1>3. /\ refresh[i] = Unread
      /\ UNCHANGED <<row, job, cache, empty, op, changes, absent, wronged>>
  BY DEF RefreshRead
<1>4. faults \in Nat /\ faults' \in Nat BY <1>2, BoundAssumption DEF TypeOK
<1>5. TypeOK' BY <1>1, <1>2, <1>3 DEF TypeOK
<1>6. RefreshesDoubt'
  <2>. SUFFICES ASSUME NEW k \in Instance, ~absent'[k]
                PROVE  /\ row' # NoRow'
                       /\ empty'[k] \/ refresh'[k] = NoRow' => faults' >= 1
                       /\ empty'[k] /\ refresh'[k] = NoRow' => faults' >= 2
    BY DEF RefreshesDoubt
  <2>1. row # NoRow /\ (empty[k] => faults >= 1) BY <1>3 DEF RefreshesDoubt
  <2>2. CASE k = i
    <3>1. refresh'[k] = answer BY <2>2, <1>1 DEF TypeOK
    <3>. QED BY <3>1, <2>1, <1>2, <1>3, <1>4 DEF NoRow
  <2>3. CASE k # i
    <3>1. refresh'[k] = refresh[k] BY <2>3, <1>1 DEF TypeOK
    <3>. QED BY <3>1, <1>2, <1>3, <1>4 DEF RefreshesDoubt, NoRow
  <2>. QED BY <2>2, <2>3
<1>7. LookupsDoubt' BY <1>2, <1>3, <1>4 DEF LookupsDoubt, NoRow
<1>8. RowKnown' /\ Corroborated' BY <1>2, <1>3, <1>4 DEF RowKnown, Corroborated, NoRow
<1>. QED BY <1>5, <1>6, <1>7, <1>8

LEMMA RefreshApplyStep ==
  ASSUME IndInv, NEW i \in Instance, RefreshApply(i)
  PROVE  IndInv'
<1>. USE DEF IndInv
<1>1. /\ refresh[i] # Unread
      /\ empty' = [empty EXCEPT ![i] = (refresh[i] = NoRow)]
      /\ refresh' = [refresh EXCEPT ![i] = Unread]
      /\ absent' = IF refresh[i] = NoRow THEN absent ELSE [absent EXCEPT ![i] = (row = NoRow)]
      /\ UNCHANGED <<row, job, op, changes, faults>>
  BY DEF RefreshApply
<1>2. refresh[i] \in Row BY <1>1 DEF TypeOK
<1>3. faults \in Nat BY BoundAssumption DEF TypeOK
<1>4. cache' = IF Doubted(i) THEN cache ELSE [cache EXCEPT ![i] = refresh[i]]
  BY DEF RefreshApply, SetCache
<1>5. wronged' \subseteq Instance BY DEF RefreshApply, TypeOK
<1>6. TypeOK' BY <1>1, <1>2, <1>4, <1>5 DEF TypeOK
<1>7. RefreshesDoubt'
  <2>. SUFFICES ASSUME NEW k \in Instance, ~absent'[k]
                PROVE  /\ row' # NoRow'
                       /\ empty'[k] \/ refresh'[k] = NoRow' => faults' >= 1
                       /\ empty'[k] /\ refresh'[k] = NoRow' => faults' >= 2
    BY DEF RefreshesDoubt
  <2>1. CASE k # i
    <3>1. empty'[k] = empty[k] /\ refresh'[k] = refresh[k] /\ absent'[k] = absent[k]
      BY <2>1, <1>1 DEF TypeOK
    <3>. QED BY <3>1, <1>1 DEF RefreshesDoubt, NoRow
  <2>2. CASE k = i
    <3>1. refresh'[k] # NoRow' BY <2>2, <1>1, RowTypes DEF TypeOK, NoRow
    <3>2. empty'[k] = (refresh[i] = NoRow) BY <2>2, <1>1 DEF TypeOK
    <3>3. CASE refresh[i] = NoRow
      BY <3>1, <3>2, <3>3, <2>2, <1>1 DEF RefreshesDoubt, NoRow
    <3>4. CASE refresh[i] # NoRow
      <4>1. absent'[k] = (row = NoRow) BY <3>4, <2>2, <1>1 DEF TypeOK
      <4>. QED BY <4>1, <3>1, <3>2, <3>4, <1>1 DEF NoRow
    <3>. QED BY <3>3, <3>4
  <2>. QED BY <2>1, <2>2
<1>8. Corroborated'
  <2>1. CASE wronged' = wronged BY <2>1, <1>1 DEF Corroborated
  <2>2. CASE wronged' # wronged
    <3>1. cache[i] # NoRow /\ cache'[i] = NoRow /\ ~absent[i]
      BY <2>2 DEF RefreshApply
    <3>2. ~Doubted(i) /\ refresh[i] = NoRow BY <3>1, <1>4 DEF TypeOK
    <3>3. empty[i] BY <3>1, <3>2 DEF Doubted
    <3>4. faults >= 2 BY <3>1, <3>2, <3>3 DEF RefreshesDoubt
    <3>. QED BY <3>4, <1>1, <1>3 DEF Corroborated
  <2>. QED BY <2>1, <2>2
<1>9. RowKnown' /\ LookupsDoubt' BY <1>1 DEF RowKnown, LookupsDoubt, NoRow
<1>. QED BY <1>6, <1>7, <1>8, <1>9

-----------------------------------------------------------------------------
(* Queue management and jobs.                                               *)

LEMMA ChangeTypes ==
  ASSUME TypeOK, Change
  PROVE  /\ changes' \in 0..MaxChanges
         /\ changes + 2 \in 0..(MaxChanges + 1) /\ changes + 2 # 0
         /\ faults \in Nat
BY BoundAssumption DEF TypeOK, Change

\* A row of the version a change gives it is a row.
LEMMA NewRows ==
  ASSUME TypeOK, Change, NEW r \in Row
  PROVE  /\ [r EXCEPT !.version = changes + 2] \in Row
         /\ [r EXCEPT !.version = changes + 2].version # 0
         /\ [r EXCEPT !.version = changes + 2] # NoRow
BY ChangeTypes DEF Row, NoRow

LEMMA CreateQueueStep ==
  ASSUME IndInv, NEW i \in Instance, CreateQueue(i)
  PROVE  IndInv'
<1>. USE DEF IndInv
<1>1. op' = [op EXCEPT ![i] = [at |-> "readBack", got |-> NoRow, away |-> op[i].away]]
  BY DEF CreateQueue, SetOp
<1>2. /\ row' = IF row = NoRow THEN [NoRow EXCEPT !.version = changes + 2] ELSE row
      /\ Change
      /\ UNCHANGED <<job, cache, empty, refresh, faults, absent, wronged>>
  BY DEF CreateQueue
<1>3. /\ row' \in Row /\ row' # NoRow /\ RowKnown'
      /\ faults \in Nat /\ changes' \in 0..MaxChanges
  BY <1>2, NewRows, ChangeTypes, RowTypes DEF RowKnown, TypeOK, NoRow
<1>4. op[i].away \in BOOLEAN BY OpTypes
<1>5. TypeOK' BY <1>1, <1>2, <1>3, <1>4, RowTypes DEF TypeOK
<1>6. LookupsDoubt' BY <1>1, <1>2, <1>3, <1>5, OtherOps DEF TypeOK
<1>7. RefreshesDoubt' BY <1>2, <1>3 DEF RefreshesDoubt, NoRow
<1>8. Corroborated' BY <1>2 DEF Corroborated
<1>. QED BY <1>3, <1>5, <1>6, <1>7, <1>8

LEMMA UpdateQueueStep ==
  ASSUME IndInv, NEW i \in Instance, UpdateQueue(i)
  PROVE  IndInv'
<1>. USE DEF IndInv
<1>1. op' = [op EXCEPT ![i] = [at |-> "readBack", got |-> NoRow, away |-> op[i].away]]
  BY DEF UpdateQueue, SetOp
<1>2. /\ row' = IF row = NoRow THEN NoRow ELSE [row EXCEPT !.version = changes + 2]
      /\ Change
      /\ UNCHANGED <<job, cache, empty, refresh, faults, absent, wronged>>
  BY DEF UpdateQueue
<1>3. row \in Row BY DEF TypeOK
<1>4. /\ row' \in Row /\ (row # NoRow => row' # NoRow) /\ RowKnown'
      /\ row' # NoRow \/ row' = row
      /\ faults \in Nat /\ changes' \in 0..MaxChanges
  BY <1>2, <1>3, NewRows, ChangeTypes, RowTypes DEF RowKnown, NoRow
<1>5. op[i].away \in BOOLEAN BY OpTypes
<1>6. TypeOK' BY <1>1, <1>2, <1>4, <1>5, RowTypes DEF TypeOK
<1>7. LookupsDoubt' BY <1>1, <1>2, <1>4, <1>6, OtherOps DEF TypeOK
<1>8. RefreshesDoubt' BY <1>2, <1>4 DEF RefreshesDoubt, NoRow
<1>9. Corroborated' BY <1>2 DEF Corroborated
<1>. QED BY <1>4, <1>6, <1>7, <1>8, <1>9

LEMMA ReadBackStep ==
  ASSUME IndInv, NEW i \in Instance, ReadBack(i)
  PROVE  IndInv'
<1>. USE DEF IndInv
<1>1. PICK answer \in Answers :
       /\ CountFault(answer)
       /\ IF answer # NoRow THEN SetOp(i, "found", answer) ELSE SetOp(i, "evict", NoRow)
  BY DEF ReadBack
<1>2. UNCHANGED <<row, job, cache, empty, refresh, changes, absent, wronged>>
  BY DEF ReadBack
<1>3. answer \in Row /\ faults' \in 0..MaxFaults /\ faults' >= faults
  BY <1>1, Answered
<1>4. PICK at \in {"found", "evict"} : \E got \in Row :
        op' = [op EXCEPT ![i] = [at |-> at, got |-> got, away |-> op[i].away]]
  BY <1>1, <1>3, RowTypes DEF SetOp
<1>5. op[i].away \in BOOLEAN BY OpTypes
<1>6. faults \in Nat /\ faults' \in Nat BY <1>3, BoundAssumption DEF TypeOK
<1>7. TypeOK' BY <1>2, <1>3, <1>4, <1>5 DEF TypeOK
<1>8. LookupsDoubt' BY <1>2, <1>3, <1>4, <1>6, <1>7, OtherOps DEF TypeOK
<1>9. RefreshesDoubt' BY <1>2, <1>3, <1>6 DEF RefreshesDoubt, NoRow
<1>10. RowKnown' /\ Corroborated' BY <1>2, <1>3, <1>6 DEF RowKnown, Corroborated, NoRow
<1>. QED BY <1>7, <1>8, <1>9, <1>10

LEMMA EvictStep ==
  ASSUME IndInv, NEW i \in Instance, Evict(i)
  PROVE  IndInv'
<1>. USE DEF IndInv
<1>1. op' = [op EXCEPT ![i] = Idle] BY DEF Evict, Return
<1>2. TypeOK' BY <1>1, RowTypes DEF Evict, SetCache, TypeOK, Idle
<1>3. faults \in Nat BY BoundAssumption DEF TypeOK
<1>4. LookupsDoubt' BY <1>1, <1>2, <1>3, OtherOps DEF Evict, TypeOK, Idle
<1>5. RowKnown' /\ RefreshesDoubt' /\ Corroborated'
  BY DEF Evict, RowKnown, RefreshesDoubt, Corroborated, NoRow
<1>. QED BY <1>2, <1>4, <1>5

\* A deletion is seen by every lookup and refresh in progress.
LEMMA DeletionSeen ==
  ASSUME IndInv, Deleted,
         \A k \in Instance : op'[k] = Away[k] \/ op'[k].at = "evict"
  PROVE  RowKnown' /\ LookupsDoubt' /\ RefreshesDoubt'
<1>1. \A k \in Instance : op'[k].at \in {"first", "second"} => op'[k].away
  BY DEF Away, IndInv, TypeOK
<1>2. RowKnown' /\ RefreshesDoubt' BY DEF Deleted, RowKnown, RefreshesDoubt, NoRow
<1>. QED BY <1>1, <1>2 DEF LookupsDoubt

LEMMA AwayType ==
  ASSUME TypeOK
  PROVE  Away \in [Instance -> [at : {"idle", "first", "second", "found", "readBack", "evict"},
                                got : Row, away : BOOLEAN]]
BY DEF Away, TypeOK

LEMMA DeletedTypes ==
  ASSUME TypeOK, Deleted
  PROVE  /\ row' \in Row /\ absent' \in [Instance -> BOOLEAN]
         /\ job' \in [JobId -> {"none", "waiting", "active", "done"}]
BY RowTypes DEF TypeOK, Deleted

LEMMA DeleteQueueStep ==
  ASSUME IndInv, NEW i \in Instance, DeleteQueue(i)
  PROVE  IndInv'
<1>. USE DEF IndInv
<1>1. op' = [Away EXCEPT ![i] = [at |-> "evict", got |-> NoRow, away |-> FALSE]]
  BY DEF DeleteQueue
<1>2. Deleted /\ Change /\ UNCHANGED <<cache, empty, refresh, faults, wronged>>
  BY DEF DeleteQueue
<1>3. op' \in [Instance -> [at : {"idle", "first", "second", "found", "readBack", "evict"},
                            got : Row, away : BOOLEAN]]
  BY <1>1, AwayType, RowTypes
<1>4. TypeOK' BY <1>2, <1>3, DeletedTypes, ChangeTypes DEF TypeOK
<1>5. \A k \in Instance : op'[k] = Away[k] \/ op'[k].at = "evict"
  BY <1>1, AwayType
<1>6. RowKnown' /\ LookupsDoubt' /\ RefreshesDoubt' BY <1>2, <1>5, DeletionSeen
<1>7. Corroborated' BY <1>2 DEF Corroborated
<1>. QED BY <1>4, <1>6, <1>7

LEMMA ElsewhereStep ==
  ASSUME IndInv, Elsewhere
  PROVE  IndInv'
<1>. USE DEF IndInv
<1>1. Change /\ UNCHANGED <<cache, empty, refresh, faults, wronged>> BY DEF Elsewhere
<1>2. Corroborated' BY <1>1 DEF Corroborated
<1>3. CASE /\ row' = [row EXCEPT !.version = changes + 2]
           /\ UNCHANGED <<job, absent, op>>
  <2>1. row' \in Row /\ row' # NoRow /\ RowKnown'
    BY <1>1, <1>3, NewRows DEF TypeOK, RowKnown
  <2>2. TypeOK' BY <1>1, <1>3, <2>1, ChangeTypes DEF TypeOK
  <2>3. LookupsDoubt' /\ RefreshesDoubt'
    BY <1>1, <1>3, <2>1 DEF LookupsDoubt, RefreshesDoubt, NoRow
  <2>. QED BY <1>2, <2>1, <2>2, <2>3
<1>4. CASE row # NoRow /\ Deleted /\ op' = Away
  <2>1. TypeOK' BY <1>1, <1>4, AwayType, DeletedTypes, ChangeTypes DEF TypeOK
  <2>2. RowKnown' /\ LookupsDoubt' /\ RefreshesDoubt' BY <1>4, DeletionSeen
  <2>. QED BY <1>2, <2>1, <2>2
<1>. QED BY <1>3, <1>4 DEF Elsewhere

\* send(), fetch() and the settlement of a job change nothing but the job.
LEMMA JobStep ==
  ASSUME IndInv, job' \in [JobId -> {"none", "waiting", "active", "done"}],
         UNCHANGED <<row, cache, empty, refresh, op, changes, faults, absent, wronged>>
  PROVE  IndInv'
BY DEF IndInv, TypeOK, RowKnown, LookupsDoubt, RefreshesDoubt, Corroborated, NoRow

LEMMA StatsStep ==
  ASSUME IndInv, Stats
  PROVE  IndInv'
<1>. USE DEF IndInv
<1>1. /\ row # NoRow /\ row' = [row EXCEPT !.busy = ActiveKeys]
      /\ UNCHANGED <<job, cache, empty, refresh, op, changes, faults, absent, wronged>>
  BY DEF Stats
<1>2. ActiveKeys \in SUBSET Key BY JobAssumption DEF ActiveKeys
<1>3. row \in Row /\ row.version # 0 BY <1>1 DEF TypeOK, RowKnown
<1>4. row' \in Row /\ row'.version # 0 BY <1>1, <1>2, <1>3 DEF Row
<1>5. row' # NoRow BY <1>4, RowTypes
<1>6. TypeOK' BY <1>1, <1>4 DEF TypeOK
<1>7. RowKnown' /\ LookupsDoubt' /\ RefreshesDoubt' /\ Corroborated'
  BY <1>1, <1>4, <1>5 DEF RowKnown, LookupsDoubt, RefreshesDoubt, Corroborated, NoRow
<1>. QED BY <1>6, <1>7

-----------------------------------------------------------------------------
LEMMA NextInvariance ==
  ASSUME IndInv, [Next]_vars
  PROVE  IndInv'
<1>1. CASE UNCHANGED vars
  <2>1. job' \in [JobId -> {"none", "waiting", "active", "done"}]
    BY <1>1 DEF vars, IndInv, TypeOK
  <2>. QED BY <1>1, <2>1, JobStep DEF vars
<1>2. ASSUME NEW i \in Instance, Calls(i) PROVE IndInv'
  BY <1>2, LookupStep, LookupReadStep, FoundStep, ReadBackStep, EvictStep DEF Calls
<1>3. ASSUME NEW i \in Instance, Refresh(i) PROVE IndInv'
  BY <1>3, RefreshReadStep, RefreshApplyStep DEF Refresh
<1>4. ASSUME NEW i \in Instance, CreateQueue(i) \/ UpdateQueue(i) \/ DeleteQueue(i)
      PROVE  IndInv'
  BY <1>4, CreateQueueStep, UpdateQueueStep, DeleteQueueStep
<1>5. ASSUME NEW i \in Instance, Fetch(i) PROVE IndInv'
  <2>1. job' \in [JobId -> {"none", "waiting", "active", "done"}]
    BY <1>5 DEF Fetch, IndInv, TypeOK
  <2>. QED BY <1>5, <2>1, JobStep DEF Fetch
<1>6. ASSUME NEW j \in JobId, Send(j) \/ Settle(j) PROVE IndInv'
  <2>1. job' \in [JobId -> {"none", "waiting", "active", "done"}]
    BY <1>6 DEF Send, Settle, IndInv, TypeOK
  <2>. QED BY <1>6, <2>1, JobStep DEF Send, Settle
<1>7. CASE Stats BY <1>7, StatsStep
<1>8. CASE Elsewhere BY <1>8, ElsewhereStep
<1>. QED BY <1>1, <1>2, <1>3, <1>4, <1>5, <1>6, <1>7, <1>8 DEF Next

\* The inductive invariant holds in every reachable state: each doubt of an
\* instance stands for a wrong-empty read of its own.
THEOREM Invariance == Spec => []IndInv
<1>1. Init => IndInv BY InitInvariance
<1>2. IndInv /\ [Next]_vars => IndInv' BY NextInvariance
<1>. QED BY <1>1, <1>2, PTL DEF Spec

\* The queue row, the caches and the operations keep their types.
THEOREM TypeCorrect == Spec => []TypeOK
<1>1. IndInv => TypeOK BY DEF IndInv
<1>. QED BY <1>1, Invariance, PTL

\* One wrong-empty read, whenever it comes and whatever the instance, the
\* supervisor and the other instances do meanwhile, never makes a lookup deny a
\* queue that was there, nor a refresh drop it (onCacheQueues and getQueueCache).
THEOREM OneReadIsNotBelieved == Spec => []Corroborated
<1>1. IndInv => Corroborated BY DEF IndInv
<1>. QED BY <1>1, Invariance, PTL
-----------------------------------------------------------------------------
(* Fetches.                                                                 *)

\* The policy of the queue, which every fetch has to keep.
OneActivePerKey ==
  \A j, k \in JobId :
    job[j] = "active" /\ job[k] = "active" /\ KeyOf[j] = KeyOf[k] => j = k

\* The cached row of the instance knows every key that is active.
UpToDate(i) == ActiveKeys \subseteq cache[i].busy

\* A fetch of such an instance takes jobs whenever one may be taken, whatever
\* batch is asked for and whichever job of each key row_number() puts first.
FreshFetchesSucceed ==
  \A i \in Instance : UpToDate(i) /\ Eligible(i) # {} =>
    \A n \in 1..BatchSize :
      /\ Picked(i, n) # {}
      /\ \A S \in Picked(i, n) : S # {} /\ Allowed(S)

LEMMA FetchKeepsPolicy ==
  ASSUME TypeOK, OneActivePerKey, NEW i \in Instance, Fetch(i)
  PROVE  OneActivePerKey'
<1>0. PICK n \in 1..BatchSize : \E S \in Picked(i, n) :
        Allowed(S) /\ job' = [j \in JobId |-> IF j \in S THEN "active" ELSE job[j]]
  BY DEF Fetch
<1>1. PICK S \in Picked(i, n) :
        Allowed(S) /\ job' = [j \in JobId |-> IF j \in S THEN "active" ELSE job[j]]
  BY <1>0
<1>2. /\ S \subseteq JobId
      /\ \A j, k \in S : KeyOf[j] = KeyOf[k] => j = k
  BY DEF Picked, Eligible
<1>. SUFFICES ASSUME NEW j \in JobId, NEW k \in JobId, job'[j] = "active", job'[k] = "active",
                     KeyOf[j] = KeyOf[k]
              PROVE  j = k
  BY DEF OneActivePerKey
<1>3. ASSUME NEW a \in JobId, NEW b \in JobId, a \in S, job[b] = "active" PROVE KeyOf[a] # KeyOf[b]
  <2>1. KeyOf[b] \in ActiveKeys BY <1>3 DEF ActiveKeys
  <2>. QED BY <1>1, <1>3, <2>1 DEF Allowed
<1>4. /\ j \in S \/ job[j] = "active"
      /\ k \in S \/ job[k] = "active"
  BY <1>1
<1>. QED BY <1>2, <1>3, <1>4 DEF OneActivePerKey

\* No step makes a second job of a key active (job_singleton, fetchNextJob).
LEMMA PolicyStep ==
  ASSUME TypeOK, OneActivePerKey, [Next]_vars
  PROVE  OneActivePerKey'
<1>1. ASSUME \A j \in JobId : job'[j] = "active" => job[j] = "active" PROVE OneActivePerKey'
  BY <1>1 DEF OneActivePerKey
<1>2. CASE job' = job BY <1>1, <1>2
<1>3. ASSUME NEW j \in JobId, Send(j) \/ Settle(j) PROVE OneActivePerKey'
  BY <1>1, <1>3 DEF Send, Settle, TypeOK
<1>4. CASE Deleted BY <1>1, <1>4 DEF Deleted
<1>5. ASSUME NEW i \in Instance, Fetch(i) PROVE OneActivePerKey'
  BY <1>5, FetchKeepsPolicy
<1>. QED
  BY <1>2, <1>3, <1>4, <1>5
  DEF Next, vars, Calls, Refresh, Lookup, LookupRead, Found, ReadBack, Evict, RefreshRead,
      RefreshApply, CreateQueue, UpdateQueue, DeleteQueue, Elsewhere, Stats

\* Two workers never hold two jobs of one key: not through one batch, which takes one
\* job of each key, nor through batches of instances whose cached keys are stale.
THEOREM KeysAreExclusive == Spec => []OneActivePerKey
<1>1. Init => OneActivePerKey BY DEF Init, OneActivePerKey
<1>2. IndInv /\ OneActivePerKey /\ [Next]_vars => OneActivePerKey' BY PolicyStep DEF IndInv
<1>. QED BY <1>1, <1>2, Invariance, PTL DEF Spec

\* A nonempty set of numbers has a least one.
LEMMA LeastJob ==
  ASSUME NEW T \in SUBSET Nat, T # {}
  PROVE  \E m \in T : \A k \in T : m <= k
<1>. DEFINE R == OpToRel(<, Nat)
<1>1. IsWellFoundedOn(R, Nat) BY NatLessThanWellFounded
<1>2. ASSUME NEW x \in Nat, NEW y \in Nat, x < y PROVE <<x, y>> \in R BY <1>2 DEF OpToRel
<1>. HIDE DEF R
<1>3. PICK m \in T : \A k \in T : ~(<<k, m>> \in R) BY <1>1, WFMin
<1>4. ASSUME NEW k \in T PROVE m <= k
  <2>1. k \in Nat /\ m \in Nat OBVIOUS
  <2>2. ~(k < m) BY <1>2, <1>3, <2>1
  <2>. QED BY <2>1, <2>2
<1>. QED BY <1>4

\* A batch holds a row of each key among the rows the query looks at.
LEMMA BatchesExist ==
  ASSUME NEW i \in Instance, NEW n \in 1..BatchSize, Eligible(i) # {}
  PROVE  /\ Picked(i, n) # {}
         /\ \A S \in Picked(i, n) : S # {} /\ S \subseteq Eligible(i)
<1>. DEFINE Before(j) == {k \in Eligible(i) : k < j}
            Limited == {j \in Eligible(i) : Cardinality(Before(j)) < n}
            First(key) == CHOOSE j \in Limited : KeyOf[j] = key
            Firsts == {First(KeyOf[j]) : j \in Limited}
<1>1. Eligible(i) \in SUBSET JobId /\ JobId \in SUBSET Nat
  BY JobAssumption DEF Eligible
<1>2. PICK m \in Eligible(i) : \A k \in Eligible(i) : m <= k BY <1>1, LeastJob
<1>3. m \in Limited
  <2>1. Before(m) = {}
    <3>1. ASSUME NEW k \in Eligible(i) PROVE ~(k < m)
      <4>1. k \in Nat /\ m \in Nat /\ m <= k BY <1>1, <1>2
      <4>. QED BY <4>1
    <3>. QED BY <3>1
  <2>2. Cardinality({}) = 0 BY FS_EmptySet
  <2>3. 0 < n BY BoundAssumption
  <2>. QED BY <2>1, <2>2, <2>3
<1>4. Picked(i, n) = {S \in SUBSET Limited :
                        /\ \A j, k \in S : KeyOf[j] = KeyOf[k] => j = k
                        /\ {KeyOf[j] : j \in S} = {KeyOf[j] : j \in Limited}}
  BY DEF Picked
<1>5. Limited \subseteq Eligible(i) OBVIOUS
<1>. HIDE DEF Limited
<1>6. ASSUME NEW j \in Limited
      PROVE  First(KeyOf[j]) \in Limited /\ KeyOf[First(KeyOf[j])] = KeyOf[j]
  BY <1>6
<1>. HIDE DEF First
<1>7. Firsts \in Picked(i, n)
  <2>1. Firsts \in SUBSET Limited BY <1>6
  <2>2. \A j, k \in Firsts : KeyOf[j] = KeyOf[k] => j = k BY <1>6
  <2>3. {KeyOf[j] : j \in Firsts} = {KeyOf[j] : j \in Limited} BY <1>6
  <2>. QED BY <1>4, <2>1, <2>2, <2>3
<1>8. ASSUME NEW S \in Picked(i, n) PROVE S # {} /\ S \subseteq Eligible(i)
  <2>1. S \subseteq Limited /\ KeyOf[m] \in {KeyOf[j] : j \in S} BY <1>3, <1>4
  <2>. QED BY <1>5, <2>1
<1>. QED BY <1>7, <1>8

\* The part of NoHeadOfLine that needs no fairness: once the statistics have reached
\* the cache, the jobs of active keys hold nobody up (fetchNextJob leaves them out).
\* It is a theorem about the query, in whatever state it runs.
THEOREM FreshFetchesGoThrough == FreshFetchesSucceed
<1>. SUFFICES ASSUME NEW i \in Instance, UpToDate(i), Eligible(i) # {}, NEW n \in 1..BatchSize
              PROVE  /\ Picked(i, n) # {}
                     /\ \A S \in Picked(i, n) : S # {} /\ Allowed(S)
  BY DEF FreshFetchesSucceed
<1>1. /\ Picked(i, n) # {}
      /\ \A S \in Picked(i, n) : S # {} /\ S \subseteq Eligible(i)
  BY BatchesExist
<1>2. ASSUME NEW S \in Picked(i, n) PROVE Allowed(S)
  BY <1>1, <1>2 DEF Allowed, Eligible, UpToDate
<1>. QED BY <1>1, <1>2

-----------------------------------------------------------------------------
(* Convergence.                                                             *)

\* Whatever an instance holds of the queue, in its cache, in a call or in a refresh
\* that it has read and not applied, is the row or nothing.
Agrees(i) ==
  /\ cache[i] \in {NoRow, row}
  /\ refresh[i] \in {Unread, NoRow, row}
  /\ op[i].got \in {NoRow, row}

\* A step that leaves the row alone keeps the instances that agree with it.
AgreementLasts == \A i \in Instance : Agrees(i) /\ row' = row => Agrees(i)'

LEMMA AgreementStep ==
  ASSUME TypeOK, NEW k \in Instance, Agrees(k), row' = row, [Next]_vars
  PROVE  Agrees(k)'
<1>0. /\ cache \in [Instance -> Row] /\ refresh \in [Instance -> Row \cup {Unread}]
      /\ DOMAIN op = Instance
      /\ \A i \in Instance : op[i].got \in Row
  BY DEF TypeOK
<1>1. ASSUME UNCHANGED <<cache, refresh>>, op'[k].got \in {NoRow, row} PROVE Agrees(k)'
  BY <1>1 DEF Agrees
<1>2. ASSUME NEW i \in Instance, Lookup(i) PROVE op'[k].got \in {NoRow, row}
  BY <1>0, <1>2 DEF Lookup, Agrees
<1>3. ASSUME NEW i \in Instance, NEW at, NEW got \in {NoRow, row}, SetOp(i, at, got)
      PROVE  op'[k].got \in {NoRow, row}
  BY <1>0, <1>3 DEF SetOp, Agrees
<1>4. ASSUME NEW i \in Instance, Return(i) PROVE op'[k].got \in {NoRow, row}
  BY <1>0, <1>4 DEF Return, Idle, Agrees
<1>5. ASSUME NEW answer \in Answers PROVE answer \in {NoRow, row}
  BY DEF Answers
<1>6. ASSUME NEW i \in Instance, LookupRead(i) PROVE Agrees(k)'
  BY <1>1, <1>3, <1>4, <1>5, <1>6 DEF LookupRead
<1>7. ASSUME NEW i \in Instance, Found(i) \/ Evict(i) PROVE Agrees(k)'
  <2>1. op'[k].got \in {NoRow, row} BY <1>4, <1>7 DEF Found, Evict
  <2>2. cache'[k] \in {NoRow, row} BY <1>0, <1>7 DEF Found, Evict, SetCache, Agrees
  <2>. QED BY <1>7, <2>1, <2>2 DEF Found, Evict, Agrees
<1>8. ASSUME NEW i \in Instance, ReadBack(i) PROVE Agrees(k)'
  BY <1>1, <1>3, <1>5, <1>8 DEF ReadBack
<1>9. ASSUME NEW i \in Instance, Refresh(i) PROVE Agrees(k)'
  <2>1. op' = op BY <1>9 DEF Refresh, RefreshRead, RefreshApply
  <2>2. refresh'[k] \in {Unread, NoRow, row}
    BY <1>0, <1>5, <1>9 DEF Refresh, RefreshRead, RefreshApply, Agrees
  <2>3. cache'[k] \in {NoRow, row}
    BY <1>0, <1>9 DEF Refresh, RefreshRead, RefreshApply, SetCache, Agrees
  <2>. QED BY <2>1, <2>2, <2>3 DEF Agrees
<1>10. ASSUME NEW i \in Instance, CreateQueue(i) \/ UpdateQueue(i) PROVE Agrees(k)'
  BY <1>1, <1>3, <1>10 DEF CreateQueue, UpdateQueue
<1>11. Away[k].got = op[k].got BY <1>0 DEF Away
<1>12. ASSUME NEW i \in Instance, DeleteQueue(i) PROVE Agrees(k)'
  <2>1. op' = [Away EXCEPT ![i] = [at |-> "evict", got |-> NoRow, away |-> FALSE]]
    BY <1>12 DEF DeleteQueue
  <2>2. op'[k].got \in {NoRow, row} BY <1>11, <2>1 DEF Away, Agrees
  <2>. QED BY <1>1, <1>12, <2>2 DEF DeleteQueue
<1>13. CASE Elsewhere
  <2>1. op'[k].got \in {NoRow, row} BY <1>11, <1>13 DEF Elsewhere, Agrees
  <2>. QED BY <1>1, <1>13, <2>1 DEF Elsewhere
<1>14. CASE UNCHANGED <<cache, refresh, op>> BY <1>1, <1>14 DEF Agrees
<1>15. ASSUME NEW i \in Instance, Calls(i) PROVE Agrees(k)'
  BY <1>1, <1>2, <1>6, <1>7, <1>8, <1>15 DEF Calls, Lookup
<1>. QED
  BY <1>9, <1>10, <1>12, <1>13, <1>14, <1>15
  DEF Next, vars, Fetch, Send, Settle, Stats

\* The part of Converges that needs no fairness: wrong-empty answers, read-backs and
\* refreshes in flight included, an instance that agrees with the row disagrees again
\* only when somebody changes it.
THEOREM ConvergenceLasts == Spec => [][AgreementLasts]_vars
<1>1. TypeOK /\ [Next]_vars => AgreementLasts BY AgreementStep DEF AgreementLasts
<1>. QED BY <1>1, TypeCorrect, PTL DEF Spec
=============================================================================
