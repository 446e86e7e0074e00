----------------------------- MODULE FlowProofs -----------------------------
(***************************************************************************)
(* Proofs about Flow, for every set of jobs and navigators, every graph of *)
(* dependencies, and every batch size.                                     *)
(*                                                                         *)
(* The counter of a child is a cardinality: the number of parents it still *)
(* waits for.  IndInv says so, and that claims are exclusive and hold      *)
(* completed parents that were not resolved before; a statement therefore  *)
(* subtracts exactly the parents it resolves (Subtraction).  A counter at  *)
(* zero then means that nothing is waited for, which is what the abstract  *)
(* specification asks of Release.                                          *)
(*                                                                         *)
(* Circles: the rounds of Visited reach all jobs exactly when no set of    *)
(* them waits only for itself.  Nothing is overlooked: an unresolved       *)
(* parent of a stored child stays blocking, so that its query returns it.  *)
(***************************************************************************)
EXTENDS Flow, FiniteSetTheorems, WellFoundedInduction, TLAPS

-----------------------------------------------------------------------------
(* Sets of parents.                                                         *)

LEMMA FiniteParents ==
  ASSUME NEW S \in SUBSET JobId
  PROVE  IsFiniteSet(S) /\ Cardinality(S) \in Nat
BY JobIdAssumption, FS_Subset, FS_CardinalityType

LEMMA ZeroMeansNone ==
  ASSUME NEW S \in SUBSET JobId
  PROVE  Cardinality(S) = 0 <=> S = {}
BY FiniteParents, FS_EmptySet

LEMMA Subtraction ==
  ASSUME NEW S \in SUBSET JobId, NEW T \in SUBSET S
  PROVE  /\ Cardinality(S \ T) = Cardinality(S) - Cardinality(T)
         /\ Cardinality(T) <= Cardinality(S)
         /\ Cardinality(S) \in Nat /\ Cardinality(T) \in Nat
         /\ Cardinality(T) = 0 <=> T = {}
<1>1. S \cap T = T OBVIOUS
<1>2. T \in SUBSET JobId OBVIOUS
<1>3. IsFiniteSet(S) /\ Cardinality(S) \in Nat BY FiniteParents
<1>4. Cardinality(T) \in Nat /\ (Cardinality(T) = 0 <=> T = {})
  BY <1>2, FiniteParents, ZeroMeansNone
<1>5. Cardinality(S \ T) = Cardinality(S) - Cardinality(S \cap T) BY <1>3, FS_Difference
<1>6. Cardinality(T) <= Cardinality(S) BY <1>3, FS_Subset
<1>. QED BY <1>1, <1>3, <1>4, <1>5, <1>6

LEMMA RowFields ==
  ASSUME TypeOK, NEW i \in JobId
  PROVE  /\ job[i].state \in State \cup {"absent", "unused"}
         /\ job[i].blocked \in BOOLEAN /\ job[i].blocking \in BOOLEAN
         /\ job[i].pending \in Nat
BY DEF TypeOK, Row

LEMMA NoPassType == NoPass \in Pass /\ NoPass.claimed = {} /\ NoPass.moved = {}
BY TableAssumption DEF NoPass, Auditing, Pass

LEMMA AuditingType ==
  ASSUME NEW t \in 0..Tables
  PROVE  Auditing(t) \in Pass /\ Auditing(t).claimed = {} /\ Auditing(t).moved = {}
BY DEF Auditing, Pass

LEMMA OnwardType ==
  ASSUME NEW pass \in Pass
  PROVE  Onward(pass) \in Pass /\ Onward(pass).claimed = {}
<1>1. pass.table \in 0..Tables BY DEF Pass
<1>2. CASE pass.table = Tables BY <1>2, NoPassType DEF Onward
<1>3. CASE pass.table # Tables
  <2>1. pass.table + 1 \in 0..Tables BY <1>1, <1>3, TableAssumption
  <2>. QED BY <2>1, <1>3, AuditingType DEF Onward
<1>. QED BY <1>2, <1>3

LEMMA AfterBatchType ==
  ASSUME NEW pass \in Pass
  PROVE  AfterBatch(pass) \in Pass /\ AfterBatch(pass).claimed = {}
<1>1. pass.table \in 0..Tables /\ pass.batches + 1 \in Nat BY DEF Pass
<1>2. [Auditing(pass.table) EXCEPT !.batches = pass.batches + 1] \in Pass
  BY <1>1 DEF Auditing, Pass
<1>3. [Auditing(pass.table) EXCEPT !.batches = pass.batches + 1].claimed = {}
  BY DEF Auditing
<1>. QED BY <1>2, <1>3, OnwardType DEF AfterBatch

-----------------------------------------------------------------------------
(* Steps that leave the counters alone.                                     *)

\* Only the states of rows change, or a row is completed by hand.
LEMMA KeepCounters ==
  ASSUME IndInv, UNCHANGED <<plan, resolved, missed>>, forced \subseteq forced',
         \A i \in Stored' :
           \/ i \in forced' /\ job'[i].pending = 0 /\ ~job'[i].blocked
           \/ /\ i \in Stored
              /\ job'[i].pending = job[i].pending /\ job'[i].blocked = job[i].blocked
  PROVE  PendingExact'
<1> SUFFICES ASSUME NEW c \in Stored'
             PROVE  /\ c \notin forced' => job'[c].pending = Cardinality(Waits(c)')
                    /\ job'[c].blocked <=> job'[c].pending > 0
  BY DEF PendingExact
<1>1. Waits(c)' = Waits(c) BY DEF Waits, Needs
<1>2. CASE c \in forced' /\ job'[c].pending = 0 /\ ~job'[c].blocked BY <1>2
<1>3. CASE c \in Stored /\ job'[c].pending = job[c].pending /\ job'[c].blocked = job[c].blocked
  <2>1. /\ c \notin forced => job[c].pending = Cardinality(Waits(c))
        /\ job[c].blocked <=> job[c].pending > 0
    BY <1>3 DEF IndInv, PendingExact
  <2>. QED BY <1>1, <1>3, <2>1
<1>. QED BY <1>2, <1>3

\* A row gets another state (s), or is completed by hand.
LEMMA CommandTypes ==
  ASSUME TypeOK, NEW i \in JobId, Command(i)
  PROVE  TypeOK'
<1> USE DEF TypeOK, history, store
<1>1. ASSUME NEW s \in State, SetState(i, s) PROVE job' \in [JobId -> Row]
  BY <1>1 DEF SetState, Row, State
<1>2. CASE Fetch(i) BY <1>1, <1>2 DEF Fetch, State
<1>3. CASE Complete(i) BY <1>1, <1>3 DEF Complete, State
<1>4. CASE CompleteQueued(i) BY <1>4 DEF CompleteQueued, Row, State
<1>5. ASSUME NEW s \in {"queued", "stopped"}, Fail(i, s) PROVE TypeOK'
  <2>1. job' \in [JobId -> Row] BY <1>1, <1>5 DEF Fail, State
  <2>2. nav' \in [Navigator -> Pass] BY <1>5 DEF Fail, Pass
  <2>. QED BY <1>5, <2>1, <2>2 DEF Fail
<1>6. CASE Cancel(i) BY <1>1, <1>6 DEF Cancel, State
<1>7. CASE Requeue(i) BY <1>1, <1>7 DEF Requeue, State
<1>8. CASE Delete(i) BY <1>8 DEF Delete, NoRow, Row, State
<1>. QED BY <1>2, <1>3, <1>4, <1>5, <1>6, <1>7, <1>8 DEF Command

\* Most commands give a row another state.
Restated(i, s) ==
  /\ job[i].state \in {"queued", "active", "stopped"}
  /\ job' = [job EXCEPT ![i].state = s]
  /\ s = "active" => ~job[i].blocked
  /\ s = "completed" => job[i].state = "active"
  /\ finished' = IF s = "completed" THEN finished \cup {i} ELSE finished
  /\ forced' = forced

LEMMA CommandShapes ==
  ASSUME TypeOK, NEW i \in JobId, Command(i)
  PROVE  /\ UNCHANGED <<dep, plan, resolved, missed>>
         /\ \A n \in Navigator : nav'[n].claimed = nav[n].claimed
         /\ (\E s \in State : Restated(i, s)) \/ CompleteQueued(i) \/ Delete(i)
<1> USE DEF history, store
<1>1. ASSUME NEW n \in Navigator PROVE nav[n] \in Pass BY DEF TypeOK
<1>2. CASE Fetch(i)
  <2>1. Restated(i, "active") BY <1>2 DEF Fetch, SetState, Restated
  <2>. QED BY <1>2, <2>1 DEF Fetch, State
<1>3. CASE Complete(i)
  <2>1. Restated(i, "completed") BY <1>3 DEF Complete, SetState, Restated
  <2>. QED BY <1>3, <2>1 DEF Complete, State
<1>4. CASE CompleteQueued(i) BY <1>4 DEF CompleteQueued
<1>5. ASSUME NEW s \in {"queued", "stopped"}, Fail(i, s)
      PROVE  /\ UNCHANGED <<dep, plan, resolved, missed>>
             /\ \A n \in Navigator : nav'[n].claimed = nav[n].claimed
             /\ \E t \in State : Restated(i, t)
  <2>1. Restated(i, s) BY <1>5 DEF Fail, SetState, Restated, Live
  <2>2. \A n \in Navigator : nav'[n].claimed = nav[n].claimed BY <1>1, <1>5 DEF Fail, Pass
  <2>3. s \in State BY DEF State
  <2>. QED BY <1>5, <2>1, <2>2, <2>3 DEF Fail
<1>6. CASE Cancel(i)
  <2>1. Restated(i, "stopped") BY <1>6 DEF Cancel, SetState, Restated, Live
  <2>. QED BY <1>6, <2>1 DEF Cancel, State
<1>7. CASE Requeue(i)
  <2>1. Restated(i, "queued") BY <1>7 DEF Requeue, SetState, Restated
  <2>. QED BY <1>7, <2>1 DEF Requeue, State
<1>8. CASE Delete(i) BY <1>8 DEF Delete
<1>. QED BY <1>2, <1>3, <1>4, <1>5, <1>6, <1>7, <1>8 DEF Command

\* The rows after each shape of command.
LEMMA RestatedRows ==
  ASSUME TypeOK, NEW i \in JobId, NEW s \in State, Restated(i, s)
  PROVE  /\ \A j \in JobId \ {i} : job'[j] = job[j]
         /\ job'[i].state = s /\ job'[i].pending = job[i].pending
         /\ job'[i].blocked = job[i].blocked /\ job'[i].blocking = job[i].blocking
         /\ i \in Stored /\ Stored' = Stored
         /\ job[i].state # "completed" /\ job[i].state # "unused"
<1>1. job \in [JobId -> Row] BY DEF TypeOK
<1>2. job' = [job EXCEPT ![i].state = s] BY DEF Restated
<1>3. /\ \A j \in JobId \ {i} : job'[j] = job[j]
      /\ job'[i].state = s /\ job'[i].pending = job[i].pending
      /\ job'[i].blocked = job[i].blocked /\ job'[i].blocking = job[i].blocking
  BY <1>1, <1>2 DEF Row
<1>4. job[i].state \in State /\ job[i].state # "completed" /\ job[i].state # "unused"
  BY DEF Restated, State
<1>. QED BY <1>3, <1>4 DEF Stored

LEMMA CompleteQueuedRows ==
  ASSUME TypeOK, NEW i \in JobId, CompleteQueued(i)
  PROVE  /\ \A j \in JobId \ {i} : job'[j] = job[j]
         /\ job'[i].state = "completed" /\ job'[i].pending = 0 /\ ~job'[i].blocked
         /\ job'[i].blocking = job[i].blocking
         /\ i \in Stored /\ Stored' = Stored
         /\ job[i].state # "completed" /\ job[i].state # "unused"
<1>1. job \in [JobId -> Row] BY DEF TypeOK
<1>2. job' = [job EXCEPT ![i].state = "completed", ![i].blocked = FALSE, ![i].pending = 0]
  BY DEF CompleteQueued
<1>3. /\ \A j \in JobId \ {i} : job'[j] = job[j]
      /\ job'[i].state = "completed" /\ job'[i].pending = 0 /\ job'[i].blocked = FALSE
      /\ job'[i].blocking = job[i].blocking
  BY <1>1, <1>2 DEF Row
<1>4. job[i].state \in State /\ job[i].state # "completed" /\ job[i].state # "unused"
  BY DEF CompleteQueued, State, Live
<1>5. "completed" \in State BY DEF State
<1>. QED BY <1>3, <1>4, <1>5 DEF Stored

LEMMA DeleteRows ==
  ASSUME TypeOK, NEW i \in JobId, Delete(i)
  PROVE  /\ \A j \in JobId \ {i} : job'[j] = job[j]
         /\ job'[i].state = "absent" /\ ~job'[i].blocked /\ ~job'[i].blocking
         /\ i \in Stored /\ Stored' = Stored \ {i} /\ job[i].state # "unused"
         /\ finished' = finished /\ forced' = forced
<1>1. job \in [JobId -> Row] BY DEF TypeOK
<1>2. job' = [job EXCEPT ![i] = NoRow("absent")] /\ i \in Stored
      /\ finished' = finished /\ forced' = forced
  BY DEF Delete, history
<1>3. /\ \A j \in JobId \ {i} : job'[j] = job[j]
      /\ job'[i].state = "absent" /\ job'[i].blocked = FALSE /\ job'[i].blocking = FALSE
  BY <1>1, <1>2 DEF NoRow
<1>4. "absent" \notin State /\ job[i].state # "unused" BY <1>2 DEF Stored, State
<1>. QED BY <1>2, <1>3, <1>4 DEF Stored

LEMMA CommandBookkeeping ==
  ASSUME IndInv, NEW i \in JobId, Command(i)
  PROVE  Bookkeeping'
<1>0. TypeOK /\ Bookkeeping BY DEF IndInv
<1>1. /\ UNCHANGED <<dep, plan, resolved, missed>>
      /\ \A n \in Navigator : nav'[n].claimed = nav[n].claimed
      /\ (\E s \in State : Restated(i, s)) \/ CompleteQueued(i) \/ Delete(i)
  BY <1>0, CommandShapes
<1>2. ASSUME NEW s \in State, Restated(i, s) PROVE Bookkeeping'
  <2>1. /\ \A j \in JobId \ {i} : job'[j] = job[j]
        /\ job'[i].state = s /\ job'[i].pending = job[i].pending
        /\ job'[i].blocked = job[i].blocked /\ job'[i].blocking = job[i].blocking
        /\ i \in Stored /\ Stored' = Stored
        /\ job[i].state # "completed" /\ job[i].state # "unused"
    BY <1>0, <1>2, RestatedRows
  <2>2. \A n \in Navigator : \A p \in nav[n].claimed : p \in JobId \ {i}
    BY <1>0, <2>1 DEF Bookkeeping, TypeOK, Pass
  <2>3. /\ s = "completed" => i \in finished'
        /\ s \in {"active", "completed"} => ~job[i].blocked
        /\ finished \subseteq finished' /\ finished' \subseteq finished \cup {i}
        /\ forced' = forced
    BY <1>0, <1>2 DEF Restated, Bookkeeping
  <2>4. s # "unused" BY DEF State
  <2>. QED BY <1>0, <1>1, <2>1, <2>2, <2>3, <2>4 DEF Bookkeeping
<1>3. CASE CompleteQueued(i)
  <2>1. /\ \A j \in JobId \ {i} : job'[j] = job[j]
        /\ job'[i].state = "completed" /\ ~job'[i].blocked
        /\ job'[i].blocking = job[i].blocking
        /\ i \in Stored /\ Stored' = Stored
        /\ job[i].state # "completed" /\ job[i].state # "unused"
    BY <1>0, <1>3, CompleteQueuedRows
  <2>2. \A n \in Navigator : \A p \in nav[n].claimed : p \in JobId \ {i}
    BY <1>0, <2>1 DEF Bookkeeping, TypeOK, Pass
  <2>3. finished' = finished \cup {i} /\ forced' \subseteq forced \cup {i}
    BY <1>3 DEF CompleteQueued
  <2>. QED BY <1>0, <1>1, <2>1, <2>2, <2>3 DEF Bookkeeping
<1>4. CASE Delete(i)
  <2>1. /\ \A j \in JobId \ {i} : job'[j] = job[j]
        /\ job'[i].state = "absent" /\ ~job'[i].blocked /\ ~job'[i].blocking
        /\ i \in Stored /\ Stored' = Stored \ {i} /\ finished' = finished /\ forced' = forced
    BY <1>0, <1>4, DeleteRows
  <2>2. \A n \in Navigator : \A p \in nav[n].claimed : p \in JobId \ {i}
    BY <1>0, <1>4 DEF Delete, Locked, TypeOK, Pass
  <2>. QED BY <1>0, <1>1, <2>1, <2>2 DEF Bookkeeping
<1>. QED BY <1>1, <1>2, <1>3, <1>4

LEMMA CommandCounters ==
  ASSUME IndInv, NEW i \in JobId, Command(i)
  PROVE  PendingExact'
<1>0. TypeOK /\ Bookkeeping /\ PendingExact BY DEF IndInv
<1>1. UNCHANGED <<dep, plan, resolved, missed>> BY <1>0, CommandShapes
<1>2. ASSUME NEW s \in State, Restated(i, s) PROVE PendingExact'
  <2>1. /\ \A j \in JobId \ {i} : job'[j] = job[j]
        /\ job'[i].pending = job[i].pending /\ job'[i].blocked = job[i].blocked
        /\ Stored' = Stored
    BY <1>0, <1>2, RestatedRows
  <2>2. Stored \subseteq JobId /\ forced' = forced BY <1>2 DEF Stored, Restated
  <2>. QED BY <1>1, <2>1, <2>2, KeepCounters
<1>3. CASE CompleteQueued(i)
  <2>1. /\ \A j \in JobId \ {i} : job'[j] = job[j]
        /\ job'[i].pending = 0 /\ ~job'[i].blocked
        /\ i \in Stored /\ Stored' = Stored
    BY <1>0, <1>3, CompleteQueuedRows
  <2>2. Stored \subseteq JobId /\ forced \subseteq forced'
    BY <1>3 DEF Stored, CompleteQueued
  <2>3. i \in forced' \/ (job'[i].pending = job[i].pending /\ job'[i].blocked = job[i].blocked)
    <3>1. CASE job[i].blocked BY <1>3, <3>1 DEF CompleteQueued
    <3>2. CASE ~job[i].blocked
      <4>1. job[i].blocked = FALSE /\ job[i].pending \in Nat /\ ~(job[i].pending > 0)
        BY <1>0, <2>1, <3>2, RowFields DEF PendingExact
      <4>2. job'[i].blocked = FALSE BY <1>3, <1>0 DEF CompleteQueued, TypeOK, Row
      <4>3. job[i].pending = 0 BY <4>1
      <4>. QED BY <2>1, <4>1, <4>2, <4>3
    <3>. QED BY <3>1, <3>2
  <2>. QED BY <1>1, <2>1, <2>2, <2>3, KeepCounters
<1>4. CASE Delete(i)
  <2>1. /\ \A j \in JobId \ {i} : job'[j] = job[j]
        /\ Stored' = Stored \ {i} /\ forced' = forced
    BY <1>0, <1>4, DeleteRows
  <2>2. Stored \subseteq JobId BY DEF Stored
  <2>. QED BY <1>1, <2>1, <2>2, KeepCounters
<1>. QED BY <1>0, <1>2, <1>3, <1>4, CommandShapes

-----------------------------------------------------------------------------
(* Creating a flow, and removing dependency rows.                           *)

LEMMA CreateFlowRows ==
  ASSUME TypeOK, NEW J \in SUBSET JobId, NEW E \in SUBSET (J \X J), CreateFlow(J, E),
         NEW j \in J
  PROVE  /\ job'[j].state = "queued"
         /\ job'[j].blocked = (DependsOn(j, J, E) # {})
         /\ job'[j].pending = Cardinality(DependsOn(j, J, E))
         /\ DependsOn(j, J, E) \in SUBSET JobId
         /\ job'[j] \in Row
<1>1. job'[j] = FlowRow(j, J, E) BY DEF CreateFlow
<1>2. DependsOn(j, J, E) \in SUBSET JobId BY DEF DependsOn
<1>3. Cardinality(DependsOn(j, J, E)) \in Nat BY <1>2, FiniteParents
<1>4. job'[j] \in Row BY <1>1, <1>3 DEF FlowRow, Row, State
<1>. QED BY <1>1, <1>2, <1>4 DEF FlowRow

LEMMA CreateFlowTypes ==
  ASSUME TypeOK, NEW J \in SUBSET JobId, NEW E \in SUBSET (J \X J), CreateFlow(J, E)
  PROVE  TypeOK'
<1>1. job' \in [JobId -> Row]
  <2>1. \A i \in JobId : job'[i] \in Row
    <3> SUFFICES ASSUME NEW i \in JobId PROVE job'[i] \in Row
      OBVIOUS
    <3>1. CASE i \in J BY <3>1, CreateFlowRows
    <3>2. CASE i \notin J BY <3>2 DEF CreateFlow, TypeOK
    <3>. QED BY <3>1, <3>2
  <2>. QED BY <2>1 DEF CreateFlow
<1>. QED BY <1>1 DEF CreateFlow, TypeOK

LEMMA CreateFlowBookkeeping ==
  ASSUME IndInv, NEW J \in SUBSET JobId, NEW E \in SUBSET (J \X J), CreateFlow(J, E)
  PROVE  Bookkeeping'
<1>0. TypeOK /\ Bookkeeping BY DEF IndInv
<1>1. /\ \A j \in J : job[j].state = "unused"
      /\ \A i \in JobId \ J : job'[i] = job[i]
      /\ dep' = dep \cup E /\ plan' = plan \cup E
      /\ UNCHANGED <<nav, finished, forced, resolved, missed>>
  BY DEF CreateFlow
<1>2. \A j \in J : job'[j].state = "queued" BY <1>0, CreateFlowRows
<1>3. Stored' = Stored \cup J /\ Stored \cap J = {}
  BY <1>1, <1>2 DEF Stored, State
<1>4. \A n \in Navigator : \A p \in nav[n].claimed : p \in JobId \ J
  BY <1>0, <1>1 DEF Bookkeeping, TypeOK, Pass
<1>5. \A j \in J : j \notin resolved /\ j \notin forced BY <1>0, <1>1 DEF Bookkeeping, TypeOK
<1>6. \A i \in JobId :
        /\ job'[i].state = "completed" => i \in finished'
        /\ job'[i].state \in {"active", "completed"} => ~job'[i].blocked
        /\ i \notin Stored' => ~job'[i].blocked /\ ~job'[i].blocking
        /\ i \in resolved' => ~job'[i].blocking
        /\ i \in forced' => ~job'[i].blocked
  BY <1>0, <1>1, <1>2, <1>3, <1>5 DEF Bookkeeping
<1>7. ASSUME NEW i \in JobId, job'[i].state = "unused"
      PROVE  i \notin finished' /\ \A p \in JobId : <<i, p>> \notin plan' /\ <<p, i>> \notin plan'
  BY <1>0, <1>1, <1>2, <1>7 DEF Bookkeeping
<1>8. \A c, p \in Stored' : <<c, p>> \in plan' => <<c, p>> \in dep'
  BY <1>0, <1>1, <1>3 DEF Bookkeeping, Stored
<1>9. \A n \in Navigator : \A p \in nav'[n].claimed :
        job'[p].state = "completed" /\ job'[p].blocking
  BY <1>0, <1>1, <1>4 DEF Bookkeeping
<1>10. /\ \A n, m \in Navigator : n # m => nav'[n].claimed \cap nav'[m].claimed = {}
       /\ resolved' \subseteq finished' /\ dep' \subseteq plan'
       /\ \A d \in missed' : d[2] \in resolved'
  BY <1>0, <1>1 DEF Bookkeeping
<1>. QED BY <1>6, <1>7, <1>8, <1>9, <1>10 DEF Bookkeeping

LEMMA CreateFlowCounters ==
  ASSUME IndInv, NEW J \in SUBSET JobId, NEW E \in SUBSET (J \X J), CreateFlow(J, E)
  PROVE  PendingExact'
<1>0. TypeOK /\ Bookkeeping /\ PendingExact BY DEF IndInv
<1>1. /\ \A j \in J : job[j].state = "unused"
      /\ \A i \in JobId \ J : job'[i] = job[i]
      /\ plan' = plan \cup E
      /\ UNCHANGED <<forced, resolved, missed>>
  BY DEF CreateFlow
<1> SUFFICES ASSUME NEW c \in Stored'
             PROVE  /\ c \notin forced' => job'[c].pending = Cardinality(Waits(c)')
                    /\ job'[c].blocked <=> job'[c].pending > 0
  BY DEF PendingExact
<1>2. c \in JobId BY DEF Stored
<1>3. CASE c \in J
  <2>1. Needs(c)' = DependsOn(c, J, E)
    <3>1. \A p \in JobId : <<c, p>> \notin plan BY <1>0, <1>1, <1>2, <1>3 DEF Bookkeeping
    <3>2. \A p : <<c, p>> \in E => p \in J OBVIOUS
    <3>. QED BY <1>1, <3>1, <3>2 DEF Needs, DependsOn
  <2>2. \A p \in J : p \notin resolved BY <1>0, <1>1 DEF Bookkeeping
  <2>3. DependsOn(c, J, E) \subseteq J BY DEF DependsOn
  <2>4. Waits(c)' = DependsOn(c, J, E) BY <1>1, <2>1, <2>2, <2>3 DEF Waits
  <2>5. /\ job'[c].pending = Cardinality(DependsOn(c, J, E))
        /\ job'[c].blocked <=> DependsOn(c, J, E) # {}
        /\ DependsOn(c, J, E) \in SUBSET JobId
    BY <1>0, <1>3, CreateFlowRows
  <2>6. /\ Cardinality(DependsOn(c, J, E)) \in Nat
        /\ Cardinality(DependsOn(c, J, E)) = 0 <=> DependsOn(c, J, E) = {}
    BY <2>5, FiniteParents, ZeroMeansNone
  <2>7. job'[c].pending = Cardinality(Waits(c)') BY <2>4, <2>5
  <2>8. job'[c].blocked <=> job'[c].pending > 0 BY <2>5, <2>6
  <2>. QED BY <2>7, <2>8
<1>4. CASE c \notin J
  <2>1. job'[c] = job[c] /\ c \in Stored BY <1>1, <1>2, <1>4 DEF Stored
  <2>2. Waits(c)' = Waits(c) BY <1>1, <1>4 DEF Waits, Needs
  <2>. QED BY <1>0, <1>1, <2>1, <2>2 DEF PendingExact
<1>. QED BY <1>3, <1>4

LEMMA CleanupStep ==
  ASSUME IndInv, NEW t \in 1..Tables, CleanupDependencies(t)
  PROVE  IndInv'
<1>0. TypeOK /\ Bookkeeping /\ PendingExact BY DEF IndInv
<1>1. /\ dep' \subseteq dep
      /\ \A d \in dep : d[1] \in Stored /\ d[2] \in Stored => d \in dep'
      /\ UNCHANGED <<job, nav, faults, plan, finished, forced, resolved, missed>>
  BY DEF CleanupDependencies, history
<1>2. Stored' = Stored /\ Stored \subseteq JobId BY <1>1 DEF Stored
<1>3. TypeOK' BY <1>0, <1>1 DEF TypeOK
<1>4. Bookkeeping'
  <2>1. \A c, p \in Stored : <<c, p>> \in plan => <<c, p>> \in dep'
    BY <1>0, <1>1 DEF Bookkeeping
  <2>. QED BY <1>0, <1>1, <1>2, <2>1 DEF Bookkeeping
<1>5. PendingExact' BY <1>1, <1>2, KeepCounters
<1>. QED BY <1>3, <1>4, <1>5 DEF IndInv

-----------------------------------------------------------------------------
(* The steps of a pass.                                                     *)

\* Steps that change what navigators have claimed, and nothing else.
LEMMA PassStep ==
  ASSUME IndInv, UNCHANGED <<store, history>>, faults' \in Nat,
         nav' \in [Navigator -> Pass],
         \A n \in Navigator : \A p \in nav'[n].claimed :
           job[p].state = "completed" /\ job[p].blocking,
         \A n, m \in Navigator : n # m => nav'[n].claimed \cap nav'[m].claimed = {}
  PROVE  IndInv'
<1>0. TypeOK /\ Bookkeeping /\ PendingExact BY DEF IndInv
<1>1. UNCHANGED <<job, dep, plan, finished, forced, resolved, missed>> BY DEF store, history
<1>2. Stored' = Stored /\ Stored \subseteq JobId BY <1>1 DEF Stored
<1>3. TypeOK' BY <1>0, <1>1 DEF TypeOK
<1>4. Bookkeeping' BY <1>0, <1>1, <1>2 DEF Bookkeeping
<1>5. PendingExact' BY <1>1, <1>2, KeepCounters
<1>. QED BY <1>3, <1>4, <1>5 DEF IndInv

\* A navigator that holds nothing afterwards.
LEMMA EmptyHands ==
  ASSUME IndInv, NEW n \in Navigator, NEW pass \in Pass, pass.claimed = {},
         nav' = [nav EXCEPT ![n] = pass], UNCHANGED <<store, history>>, faults' \in Nat
  PROVE  IndInv'
<1>0. TypeOK /\ Bookkeeping BY DEF IndInv
<1>1. nav' \in [Navigator -> Pass] BY <1>0 DEF TypeOK
<1>2. \A m \in Navigator : nav'[m].claimed \subseteq nav[m].claimed BY <1>0 DEF TypeOK
<1>. QED BY <1>0, <1>1, <1>2, PassStep DEF Bookkeeping

LEMMA ClaimStep ==
  ASSUME IndInv, NEW n \in Navigator, NEW B \in SUBSET JobId, Claim(n, B)
  PROVE  IndInv'
<1>0. TypeOK /\ Bookkeeping BY DEF IndInv
<1>1. /\ nav' = [nav EXCEPT ![n].claimed = B]
      /\ B \subseteq Candidates(nav[n].table)
      /\ UNCHANGED <<store, faults, history>>
  BY DEF Claim
<1>2. nav' \in [Navigator -> Pass] BY <1>0, <1>1 DEF TypeOK, Pass
<1>3. nav'[n].claimed = B /\ \A m \in Navigator \ {n} : nav'[m] = nav[m]
  BY <1>0, <1>1 DEF TypeOK, Pass
<1>4. \A p \in B : /\ job[p].state = "completed" /\ job[p].blocking
                   /\ \A m \in Navigator : p \notin nav[m].claimed
  BY <1>1 DEF Candidates, Locked
<1>5. faults' \in Nat BY <1>0, <1>1 DEF TypeOK
<1>6. \A m \in Navigator : \A p \in nav'[m].claimed : job[p].state = "completed" /\ job[p].blocking
  BY <1>0, <1>3, <1>4 DEF Bookkeeping
<1>7. \A k, m \in Navigator : k # m => nav'[k].claimed \cap nav'[m].claimed = {}
  BY <1>0, <1>3, <1>4 DEF Bookkeeping
<1>. QED BY <1>1, <1>2, <1>5, <1>6, <1>7, PassStep

-----------------------------------------------------------------------------
(* The statement that resolves a batch.                                     *)

\* What it writes: the parents lose their flag, a child it reaches is
\* decremented by the number of its parents in the batch.
LEMMA ResolutionRows ==
  ASSUME TypeOK, NEW n \in Navigator, Resolve(n), NEW i \in JobId
  PROVE  /\ job'[i].state = job[i].state
         /\ job'[i].blocking = IF i \in nav[n].claimed THEN FALSE ELSE job[i].blocking
         /\ i \notin Reached(n) =>
              job'[i].blocked = job[i].blocked /\ job'[i].pending = job[i].pending
         /\ i \in Reached(n) =>
              /\ job'[i].blocked = Decremented(job[i], Cardinality(Settles(n, i))).blocked
              /\ job'[i].pending = Decremented(job[i], Cardinality(Settles(n, i))).pending
         /\ job'[i] \in Row
<1> DEFINE k == Cardinality(Settles(n, i))
           r == IF i \in Reached(n) THEN Decremented(job[i], k) ELSE job[i]
<1>1. job[i] \in Row BY DEF TypeOK
<1>2. k \in Nat
  <2>1. Settles(n, i) \in SUBSET JobId BY DEF Settles, TypeOK, Pass
  <2>. QED BY <2>1, FiniteParents
<1>3. Decremented(job[i], k) \in Row /\ Decremented(job[i], k).state = job[i].state
      /\ Decremented(job[i], k).blocking = job[i].blocking
  <2> DEFINE left == IF job[i].pending > k THEN job[i].pending - k ELSE 0
  <2>1. left \in Nat /\ (left > 0) \in BOOLEAN
    <3>. HIDE DEF k
    <3>. QED BY <1>1, <1>2 DEF Row
  <2>2. Decremented(job[i], k) =
          IF k = 0 THEN job[i] ELSE [job[i] EXCEPT !.pending = left, !.blocked = left > 0]
    BY DEF Decremented
  <2>. HIDE DEF k, left
  <2>. QED BY <1>1, <2>1, <2>2 DEF Row
<1>4. r \in Row /\ r.state = job[i].state /\ r.blocking = job[i].blocking
  <2>. HIDE DEF k
  <2>. QED BY <1>1, <1>3
<1>5. job'[i] = IF i \in nav[n].claimed THEN [r EXCEPT !.blocking = FALSE] ELSE r
  BY DEF Resolve, Resolution
<1>6. /\ job'[i] \in Row /\ job'[i].state = r.state
      /\ job'[i].blocked = r.blocked /\ job'[i].pending = r.pending
      /\ job'[i].blocking = IF i \in nav[n].claimed THEN FALSE ELSE r.blocking
  <2>. HIDE DEF r
  <2>. QED BY <1>4, <1>5 DEF Row
<1>7. CASE i \in Reached(n)
  <2>1. r = Decremented(job[i], k) BY <1>7
  <2>. HIDE DEF r
  <2>. QED BY <1>4, <1>6, <1>7, <2>1
<1>8. CASE i \notin Reached(n)
  <2>1. r = job[i] BY <1>8
  <2>. HIDE DEF r
  <2>. QED BY <1>4, <1>6, <1>8, <2>1
<1>. QED BY <1>7, <1>8

LEMMA ResolveTypes ==
  ASSUME TypeOK, NEW n \in Navigator, Resolve(n)
  PROVE  /\ TypeOK'
         /\ nav'[n].claimed = {} /\ \A m \in Navigator \ {n} : nav'[m] = nav[m]
<1>1. job' \in [JobId -> Row]
  <2>1. \A i \in JobId : job'[i] \in Row BY ResolutionRows
  <2>. QED BY <2>1 DEF Resolve, Resolution
<1>2. nav' \in [Navigator -> Pass] /\ nav'[n].claimed = {}
      /\ \A m \in Navigator \ {n} : nav'[m] = nav[m]
  <2>1. nav[n] \in Pass BY DEF TypeOK
  <2>2. AfterBatch(nav[n]) \in Pass /\ AfterBatch(nav[n]).claimed = {} BY <2>1, AfterBatchType
  <2>. QED BY <2>2 DEF Resolve, TypeOK
<1>3. resolved' \subseteq JobId /\ missed' \subseteq plan' BY DEF Resolve, TypeOK, Pass
<1>. QED BY <1>1, <1>2, <1>3 DEF Resolve, TypeOK

LEMMA ResolveBookkeeping ==
  ASSUME IndInv, NEW n \in Navigator, Resolve(n)
  PROVE  Bookkeeping'
<1>0. TypeOK /\ Bookkeeping /\ PendingExact BY DEF IndInv
<1>1. /\ resolved' = resolved \cup nav[n].claimed
      /\ UNCHANGED <<dep, plan, finished, forced>>
  BY DEF Resolve
<1>2. nav'[n].claimed = {} /\ \A m \in Navigator \ {n} : nav'[m] = nav[m]
  BY <1>0, ResolveTypes
<1>3. \A i \in JobId :
        /\ job'[i].state = job[i].state
        /\ job'[i].blocking = IF i \in nav[n].claimed THEN FALSE ELSE job[i].blocking
  BY <1>0, ResolutionRows
<1>4. Stored' = Stored /\ Stored \subseteq JobId BY <1>3 DEF Stored
<1>5. \A i \in JobId : ~job[i].blocked => ~job'[i].blocked
  BY <1>0, ResolutionRows DEF Reached
<1>6. nav[n].claimed \subseteq finished /\ nav[n].claimed \subseteq JobId
  BY <1>0 DEF Bookkeeping, TypeOK, Pass
<1>7. \A m \in Navigator : nav'[m].claimed \subseteq nav[m].claimed
  BY <1>2
<1>8. \A m \in Navigator : \A p \in nav'[m].claimed :
        job'[p].state = "completed" /\ job'[p].blocking
  <2> SUFFICES ASSUME NEW m \in Navigator, NEW p \in nav'[m].claimed
               PROVE  job'[p].state = "completed" /\ job'[p].blocking
    OBVIOUS
  <2>1. m # n /\ p \in nav[m].claimed BY <1>2
  <2>2. p \in JobId BY <1>0, <2>1 DEF TypeOK, Pass
  <2>3. p \notin nav[n].claimed BY <1>0, <2>1 DEF Bookkeeping
  <2>. QED BY <1>0, <1>3, <2>1, <2>2, <2>3 DEF Bookkeeping
<1>9. \A k, m \in Navigator : k # m => nav'[k].claimed \cap nav'[m].claimed = {}
  BY <1>0, <1>7 DEF Bookkeeping
<1>10. \A i \in JobId :
         /\ job'[i].state = "completed" => i \in finished'
         /\ job'[i].state \in {"active", "completed"} => ~job'[i].blocked
         /\ i \notin Stored' => ~job'[i].blocked /\ ~job'[i].blocking
         /\ i \in resolved' => ~job'[i].blocking
         /\ i \in forced' => ~job'[i].blocked
         /\ job'[i].state = "unused" =>
              /\ i \notin finished'
              /\ \A p \in JobId : <<i, p>> \notin plan' /\ <<p, i>> \notin plan'
  BY <1>0, <1>1, <1>3, <1>4, <1>5 DEF Bookkeeping
<1>11. \A d \in missed' : d[2] \in resolved' BY <1>0, <1>1 DEF Bookkeeping, Resolve
<1>. QED BY <1>0, <1>1, <1>4, <1>6, <1>8, <1>9, <1>10, <1>11 DEF Bookkeeping

\* A child that is reached is decremented by exactly what it stops waiting for;
\* one that is not reached waits on for the parents it missed.
LEMMA ResolveCounters ==
  ASSUME IndInv, NEW n \in Navigator, Resolve(n)
  PROVE  PendingExact'
<1>0. TypeOK /\ Bookkeeping /\ PendingExact BY DEF IndInv
<1> DEFINE B == nav[n].claimed
<1>1. /\ resolved' = resolved \cup B
      /\ missed' = missed \cup {d \in plan :
           d[1] \in nav[n].moved /\ job[d[1]].blocked /\ d[2] \in B}
      /\ UNCHANGED <<dep, plan, finished, forced>>
  BY DEF Resolve
<1> SUFFICES ASSUME NEW c \in Stored'
             PROVE  /\ c \notin forced' => job'[c].pending = Cardinality(Waits(c)')
                    /\ job'[c].blocked <=> job'[c].pending > 0
  BY DEF PendingExact
<1>2. c \in Stored /\ c \in JobId BY <1>0, ResolutionRows DEF Stored
<1>3. /\ c \notin forced => job[c].pending = Cardinality(Waits(c))
      /\ job[c].blocked <=> job[c].pending > 0
      /\ job[c].pending \in Nat /\ job[c].blocked \in BOOLEAN
  BY <1>0, <1>2, RowFields DEF PendingExact
<1>4. \A p \in B : /\ p \in JobId /\ p \in Stored /\ p \notin resolved
                   /\ <<c, p>> \in plan <=> <<c, p>> \in dep
  <2>1. \A p \in B : p \in JobId /\ job[p].state = "completed" /\ job[p].blocking
    BY <1>0 DEF Bookkeeping, TypeOK, Pass
  <2>2. \A p \in B : p \in Stored BY <2>1 DEF Stored, State
  <2>. QED BY <1>0, <1>2, <2>1, <2>2 DEF Bookkeeping
<1>5. Waits(c) \in SUBSET JobId BY DEF Waits, Needs
<1>6. Settles(n, c) = B \cap Needs(c) /\ Settles(n, c) \in SUBSET Waits(c)
  BY <1>4 DEF Settles, Needs, Waits
<1>7. CASE c \in Reached(n)
  <2> DEFINE k == Cardinality(Settles(n, c))
  <2>1. \A p \in B : <<c, p>> \notin missed BY <1>0, <1>4 DEF Bookkeeping
  <2>2. \A p : <<c, p>> \in missed' => <<c, p>> \in missed BY <1>1, <1>7 DEF Reached
  <2>3. Waits(c)' = Waits(c) \ Settles(n, c)
    BY <1>1, <1>6, <2>1, <2>2 DEF Waits, Needs
  <2>4. /\ Cardinality(Waits(c) \ Settles(n, c)) = Cardinality(Waits(c)) - k
        /\ k <= Cardinality(Waits(c)) /\ Cardinality(Waits(c)) \in Nat /\ k \in Nat
    BY <1>5, <1>6, Subtraction
  <2>5. /\ job'[c].blocked = Decremented(job[c], k).blocked
        /\ job'[c].pending = Decremented(job[c], k).pending
    BY <1>0, <1>2, <1>7, ResolutionRows
  <2>6. job[c] \in Row BY <1>0, <1>2 DEF TypeOK
  <2>. HIDE DEF k
  <2>7. /\ job'[c].pending = IF job[c].pending > k THEN job[c].pending - k ELSE
                              IF k = 0 THEN job[c].pending ELSE 0
        /\ job'[c].blocked <=> job'[c].pending > 0
    <3>1. CASE k = 0 BY <1>3, <2>5, <3>1 DEF Decremented
    <3>2. CASE k # 0 BY <2>4, <2>5, <2>6, <3>2 DEF Decremented, Row
    <3>. QED BY <3>1, <3>2
  <2>8. c \notin forced => job'[c].pending = Cardinality(Waits(c)')
    BY <1>3, <2>3, <2>4, <2>7
  <2>. QED BY <1>1, <2>7, <2>8
<1>8. CASE c \notin Reached(n)
  <2>1. job'[c].blocked = job[c].blocked /\ job'[c].pending = job[c].pending
    BY <1>0, <1>2, <1>8, ResolutionRows
  <2>2. CASE job[c].blocked
    <3>1. c \in nav[n].moved BY <1>2, <1>8, <2>2 DEF Reached
    <3>2. \A p : <<c, p>> \in missed' <=> <<c, p>> \in missed \/ (<<c, p>> \in plan /\ p \in B)
      BY <1>1, <2>2, <3>1
    <3>3. \A p \in JobId : p \in resolved' <=> p \in resolved \/ p \in B BY <1>1
    <3>4. \A p \in Needs(c) : p \in Waits(c)' <=> p \in Waits(c)
      BY <1>1, <1>4, <3>2, <3>3 DEF Waits, Needs
    <3>5. Waits(c)' = Waits(c) BY <1>1, <3>4 DEF Waits, Needs
    <3>. QED BY <1>1, <1>3, <2>1, <3>5
  <2>3. CASE ~job[c].blocked /\ c \notin forced
    <3>1. job[c].pending = 0 BY <1>3, <2>3
    <3>2. Waits(c) = {} BY <1>3, <1>5, <2>3, <3>1, ZeroMeansNone
    <3>3. \A p : <<c, p>> \in missed' => <<c, p>> \in missed BY <1>1, <2>3
    <3>4. Waits(c)' = {} BY <1>1, <3>2, <3>3 DEF Waits, Needs
    <3>. QED BY <1>1, <1>3, <2>1, <3>2, <3>4
  <2>4. CASE ~job[c].blocked /\ c \in forced BY <1>1, <1>3, <2>1, <2>4
  <2>. QED BY <2>2, <2>3, <2>4
<1>. QED BY <1>7, <1>8

-----------------------------------------------------------------------------
(* The theorems.                                                            *)

LEMMA InitIndInv == Init => IndInv
<1> SUFFICES ASSUME Init PROVE IndInv OBVIOUS
<1> USE DEF Init
<1>1. \A i \in JobId : job[i] = NoRow("unused") OBVIOUS
<1>2. NoRow("unused") \in Row BY DEF NoRow, Row
<1>3. Stored = {} BY <1>1 DEF Stored, State, NoRow
<1>4. TypeOK BY <1>2, NoPassType DEF TypeOK
<1>5. Bookkeeping BY <1>1, <1>3, NoPassType DEF Bookkeeping, NoRow
<1>6. PendingExact BY <1>3 DEF PendingExact
<1>. QED BY <1>4, <1>5, <1>6 DEF IndInv

LEMMA StepIndInv == IndInv /\ [Next]_vars => IndInv'
<1> SUFFICES ASSUME IndInv, [Next]_vars PROVE IndInv' OBVIOUS
<1>0. TypeOK /\ Bookkeeping BY DEF IndInv
<1>1. CASE CreateSomeFlow
  <2>1. PICK J \in SUBSET {i \in JobId : job[i].state = "unused"} :
          \E E \in SUBSET (Plannable \cap (J \X J)) : CreateFlow(J, E)
    BY <1>1 DEF CreateSomeFlow
  <2>2. PICK E \in SUBSET (Plannable \cap (J \X J)) : CreateFlow(J, E) BY <2>1
  <2>3. J \in SUBSET JobId /\ E \in SUBSET (J \X J) OBVIOUS
  <2>. QED BY <1>0, <2>2, <2>3, CreateFlowTypes, CreateFlowBookkeeping, CreateFlowCounters
       DEF IndInv
<1>2. ASSUME NEW i \in JobId, Command(i) PROVE IndInv'
  BY <1>0, <1>2, CommandTypes, CommandBookkeeping, CommandCounters DEF IndInv
<1>3. ASSUME NEW t \in 1..Tables, CleanupDependencies(t) PROVE IndInv'
  BY <1>3, CleanupStep
<1>4. ASSUME NEW n \in Navigator, StartPass(n) PROVE IndInv'
  <2>1. 1 \in 0..Tables BY TableAssumption
  <2>. QED BY <1>0, <1>4, <2>1, AuditingType, EmptyHands DEF StartPass, TypeOK
<1>5. ASSUME NEW n \in Navigator, NothingToResolve(n) PROVE IndInv'
  <2>1. nav[n] \in Pass BY <1>0 DEF TypeOK
  <2>. QED BY <1>0, <1>5, <2>1, OnwardType, EmptyHands DEF NothingToResolve, TypeOK
<1>6. ASSUME NEW n \in Navigator, Resolve(n) PROVE IndInv'
  BY <1>0, <1>6, ResolveTypes, ResolveBookkeeping, ResolveCounters DEF IndInv
<1>7. ASSUME NEW n \in Navigator, NEW B \in SUBSET JobId, Claim(n, B) PROVE IndInv'
  BY <1>7, ClaimStep
<1>8. ASSUME NEW n \in Navigator, Abandon(n) PROVE IndInv'
  <2>1. faults' \in Nat BY <1>0, <1>8 DEF Abandon, TypeOK
  <2>. QED BY <1>8, <2>1, NoPassType, EmptyHands DEF Abandon
<1>9. CASE UNCHANGED vars
  <2>1. UNCHANGED <<store, history, nav, faults>> BY <1>9 DEF vars, store, history
  <2>. QED BY <1>0, <2>1, PassStep DEF TypeOK, Bookkeeping
<1>. QED BY <1>1, <1>2, <1>3, <1>4, <1>5, <1>6, <1>7, <1>8, <1>9 DEF Next, Work

\* Types, exclusive claims, exact counters: in every reachable state.
THEOREM Invariance == Spec => []IndInv
BY InitIndInv, StepIndInv, PTL DEF Spec

\* Columns hold what their types allow.
THEOREM TypeCorrect == Spec => []TypeOK
<1>1. IndInv => TypeOK BY DEF IndInv
<1>. QED BY <1>1, Invariance, PTL

\* No completed parent is counted twice by concurrent navigators, and none is
\* forgotten but for the recorded misses.
THEOREM CountersExact == Spec => []PendingExact
<1>1. IndInv => PendingExact BY DEF IndInv
<1>. QED BY <1>1, Invariance, PTL

LEMMA UnblockedWaitsForNone ==
  ASSUME IndInv, NEW c \in Stored, ~job[c].blocked, c \notin forced
  PROVE  Needs(c) \subseteq finished
<1>0. TypeOK /\ Bookkeeping /\ PendingExact BY DEF IndInv
<1>1. c \in JobId BY DEF Stored
<1>2. job[c].pending = 0 BY <1>0, <1>1, RowFields DEF PendingExact
<1>3. Waits(c) \in SUBSET JobId BY DEF Waits, Needs
<1>4. Waits(c) = {} BY <1>0, <1>2, <1>3, ZeroMeansNone DEF PendingExact
<1>. QED BY <1>0, <1>4 DEF Waits, Bookkeeping, Needs

LEMMA IndImpliesReady == IndInv => ReadyToRun
BY UnblockedWaitsForNone DEF ReadyToRun

\* A job can be fetched only when all it depends on has completed.
THEOREM OnlyWhenReady == Spec => []ReadyToRun
BY IndImpliesReady, Invariance, PTL

-----------------------------------------------------------------------------
(* The refinement.                                                          *)

LEMMA CreateRefines ==
  ASSUME IndInv, NEW J \in SUBSET JobId, NEW E \in SUBSET (J \X J), CreateFlow(J, E)
  PROVE  Promise!Plan(J, E)
<1>0. TypeOK /\ Bookkeeping BY DEF IndInv
<1>1. /\ \A j \in J : job[j].state = "unused"
      /\ \A i \in JobId \ J : job'[i] = job[i]
      /\ plan' = plan \cup E /\ UNCHANGED <<finished, forced>>
  BY DEF CreateFlow
<1>2. \A j \in J : /\ j \notin Stored /\ j \notin finished
                   /\ \A p \in JobId : <<j, p>> \notin plan
  BY <1>0, <1>1 DEF Bookkeeping, Stored, State
<1>3. \A j \in J : job'[j].state = "queued" /\ (job'[j].blocked <=> DependsOn(j, J, E) # {})
  BY <1>0, CreateFlowRows
<1>4. Stored' = Stored \cup J BY <1>1, <1>3 DEF Stored, State
<1>5. Free' = Free \cup {j \in J : \A p \in J : <<j, p>> \notin E}
  BY <1>1, <1>2, <1>3, <1>4 DEF Free, Stored, DependsOn
<1>6. J \cap (Free \cup finished) = {} BY <1>2 DEF Free
<1>7. \A j \in J : Promise!Needs(j) = {} BY <1>2 DEF Promise!Needs
<1>. QED BY <1>1, <1>5, <1>6, <1>7 DEF Promise!Plan

LEMMA CommandRefines ==
  ASSUME IndInv, NEW i \in JobId, Command(i)
  PROVE  Promise!Next \/ UNCHANGED Promise!vars
<1>0. TypeOK /\ Bookkeeping BY DEF IndInv
<1>1. UNCHANGED plan BY <1>0, CommandShapes
<1>2. ASSUME NEW s \in State, Restated(i, s) PROVE Promise!Next \/ UNCHANGED Promise!vars
  <2>1. /\ \A j \in JobId \ {i} : job'[j] = job[j]
        /\ job'[i].blocked = job[i].blocked /\ i \in Stored /\ Stored' = Stored
    BY <1>0, <1>2, RestatedRows
  <2>2. Free' = Free BY <2>1 DEF Free, Stored
  <2>3. CASE s = "completed"
    <3>1. finished' = finished \cup {i} /\ forced' = forced /\ job[i].state = "active"
      BY <1>2, <2>3 DEF Restated
    <3>2. i \in Free BY <1>0, <2>1, <3>1 DEF Free, Bookkeeping
    <3>3. Promise!Finish(i) BY <1>1, <2>2, <3>1, <3>2 DEF Promise!Finish
    <3>. QED BY <3>3 DEF Promise!Next
  <2>4. CASE s # "completed"
    <3>1. finished' = finished /\ forced' = forced BY <1>2, <2>4 DEF Restated
    <3>. QED BY <1>1, <2>2, <3>1 DEF Promise!vars
  <2>. QED BY <2>3, <2>4
<1>3. CASE CompleteQueued(i)
  <2>1. /\ \A j \in JobId \ {i} : job'[j] = job[j]
        /\ ~job'[i].blocked /\ i \in Stored /\ Stored' = Stored
    BY <1>0, <1>3, CompleteQueuedRows
  <2>2. /\ finished' = finished \cup {i}
        /\ forced' = IF job[i].blocked THEN forced \cup {i} ELSE forced
    BY <1>3 DEF CompleteQueued
  <2>3. Free' = Free \cup {i} BY <2>1 DEF Free, Stored
  <2>4. CASE job[i].blocked
    <3>1. Promise!Force(i) BY <1>1, <2>2, <2>3, <2>4 DEF Promise!Force
    <3>. QED BY <3>1 DEF Promise!Next
  <2>5. CASE ~job[i].blocked
    <3>1. i \in Free BY <2>1, <2>5 DEF Free
    <3>2. Promise!Finish(i) BY <1>1, <2>2, <2>3, <2>5, <3>1 DEF Promise!Finish
    <3>. QED BY <3>2 DEF Promise!Next
  <2>. QED BY <2>4, <2>5
<1>4. CASE Delete(i)
  <2>1. /\ \A j \in JobId \ {i} : job'[j] = job[j]
        /\ Stored' = Stored \ {i} /\ finished' = finished /\ forced' = forced
    BY <1>0, <1>4, DeleteRows
  <2>2. Free' = Free \ {i} BY <2>1 DEF Free, Stored
  <2>3. Promise!Remove(i) BY <1>1, <2>1, <2>2 DEF Promise!Remove
  <2>. QED BY <2>3 DEF Promise!Next
<1>. QED BY <1>0, <1>2, <1>3, <1>4, CommandShapes

\* The children a commit unblocks wait for nobody.
LEMMA ResolveRefines ==
  ASSUME IndInv, IndInv', NEW n \in Navigator, Resolve(n)
  PROVE  Promise!Next
<1>0. TypeOK /\ Bookkeeping BY DEF IndInv
<1>1. UNCHANGED <<plan, finished, forced>> BY DEF Resolve
<1>2. \A i \in JobId : job'[i].state = job[i].state /\ (~job[i].blocked => ~job'[i].blocked)
  BY <1>0, ResolutionRows DEF Reached
<1>3. Stored' = Stored BY <1>2 DEF Stored
<1>4. Free \subseteq Free' BY <1>2, <1>3 DEF Free, Stored
<1> DEFINE S == Free' \ Free
<1>5. S \in SUBSET JobId BY DEF Free, Stored
<1>6. Free' = Free \cup S BY <1>4
<1>7. ReadyToRun' BY IndImpliesReady, PTL
<1>8. ASSUME NEW c \in S PROVE Promise!Needs(c) \subseteq finished
  <2>1. c \in Stored' /\ ~job'[c].blocked /\ c \in Stored /\ job[c].blocked /\ c \in JobId
    BY <1>3, <1>8 DEF Free, Stored
  <2>2. c \notin forced' BY <1>0, <1>1, <2>1 DEF Bookkeeping
  <2>3. Needs(c)' \subseteq finished' BY <1>7, <2>1, <2>2 DEF ReadyToRun
  <2>4. Needs(c)' = Promise!Needs(c) BY <1>1 DEF Needs, Promise!Needs
  <2>. QED BY <1>1, <2>3, <2>4
<1>9. Promise!Release(S) BY <1>1, <1>6, <1>8 DEF Promise!Release
<1>. QED BY <1>5, <1>9 DEF Promise!Next

\* Flow implements Dependencies: a job is released only when all it depends on
\* has completed, and every other step means what it promises or nothing.
THEOREM Refinement == Spec => ImplementsDependencies
<1>1. Init => Promise!Init
  BY DEF Init, Promise!Init, Free, Stored, NoRow, State
<1>2. IndInv /\ IndInv' /\ [Next]_vars => [Promise!Next]_(Promise!vars)
  <2> SUFFICES ASSUME IndInv, IndInv', [Next]_vars
               PROVE  Promise!Next \/ UNCHANGED Promise!vars
    OBVIOUS
  <2>1. CASE CreateSomeFlow
    <3>1. PICK J \in SUBSET {i \in JobId : job[i].state = "unused"} :
            \E E \in SUBSET (Plannable \cap (J \X J)) : CreateFlow(J, E)
      BY <2>1 DEF CreateSomeFlow
    <3>2. PICK E \in SUBSET (Plannable \cap (J \X J)) : CreateFlow(J, E) BY <3>1
    <3>3. J \in SUBSET JobId /\ E \in SUBSET (J \X J) OBVIOUS
    <3>4. Promise!Plan(J, E) BY <3>2, <3>3, CreateRefines
    <3>. QED BY <3>3, <3>4 DEF Promise!Next
  <2>2. ASSUME NEW i \in JobId, Command(i) PROVE Promise!Next \/ UNCHANGED Promise!vars
    BY <2>2, CommandRefines
  <2>3. ASSUME NEW n \in Navigator, Resolve(n) PROVE Promise!Next
    BY <2>3, ResolveRefines
  <2>4. ASSUME UNCHANGED <<job, history>> PROVE UNCHANGED Promise!vars
    BY <2>4 DEF Promise!vars, Free, Stored, history
  <2>5. ASSUME NEW t \in 1..Tables, CleanupDependencies(t) PROVE UNCHANGED Promise!vars
    BY <2>4, <2>5 DEF CleanupDependencies
  <2>6. ASSUME NEW n \in Navigator,
               StartPass(n) \/ NothingToResolve(n) \/ Abandon(n) \/ \E B \in SUBSET JobId : Claim(n, B)
        PROVE  UNCHANGED Promise!vars
    BY <2>4, <2>6 DEF StartPass, NothingToResolve, Abandon, Claim, store
  <2>7. CASE UNCHANGED vars BY <2>4, <2>7 DEF vars, history
  <2>. QED BY <2>1, <2>2, <2>3, <2>5, <2>6, <2>7 DEF Next, Work
<1>. QED BY <1>1, <1>2, Invariance, PTL DEF Spec, Promise!Spec, ImplementsDependencies

-----------------------------------------------------------------------------
(* Circles.                                                                 *)

\* A set of numbers has a least one: how the proofs below do without induction.
LEMMA Least ==
  ASSUME NEW T \in SUBSET Nat, T # {}
  PROVE  \E m \in T : \A k \in T : m <= k
<1>. DEFINE R == OpToRel(<, Nat)
<1>1. IsWellFoundedOn(R, Nat) BY NatLessThanWellFounded
<1>2. ASSUME NEW x \in Nat, NEW y \in Nat, x < y PROVE <<x, y>> \in R BY <1>2 DEF OpToRel
<1>. HIDE DEF R
<1>3. PICK m \in T : \A k \in T : ~(<<k, m>> \in R) BY <1>1, WFMin
<1>4. ASSUME NEW k \in T PROVE m <= k 
  <2>1. k \in Nat /\ m \in Nat OBVIOUS
  <2>2. ~(k < m) BY <1>2, <1>3, <2>1
  <2>. QED BY <2>1, <2>2
<1>. QED BY <1>4

\* The jobs a round of Kahn's algorithm visits when V were visited before.
Round(J, E, V) == {j \in J : \A p \in J : <<j, p>> \in E => p \in V}

\* g holds what is visited within each number of rounds up to n.
Rounds(J, E, g, n) ==
  /\ g \in [0..n -> SUBSET J] /\ g[0] = {}
  /\ \A k \in 1..n : g[k] = Round(J, E, g[k - 1])

LEMMA RoundsExist ==
  ASSUME NEW J, NEW E, NEW n \in Nat
  PROVE  \E g : Rounds(J, E, g, n)
<1>. DEFINE T == {m \in Nat : ~ \E g : Rounds(J, E, g, m)}
<1>. SUFFICES ASSUME T # {} PROVE FALSE OBVIOUS
<1>1. T \in SUBSET Nat OBVIOUS
<1>2. PICK m \in T : \A k \in T : m <= k BY <1>1, Least
<1>3. m \in Nat /\ ~ \E g : Rounds(J, E, g, m) OBVIOUS
<1>4. CASE m = 0
  <2>1. Rounds(J, E, [k \in 0..0 |-> {}], 0) BY DEF Rounds
  <2>. QED BY <1>3, <1>4, <2>1
<1>5. CASE m # 0
  <2>1. m - 1 \in Nat /\ m - 1 < m BY <1>3, <1>5
  <2>2. m - 1 \notin T BY <1>2, <2>1, <1>3
  <2>3. PICK g : Rounds(J, E, g, m - 1) BY <2>1, <2>2
  <2>. DEFINE h == [k \in 0..m |-> IF k = m THEN Round(J, E, g[m - 1]) ELSE g[k]]
  <2>4. h \in [0..m -> SUBSET J]
    <3>1. Round(J, E, g[m - 1]) \in SUBSET J BY DEF Round
    <3>. QED BY <1>3, <2>3, <3>1 DEF Rounds
  <2>5. h[0] = {} BY <1>3, <1>5, <2>3 DEF Rounds
  <2>6. ASSUME NEW k \in 1..m PROVE h[k] = Round(J, E, h[k - 1])
    <3>1. h[k - 1] = g[k - 1] BY <1>3
    <3>2. CASE k = m BY <1>3, <3>1, <3>2
    <3>3. CASE k # m
      <4>1. k \in 1..(m - 1) /\ h[k] = g[k] BY <1>3, <3>3
      <4>. QED BY <2>3, <3>1, <4>1 DEF Rounds
    <3>. QED BY <3>2, <3>3
  <2>. HIDE DEF h
  <2>7. Rounds(J, E, h, m) BY <2>4, <2>5, <2>6 DEF Rounds
  <2>. QED BY <1>3, <2>7
<1>. QED BY <1>4, <1>5

\* What is visited is the last of the rounds.
LEMMA VisitedIsLastRound ==
  ASSUME NEW J, NEW E, Cardinality(J) \in Nat
  PROVE  \E g : Rounds(J, E, g, Cardinality(J)) /\ Visited(J, E) = g[Cardinality(J)]
<1>. DEFINE N == Cardinality(J)
            Rec(f) == [n \in 0..N |->
              IF n = 0 THEN {} ELSE {j \in J : \A p \in J : <<j, p>> \in E => p \in f[n - 1]}]
            a == CHOOSE f : f = Rec(f)
<1>1. Visited(J, E) = a[N] BY DEF Visited
<1>2. PICK g : Rounds(J, E, g, N) BY RoundsExist
<1>3. g = Rec(g)
  <2>1. g = [n \in 0..N |-> g[n]] BY <1>2 DEF Rounds
  <2>2. ASSUME NEW n \in 0..N PROVE g[n] = Rec(g)[n]
    <3>1. CASE n = 0 BY <1>2, <3>1 DEF Rounds
    <3>2. CASE n # 0
      <4>1. n \in 1..N BY <3>2
      <4>. QED BY <1>2, <4>1 DEF Rounds, Round
    <3>. QED BY <3>1, <3>2
  <2>3. g = [n \in 0..N |-> Rec(g)[n]] BY <2>1, <2>2, Zenon
  <2>. QED BY <2>3
<1>4. a = Rec(a) BY <1>3
<1>5. Rounds(J, E, a, N)
  <2>. HIDE DEF a
  <2>1. a \in [0..N -> SUBSET J] BY <1>4
  <2>2. a[0] = {} BY <1>4
  <2>3. ASSUME NEW k \in 1..N PROVE a[k] = Round(J, E, a[k - 1])
    <3>1. k \in 0..N /\ k # 0 OBVIOUS
    <3>. QED BY <1>4, <3>1 DEF Round
  <2>. QED BY <2>1, <2>2, <2>3 DEF Rounds
<1>. QED BY <1>1, <1>5

\* A set whose members all depend on one another is never visited.
LEMMA NeverVisited ==
  ASSUME NEW J, NEW E, NEW n \in Nat, NEW g, Rounds(J, E, g, n),
         NEW K \in SUBSET J, \A c \in K : \E p \in K : <<c, p>> \in E
  PROVE  g[n] \cap K = {}
<1>. DEFINE T == {m \in 0..n : g[m] \cap K # {}}
<1>. SUFFICES ASSUME T # {} PROVE FALSE OBVIOUS
<1>1. T \in SUBSET Nat OBVIOUS
<1>2. PICK m \in T : \A k \in T : m <= k BY <1>1, Least
<1>3. m \in 0..n /\ g[m] \cap K # {} OBVIOUS
<1>4. PICK c \in K : c \in g[m] BY <1>3
<1>5. m # 0 BY <1>4 DEF Rounds
<1>6. m - 1 \in 0..n /\ m \in 1..n BY <1>3, <1>5
<1>7. PICK p \in K : <<c, p>> \in E OBVIOUS
<1>8. p \in g[m - 1] BY <1>4, <1>6, <1>7 DEF Rounds, Round
<1>9. m - 1 \in T BY <1>6, <1>8
<1>. QED BY <1>2, <1>3, <1>9
\* What was visited stays visited.
LEMMA RoundsIncrease ==
  ASSUME NEW J, NEW E, NEW n \in Nat, NEW g, Rounds(J, E, g, n)
  PROVE  \A k \in 1..n : g[k - 1] \subseteq g[k]
<1>. DEFINE T == {m \in 1..n : ~(g[m - 1] \subseteq g[m])}
<1>. SUFFICES ASSUME T # {} PROVE FALSE OBVIOUS
<1>1. T \in SUBSET Nat OBVIOUS
<1>2. PICK m \in T : \A k \in T : m <= k BY <1>1, Least
<1>3. m \in 1..n /\ ~(g[m - 1] \subseteq g[m]) OBVIOUS
<1>4. m # 1 BY <1>3 DEF Rounds
<1>5. m - 1 \in 1..n /\ m - 1 < m BY <1>3, <1>4
<1>6. g[(m - 1) - 1] \subseteq g[m - 1] BY <1>2, <1>3, <1>5
<1>7. g[m] = Round(J, E, g[m - 1]) /\ g[m - 1] = Round(J, E, g[(m - 1) - 1])
  BY <1>3, <1>5 DEF Rounds
<1>. QED BY <1>3, <1>6, <1>7 DEF Round

\* Without such a set every round visits one job more.
LEMMA RoundsGrow ==
  ASSUME NEW J, IsFiniteSet(J), NEW E, NEW n \in Nat, NEW g, Rounds(J, E, g, n),
         \A K \in SUBSET J : K # {} => \E c \in K : \A p \in K : <<c, p>> \notin E
  PROVE  g[n] = J \/ Cardinality(g[n]) >= n
<1>. DEFINE T == {m \in 0..n : ~(g[m] = J \/ Cardinality(g[m]) >= m)}
<1>. SUFFICES ASSUME T # {} PROVE FALSE OBVIOUS
<1>1. T \in SUBSET Nat OBVIOUS
<1>2. PICK m \in T : \A k \in T : m <= k BY <1>1, Least
<1>3. m \in 0..n /\ g[m] # J /\ ~(Cardinality(g[m]) >= m) OBVIOUS
<1>4. \A k \in 0..n : /\ g[k] \in SUBSET J /\ IsFiniteSet(g[k])
                      /\ Cardinality(g[k]) \in Nat
  BY FS_Subset, FS_CardinalityType DEF Rounds
<1>5. m # 0 BY <1>3, <1>4
<1>6. m - 1 \in 0..n /\ m \in 1..n /\ m - 1 < m BY <1>3, <1>5
<1>7. m - 1 \notin T BY <1>2, <1>6, <1>3
<1>8. g[m] = Round(J, E, g[m - 1]) BY <1>6 DEF Rounds
<1>9. g[m - 1] \subseteq g[m] BY <1>6, RoundsIncrease
<1>10. g[m - 1] # J BY <1>3, <1>4, <1>6, <1>9
<1>11. Cardinality(g[m - 1]) >= m - 1 BY <1>6, <1>7, <1>10
<1>12. PICK c \in J \ g[m - 1] : \A p \in J \ g[m - 1] : <<c, p>> \notin E
  <2>1. J \ g[m - 1] \in SUBSET J /\ J \ g[m - 1] # {} BY <1>4, <1>6, <1>10
  <2>. QED BY <2>1
<1>13. c \in g[m] /\ c \notin g[m - 1] BY <1>8, <1>12 DEF Round
<1>14. Cardinality(g[m - 1]) < Cardinality(g[m])
  <2>1. /\ Cardinality(g[m - 1]) <= Cardinality(g[m])
        /\ Cardinality(g[m]) = Cardinality(g[m - 1]) => g[m] = g[m - 1]
    BY <1>4, <1>6, <1>9, FS_Subset
  <2>. QED BY <1>4, <1>6, <1>13, <2>1
<1>. QED BY <1>3, <1>4, <1>6, <1>11, <1>14

\* validateFlowJobs visits every job exactly when no jobs wait only for each other.
THEOREM KahnFindsCircles ==
  ASSUME NEW J \in SUBSET JobId, NEW E
  PROVE  Visited(J, E) = J <=>
           \A K \in SUBSET J : K # {} => \E c \in K : \A p \in K : <<c, p>> \notin E
<1>1. IsFiniteSet(J) /\ Cardinality(J) \in Nat BY FiniteParents
<1>2. PICK g : /\ Rounds(J, E, g, Cardinality(J))
               /\ Visited(J, E) = g[Cardinality(J)]
  BY <1>1, VisitedIsLastRound
<1>3. ASSUME Visited(J, E) = J, NEW K \in SUBSET J, K # {}
      PROVE  \E c \in K : \A p \in K : <<c, p>> \notin E
  <2>. SUFFICES ASSUME \A c \in K : \E p \in K : <<c, p>> \in E PROVE FALSE OBVIOUS
  <2>1. g[Cardinality(J)] \cap K = {} BY <1>1, <1>2, NeverVisited
  <2>. QED BY <1>2, <1>3, <2>1
<1>4. ASSUME \A K \in SUBSET J : K # {} => \E c \in K : \A p \in K : <<c, p>> \notin E
      PROVE  Visited(J, E) = J
  <2>1. g[Cardinality(J)] = J \/ Cardinality(g[Cardinality(J)]) >= Cardinality(J)
    BY <1>1, <1>2, <1>4, RoundsGrow
  <2>2. g[Cardinality(J)] \in SUBSET J BY <1>1, <1>2 DEF Rounds
  <2>3. Cardinality(g[Cardinality(J)]) <= Cardinality(J) BY <1>1, <2>2, FS_Subset
  <2>4. Cardinality(g[Cardinality(J)]) \in Nat BY <1>1, <2>2, FS_Subset, FS_CardinalityType
  <2>. QED BY <1>1, <1>2, <2>1, <2>2, <2>3, <2>4, FS_Subset
<1>. QED BY <1>3, <1>4

-----------------------------------------------------------------------------
\* A new flow does not close a circle: it has none of its own, and its jobs were
\* not known before.
LEMMA CreateClosesNoCircle ==
  ASSUME IndInv, NoCircle, NEW J \in SUBSET JobId, NEW E \in SUBSET (J \X J),
         CreateFlow(J, E)
  PROVE  NoCircle'
<1>. SUFFICES ASSUME NEW K \in SUBSET JobId, K # {}
              PROVE  \E c \in K : \A p \in K : <<c, p>> \notin plan'
  BY DEF NoCircle, Needs
<1>1. plan' = plan \cup E /\ Visited(J, E) = J /\ \A j \in J : job[j].state = "unused"
  BY DEF CreateFlow, ValidFlow
<1>2. \A j \in J : \A p \in JobId : <<j, p>> \notin plan /\ <<p, j>> \notin plan
  BY <1>1 DEF IndInv, Bookkeeping
<1>3. CASE K \subseteq J
  <2>1. \A L \in SUBSET J : L # {} => \E c \in L : \A p \in L : <<c, p>> \notin E
    BY <1>1, KahnFindsCircles
  <2>2. PICK c \in K : \A p \in K : <<c, p>> \notin E BY <1>3, <2>1
  <2>. QED BY <1>1, <1>2, <1>3, <2>2
<1>4. CASE ~(K \subseteq J)
  <2>1. K \ J \in SUBSET JobId /\ K \ J # {} BY <1>4
  <2>2. PICK c \in K \ J : Needs(c) \cap (K \ J) = {} BY <2>1 DEF NoCircle
  <2>3. \A p \in K : <<c, p>> \notin plan BY <1>2, <2>2 DEF Needs
  <2>. QED BY <1>1, <2>2, <2>3
<1>. QED BY <1>3, <1>4

\* No set of jobs waits only for itself, whatever flows are created and whatever
\* happens to their jobs: validateFlowJobs lets no circle through.
THEOREM NoCircles == Spec => []NoCircle
<1>1. Init => NoCircle BY DEF Init, NoCircle, Needs
<1>2. IndInv /\ NoCircle /\ [Next]_vars => NoCircle'
  <2>. SUFFICES ASSUME IndInv, NoCircle, [Next]_vars PROVE NoCircle' OBVIOUS
  <2>1. CASE CreateSomeFlow
    <3>1. PICK J \in SUBSET {i \in JobId : job[i].state = "unused"} :
            \E E \in SUBSET (Plannable \cap (J \X J)) : CreateFlow(J, E)
      BY <2>1 DEF CreateSomeFlow
    <3>2. PICK E \in SUBSET (Plannable \cap (J \X J)) : CreateFlow(J, E) BY <3>1
    <3>3. J \in SUBSET JobId /\ E \in SUBSET (J \X J) OBVIOUS
    <3>. QED BY <3>2, <3>3, CreateClosesNoCircle
  <2>2. CASE UNCHANGED plan BY <2>2 DEF NoCircle, Needs
  <2>3. ASSUME NEW i \in JobId, Command(i) PROVE UNCHANGED plan
    BY <2>3, CommandShapes DEF IndInv
  <2>4. ASSUME NEW t \in 1..Tables, CleanupDependencies(t) PROVE UNCHANGED plan
    BY <2>4 DEF CleanupDependencies, history
  <2>5. ASSUME NEW n \in Navigator, StartPass(n) \/ Work(n) \/ Abandon(n) PROVE UNCHANGED plan
    BY <2>5 DEF StartPass, Work, NothingToResolve, Abandon, Claim, Resolve, history
  <2>6. CASE UNCHANGED vars BY <2>2, <2>6 DEF vars
  <2>. QED BY <2>1, <2>2, <2>3, <2>4, <2>5, <2>6 DEF Next
<1>. QED BY <1>1, <1>2, Invariance, PTL DEF Spec

-----------------------------------------------------------------------------
(* Nothing is overlooked.                                                   *)

\* What a stored child waits for, the navigators look for.
Findable == \A c, p \in Stored : <<c, p>> \in plan /\ p \notin resolved => job[p].blocking

\* A navigator has p in its statement, or the query on its table returns it.
Found(p) == p \in Locked \/ p \in Candidates(TableOf[p])

\* The children that NotStranded says are released in the end have a parent that is
\* found now.
NothingOverlooked == \A c \in JobId : Ready(c) => \E p \in Needs(c) : Found(p)

\* Something other than a blocked job decides on c: its parent p is gone, its
\* decrement was lost, or p is not blocked itself, and found once it has completed.
Moves(c, p) ==
  \/ <<c, p>> \in missed
  \/ p \notin Stored
  \/ ~job[p].blocked /\ (job[p].state = "completed" => Found(p))

\* Blocked jobs do not all wait for each other.
SomeoneMoves ==
  (\E c \in Stored : job[c].blocked) =>
    \E c \in Stored : job[c].blocked /\ \E p \in Waits(c) : Moves(c, p)

LEMMA FindableSame ==
  ASSUME Findable, UNCHANGED <<plan, resolved>>,
         \A i \in Stored' : i \in Stored /\ job'[i].blocking = job[i].blocking
  PROVE  Findable'
BY DEF Findable

LEMMA FindableStep ==
  ASSUME IndInv, Findable, [Next]_vars
  PROVE  Findable'
<1>0. TypeOK /\ Bookkeeping BY DEF IndInv
<1>1. CASE CreateSomeFlow
  <2>1. PICK J \in SUBSET {i \in JobId : job[i].state = "unused"} :
          \E E \in SUBSET (Plannable \cap (J \X J)) : CreateFlow(J, E)
    BY <1>1 DEF CreateSomeFlow
  <2>2. PICK E \in SUBSET (Plannable \cap (J \X J)) : CreateFlow(J, E) BY <2>1
  <2>3. /\ \A i \in JobId : job'[i] = IF i \in J THEN FlowRow(i, J, E) ELSE job[i]
        /\ plan' = plan \cup E /\ resolved' = resolved
    BY <2>2 DEF CreateFlow
  <2>. SUFFICES ASSUME NEW c \in Stored', NEW p \in Stored', <<c, p>> \in plan', p \notin resolved
                PROVE  job'[p].blocking
    BY <2>3 DEF Findable
  <2>4. c \in JobId /\ p \in JobId BY DEF Stored
  <2>5. CASE <<c, p>> \in E
    <3>1. c \in J /\ p \in J BY <2>5
    <3>2. job'[p] = FlowRow(p, J, E) BY <2>3, <2>4, <3>1
    <3>3. FlowRow(p, J, E).blocking = (\E k \in J : <<k, p>> \in E) BY DEF FlowRow
    <3>. QED BY <2>5, <3>1, <3>2, <3>3
  <2>6. CASE <<c, p>> \in plan
    <3>1. job[c].state # "unused" /\ job[p].state # "unused"
      BY <1>0, <2>4, <2>6 DEF Bookkeeping
    <3>2. c \notin J /\ p \notin J BY <3>1
    <3>3. c \in Stored /\ p \in Stored BY <2>3, <2>4, <3>2 DEF Stored
    <3>. QED BY <2>3, <2>4, <2>6, <3>2, <3>3 DEF Findable
  <2>. QED BY <2>3, <2>5, <2>6
<1>2. ASSUME NEW i \in JobId, Command(i) PROVE Findable'
  <2>0. UNCHANGED <<plan, resolved>> BY <1>0, <1>2, CommandShapes
  <2>1. CASE \E s \in State : Restated(i, s)
    BY <1>0, <2>0, <2>1, RestatedRows, FindableSame DEF Stored
  <2>2. CASE CompleteQueued(i)
    BY <1>0, <2>0, <2>2, CompleteQueuedRows, FindableSame DEF Stored
  <2>3. CASE Delete(i)
    BY <1>0, <2>0, <2>3, DeleteRows, FindableSame DEF Stored
  <2>. QED BY <1>0, <1>2, <2>1, <2>2, <2>3, CommandShapes
<1>3. ASSUME NEW n \in Navigator, Resolve(n) PROVE Findable'
  <2>1. \A i \in JobId :
          /\ job'[i].state = job[i].state
          /\ job'[i].blocking = IF i \in nav[n].claimed THEN FALSE ELSE job[i].blocking
    BY <1>0, <1>3, ResolutionRows
  <2>2. plan' = plan /\ resolved' = resolved \cup nav[n].claimed BY <1>3 DEF Resolve
  <2>. QED BY <2>1, <2>2 DEF Findable, Stored
<1>4. CASE UNCHANGED <<job, plan, resolved>>
  BY <1>4, FindableSame DEF Stored
<1>5. ASSUME NEW t \in 1..Tables, CleanupDependencies(t) PROVE UNCHANGED <<job, plan, resolved>>
  BY <1>5 DEF CleanupDependencies, history
<1>6. ASSUME NEW n \in Navigator,
             \/ StartPass(n) \/ Abandon(n) \/ NothingToResolve(n)
             \/ \E B \in SUBSET JobId : Claim(n, B)
      PROVE  UNCHANGED <<job, plan, resolved>>
  BY <1>6 DEF StartPass, Abandon, NothingToResolve, Claim, store, history
<1>7. CASE UNCHANGED vars BY <1>4, <1>7 DEF vars
<1>. QED BY <1>1, <1>2, <1>3, <1>4, <1>5, <1>6, <1>7 DEF Next, Work

\* A completed parent that somebody waits for is found.
LEMMA WaitedForIsFound ==
  ASSUME IndInv, Findable, NEW c \in Stored, NEW p \in Stored, p \in Needs(c),
         p \notin resolved, job[p].state = "completed"
  PROVE  Found(p)
<1>1. p \in JobId /\ job[p].blocking BY DEF Findable, Stored, Needs
<1>. QED BY <1>1 DEF Found, Candidates

LEMMA BlockedWaits ==
  ASSUME IndInv, NEW c \in Stored, job[c].blocked
  PROVE  \E p \in JobId : p \in Waits(c)
<1>0. TypeOK /\ Bookkeeping /\ PendingExact BY DEF IndInv
<1>1. c \in JobId /\ c \notin forced BY <1>0 DEF Stored, Bookkeeping
<1>2. Cardinality(Waits(c)) > 0 BY <1>0, <1>1 DEF PendingExact
<1>3. Waits(c) \in SUBSET JobId BY DEF Waits, Needs
<1>4. Waits(c) # {} BY <1>2, <1>3, ZeroMeansNone
<1>. QED BY <1>3, <1>4

\* The safety half of NotStranded: at no time does a child whose parents have all
\* completed depend on anything but a navigator's next statement on their tables.
THEOREM NavigatorsOverlookNothing == Spec => []NothingOverlooked
<1>1. Init => Findable BY DEF Init, Findable
<1>2. IndInv /\ Findable /\ [Next]_vars => Findable' BY FindableStep
<1>3. IndInv /\ Findable => NothingOverlooked
  <2>. SUFFICES ASSUME IndInv, Findable, NEW c \in JobId, Ready(c)
                PROVE  \E p \in Needs(c) : Found(p)
    BY DEF NothingOverlooked
  <2>1. c \in Stored /\ job[c].blocked BY DEF Ready
  <2>2. PICK p \in JobId : p \in Waits(c) BY <2>1, BlockedWaits
  <2>3. p \in Needs(c) /\ (p \notin resolved \/ <<c, p>> \in missed) BY <2>2 DEF Waits
  <2>4. p \notin resolved /\ p \in Stored /\ job[p].state = "completed"
    BY <2>3 DEF Ready, IndInv, Bookkeeping
  <2>. QED BY <2>1, <2>3, <2>4, WaitedForIsFound
<1>. QED BY <1>1, <1>2, <1>3, Invariance, PTL DEF Spec

\* Blocked jobs never wait for each other in a ring: while any job is blocked, one
\* of them waits for a parent that can run, that a navigator finds, or that is gone.
THEOREM FlowsDoNotDeadlock == Spec => []SomeoneMoves
<1>1. Init => Findable BY DEF Init, Findable
<1>2. IndInv /\ Findable /\ [Next]_vars => Findable' BY FindableStep
<1>3. IndInv /\ Findable /\ NoCircle => SomeoneMoves
  <2>. SUFFICES ASSUME IndInv, Findable, NoCircle, NEW d \in Stored, job[d].blocked
                PROVE  \E c \in Stored : job[c].blocked /\ \E p \in Waits(c) : Moves(c, p)
    BY DEF SomeoneMoves
  <2>. DEFINE K == {c \in Stored : job[c].blocked}
  <2>1. K \in SUBSET JobId /\ K # {} BY DEF Stored
  <2>2. PICK c \in K : Needs(c) \cap K = {} BY <2>1 DEF NoCircle
  <2>3. c \in Stored /\ job[c].blocked OBVIOUS
  <2>4. PICK p \in JobId : p \in Waits(c) BY <2>3, BlockedWaits
  <2>5. p \in Needs(c) /\ (p \notin resolved \/ <<c, p>> \in missed) BY <2>4 DEF Waits
  <2>6. p \in Stored => ~job[p].blocked BY <2>2, <2>5
  <2>7. p \in Stored /\ p \notin resolved /\ job[p].state = "completed" => Found(p)
    BY <2>3, <2>5, WaitedForIsFound
  <2>8. Moves(c, p) BY <2>5, <2>6, <2>7 DEF Moves
  <2>. QED BY <2>3, <2>4, <2>8
<1>. QED BY <1>1, <1>2, <1>3, Invariance, NoCircles, PTL DEF Spec
=============================================================================
