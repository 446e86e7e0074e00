------------------------------ MODULE Attempts ------------------------------
(***************************************************************************)
(* What processing promises for each job, without workers, statements or   *)
(* connections: a job is attempted a bounded number of times, one attempt  *)
(* after the other; it is recorded as completed only when its current      *)
(* attempt succeeded, and an attempt is given up only when it failed or    *)
(* was lost (it took too long, its worker died or was shut down, or its    *)
(* result could not be written).  README.md and docs/api/workers.md call   *)
(* this exactly-once delivery with retries.                                *)
(***************************************************************************)
EXTENDS Naturals, TLAPS

CONSTANTS
  Job,          \* the jobs of a queue
  MaxAttempts   \* retry_limit + 1, a positive number

VARIABLES
  phase,     \* [Job -> Phase]
  attempt,   \* [Job -> 0..MaxAttempts]: the number of the current attempt
  verdict,   \* [Job -> Verdict]: what the handler of the current attempt said
  lost       \* the jobs whose current attempt was lost

vars == <<phase, attempt, verdict, lost>>

Phase   == {"waiting", "running", "completed", "failed"}
Verdict == {"none", "success", "failure", "deadletter"}

TypeOK ==
  /\ phase \in [Job -> Phase]
  /\ attempt \in [Job -> 0..MaxAttempts]
  /\ verdict \in [Job -> Verdict]
  /\ lost \subseteq Job

Running == {j \in Job : phase[j] = "running"}

Init ==
  /\ phase = [j \in Job |-> "waiting"]
  /\ attempt = [j \in Job |-> 0]
  /\ verdict = [j \in Job |-> "none"]
  /\ lost = {}

\* A worker takes the jobs S.
Start(S) ==
  /\ \A j \in S : phase[j] = "waiting" /\ attempt[j] < MaxAttempts
  /\ phase' = [j \in Job |-> IF j \in S THEN "running" ELSE phase[j]]
  /\ attempt' = [j \in Job |-> IF j \in S THEN attempt[j] + 1 ELSE attempt[j]]
  /\ verdict' = [j \in Job |-> IF j \in S THEN "none" ELSE verdict[j]]
  /\ lost' = lost \ S

\* The handler of the running jobs S gives its verdicts v.
Judge(S, v) ==
  /\ S \subseteq {j \in Running : verdict[j] = "none"}
  /\ verdict' = [j \in Job |-> IF j \in S THEN v[j] ELSE verdict[j]]
  /\ UNCHANGED <<phase, attempt, lost>>

\* The current attempts of the jobs S are lost.
Lose(S) ==
  /\ lost' = lost \cup S
  /\ UNCHANGED <<phase, attempt, verdict>>

\* Successful attempts are recorded.  Here and in GiveUp, the attempts L are lost
\* at the same time: the record was made but nobody was told.
Record(S, L) ==
  /\ S \subseteq {j \in Running : verdict[j] = "success"}
  /\ phase' = [j \in Job |-> IF j \in S THEN "completed" ELSE phase[j]]
  /\ lost' = lost \cup L
  /\ UNCHANGED <<attempt, verdict>>

\* Failed or lost attempts are given up: for good after the last attempt or on
\* the handler's word, otherwise to be attempted again.
GiveUp(S, final, L) ==
  /\ S \subseteq {j \in Running : verdict[j] \in {"failure", "deadletter"} \/ j \in lost}
  /\ final \subseteq S
  /\ \A j \in S : attempt[j] = MaxAttempts => j \in final
  /\ \A j \in final : attempt[j] = MaxAttempts \/ verdict[j] = "deadletter"
  /\ phase' = [j \in Job |-> IF j \in final THEN "failed"
                             ELSE IF j \in S THEN "waiting" ELSE phase[j]]
  /\ lost' = lost \cup L
  /\ UNCHANGED <<attempt, verdict>>

Next ==
  \E S \in SUBSET Job :
    \/ Start(S)
    \/ \E v \in [S -> Verdict \ {"none"}] : Judge(S, v)
    \/ Lose(S)
    \/ \E L \in SUBSET Job : Record(S, L)
    \/ \E final \in SUBSET S, L \in SUBSET Job : GiveUp(S, final, L)

Spec == Init /\ [][Next]_vars

-----------------------------------------------------------------------------
\* What the rows tell of the attempts: a completed job succeeded, a failed one did
\* not, and it failed for good on the handler's word or with no attempt left.
HonestOf(j) ==
  /\ phase[j] = "completed" => verdict[j] = "success"
  /\ phase[j] = "failed" =>
       /\ verdict[j] \in {"failure", "deadletter"} \/ j \in lost
       /\ attempt[j] = MaxAttempts \/ verdict[j] = "deadletter"

Honest == \A j \in Job : HonestOf(j)

\* The promise is honest: whatever implements it records no success that was not
\* one and gives no job up early (complete() and fail() of the attempt in hand).
THEOREM Honesty == Spec => []Honest
<1>1. Init => Honest BY DEF Init, Honest, HonestOf
<1>2. Honest /\ [Next]_vars => Honest'
  <2>. SUFFICES ASSUME Honest, [Next]_vars, NEW j \in Job PROVE HonestOf(j)'
    BY DEF Honest
  <2>0. HonestOf(j) BY DEF Honest
  <2>1. CASE UNCHANGED vars BY <2>0, <2>1 DEF HonestOf, vars
  <2>2. ASSUME NEW S \in SUBSET Job, Start(S) PROVE HonestOf(j)'
    BY <2>0, <2>2 DEF Start, HonestOf
  <2>3. ASSUME NEW S \in SUBSET Job, NEW v, Judge(S, v) PROVE HonestOf(j)'
    BY <2>0, <2>3 DEF Judge, Running, HonestOf
  <2>4. ASSUME NEW S \in SUBSET Job, Lose(S) PROVE HonestOf(j)'
    BY <2>0, <2>4 DEF Lose, HonestOf
  <2>5. ASSUME NEW S \in SUBSET Job, NEW L, Record(S, L) PROVE HonestOf(j)'
    BY <2>0, <2>5 DEF Record, Running, HonestOf
  <2>6. ASSUME NEW S \in SUBSET Job, NEW final, NEW L, GiveUp(S, final, L) PROVE HonestOf(j)'
    BY <2>0, <2>6 DEF GiveUp, Running, HonestOf
  <2>. QED BY <2>1, <2>2, <2>3, <2>4, <2>5, <2>6 DEF Next
<1>. QED BY <1>1, <1>2, PTL DEF Spec
=============================================================================
