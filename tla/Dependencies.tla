---------------------------- MODULE Dependencies ----------------------------
(***************************************************************************)
(* What a flow promises (docs/api/jobs.md, "Flows"): a job may run only    *)
(* when every job it depends on has completed, unless somebody completed   *)
(* it by hand.  Nothing is said here of counters, flags, batches or locks. *)
(***************************************************************************)
CONSTANT JobId

VARIABLES
  edges,      \* <<child, parent>>: child depends on parent
  finished,   \* jobs that completed
  forced,     \* jobs completed by hand while they were waiting
  free        \* stored jobs that may run

vars == <<edges, finished, forced, free>>

Needs(c) == {p \in JobId : <<c, p>> \in edges}

Init == edges = {} /\ finished = {} /\ forced = {} /\ free = {}

\* New jobs are planned together with all they depend on; those that depend
\* on nothing may run at once.
Plan(J, E) ==
  /\ J \cap (free \cup finished) = {}
  /\ \A j \in J : Needs(j) = {}
  /\ E \subseteq J \X J
  /\ edges' = edges \cup E
  /\ free' = free \cup {j \in J : \A p \in J : <<j, p>> \notin E}
  /\ UNCHANGED <<finished, forced>>

Finish(i) ==
  /\ i \in free
  /\ finished' = finished \cup {i}
  /\ UNCHANGED <<edges, forced, free>>

Force(i) ==
  /\ finished' = finished \cup {i}
  /\ forced' = forced \cup {i}
  /\ free' = free \cup {i}
  /\ UNCHANGED edges

Release(S) ==
  /\ \A c \in S : Needs(c) \subseteq finished
  /\ free' = free \cup S
  /\ UNCHANGED <<edges, finished, forced>>

Remove(i) ==
  /\ free' = free \ {i}
  /\ UNCHANGED <<edges, finished, forced>>

Next ==
  \/ \E J \in SUBSET JobId : \E E \in SUBSET (J \X J) : Plan(J, E)
  \/ \E S \in SUBSET JobId : Release(S)
  \/ \E i \in JobId : Finish(i) \/ Force(i) \/ Remove(i)

Spec == Init /\ [][Next]_vars
=============================================================================
