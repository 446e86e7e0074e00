---------------------------- MODULE MCQueueCache ----------------------------
(***************************************************************************)
(* An instance of QueueCache for TLC.                                      *)
(***************************************************************************)
EXTENDS QueueCache

\* The second job waits for the first, the third for none of them.
MCKeyOf == [j \in JobId |-> IF j < 3 THEN "a" ELSE "b"]
=============================================================================
