------------------------------- MODULE MCFlow -------------------------------
(***************************************************************************)
(* An instance of Flow for TLC.                                            *)
(***************************************************************************)
EXTENDS Flow

CONSTANTS j1, j2, j3

\* Two jobs share a table, so that batches compete; the third has its own.
MCTableOf == [i \in JobId |-> IF i = j3 THEN 2 ELSE 1]

\* A chain, a join, a fork and a circle.
MCPlannable == {<<j3, j1>>, <<j3, j2>>, <<j1, j3>>}
=============================================================================
