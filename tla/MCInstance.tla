---------------------------- MODULE MCInstance ----------------------------
(***************************************************************************)
(* An instance of Instance for TLC: two callers, a worker of the           *)
(* application and the timekeeper's.                                       *)
(***************************************************************************)
EXTENDS Instance

CONSTANTS c1, c2, w1
=============================================================================
