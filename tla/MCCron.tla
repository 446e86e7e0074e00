------------------------------- MODULE MCCron -------------------------------
(***************************************************************************)
(* Instances of Cron for TLC.  A slot is six units of ten seconds.         *)
(***************************************************************************)
EXTENDS Cron, TLC

CONSTANTS i1, i2

\* The instances are interchangeable.
Symmetry == Permutations(Instance)
=============================================================================
