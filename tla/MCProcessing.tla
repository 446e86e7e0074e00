---------------------------- MODULE MCProcessing ----------------------------
(***************************************************************************)
(* Instances of Processing for TLC: two workers.                           *)
(***************************************************************************)
EXTENDS Processing, TLC

CONSTANTS w1, w2   \* where something may happen to a worker, it is w1

MCWorker == {w1, w2}
MCFirst  == {w1}
MCSecond == {w2}

\* Nothing tells one job from another.
JobSymmetry == Permutations(Job)
=============================================================================
