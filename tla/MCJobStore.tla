----------------------------- MODULE MCJobStore -----------------------------
(***************************************************************************)
(* Instances of JobStore for TLC: a queue and the queue for dead letters.  *)
(***************************************************************************)
EXTENDS JobStore, TLC

CONSTANTS
  source,            \* a queue
  letters,           \* the queue that dead letters go to
  sourceDeadLetter,  \* dead_letter of the source queue: letters, or None
  sourcePolicy,      \* policy of the source queue
  lettersPolicy,     \* policy of the dead letter queue
  retryLimit         \* retry limit of both queues

MCQueue      == {source, letters}
MCPolicy     == [q \in MCQueue |-> IF q = source THEN sourcePolicy ELSE lettersPolicy]
MCDeadLetter == [q \in MCQueue |-> IF q = source THEN sourceDeadLetter ELSE None]
MCRetryLimit == [q \in MCQueue |-> retryLimit]

\* Nothing tells one id from another.
IdSymmetry == Permutations(JobId)
=============================================================================
