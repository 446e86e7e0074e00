SPECIFICATION Spec
CONSTANTS
  w1 = w1
  w2 = w2
  Job = {j1, j2}
  Worker <- MCWorker
  Mortal <- MCFirst
  RetryLimit = 1
  BatchSize = 2
  PerJobResults <- MCSecond
  Unreliable <- MCFirst
  MaxErrors = 1
  TimersFirst = TRUE
  ForcedStops = FALSE
SYMMETRY JobSymmetry
INVARIANTS OverlapAborted
PROPERTIES ImplementsAttempts
