SPECIFICATION Spec
CONSTANTS
  w1 = w1
  w2 = w2
  Job = {j1}
  Worker <- MCWorker
  Mortal <- MCFirst
  RetryLimit = 1
  BatchSize = 1
  PerJobResults = {}
  Unreliable = {}
  MaxErrors = 0
  TimersFirst = TRUE
  ForcedStops = TRUE
SYMMETRY JobSymmetry
INVARIANTS CompletedMeansHandled
