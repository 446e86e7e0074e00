SPECIFICATION Spec
CONSTANTS
  None = None
  source = source
  letters = letters
  sourceDeadLetter = None
  sourcePolicy = "exclusive"
  lettersPolicy = "standard"
  retryLimit = 0
  Queue <- MCQueue
  Policy <- MCPolicy
  DeadLetter <- MCDeadLetter
  RetryLimit <- MCRetryLimit
  JobId = {j1, j2, j3}
  Key = {k1}
  JobDeadLetters = {}
  UpdateDeadLetters = {}
  Destinations = {None}
  Slot = {0, 1}
  UpdateLimits = {1}
  MaxLimit = 1
  MaxRuns = 2
  Batch = 1
SYMMETRY IdSymmetry
INVARIANTS PolicyUpheld ThrottleUpheld CompletedOnMatches
