SPECIFICATION Spec
CONSTANTS
  None = None
  source = source
  letters = letters
  sourceDeadLetter = letters
  sourcePolicy = "standard"
  lettersPolicy = "standard"
  retryLimit = 0
  Queue <- MCQueue
  Policy <- MCPolicy
  DeadLetter <- MCDeadLetter
  RetryLimit <- MCRetryLimit
  JobId = {j1, j2, j3}
  Key = {k1}
  JobDeadLetters = {}
  UpdateDeadLetters = {}
  Destinations = {None}
  Slot = {}
  UpdateLimits = {}
  MaxLimit = 1
  MaxRuns = 1
  Batch = 1
SYMMETRY IdSymmetry
PROPERTIES DeadLetterHonoured
