SPECIFICATION Spec
CONSTANTS
  None = None
  source = source
  letters = letters
  sourceDeadLetter = letters
  sourcePolicy = "stately"
  lettersPolicy = "standard"
  retryLimit = 1
  Queue <- MCQueue
  Policy <- MCPolicy
  DeadLetter <- MCDeadLetter
  RetryLimit <- MCRetryLimit
  JobId = {j1, j2, j3}
  Key = {k1}
  JobDeadLetters = {}
  UpdateDeadLetters = {None}
  Destinations = {None, source}
  Slot = {}
  UpdateLimits = {}
  MaxLimit = 1
  MaxRuns = 2
  Batch = 2
SYMMETRY IdSymmetry
INVARIANTS TypeOK IndInv PolicyUpheld FailNeverConflicts
PROPERTIES FailKeepsJobs SourcesLastUntilFailure LettersMatchFailures
