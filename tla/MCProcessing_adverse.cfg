SPECIFICATION FairSpec
CONSTANTS
  w1 = w1
  w2 = w2
  Job = {j1}
  Worker <- MCWorker
  Mortal <- MCFirst
  RetryLimit = 2
  BatchSize = 1
  PerJobResults <- MCFirst
  Unreliable <- MCFirst
  MaxErrors = 1
  TimersFirst = FALSE
  ForcedStops = TRUE
INVARIANTS TypeOK RunsBounded IndInv OverlapExplained OutcomeExplained
PROPERTIES AllSettle
