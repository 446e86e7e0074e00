SPECIFICATION FairSpec
CONSTANTS
  j1 = j1
  j2 = j2
  j3 = j3
  JobId = {j1, j2, j3}
  Navigator = {n1, n2}
  Tables = 2
  TableOf <- MCTableOf
  Plannable <- MCPlannable
  BatchSize = 1
  MaxBatches = 2
  MaxFaults = 1
INVARIANTS TypeOK PendingExact ReadyToRun NoCircle
PROPERTIES ImplementsDependencies NotStranded
