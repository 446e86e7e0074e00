SPECIFICATION FairSpec
CONSTANTS
  Instance = {i1}
  JobId = {1, 2, 3}
  Key = {"a", "b"}
  KeyOf <- MCKeyOf
  BatchSize = 2
  MaxChanges = 2
  MaxFaults = 1
CHECK_DEADLOCK FALSE
INVARIANTS TypeOK Corroborated
PROPERTIES Converges NoHeadOfLine
