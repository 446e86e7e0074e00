SPECIFICATION Spec
CONSTANTS
  Instance = {i1, i2}
  i1 = i1
  i2 = i2
  Occurrence = {6}
  Slot = 6
  Interval = 2
  Errors = {0, 1}
  MaxDelay = 1
  MaxTime = 12
  MaxFaults = 1
  RetryLimit = 1
SYMMETRY Symmetry
CHECK_DEADLOCK FALSE
INVARIANTS TypeOK OneSentPerMinute NothingMissed ForwardsExplained
