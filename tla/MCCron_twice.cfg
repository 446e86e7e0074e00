SPECIFICATION Spec
CONSTANTS
  Instance = {i1, i2}
  i1 = i1
  i2 = i2
  Occurrence = {6}
  Slot = 6
  Interval = 3
  Errors = {0}
  MaxDelay = 1
  MaxTime = 14
  MaxFaults = 0
  RetryLimit = 1
CHECK_DEADLOCK FALSE
INVARIANT OnlyOneSent
