SPECIFICATION FairSpec
CONSTANTS
  c1 = c1
  c2 = c2
  w1 = w1
  Caller = {c1, c2}
  UserWorker = {w1}
  SendIt = SendIt
  MaxCalls = 3
  MaxFaults = 1
  MaxOverlaps = 1
CHECK_DEADLOCK FALSE
INVARIANTS TypeOK NeverBoth QuietWhenStopped PoolOutlivesWork GracefulSpares NoLostWakeUp OnePassAtATime
PROPERTIES CallsReturn
