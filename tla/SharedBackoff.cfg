CONSTANTS
  Requests = {r1, r2, r3}
  MaxConcurrent = 2
  MinCeiling = 1
  MaxWait = 4
  Multiplier = 2
  Quiet = 2
  StepsToFloor = 2
  Interval = 2
  StatedWaits = {2, 6}
SPECIFICATION FairHistorySpec
INVARIANTS TypeOK PermitAccounting NoLostWakeup
PROPERTIES
  FirstComeFirstServed EveryWaiterLeavesTheQueue
  ImplementsContract CeilingGrowsOncePerHerd
