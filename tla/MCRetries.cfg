CONSTANTS
  None = None
  Unreadable = Unreadable
  Waits = {2, 6}
  Inputs = {i1, i2}
  BatchInputs = {i1, i2, i3}
  MaxRequests = 3
  MinCeiling = 1
  Multiplier = 2
  MaxWait = 5
SPECIFICATION FamilySpec
INVARIANTS RetriesFollowTheFailures PermitsAreUsedAndReturned
PROPERTIES NoRequestBeforeItsTime EveryLoopEnds BatchEnds
