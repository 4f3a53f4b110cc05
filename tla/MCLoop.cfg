CONSTANTS
  MaxRequests = 3
  Budget = 2
  Deadlines = {"none", "wall_clock", "working_time"}
  N = 4
  Bound = 2
  Callers = {c1, c2, c3, c4}
  MaxCreations = 4
  Batches = 3
  BatchRequests = 2
  MaxConcurrent = 2
  PendingPerRequest = 1
  SparePending = 1
  TerminalKinds = {"auth"}
SPECIFICATION FamilySpec
INVARIANTS
  OutcomeTellsEveryRequest QuotaHearsBeforeThePermitPasses BudgetIsExact
  CreationIsShared BatchesAreWhole
PROPERTIES BatchesStopInOrder EveryCallEnds
