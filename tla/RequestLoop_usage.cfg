CONSTANTS
  MaxRequests = 2
  Budget = 2
  Deadlines = {"none", "wall_clock", "working_time"}
SPECIFICATION Spec
INVARIANTS EveryRecordKeepsItsUsage
