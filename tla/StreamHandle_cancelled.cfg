CONSTANTS
  MaxRequests = 2
  Swallows = FALSE
SPECIFICATION Spec
INVARIANTS CancellationLeavesARecord
