CONSTANTS
  MaxRequests = 3
  Swallows = TRUE
  ToolCalls = 3
SPECIFICATION FamilySpec
INVARIANTS
  PermitFollowsTheStream OneEnding ObserverLearnsTheEnding
  RequestsAreAccounted DispatchIsWhole
PROPERTIES OutcomeIsKept CallsEnd
