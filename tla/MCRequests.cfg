CONSTANTS
  None = None
  NoId = noId
  Names = {n1, n2}
  Sizes = {1, 2, 4, 6, 7}
  TokenCounts = {0, 1, 2, 3, 4, 5}
  TokenLimit = 5
  MaxTexts = 3
  MaxCalled = 5
  EmptyBody = 2
  Comma = 1
  MaxInputs = 2
  Target = 7
  Accepted = {0, 1, 2, 3, 4, 5, 6}
SYMMETRY NameSymmetry
SPECIFICATION FamilySpec
INVARIANTS PartitionIsTheBest BreakpointsAreKept ConversationGoesBack
PROPERTY SentPrefixIsStable
