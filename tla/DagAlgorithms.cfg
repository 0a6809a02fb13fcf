SPECIFICATION Spec
CONSTANTS
  n1 = n1
  n2 = n2
  n3 = n3
  n4 = n4
  out = out
  NodeLists <- MCNodeLists
  Origins <- AnyId
  Settled <- MCSettled
  MaxDeps = 3
  MaxEdges = 3
  MaxTokens = 20
  HeadTokens = 2
  ExtractThreshold = 35
  MinExtract = 6
  ParagraphLengths = {2, 36, 100}
  Scores = {0, 1, 2}
  ExtractLengths = {0, 30, 120}
  MaxChunks = 4
INVARIANTS
  CycleFoundExactly
  ValidateExact
  GroupsAreKahn
  DescendantsExact
  SliceBestEffort
