CONSTANTS
  N = 5
  L = 2
  Labels = {1, 2, 3}
  FilterChoices <- AnyOverlaps
  OrderChoices <- Shuffled
  Dist <- LineDist
  D <- Degrees
  SharedD = 1
  MinShared = 2
  BigCutoff = 1
  AlphaNum = 6
  AlphaDen = 5
  OverlapMax = 2
  BatchDiv = 1
SPECIFICATION ReferenceSpec
INVARIANTS StaysInGroup RacesAreBenign ReversesForwardEdgesOnly DegreesBounded
CHECK_DEADLOCK FALSE
