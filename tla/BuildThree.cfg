CONSTANTS
  N = 7
  L = 1
  Labels = {1, 2, 3}
  FilterChoices <- FreshFirsts
  OrderChoices <- InOrder
  Dist <- TiesDist
  D <- Degrees
  SharedD = 2
  MinShared = 1
  BigCutoff = 1
  AlphaNum = 6
  AlphaDen = 5
  OverlapMax = 2
  BatchDiv = 1
SPECIFICATION ReferenceSpec
INVARIANT InsertsAsIfAlone
PROPERTY Terminates
CHECK_DEADLOCK FALSE
