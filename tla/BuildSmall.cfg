CONSTANTS
  N = 4
  L = 2
  Labels = {1, 2, 3}
  FilterChoices <- OneLabel
  OrderChoices <- InOrder
  Dist <- LineDist
  D <- Degrees
  SharedD = 1
  MinShared = 2
  BigCutoff = 1
  AlphaNum = 6
  AlphaDen = 5
  OverlapMax = 2
  BatchDiv = 100
SPECIFICATION ReferenceSpec
PROPERTY Terminates
CHECK_DEADLOCK FALSE
