CONSTANTS
  N = 5
  Labels = {1, 2, 3}
  Vid <- MCVid
  DistOf <- MCDist
  K = 2
  Far = 100
  BigCutoff = 1
  BitsetCutoff = 2
  WordSize = 2
  Clusters = {1, 2, 3}
  Distance <- Distances
  FilterChoices <- AnySets
  CutoffChoices <- Cutoffs
  MemberChoices <- ThreeMembers
  CentroidDist <- Centroids
  WidthChoices = {0, 2}
  DataChoices <- AllData
  NumPoints = 5
  ClusterSize = 3
  NumThreads = 2
  MaxIter = 4
  MaxValue = 4
  NumRows = 16
  NumCols = 4
  LinearMax = 1
  MatrixChoices <- Matrices
  Name = {s, t, u}
  Nothing = Nothing
  MAX_DEGREE = 3
  Bounds = {2}
  BoundedLinear = 1
  ContainsLinear = 1
  Width = 3
  NV = 3
  Thread = {1, 2}
  BlockSize = 2
  L = 3
  Candidate = {1, 2, 3, 4, 5}
SPECIFICATION AllSpec
SYMMETRY Names
INVARIANTS CursorsAtTwoNearestOpen HoldsTheNearest RowsAreIntersections AnswersMatch AnswersExact ListsHoldNearest PositionsFound RowsActAsSets SetsAreExact ArraysAreTheGraph OldQueueExact
PROPERTY ImplementsBeam RoundsAreSequential
CHECK_DEADLOCK FALSE
