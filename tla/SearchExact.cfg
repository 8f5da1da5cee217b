CONSTANTS
  L = 3
  K = 1
  Row <- ExactRow
  InitVertex = 0
  DistOf <- ExactTies
  SingleGraphs <- ExactSingle
  SharedGraphs <- ExactShared
SPECIFICATION Spec
INVARIANTS EndsAtLocalOptimum ReportsNearestOffered NoVectorTwiceInBeam
PROPERTY UsesBeamAsSpecified
CHECK_DEADLOCK FALSE
