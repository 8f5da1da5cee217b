CONSTANTS
  L = 2
  K = 1
  Row <- LossyRow
  InitVertex = 8
  DistOf <- LossyTies
  SingleGraphs <- LossySingle
  SharedGraphs <- LossyShared
SPECIFICATION Spec
INVARIANTS EndsAtLocalOptimum
PROPERTY Terminates
CHECK_DEADLOCK FALSE
