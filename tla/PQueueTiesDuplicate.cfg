CONSTANTS
  L = 3
  Vid <- MCVid
  DistOf <- MCDist
SPECIFICATION Spec
INVARIANT NoDuplicateIds
