CONSTANTS
  L = 3
  Vid <- MCVid
  DistOf <- MCDist
SPECIFICATION MCReuseSpec
INVARIANT CursorsAtTwoNearestOpen
