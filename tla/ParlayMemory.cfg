CONSTANTS
  Thread = {1, 2}
  Node = {n1, n2, n3}
  Null = Null
  Value = {a, b}
  Threshold = 1
  Owner = {o1, o2, o3}
  L = 2
  MaxLists = 3
  NumThreadIds = 3
  Nil = Nil
  None = None
  MaxIds = 3
  Sizes <- PowersOfTwo
  LargeThreshold = 262144
  MaxAlignment = 128
  SizeBits = 24
  Requests = {1, 1000, 262100, 1048560, 1048577}
  Aligns = {1, 256}
  MaxOut = 1
SYMMETRY Interchangeable
SPECIFICATION AllSpec
INVARIANTS StackSafe BuffersFit BlocksAccounted IdsUniqueAndDense
PROPERTY ImplementsStack
