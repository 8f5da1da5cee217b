CONSTANTS
  BaseBits = 1
  BlockQuotient = 2
  BlockSize = 2
  BucketBase = 4
  BucketBits = 2
  BucketQuotient = 1
  CountThreshold = 2
  CountUnit = 2
  DelayedBlock = 2
  FindGranularity = 1
  Granularity = 1
  Hash <- HashTable
  LessThreshold = 2
  Lost = Lost
  MaxKey = 2
  KeysMax = 6
  MergeBase = 3
  MergeSortBase = 2
  OuterBits = 1
  OverSample = 1
  QuickBase = 5
  RadixBits = 1
  Raw = Raw
  ReduceSpread = 1
  SampleBlocks = 1
  SampleThreshold = 4
  SearchBase = 1
  SortBase = 3
  TransThreshold = 3
  KeyHash <- KeyHashes
  FewThreshold = 3
  FewBlocks = 2
  HashBits = 2
  CopyCutoff = 2
  KthThreshold = 2
  KthPivots = 3
  KthOver = 1
  Name = {x, y}
  Value = {a, b}
  MaxLen = 3
  ShortCapacity = 2
  Buffer = {1, 2, 3, 4, 5}
  Null = Null
  NoObject = NoObject
  Moved = Moved
  Key = {1, 2, 3, 4}
  M = 7
  Caller = {t1, t2}
  MaxKeys = 3
  MaxTotal = 2
SPECIFICATION Spec
SYMMETRY Interchangeable
INVARIANTS ActsAsSequence LayoutsHold
PROPERTIES SortsSort BlocksActAsOnePass PrimitivesAreRight GroupsAreWhole
CHECK_DEADLOCK FALSE
