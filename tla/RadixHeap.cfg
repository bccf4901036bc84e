SPECIFICATION MCSpec
CONSTANTS
  Base = 6
  Digits = 4
  Capacity <- SmallCapacity
  NodeSize <- SmallNodeSize
  FrameSize = 16
  radix_tree_size = 740
  RingLength = 2
  CachedKeys <- SmallKeys
  Load <- SmallLoad
  LoadedPage = 1
  CalledKeys <- SmallCalledKeys
  CalledRanges <- SmallRanges
  MaxCalls = 3
  CachedPages = {1, 2}
INVARIANTS
  TypeOK
  CellsAreTheTree
  FixedOnTheWay
  ValidateAccepts
PROPERTIES
  ImplementsRadixTree
  ImplementsReferenceCache
