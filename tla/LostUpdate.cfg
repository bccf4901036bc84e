SPECIFICATION ManagerSpec
CONSTANTS
  N = 4
  Keys = {0, 1, 2, 3, 8}
  Values = {v1}
  Ranges = {}
  Missing = Missing
  MaxPages = 4
  Base = 8
  Digits = 2
  Capacity <- OneCapacity
  NodeSize <- OneNodeSize
  FrameSize = 16
  radix_tree_size = 100000
  RingLength = 1
  Evictions = TRUE
  DeletesOfAbsent = FALSE
PROPERTY
  CachedUpdatesAreMade
