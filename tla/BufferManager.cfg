CONSTANTS
  Data = {d1, d2}
  bitmap_increment = 2
  MaxPageId = 3
  buffer_size = 2
SPECIFICATION FairSpec
INVARIANTS
  TypeOK
  FramesAreAccountedFor
  HeaderNamesTheFrame
  HeldPagesStay
  FetchFindsThePage
  CleanFramesAreOnDisk
PROPERTY
  ImplementsPageStore
  EvictionEnds
CHECK_DEADLOCK FALSE
