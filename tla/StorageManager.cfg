CONSTANTS
  Data = {d1, d2}
  bitmap_increment = 2
  MaxPageId = 4
SPECIFICATION StorageSpec
INVARIANTS
  StorageTypeOK
  NextFreeSpaceIsLeastFree
PROPERTY
  SavesAreKept
  ImplementsPageFile
CHECK_DEADLOCK FALSE
