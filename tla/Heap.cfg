SPECIFICATION HeapSpec
CONSTANTS
  Requests <- MCRequests
  ArenaSpans = 3
  Multiple = 2
  MaxOut = 2
  Sizes <- MCSizes
  Counts <- MCCounts
  Aligns = {64}
  WordBits = 26
  WordSize <- MCWordSize
  AlignTagBytes = 4
  ReallocAligned = FALSE
  Areas <- MCAreas
  MaxMapping <- MCMaxMapping
INVARIANTS HeapTypeOK ObjectsApart LenCounts RequestFits RoomForRequest FreeStillCorrect FreeFindsOwner NothingLeaks
PROPERTY IsAllocator
CHECK_DEADLOCK FALSE
