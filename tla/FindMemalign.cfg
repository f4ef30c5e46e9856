SPECIFICATION HeapSpec
CONSTANTS
  Requests <- MCRequests
  ArenaSpans = 3
  Multiple = 2
  MaxOut = 2
  Sizes <- MCSizes
  Counts <- MCCounts
  Aligns = {64}
  WordBits = 26
  WordSize <- MCWordSize
  AlignTagBytes = 8
  ReallocAligned = FALSE
  Areas <- MCAreas
  MaxMapping <- MCMaxMapping
INVARIANT FreeStillCorrect
CHECK_DEADLOCK FALSE
