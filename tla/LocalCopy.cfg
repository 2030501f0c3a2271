SPECIFICATION Spec
CONSTANTS
  Chunk = 4
  HalfWord = 4
  CharOffset = 5
  MapBuffer = 7
  RingSize = 36
  Junk = 0
  ScanBuffer = 3
  Heap = 0
  MaxLength = 9
  NoFile = NoFile
  Srcs <- MCSrcs
  Dsts <- MCDsts
INVARIANTS
  MarksLatest
  Rebuilt
CHECK_DEADLOCK FALSE
