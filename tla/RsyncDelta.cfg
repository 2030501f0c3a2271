SPECIFICATION Spec
CONSTANTS
  Chunk = 4
  HalfWord = 4
  CharOffset = 0
  MapBuffer = 7
  RingSize = 36
  Junk = 0
  WriteLength = 6
  Piece = 3
  MaxLength = 11
  NoFile = NoFile
  Olds <- MCOlds
  News <- MCNews
  HeapWords = {0, 3, 7, 9}
  Leftovers <- MCLeftovers
INVARIANTS
  RollingAgrees
  ReadsStayInBuffer
  WindowFollows
  Rebuilds
  UnchangedIsCopied
PROPERTIES
  ScanAdvances
CHECK_DEADLOCK FALSE
