SPECIFICATION Spec
CONSTANTS
  c1 = c1
  c2 = c2
  Clients = {c1, c2}
  Threads = {t1, t2}
  Paths = {p1}
  Versions <- MCVersions
  Copies <- MCCopies
  Heap = 0
  MaxChanges = 1
  NoFile = NoFile
  None = None
  Junk = 9
  Chunk = 2
  HalfWord = 4
  CharOffset = 5
  MapBuffer = 3
  RingSize = 8
INVARIANTS
  CallInOnePlace
  WrongOnlyIfMixedUp
PROPERTIES
  Answered
CHECK_DEADLOCK FALSE
