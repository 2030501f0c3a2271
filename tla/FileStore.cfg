\* The server stops and starts between requests, and runs out of descriptors.
CONSTANTS
  a = a
  b = b
  Byte <- MCByte
  Contents <- MCContents
  CrashPoints = {"idle"}
  DiskSpace = 9
  FdLimit = 2
  MaxId = 3
  MaxData = 6
  MaxMisses = 2
SPECIFICATION Spec
INVARIANTS ReadBack RestartRestores
PROPERTIES IdNeverReused ServedWhileFdsLast
