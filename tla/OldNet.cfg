\* A client that waits for its answers and one that does not, three packets each;
\* the buffer has room for a body and the first unit of what follows.
CONSTANTS
  Clients = {c1, c2}
  Hasty = {c2}
  Listener = listener
  Word = 2
  Body = 2
  BufferLength = 3
  QueueLimit = 2
  MaxPackets = 3
SPECIFICATION Spec
PROPERTIES AnsweredUnlessHeld DroppedOnlyIfClosedOrCut
CHECK_DEADLOCK FALSE
