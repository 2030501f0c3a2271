\* A browser with two requests and one with one. Three descriptors can be watched;
\* none, one or all three may have been counted before the listener is added.
CONSTANTS
  c1 = c1
  c2 = c2
  Clients = {c1, c2}
  Listener = listener
  MaxEventNum = 3
  FirstFdNum = {0, 1, 3}
  JunkBits <- MCJunkBits
  MaxRequests <- MCMaxRequests
SPECIFICATION Spec
INVARIANTS NoLostEdge
PROPERTIES AnsweredUnlessStalled ClosedIsReleased
CHECK_DEADLOCK FALSE
