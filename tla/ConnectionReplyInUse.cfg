\* SyncSendPacket returns a reply that OnReceived is still reading.
CONSTANTS
  MaxRequests = 2
  Limit = 2
  Window = 2
  Modes = {TRUE}
SPECIFICATION Spec
INVARIANT HandlerPacketAlive
