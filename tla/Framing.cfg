\* Packets that fit, one that fills the buffer for ever, and refused ones.
CONSTANTS
  Payloads <- Mixed
  BufferSize = 8
  MaxPackets = 3
  Stale = Stale
SPECIFICATION FairSpec
INVARIANTS NothingForged ClosedByPeerOrFull
PROPERTY Delivered
