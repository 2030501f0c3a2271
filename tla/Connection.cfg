\* One request at a time or pipelined requests; the latter may wedge.
CONSTANTS
  MaxRequests = 5
  Limit = 2
  Window = 2
  Modes = {TRUE, FALSE}
SPECIFICATION FairSpec
INVARIANTS PathIsFifo ReplyMatchesCall SyncNeverBlocked
PROPERTY SyncSendReturns
CHECK_DEADLOCK FALSE
