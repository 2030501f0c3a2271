\* Two producers and a consumer of each kind on a queue that fills up.
CONSTANTS
  Producers = {p1, p2}
  TimedPoppers = {c1}
  Poppers = {c2}
  Items = {i1, i2, i3}
  Limit = 2
  Tries = 2
  None = None
SPECIFICATION FairSpec
INVARIANTS Exclusion Fifo
PROPERTIES ImplementsFifo PushReturns TimedPopReturns Delivered
