\* One client may take the other's name; connections close at any time.
CONSTANTS
  e1 = e1
  e2 = e2
  alice = alice
  bob = bob
  EndPoints = {e1, e2}
  Users = {alice, bob}
  LoginNames <- SharedNames
  Closers = {e1, e2}
  MaxRequests = 3
  TaskLimit = 1
  OutLimit = 1
  None = None
SPECIFICATION FairSpec
INVARIANTS PrivateStaysPrivate
PROPERTIES AgreesUntilSecondLogin LoginTakesEffect ReleasedUnlessHeld
CHECK_DEADLOCK FALSE
