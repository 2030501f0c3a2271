\* Three clients, two workers, two seconds, a queue of one; they ask for a PHP
\* page or for a file that is not there.
CONSTANTS
  Clients = {c1, c2, c3}
  Workers = {w1, w2}
  Static = {}
  Php = {p1}
  Missing = {m}
  Default = default
  QueueLimit = 1
  MaxSecond = 1
  None = None
SPECIFICATION FairSpec
INVARIANTS WrongOnlyIfShared NoLeftovers
PROPERTY AnsweredUnlessHeld
CHECK_DEADLOCK FALSE
