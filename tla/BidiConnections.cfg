SPECIFICATION FairSpec
CONSTANTS
  Connections = {c1}
  Sessions = {s1, s2}
  Unbound = Unbound
  None = None
  MaxMessages = 2
INVARIANTS TypeOK SessionsEndOnce ConnectionsAreServed
PROPERTIES ConnectionsProgress
CHECK_DEADLOCK FALSE
