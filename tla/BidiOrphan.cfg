SPECIFICATION FairSpec
CONSTANTS
  Connections = {c1}
  Sessions = {s1}
  Unbound = Unbound
  None = None
  MaxMessages = 1
PROPERTY AcceptedWhileEndingIsClosed
CHECK_DEADLOCK FALSE
