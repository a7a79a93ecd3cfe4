SPECIFICATION Spec
CONSTANTS
  MaxAttempts = 3
  MaxMessages = 1
  MaxSends = 1
INVARIANT NoStaleFrameAccess
CHECK_DEADLOCK FALSE
