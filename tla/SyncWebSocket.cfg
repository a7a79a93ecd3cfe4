SPECIFICATION FairSpec
CONSTANTS
  MaxAttempts = 3
  MaxMessages = 2
  MaxSends = 2
INVARIANTS TypeOK NoLostWakeup NotificationCoversQueue OnlyUnsolicitedLost DeliveredInOrder FailedConnectIsClosed
PROPERTIES WaitsEnd
CHECK_DEADLOCK FALSE
