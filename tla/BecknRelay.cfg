CONSTANTS
  Messages = {m1}
  Subscribers = 1
  BapRetries = 1
  BppRetries = 1
  MaxReplies = 1
  MaxCrashes = 1
SPECIFICATION Spec
INVARIANTS
  TypeOK
  TimedOutOnlyIfExpired
  AckedIsHeld
PROPERTY KeepsPromise
CHECK_DEADLOCK FALSE
