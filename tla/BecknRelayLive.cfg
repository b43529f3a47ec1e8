CONSTANTS
  Messages = {m1}
  Subscribers = 1
  BapRetries = 1
  BppRetries = 0
  MaxReplies = 1
  MaxCrashes = 1
SPECIFICATION FairSpec
PROPERTY AckedIsAnswered
CHECK_DEADLOCK FALSE
