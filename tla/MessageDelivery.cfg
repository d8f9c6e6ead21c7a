SPECIFICATION FairSpec
CONSTANTS
  a = a
  b = b
  Inviter = a
  Joiner = b
  MaxTexts <- MCTexts
  Limit = 1
  MaxUnconsumed = 2
  MaxLifetime = 4
  MaxFaults = 1
  MaxDisturbances = 1
INVARIANTS
  InOrderOnce
  NothingLost
  JoinsMergedGroup
PROPERTIES
  AdmissionSettles
  TextsArrive
CHECK_DEADLOCK FALSE
