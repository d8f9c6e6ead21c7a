SPECIFICATION FairSpec
CONSTANTS
  a = a
  b = b
  Inviter = a
  Joiner = b
  MaxTexts <- MCTexts
  Limit = 1
  MaxUnconsumed = 2
  MaxLifetime = 4
  MaxFaults = 0
  MaxDisturbances = 0
PROPERTY
  CatchesUp
CHECK_DEADLOCK FALSE
