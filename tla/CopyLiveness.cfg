SPECIFICATION FairSpec
CONSTANTS
  Caller = {c1}
  Slots = 1
  MaxFaults = 4
PROPERTIES
  WorkflowEnds
  QueuedIsPicked
CHECK_DEADLOCK FALSE
