SPECIFICATION FairSpec
CONSTANTS
  Worker = {w1, w2}
  MaxOperations = 1
  MaxFaults = 2
  MaxFloor = 2
PROPERTIES
  CommittedIsPublished
  RequestsEnd
