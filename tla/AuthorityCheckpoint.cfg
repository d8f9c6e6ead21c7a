SPECIFICATION Spec
CONSTANTS
  Worker = {w1, w2}
  MaxOperations = 2
  MaxFaults = 3
  MaxFloor = 2
INVARIANTS
  OneContentPerMarker
  AcceptedIsComplete
  AcknowledgedIsPublished
  RefusedNeverApplied
  WriteAhead
PROPERTY
  ImplementsHistory
