SPECIFICATION Spec
CONSTANTS
  Caller = {c1, c2}
  Slots = 1
  MaxFaults = 1
SYMMETRY CallerSymmetry
INVARIANT
  StopIsRetained
CHECK_DEADLOCK FALSE
