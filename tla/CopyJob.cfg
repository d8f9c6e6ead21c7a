SPECIFICATION Spec
CONSTANTS
  Caller = {c1, c2}
  Slots = 1
  MaxFaults = 2
SYMMETRY CallerSymmetry
INVARIANTS
  GateOnce
  EarlierAreClosed
  StopFences
PROPERTY
  TerminalIsFinal
CHECK_DEADLOCK FALSE
