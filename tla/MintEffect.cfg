SPECIFICATION Spec
CONSTANTS
  Gate = {g1, g2}
  Reconciler = {r1}
  Closer = {c1}
SYMMETRY CallSymmetry
CONSTRAINT Concurrency
INVARIANTS
  OneToken
  EvidenceIsTrue
  CustodyIsHeld
  NativeClosureIsProven
PROPERTY
  SafetyIsFinal
