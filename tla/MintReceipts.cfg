SPECIFICATION Spec
CONSTANTS
  Gate = {g1}
  Reconciler = {r1}
  Closer = {c1}
INVARIANTS
  ClosuresAgree
