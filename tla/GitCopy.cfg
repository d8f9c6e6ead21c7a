CONSTANTS
    Role = {task}
    Call = {c1, c2}
    Verifier = {v1}
    MaxEvents = 1
SPECIFICATION Spec
SYMMETRY Symmetry
INVARIANTS OneSend VerifiedIsProven
PROPERTIES ClosedIsQuiet UseIsConsented
CHECK_DEADLOCK FALSE
