SPECIFICATION Spec
CONSTANTS
    Offer <- MCOffer
    NoOffer <- None
    MaxRetired = 2
    OwnPrevious = FALSE
INVARIANTS Reopens RetirementsAgree OutboxIsCurrent ActivationFits
CHECK_DEADLOCK FALSE
