SPECIFICATION HeldSpec
CONSTANTS
    Specs <- KeepOrNot
    ForeignFinalizers = {TRUE, FALSE}
    MaxEdits = 5
INVARIANTS
    HoldInv
PROPERTIES
    KeptSurvives
    NoLiveDrop
    ImplementsManagedObject
CHECK_DEADLOCK FALSE
