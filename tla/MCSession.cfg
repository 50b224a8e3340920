SPECIFICATION Spec
CHECK_DEADLOCK FALSE
CONSTANTS
    MaxRapidFailures = 5
INVARIANTS
    TypeOK
    GivingUpIsLast
    KioskIsGone
    OffIsClean
PROPERTIES
    PoweroffEnds
    Settles
