SPECIFICATION Spec
CONSTANTS
    Kind <- MCKind
    MaxUid = 2
    MaxTrouble = 3
INVARIANT
    SuccessIsTrue
PROPERTIES
    Converges
    LetsGo
CHECK_DEADLOCK FALSE
