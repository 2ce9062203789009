SPECIFICATION Spec
CONSTANTS
    Manager = {static, report}
    Available = Available
    Instants = 2
    MaxTrouble = 4
PROPERTIES
    OnlyOwn
    UnchangedIsKept
    WritesEnd
CHECK_DEADLOCK FALSE
