SPECIFICATION Spec
CONSTANTS
    Type = {jso, role, service, deployment}
    Ctx = {ctx}
    Caller = {}
    JobSetOperators = jso
    StaticKind = {role, service}
    TargetKind = {deployment}
    Context = ctx
    OperatorLogLevel = {"", "Debug"}
    Flag = {0, 5}
    NoCR = "none"
INVARIANTS
    CachesAreBeingFilled
    NeverMisled
    WatchesWhenPresent
    LevelAtRest
PROPERTIES
    ComesToWork
    VerbosityFollows
