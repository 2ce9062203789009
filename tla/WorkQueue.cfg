SPECIFICATION Spec
CONSTANTS
    Key = {k1, k2, k3}
    Worker = {w1, w2, w3}
    NoKey = NoKey
INVARIANTS
    QueueHoldsDirty
    NobodyOversleeps
    StopIsHeard
PROPERTIES
    KeepsPromise
    FailuresAreRetried
    StopsWhenTold
