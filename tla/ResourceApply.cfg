SPECIFICATION FairSpec
CONSTANTS
    MaxUid = 2
    MaxCA = 3
    MaxTrouble = 3
INVARIANTS
    SkippedIsApplied
PROPERTIES
    WebhookCAKept
    AppliesAtomically
    Settles
