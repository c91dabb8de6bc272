SPECIFICATION Spec
CONSTANTS
    Tags = {t1, t2}
    Named = {latest}
    Unlabelled = {hex}
    TTLs = {1, 3}
    Grace = 2
    MaxPublish = 1
    LastStart = 2
    MaxTime = 4
    MaxCrashes = 1
SYMMETRY TagSymmetry
INVARIANTS
    LiveImageServed
    RefusedHoldsNothing
    ForeignKept
PROPERTY
    ExpiredStaysOut
    ImplementsLedger
    ImplementsRegistryLock
