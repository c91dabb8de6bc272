SPECIFICATION FairSpec
CHECK_DEADLOCK FALSE
CONSTANTS
    timer = timer
    operator = operator
    w1 = w1
    w2 = w2
    Jobs = {timer, operator}
    Writers = {w1, w2}
    Failing = {"prune", "inspect", "stop", "collect", "start"}
    MaxSignals = 1
INVARIANTS
    StopTheWorld
    RegistryBackUndisturbed
PROPERTY
    NobodyWaitsForever
    ImplementsRegistryLock
