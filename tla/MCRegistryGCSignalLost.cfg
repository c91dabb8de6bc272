SPECIFICATION Spec
CHECK_DEADLOCK FALSE
CONSTANTS
    timer = timer
    operator = operator
    w1 = w1
    w2 = w2
    Jobs = {timer, operator}
    Writers = {w1, w2}
    Failing = {}
    MaxSignals = 1
INVARIANT
    RegistryBack
