SPECIFICATION Spec
CONSTANTS
    Ceremonies = {c1, c2, c3}
    First = {k}
    Handlers = {h1, h2}
    SavesFail = TRUE
    ReadsFail = TRUE
    MaxRestarts = 2
SYMMETRY PasskeySymmetry
INVARIANTS
    ChallengeUsedOnce
    RemovedStaysOut
    RegisteredKept
    KeysMatchHandle
