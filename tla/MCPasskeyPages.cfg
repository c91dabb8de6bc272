SPECIFICATION PageSpec
CONSTANTS
    Ceremonies <- MCCeremonies
    First <- MCFirst
    Handlers = {h1, h2}
    SavesFail = TRUE
    ReadsFail = TRUE
    MaxRestarts = 1
    Browsers = {b1, b2}
    Devices = {d1, d2}
SYMMETRY PageSymmetry
INVARIANTS
    ShownIsTrue
    RefusedHasCause
    StoredIsHeld
