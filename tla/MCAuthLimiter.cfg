SPECIFICATION Spec
CONSTANTS
    Clients = {c1, c2, c3}
    Handlers = {h1, h2, h3}
    MaxEntries = 2
    Slots = 2
    Threshold = 2
    MaxLock = 2
    Idle = 1
    MaxTime = 5
SYMMETRY LimiterSymmetry
INVARIANTS
    TableBounded
    SlotsAccounted
    GuessesAreSlow
PROPERTY
    ImplementsGate
