SPECIFICATION FairSpec
CHECK_DEADLOCK FALSE
CONSTANTS
    Cookies = {t1, t2}
    Handlers = {h1, h2, h3}
    Container = TRUE
    MaxBakes = 2
    MaxRestarts = 2
INVARIANTS
    OneProgram
    SlotAccounted
    OneBake
PROPERTY
    TerminalCloses
