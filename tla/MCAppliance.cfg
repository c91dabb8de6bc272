SPECIFICATION FairSpec
CONSTANTS
    Operators = {o1, o2}
    TornWrites = TRUE
    MaxBoots = 2
    MaxCommands = 3
CHECK_DEADLOCK FALSE
INVARIANTS
    MarkerMeansPassword
    OperatorKept
    PasswordKnown
    ServesConfigured
PROPERTIES
    BootRepairs
    ComesUp
