SPECIFICATION Spec
CONSTANTS
    Variants <- TwoVariants
    Default = "min"
    j1 = j1
    j2 = j2
    Jobs = {j1, j2}
    AutoBuild = TRUE
    Failures = TRUE
    Early = TRUE
    MaxJobs = 3
    MaxLogins = 1
SYMMETRY JobSymmetry
CHECK_DEADLOCK FALSE

INVARIANTS
    LatestIsDefault
    BootstrapCompleteUndisturbed
PROPERTY DevNeverBack
