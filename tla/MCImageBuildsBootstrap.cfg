SPECIFICATION Spec
CONSTANTS
    Variants <- ThreeVariants
    Default = "min"
    j1 = j1
    j2 = j2
    Jobs = {j1, j2}
    AutoBuild = TRUE
    Failures = TRUE
    Early = FALSE
    MaxJobs = 1
    MaxLogins = 0
SYMMETRY JobSymmetry
CHECK_DEADLOCK FALSE
INVARIANT BootstrapComplete
