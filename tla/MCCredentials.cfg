SPECIFICATION Spec
CONSTANTS
    Hosts = {host1, host2}
    Bakes = {bake1, bake2}
    DockerFails = TRUE
    MaxLogins = 2
SYMMETRY BakeSymmetry
INVARIANTS
    BakedIsCurrent
    KindsApart
    CheckIsRight
