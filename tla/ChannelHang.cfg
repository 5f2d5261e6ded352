SPECIFICATION Spec
CONSTANTS
    Pids = {p1, p2}
    NoPid = NoPid
    Free = Free
    MaxPids = 1
    MaxBirths = 2
    MaxVersions = 1
    MaxEvents = 1
    MayFail = {}
PROPERTY NeverBlocksForever
