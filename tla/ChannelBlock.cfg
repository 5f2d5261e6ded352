SPECIFICATION Spec
CONSTANTS
    Pids = {p1, p2}
    NoPid = NoPid
    Free = Free
    MaxPids = 1
    MaxBirths = 3
    MaxVersions = 1
    MaxEvents = 2
    MayFail = {"fork", "crash"}
INVARIANTS TypeOK AimIsTrue
PROPERTIES DeletedIsSaved DoomedDie
