SPECIFICATION Spec
CONSTANTS
    Files = {"a", "b"}
    Old = {"a", "b"}
    Events = {"e1"}
    Procs = {"p1"}
    MayFail = {"crash", "status", "copy", "quarantine"}
INVARIANTS TypeOK NothingLost ChangedAreBack
CHECK_DEADLOCK FALSE
