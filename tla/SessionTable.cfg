SPECIFICATION Spec
CONSTANTS
    UINT32_MAX = 65535
    SESSION_BUCKETS = 3
    DIR_SET_MAX = 2
    Dirs = {"d1"}
    NoDir = "root"
    NoEvent = NoEvent
    Keys = {"a", "b", "c", "d"}
    NoKey = "none"
    Home <- MCHome
    MaxTime = 4
INVARIANTS TypeOK UniqueKeys Reachable CountIsExact
PROPERTIES BlockedKeepSlot ImplementsMap
CHECK_DEADLOCK FALSE
