SPECIFICATION Spec
CONSTANTS
    UINT32_MAX = 65535
    SESSION_BUCKETS = 1
    DIR_SET_MAX = 2
    Dirs = {"d1", "d2", "d3"}
    NoDir = "root"
    NoEvent = "none"
    Messages <- MCMessages
    Cfg <- MCCfg
    MaxMsgs = 4
    MaxTime = 5
INVARIANTS TypeOK CountersCountTheWindow
PROPERTIES MoreActivityNeverSafer ScoredOnFreshActivity
CHECK_DEADLOCK FALSE
