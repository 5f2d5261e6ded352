SPECIFICATION Spec
CONSTANTS
    UINT32_MAX = 65535
    SESSION_BUCKETS = 2
    DIR_SET_MAX = 2
    Dirs = {"d1"}
    NoDir = "root"
    NoEvent = NoEvent
    IPs = {"ip1", "ip2"}
    Nets = {"net"}
    Covers <- NetCover
    LIST_MAX = 3
    AUTO_MAX = 1
    Messages <- ListMessages
    Settings <- ListSettings
    FirstConfig <- ListFirst
    Edits <- ListEdits
    Forms <- ListForms
    MayFail = {"blocked_write"}
    DAY = 3
    MaxTime = 1
    MaxSeq = 2
    MaxCount = 1
INVARIANTS TypeOK NoInnocentDenied
PROPERTIES ListedStayDenied VerdictIsComplete VerdictsAreKept
CHECK_DEADLOCK FALSE
