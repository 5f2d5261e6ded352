SPECIFICATION Spec
CONSTANTS
    UINT32_MAX = 65535
    SESSION_BUCKETS = 2
    DIR_SET_MAX = 2
    Dirs = {"d1"}
    NoDir = "root"
    NoEvent = NoEvent
    IPs = {"ip1", "ip2"}
    Nets = {}
    Covers <- NoCover
    LIST_MAX = 3
    AUTO_MAX = 2
    Messages <- EvidenceMessages
    Settings <- JumpyOnly
    FirstConfig <- EvidenceFirst
    Edits = {}
    Forms = {}
    MayFail = {}
    DAY = 2
    MaxTime = 3
    MaxSeq = 2
    MaxCount = 1
INVARIANTS EvidenceOfOneSession LockstepUntilFull
CHECK_DEADLOCK FALSE
