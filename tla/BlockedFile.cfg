SPECIFICATION Spec
CONSTANTS
    IPs = {"ip1", "ip2", "ip3"}
    Writers = {"daemon", "recover"}
    Consoles = {"console"}
    Workers = {"smbd"}
    Requests <- MCRequests
    MayFail = {"lock", "read", "open", "write", "rename", "load", "kill"}
    MaxTime = 2
    MaxAsked = 4
    Missing = Missing
    NoProc = NoProc
    NoCache = NoCache
    Idle = Idle
INVARIANTS TypeOK CheckIsCurrent
PROPERTIES Linearizable WritersFinish
