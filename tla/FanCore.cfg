SPECIFICATION Spec
CONSTANTS
    Clients = {p1}
    Main = daemon
    Dirs = {"top", "sub"}
    Above <- Tree
    Files = {"f", "g"}
    Home <- Places
    Channels = {"c"}
    Root <- OneRoot
    Source <- Ftp
    Embedded = {}
    Session <- Identity
    Slots = {1, 2, 3}
    Slot <- Buckets
    Window <- Windows
    First <- Plain
    Policies <- AnyPolicy
    BackupMayFail = TRUE
    PipeLimit = 1
    QueueLimit = 1
    MaxOpens = 1
    MaxReloads = 2
    MaxTime = 1
    NoSession = NoSession
    NoChannel = NoChannel
    NoEntry = NoEntry
    Never = Never
INVARIANTS TypeOK PreImagesKept IndexedIsStored SuppressedWasSent OnceAWindow
PROPERTIES PermAnswered DirsMarked
