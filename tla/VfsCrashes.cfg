SPECIFICATION Spec
CONSTANTS
    Workers = {w1, w2}
    Names = {"a", "b"}
    Inodes = {"i1", "i2"}
    FirstDir <- MCFirstDir
    OpenModes <- CreateMode
    Callbacks = {"renameat"}
    STRICT = FALSE
    MayFail = {"openat", "crash"}
    NoFile = NoFile
    NoBackup = NoBackup
    Partial = Partial
    Other = Other
    NoHandle = NoHandle
    NoCall = NoCall
    NoEvent = NoEvent
INVARIANTS TypeOK OneCopier
PROPERTIES FirstCopyWins
SYMMETRY WorkerSymmetry
