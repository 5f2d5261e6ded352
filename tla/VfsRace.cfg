SPECIFICATION Spec
CONSTANTS
    Workers = {"w1", "w2"}
    Names = {"a", "b"}
    Inodes = {"i1", "i2"}
    FirstDir <- MCFirstDir
    OpenModes <- WriteMode
    Callbacks = {"pwrite"}
    STRICT = TRUE
    MayFail = {}
    NoFile = NoFile
    NoBackup = NoBackup
    Partial = Partial
    Other = Other
    NoHandle = NoHandle
    NoCall = NoCall
    NoEvent = NoEvent
INVARIANTS OriginalsSurvive
