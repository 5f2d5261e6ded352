SPECIFICATION Spec
CONSTANTS
    Workers = {"w1"}
    Names = {"a", "b"}
    Inodes = {"i1", "i2"}
    FirstDir <- MCFirstDir
    OpenModes <- DeferringModes
    Callbacks = {"pwrite", "ftruncate", "unlinkat"}
    STRICT = TRUE
    MayFail = {"openat", "unlinkat"}
    NoFile = NoFile
    NoBackup = NoBackup
    Partial = Partial
    Other = Other
    NoHandle = NoHandle
    NoCall = NoCall
    NoEvent = NoEvent
INVARIANTS OriginalsSurvive BackedUpIsTrue
