CONSTANTS
    NumBuffers = 2
    BufLen = 4
    BlockLen = 2
    FileLen = 12
    Starts = {0, 8, 12}
    CdbLens = {0, 4, 12, 20}
    U32 = 16
    ReplyLen = 1
    HostLens = {0, 7, 12}
    EmptyCommands = TRUE
    Faults = {"io", "stop", "reset"}
SPECIFICATION Spec
INVARIANTS AlreadySet
