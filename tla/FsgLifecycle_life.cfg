CONSTANTS
    Users = {u1, u2}
    LunUsers = {u2}
    MaxLost = 1
    LoadFaults = {"allocBuffers", "createLun", "setBuffers", "setCdev", "createLuns", "openLun", "strings", "getFunction", "runThread", "autoconf", "register"}
    UsbFaults = {"enable", "allocate"}
SPECIFICATION Spec
INVARIANTS TypeOK NoUseAfterFree RequestsOutlived InterfaceFollowsHost NothingLeft
PROPERTIES AnswersItsRequest ModuleReturns ConfigAnswered
