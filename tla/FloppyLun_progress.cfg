CONSTANTS
    Media = {floppy1, floppy2}
    ReadOnlyFiles = {}
    NoFile = NoFile
    Writers = {u1}
    Kthread = Kthread
    HostCommands = {"REQUEST_SENSE", "TEST_UNIT_READY", "READ", "START", "STOP", "EJECT"}
    Exceptions = {"PROTOCOL_RESET"}
    RoValues = {FALSE}
    HostForgetsOnReset = TRUE
SPECIFICATION PollingSpec
PROPERTIES StoreCompletes CommandCompletes HostLearnsOfChange
