CONSTANTS
    Media = {floppy1, floppy2}
    ReadOnlyFiles = {}
    NoFile = NoFile
    Writers = {u1}
    Kthread = Kthread
    HostCommands = {"INQUIRY", "REQUEST_SENSE", "TEST_UNIT_READY", "READ", "WRITE", "PREVENT", "ALLOW", "START", "STOP", "EJECT"}
    Exceptions = {"PROTOCOL_RESET", "CONFIG_CHANGE", "EXIT"}
    RoValues = {TRUE, FALSE}
    HostForgetsOnReset = FALSE
SPECIFICATION Spec
INVARIANT ServedKnownMedium
