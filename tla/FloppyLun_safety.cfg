CONSTANTS
    Media = {floppy, rofloppy}
    ReadOnlyFiles = {rofloppy}
    NoFile = NoFile
    Writers = {u1, u2}
    Kthread = Kthread
    HostCommands = {"REQUEST_SENSE", "READ", "WRITE", "PREVENT", "EJECT"}
    Exceptions = {"CONFIG_CHANGE", "EXIT"}
    RoValues = {TRUE, FALSE}
    HostForgetsOnReset = TRUE
SPECIFICATION Spec
SYMMETRY Symmetry
INVARIANTS TypeOK MediumHeldDuringCommand ServedKnownMedium DoorHoldsForLaterStores ReadOnlyAsOpened
PROPERTY ImplementsDrive
