CONSTANTS
    Disks = {big, small}
    UndersizeDisks = {}
    Blank = Blank
    None = None
    Requests = {r1, r2, r3}
    Boot = Boot
    Sessions = {FALSE}
    HostActs = {"eject"}
    Faults = {"open"}
SPECIFICATION Spec
SYMMETRY Symmetry
INVARIANTS DriveIsAsShown LinkFollowsDrive RecordsAgree
