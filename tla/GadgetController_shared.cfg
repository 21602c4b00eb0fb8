CONSTANTS
    Disks = {big, small}
    UndersizeDisks = {small}
    Blank = Blank
    None = None
    Requests = {r1, r2}
    Boot = Boot
    Sessions = {TRUE}
    HostActs = {}
    Faults = {}
SPECIFICATION Spec
INVARIANT DriveIsAsShown
