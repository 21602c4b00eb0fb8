CONSTANTS
    Disks = {big, small}
    UndersizeDisks = {small}
    Blank = Blank
    None = None
    Requests = {r1, r2}
    Boot = Boot
    Sessions = {TRUE, FALSE}
    HostActs = {"lock"}
    Faults = {"kill", "power"}
SPECIFICATION Spec
INVARIANT TypeOK
PROPERTY RestoredOnBoot
