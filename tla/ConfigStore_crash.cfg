CONSTANTS
    Disks = {floppy1, floppy2}
    Volumes = {v1, v2}
    None = None
    Loop = Loop
    Threads = {t1}
    Inodes = {i1, i2, i3}
    Overlaps = FALSE
SPECIFICATION Spec
SYMMETRY Symmetry
INVARIANTS NeverPartial SavedIsCurrent
