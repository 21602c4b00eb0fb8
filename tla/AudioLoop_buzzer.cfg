CONSTANTS
    Tracks = {0, 1}
    MaxUnheard = 1
    MaxBurst = 1
    SpinClicks = 2
    Volumes = {100}
    MaxFaults = 2
SPECIFICATION Spec
INVARIANTS TypeOK NoLostWakeup NoStuckTone DutyFitsPeriod
PROPERTIES ToneEnds MuteHolds
