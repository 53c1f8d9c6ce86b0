SPECIFICATION Spec
CONSTANTS
    Loops = {l1}
    HourTicks = 1
    DayHours = 24
    DayValues = {1, 2}
    Start = 0
    Stamps = {}
    Faults = FALSE
    MaxTime = 80
    MaxSamples = 1
PROPERTIES
    DocReloadApplies
