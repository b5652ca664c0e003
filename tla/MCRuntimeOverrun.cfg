\* The documented fate of the log of an entry that overran, in the same instance.
CONSTANTS
    Capabilities <- AllCapabilities
    MaxTimers = 1
    MaxEntryDuration = 2
    MaxLog = 2
    Delays = {1, 2}
    Periods = {0, 2}
    MaxHandle = 2
    MaxSkipped = 1
    ClockFails = FALSE
    MaxClock = 5
SPECIFICATION Spec
PROPERTIES OverrunLogDiscarded
