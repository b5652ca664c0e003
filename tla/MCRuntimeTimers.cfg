\* Two timers, one-shot and periodic, with late polls; entries that log, overrun
\* and trap, and a clock that may fail.
CONSTANTS
    Capabilities <- AllCapabilities
    MaxTimers = 2
    MaxEntryDuration = 2
    MaxLog = 1
    Delays = {1}
    Periods = {0, 2}
    MaxHandle = 3
    MaxSkipped = 1
    ClockFails = TRUE
    MaxClock = 5
SPECIFICATION Spec
INVARIANTS TypeOK TimersAccounted
PROPERTIES NoTimerSurvives HandlesNeverReissued NoStarvation PeriodsCoalesced OverrunUndone
