\* One client, which is stopped and started again without end.
SPECIFICATION FairSpec
CONSTANTS
    App = App
    Watchdog = Watchdog
    Scheduler = Scheduler
    Workers = {w1, w2}
    PauseLevel = 1
    ResumeLevel = 0
    IdleTicks = 2
INVARIANTS
    CountIsHeld
    StoppedIsQuiet
PROPERTIES
    IsConnectionReports
    EstablishedStays
    WatchdogIsFair
    StopEnds
