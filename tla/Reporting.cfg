\* Every order of ticks, sessions, configurations and losses of the connection.
CONSTANTS
    TimeMod = 8
    Slow = 2
    Gap = 3
    BootDelay = 1
    Levels = {1, 3}
    Names = {0, 1, 2}
    PingRoom = 0
    VitalsRoom = 1
    Default <- MCDefault
    Fallback <- MCFallback
    Requests <- MCRequests
SPECIFICATION Spec
INVARIANTS
    ReportingTypeOK
    NeverSilent
    ChangeReachesPlatform
PROPERTIES
    VitalsPaced
