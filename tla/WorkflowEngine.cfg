\* The engine over a sector whose every read, erase and write may fail.
CONSTANTS
    r1 = r1
    PlatformRefs <- MCPlatformRefs
    GenRef = gen
    NoRef = noref
    NoRecord = norecord
    TimeMod = 7
    Debounce = 2
    StopGuard = 3
    FlashOutcomes <- AnySector
SPECIFICATION FairSpec
INVARIANTS
    TypeOK
    RuntimeCoherent
    UpgradeGuardAgrees
    RecoveryDataDurable
    InterruptedSessionKept
PROPERTIES
    PendingRecoveryStopsUntilRestart
    AccountedBeforeRestart
    ImplementsLifecycle
    ReturnsToService
