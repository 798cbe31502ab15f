\* Platform, cards and power losses against one engine.
CONSTANTS
    t1 = t1
    t2 = t2
    PlatformRefs <- NoRefs
    GenRef = gen
    NoRef = noref
    NoRecord = norecord
    TimeMod = 7
    Debounce = 3
    StopGuard = 3
    FlashOutcomes <- TakingSector
    Tokens <- MCTokens
    NoToken = notoken
    GlobalDebounce = 1
    SameTokenDebounce = 2
    ModuleCommands <- BothCommands
SYMMETRY Symmetry
SPECIFICATION ControlSpec
INVARIANTS
    ControlTypeOK
    TokenBelongsToSession
    PumpFollowsSession
PROPERTIES
    HeldCardDoesNotToggle
    OtherCardHasNoEffect
