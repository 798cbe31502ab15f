\* A frame that completes with the bytes of a poll.
CONSTANTS
    Sizes <- MCSizes
    MaxFrames = 3
    MaxLosses = 0
    Prefix = 2
    Base = 16
    Printable = 15
    Burst = 5
    RxCap = 11
    OutCap = 2
SPECIFICATION Spec
INVARIANTS
    EveryFrameHandedOver
