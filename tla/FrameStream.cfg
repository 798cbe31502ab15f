\* Frames that fit, that do not, and that overflow the buffer; bytes lost.
CONSTANTS
    Sizes <- MCSizes
    MaxFrames = 4
    MaxLosses = 1
    Prefix = 2
    Base = 16
    Printable = 15
    Burst = 5
    RxCap = 11
    OutCap = 2
SPECIFICATION Spec
INVARIANTS
    StreamTypeOK
    TakenAsSent
PROPERTIES
    StreamSettles
