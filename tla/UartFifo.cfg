\* The interrupt handler against the superloop, with and without overflow.
CONSTANTS
    Cap = 4
    MaxBytes = 8
SPECIFICATION Spec
INVARIANTS
    UartTypeOK
    DeliveredInOrder
    LossOnlyByExcess
