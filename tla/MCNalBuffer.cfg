SPECIFICATION Spec
CONSTANTS
    DataLen = 4
    HeaderLen = 0
    Pipes <- SomePipes
CHECK_DEADLOCK FALSE
INVARIANT NalInv
PROPERTY StreamIsSent
