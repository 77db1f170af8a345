SPECIFICATION Spec
CONSTANTS
    Period = 2
    PerCrf = 3
    Mtt = 2
    Low = 16
    Full = 128
    Start = 3
    Tolerance = 0
    Worlds <- MCWorlds
    MaxStrays = 1
CHECK_DEADLOCK FALSE
INVARIANTS ClockInv NoFalseVerdict
PROPERTY LookupEnds
