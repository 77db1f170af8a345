SPECIFICATION Spec
CONSTANTS
    Batch = 2
    QueueLen = 3
    Mailboxes = 2
    SeqNums = 3
    Worlds <- TwoWorlds
    MaxFrames = 10
CHECK_DEADLOCK FALSE
INVARIANT NoFalseAlarm
PROPERTIES ImplementsTunnel AllForwarded
