SPECIFICATION Spec
CONSTANTS
    Wrap = 4
    SeqWrap = 2
    MaxTransit = 2
    Latency = 2
    Apps <- MCApps
    MaxSent = 3
    MaxStrays = 1
    MaxTime = 8
CHECK_DEADLOCK FALSE
INVARIANT PlayoutInv
PROPERTIES QueuedIsPresented ImplementsPlayout
