SPECIFICATION Spec
CONSTANTS
    Links <- MCLinks
    MaxFrames = 2
    MaxPdu = 1500
    Payloads = {0, 7, 8, 16, 20, 40, 48, 64, 1400}
    Foreign <- MCForeign
    Extra <- MCExtra
INVARIANTS ReceiveInv AcceptedIffWhole MessagesRecovered
PROPERTY WalkEnds
