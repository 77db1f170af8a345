SPECIFICATION Spec
CONSTANTS
    Formats <- GbbOnly
    Payloads <- MCPayloads
    Sensors <- MCSensors
    Forged <- MCForged
    Sizes <- MCSizes
INVARIANT
    TruePayloadLength
