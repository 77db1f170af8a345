SPECIFICATION Spec
CONSTANTS
    Formats <- MCFormats
    Payloads <- MCPayloads
    Sensors <- MCSensors
    Forged <- MCForged
    Sizes <- MCSizes
INVARIANTS
    TypeOK
    AcceptedIsReadable
    RoundTrip
    MadeIsAcceptedWhole
    NoStaleOctets
