SPECIFICATION Spec
CONSTANTS
    ByteBits <- MCByteBits
    Quadlets <- MCQuadlets
    Tables <- MCTables
    Values <- MCValues
    Images <- MCImages
    MaxWrites <- MCMaxWrites
INVARIANTS
    GetReadsWireBits
    HostsAgree
PROPERTIES
    ImplementsRecord
CHECK_DEADLOCK FALSE
