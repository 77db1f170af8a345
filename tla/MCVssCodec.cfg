SPECIFICATION Spec
CONSTANTS
    Octet = 4
    Quadlet = 2
    HeaderLen = 2
    StaticLen = 2
    LenMod = 8
    Room = 10
    Paths <- SomePaths
    Ids <- SomeIds
    Worlds <- ThreeWorlds
CHECK_DEADLOCK FALSE
INVARIANTS GettersStayInside RoundTrip StringsRoundTrip
