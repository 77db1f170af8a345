SPECIFICATION Spec
CONSTANTS
    Devs = {"ecu1", "ecu2"}
    Eths = {"mon1", "mon2"}
    Peer <- Cable
    Worlds <- MCWorlds
    Default <- Unset
    SffMod = 2
    EffMod = 4
    Ecu1 = "ecu1"
    Ecu2 = "ecu2"
CHECK_DEADLOCK FALSE
INVARIANTS DeviceInv ActiveIsFound
PROPERTY ImplementsTunnel
