SPECIFICATION FairSpec
CONSTANTS
    CtrMod <- MCCtrMod
    SeqMod <- MCSeqMod
    MaxFrames <- MCMaxFrames
    StdMax <- MCStdMax
    Streams <- MCStreams
    StreamId = streamid
    Configs <- MCConfigs
    MaxReads = 6
    MaxEpochs = 2
    NetSize = 2
INVARIANTS
    TypeOK
    NoFalseAlarm
    AllOrNothing
    NothingStale
PROPERTIES
    GapsReported
    ImplementsTunnel
    BatchesArrive
CHECK_DEADLOCK FALSE
