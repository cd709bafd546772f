SPECIFICATION GlueSpec
CONSTANTS
    MaxReqs = 3
    NumChans = 2
    MayUnplug = TRUE
    Bssids = {"a1", "a2"}
    Depth = 1
    DrainMax = 2
    MaxConnects = 2
    MaxTx = 2
    MaxRx = 1
    MaxErrors = 1
    PayloadLens <- MCPayloadLens
    EapolMin = 5
    TxBuf = 72
INVARIANTS
    ScanInv
    ReportsAccounted
    StatsUnraced
    ReceivedInv
    SentIsReceived
PROPERTIES
    ImplementsContract
    EveryScanEnds
    FifoDrains
CHECK_DEADLOCK FALSE
