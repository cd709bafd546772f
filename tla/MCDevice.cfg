SPECIFICATION Spec
CONSTANTS
    Parts = {"ring", "tune", "load"}
    Urbs = 2
    MaxAgg = 2
    MaxSegs = 2
    MaxErrs = 1
    MaxFailures = 1
    MaxTx = 1
    Callers = {"scan"}
    Channels = {1, 6}
    SeqMax = 3
    Attempts = 3
    Tries = 2
    DrainMax = 4
    MaxLag = 2
    IlmLens = {3, 5}
    DlmLens = {0, 3}
    Payload = 2
    Ivb = 1
    DlmOffset = 8
    IoErrors = TRUE
    MaxBinds = 3
INVARIANTS
    RingInv
    DeliveredInOrder
    QuietAfterStop
    LoadInv
    InitedMeansLive
    NothingLeaks
PROPERTIES
    QueueDrains
    TuneReturns
    ProbeEnds
CHECK_DEADLOCK FALSE
