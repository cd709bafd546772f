SPECIFICATION ExSpec
CONSTANTS
    A = A
    B = B
    MaxStarts = 3
    MaxQueue = 2
    Tsids = {1, 2}
    Slots = 2
    Times = {2}
    DefaultLimit = 4
    Limits = {1}
    Limited = {"ap"}
    Word = 64
    MaxRetries = 3
    TimeoutTicks = 2
    TidSpace = 3
    MaxQueries = 4
    Tids = {1, 2}
    Offer = 2
    Windows = {0, 1}
    MaxReqs = 2
    MaxSas = 2
    Aps = {ap1, ap2}
    FirstAp = ap1
    OffChannel = {}
    RicDeny = {ap2}
    MaxRoams = 2
    MaxNonces = 6
    MaxData = 1
    Callers = {t1, t2}
    Channels = {1}
    SeqMax = 3
    Attempts = 2
    Tries = 1
    DrainMax = 1
    MaxLag = 1
SYMMETRY AnyCaller
INVARIANTS
    TdlsInv
    AdmissionInv
    SaQueryInv
    BlockAckInv
    FtInv
    TunedMeansCalibrated
PROPERTIES
    TeardownByKeyHolder
    AdmitsWithinLimit
CHECK_DEADLOCK FALSE
