SPECIFICATION Spec
CONSTANTS
    Parts = {"ring"}
    Urbs = 2
    MaxAgg = 1
    MaxSegs = 1
    MaxErrs = 0
    MaxFailures = 0
    MaxTx = 0
    Callers = {"scan"}
    Channels = {1, 6}
    SeqMax = 3
    Attempts = 3
    Tries = 2
    DrainMax = 4
    MaxLag = 2
    IlmLens = {3, 5}
    DlmLens = {0, 3}
    Payload = 2
    Ivb = 1
    DlmOffset = 8
    IoErrors = TRUE
    MaxBinds = 3
INVARIANTS
    StopIsFinal
CHECK_DEADLOCK FALSE
