SPECIFICATION Spec
CONSTANTS
    MaxReqs = 1
    NumChans = 1
    MayUnplug = TRUE
INVARIANTS NoScanAtUnregister
CHECK_DEADLOCK FALSE
