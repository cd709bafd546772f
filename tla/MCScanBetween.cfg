SPECIFICATION Spec
CONSTANTS
    MaxReqs = 1
    NumChans = 2
    MayUnplug = FALSE
INVARIANTS HeardWhereReported
