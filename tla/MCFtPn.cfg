SPECIFICATION Spec
CONSTANTS
    Aps = {ap1, ap2}
    FirstAp = ap1
    OffChannel = {}
    RicDeny = {ap2}
    MaxRoams = 1
    MaxNonces = 4
    MaxData = 1
INVARIANTS
    PacketNumberFresh
CHECK_DEADLOCK FALSE
