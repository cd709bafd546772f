------------------------------ MODULE SmeView ------------------------------
(***************************************************************************)
(* What the glue sees of the station-management entity: whether it is      *)
(* still joining, up, or failed, the `connected' flag, and the TK of the   *)
(* last 4-way, which is never one of an earlier 4-way.                     *)
(***************************************************************************)

CONSTANT NoKey   \* the cleared key buffer

VARIABLES
    phase,   \* "open" stands for every state from INIT to 4WAY
    upFlag,  \* s->connected
    tk,      \* s->installed_tk
    spent,   \* the TKs of all the 4-ways so far
    armed    \* between rf_2a4m1_sme_init and rf_2a4m1_sme_connect_start

viewVars == <<phase, upFlag, tk, spent, armed>>

Init ==
    /\ phase = "open"
    /\ upFlag = FALSE
    /\ tk = NoKey
    /\ spent = {}
    /\ armed \in BOOLEAN

\* rf_2a4m1_sme_init
Wipe ==
    /\ phase' = "open"
    /\ upFlag' = FALSE
    /\ tk' = NoKey
    /\ armed' = TRUE
    /\ UNCHANGED spent

\* rf_2a4m1_sme_connect_start: back to SCANNING, whatever frames did since sme_init.
Restart ==
    /\ armed
    /\ armed' = FALSE
    /\ phase' = "open"
    /\ UNCHANGED <<upFlag, tk, spent>>

\* The 4-way ends with the key k.
Connects(k) ==
    /\ phase = "open"
    /\ k \notin spent \cup {NoKey}
    /\ phase' = "connected"
    /\ upFlag' = TRUE
    /\ tk' = k
    /\ spent' = spent \cup {k}
    /\ UNCHANGED armed

\* The AP ends the association; the key stays in memory.
Torn ==
    /\ phase # "failed"
    /\ phase' = "open"
    /\ upFlag' = FALSE
    /\ UNCHANGED <<tk, spent, armed>>

\* A refusal, which leaves the flag as it was.
Fails ==
    /\ phase # "failed"
    /\ phase' = "failed"
    /\ UNCHANGED <<upFlag, tk, spent, armed>>

Next == Wipe \/ Restart \/ Connects(tk') \/ Torn \/ Fails

Spec == Init /\ [][Next]_viewVars

=============================================================================
