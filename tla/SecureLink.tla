----------------------------- MODULE SecureLink -----------------------------
(***************************************************************************)
(* What a keyed link promises its users, with the handshake left out: an   *)
(* end comes up under a key it has never used before, the AP only under a  *)
(* key the STA came up with, and numbers its packets one by one for as     *)
(* long as that key is in place.                                           *)
(***************************************************************************)
EXTENDS Naturals

CONSTANT NoKey   \* the key of an end that has installed none

VARIABLES
    up,     \* the end exchanges data
    key,    \* the key it has in place
    pn,     \* the packets numbered under that key
    spent   \* the keys it has ever had in place

linkVars == <<up, key, pn, spent>>

End == {"sta", "ap"}

Init ==
    /\ up = [n \in End |-> FALSE]
    /\ key = [n \in End |-> NoKey]
    /\ pn = [n \in End |-> 0]
    /\ spent = [n \in End |-> {}]

\* The end comes up under a new key, which key' names.
Establish(n) ==
    /\ ~up[n]
    /\ key'[n] \notin spent[n] \cup {NoKey}
    /\ n = "ap" => key'[n] \in spent["sta"]
    /\ up' = [up EXCEPT ![n] = TRUE]
    /\ key' = [key EXCEPT ![n] = key'[n]]
    /\ pn' = [pn EXCEPT ![n] = 0]
    /\ spent' = [spent EXCEPT ![n] = @ \cup {key'[n]}]

Transmit(n) ==
    /\ up[n]
    /\ pn' = [pn EXCEPT ![n] = @ + 1]
    /\ UNCHANGED <<up, key, spent>>

\* The association ends; the key stays in memory and is never used again.
Drop(n) ==
    /\ up[n]
    /\ up' = [up EXCEPT ![n] = FALSE]
    /\ UNCHANGED <<key, pn, spent>>

\* The end starts over from nothing.
Wipe(n) ==
    /\ up' = [up EXCEPT ![n] = FALSE]
    /\ key' = [key EXCEPT ![n] = NoKey]
    /\ pn' = [pn EXCEPT ![n] = 0]
    /\ UNCHANGED spent

Next == \E n \in End : Establish(n) \/ Transmit(n) \/ Drop(n) \/ Wipe(n)

Spec == Init /\ [][Next]_linkVars

=============================================================================
