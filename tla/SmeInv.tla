------------------------------- MODULE SmeInv -------------------------------
(***************************************************************************)
(* The inductive invariant behind the theorems of SmeProofs.  Each part is *)
(* checked by TLC before it is proved.                                     *)
(***************************************************************************)
EXTENDS Sme

M3s == {f \in air : f.type = "M3"}
M4s == {f \in air : f.type = "M4"}

\* No nonce in use, in an installed key or in an M3 was drawn later than the last
\* one, and none of them is the zero of a cleared struct.
NoncesDrawn ==
    /\ anonce["ap"] <= fresh
    /\ snonce["sta"] <= fresh
    /\ \A n \in Node : \A k \in installs[n] : k.anonce \in 1..fresh /\ k.snonce <= fresh
    /\ \A f \in M3s : f.mic.anonce \in 1..fresh

\* In its 4-way the STA holds a key made with its current SNonce, and has
\* installed none made with it: every entry to the 4-way draws a new one.
StaKeyIsNew ==
    state["sta"] = "4WAY"
        => /\ ptk["sta"].snonce = snonce["sta"]
           /\ \A k \in installs["sta"] : k.snonce # snonce["sta"]

\* In its 4-way the AP has installed no key made with its current ANonce.
ApNonceIsNew ==
    state["ap"] = "4WAY"
        => /\ anonce["ap"] # 0
           /\ \A k \in installs["ap"] : k.anonce # anonce["ap"]

\* The replay counter separates the AP's handshakes: an M3 of the current ANonce
\* is not ahead of it, and one of a PTK left over from an earlier ANonce is behind.
M3Order ==
    \A f \in M3s :
        /\ f.mic.pmk = ApPmk
        /\ f.mic.anonce = anonce["ap"] => f.replay <= replay["ap"]
        /\ f.mic = ptk["ap"] /\ f.mic.anonce # anonce["ap"] => f.replay < replay["ap"]

\* An M4 answers an M3, from a STA that has installed the key.
M4Answers ==
    \A f \in M4s :
        /\ f.mic \in installs["sta"]
        /\ \E g \in M3s : g.mic = f.mic /\ g.replay = f.replay

\* The key in memory is an installed one or zero, a connected end uses it, and the
\* AP's PMK never changes.
KeyInPlace ==
    /\ pmk["ap"] = ApPmk
    /\ \A n \in Node : installedTk[n] \in installs[n] \cup {ZeroKey}
    /\ \A n \in Node : state[n] = "CONNECTED" => /\ ptk[n] = installedTk[n]
                                                 /\ installedTk[n] \in installs[n]

\* Packet numbers spent under the key in place are at or below the counters.
CountersAhead ==
    \A n \in Node :
        /\ \A u \in used[n] : u[1] \in installs[n] /\ (u[1] = installedTk[n] => u[2] <= dataTxPn[n])
        /\ \A d \in delivered[n] :
            d[1] \in installs[n] /\ (d[1] = installedTk[n] => d[3] <= rxReplay[n][d[2]])

HandshakeInv ==
    /\ NoncesDrawn
    /\ StaKeyIsNew
    /\ ApNonceIsNew
    /\ M3Order
    /\ M4Answers
    /\ KeyInPlace
    /\ KeyAgreement

\* The handshake, the key in place and the packet counters fit together in every
\* reachable state; KeyAgreement and the theorems on reuse follow from it.
SmeInv == TypeOK /\ HandshakeInv /\ CountersAhead

=============================================================================
