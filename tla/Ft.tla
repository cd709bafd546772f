--------------------------------- MODULE Ft ---------------------------------
(***************************************************************************)
(* Fast BSS transition (rf_2a4m1_roam.c and the FT handlers of             *)
(* rf_2a4m1_sme.c): a connected STA moves to another AP of its mobility    *)
(* domain without a 4-way handshake, over the air or over the DS, with a   *)
(* resource request (RIC) and operating-channel validation on the way.     *)
(*                                                                         *)
(* The FT frames carry a MIC at most, and no counter: a frame sent stays   *)
(* in `air' and may be received late, twice, out of order or never. The    *)
(* link delivers a frame of the STA to the AP it is meant for (External).  *)
(***************************************************************************)
EXTENDS Naturals

CONSTANTS
    Aps,        \* the APs of the mobility domain
    FirstAp,    \* the AP the STA is connected to at first
    OffChannel, \* the APs whose channel is not the one the STA reports
    RicDeny,    \* the APs with ric_ap_deny set
    MaxRoams,   \* bound: roams begun
    MaxNonces,  \* bound: nonces and group keys drawn
    MaxData     \* bound: data frames the STA sends

FtConstants ==
    /\ FirstAp \in Aps
    /\ OffChannel \subseteq Aps
    /\ RicDeny \subseteq Aps
    /\ {MaxRoams, MaxNonces, MaxData} \subseteq Nat

VARIABLES
    sta,     \* the STA's SME: peer, ft_target, ft_snonce, ptk, gtk, ...
    ap,      \* each AP's SME: ptk, gtk
    key,     \* installed_tk of the STA and of each AP
    txPn,    \* the STA's data_tx_pn
    air,     \* the FT frames sent
    drawn,   \* nonces and group keys drawn so far
    roams,   \* roams begun
    derived, \* history: the PTKs the STA and each AP have derived
    sent,    \* history: the keys and packet numbers of the STA's data frames
    repeated \* history: a packet number was used twice under one key

vars == <<sta, ap, key, txPn, air, drawn, roams, derived, sent, repeated>>

\* The key hierarchy: within the domain every AP and the STA derive the same
\* PMK-R0, and PMK-R1 depends on the AP (rf_2a4m1_ft_derive_pmk_r0, _r1).
PmkR1(a) == a

\* rf_2a4m1_ft_derive_ptk
DerivePtk(pmkR1, snonce, anonce) == [r1 |-> pmkR1, snonce |-> snonce, anonce |-> anonce]

\* The PTK of the first 4-way handshake (module Sme).
FirstPtk == DerivePtk(FirstAp, 0, 0)
NoKey == [r1 |-> "none"]

\* The Fast Transition element, by its nonces (its MIC is below).
Fte(snonce, anonce) == [snonce |-> snonce, anonce |-> anonce]

Auth1(a, snonce) == [type |-> "AUTH1", to |-> a, fte |-> Fte(snonce, 0)]
Auth2(snonce, anonce) == [type |-> "AUTH2", fte |-> Fte(snonce, anonce)]
DsRequest(a, target, snonce) == [type |-> "DS_REQ", to |-> a, target |-> target, fte |-> Fte(snonce, 0)]
DsResponse(snonce, anonce) == [type |-> "DS_RESP", fte |-> Fte(snonce, anonce)]

\* The MIC of the FTE covers the AP's address, the MDE, the FTE, the PMKR1Name
\* and everything behind it: it is the key and the AP that it stands for.
Mic(ptk, a) == [ptk |-> ptk, ap |-> a]
ReassocReq(a, ptk) == [type |-> "REASSOC_REQ", to |-> a, mic |-> Mic(ptk, a)]
ReassocResp(a, ptk, gtk, granted) ==
    [type |-> "REASSOC_RESP", mic |-> Mic(ptk, a), gtk |-> gtk, granted |-> granted]

Init ==
    /\ sta = [peer |-> FirstAp, target |-> FirstAp, snonce |-> 0, ptk |-> FirstPtk, gtk |-> 0,
              completed |-> FALSE, ricGranted |-> FALSE]
    /\ ap = [a \in Aps |-> [ptk |-> IF a = FirstAp THEN FirstPtk ELSE NoKey, gtk |-> 0]]
    /\ key = [sta |-> FirstPtk, aps |-> [a \in Aps |-> IF a = FirstAp THEN FirstPtk ELSE NoKey]]
    /\ txPn = 0
    /\ air = {}
    /\ drawn = 0
    /\ roams = 0
    /\ derived = [sta |-> {FirstPtk}, aps |-> [a \in Aps |-> IF a = FirstAp THEN {FirstPtk} ELSE {}]]
    /\ sent = {}
    /\ repeated = FALSE

\* What rf_2a4m1_sme_ft_roam and rf_2a4m1_sme_ft_roam_over_ds have in common.
BeginRoam(target, frame) ==
    /\ roams < MaxRoams
    /\ drawn < MaxNonces
    /\ roams' = roams + 1
    /\ drawn' = drawn + 1
    /\ sta' = [sta EXCEPT !.target = target, !.snonce = drawn + 1, !.completed = FALSE,
                          !.ricGranted = FALSE]
    /\ air' = air \cup {frame}
    /\ UNCHANGED <<ap, key, txPn, derived, sent, repeated>>

\* rf_2a4m1_sme_ft_roam
FtRoam(target) == BeginRoam(target, Auth1(target, drawn + 1))

\* rf_2a4m1_sme_ft_roam_over_ds: the request goes to the current AP.
FtRoamOverDs(target) == BeginRoam(target, DsRequest(sta.peer, target, drawn + 1))

\* An AP draws an ANonce and derives the PTK it will work with: whatever PTK it
\* held, that of a live association included, is overwritten.
ApDerive(a, snonce) ==
    LET ptk == DerivePtk(PmkR1(a), snonce, drawn + 1)
    IN /\ drawn < MaxNonces
       /\ drawn' = drawn + 1
       /\ ap' = [ap EXCEPT ![a].ptk = ptk]
       /\ derived' = [derived EXCEPT !.aps[a] = @ \cup {ptk}]

\* rf_2a4m1_ft_ap_on_auth1
ApOnAuth1(f) ==
    /\ f.type = "AUTH1"
    /\ ApDerive(f.to, f.fte.snonce)
    /\ air' = air \cup {Auth2(f.fte.snonce, drawn + 1)}
    /\ UNCHANGED <<sta, key, txPn, roams, sent, repeated>>

\* rf_2a4m1_ft_ap_on_ds_request: the current AP pushes the PMK-R1 to the target
\* (rf_2a4m1_ft_ds_target_process), which is another AP, and answers for it.
ApOnDsRequest(f) ==
    /\ f.type = "DS_REQ"
    /\ f.target # f.to
    /\ ApDerive(f.target, f.fte.snonce)
    /\ air' = air \cup {DsResponse(f.fte.snonce, drawn + 1)}
    /\ UNCHANGED <<sta, key, txPn, roams, sent, repeated>>

\* rf_2a4m1_ft_sta_on_auth2 and rf_2a4m1_ft_sta_on_ds_response: the STA's PTK is
\* replaced while its association with the old AP is still in use.
StaOnAuth2(f) ==
    /\ f.type \in {"AUTH2", "DS_RESP"}
    /\ f.fte.snonce = sta.snonce
    /\ LET ptk == DerivePtk(PmkR1(sta.target), f.fte.snonce, f.fte.anonce)
       IN /\ sta' = [sta EXCEPT !.ptk = ptk]
          /\ derived' = [derived EXCEPT !.sta = @ \cup {ptk}]
          /\ air' = air \cup {ReassocReq(sta.target, ptk)}
    /\ UNCHANGED <<ap, key, txPn, drawn, roams, sent, repeated>>

\* Mutant: the MIC is not checked.
ApMicUnchecked(a, f) == TRUE

\* The PMKR1Name and the MIC of a Reassociation Request, as the AP checks them.
ApMicOk(a, f) == f.mic = Mic(ap[a].ptk, a)

\* rf_2a4m1_ft_ap_on_reassoc: the MIC, the channel, the resource request, a new
\* group key, and the keys are installed.
ApOnReassoc(f) ==
    /\ f.type = "REASSOC_REQ"
    /\ LET a == f.to
       IN /\ ApMicOk(a, f)
          /\ a \notin OffChannel
          /\ drawn < MaxNonces
          /\ drawn' = drawn + 1
          /\ ap' = [ap EXCEPT ![a].gtk = drawn + 1]
          /\ key' = [key EXCEPT !.aps[a] = ap[a].ptk]
          /\ air' = air \cup {ReassocResp(a, ap[a].ptk, drawn + 1, a \notin RicDeny)}
    /\ UNCHANGED <<sta, txPn, roams, derived, sent, repeated>>

\* The MIC of a Reassociation Response, as the STA checks it.
StaMicOk(f) == f.mic = Mic(sta.ptk, sta.target)

\* Mutant: a refusal counts as a grant.
RicAnyAnswer(granted) == TRUE

\* The outcome of the resource request: the answer of this response.
Ric(granted) == granted

\* rf_2a4m1_ft_sta_on_reassoc: in any state of the STA. A TK other than the one
\* installed restarts the packet number (rf_2a4m1_sme_install_data_key).
StaOnReassoc(f) ==
    /\ f.type = "REASSOC_RESP"
    /\ StaMicOk(f)
    /\ sta' = [sta EXCEPT !.peer = sta.target, !.gtk = f.gtk, !.completed = TRUE,
                          !.ricGranted = Ric(f.granted)]
    /\ key' = [key EXCEPT !.sta = sta.ptk]
    /\ txPn' = IF key.sta = sta.ptk THEN txPn ELSE 0
    /\ UNCHANGED <<ap, air, drawn, roams, derived, sent, repeated>>

\* rf_2a4m1_sme_data_tx: protected with the TK of the PTK the STA holds.
DataTx ==
    /\ MaxData > 0
    /\ txPn < MaxData
    /\ txPn' = txPn + 1
    /\ sent' = sent \cup {<<sta.ptk, txPn + 1>>}
    /\ repeated' = (repeated \/ <<sta.ptk, txPn + 1>> \in sent)
    /\ UNCHANGED <<sta, ap, key, air, drawn, roams, derived>>

Next ==
    \/ \E target \in Aps : FtRoam(target) \/ FtRoamOverDs(target)
    \/ \E f \in air : ApOnAuth1(f) \/ ApOnDsRequest(f) \/ StaOnAuth2(f)
                      \/ ApOnReassoc(f) \/ StaOnReassoc(f)
    \/ DataTx

Spec == Init /\ [][Next]_vars

-----------------------------------------------------------------------------
(* Properties.                                                             *)

\* A key is put into use only when the other end has it: the key the STA has
\* installed was derived by the AP the STA takes for its peer, and the key an
\* AP has installed was derived by the STA, although both replace their PTK
\* long before they know, and late frames of other roams keep arriving.
InstalledKeysConfirmed ==
    /\ key.sta \in derived.aps[sta.peer]
    /\ \A a \in Aps : key.aps[a] # NoKey => key.aps[a] \in derived.sta

\* The STA believes in a resource reservation only when the AP it is connected
\* to granted one, also when roams to granting and refusing APs alternate and
\* the answers of an earlier roam arrive in a later one.
RicGrantBacked == sta.ricGranted => sta.peer \notin RicDeny

\* What a roam keeps through late, repeated and reordered frames of other roams.
FtInv == InstalledKeysConfirmed /\ RicGrantBacked

\* rf_2a4m1_sme_data_tx numbers its frames with a "fresh per-frame 48-bit PN":
\* no packet number is used twice under one key. A frame sent between Auth2
\* and the Reassociation Response is already under the new key, and the
\* installation of that key restarts the numbers.
PacketNumberFresh == ~repeated

=============================================================================
