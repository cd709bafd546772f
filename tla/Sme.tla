-------------------------------- MODULE Sme --------------------------------
(***************************************************************************)
(* The core station-management entity (src/src/core/rf_2a4m1_sme.c): one   *)
(* struct rf_2a4m1_sme in the STA role and one in the AP role, talking over *)
(* the air.  Each handler of rf_2a4m1_sme_demux is one action and runs to  *)
(* completion; the join ladder (probe, open authentication, association),  *)
(* the WPA2-PSK 4-way handshake, the PMF teardown policy and the           *)
(* TK-protected data plane are modelled.                                   *)
(*                                                                         *)
(* A frame that was sent stays in `air' and may be received any number of  *)
(* times and in any order, or never: loss, duplication, reordering and the *)
(* link layer's retransmissions are all behaviours of the model.           *)
(*                                                                         *)
(* Cryptography is ideal: a PTK is the triple it is derived from, a MIC is *)
(* the PTK it was computed under, gen_nonce (get_random_bytes in the glue) *)
(* never returns the same value twice.                                     *)
(***************************************************************************)
EXTENDS Naturals

CONSTANTS
    Pmks,        \* the PMKs a connect request may be started with
    ApPmk,       \* the PMK of the AP
    StaPmfModes, \* the PMF modes the STA may be configured with
    ApPmfModes,  \* ... and the AP
    Tids,        \* replay slots in use: the TIDs and the non-QoS slot
    MaxFresh,    \* bound: how many random values are drawn
    MaxInits,    \* bound: how many times rf_2a4m1_sme_init runs
    MaxPn,       \* bound: data frames sent under one TK (far below 2^48)
    MaxIpn       \* bound: protected group frames sent under one IGTK

PmfModes == {"DISABLED", "OPTIONAL", "REQUIRED"}

ASSUME SmeConstants ==
    /\ ApPmk \in Pmks
    /\ StaPmfModes \subseteq PmfModes
    /\ ApPmfModes \subseteq PmfModes
    /\ MaxFresh \in Nat
    /\ MaxInits \in Nat
    /\ MaxPn \in Nat
    /\ MaxIpn \in Nat

Node == {"sta", "ap"}

Peer(n) == IF n = "sta" THEN "ap" ELSE "sta"

ModesOf(n) == IF n = "sta" THEN StaPmfModes ELSE ApPmfModes

\* enum sme_state.  A STA honours a teardown only from ASSOCED on.
States == {"INIT", "SCANNING", "AUTHED", "ASSOCED", "4WAY", "CONNECTED", "FAILED"}

AssocedOrLater == {"ASSOCED", "4WAY", "CONNECTED", "FAILED"}

\* A PTK, by the inputs of rf_2a4m1_sme_derive_ptk.
Key == [pmk : Pmks, anonce : Nat, snonce : Nat]

\* The all-zero buffer memset leaves: random nonces start at 1.
ZeroKey == [pmk |-> ApPmk, anonce |-> 0, snonce |-> 0]

VARIABLES
    state,        \* s->state
    connected,    \* s->connected
    pmk,          \* s->pmk
    pmfMode,      \* s->rf_2a4m1_pmf_mode
    mfpActive,    \* s->mfp_active
    replay,       \* s->replay, the EAPOL-Key replay counter
    anonce,       \* s->anonce (0: never set)
    snonce,       \* s->snonce
    ptk,          \* s->ptk
    installedTk,  \* s->installed_tk; ZeroKey: not data_key_valid, not ptk_installed
    gtk,          \* s->gtk, by the random value it was drawn from
    igtk,         \* s->igtk (0: not installed)
    ipnTx,        \* s->igtk.ipn_tx
    ipnRx,        \* s->igtk.ipn_rx
    dataTxPn,     \* s->data_tx_pn
    rxReplay,     \* s->data_rx_replay.highest, per slot (0: not seen)
    dataRx,       \* s->data_rx, the data frames delivered
    earlyM1,      \* the STA's stashed early M1 (NoM1: not early_m1_valid)
    starting,     \* the STA is between sme_init and connect_start
    air,          \* every frame sent so far
    fresh,        \* the random values drawn so far
    inits,        \* the number of sme_init calls so far
    installs,     \* history: the TKs each node has installed
    used,         \* history: the (TK, PN) pairs each node has sent under
    delivered,    \* history: the (TK, slot, PN) each node has accepted
    verified      \* history: the (IGTK, IPN) each node has accepted

ladderVars == <<state, connected, pmk, pmfMode, mfpActive, starting>>
eapolVars  == <<replay, anonce, snonce, ptk, earlyM1>>
groupVars  == <<gtk, igtk, ipnTx, ipnRx, verified>>
dataVars   == <<installedTk, dataTxPn, rxReplay, dataRx, installs, used, delivered>>
vars == <<state, connected, pmk, pmfMode, mfpActive, starting,
          replay, anonce, snonce, ptk, earlyM1,
          gtk, igtk, ipnTx, ipnRx, verified,
          installedTk, dataTxPn, rxReplay, dataRx, installs, used, delivered,
          air, fresh, inits>>

-----------------------------------------------------------------------------
(* Frames.  Probe and authentication frames carry nothing the ladder reads. *)

Bare(type) == [type |-> type]
AssocReq(mode) == [type |-> "ASSOC_REQ", mode |-> mode]
\* The AP adds its RSNE only when its mode is not DISABLED.
AssocResp(mode) == [type |-> "ASSOC_RESP", mode |-> mode]
M1(r, a) == [type |-> "M1", replay |-> r, nonce |-> a]
M2(r, s, k) == [type |-> "M2", replay |-> r, nonce |-> s, mic |-> k]
\* igtk = 0: no IGTK KDE in the Key Data.
M3(r, k, g, i) == [type |-> "M3", replay |-> r, mic |-> k, gtk |-> g, igtk |-> i]
M4(r, k) == [type |-> "M4", replay |-> r, mic |-> k]
Data(n, k, t, pn) == [type |-> "DATA", from |-> n, mic |-> k, tid |-> t, pn |-> pn]
ProtDeauth(n, i, ipn) == [type |-> "DEAUTH", from |-> n, igtk |-> i, ipn |-> ipn]

NoM1 == M1(0, 0)

BareTypes == {"PROBE_REQ", "PROBE_RESP", "AUTH_REQ", "AUTH_RESP"}

Frame ==
    [type : BareTypes]
        \cup [type : {"ASSOC_REQ", "ASSOC_RESP"}, mode : PmfModes]
        \cup [type : {"M1"}, replay : Nat, nonce : Nat]
        \cup [type : {"M2"}, replay : Nat, nonce : Nat, mic : Key]
        \cup [type : {"M3"}, replay : Nat, mic : Key, gtk : Nat, igtk : Nat]
        \cup [type : {"M4"}, replay : Nat, mic : Key]
        \cup [type : {"DATA"}, from : Node, mic : Key, tid : Tids, pn : Nat]
        \cup [type : {"DEAUTH"}, from : Node, igtk : Nat, ipn : Nat]

Send(f) == air' = air \cup {f}

-----------------------------------------------------------------------------
(* rf_2a4m1_sme_init and rf_2a4m1_sme_connect_start.                       *)

Init ==
    /\ state = [n \in Node |-> "INIT"]
    /\ connected = [n \in Node |-> FALSE]
    /\ pmk \in [Node -> Pmks]
    /\ pmk["ap"] = ApPmk
    /\ pmfMode \in [Node -> PmfModes]
    /\ \A n \in Node : pmfMode[n] \in ModesOf(n)
    /\ mfpActive = [n \in Node |-> FALSE]
    /\ starting = TRUE
    /\ replay = [n \in Node |-> 0]
    /\ anonce = [n \in Node |-> 0]
    /\ snonce = [n \in Node |-> 0]
    /\ ptk = [n \in Node |-> ZeroKey]
    /\ earlyM1 = NoM1
    /\ gtk = [n \in Node |-> 0]
    /\ igtk = [n \in Node |-> 0]
    /\ ipnTx = [n \in Node |-> 0]
    /\ ipnRx = [n \in Node |-> 0]
    /\ installedTk = [n \in Node |-> ZeroKey]
    /\ dataTxPn = [n \in Node |-> 0]
    /\ rxReplay = [n \in Node |-> [t \in Tids |-> 0]]
    /\ dataRx = [n \in Node |-> 0]
    /\ installs = [n \in Node |-> {}]
    /\ used = [n \in Node |-> {}]
    /\ delivered = [n \in Node |-> {}]
    /\ verified = [n \in Node |-> {}]
    /\ air = {}
    /\ fresh = 0
    /\ inits = 0

\* rf_2a4m1_sme_init clears the whole struct, from whatever state it is in.
\* The caller gives the PMK of the new request and, with rf_2a4m1_sme_set_pmf, the
\* PMF mode (the cfg80211 glue leaves it DISABLED).
SmeInit(n, p, m) ==
    /\ inits < MaxInits
    /\ n = "ap" => p = ApPmk
    /\ m \in ModesOf(n)
    /\ inits' = inits + 1
    /\ state' = [state EXCEPT ![n] = "INIT"]
    /\ connected' = [connected EXCEPT ![n] = FALSE]
    /\ pmk' = [pmk EXCEPT ![n] = p]
    /\ pmfMode' = [pmfMode EXCEPT ![n] = m]
    /\ mfpActive' = [mfpActive EXCEPT ![n] = FALSE]
    /\ starting' = (n = "sta" \/ starting)
    /\ replay' = [replay EXCEPT ![n] = 0]
    /\ anonce' = [anonce EXCEPT ![n] = 0]
    /\ snonce' = [snonce EXCEPT ![n] = 0]
    /\ ptk' = [ptk EXCEPT ![n] = ZeroKey]
    /\ earlyM1' = IF n = "sta" THEN NoM1 ELSE earlyM1
    /\ gtk' = [gtk EXCEPT ![n] = 0]
    /\ igtk' = [igtk EXCEPT ![n] = 0]
    /\ ipnTx' = [ipnTx EXCEPT ![n] = 0]
    /\ ipnRx' = [ipnRx EXCEPT ![n] = 0]
    /\ installedTk' = [installedTk EXCEPT ![n] = ZeroKey]
    /\ dataTxPn' = [dataTxPn EXCEPT ![n] = 0]
    /\ rxReplay' = [rxReplay EXCEPT ![n] = [t \in Tids |-> 0]]
    /\ dataRx' = [dataRx EXCEPT ![n] = 0]
    /\ UNCHANGED <<air, fresh, installs, used, delivered, verified>>

\* The probe goes out whatever the ladder did since sme_init.
ConnectStart ==
    /\ starting
    /\ starting' = FALSE
    /\ state' = [state EXCEPT !["sta"] = "SCANNING"]
    /\ Send(Bare("PROBE_REQ"))
    /\ UNCHANGED <<connected, pmk, pmfMode, mfpActive, eapolVars, groupVars, dataVars, fresh, inits>>

-----------------------------------------------------------------------------
(* PMF negotiation (rf_2a4m1_pmf_negotiate over the peer's RSNE).          *)

Capable(mode) == mode # "DISABLED"
Requires(mode) == mode = "REQUIRED"

\* Mutant: the local requirement is not enforced.
MfpViolationPeerOnly(local, peer) == Requires(peer) /\ ~Capable(local)

MfpViolation(local, peer) ==
    \/ Requires(local) /\ ~Capable(peer)
    \/ Requires(peer) /\ ~Capable(local)

\* Without an RSNE in the frame the negotiation succeeds and changes nothing.
\* The STA's Assoc-Req always carries one, the AP's Assoc-Resp unless DISABLED.
HasRsne(f) == f.type = "ASSOC_REQ" \/ f.mode # "DISABLED"

\* Mutant: MFP is switched on by the end that requires it, not by both being capable.
NegotiateOwnNeed(n, f) ==
    mfpActive' = IF HasRsne(f)
                 THEN [mfpActive EXCEPT ![n] = /\ Requires(pmfMode[n])
                                               /\ Capable(f.mode)]
                 ELSE mfpActive

Negotiate(n, f) ==
    mfpActive' = IF HasRsne(f)
                 THEN [mfpActive EXCEPT ![n] = /\ Capable(pmfMode[n])
                                               /\ Capable(f.mode)
                                               /\ ~MfpViolation(pmfMode[n], f.mode)]
                 ELSE mfpActive

NegotiationFails(n, f) == HasRsne(f) /\ MfpViolation(pmfMode[n], f.mode)

-----------------------------------------------------------------------------
(* The STA's handlers.                                                     *)

\* rf_2a4m1_rx_bss_announce: the BSS was found, authenticate.  A Beacon of the
\* BSS counts like the Probe-Resp, and may carry the RSNE the Probe-Resp built by
\* this code leaves out; the status of that early negotiation is discarded.
StaRxProbeResp(rsne) ==
    /\ Bare("PROBE_RESP") \in air
    /\ state["sta"] = "SCANNING"
    /\ IF rsne /\ pmfMode["sta"] # "DISABLED"
       THEN Negotiate("sta", AssocResp(pmfMode["ap"]))
       ELSE UNCHANGED mfpActive
    /\ Send(Bare("AUTH_REQ"))
    /\ UNCHANGED <<state, connected, pmk, pmfMode, starting, eapolVars, groupVars, dataVars, fresh, inits>>

StaRxAuthResp ==
    /\ Bare("AUTH_RESP") \in air
    /\ state["sta"] \in {"SCANNING", "INIT"}
    /\ state' = [state EXCEPT !["sta"] = "AUTHED"]
    /\ Send(AssocReq(pmfMode["sta"]))
    /\ UNCHANGED <<connected, pmk, pmfMode, mfpActive, starting, eapolVars, groupVars, dataVars, fresh, inits>>

\* Mutant: a SNonce drawn once serves every handshake until the next sme_init.
SnonceKept(newNonce) == IF newNonce /\ snonce["sta"] = 0 THEN fresh + 1 ELSE snonce["sta"]

\* Drawn in ASSOCED only: an M1 repeated in 4WAY is answered with the same one.
Snonce(newNonce) == IF newNonce THEN fresh + 1 ELSE snonce["sta"]

\* rf_2a4m1_sta_on_m1, run in ASSOCED (a new SNonce) or in 4WAY (the same one).
StaOnM1(r, a, newNonce) ==
    LET s == Snonce(newNonce)
        k == [pmk |-> pmk["sta"], anonce |-> a, snonce |-> s]
    IN  /\ newNonce => fresh < MaxFresh
        /\ fresh' = IF newNonce THEN fresh + 1 ELSE fresh
        /\ anonce' = [anonce EXCEPT !["sta"] = a]
        /\ replay' = [replay EXCEPT !["sta"] = r]
        /\ snonce' = [snonce EXCEPT !["sta"] = s]
        /\ ptk' = [ptk EXCEPT !["sta"] = k]
        /\ state' = [state EXCEPT !["sta"] = "4WAY"]
        /\ Send(M2(r, s, k))

\* Accepted in every state but CONNECTED and FAILED.  A stashed M1 is answered
\* in the same call, from ASSOCED.
StaRxAssocResp(f) ==
    /\ f.type = "ASSOC_RESP"
    /\ state["sta"] \notin {"CONNECTED", "FAILED"}
    /\ Negotiate("sta", f)
    /\ \/ /\ NegotiationFails("sta", f)
          /\ state' = [state EXCEPT !["sta"] = "FAILED"]
          /\ UNCHANGED <<eapolVars, air, fresh>>
       \/ /\ ~NegotiationFails("sta", f)
          /\ earlyM1 = NoM1
          /\ state' = [state EXCEPT !["sta"] = "ASSOCED"]
          /\ UNCHANGED <<eapolVars, air, fresh>>
       \/ /\ ~NegotiationFails("sta", f)
          /\ earlyM1 # NoM1
          /\ earlyM1' = NoM1
          /\ StaOnM1(earlyM1.replay, earlyM1.nonce, TRUE)
    /\ UNCHANGED <<connected, pmk, pmfMode, starting, groupVars, dataVars, inits>>

\* An M1 ahead of the association is stashed, the last one wins.
StaRxM1(f) ==
    /\ f.type = "M1"
    /\ state["sta"] \notin {"CONNECTED", "FAILED"}
    /\ \/ /\ state["sta"] \notin {"ASSOCED", "4WAY"}
          /\ earlyM1' = f
          /\ UNCHANGED <<state, replay, anonce, snonce, ptk, air, fresh>>
       \/ /\ state["sta"] \in {"ASSOCED", "4WAY"}
          /\ StaOnM1(f.replay, f.nonce, state["sta"] = "ASSOCED")
          /\ UNCHANGED earlyM1
    /\ UNCHANGED <<connected, pmk, pmfMode, mfpActive, starting, groupVars, dataVars, inits>>

\* rf_2a4m1_sme_install_data_key: the same TK again keeps the PN state.
InstallDataKey(n, k) ==
    /\ installedTk' = [installedTk EXCEPT ![n] = k]
    /\ dataTxPn' = [dataTxPn EXCEPT ![n] = IF installedTk[n] = k THEN @ ELSE 0]
    /\ rxReplay' = [rxReplay EXCEPT ![n] = IF installedTk[n] = k THEN @
                                           ELSE [t \in Tids |-> 0]]
    /\ installs' = [installs EXCEPT ![n] = @ \cup {k}]
    /\ UNCHANGED <<dataRx, used, delivered>>

\* rf_2a4m1_pmf_igtk_install starts both packet numbers at the KDE's IPN, 0.
InstallIgtk(n, i) ==
    /\ igtk' = [igtk EXCEPT ![n] = i]
    /\ ipnTx' = [ipnTx EXCEPT ![n] = 0]
    /\ ipnRx' = [ipnRx EXCEPT ![n] = 0]

M3Valid(f) == state["sta"] = "4WAY" /\ f.replay > replay["sta"] /\ f.mic = ptk["sta"]

\* M3: gate on state, replay counter and MIC, then install, answer, connect.
StaRxM3(f) ==
    /\ f.type = "M3"
    /\ M3Valid(f)
    /\ IF mfpActive["sta"] /\ f.igtk # 0
       THEN InstallIgtk("sta", f.igtk)
       ELSE UNCHANGED <<igtk, ipnTx, ipnRx>>
    /\ UNCHANGED verified
    /\ replay' = [replay EXCEPT !["sta"] = f.replay]
    /\ gtk' = [gtk EXCEPT !["sta"] = f.gtk]
    /\ InstallDataKey("sta", ptk["sta"])
    /\ Send(M4(f.replay, ptk["sta"]))
    /\ connected' = [connected EXCEPT !["sta"] = TRUE]
    /\ state' = [state EXCEPT !["sta"] = "CONNECTED"]
    /\ UNCHANGED <<pmk, pmfMode, mfpActive, starting, anonce, snonce, ptk, earlyM1, fresh, inits>>

-----------------------------------------------------------------------------
(* The AP's handlers.                                                      *)

ApRxProbeReq ==
    /\ Bare("PROBE_REQ") \in air
    /\ state["ap"] # "FAILED"
    /\ Send(Bare("PROBE_RESP"))
    /\ UNCHANGED <<ladderVars, eapolVars, groupVars, dataVars, fresh, inits>>

ApRxAuthReq ==
    /\ Bare("AUTH_REQ") \in air
    /\ state["ap"] \notin {"CONNECTED", "FAILED"}
    /\ state' = [state EXCEPT !["ap"] = "AUTHED"]
    /\ Send(Bare("AUTH_RESP"))
    /\ UNCHANGED <<connected, pmk, pmfMode, mfpActive, starting, eapolVars, groupVars, dataVars, fresh, inits>>

\* Answer the association and open the 4-way with a new ANonce: M1.
ApRxAssocReq(f) ==
    /\ f.type = "ASSOC_REQ"
    /\ state["ap"] \notin {"CONNECTED", "FAILED"}
    /\ Negotiate("ap", f)
    /\ \/ /\ NegotiationFails("ap", f)
          /\ state' = [state EXCEPT !["ap"] = "FAILED"]
          /\ UNCHANGED <<replay, anonce, air, fresh>>
       \/ /\ ~NegotiationFails("ap", f)
          /\ fresh < MaxFresh
          /\ fresh' = fresh + 1
          /\ anonce' = [anonce EXCEPT !["ap"] = fresh + 1]
          /\ replay' = [replay EXCEPT !["ap"] = @ + 1]
          /\ state' = [state EXCEPT !["ap"] = "4WAY"]
          /\ air' = air \cup {AssocResp(pmfMode["ap"]), M1(replay["ap"] + 1, fresh + 1)}
    /\ UNCHANGED <<connected, pmk, pmfMode, starting, snonce, ptk, earlyM1, groupVars, dataVars, inits>>

\* M2: the PTK is overwritten before its MIC is checked; M3 carries new group
\* keys, the IGTK only under MFP.
ApRxM2(f) ==
    LET k == [pmk |-> pmk["ap"], anonce |-> anonce["ap"], snonce |-> f.nonce]
        g == fresh + 1
    IN  /\ f.type = "M2"
        /\ state["ap"] = "4WAY"
        /\ f.replay = replay["ap"]
        /\ snonce' = [snonce EXCEPT !["ap"] = f.nonce]
        /\ ptk' = [ptk EXCEPT !["ap"] = k]
        /\ \/ /\ f.mic # k
              /\ UNCHANGED <<replay, gtk, igtk, ipnTx, ipnRx, air, fresh>>
           \/ /\ f.mic = k
              /\ fresh < MaxFresh
              /\ fresh' = g
              /\ gtk' = [gtk EXCEPT !["ap"] = g]
              /\ IF mfpActive["ap"]
                 THEN InstallIgtk("ap", g)
                 ELSE UNCHANGED <<igtk, ipnTx, ipnRx>>
              /\ replay' = [replay EXCEPT !["ap"] = @ + 1]
              /\ Send(M3(replay["ap"] + 1, k, g, IF mfpActive["ap"] THEN g ELSE 0))
        /\ UNCHANGED <<ladderVars, anonce, earlyM1, verified, dataVars, inits>>

\* Mutants: an M4 is taken without its MIC, or whatever its replay counter.
M4ValidNoMic(f) == state["ap"] = "4WAY" /\ f.replay = replay["ap"]
M4ValidAnyReplay(f) == state["ap"] = "4WAY" /\ f.mic = ptk["ap"]

M4Valid(f) == state["ap"] = "4WAY" /\ f.replay = replay["ap"] /\ f.mic = ptk["ap"]

ApRxM4(f) ==
    /\ f.type = "M4"
    /\ M4Valid(f)
    /\ InstallDataKey("ap", ptk["ap"])
    /\ connected' = [connected EXCEPT !["ap"] = TRUE]
    /\ state' = [state EXCEPT !["ap"] = "CONNECTED"]
    /\ UNCHANGED <<pmk, pmfMode, mfpActive, starting, eapolVars, groupVars, air, fresh, inits>>

-----------------------------------------------------------------------------
(* The data plane: rf_2a4m1_sme_data_tx[_qos], rf_2a4m1_rx_[qos_]data.     *)

\* Mutant: data goes out as soon as there is a PTK.
MayTxWithPtk(n) == state[n] \in {"4WAY", "CONNECTED"}

MayTx(n) == state[n] = "CONNECTED"

\* One PN counter for all TIDs; the frame is sealed under s->ptk.
DataTx(n, t) ==
    /\ MayTx(n)
    /\ dataTxPn[n] < MaxPn
    /\ dataTxPn' = [dataTxPn EXCEPT ![n] = @ + 1]
    /\ used' = [used EXCEPT ![n] = @ \cup {<<ptk[n], dataTxPn[n] + 1>>}]
    /\ Send(Data(n, ptk[n], t, dataTxPn[n] + 1))
    /\ UNCHANGED <<ladderVars, eapolVars, groupVars, installedTk, rxReplay, dataRx, installs, delivered, fresh, inits>>

\* Mutant: the highest number itself still passes the window.
PnIsNewOrLast(pn, highest) == pn >= highest

\* rf_2a4m1_pn_replay: numbers start at 1, so 0 is a slot that has seen none.
PnIsNew(pn, highest) == pn > highest

\* MIC first, then the replay window of the slot.
RxData(n, f) ==
    /\ f.type = "DATA"
    /\ f.from = Peer(n)
    /\ state[n] = "CONNECTED"
    /\ f.mic = ptk[n]
    /\ PnIsNew(f.pn, rxReplay[n][f.tid])
    /\ rxReplay' = [rxReplay EXCEPT ![n] = [@ EXCEPT ![f.tid] = f.pn]]
    /\ dataRx' = [dataRx EXCEPT ![n] = @ + 1]
    /\ delivered' = [delivered EXCEPT ![n] = @ \cup {<<ptk[n], f.tid, f.pn>>}]
    /\ UNCHANGED <<ladderVars, eapolVars, groupVars, installedTk, dataTxPn, installs, used, air, fresh, inits>>

-----------------------------------------------------------------------------
(* Teardown: protected and stray Deauth/Disassoc, and refusals.            *)

\* rf_2a4m1_tx_protected_group_mgmt; the sender's own state does not change.
TxProtectedDeauth(n) ==
    /\ state[n] = "CONNECTED"
    /\ mfpActive[n]
    /\ igtk[n] # 0
    /\ ipnTx[n] < MaxIpn
    /\ ipnTx' = [ipnTx EXCEPT ![n] = @ + 1]
    /\ Send(ProtDeauth(n, igtk[n], ipnTx[n] + 1))
    /\ UNCHANGED <<ladderVars, eapolVars, gtk, igtk, ipnRx, verified, dataVars, fresh, inits>>

\* Mutant: the teardown leaves the connected flag set.
HonourKeepsFlag(n) ==
    IF n = "sta" /\ state[n] \notin AssocedOrLater
    THEN UNCHANGED <<state, connected>>
    ELSE UNCHANGED connected /\ state' = [state EXCEPT ![n] = "INIT"]

\* The end of rf_2a4m1_rx_robust_mgmt: keys and MFP state stay as they are.
Honour(n) ==
    IF n = "sta" /\ state[n] \notin AssocedOrLater
    THEN UNCHANGED <<state, connected>>
    ELSE /\ connected' = [connected EXCEPT ![n] = FALSE]
         /\ state' = [state EXCEPT ![n] = "INIT"]

\* Mutant: the IPN of the last accepted frame passes again.
GroupVerifyOrLast(n, f) == igtk[n] # 0 /\ f.igtk = igtk[n] /\ f.ipn >= ipnRx[n]

GroupVerify(n, f) == igtk[n] # 0 /\ f.igtk = igtk[n] /\ f.ipn > ipnRx[n]

\* An MME under the installed IGTK whose IPN is new commits the IPN, also when
\* the teardown is then ignored.
RxProtectedDeauth(n, f) ==
    /\ f.type = "DEAUTH"
    /\ f.from = Peer(n)
    /\ state[n] # "FAILED"
    /\ GroupVerify(n, f)
    /\ ipnRx' = [ipnRx EXCEPT ![n] = f.ipn]
    /\ verified' = [verified EXCEPT ![n] = @ \cup {<<igtk[n], f.ipn>>}]
    /\ Honour(n)
    /\ UNCHANGED <<pmk, pmfMode, mfpActive, starting, eapolVars, gtk, igtk, ipnTx, dataVars, air, fresh, inits>>

\* An unprotected Deauth/Disassoc of this cell or another: dropped under MFP.
RxStrayDeauth(n) ==
    /\ state[n] # "FAILED"
    /\ ~mfpActive[n]
    /\ Honour(n)
    /\ UNCHANGED <<pmk, pmfMode, mfpActive, starting, eapolVars, groupVars, dataVars, air, fresh, inits>>

\* An Auth (txn 2) or Assoc-Resp with a status other than SUCCESS, in any state.
RxRefusal(n) ==
    /\ state[n] # "FAILED"
    /\ state' = [state EXCEPT ![n] = "FAILED"]
    /\ UNCHANGED <<connected, pmk, pmfMode, mfpActive, starting, eapolVars, groupVars, dataVars, air, fresh, inits>>

-----------------------------------------------------------------------------

Next ==
    \/ \E n \in Node, p \in Pmks, m \in PmfModes : SmeInit(n, p, m)
    \/ ConnectStart
    \/ \E rsne \in BOOLEAN : StaRxProbeResp(rsne)
    \/ StaRxAuthResp
    \/ ApRxProbeReq
    \/ ApRxAuthReq
    \/ \E f \in air : StaRxAssocResp(f)
    \/ \E f \in air : StaRxM1(f)
    \/ \E f \in air : StaRxM3(f)
    \/ \E f \in air : ApRxAssocReq(f)
    \/ \E f \in air : ApRxM2(f)
    \/ \E f \in air : ApRxM4(f)
    \/ \E n \in Node, t \in Tids : DataTx(n, t)
    \/ \E n \in Node, f \in air : RxData(n, f)
    \/ \E n \in Node : TxProtectedDeauth(n)
    \/ \E n \in Node, f \in air : RxProtectedDeauth(n, f)
    \/ \E n \in Node : RxStrayDeauth(n)
    \/ \E n \in Node : RxRefusal(n)

Spec == Init /\ [][Next]_vars

-----------------------------------------------------------------------------
(* What the handshake, the data plane and the teardown policy promise.     *)

\* Every variable stays in the range of its C field.
TypeOK ==
    /\ state \in [Node -> States]
    /\ connected \in [Node -> BOOLEAN]
    /\ pmk \in [Node -> Pmks]
    /\ pmfMode \in [Node -> PmfModes]
    /\ mfpActive \in [Node -> BOOLEAN]
    /\ starting \in BOOLEAN
    /\ replay \in [Node -> Nat]
    /\ anonce \in [Node -> Nat]
    /\ snonce \in [Node -> Nat]
    /\ ptk \in [Node -> Key]
    /\ earlyM1 \in [type : {"M1"}, replay : Nat, nonce : Nat]
    /\ gtk \in [Node -> Nat]
    /\ igtk \in [Node -> Nat]
    /\ ipnTx \in [Node -> Nat]
    /\ ipnRx \in [Node -> Nat]
    /\ installedTk \in [Node -> Key]
    /\ dataTxPn \in [Node -> Nat]
    /\ rxReplay \in [Node -> [Tids -> Nat]]
    /\ dataRx \in [Node -> Nat]
    /\ installs \in [Node -> SUBSET Key]
    /\ used \in [Node -> SUBSET (Key \X Nat)]
    /\ delivered \in [Node -> SUBSET (Key \X Tids \X Nat)]
    /\ verified \in [Node -> SUBSET (Nat \X Nat)]
    /\ air \subseteq Frame
    /\ fresh \in Nat
    /\ inits \in Nat

\* The AP installs only a TK the STA has installed before it, and neither side
\* ever installs one derived from a PMK the AP does not hold: the MIC checks of
\* M2, M3 and M4 and the replay counter leave no other way through the 4-way.
KeyAgreement ==
    /\ installs["ap"] \subseteq installs["sta"]
    /\ \A n \in Node : \A k \in installs[n] : k.pmk = ApPmk

\* Two ends connected under one TK also agree on the GTK, on whether management
\* frames are protected and, if they are, on the IGTK: M3 carried them all.
GroupAgreement ==
    /\ \A n \in Node : state[n] = "CONNECTED"
    /\ installedTk["sta"] = installedTk["ap"]
    => /\ gtk["sta"] = gtk["ap"]
       /\ mfpActive["sta"] = mfpActive["ap"]
       /\ mfpActive["sta"] => igtk["sta"] = igtk["ap"]

\* An end whose policy is REQUIRED is never connected without MFP: a mismatch is
\* refused at the (Re)Assoc-Req or -Resp, before the 4-way.
RequiredMfp ==
    \A n \in Node : state[n] = "CONNECTED" /\ pmfMode[n] = "REQUIRED" => mfpActive[n]

\* A (TK, PN) pair seals at most one data frame per sender, across lost and
\* repeated handshake messages, teardowns and re-initialisations: the reset of
\* data_tx_pn in rf_2a4m1_sme_install_data_key never meets a TK used before.
NoNonceReuse ==
    [][\A n \in Node :
        dataTxPn'[n] > dataTxPn[n] => <<ptk[n], dataTxPn'[n]>> \notin used[n]]_vars

\* Every frame data_rx counts is new: no (TK, PN) is delivered twice from one
\* replay slot, although the slots are cleared at every installation and s->ptk
\* changes at every M1 and M2.
NoReplayedDelivery ==
    [][\A n \in Node : dataRx'[n] > dataRx[n] => delivered'[n] # delivered[n]]_vars

\* With MFP negotiated, in whatever state, only a protected Deauth/Disassoc the
\* node has not accepted before takes it back to INIT: no stray frame does, and
\* rf_2a4m1_pmf_igtk_install never lets a recorded one count again.
ProtectedTeardown ==
    [][\A n \in Node :
        mfpActive[n] /\ state[n] # "INIT" /\ state'[n] = "INIT" /\ inits' = inits
            => verified'[n] # verified[n]]_vars

\* An AP takes M4 only as the answer to its last M3: one was sent with its current
\* replay counter and PTK, and the group keys that M3 carried are still its own.
M4ConfirmsM3 ==
    [][state["ap"] = "4WAY" /\ state'["ap"] = "CONNECTED"
        => M3(replay["ap"], ptk["ap"], gtk["ap"],
              IF mfpActive["ap"] THEN igtk["ap"] ELSE 0) \in air]_vars

\* The two ends implement SecureLink: CONNECTED is up, installed_tk is the key.
\* So install_data_key's "same TK" branch is never needed by the 4-way.
Link == INSTANCE SecureLink WITH
            NoKey <- ZeroKey,
            up <- [n \in Node |-> state[n] = "CONNECTED"],
            key <- installedTk,
            pn <- dataTxPn,
            spent <- installs

\* Every behaviour of the two state machines is one of the abstract link: no key
\* comes up twice, M4 confirms the STA's key, data_tx_pn restarts only with a key.
ImplementsLink == Link!Spec

\* The STA as the connect path of the glue takes it (module Connect).
View == INSTANCE SmeView WITH
            NoKey <- ZeroKey,
            phase <- IF state["sta"] = "CONNECTED" THEN "connected"
                     ELSE IF state["sta"] = "FAILED" THEN "failed" ELSE "open",
            upFlag <- connected["sta"],
            tk <- installedTk["sta"],
            spent <- installs["sta"],
            armed <- starting

\* Seen from the glue, the STA only ever does what module SmeView allows: it comes
\* up once per 4-way with a TK it never had before, and loses the connected flag
\* when a Deauth takes it down.
ImplementsView == View!Spec

=============================================================================
