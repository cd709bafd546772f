----------------------------- MODULE SmeProofs -----------------------------
(***************************************************************************)
(* Theorems about Sme, for every value of its constants.                   *)
(***************************************************************************)
EXTENDS SmeInv, TLAPS

-----------------------------------------------------------------------------
(* Frames.                                                                 *)

\* Each frame constructor of the handlers builds a Frame.
LEMMA FrameBuilt ==
    /\ \A y \in BareTypes : Bare(y) \in Frame
    /\ \A m \in PmfModes : AssocReq(m) \in Frame /\ AssocResp(m) \in Frame
    /\ \A r, a \in Nat : M1(r, a) \in Frame
    /\ \A r, s \in Nat, k \in Key : M2(r, s, k) \in Frame
    /\ \A r, g, i \in Nat, k \in Key : M3(r, k, g, i) \in Frame
    /\ \A r \in Nat, k \in Key : M4(r, k) \in Frame
    /\ \A n \in Node, k \in Key, t \in Tids, pn \in Nat : Data(n, k, t, pn) \in Frame
    /\ \A n \in Node, i, ipn \in Nat : ProtDeauth(n, i, ipn) \in Frame
BY DEF Frame, Bare, AssocReq, AssocResp, M1, M2, M3, M4, Data, ProtDeauth

\* ... and a handler finds the fields of the type it has checked.
LEMMA FrameRead ==
    ASSUME NEW f \in Frame
    PROVE  /\ f.type = "ASSOC_REQ" => f.mode \in PmfModes
           /\ f.type = "ASSOC_RESP" => f.mode \in PmfModes
           /\ f.type = "M1" => f \in [type : {"M1"}, replay : Nat, nonce : Nat]
           /\ f.type = "M2" => f.replay \in Nat /\ f.nonce \in Nat /\ f.mic \in Key
           /\ f.type = "M3" => /\ f.replay \in Nat
                               /\ f.mic \in Key
                               /\ f.gtk \in Nat
                               /\ f.igtk \in Nat
           /\ f.type = "M4" => f.replay \in Nat /\ f.mic \in Key
           /\ f.type = "DATA" => f.mic \in Key /\ f.tid \in Tids /\ f.pn \in Nat
           /\ f.type = "DEAUTH" => f.igtk \in Nat /\ f.ipn \in Nat
BY DEF Frame, BareTypes

-----------------------------------------------------------------------------
(* Types.                                                                  *)

\* Every cleared struct is well typed.
LEMMA TypeInit == Init => TypeOK
BY SmeConstants DEF Init, TypeOK, ZeroKey, Key, NoM1, M1, States

\* The two ends.
LEMMA NodeNames == "sta" \in Node /\ "ap" \in Node
BY DEF Node

\* Negotiation leaves a Boolean flag.
LEMMA NegotiateType ==
    ASSUME TypeOK, NEW n \in Node, NEW f, Negotiate(n, f)
    PROVE  mfpActive' \in [Node -> BOOLEAN]
<1> DEFINE b == /\ Capable(pmfMode[n])
                /\ Capable(f.mode)
                /\ ~MfpViolation(pmfMode[n], f.mode)
<1>1. b \in BOOLEAN
    OBVIOUS
<1>2. mfpActive' = [mfpActive EXCEPT ![n] = b] \/ mfpActive' = mfpActive
    BY DEF Negotiate
<1> HIDE DEF b
<1> QED
    BY <1>1, <1>2 DEF TypeOK

\* Answering an M1 keeps the types of what it assigns.
LEMMA OnM1Type ==
    ASSUME TypeOK, NEW r \in Nat, NEW a \in Nat, NEW w \in BOOLEAN, StaOnM1(r, a, w)
    PROVE  /\ state' \in [Node -> States]
           /\ replay' \in [Node -> Nat]
           /\ anonce' \in [Node -> Nat]
           /\ snonce' \in [Node -> Nat]
           /\ ptk' \in [Node -> Key]
           /\ fresh' \in Nat
           /\ air' \subseteq Frame
<1> DEFINE s == IF w THEN fresh + 1 ELSE snonce["sta"]
           k == [pmk |-> pmk["sta"], anonce |-> a, snonce |-> s]
<1>1. s \in Nat /\ k \in Key
    BY NodeNames DEF TypeOK, Key
<1>2. /\ state' = [state EXCEPT !["sta"] = "4WAY"]
      /\ replay' = [replay EXCEPT !["sta"] = r]
      /\ anonce' = [anonce EXCEPT !["sta"] = a]
      /\ snonce' = [snonce EXCEPT !["sta"] = s]
      /\ ptk' = [ptk EXCEPT !["sta"] = k]
      /\ air' = air \cup {M2(r, s, k)}
    BY DEF StaOnM1, Snonce, Send
<1>3. fresh' \in Nat
    BY DEF StaOnM1, Snonce, TypeOK
<1> HIDE DEF s, k
<1> QED
    BY <1>1, <1>2, <1>3, FrameBuilt, NodeNames DEF TypeOK, States

\* Installing a key keeps the types of the data plane.
LEMMA InstallType ==
    ASSUME TypeOK, NEW n \in Node, NEW k \in Key, InstallDataKey(n, k)
    PROVE  /\ installedTk' \in [Node -> Key]
           /\ dataTxPn' \in [Node -> Nat]
           /\ rxReplay' \in [Node -> [Tids -> Nat]]
           /\ dataRx' \in [Node -> Nat]
           /\ installs' \in [Node -> SUBSET Key]
           /\ used' \in [Node -> SUBSET (Key \X Nat)]
           /\ delivered' \in [Node -> SUBSET (Key \X Tids \X Nat)]
<1>1. installedTk' \in [Node -> Key] /\ dataTxPn' \in [Node -> Nat]
    BY DEF InstallDataKey, TypeOK
<1>2. rxReplay' \in [Node -> [Tids -> Nat]]
    BY DEF InstallDataKey, TypeOK
<1>3. installs' \in [Node -> SUBSET Key]
    BY DEF InstallDataKey, TypeOK
<1> QED
    BY <1>1, <1>2, <1>3 DEF InstallDataKey, TypeOK

\* Installing an IGTK keeps the types of the group key state.
LEMMA IgtkType ==
    ASSUME TypeOK, NEW n \in Node, NEW i \in Nat, InstallIgtk(n, i)
    PROVE  igtk' \in [Node -> Nat] /\ ipnTx' \in [Node -> Nat] /\ ipnRx' \in [Node -> Nat]
BY DEF InstallIgtk, TypeOK

\* Every handler keeps the types.
LEMMA TypeStep == TypeOK /\ [Next]_vars => TypeOK'
<1> SUFFICES ASSUME TypeOK, [Next]_vars PROVE TypeOK'
    OBVIOUS
<1> USE NodeNames
<1>1. ASSUME NEW n \in Node, NEW p \in Pmks, NEW m \in PmfModes, SmeInit(n, p, m)
      PROVE  TypeOK'
    <2>1. /\ ZeroKey \in Key
          /\ NoM1 \in [type : {"M1"}, replay : Nat, nonce : Nat]
          /\ [t \in Tids |-> 0] \in [Tids -> Nat]
        BY SmeConstants DEF ZeroKey, Key, NoM1, M1
    <2>2. /\ state' \in [Node -> States]
          /\ connected' \in [Node -> BOOLEAN]
          /\ pmk' \in [Node -> Pmks]
          /\ pmfMode' \in [Node -> PmfModes]
          /\ mfpActive' \in [Node -> BOOLEAN]
        BY <1>1 DEF TypeOK, SmeInit, States
    <2>3. starting' \in BOOLEAN
        BY <1>1 DEF TypeOK, SmeInit
    <2>4. /\ replay' \in [Node -> Nat]
          /\ anonce' \in [Node -> Nat]
          /\ snonce' \in [Node -> Nat]
          /\ ptk' \in [Node -> Key]
          /\ earlyM1' \in [type : {"M1"}, replay : Nat, nonce : Nat]
        BY <1>1, <2>1 DEF TypeOK, SmeInit
    <2>5. /\ gtk' \in [Node -> Nat]
          /\ igtk' \in [Node -> Nat]
          /\ ipnTx' \in [Node -> Nat]
          /\ ipnRx' \in [Node -> Nat]
        BY <1>1 DEF TypeOK, SmeInit
    <2>6. /\ installedTk' \in [Node -> Key]
          /\ dataTxPn' \in [Node -> Nat]
          /\ rxReplay' \in [Node -> [Tids -> Nat]]
          /\ dataRx' \in [Node -> Nat]
        BY <1>1, <2>1 DEF TypeOK, SmeInit
    <2> QED
        BY <1>1, <2>2, <2>3, <2>4, <2>5, <2>6 DEF TypeOK, SmeInit
<1>2. CASE ConnectStart
    <2>1. state' \in [Node -> States]
        BY <1>2 DEF TypeOK, ConnectStart, States
    <2>2. air' \subseteq Frame
        BY <1>2, FrameBuilt DEF TypeOK, ConnectStart, Send, BareTypes
    <2> QED
        BY <1>2, <2>1, <2>2 DEF TypeOK, ConnectStart, eapolVars, groupVars, dataVars
<1>3. ASSUME NEW rsne \in BOOLEAN, StaRxProbeResp(rsne)
      PROVE  TypeOK'
    <2>1. mfpActive' \in [Node -> BOOLEAN]
        BY <1>3, NegotiateType DEF StaRxProbeResp, TypeOK
    <2>2. air' \subseteq Frame
        BY <1>3, FrameBuilt DEF TypeOK, StaRxProbeResp, Send, BareTypes
    <2> QED
        BY <1>3, <2>1, <2>2 DEF TypeOK, StaRxProbeResp, eapolVars, groupVars, dataVars
<1>4. CASE StaRxAuthResp
    <2>1. state' \in [Node -> States]
        BY <1>4 DEF TypeOK, StaRxAuthResp, States
    <2>2. air' \subseteq Frame
        BY <1>4, FrameBuilt DEF TypeOK, StaRxAuthResp, Send
    <2> QED
        BY <1>4, <2>1, <2>2 DEF TypeOK, StaRxAuthResp, eapolVars, groupVars, dataVars
<1>5. CASE ApRxProbeReq
    <2>1. air' \subseteq Frame
        BY <1>5, FrameBuilt DEF TypeOK, ApRxProbeReq, Send, BareTypes
    <2> QED
        BY <1>5, <2>1 DEF TypeOK, ApRxProbeReq, ladderVars, eapolVars, groupVars, dataVars
<1>6. CASE ApRxAuthReq
    <2>1. state' \in [Node -> States]
        BY <1>6 DEF TypeOK, ApRxAuthReq, States
    <2>2. air' \subseteq Frame
        BY <1>6, FrameBuilt DEF TypeOK, ApRxAuthReq, Send, BareTypes
    <2> QED
        BY <1>6, <2>1, <2>2 DEF TypeOK, ApRxAuthReq, eapolVars, groupVars, dataVars
<1>7. ASSUME NEW f \in air, StaRxAssocResp(f)
      PROVE  TypeOK'
    <2>1. mfpActive' \in [Node -> BOOLEAN]
        BY <1>7, NegotiateType DEF StaRxAssocResp
    <2>2. earlyM1' \in [type : {"M1"}, replay : Nat, nonce : Nat]
        <3>1. earlyM1' = earlyM1 \/ earlyM1' = NoM1
            BY <1>7 DEF StaRxAssocResp, eapolVars
        <3> QED
            BY <3>1 DEF TypeOK, NoM1, M1
    <2>3. CASE StaOnM1(earlyM1.replay, earlyM1.nonce, TRUE)
        <3>1. earlyM1.replay \in Nat /\ earlyM1.nonce \in Nat
            BY DEF TypeOK
        <3> QED
            BY <1>7, <2>1, <2>2, <2>3, <3>1, OnM1Type DEF TypeOK, StaRxAssocResp, groupVars, dataVars
    <2>4. CASE UNCHANGED <<eapolVars, air, fresh>>
        <3>1. state' \in [Node -> States]
            BY <1>7, <2>3, OnM1Type DEF TypeOK, StaRxAssocResp, States
        <3> QED
            BY <1>7, <2>1, <2>4, <3>1 DEF TypeOK, StaRxAssocResp, eapolVars, groupVars, dataVars
    <2> QED
        BY <1>7, <2>3, <2>4 DEF StaRxAssocResp
<1>8. ASSUME NEW f \in air, StaRxM1(f)
      PROVE  TypeOK'
    <2>1. f \in [type : {"M1"}, replay : Nat, nonce : Nat]
        BY <1>8, FrameRead DEF TypeOK, StaRxM1
    <2>2. CASE StaOnM1(f.replay, f.nonce, state["sta"] = "ASSOCED") /\ earlyM1' = earlyM1
        BY <1>8, <2>1, <2>2, OnM1Type DEF TypeOK, StaRxM1, groupVars, dataVars
    <2>3. CASE earlyM1' = f /\ UNCHANGED <<state, replay, anonce, snonce, ptk, air, fresh>>
        BY <1>8, <2>1, <2>3 DEF TypeOK, StaRxM1, groupVars, dataVars
    <2> QED
        BY <1>8, <2>2, <2>3 DEF StaRxM1
<1>9. ASSUME NEW f \in air, StaRxM3(f)
      PROVE  TypeOK'
    <2>1. f.replay \in Nat /\ f.mic \in Key /\ f.gtk \in Nat /\ f.igtk \in Nat
        BY <1>9, FrameRead DEF TypeOK, StaRxM3, M3Valid
    <2>2. ptk["sta"] \in Key
        BY DEF TypeOK
    <2>3. /\ state' \in [Node -> States]
          /\ connected' \in [Node -> BOOLEAN]
          /\ replay' \in [Node -> Nat]
          /\ gtk' \in [Node -> Nat]
        BY <1>9, <2>1 DEF TypeOK, StaRxM3, M3Valid, States
    <2>4. igtk' \in [Node -> Nat] /\ ipnTx' \in [Node -> Nat] /\ ipnRx' \in [Node -> Nat]
        <3>1. InstallIgtk("sta", f.igtk) \/ UNCHANGED <<igtk, ipnTx, ipnRx>>
            BY <1>9 DEF StaRxM3, M3Valid
        <3> QED
            BY <2>1, <3>1, IgtkType DEF TypeOK
    <2>5. air' \subseteq Frame
        BY <1>9, <2>1, <2>2, FrameBuilt DEF TypeOK, StaRxM3, M3Valid, Send
    <2> QED
        BY <1>9, <2>2, <2>3, <2>4, <2>5, InstallType DEF TypeOK, StaRxM3, M3Valid
<1>10. ASSUME NEW f \in air, ApRxAssocReq(f)
       PROVE  TypeOK'
    <2>1. mfpActive' \in [Node -> BOOLEAN]
        BY <1>10, NegotiateType DEF ApRxAssocReq
    <2>2. /\ state' \in [Node -> States]
          /\ replay' \in [Node -> Nat]
          /\ anonce' \in [Node -> Nat]
          /\ fresh' \in Nat
        <3>1. \/ /\ state' = [state EXCEPT !["ap"] = "FAILED"]
                 /\ UNCHANGED <<replay, anonce, fresh>>
              \/ /\ state' = [state EXCEPT !["ap"] = "4WAY"]
                 /\ replay' = [replay EXCEPT !["ap"] = @ + 1]
                 /\ anonce' = [anonce EXCEPT !["ap"] = fresh + 1]
                 /\ fresh' = fresh + 1
            BY <1>10 DEF ApRxAssocReq
        <3>2. replay["ap"] + 1 \in Nat /\ fresh + 1 \in Nat
            BY DEF TypeOK
        <3>3. state' \in [Node -> States]
            BY <3>1 DEF TypeOK, States
        <3>4. replay' \in [Node -> Nat]
            BY <3>1, <3>2 DEF TypeOK
        <3>5. anonce' \in [Node -> Nat] /\ fresh' \in Nat
            BY <3>1, <3>2 DEF TypeOK
        <3> QED
            BY <3>3, <3>4, <3>5
    <2>3. /\ AssocResp(pmfMode["ap"]) \in Frame
          /\ M1(replay["ap"] + 1, fresh + 1) \in Frame
        BY FrameBuilt DEF TypeOK
    <2>4. air' \subseteq Frame
        BY <1>10, <2>3 DEF TypeOK, ApRxAssocReq
    <2> QED
        BY <1>10, <2>1, <2>2, <2>4 DEF TypeOK, ApRxAssocReq, groupVars, dataVars
<1>11. ASSUME NEW f \in air, ApRxM2(f)
       PROVE  TypeOK'
    <2> DEFINE k == [pmk |-> pmk["ap"], anonce |-> anonce["ap"], snonce |-> f.nonce]
    <2>1. f.nonce \in Nat /\ k \in Key
        BY <1>11, FrameRead DEF TypeOK, ApRxM2, Key
    <2>2. /\ snonce' = [snonce EXCEPT !["ap"] = f.nonce]
          /\ ptk' = [ptk EXCEPT !["ap"] = k]
          /\ UNCHANGED <<ladderVars, anonce, earlyM1, verified, dataVars, inits>>
        BY <1>11 DEF ApRxM2
    <2>3. CASE UNCHANGED <<replay, gtk, igtk, ipnTx, ipnRx, air, fresh>>
        <3> HIDE DEF k
        <3> QED
            BY <2>1, <2>2, <2>3 DEF TypeOK, ladderVars, dataVars
    <2>4. CASE fresh < MaxFresh
        <3> DEFINE i == IF mfpActive["ap"] THEN fresh + 1 ELSE 0
        <3>1. i \in Nat
            BY DEF TypeOK
        <3>2. \/ UNCHANGED <<replay, gtk, igtk, ipnTx, ipnRx, air, fresh>>
              \/ /\ fresh' = fresh + 1
                 /\ gtk' = [gtk EXCEPT !["ap"] = fresh + 1]
                 /\ \/ InstallIgtk("ap", fresh + 1)
                    \/ UNCHANGED <<igtk, ipnTx, ipnRx>>
                 /\ replay' = [replay EXCEPT !["ap"] = @ + 1]
                 /\ air' = air \cup {M3(replay["ap"] + 1, k, fresh + 1, i)}
            BY <1>11 DEF ApRxM2, Send
        <3> HIDE DEF k, i
        <3>3. replay["ap"] + 1 \in Nat /\ fresh + 1 \in Nat
            BY DEF TypeOK
        <3>4. replay' \in [Node -> Nat] /\ gtk' \in [Node -> Nat] /\ fresh' \in Nat
            BY <3>2, <3>3 DEF TypeOK
        <3>5. igtk' \in [Node -> Nat] /\ ipnTx' \in [Node -> Nat] /\ ipnRx' \in [Node -> Nat]
            BY <3>2, <3>3, IgtkType DEF TypeOK
        <3>6. air' \subseteq Frame
            BY <2>1, <3>1, <3>2, FrameBuilt DEF TypeOK
        <3> QED
            BY <2>1, <2>2, <3>4, <3>5, <3>6 DEF TypeOK, ladderVars, dataVars
    <2> QED
        BY <1>11, <2>3, <2>4 DEF ApRxM2
<1>12. ASSUME NEW f \in air, ApRxM4(f)
       PROVE  TypeOK'
    <2>1. state' \in [Node -> States] /\ connected' \in [Node -> BOOLEAN]
        BY <1>12 DEF TypeOK, ApRxM4, M4Valid, States
    <2>2. ptk["ap"] \in Key
        BY DEF TypeOK
    <2> QED
        BY <1>12, <2>1, <2>2, InstallType DEF TypeOK, ApRxM4, M4Valid, eapolVars, groupVars
<1>13. ASSUME NEW n \in Node, NEW t \in Tids, DataTx(n, t)
       PROVE  TypeOK'
    <2>1. ptk[n] \in Key /\ dataTxPn[n] + 1 \in Nat
        BY DEF TypeOK
    <2>2. dataTxPn' \in [Node -> Nat]
        BY <1>13 DEF TypeOK, DataTx, MayTx
    <2>3. used' \in [Node -> SUBSET (Key \X Nat)]
        BY <1>13, <2>1 DEF TypeOK, DataTx, MayTx
    <2>4. air' \subseteq Frame
        BY <1>13, <2>1, FrameBuilt DEF TypeOK, DataTx, MayTx, Send
    <2> QED
        BY <1>13, <2>2, <2>3, <2>4 DEF TypeOK, DataTx, MayTx, ladderVars, eapolVars, groupVars
<1>14. ASSUME NEW n \in Node, NEW f \in air, RxData(n, f)
       PROVE  TypeOK'
    <2>1. f.mic \in Key /\ f.tid \in Tids /\ f.pn \in Nat
        BY <1>14, FrameRead DEF TypeOK, RxData, PnIsNew
    <2>2. rxReplay' \in [Node -> [Tids -> Nat]]
        BY <1>14, <2>1 DEF TypeOK, RxData, PnIsNew
    <2>3. dataRx' \in [Node -> Nat]
        BY <1>14 DEF TypeOK, RxData, PnIsNew
    <2>4. delivered' \in [Node -> SUBSET (Key \X Tids \X Nat)]
        BY <1>14, <2>1 DEF TypeOK, RxData, PnIsNew
    <2> QED
        BY <1>14, <2>2, <2>3, <2>4 DEF TypeOK, RxData, PnIsNew, ladderVars, eapolVars, groupVars
<1>15. ASSUME NEW n \in Node, TxProtectedDeauth(n)
       PROVE  TypeOK'
    <2>1. ipnTx' \in [Node -> Nat]
        BY <1>15 DEF TypeOK, TxProtectedDeauth
    <2>2. ProtDeauth(n, igtk[n], ipnTx[n] + 1) \in Frame
        BY FrameBuilt DEF TypeOK
    <2> QED
        BY <1>15, <2>1, <2>2 DEF TypeOK, TxProtectedDeauth, Send, ladderVars, eapolVars, dataVars
<1>16. ASSUME NEW n \in Node, NEW f \in air, RxProtectedDeauth(n, f)
       PROVE  TypeOK'
    <2>1. f.igtk \in Nat /\ f.ipn \in Nat
        BY <1>16, FrameRead DEF TypeOK, RxProtectedDeauth, GroupVerify
    <2>2. ipnRx' \in [Node -> Nat] /\ verified' \in [Node -> SUBSET (Nat \X Nat)]
        BY <1>16, <2>1 DEF TypeOK, RxProtectedDeauth, GroupVerify
    <2>3. state' \in [Node -> States] /\ connected' \in [Node -> BOOLEAN]
        BY <1>16 DEF TypeOK, RxProtectedDeauth, GroupVerify, Honour, States
    <2> QED
        BY <1>16, <2>2, <2>3 DEF TypeOK, RxProtectedDeauth, GroupVerify, eapolVars, dataVars
<1>17. ASSUME NEW n \in Node, RxStrayDeauth(n)
       PROVE  TypeOK'
    <2>1. state' \in [Node -> States] /\ connected' \in [Node -> BOOLEAN]
        BY <1>17 DEF TypeOK, RxStrayDeauth, Honour, States
    <2> QED
        BY <1>17, <2>1 DEF TypeOK, RxStrayDeauth, eapolVars, groupVars, dataVars
<1>18. ASSUME NEW n \in Node, RxRefusal(n)
       PROVE  TypeOK'
    <2>1. state' \in [Node -> States]
        BY <1>18 DEF TypeOK, RxRefusal, States
    <2> QED
        BY <1>18, <2>1 DEF TypeOK, RxRefusal, eapolVars, groupVars, dataVars
<1>19. CASE UNCHANGED vars
    BY <1>19 DEF TypeOK, vars
<1> QED
    BY <1>1, <1>2, <1>3, <1>4, <1>5, <1>6, <1>7, <1>8, <1>9, <1>10, <1>11, <1>12,
       <1>13, <1>14, <1>15, <1>16, <1>17, <1>18, <1>19 DEF Next

-----------------------------------------------------------------------------
(* The handshake.                                                          *)

\* Cleared structs and an empty air satisfy the handshake's invariant.
LEMMA HandshakeInit == Init => HandshakeInv
BY SmeConstants, NodeNames
   DEF Init, HandshakeInv, NoncesDrawn, StaKeyIsNew, ApNonceIsNew, M3Order, M4Answers,
       KeyInPlace, KeyAgreement, M3s, M4s

\* A frame that is neither M3 nor M4 does not matter to the handshake.
LEMMA OtherFrame ==
    ASSUME NEW g, g.type \notin {"M3", "M4"}, air' = air \cup {g}
    PROVE  M3s' = M3s /\ M4s' = M4s
BY DEF M3s, M4s

\* No frame of the ladder, the data plane or the teardown is an M3 or an M4.
LEMMA OtherFrames ==
    /\ \A y \in BareTypes : Bare(y).type \notin {"M3", "M4"}
    /\ \A m : AssocReq(m).type \notin {"M3", "M4"} /\ AssocResp(m).type \notin {"M3", "M4"}
    /\ \A r, a : M1(r, a).type \notin {"M3", "M4"}
    /\ \A r, s, k : M2(r, s, k).type \notin {"M3", "M4"}
    /\ \A n, k, t, pn : Data(n, k, t, pn).type \notin {"M3", "M4"}
    /\ \A n, i, ipn : ProtDeauth(n, i, ipn).type \notin {"M3", "M4"}
BY DEF BareTypes, Bare, AssocReq, AssocResp, M1, M2, Data, ProtDeauth

\* A step that changes no key material and enters neither 4WAY nor CONNECTED
\* keeps the handshake's invariant.
LEMMA QuietStep ==
    ASSUME HandshakeInv,
           UNCHANGED <<pmk, replay, anonce, snonce, ptk, installedTk, installs, fresh>>,
           \A n \in Node : state'[n] \in {"4WAY", "CONNECTED"} => state'[n] = state[n],
           M3s' = M3s, M4s' = M4s
    PROVE  HandshakeInv'
<1> USE NodeNames
<1>1. NoncesDrawn' /\ KeyAgreement'
    BY DEF HandshakeInv, NoncesDrawn, KeyAgreement
<1>2. StaKeyIsNew' /\ ApNonceIsNew'
    BY DEF HandshakeInv, StaKeyIsNew, ApNonceIsNew
<1>3. M3Order' /\ M4Answers'
    BY DEF HandshakeInv, M3Order, M4Answers
<1>4. KeyInPlace'
    BY DEF HandshakeInv, KeyInPlace
<1> QED
    BY <1>1, <1>2, <1>3, <1>4 DEF HandshakeInv

\* Answering an M1 keeps it: a new association brings a new SNonce.
LEMMA OnM1Step ==
    ASSUME TypeOK, HandshakeInv,
           NEW r \in Nat, NEW a \in Nat, NEW w \in BOOLEAN, StaOnM1(r, a, w),
           ~w => state["sta"] = "4WAY",
           UNCHANGED <<pmk, installedTk, installs>>
    PROVE  HandshakeInv'
<1> USE NodeNames
<1> DEFINE s == IF w THEN fresh + 1 ELSE snonce["sta"]
           k == [pmk |-> pmk["sta"], anonce |-> a, snonce |-> s]
<1>1. /\ state' = [state EXCEPT !["sta"] = "4WAY"]
      /\ replay' = [replay EXCEPT !["sta"] = r]
      /\ anonce' = [anonce EXCEPT !["sta"] = a]
      /\ snonce' = [snonce EXCEPT !["sta"] = s]
      /\ ptk' = [ptk EXCEPT !["sta"] = k]
      /\ fresh' = IF w THEN fresh + 1 ELSE fresh
      /\ air' = air \cup {M2(r, s, k)}
    BY DEF StaOnM1, Snonce, Send
<1>2. M3s' = M3s /\ M4s' = M4s
    BY <1>1, OtherFrame, OtherFrames
<1>3. k.snonce = s
    OBVIOUS
<1>4. s \in Nat /\ s <= fresh' /\ fresh \in Nat /\ fresh' \in Nat /\ fresh <= fresh'
    BY <1>1 DEF TypeOK, HandshakeInv, NoncesDrawn
<1>5. \A c \in installs["sta"] : c.snonce # s
    BY DEF TypeOK, Key, HandshakeInv, NoncesDrawn, StaKeyIsNew
<1> HIDE DEF s, k
<1>6. /\ snonce'["sta"] = s
      /\ ptk'["sta"] = k
      /\ state'["sta"] = "4WAY"
      /\ anonce'["ap"] = anonce["ap"]
      /\ replay'["ap"] = replay["ap"]
      /\ ptk'["ap"] = ptk["ap"]
      /\ state'["ap"] = state["ap"]
    BY <1>1 DEF TypeOK
<1>7. NoncesDrawn'
    BY <1>2, <1>4, <1>6 DEF TypeOK, Key, HandshakeInv, NoncesDrawn
<1>8. StaKeyIsNew'
    BY <1>3, <1>5, <1>6 DEF StaKeyIsNew
<1>9. ApNonceIsNew'
    BY <1>6 DEF HandshakeInv, ApNonceIsNew
<1>10. M3Order' /\ M4Answers' /\ KeyAgreement'
    BY <1>2, <1>6 DEF HandshakeInv, M3Order, M4Answers, KeyAgreement
<1>11. KeyInPlace'
    BY <1>6 DEF HandshakeInv, KeyInPlace, Node
<1> QED
    BY <1>7, <1>8, <1>9, <1>10, <1>11 DEF HandshakeInv

\* Clearing a node's struct keeps it: no M3 and no installed key has a zero nonce.
LEMMA InitStep ==
    ASSUME TypeOK, HandshakeInv,
           NEW n \in Node, NEW p \in Pmks, NEW m \in PmfModes, SmeInit(n, p, m)
    PROVE  HandshakeInv'
<1> USE NodeNames
<1>1. /\ state'[n] = "INIT"
      /\ \A x \in Node \ {n} : /\ state'[x] = state[x]
                               /\ ptk'[x] = ptk[x]
                               /\ anonce'[x] = anonce[x]
                               /\ snonce'[x] = snonce[x]
                               /\ replay'[x] = replay[x]
                               /\ installedTk'[x] = installedTk[x]
                               /\ pmk'[x] = pmk[x]
      /\ anonce'[n] = 0 /\ snonce'[n] = 0 /\ replay'[n] = 0
      /\ ptk'[n] = ZeroKey
      /\ installedTk'[n] = ZeroKey
      /\ pmk'[n] = p
      /\ fresh' = fresh /\ installs' = installs /\ air' = air
    BY DEF SmeInit, TypeOK
<1>2. M3s' = M3s /\ M4s' = M4s
    BY <1>1 DEF M3s, M4s
<1>3. ZeroKey.anonce = 0
    BY DEF ZeroKey
<1>4. NoncesDrawn'
    <2>0. fresh \in Nat /\ anonce["ap"] <= fresh /\ snonce["sta"] <= fresh
        BY DEF TypeOK, HandshakeInv, NoncesDrawn
    <2>1. anonce'["ap"] \in {0, anonce["ap"]}
        BY <1>1
    <2>2. snonce'["sta"] \in {0, snonce["sta"]}
        BY <1>1
    <2> QED
        BY <1>1, <1>2, <2>0, <2>1, <2>2 DEF HandshakeInv, NoncesDrawn
<1>5. StaKeyIsNew' /\ ApNonceIsNew'
    BY <1>1 DEF HandshakeInv, StaKeyIsNew, ApNonceIsNew
<1>6. M3Order'
    BY <1>1, <1>2, <1>3 DEF HandshakeInv, M3Order, NoncesDrawn
<1>7. M4Answers' /\ KeyAgreement'
    BY <1>1, <1>2 DEF HandshakeInv, M4Answers, KeyAgreement
<1>8. KeyInPlace'
    <2>1. pmk'["ap"] = ApPmk
        BY <1>1 DEF HandshakeInv, KeyInPlace, SmeInit
    <2>2. \A x \in Node : state'[x] = "CONNECTED" => x \in Node \ {n}
        BY <1>1
    <2> QED
        BY <1>1, <2>1, <2>2 DEF HandshakeInv, KeyInPlace
<1> QED
    BY <1>4, <1>5, <1>6, <1>7, <1>8 DEF HandshakeInv

\* What an M3 the STA accepts is: the key it installs is new to it.
LEMMA M3KeyIsNew ==
    ASSUME TypeOK, HandshakeInv, NEW f \in air, StaRxM3(f)
    PROVE  /\ f \in M3s
           /\ f.mic = ptk["sta"]
           /\ ptk["sta"] \notin installs["sta"]
BY NodeNames DEF StaRxM3, M3Valid, M3s, HandshakeInv, StaKeyIsNew

\* Accepting M3 keeps the handshake's invariant.
LEMMA M3Step ==
    ASSUME TypeOK, HandshakeInv, NEW f \in air, StaRxM3(f)
    PROVE  HandshakeInv'
<1> USE NodeNames
<1> DEFINE k == ptk["sta"]
<1>1. /\ f \in M3s /\ f.mic = k /\ f.replay \in Nat
      /\ state["sta"] = "4WAY"
    BY M3KeyIsNew, FrameRead DEF TypeOK, StaRxM3, M3Valid
<1>2. /\ state' = [state EXCEPT !["sta"] = "CONNECTED"]
      /\ replay' = [replay EXCEPT !["sta"] = f.replay]
      /\ installedTk' = [installedTk EXCEPT !["sta"] = k]
      /\ installs' = [installs EXCEPT !["sta"] = @ \cup {k}]
      /\ air' = air \cup {M4(f.replay, k)}
      /\ UNCHANGED <<pmk, anonce, snonce, ptk, fresh>>
    BY DEF StaRxM3, M3Valid, InstallDataKey, Send
<1>3. /\ M4(f.replay, k).type = "M4"
      /\ M4(f.replay, k).mic = k
      /\ M4(f.replay, k).replay = f.replay
    BY DEF M4
<1>4. M3s' = M3s /\ M4s' = M4s \cup {M4(f.replay, k)}
    BY <1>2, <1>3 DEF M3s, M4s
<1>5. /\ state'["sta"] = "CONNECTED" /\ state'["ap"] = state["ap"]
      /\ installs'["sta"] = installs["sta"] \cup {k} /\ installs'["ap"] = installs["ap"]
      /\ installedTk'["sta"] = k /\ installedTk'["ap"] = installedTk["ap"]
      /\ replay'["ap"] = replay["ap"]
    BY <1>2 DEF TypeOK
<1>6. k.anonce \in 1..fresh /\ k.snonce <= fresh /\ k.pmk = ApPmk
    BY <1>1 DEF HandshakeInv, NoncesDrawn, StaKeyIsNew, M3Order
<1> HIDE DEF k
<1>7. NoncesDrawn'
    BY <1>2, <1>4, <1>5, <1>6 DEF HandshakeInv, NoncesDrawn, Node
<1>8. StaKeyIsNew' /\ ApNonceIsNew'
    BY <1>2, <1>5 DEF HandshakeInv, StaKeyIsNew, ApNonceIsNew
<1>9. M3Order'
    BY <1>2, <1>4, <1>5 DEF HandshakeInv, M3Order
<1>10. M4Answers'
    BY <1>1, <1>3, <1>4, <1>5 DEF HandshakeInv, M4Answers
<1>11. KeyInPlace'
    BY <1>2, <1>5 DEF HandshakeInv, KeyInPlace, Node, k
<1>12. KeyAgreement'
    BY <1>5, <1>6 DEF HandshakeInv, KeyAgreement, Node
<1> QED
    BY <1>7, <1>8, <1>9, <1>10, <1>11, <1>12 DEF HandshakeInv

\* Opening the 4-way keeps it: the new ANonce leaves the old PTK and its M3 behind.
LEMMA AssocReqStep ==
    ASSUME TypeOK, HandshakeInv, NEW f \in air, ApRxAssocReq(f)
    PROVE  HandshakeInv'
<1> USE NodeNames
<1>1. CASE UNCHANGED <<replay, anonce, air, fresh>> /\ state' = [state EXCEPT !["ap"] = "FAILED"]
    <2>1. M3s' = M3s /\ M4s' = M4s
        BY <1>1 DEF M3s, M4s
    <2>2. \A n \in Node : state'[n] \in {"4WAY", "CONNECTED"} => state'[n] = state[n]
        BY <1>1 DEF TypeOK
    <2> QED
        BY <1>1, <2>1, <2>2, QuietStep DEF ApRxAssocReq, dataVars
<1>2. CASE /\ fresh' = fresh + 1
           /\ anonce' = [anonce EXCEPT !["ap"] = fresh + 1]
           /\ replay' = [replay EXCEPT !["ap"] = @ + 1]
           /\ state' = [state EXCEPT !["ap"] = "4WAY"]
           /\ air' = air \cup {AssocResp(pmfMode["ap"]), M1(replay["ap"] + 1, fresh + 1)}
    <2>1. UNCHANGED <<pmk, snonce, ptk, installedTk, installs>>
        BY DEF ApRxAssocReq, dataVars
    <2>2. M3s' = M3s /\ M4s' = M4s
        BY <1>2, OtherFrames DEF M3s, M4s
    <2>3. /\ anonce'["ap"] = fresh + 1
          /\ replay'["ap"] = replay["ap"] + 1
          /\ state'["ap"] = "4WAY" /\ state'["sta"] = state["sta"]
          /\ fresh \in Nat /\ replay["ap"] \in Nat
        BY <1>2 DEF TypeOK
    <2>4. \A g \in M3s : g.replay \in Nat /\ g.mic.anonce \in 1..fresh
        BY FrameRead DEF TypeOK, M3s, HandshakeInv, NoncesDrawn
    <2>5. NoncesDrawn'
        BY <1>2, <2>1, <2>2, <2>3 DEF TypeOK, Key, HandshakeInv, NoncesDrawn
    <2>6. StaKeyIsNew'
        BY <2>1, <2>3 DEF HandshakeInv, StaKeyIsNew
    <2>7. ApNonceIsNew'
        BY <2>1, <2>3 DEF HandshakeInv, ApNonceIsNew, NoncesDrawn
    <2>8. M3Order'
        <3> SUFFICES ASSUME NEW g \in M3s
                     PROVE  /\ g.mic.pmk = ApPmk
                            /\ g.mic.anonce # fresh + 1
                            /\ g.mic = ptk["ap"] => g.replay < replay["ap"] + 1
            BY <2>1, <2>2, <2>3 DEF M3Order
        <3> QED
            BY <2>3, <2>4 DEF HandshakeInv, M3Order
    <2>9. M4Answers' /\ KeyAgreement'
        BY <2>1, <2>2 DEF HandshakeInv, M4Answers, KeyAgreement
    <2>10. KeyInPlace'
        BY <2>1, <2>3 DEF HandshakeInv, KeyInPlace, Node
    <2> QED
        BY <2>5, <2>6, <2>7, <2>8, <2>9, <2>10 DEF HandshakeInv
<1> QED
    BY <1>1, <1>2 DEF ApRxAssocReq

\* M2 replaces the AP's PTK, good MIC or not, and may send the M3 of the new one.
LEMMA M2Step ==
    ASSUME TypeOK, HandshakeInv, NEW f \in air, ApRxM2(f)
    PROVE  HandshakeInv'
<1> USE NodeNames
<1> DEFINE k == [pmk |-> pmk["ap"], anonce |-> anonce["ap"], snonce |-> f.nonce]
           r == replay["ap"] + 1
<1>1. /\ state["ap"] = "4WAY"
      /\ ptk' = [ptk EXCEPT !["ap"] = k]
      /\ snonce' = [snonce EXCEPT !["ap"] = f.nonce]
      /\ UNCHANGED <<state, pmk, anonce, installedTk, installs>>
    BY DEF ApRxM2, ladderVars, dataVars
<1>2. ptk'["ap"] = k /\ ptk'["sta"] = ptk["sta"] /\ snonce'["sta"] = snonce["sta"]
    BY <1>1 DEF TypeOK
<1>3. k.anonce = anonce["ap"] /\ k.pmk = ApPmk
    BY DEF HandshakeInv, KeyInPlace
<1>4. anonce["ap"] \in 1..fresh /\ fresh \in Nat /\ replay["ap"] \in Nat
    BY <1>1 DEF TypeOK, HandshakeInv, ApNonceIsNew, NoncesDrawn
<1>5. \A h \in M3s : h.replay \in Nat /\ h.mic.anonce \in 1..fresh
    BY FrameRead DEF TypeOK, M3s, HandshakeInv, NoncesDrawn
<1>6. \E g, i : \/ UNCHANGED <<replay, air, fresh>>
                \/ /\ fresh' = fresh + 1
                   /\ replay' = [replay EXCEPT !["ap"] = r]
                   /\ air' = air \cup {M3(r, k, g, i)}
    BY DEF ApRxM2, Send
<1> HIDE DEF k
<1>7. PICK g, i : \/ UNCHANGED <<replay, air, fresh>>
                  \/ /\ fresh' = fresh + 1
                     /\ replay' = [replay EXCEPT !["ap"] = r]
                     /\ air' = air \cup {M3(r, k, g, i)}
    BY <1>6
<1>8. M3(r, k, g, i).type = "M3" /\ M3(r, k, g, i).mic = k /\ M3(r, k, g, i).replay = r
    BY DEF M3
<1>9. /\ M4s' = M4s
      /\ M3s \subseteq M3s'
      /\ M3s' \subseteq M3s \cup {M3(r, k, g, i)}
    BY <1>7, <1>8 DEF M3s, M4s
<1>10. /\ fresh' \in {fresh, fresh + 1}
       /\ \/ replay'["ap"] = replay["ap"] /\ M3s' = M3s
          \/ replay'["ap"] = r
    BY <1>7 DEF TypeOK, M3s
<1>11. NoncesDrawn'
    BY <1>1, <1>2, <1>3, <1>4, <1>5, <1>8, <1>9, <1>10 DEF TypeOK, Key, HandshakeInv, NoncesDrawn
<1>12. StaKeyIsNew' /\ ApNonceIsNew'
    BY <1>1, <1>2 DEF HandshakeInv, StaKeyIsNew, ApNonceIsNew
<1>13. M3Order'
    <2> SUFFICES ASSUME NEW h \in M3s'
                 PROVE  /\ h.mic.pmk = ApPmk
                        /\ h.mic.anonce = anonce["ap"] => h.replay <= replay'["ap"]
                        /\ h.mic = k => h.mic.anonce = anonce["ap"]
        BY <1>1, <1>2 DEF M3Order
    <2>1. CASE h \in M3s
        BY <1>3, <1>4, <1>5, <1>10, <2>1 DEF HandshakeInv, M3Order
    <2>2. CASE h = M3(r, k, g, i) /\ replay'["ap"] = r
        BY <1>3, <1>4, <1>8, <2>2
    <2> QED
        BY <1>9, <1>10, <2>1, <2>2
<1>14. M4Answers' /\ KeyAgreement'
    BY <1>1, <1>9 DEF HandshakeInv, M4Answers, KeyAgreement
<1>15. KeyInPlace'
    BY <1>1, <1>2 DEF HandshakeInv, KeyInPlace, Node
<1> QED
    BY <1>11, <1>12, <1>13, <1>14, <1>15 DEF HandshakeInv

\* The key the AP installs on M4 is new to it, and the STA has installed it.
LEMMA M4KeyIsNew ==
    ASSUME TypeOK, HandshakeInv, NEW f \in air, ApRxM4(f)
    PROVE  /\ ptk["ap"] \in installs["sta"]
           /\ ptk["ap"] \notin installs["ap"]
<1> USE NodeNames
<1>1. f \in M4s /\ f.mic = ptk["ap"] /\ f.replay = replay["ap"] /\ state["ap"] = "4WAY"
    BY DEF ApRxM4, M4Valid, M4s
<1>2. PICK g \in M3s : g.mic = ptk["ap"] /\ g.replay = replay["ap"]
    BY <1>1 DEF HandshakeInv, M4Answers
<1>3. replay["ap"] \in Nat
    BY DEF TypeOK
<1>4. ptk["ap"].anonce = anonce["ap"]
    BY <1>2, <1>3 DEF HandshakeInv, M3Order
<1> QED
    BY <1>1, <1>4 DEF HandshakeInv, M4Answers, ApNonceIsNew

\* Accepting M4 keeps the handshake's invariant.
LEMMA M4Step ==
    ASSUME TypeOK, HandshakeInv, NEW f \in air, ApRxM4(f)
    PROVE  HandshakeInv'
<1> USE NodeNames
<1>1. /\ state' = [state EXCEPT !["ap"] = "CONNECTED"]
      /\ installedTk' = [installedTk EXCEPT !["ap"] = ptk["ap"]]
      /\ installs' = [installs EXCEPT !["ap"] = @ \cup {ptk["ap"]}]
      /\ UNCHANGED <<pmk, anonce, snonce, replay, ptk, fresh, air>>
    BY DEF ApRxM4, M4Valid, InstallDataKey, eapolVars
<1>2. M3s' = M3s /\ M4s' = M4s
    BY <1>1 DEF M3s, M4s
<1>3. /\ state'["ap"] = "CONNECTED" /\ state'["sta"] = state["sta"]
      /\ installs'["ap"] = installs["ap"] \cup {ptk["ap"]} /\ installs'["sta"] = installs["sta"]
      /\ installedTk'["ap"] = ptk["ap"] /\ installedTk'["sta"] = installedTk["sta"]
    BY <1>1 DEF TypeOK
<1>4. ptk["ap"] \in installs["sta"]
    BY M4KeyIsNew
<1>5. NoncesDrawn'
    BY <1>1, <1>2, <1>3, <1>4 DEF HandshakeInv, NoncesDrawn, Node
<1>6. StaKeyIsNew' /\ ApNonceIsNew'
    BY <1>1, <1>3 DEF HandshakeInv, StaKeyIsNew, ApNonceIsNew
<1>7. M3Order' /\ M4Answers'
    BY <1>1, <1>2, <1>3 DEF HandshakeInv, M3Order, M4Answers
<1>8. KeyInPlace'
    BY <1>1, <1>3 DEF HandshakeInv, KeyInPlace, Node
<1>9. KeyAgreement'
    BY <1>3, <1>4 DEF HandshakeInv, KeyAgreement, Node
<1> QED
    BY <1>5, <1>6, <1>7, <1>8, <1>9 DEF HandshakeInv

-----------------------------------------------------------------------------
(* The packet counters.                                                    *)

\* No packet number is spent before the first handler runs.
LEMMA CountersInit == Init => CountersAhead
BY DEF Init, CountersAhead

\* A step that leaves the data plane alone keeps the counters ahead.
LEMMA CountersSame ==
    ASSUME CountersAhead, UNCHANGED dataVars
    PROVE  CountersAhead'
BY DEF CountersAhead, dataVars

\* A key that was never installed has no packet numbers: the counters may restart.
LEMMA CountersInstall ==
    ASSUME TypeOK, CountersAhead, NEW n \in Node, NEW k \in Key, k \notin installs[n],
           InstallDataKey(n, k)
    PROVE  CountersAhead'
<1>1. /\ installedTk'[n] = k
      /\ installs'[n] = installs[n] \cup {k}
      /\ used' = used /\ delivered' = delivered
      /\ \A x \in Node \ {n} : /\ installedTk'[x] = installedTk[x]
                               /\ installs'[x] = installs[x]
                               /\ dataTxPn'[x] = dataTxPn[x]
                               /\ rxReplay'[x] = rxReplay[x]
    BY DEF InstallDataKey, TypeOK
<1>2. ASSUME NEW x \in Node
      PROVE  /\ \A u \in used[x] : /\ u[1] \in installs'[x]
                                   /\ u[1] = installedTk'[x] => u[2] <= dataTxPn'[x]
             /\ \A d \in delivered[x] : /\ d[1] \in installs'[x]
                                        /\ d[1] = installedTk'[x] => d[3] <= rxReplay'[x][d[2]]
    <2>1. CASE x = n
        BY <1>1, <2>1 DEF CountersAhead
    <2>2. CASE x # n
        BY <1>1, <2>2 DEF CountersAhead
    <2> QED
        BY <2>1, <2>2
<1> QED
    BY <1>1, <1>2 DEF CountersAhead

\* A cleared struct has a key no packet was ever sealed under.
LEMMA CountersWipe ==
    ASSUME TypeOK, HandshakeInv, CountersAhead,
           NEW n \in Node, NEW p \in Pmks, NEW m \in PmfModes, SmeInit(n, p, m)
    PROVE  CountersAhead'
<1>1. ZeroKey \notin installs[n]
    BY DEF ZeroKey, HandshakeInv, NoncesDrawn
<1>2. /\ installedTk'[n] = ZeroKey
      /\ installs' = installs /\ used' = used /\ delivered' = delivered
      /\ \A x \in Node \ {n} : /\ installedTk'[x] = installedTk[x]
                               /\ dataTxPn'[x] = dataTxPn[x]
                               /\ rxReplay'[x] = rxReplay[x]
    BY DEF SmeInit, TypeOK
<1>3. ASSUME NEW x \in Node
      PROVE  /\ \A u \in used[x] : /\ u[1] \in installs[x]
                                   /\ u[1] = installedTk'[x] => u[2] <= dataTxPn'[x]
             /\ \A d \in delivered[x] : /\ d[1] \in installs[x]
                                        /\ d[1] = installedTk'[x] => d[3] <= rxReplay'[x][d[2]]
    <2>1. CASE x = n
        BY <1>1, <1>2, <2>1 DEF CountersAhead
    <2>2. CASE x # n
        BY <1>2, <2>2 DEF CountersAhead
    <2> QED
        BY <2>1, <2>2
<1> QED
    BY <1>2, <1>3 DEF CountersAhead

\* Sending a frame takes the next packet number.
LEMMA CountersTx ==
    ASSUME TypeOK, HandshakeInv, CountersAhead, NEW n \in Node, NEW t \in Tids, DataTx(n, t)
    PROVE  CountersAhead'
<1>1. /\ dataTxPn'[n] = dataTxPn[n] + 1
      /\ used'[n] = used[n] \cup {<<ptk[n], dataTxPn[n] + 1>>}
      /\ \A x \in Node \ {n} : dataTxPn'[x] = dataTxPn[x] /\ used'[x] = used[x]
      /\ UNCHANGED <<installedTk, rxReplay, installs, delivered>>
    BY DEF DataTx, MayTx, TypeOK
<1>2. ptk[n] = installedTk[n] /\ installedTk[n] \in installs[n]
    BY DEF DataTx, MayTx, HandshakeInv, KeyInPlace
<1>3. dataTxPn[n] \in Nat /\ \A u \in used[n] : u[2] \in Nat
    BY DEF TypeOK
<1>4. ASSUME NEW x \in Node, NEW u \in used'[x]
      PROVE  u[1] \in installs[x] /\ (u[1] = installedTk[x] => u[2] <= dataTxPn'[x])
    <2>1. CASE x # n
        BY <1>1, <1>4, <2>1 DEF CountersAhead
    <2>2. CASE x = n /\ u \in used[n]
        BY <1>1, <1>3, <2>2 DEF CountersAhead
    <2>3. CASE x = n /\ u = <<ptk[n], dataTxPn[n] + 1>>
        BY <1>1, <1>2, <1>3, <2>3
    <2> QED
        BY <1>1, <1>4, <2>1, <2>2, <2>3
<1> QED
    BY <1>1, <1>4 DEF CountersAhead

\* Accepting a frame moves its slot to the frame's packet number.
LEMMA CountersRx ==
    ASSUME TypeOK, HandshakeInv, CountersAhead, NEW n \in Node, NEW f \in air, RxData(n, f)
    PROVE  CountersAhead'
<1>1. f.tid \in Tids /\ f.pn \in Nat
    BY FrameRead DEF TypeOK, RxData, PnIsNew
<1>2. /\ rxReplay'[n] = [rxReplay[n] EXCEPT ![f.tid] = f.pn]
      /\ delivered'[n] = delivered[n] \cup {<<ptk[n], f.tid, f.pn>>}
      /\ \A x \in Node \ {n} : rxReplay'[x] = rxReplay[x] /\ delivered'[x] = delivered[x]
      /\ UNCHANGED <<installedTk, dataTxPn, installs, used>>
      /\ f.pn > rxReplay[n][f.tid]
    BY DEF RxData, PnIsNew, TypeOK
<1>3. ptk[n] = installedTk[n] /\ installedTk[n] \in installs[n]
    BY DEF RxData, PnIsNew, HandshakeInv, KeyInPlace
<1>4. /\ rxReplay[n] \in [Tids -> Nat]
      /\ \A d \in delivered[n] : d[2] \in Tids /\ d[3] \in Nat
    BY DEF TypeOK
<1>5. ASSUME NEW x \in Node, NEW d \in delivered'[x]
      PROVE  d[1] \in installs[x] /\ (d[1] = installedTk[x] => d[3] <= rxReplay'[x][d[2]])
    <2>1. CASE x # n
        BY <1>2, <1>5, <2>1 DEF CountersAhead
    <2>2. CASE x = n /\ d \in delivered[n]
        <3>1. d[1] \in installs[n] /\ (d[1] = installedTk[n] => d[3] <= rxReplay[n][d[2]])
            BY <2>2 DEF CountersAhead
        <3>2. rxReplay[n][d[2]] <= rxReplay'[n][d[2]]
            BY <1>1, <1>2, <1>4, <2>2
        <3>3. rxReplay[n][d[2]] \in Nat /\ rxReplay'[n][d[2]] \in Nat /\ d[3] \in Nat
            BY <1>1, <1>2, <1>4, <2>2
        <3> QED
            BY <2>2, <3>1, <3>2, <3>3
    <2>3. CASE x = n /\ d = <<ptk[n], f.tid, f.pn>>
        BY <1>1, <1>2, <1>3, <1>4, <2>3
    <2> QED
        BY <1>2, <1>5, <2>1, <2>2, <2>3
<1> QED
    BY <1>2, <1>5 DEF CountersAhead

-----------------------------------------------------------------------------
(* The invariant, and what follows from it.                                *)

\* Every step keeps SmeInv.
LEMMA SmeInvStep == SmeInv /\ [Next]_vars => SmeInv'
<1> SUFFICES ASSUME SmeInv, [Next]_vars PROVE HandshakeInv' /\ CountersAhead'
    BY TypeStep DEF SmeInv
<1>0. TypeOK /\ HandshakeInv /\ CountersAhead
    BY DEF SmeInv
<1> USE <1>0, NodeNames
<1>1. ASSUME NEW n \in Node, NEW p \in Pmks, NEW m \in PmfModes, SmeInit(n, p, m)
      PROVE  HandshakeInv' /\ CountersAhead'
    BY <1>1, InitStep, CountersWipe
<1>2. CASE ConnectStart
    <2>1. M3s' = M3s /\ M4s' = M4s
        BY <1>2, OtherFrame, OtherFrames DEF ConnectStart, Send, BareTypes
    <2>2. \A n \in Node : state'[n] \in {"4WAY", "CONNECTED"} => state'[n] = state[n]
        BY <1>2 DEF ConnectStart, TypeOK
    <2> QED
        BY <1>2, <2>1, <2>2, QuietStep, CountersSame DEF ConnectStart, eapolVars, dataVars
<1>3. ASSUME NEW rsne \in BOOLEAN, StaRxProbeResp(rsne)
      PROVE  HandshakeInv' /\ CountersAhead'
    <2>1. M3s' = M3s /\ M4s' = M4s
        BY <1>3, OtherFrame, OtherFrames DEF StaRxProbeResp, Send, BareTypes
    <2> QED
        BY <1>3, <2>1, QuietStep, CountersSame DEF StaRxProbeResp, eapolVars, dataVars
<1>4. CASE StaRxAuthResp
    <2>1. M3s' = M3s /\ M4s' = M4s
        BY <1>4, OtherFrame, OtherFrames DEF StaRxAuthResp, Send
    <2>2. \A n \in Node : state'[n] \in {"4WAY", "CONNECTED"} => state'[n] = state[n]
        BY <1>4 DEF StaRxAuthResp, TypeOK
    <2> QED
        BY <1>4, <2>1, <2>2, QuietStep, CountersSame DEF StaRxAuthResp, eapolVars, dataVars
<1>5. CASE ApRxProbeReq
    <2>1. M3s' = M3s /\ M4s' = M4s
        BY <1>5, OtherFrame, OtherFrames DEF ApRxProbeReq, Send, BareTypes
    <2> QED
        BY <1>5, <2>1, QuietStep, CountersSame DEF ApRxProbeReq, ladderVars, eapolVars, dataVars
<1>6. CASE ApRxAuthReq
    <2>1. M3s' = M3s /\ M4s' = M4s
        BY <1>6, OtherFrame, OtherFrames DEF ApRxAuthReq, Send, BareTypes
    <2>2. \A n \in Node : state'[n] \in {"4WAY", "CONNECTED"} => state'[n] = state[n]
        BY <1>6 DEF ApRxAuthReq, TypeOK
    <2> QED
        BY <1>6, <2>1, <2>2, QuietStep, CountersSame DEF ApRxAuthReq, eapolVars, dataVars
<1>7. ASSUME NEW f \in air, StaRxAssocResp(f)
      PROVE  HandshakeInv' /\ CountersAhead'
    <2>1. CountersAhead'
        BY <1>7, CountersSame DEF StaRxAssocResp
    <2>2. CASE StaOnM1(earlyM1.replay, earlyM1.nonce, TRUE)
        <3>1. earlyM1.replay \in Nat /\ earlyM1.nonce \in Nat
            BY DEF TypeOK
        <3> QED
            BY <1>7, <2>1, <2>2, <3>1, OnM1Step DEF StaRxAssocResp, dataVars
    <2>3. CASE UNCHANGED <<eapolVars, air, fresh>>
               /\ state' \in {[state EXCEPT !["sta"] = "FAILED"], [state EXCEPT !["sta"] = "ASSOCED"]}
        <3>1. M3s' = M3s /\ M4s' = M4s
            BY <2>3 DEF M3s, M4s
        <3>2. \A n \in Node : state'[n] \in {"4WAY", "CONNECTED"} => state'[n] = state[n]
            BY <2>3 DEF TypeOK
        <3> QED
            BY <1>7, <2>1, <2>3, <3>1, <3>2, QuietStep DEF StaRxAssocResp, eapolVars, dataVars
    <2> QED
        BY <1>7, <2>2, <2>3 DEF StaRxAssocResp
<1>8. ASSUME NEW f \in air, StaRxM1(f)
      PROVE  HandshakeInv' /\ CountersAhead'
    <2>1. CountersAhead'
        BY <1>8, CountersSame DEF StaRxM1
    <2>2. CASE UNCHANGED <<state, replay, anonce, snonce, ptk, air, fresh>>
        <3>1. M3s' = M3s /\ M4s' = M4s
            BY <2>2 DEF M3s, M4s
        <3> QED
            BY <1>8, <2>1, <2>2, <3>1, QuietStep DEF StaRxM1, dataVars
    <2>3. CASE /\ state["sta"] \in {"ASSOCED", "4WAY"}
               /\ StaOnM1(f.replay, f.nonce, state["sta"] = "ASSOCED")
        <3>1. f.replay \in Nat /\ f.nonce \in Nat
            BY <1>8, FrameRead DEF TypeOK, StaRxM1
        <3>2. state["sta"] # "ASSOCED" => state["sta"] = "4WAY"
            BY <2>3
        <3> QED
            BY <1>8, <2>1, <2>3, <3>1, <3>2, OnM1Step DEF StaRxM1, dataVars
    <2> QED
        BY <1>8, <2>2, <2>3 DEF StaRxM1
<1>9. ASSUME NEW f \in air, StaRxM3(f)
      PROVE  HandshakeInv' /\ CountersAhead'
    <2>1. ptk["sta"] \in Key /\ ptk["sta"] \notin installs["sta"]
        BY <1>9, M3KeyIsNew DEF TypeOK
    <2> QED
        BY <1>9, <2>1, M3Step, CountersInstall DEF StaRxM3, M3Valid
<1>10. ASSUME NEW f \in air, ApRxAssocReq(f)
       PROVE  HandshakeInv' /\ CountersAhead'
    BY <1>10, AssocReqStep, CountersSame DEF ApRxAssocReq
<1>11. ASSUME NEW f \in air, ApRxM2(f)
       PROVE  HandshakeInv' /\ CountersAhead'
    BY <1>11, M2Step, CountersSame DEF ApRxM2
<1>12. ASSUME NEW f \in air, ApRxM4(f)
       PROVE  HandshakeInv' /\ CountersAhead'
    <2>1. ptk["ap"] \in Key /\ ptk["ap"] \notin installs["ap"]
        BY <1>12, M4KeyIsNew DEF TypeOK
    <2> QED
        BY <1>12, <2>1, M4Step, CountersInstall DEF ApRxM4, M4Valid
<1>13. ASSUME NEW n \in Node, NEW t \in Tids, DataTx(n, t)
       PROVE  HandshakeInv' /\ CountersAhead'
    <2>1. M3s' = M3s /\ M4s' = M4s
        BY <1>13, OtherFrame, OtherFrames DEF DataTx, MayTx, Send
    <2> QED
        BY <1>13, <2>1, QuietStep, CountersTx DEF DataTx, MayTx, ladderVars, eapolVars
<1>14. ASSUME NEW n \in Node, NEW f \in air, RxData(n, f)
       PROVE  HandshakeInv' /\ CountersAhead'
    <2>1. M3s' = M3s /\ M4s' = M4s
        BY <1>14 DEF RxData, PnIsNew, M3s, M4s
    <2> QED
        BY <1>14, <2>1, QuietStep, CountersRx DEF RxData, PnIsNew, ladderVars, eapolVars
<1>15. ASSUME NEW n \in Node, TxProtectedDeauth(n)
       PROVE  HandshakeInv' /\ CountersAhead'
    <2>1. M3s' = M3s /\ M4s' = M4s
        BY <1>15, OtherFrame, OtherFrames DEF TxProtectedDeauth, Send
    <2> QED
        BY <1>15, <2>1, QuietStep, CountersSame DEF TxProtectedDeauth, ladderVars, eapolVars, dataVars
<1>16. ASSUME NEW n \in Node, NEW f \in air, RxProtectedDeauth(n, f)
       PROVE  HandshakeInv' /\ CountersAhead'
    <2>1. M3s' = M3s /\ M4s' = M4s
        BY <1>16 DEF RxProtectedDeauth, GroupVerify, M3s, M4s
    <2>2. \A x \in Node : state'[x] \in {"4WAY", "CONNECTED"} => state'[x] = state[x]
        BY <1>16 DEF RxProtectedDeauth, GroupVerify, Honour, TypeOK
    <2> QED
        BY <1>16, <2>1, <2>2, QuietStep, CountersSame DEF RxProtectedDeauth, GroupVerify, eapolVars, dataVars
<1>17. ASSUME NEW n \in Node, RxStrayDeauth(n)
       PROVE  HandshakeInv' /\ CountersAhead'
    <2>1. M3s' = M3s /\ M4s' = M4s
        BY <1>17 DEF RxStrayDeauth, M3s, M4s
    <2>2. \A x \in Node : state'[x] \in {"4WAY", "CONNECTED"} => state'[x] = state[x]
        BY <1>17 DEF RxStrayDeauth, Honour, TypeOK
    <2> QED
        BY <1>17, <2>1, <2>2, QuietStep, CountersSame DEF RxStrayDeauth, eapolVars, dataVars
<1>18. ASSUME NEW n \in Node, RxRefusal(n)
       PROVE  HandshakeInv' /\ CountersAhead'
    <2>1. M3s' = M3s /\ M4s' = M4s
        BY <1>18 DEF RxRefusal, M3s, M4s
    <2>2. \A x \in Node : state'[x] \in {"4WAY", "CONNECTED"} => state'[x] = state[x]
        BY <1>18 DEF RxRefusal, TypeOK
    <2> QED
        BY <1>18, <2>1, <2>2, QuietStep, CountersSame DEF RxRefusal, eapolVars, dataVars
<1>19. CASE UNCHANGED vars
    <2>1. M3s' = M3s /\ M4s' = M4s
        BY <1>19 DEF vars, M3s, M4s
    <2> QED
        BY <1>19, <2>1, QuietStep, CountersSame DEF vars, dataVars
<1> QED
    BY <1>1, <1>2, <1>3, <1>4, <1>5, <1>6, <1>7, <1>8, <1>9, <1>10, <1>11, <1>12,
       <1>13, <1>14, <1>15, <1>16, <1>17, <1>18, <1>19 DEF Next

\* SmeInv holds in every reachable state of the two state machines.
THEOREM SmeInvariant == Spec => []SmeInv
<1>1. Init => SmeInv
    BY TypeInit, HandshakeInit, CountersInit DEF SmeInv
<1> QED
    BY <1>1, SmeInvStep, PTL DEF Spec

\* The types of the C fields, for any number of frames, nonces and restarts.
THEOREM TypeCorrect == Spec => []TypeOK
BY SmeInvariant, PTL DEF SmeInv

\* The AP installs a TK only after the STA, and only one of its own PMK.
THEOREM KeyAgreementHolds == Spec => []KeyAgreement
<1>1. SmeInv => KeyAgreement
    BY DEF SmeInv, HandshakeInv
<1> QED
    BY <1>1, SmeInvariant, PTL

\* No (TK, PN) pair ever seals two data frames of one sender.
THEOREM NoNonceReuseHolds == Spec => NoNonceReuse
<1> DEFINE NewPn == \A n \in Node :
                dataTxPn'[n] > dataTxPn[n] => <<ptk[n], dataTxPn'[n]>> \notin used[n]
<1>1. SmeInv /\ [Next]_vars => [NewPn]_vars
    <2> SUFFICES ASSUME SmeInv, Next, NEW n \in Node, dataTxPn'[n] > dataTxPn[n]
                 PROVE  <<ptk[n], dataTxPn'[n]>> \notin used[n]
        OBVIOUS
    <2>1. TypeOK /\ KeyInPlace /\ CountersAhead
        BY DEF SmeInv, HandshakeInv
    <2>2. dataTxPn[n] \in Nat
        BY <2>1 DEF TypeOK
    <2>3. \E t \in Tids : DataTx(n, t)
        <3>1. ASSUME dataTxPn' = dataTxPn PROVE FALSE
            BY <2>2, <3>1
        <3>2. ASSUME NEW x \in Node, NEW p \in Pmks, NEW m \in PmfModes, SmeInit(x, p, m)
              PROVE  FALSE
            BY <2>1, <2>2, <3>2 DEF SmeInit, TypeOK
        <3>3. ASSUME NEW x \in Node, NEW k, InstallDataKey(x, k) PROVE FALSE
            BY <2>1, <2>2, <3>3 DEF InstallDataKey, TypeOK
        <3>4. ASSUME NEW x \in Node, NEW t \in Tids, DataTx(x, t) PROVE x = n
            BY <2>1, <2>2, <3>4 DEF DataTx, MayTx, TypeOK
        <3> QED
            BY <3>1, <3>2, <3>3, <3>4, NodeNames
               DEF Next, ConnectStart, StaRxProbeResp, StaRxAuthResp, ApRxProbeReq, ApRxAuthReq,
                   StaRxAssocResp, StaRxM1, StaRxM3, M3Valid, ApRxAssocReq, ApRxM2, ApRxM4, M4Valid, RxData, PnIsNew,
                   TxProtectedDeauth, RxProtectedDeauth, GroupVerify, RxStrayDeauth, RxRefusal, dataVars
    <2>4. state[n] = "CONNECTED" /\ dataTxPn'[n] = dataTxPn[n] + 1
        BY <2>1, <2>3 DEF DataTx, MayTx, TypeOK
    <2>5. ptk[n] = installedTk[n]
        BY <2>1, <2>4 DEF KeyInPlace
    <2> QED
        BY <2>1, <2>2, <2>4, <2>5 DEF CountersAhead
<1> QED
    BY <1>1, SmeInvariant, PTL DEF Spec, NoNonceReuse

\* No data frame is delivered twice from one replay slot under one TK.
THEOREM NoReplayedDeliveryHolds == Spec => NoReplayedDelivery
<1> DEFINE NewFrame == \A n \in Node : dataRx'[n] > dataRx[n] => delivered'[n] # delivered[n]
<1>1. SmeInv /\ [Next]_vars => [NewFrame]_vars
    <2> SUFFICES ASSUME SmeInv, Next, NEW n \in Node, dataRx'[n] > dataRx[n]
                 PROVE  delivered'[n] # delivered[n]
        OBVIOUS
    <2>1. TypeOK /\ KeyInPlace /\ CountersAhead
        BY DEF SmeInv, HandshakeInv
    <2>2. dataRx[n] \in Nat
        BY <2>1 DEF TypeOK
    <2>3. \E f \in air : RxData(n, f)
        <3>1. ASSUME dataRx' = dataRx PROVE FALSE
            BY <2>2, <3>1
        <3>2. ASSUME NEW x \in Node, NEW p \in Pmks, NEW m \in PmfModes, SmeInit(x, p, m)
              PROVE  FALSE
            BY <2>1, <2>2, <3>2 DEF SmeInit, TypeOK
        <3>3. ASSUME NEW x \in Node, NEW f \in air, RxData(x, f) PROVE x = n
            BY <2>1, <2>2, <3>3 DEF RxData, PnIsNew, TypeOK
        <3> QED
            BY <3>1, <3>2, <3>3
               DEF Next, ConnectStart, StaRxProbeResp, StaRxAuthResp, ApRxProbeReq, ApRxAuthReq,
                   StaRxAssocResp, StaRxM1, StaRxM3, M3Valid, ApRxAssocReq, ApRxM2, ApRxM4, M4Valid, DataTx, MayTx,
                   TxProtectedDeauth, RxProtectedDeauth, GroupVerify, RxStrayDeauth, RxRefusal, InstallDataKey,
                   dataVars
    <2>4. PICK f \in air : RxData(n, f)
        BY <2>3
    <2>5. f.tid \in Tids /\ f.pn \in Nat
        BY <2>1, <2>4, FrameRead DEF TypeOK, RxData, PnIsNew
    <2>6. /\ f.pn > rxReplay[n][f.tid]
          /\ ptk[n] = installedTk[n]
          /\ <<ptk[n], f.tid, f.pn>> \in delivered'[n]
        BY <2>1, <2>4 DEF RxData, PnIsNew, KeyInPlace, TypeOK
    <2>7. rxReplay[n][f.tid] \in Nat
        BY <2>1, <2>5 DEF TypeOK
    <2>8. <<ptk[n], f.tid, f.pn>> \notin delivered[n]
        BY <2>1, <2>5, <2>6, <2>7 DEF CountersAhead
    <2> QED
        BY <2>6, <2>8
<1> QED
    BY <1>1, SmeInvariant, PTL DEF Spec, NoReplayedDelivery

-----------------------------------------------------------------------------
(* Refinement of SecureLink.                                               *)

\* A step that leaves the keyed data plane alone, and at most takes one node out
\* of CONNECTED, is a Drop or a stutter of the abstract link.
LEMMA DropOrStutter ==
    ASSUME TypeOK, NEW n \in Node, NEW v, v # "CONNECTED",
           state' \in {state, [state EXCEPT ![n] = v]},
           UNCHANGED <<installedTk, dataTxPn, installs>>
    PROVE  [Link!Next]_(Link!linkVars)
<1> DEFINE Up == [x \in Node |-> state[x] = "CONNECTED"]
<1>1. CASE state' = state \/ state[n] # "CONNECTED"
    <2>1. \A x \in Node : (state'[x] = "CONNECTED") = (state[x] = "CONNECTED")
        BY <1>1 DEF TypeOK
    <2>2. Up' = Up
        BY <2>1
    <2> QED
        BY <2>2 DEF Link!linkVars
<1>2. CASE state' = [state EXCEPT ![n] = v] /\ state[n] = "CONNECTED"
    <2>1. /\ (state'[n] = "CONNECTED") = FALSE
          /\ \A x \in Node \ {n} : (state'[x] = "CONNECTED") = (state[x] = "CONNECTED")
        BY <1>2 DEF TypeOK
    <2>2. Up' = [Up EXCEPT ![n] = FALSE]
        BY <2>1, Zenon
    <2>3. Up[n]
        BY <1>2
    <2>4. Link!Drop(n)
        BY <2>2, <2>3 DEF Link!Drop
    <2> QED
        BY <2>4 DEF Link!Next, Link!End, Node
<1> QED
    BY <1>1, <1>2

\* Installing a new key and connecting under it is Establish.
LEMMA EstablishStep ==
    ASSUME TypeOK, NEW n \in Node, NEW k \in Key, InstallDataKey(n, k),
           k \notin installs[n], k # ZeroKey, n = "ap" => k \in installs["sta"],
           state[n] # "CONNECTED", state' = [state EXCEPT ![n] = "CONNECTED"],
           KeyInPlace
    PROVE  Link!Next
<1> DEFINE Up == [x \in Node |-> state[x] = "CONNECTED"]
<1>1. /\ installedTk' = [installedTk EXCEPT ![n] = k]
      /\ installedTk'[n] = k
      /\ installs' = [installs EXCEPT ![n] = @ \cup {k}]
    BY DEF InstallDataKey, TypeOK
<1>2. dataTxPn' = [dataTxPn EXCEPT ![n] = 0]
    <2>1. installedTk[n] # k
        BY DEF KeyInPlace
    <2> QED
        BY <2>1 DEF InstallDataKey
<1>3. /\ (state'[n] = "CONNECTED") = TRUE
      /\ \A x \in Node \ {n} : (state'[x] = "CONNECTED") = (state[x] = "CONNECTED")
    BY DEF TypeOK
<1>4. Up' = [Up EXCEPT ![n] = TRUE]
    BY <1>3, Zenon
<1>5. ~Up[n]
    OBVIOUS
<1>6. Link!Establish(n)
    BY <1>1, <1>2, <1>4, <1>5 DEF Link!Establish
<1> QED
    BY <1>6 DEF Link!Next, Link!End, Node

\* Every step of the two state machines is one of the abstract link or a stutter.
LEMMA LinkStep == SmeInv /\ [Next]_vars => [Link!Next]_(Link!linkVars)
<1> SUFFICES ASSUME SmeInv, [Next]_vars PROVE [Link!Next]_(Link!linkVars)
    OBVIOUS
<1>0. TypeOK /\ HandshakeInv /\ KeyInPlace
    BY DEF SmeInv, HandshakeInv
<1> USE <1>0, NodeNames
<1>1. ASSUME NEW n \in Node, NEW p \in Pmks, NEW m \in PmfModes, SmeInit(n, p, m)
      PROVE  Link!Next
    <2> DEFINE Up == [x \in Node |-> state[x] = "CONNECTED"]
    <2>1. /\ (state'[n] = "CONNECTED") = FALSE
          /\ \A x \in Node \ {n} : (state'[x] = "CONNECTED") = (state[x] = "CONNECTED")
        BY <1>1 DEF SmeInit, TypeOK
    <2>2. Up' = [Up EXCEPT ![n] = FALSE]
        BY <2>1, Zenon
    <2>3. Link!Wipe(n)
        BY <1>1, <2>2 DEF SmeInit, Link!Wipe
    <2> QED
        BY <2>3 DEF Link!Next, Link!End, Node
<1>2. CASE ConnectStart
    BY <1>2, DropOrStutter DEF ConnectStart, dataVars
<1>3. ASSUME NEW rsne \in BOOLEAN, StaRxProbeResp(rsne)
      PROVE  [Link!Next]_(Link!linkVars)
    BY <1>3, DropOrStutter DEF StaRxProbeResp, dataVars
<1>4. CASE StaRxAuthResp
    BY <1>4, DropOrStutter DEF StaRxAuthResp, dataVars
<1>5. CASE ApRxProbeReq
    BY <1>5, DropOrStutter DEF ApRxProbeReq, ladderVars, dataVars
<1>6. CASE ApRxAuthReq
    BY <1>6, DropOrStutter DEF ApRxAuthReq, dataVars
<1>7. ASSUME NEW f \in air, StaRxAssocResp(f)
      PROVE  [Link!Next]_(Link!linkVars)
    <2>1. \E v \in {"FAILED", "ASSOCED", "4WAY"} : state' = [state EXCEPT !["sta"] = v]
        BY <1>7 DEF StaRxAssocResp, StaOnM1, Snonce
    <2> QED
        BY <1>7, <2>1, DropOrStutter DEF StaRxAssocResp, dataVars
<1>8. ASSUME NEW f \in air, StaRxM1(f)
      PROVE  [Link!Next]_(Link!linkVars)
    <2>1. state' \in {state, [state EXCEPT !["sta"] = "4WAY"]}
        BY <1>8 DEF StaRxM1, StaOnM1, Snonce
    <2> QED
        BY <1>8, <2>1, DropOrStutter DEF StaRxM1, dataVars
<1>9. ASSUME NEW f \in air, StaRxM3(f)
      PROVE  Link!Next
    <2>1. /\ ptk["sta"] \in Key /\ ptk["sta"] \notin installs["sta"]
          /\ f \in M3s /\ f.mic = ptk["sta"]
        BY <1>9, M3KeyIsNew DEF TypeOK
    <2>2. ptk["sta"] # ZeroKey
        BY <2>1 DEF HandshakeInv, NoncesDrawn, ZeroKey
    <2> QED
        BY <1>9, <2>1, <2>2, EstablishStep DEF StaRxM3, M3Valid
<1>10. ASSUME NEW f \in air, ApRxAssocReq(f)
       PROVE  [Link!Next]_(Link!linkVars)
    <2>1. \E v \in {"FAILED", "4WAY"} : state' = [state EXCEPT !["ap"] = v]
        BY <1>10 DEF ApRxAssocReq
    <2> QED
        BY <1>10, <2>1, DropOrStutter DEF ApRxAssocReq, dataVars
<1>11. ASSUME NEW f \in air, ApRxM2(f)
       PROVE  [Link!Next]_(Link!linkVars)
    BY <1>11, DropOrStutter DEF ApRxM2, ladderVars, dataVars
<1>12. ASSUME NEW f \in air, ApRxM4(f)
       PROVE  Link!Next
    <2>1. ptk["ap"] \in Key /\ ptk["ap"] \notin installs["ap"] /\ ptk["ap"] \in installs["sta"]
        BY <1>12, M4KeyIsNew DEF TypeOK
    <2>2. ptk["ap"] # ZeroKey
        BY <2>1 DEF HandshakeInv, NoncesDrawn, ZeroKey
    <2> QED
        BY <1>12, <2>1, <2>2, EstablishStep DEF ApRxM4, M4Valid
<1>13. ASSUME NEW n \in Node, NEW t \in Tids, DataTx(n, t)
       PROVE  Link!Next
    <2>1. Link!Transmit(n)
        BY <1>13 DEF DataTx, MayTx, ladderVars, Link!Transmit
    <2> QED
        BY <2>1 DEF Link!Next, Link!End, Node
<1>14. ASSUME NEW n \in Node, NEW f \in air, RxData(n, f)
       PROVE  [Link!Next]_(Link!linkVars)
    BY <1>14, DropOrStutter DEF RxData, PnIsNew, ladderVars
<1>15. ASSUME NEW n \in Node, TxProtectedDeauth(n)
       PROVE  [Link!Next]_(Link!linkVars)
    BY <1>15, DropOrStutter DEF TxProtectedDeauth, ladderVars, dataVars
<1>16. ASSUME NEW n \in Node, NEW f \in air, RxProtectedDeauth(n, f)
       PROVE  [Link!Next]_(Link!linkVars)
    BY <1>16, DropOrStutter DEF RxProtectedDeauth, GroupVerify, Honour, dataVars
<1>17. ASSUME NEW n \in Node, RxStrayDeauth(n)
       PROVE  [Link!Next]_(Link!linkVars)
    BY <1>17, DropOrStutter DEF RxStrayDeauth, Honour, dataVars
<1>18. ASSUME NEW n \in Node, RxRefusal(n)
       PROVE  [Link!Next]_(Link!linkVars)
    BY <1>18, DropOrStutter DEF RxRefusal, dataVars
<1>19. CASE UNCHANGED vars
    BY <1>19 DEF vars, Link!linkVars
<1> QED
    BY <1>1, <1>2, <1>3, <1>4, <1>5, <1>6, <1>7, <1>8, <1>9, <1>10, <1>11, <1>12,
       <1>13, <1>14, <1>15, <1>16, <1>17, <1>18, <1>19 DEF Next

\* The two state machines implement the abstract secure link.
THEOREM ImplementsLinkHolds == Spec => ImplementsLink
<1>1. Init => Link!Init
    BY DEF Init, Link!Init, Link!End, Node
<1> QED
    BY <1>1, LinkStep, SmeInvariant, PTL DEF Spec, ImplementsLink, Link!Spec

-----------------------------------------------------------------------------
(* Refinement of SmeView, the SME the connect path is built on.            *)

\* A step that keeps the STA's flag, key and window, and moves it at most between
\* two states the glue does not tell apart, does not show in the view.
LEMMA ViewStutter ==
    ASSUME UNCHANGED <<connected["sta"], installedTk["sta"], installs["sta"], starting>>,
           \/ state'["sta"] = state["sta"]
           \/ {state["sta"], state'["sta"]} \cap {"CONNECTED", "FAILED"} = {}
    PROVE  UNCHANGED View!viewVars
BY DEF View!viewVars

\* A step of the AP does not show in the view.
LEMMA ApNotInView ==
    ASSUME TypeOK, UNCHANGED <<connected, starting>>, NEW v,
           state' \in {state, [state EXCEPT !["ap"] = v]},
           UNCHANGED <<installedTk, installs>>
    PROVE  UNCHANGED View!viewVars
<1>1. state'["sta"] = state["sta"]
    BY NodeNames DEF TypeOK
<1> QED
    BY <1>1, ViewStutter

\* The end of rf_2a4m1_rx_robust_mgmt is Torn for the STA, and nothing for the AP.
LEMMA HonourStep ==
    ASSUME TypeOK, NEW n \in Node, Honour(n), state[n] # "FAILED",
           UNCHANGED <<installedTk, installs, starting>>
    PROVE  [View!Next]_(View!viewVars)
<1> USE NodeNames
<1>1. CASE n = "sta" /\ state[n] \in AssocedOrLater
    <2>1. state'["sta"] = "INIT" /\ connected'["sta"] = FALSE
        BY <1>1 DEF Honour, TypeOK
    <2>2. View!Torn
        BY <1>1, <2>1 DEF View!Torn
    <2> QED
        BY <2>2 DEF View!Next
<1>2. CASE ~(n = "sta" /\ state[n] \in AssocedOrLater)
    <2>1. state'["sta"] = state["sta"] /\ connected'["sta"] = connected["sta"]
        BY <1>2 DEF Honour, TypeOK, Node
    <2> QED
        BY <2>1, ViewStutter
<1> QED
    BY <1>1, <1>2

\* Every step of the two state machines is one of the view or does not show in it.
LEMMA ViewStep == SmeInv /\ [Next]_vars => [View!Next]_(View!viewVars)
<1> SUFFICES ASSUME SmeInv, [Next]_vars PROVE [View!Next]_(View!viewVars)
    OBVIOUS
<1>0. TypeOK /\ HandshakeInv /\ KeyInPlace
    BY DEF SmeInv, HandshakeInv
<1> USE <1>0, NodeNames
<1>1. ASSUME NEW n \in Node, NEW p \in Pmks, NEW m \in PmfModes, SmeInit(n, p, m)
      PROVE  [View!Next]_(View!viewVars)
    <2>1. CASE n = "sta"
        <3>1. /\ state'["sta"] = "INIT" /\ connected'["sta"] = FALSE
              /\ installedTk'["sta"] = ZeroKey /\ installs' = installs /\ starting' = TRUE
            BY <1>1, <2>1 DEF SmeInit, TypeOK
        <3>2. View!Wipe
            BY <3>1 DEF View!Wipe
        <3> QED
            BY <3>2 DEF View!Next
    <2>2. CASE n # "sta"
        <3>1. /\ state'["sta"] = state["sta"] /\ connected'["sta"] = connected["sta"]
              /\ installedTk'["sta"] = installedTk["sta"] /\ installs' = installs
              /\ starting' = starting
            BY <1>1, <2>2 DEF SmeInit, TypeOK
        <3> QED
            BY <3>1, ViewStutter
    <2> QED
        BY <2>1, <2>2
<1>2. CASE ConnectStart
    <2>1. state'["sta"] = "SCANNING"
        BY <1>2 DEF ConnectStart, TypeOK
    <2>2. View!Restart
        BY <1>2, <2>1 DEF ConnectStart, dataVars, View!Restart
    <2> QED
        BY <2>2 DEF View!Next
<1>3. ASSUME NEW rsne \in BOOLEAN, StaRxProbeResp(rsne)
      PROVE  UNCHANGED View!viewVars
    <2>1. /\ state'["sta"] = state["sta"] /\ connected'["sta"] = connected["sta"]
          /\ installedTk'["sta"] = installedTk["sta"] /\ installs'["sta"] = installs["sta"]
          /\ starting' = starting
        BY <1>3 DEF StaRxProbeResp, dataVars
    <2> QED
        BY <2>1, ViewStutter
<1>4. CASE StaRxAuthResp
    <2>1. state["sta"] \in {"SCANNING", "INIT"} /\ state'["sta"] = "AUTHED"
        BY <1>4 DEF StaRxAuthResp, TypeOK
    <2> QED
        BY <1>4, <2>1, ViewStutter DEF StaRxAuthResp, dataVars
<1>5. CASE ApRxProbeReq
    BY <1>5, ApNotInView DEF ApRxProbeReq, ladderVars, dataVars
<1>6. CASE ApRxAuthReq
    <2>1. state'["sta"] = state["sta"]
        BY <1>6 DEF ApRxAuthReq, TypeOK
    <2>2. UNCHANGED <<connected, installedTk, installs, starting>>
        BY <1>6 DEF ApRxAuthReq, dataVars
    <2> QED
        BY <2>1, <2>2, ViewStutter
<1>7. ASSUME NEW f \in air, StaRxAssocResp(f)
      PROVE  [View!Next]_(View!viewVars)
    <2>1. /\ state["sta"] \notin {"CONNECTED", "FAILED"}
          /\ state'["sta"] \in {"FAILED", "ASSOCED", "4WAY"}
        BY <1>7 DEF StaRxAssocResp, StaOnM1, TypeOK
    <2>2. UNCHANGED <<connected, installedTk, installs, starting>>
        BY <1>7 DEF StaRxAssocResp, dataVars
    <2>3. CASE state'["sta"] = "FAILED"
        <3>1. View!Fails
            BY <2>1, <2>2, <2>3 DEF View!Fails
        <3> QED
            BY <3>1 DEF View!Next
    <2>4. CASE state'["sta"] # "FAILED"
        BY <2>1, <2>2, <2>4, ViewStutter
    <2> QED
        BY <2>3, <2>4
<1>8. ASSUME NEW f \in air, StaRxM1(f)
      PROVE  UNCHANGED View!viewVars
    <2>1. /\ state["sta"] \notin {"CONNECTED", "FAILED"}
          /\ state'["sta"] \in {state["sta"], "4WAY"}
        BY <1>8 DEF StaRxM1, StaOnM1, TypeOK
    <2> QED
        BY <1>8, <2>1, ViewStutter DEF StaRxM1, dataVars
<1>9. ASSUME NEW f \in air, StaRxM3(f)
      PROVE  View!Next
    <2>1. /\ ptk["sta"] \in Key /\ ptk["sta"] \notin installs["sta"]
          /\ f \in M3s /\ f.mic = ptk["sta"]
        BY <1>9, M3KeyIsNew DEF TypeOK
    <2>2. ptk["sta"] # ZeroKey
        BY <2>1 DEF HandshakeInv, NoncesDrawn, ZeroKey
    <2>3. /\ state["sta"] = "4WAY" /\ state'["sta"] = "CONNECTED"
          /\ connected'["sta"] = TRUE /\ starting' = starting
          /\ installedTk'["sta"] = ptk["sta"]
          /\ installs'["sta"] = installs["sta"] \cup {ptk["sta"]}
        BY <1>9 DEF StaRxM3, M3Valid, InstallDataKey, TypeOK
    <2>4. View!Connects(installedTk'["sta"])
        BY <2>1, <2>2, <2>3 DEF View!Connects
    <2> QED
        BY <2>4 DEF View!Next
<1>10. ASSUME NEW f \in air, ApRxAssocReq(f)
       PROVE  UNCHANGED View!viewVars
    <2>1. state'["sta"] = state["sta"]
        BY <1>10 DEF ApRxAssocReq, TypeOK
    <2>2. UNCHANGED <<connected, installedTk, installs, starting>>
        BY <1>10 DEF ApRxAssocReq, dataVars
    <2> QED
        BY <2>1, <2>2, ViewStutter
<1>11. ASSUME NEW f \in air, ApRxM2(f)
       PROVE  UNCHANGED View!viewVars
    BY <1>11, ApNotInView DEF ApRxM2, ladderVars, dataVars
<1>12. ASSUME NEW f \in air, ApRxM4(f)
       PROVE  UNCHANGED View!viewVars
    <2>1. /\ state'["sta"] = state["sta"] /\ connected'["sta"] = connected["sta"]
          /\ installedTk'["sta"] = installedTk["sta"] /\ installs'["sta"] = installs["sta"]
          /\ starting' = starting
        BY <1>12 DEF ApRxM4, InstallDataKey, TypeOK
    <2> QED
        BY <2>1, ViewStutter
<1>13. ASSUME NEW n \in Node, NEW t \in Tids, DataTx(n, t)
       PROVE  UNCHANGED View!viewVars
    BY <1>13, ViewStutter DEF DataTx, ladderVars
<1>14. ASSUME NEW n \in Node, NEW f \in air, RxData(n, f)
       PROVE  UNCHANGED View!viewVars
    BY <1>14, ViewStutter DEF RxData, ladderVars
<1>15. ASSUME NEW n \in Node, TxProtectedDeauth(n)
       PROVE  UNCHANGED View!viewVars
    BY <1>15, ViewStutter DEF TxProtectedDeauth, ladderVars, dataVars
<1>16. ASSUME NEW n \in Node, NEW f \in air, RxProtectedDeauth(n, f)
       PROVE  [View!Next]_(View!viewVars)
    BY <1>16, HonourStep DEF RxProtectedDeauth, dataVars
<1>17. ASSUME NEW n \in Node, RxStrayDeauth(n)
       PROVE  [View!Next]_(View!viewVars)
    BY <1>17, HonourStep DEF RxStrayDeauth, dataVars
<1>18. ASSUME NEW n \in Node, RxRefusal(n)
       PROVE  [View!Next]_(View!viewVars)
    <2>1. CASE n = "sta"
        <3>1. state["sta"] # "FAILED" /\ state'["sta"] = "FAILED"
            BY <1>18, <2>1 DEF RxRefusal, TypeOK
        <3>2. View!Fails
            BY <1>18, <3>1 DEF RxRefusal, dataVars, View!Fails
        <3> QED
            BY <3>2 DEF View!Next
    <2>2. CASE n # "sta"
        <3>1. state'["sta"] = state["sta"]
            BY <1>18, <2>2 DEF RxRefusal, TypeOK
        <3> QED
            BY <1>18, <3>1, ViewStutter DEF RxRefusal, dataVars
    <2> QED
        BY <2>1, <2>2
<1>19. CASE UNCHANGED vars
    <2>1. /\ state'["sta"] = state["sta"] /\ connected'["sta"] = connected["sta"]
          /\ installedTk'["sta"] = installedTk["sta"] /\ installs'["sta"] = installs["sta"]
          /\ starting' = starting
        BY <1>19 DEF vars
    <2> QED
        BY <2>1, ViewStutter
<1> QED
    BY <1>1, <1>2, <1>3, <1>4, <1>5, <1>6, <1>7, <1>8, <1>9, <1>10, <1>11, <1>12,
       <1>13, <1>14, <1>15, <1>16, <1>17, <1>18, <1>19 DEF Next

\* The STA implements the view the connect path of the glue is checked against.
THEOREM ImplementsViewHolds == Spec => ImplementsView
<1>1. Init => View!Init
    BY NodeNames DEF Init, View!Init
<1> QED
    BY <1>1, ViewStep, SmeInvariant, PTL DEF Spec, ImplementsView, View!Spec

=============================================================================
