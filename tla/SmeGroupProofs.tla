--------------------------- MODULE SmeGroupProofs ---------------------------
(***************************************************************************)
(* The group keys, the PMF policy and the teardown of module Sme, on top   *)
(* of the handshake invariant of SmeProofs.                                *)
(*                                                                         *)
(* What ties the ends together is the one M3 of an ANonce: an M2 names the *)
(* replay counter of the M1 it answers, the AP moves on when it sends M3,  *)
(* so no later M2 of that ANonce passes.  Everything the ends hold of the  *)
(* group is read off that frame.                                           *)
(***************************************************************************)
EXTENDS SmeProofs

M1s == {f \in air : f.type = "M1"}
M2s == {f \in air : f.type = "M2"}

\* An M1 carries a nonce that was drawn, and an M2 or a stash comes from an M1.
M1Known ==
    /\ \A f \in M1s : f.nonce \in 1..fresh
    /\ earlyM1 = NoM1 \/ earlyM1 \in M1s
    /\ \A f \in M2s : M1(f.replay, f.mic.anonce) \in M1s

\* The replay counter has passed the M1 of the current ANonce once its M3 is out.
M1Passed ==
    \A f \in M1s : f.nonce = anonce["ap"] =>
        /\ f.replay <= replay["ap"]
        /\ \A g \in M3s : g.mic.anonce = f.nonce => f.replay < replay["ap"]

\* There is one M3 for an ANonce, and its group keys are in no other.
M3Unique ==
    /\ \A f \in M3s : f.gtk \in 1..fresh /\ f.igtk \in {0, f.gtk}
    /\ \A f, g \in M3s : f.mic.anonce = g.mic.anonce \/ f.gtk = g.gtk => f = g

ApCarries(g) ==
    /\ g.gtk = gtk["ap"]
    /\ mfpActive["ap"] => g.igtk = igtk["ap"] /\ g.igtk # 0
    /\ ~mfpActive["ap"] => g.igtk = 0

\* The AP holds what its M3 carried.
ApGroup ==
    /\ state["ap"] = "4WAY" =>
        \A g \in M3s : g.mic.anonce = anonce["ap"] => g.replay = replay["ap"] /\ ApCarries(g)
    /\ state["ap"] = "CONNECTED" => \E g \in M3s : g.mic = installedTk["ap"] /\ ApCarries(g)

\* The STA holds what the M3 it accepted carried.
StaGroup ==
    state["sta"] = "CONNECTED" =>
        \E g \in M3s : /\ g.mic = installedTk["sta"]
                       /\ g.gtk = gtk["sta"]
                       /\ mfpActive["sta"] /\ g.igtk # 0 => igtk["sta"] = g.igtk

\* An IGTK of the STA came in an M3 whose TK it installed.
IgtkOfM3(i) == \E g \in M3s : g.mic \in installs["sta"] /\ g.igtk = i

\* A protected Deauth that was accepted under the IGTK in place is at or below ipn_rx, and an
\* IGTK is installed once.
IpnAhead ==
    /\ igtk["ap"] <= fresh
    /\ \A n \in Node : \A v \in verified[n] : v[1] # 0 /\ (v[1] = igtk[n] => v[2] <= ipnRx[n])
    /\ \A v \in verified["ap"] : v[1] <= fresh
    /\ igtk["sta"] # 0 => IgtkOfM3(igtk["sta"])
    /\ \A v \in verified["sta"] : IgtkOfM3(v[1])

GroupInd == M1Known /\ M1Passed /\ M3Unique /\ ApGroup /\ StaGroup /\ IpnAhead

-----------------------------------------------------------------------------
(* The group keys.                                                         *)

\* Nothing was sent and no key drawn before the first step.
LEMMA GroupInit == Init => GroupInd
<1> SUFFICES ASSUME Init PROVE GroupInd
    OBVIOUS
<1>1. M1s = {} /\ M2s = {} /\ M3s = {}
    BY DEF Init, M1s, M2s, M3s
<1>2. /\ \A n \in Node : state[n] = "INIT" /\ verified[n] = {} /\ igtk[n] = 0
      /\ earlyM1 = NoM1 /\ fresh = 0
    BY DEF Init
<1>3. M1Known /\ M1Passed /\ M3Unique
    BY <1>1, <1>2 DEF M1Known, M1Passed, M3Unique
<1>4. ApGroup /\ StaGroup
    BY <1>2, NodeNames DEF ApGroup, StaGroup
<1>5. IpnAhead
    BY <1>2, NodeNames DEF IpnAhead
<1> QED
    BY <1>3, <1>4, <1>5 DEF GroupInd

\* An M1 or an M3 is what its fields say.
LEMMA FrameIs ==
    ASSUME TypeOK
    PROVE  /\ \A f \in M1s : f.replay \in Nat /\ f.nonce \in Nat /\ f = M1(f.replay, f.nonce)
           /\ \A f \in M3s : /\ f.replay \in Nat /\ f.gtk \in Nat /\ f.igtk \in Nat
                             /\ f = M3(f.replay, f.mic, f.gtk, f.igtk)
           /\ \A f \in M2s : f.replay \in Nat /\ f.mic \in Key
<1>1. ASSUME NEW f \in M1s
      PROVE  f.replay \in Nat /\ f.nonce \in Nat /\ f = M1(f.replay, f.nonce)
    <2>1. f \in [type : {"M1"}, replay : Nat, nonce : Nat]
        BY FrameRead DEF TypeOK, M1s
    <2> QED
        BY <2>1 DEF M1
<1>2. ASSUME NEW f \in M3s
      PROVE  /\ f.replay \in Nat /\ f.gtk \in Nat /\ f.igtk \in Nat
             /\ f = M3(f.replay, f.mic, f.gtk, f.igtk)
    <2>1. f \in [type : {"M3"}, replay : Nat, mic : Key, gtk : Nat, igtk : Nat]
        BY DEF TypeOK, M3s, Frame, BareTypes
    <2> QED
        BY <2>1 DEF M3
<1>3. ASSUME NEW f \in M2s PROVE f.replay \in Nat /\ f.mic \in Key
    BY FrameRead DEF TypeOK, M2s
<1> QED
    BY <1>1, <1>2, <1>3

\* Which set a frame that goes out joins.
LEMMA SentWhere ==
    ASSUME NEW f, air' = air \cup {f}
    PROVE  /\ f.type # "M1" => M1s' = M1s
           /\ f.type # "M2" => M2s' = M2s
           /\ f.type # "M3" => M3s' = M3s
           /\ f.type = "M2" => M2s' = M2s \cup {f}
           /\ f.type = "M3" => M3s' = M3s \cup {f}
BY DEF M1s, M2s, M3s

\* A step that sends no M1 and no M3, installs nothing and lets neither end come up
\* keeps the invariant: an M2 it sends answers an M1.
LEMMA GroupQuiet ==
    ASSUME TypeOK, GroupInd,
           fresh' \in Nat, fresh <= fresh',
           anonce'["ap"] = anonce["ap"], replay'["ap"] = replay["ap"],
           UNCHANGED <<installedTk, gtk, igtk, installs, ipnRx, verified>>,
           M1s' = M1s, M3s' = M3s,
           \A g \in M2s' : M1(g.replay, g.mic.anonce) \in M1s,
           earlyM1' = NoM1 \/ earlyM1' \in M1s,
           state'["sta"] = "CONNECTED" =>
                state["sta"] = "CONNECTED" /\ mfpActive'["sta"] = mfpActive["sta"],
           state'["ap"] \in {"4WAY", "CONNECTED"} =>
                state'["ap"] = state["ap"] /\ mfpActive'["ap"] = mfpActive["ap"]
    PROVE  GroupInd'
<1>0. fresh \in Nat
    BY DEF TypeOK
<1>1. M1Known'
    BY <1>0 DEF GroupInd, M1Known
<1>2. M1Passed'
    BY DEF GroupInd, M1Passed
<1>3. M3Unique'
    BY <1>0 DEF GroupInd, M3Unique
<1>4. ApGroup'
    BY DEF GroupInd, ApGroup, ApCarries
<1>5. StaGroup'
    BY DEF GroupInd, StaGroup
<1>6. IpnAhead'
    <2>1. /\ igtk["ap"] <= fresh' /\ \A v \in verified["ap"] : v[1] <= fresh'
        BY <1>0, NodeNames DEF GroupInd, IpnAhead, TypeOK
    <2> QED
        BY <2>1 DEF GroupInd, IpnAhead, IgtkOfM3
<1> QED
    BY <1>1, <1>2, <1>3, <1>4, <1>5, <1>6 DEF GroupInd

\* Answering an M1 on the air is such a step.
LEMMA GroupOnM1 ==
    ASSUME TypeOK, GroupInd, NEW f \in M1s, NEW w \in BOOLEAN, StaOnM1(f.replay, f.nonce, w),
           earlyM1' \in {NoM1, earlyM1}, mfpActive'["ap"] = mfpActive["ap"],
           UNCHANGED <<groupVars, dataVars>>
    PROVE  GroupInd'
<1> USE NodeNames
<1> DEFINE s == IF w THEN fresh + 1 ELSE snonce["sta"]
           k == [pmk |-> pmk["sta"], anonce |-> f.nonce, snonce |-> s]
           m == M2(f.replay, s, k)
<1>1. m.type = "M2" /\ m.replay = f.replay /\ m.mic.anonce = f.nonce
    BY DEF M2
<1>2. /\ state' = [state EXCEPT !["sta"] = "4WAY"]
      /\ replay' = [replay EXCEPT !["sta"] = f.replay]
      /\ anonce' = [anonce EXCEPT !["sta"] = f.nonce]
      /\ fresh' = IF w THEN fresh + 1 ELSE fresh
      /\ air' = air \cup {m}
    BY DEF StaOnM1, Snonce, Send
<1> HIDE DEF m
<1>3. /\ state'["sta"] = "4WAY" /\ state'["ap"] = state["ap"]
      /\ anonce'["ap"] = anonce["ap"] /\ replay'["ap"] = replay["ap"]
    BY <1>2 DEF TypeOK
<1>4. fresh' \in Nat /\ fresh <= fresh'
    BY <1>2 DEF TypeOK
<1>5. M1s' = M1s /\ M3s' = M3s /\ M2s' = M2s \cup {m}
    BY <1>1, <1>2, SentWhere
<1>6. f = M1(f.replay, f.nonce)
    BY FrameIs
<1>7. \A g \in M2s' : M1(g.replay, g.mic.anonce) \in M1s
    BY <1>1, <1>5, <1>6 DEF GroupInd, M1Known
<1>8. earlyM1' = NoM1 \/ earlyM1' \in M1s
    BY DEF GroupInd, M1Known
<1> QED
    BY <1>3, <1>4, <1>5, <1>7, <1>8, GroupQuiet DEF groupVars, dataVars

\* Clearing a struct keeps it: the cleared end has no ANonce, no IGTK and is not up.
LEMMA GroupWipe ==
    ASSUME TypeOK, GroupInd,
           NEW n \in Node, NEW p \in Pmks, NEW m \in PmfModes, SmeInit(n, p, m)
    PROVE  GroupInd'
<1> USE NodeNames
<1>1. /\ state'[n] = "INIT" /\ anonce'[n] = 0 /\ igtk'[n] = 0
      /\ \A x \in Node \ {n} : /\ state'[x] = state[x]
                               /\ anonce'[x] = anonce[x]
                               /\ replay'[x] = replay[x]
                               /\ installedTk'[x] = installedTk[x]
                               /\ mfpActive'[x] = mfpActive[x]
                               /\ gtk'[x] = gtk[x]
                               /\ igtk'[x] = igtk[x]
                               /\ ipnRx'[x] = ipnRx[x]
      /\ earlyM1' \in {NoM1, earlyM1}
      /\ UNCHANGED <<fresh, installs, verified>>
    BY DEF SmeInit, TypeOK
<1>2. M1s' = M1s /\ M2s' = M2s /\ M3s' = M3s
    BY DEF SmeInit, M1s, M2s, M3s
<1>3. fresh \in Nat
    BY DEF TypeOK
<1>4. M1Known' /\ M3Unique'
    BY <1>1, <1>2 DEF GroupInd, M1Known, M3Unique
<1>5. M1Passed'
    <2>1. CASE n = "ap"
        <3>1. \A f \in M1s : f.nonce # anonce'["ap"]
            BY <1>1, <1>3, <2>1 DEF GroupInd, M1Known
        <3> QED
            BY <1>2, <3>1 DEF M1Passed
    <2>2. CASE n # "ap"
        <3>1. anonce'["ap"] = anonce["ap"] /\ replay'["ap"] = replay["ap"]
            BY <1>1, <2>2
        <3> QED
            BY <1>2, <3>1 DEF GroupInd, M1Passed
    <2> QED
        BY <2>1, <2>2
<1>6. ApGroup'
    <2>1. CASE n = "ap"
        BY <1>1, <2>1 DEF ApGroup
    <2>2. CASE n # "ap"
        <3>1. /\ state'["ap"] = state["ap"] /\ anonce'["ap"] = anonce["ap"]
              /\ replay'["ap"] = replay["ap"] /\ installedTk'["ap"] = installedTk["ap"]
              /\ mfpActive'["ap"] = mfpActive["ap"]
              /\ gtk'["ap"] = gtk["ap"] /\ igtk'["ap"] = igtk["ap"]
            BY <1>1, <2>2
        <3> QED
            BY <1>2, <3>1 DEF GroupInd, ApGroup, ApCarries
    <2> QED
        BY <2>1, <2>2
<1>7. StaGroup'
    <2>1. CASE n = "sta"
        BY <1>1, <2>1 DEF StaGroup
    <2>2. CASE n # "sta"
        <3>1. /\ state'["sta"] = state["sta"] /\ installedTk'["sta"] = installedTk["sta"]
              /\ mfpActive'["sta"] = mfpActive["sta"]
              /\ gtk'["sta"] = gtk["sta"] /\ igtk'["sta"] = igtk["sta"]
            BY <1>1, <2>2
        <3> QED
            BY <1>2, <3>1 DEF GroupInd, StaGroup
    <2> QED
        BY <2>1, <2>2
<1>8. IpnAhead'
    <2>1. igtk'["ap"] <= fresh'
        <3>1. igtk'["ap"] \in {0, igtk["ap"]}
            BY <1>1
        <3> QED
            BY <1>1, <1>3, <3>1 DEF GroupInd, IpnAhead
    <2>2. igtk'["sta"] # 0 => igtk'["sta"] = igtk["sta"]
        BY <1>1
    <2>3. ASSUME NEW x \in Node, NEW v \in verified[x]
          PROVE  v[1] # 0 /\ (v[1] = igtk'[x] => v[2] <= ipnRx'[x])
        <3>1. v[1] # 0 /\ (v[1] = igtk[x] => v[2] <= ipnRx[x])
            BY DEF GroupInd, IpnAhead
        <3> QED
            BY <1>1, <3>1
    <2>4. igtk'["sta"] # 0 => IgtkOfM3(igtk["sta"])
        BY <2>2 DEF GroupInd, IpnAhead
    <2>5. igtk'["sta"] # 0 => (\E g \in M3s' : g.mic \in installs'["sta"] /\ g.igtk = igtk'["sta"])
        BY <1>1, <1>2, <2>2, <2>4 DEF IgtkOfM3
    <2>6. \A v \in verified["sta"] : IgtkOfM3(v[1])'
        BY <1>1, <1>2 DEF GroupInd, IpnAhead, IgtkOfM3
    <2> QED
        BY <1>1, <1>2, <2>1, <2>3, <2>5, <2>6 DEF GroupInd, IpnAhead, IgtkOfM3
<1> QED
    BY <1>4, <1>5, <1>6, <1>7, <1>8 DEF GroupInd

\* Accepting M3 keeps it: the STA takes its group keys, and the IGTK is a new one since
\* the TK that came with it is.
LEMMA GroupM3 ==
    ASSUME TypeOK, HandshakeInv, GroupInd, NEW f \in air, StaRxM3(f)
    PROVE  GroupInd'
<1> USE NodeNames
<1>1. f \in M3s /\ f.mic = ptk["sta"] /\ f.mic \notin installs["sta"] /\ f.igtk \in Nat
    BY M3KeyIsNew, FrameIs
<1>2. M4(f.replay, ptk["sta"]).type = "M4"
    BY DEF M4
<1>3. M1s' = M1s /\ M2s' = M2s /\ M3s' = M3s
    BY <1>2, SentWhere DEF StaRxM3, Send
<1>4. /\ state'["ap"] = state["ap"] /\ anonce'["ap"] = anonce["ap"]
      /\ replay'["ap"] = replay["ap"] /\ installedTk'["ap"] = installedTk["ap"]
      /\ gtk'["ap"] = gtk["ap"]
      /\ UNCHANGED <<mfpActive, fresh, earlyM1, verified>>
    BY DEF StaRxM3, InstallDataKey, TypeOK
<1>5. /\ installedTk'["sta"] = f.mic /\ gtk'["sta"] = f.gtk
      /\ installs'["sta"] = installs["sta"] \cup {f.mic}
    BY <1>1 DEF StaRxM3, InstallDataKey, TypeOK
<1>6. /\ igtk'["ap"] = igtk["ap"] /\ ipnRx'["ap"] = ipnRx["ap"]
      /\ \/ /\ mfpActive["sta"] /\ f.igtk # 0
            /\ igtk'["sta"] = f.igtk
         \/ /\ ~(mfpActive["sta"] /\ f.igtk # 0)
            /\ igtk'["sta"] = igtk["sta"] /\ ipnRx'["sta"] = ipnRx["sta"]
    BY DEF StaRxM3, InstallIgtk, TypeOK
<1>7. M1Known' /\ M3Unique' /\ M1Passed'
    BY <1>3, <1>4 DEF GroupInd, M1Known, M3Unique, M1Passed
<1>8. ApGroup'
    BY <1>3, <1>4, <1>6 DEF GroupInd, ApGroup, ApCarries
<1>9. StaGroup'
    BY <1>1, <1>3, <1>4, <1>5, <1>6 DEF StaGroup
<1>10. IpnAhead'
    <2>1. ASSUME NEW v \in verified["sta"]
          PROVE  /\ v[1] # 0 /\ (v[1] = igtk'["sta"] => v[2] <= ipnRx'["sta"])
                 /\ \E g \in M3s : g.mic \in installs'["sta"] /\ g.igtk = v[1]
        <3>1. PICK g \in M3s : g.mic \in installs["sta"] /\ g.igtk = v[1]
            BY DEF GroupInd, IpnAhead, IgtkOfM3
        <3>2. v[1] # 0 /\ (v[1] = igtk["sta"] => v[2] <= ipnRx["sta"])
            BY DEF GroupInd, IpnAhead
        <3>3. f.igtk # 0 => v[1] # f.igtk
            <4>1. g.gtk = g.igtk
                BY <3>1, <3>2 DEF GroupInd, M3Unique
            <4>2. f.igtk # 0 => f.gtk = f.igtk
                BY <1>1 DEF GroupInd, M3Unique
            <4>3. f.gtk = g.gtk => f = g
                BY <1>1 DEF GroupInd, M3Unique
            <4> QED
                BY <1>1, <3>1, <4>1, <4>2, <4>3
        <3> QED
            BY <1>5, <1>6, <3>1, <3>2, <3>3
    <2>2. igtk'["sta"] # 0 =>
            \E g \in M3s : g.mic \in installs'["sta"] /\ g.igtk = igtk'["sta"]
        <3>1. CASE igtk'["sta"] = f.igtk
            BY <1>1, <1>5, <3>1
        <3>2. CASE igtk'["sta"] = igtk["sta"]
            BY <1>5, <3>2 DEF GroupInd, IpnAhead, IgtkOfM3
        <3> QED
            BY <1>6, <3>1, <3>2
    <2>3. \A v \in verified["ap"] :
            v[1] # 0 /\ v[1] <= fresh /\ (v[1] = igtk'["ap"] => v[2] <= ipnRx'["ap"])
        BY <1>6 DEF GroupInd, IpnAhead
    <2>4. igtk'["ap"] <= fresh
        BY <1>6 DEF GroupInd, IpnAhead
    <2> QED
        BY <1>3, <1>4, <2>1, <2>2, <2>3, <2>4 DEF IpnAhead, IgtkOfM3, Node
<1> QED
    BY <1>7, <1>8, <1>9, <1>10 DEF GroupInd

\* Opening the 4-way keeps it: no M3 has the new ANonce.
LEMMA GroupAssocReq ==
    ASSUME TypeOK, HandshakeInv, GroupInd, NEW f \in air, ApRxAssocReq(f)
    PROVE  GroupInd'
<1> USE NodeNames
<1>0. fresh \in Nat /\ replay["ap"] \in Nat
    BY DEF TypeOK
<1>1. mfpActive'["sta"] = mfpActive["sta"]
    BY DEF ApRxAssocReq, Negotiate, TypeOK
<1>2. CASE UNCHANGED <<replay, anonce, air, fresh>> /\ state' = [state EXCEPT !["ap"] = "FAILED"]
    <2>1. M1s' = M1s /\ M2s' = M2s /\ M3s' = M3s
        BY <1>2 DEF M1s, M2s, M3s
    <2>2. state'["ap"] = "FAILED" /\ state'["sta"] = state["sta"]
        BY <1>2 DEF TypeOK
    <2>3. /\ \A g \in M2s' : M1(g.replay, g.mic.anonce) \in M1s
          /\ earlyM1' = NoM1 \/ earlyM1' \in M1s
        BY <2>1 DEF ApRxAssocReq, GroupInd, M1Known
    <2>4. UNCHANGED <<installedTk, gtk, igtk, installs, ipnRx, verified>>
        BY DEF ApRxAssocReq, groupVars, dataVars
    <2>5. fresh' = fresh /\ anonce' = anonce /\ replay' = replay
        BY <1>2
    <2> QED
        BY <1>0, <1>1, <2>1, <2>2, <2>3, <2>4, <2>5, GroupQuiet
<1>3. CASE /\ fresh' = fresh + 1
           /\ anonce' = [anonce EXCEPT !["ap"] = fresh + 1]
           /\ replay' = [replay EXCEPT !["ap"] = @ + 1]
           /\ state' = [state EXCEPT !["ap"] = "4WAY"]
           /\ air' = air \cup {AssocResp(pmfMode["ap"]), M1(replay["ap"] + 1, fresh + 1)}
    <2> DEFINE m == M1(replay["ap"] + 1, fresh + 1)
    <2>1. /\ m.type = "M1" /\ m.replay = replay["ap"] + 1 /\ m.nonce = fresh + 1
          /\ AssocResp(pmfMode["ap"]).type = "ASSOC_RESP"
        BY DEF M1, AssocResp
    <2> HIDE DEF m
    <2>2. M1s' = M1s \cup {m} /\ M2s' = M2s /\ M3s' = M3s
        BY <1>3, <2>1 DEF M1s, M2s, M3s, m
    <2>3. /\ anonce'["ap"] = fresh + 1 /\ replay'["ap"] = replay["ap"] + 1
          /\ state'["ap"] = "4WAY" /\ state'["sta"] = state["sta"] /\ fresh' = fresh + 1
        BY <1>3 DEF TypeOK
    <2>4. UNCHANGED <<installedTk, gtk, igtk, installs, ipnRx, verified, earlyM1>>
        BY DEF ApRxAssocReq, groupVars, dataVars
    <2>5. \A g \in M3s : g.mic.anonce # fresh + 1
        BY <1>0 DEF HandshakeInv, NoncesDrawn
    <2>6. \A g \in M1s : g.nonce # fresh + 1
        BY <1>0 DEF GroupInd, M1Known
    <2>7. M1Known'
        BY <1>0, <2>1, <2>2, <2>3, <2>4 DEF GroupInd, M1Known
    <2>8. M1Passed'
        BY <1>0, <2>1, <2>2, <2>3, <2>5, <2>6 DEF M1Passed
    <2>9. M3Unique'
        BY <1>0, <2>2, <2>3 DEF GroupInd, M3Unique
    <2>10. ApGroup'
        BY <2>2, <2>3, <2>5 DEF ApGroup
    <2>11. StaGroup'
        BY <1>1, <2>2, <2>3, <2>4 DEF GroupInd, StaGroup
    <2>12. IpnAhead'
        <3>1. igtk["ap"] <= fresh' /\ \A v \in verified["ap"] : v[1] <= fresh'
            BY <1>0, <2>3 DEF GroupInd, IpnAhead, TypeOK
        <3> QED
            BY <2>2, <2>4, <3>1 DEF GroupInd, IpnAhead, IgtkOfM3
    <2> QED
        BY <2>7, <2>8, <2>9, <2>10, <2>11, <2>12 DEF GroupInd
<1> QED
    BY <1>2, <1>3 DEF ApRxAssocReq

\* M2 keeps it: the M1 it answers is the last one of the ANonce, so no M3 of it is out.
LEMMA GroupM2 ==
    ASSUME TypeOK, HandshakeInv, GroupInd, NEW f \in air, ApRxM2(f)
    PROVE  GroupInd'
<1> USE NodeNames
<1> DEFINE k == [pmk |-> pmk["ap"], anonce |-> anonce["ap"], snonce |-> f.nonce]
           r == replay["ap"] + 1
           d == fresh + 1
           i == IF mfpActive["ap"] THEN d ELSE 0
           m == M3(r, k, d, i)
<1>0. fresh \in Nat /\ replay["ap"] \in Nat /\ d \in Nat /\ d > fresh
    BY DEF TypeOK
<1>1. /\ f \in M2s /\ f.replay = replay["ap"] /\ state["ap"] = "4WAY"
      /\ UNCHANGED <<state, mfpActive, anonce, earlyM1, verified, installedTk, installs>>
    BY DEF ApRxM2, M2s, ladderVars, dataVars
<1>2. CASE UNCHANGED <<replay, gtk, igtk, ipnTx, ipnRx, air, fresh>>
    <2>1. M1s' = M1s /\ M2s' = M2s /\ M3s' = M3s
        BY <1>2 DEF M1s, M2s, M3s
    <2>2. /\ \A g \in M2s' : M1(g.replay, g.mic.anonce) \in M1s
          /\ earlyM1' = NoM1 \/ earlyM1' \in M1s
        BY <1>1, <2>1 DEF GroupInd, M1Known
    <2> QED
        BY <1>0, <1>1, <1>2, <2>1, <2>2, GroupQuiet
<1>3. CASE /\ f.mic = k
           /\ fresh' = d
           /\ gtk' = [gtk EXCEPT !["ap"] = d]
           /\ IF mfpActive["ap"] THEN InstallIgtk("ap", d) ELSE UNCHANGED <<igtk, ipnTx, ipnRx>>
           /\ replay' = [replay EXCEPT !["ap"] = r]
           /\ air' = air \cup {m}
    <2>1. m.type = "M3" /\ m.replay = r /\ m.mic.anonce = anonce["ap"] /\ m.gtk = d /\ m.igtk = i
        BY DEF M3
    <2>2. f.mic.anonce = anonce["ap"]
        BY <1>3
    <2> HIDE DEF k, m
    <2>3. M1s' = M1s /\ M2s' = M2s /\ M3s' = M3s \cup {m}
        BY <1>3, <2>1, SentWhere
    <2>4. /\ gtk'["ap"] = d /\ gtk'["sta"] = gtk["sta"]
          /\ replay'["ap"] = replay["ap"] + 1 /\ fresh' = fresh + 1
        BY <1>3 DEF TypeOK
    <2>5. /\ igtk'["sta"] = igtk["sta"] /\ ipnRx'["sta"] = ipnRx["sta"]
          /\ mfpActive["ap"] => igtk'["ap"] = d
          /\ ~mfpActive["ap"] => igtk'["ap"] = igtk["ap"] /\ ipnRx'["ap"] = ipnRx["ap"]
        BY <1>3 DEF InstallIgtk, TypeOK
    <2>6. i \in {0, d} /\ (mfpActive["ap"] => i = d) /\ (~mfpActive["ap"] => i = 0)
        OBVIOUS
    <2> HIDE DEF i, d
    <2>7. \A g \in M3s : g.mic.anonce # anonce["ap"]
        <3>1. M1(f.replay, f.mic.anonce) \in M1s
            BY <1>1 DEF GroupInd, M1Known
        <3>2. M1(f.replay, f.mic.anonce).replay = replay["ap"] /\ M1(f.replay, f.mic.anonce).nonce = anonce["ap"]
            BY <1>1, <2>2 DEF M1
        <3>3. ~(replay["ap"] < replay["ap"])
            BY <1>0
        <3> QED
            BY <3>1, <3>2, <3>3 DEF GroupInd, M1Passed
    <2>8. \A g \in M3s : g.gtk # d /\ g.gtk \in 1..fresh
        BY <1>0 DEF GroupInd, M3Unique
    <2>9. d = fresh'
        BY <1>3
    <2>10. M1Known'
        BY <1>0, <1>1, <2>3, <2>4 DEF GroupInd, M1Known
    <2>11. M1Passed'
        <3> SUFFICES ASSUME NEW g \in M1s, g.nonce = anonce["ap"]
                     PROVE  g.replay < replay'["ap"]
            BY <1>0, <1>1, <2>3, <2>4, FrameIs DEF M1Passed
        <3>1. g.replay <= replay["ap"] /\ g.replay \in Nat
            BY FrameIs DEF GroupInd, M1Passed
        <3> QED
            BY <1>0, <2>4, <3>1
    <2>12. M3Unique'
        <3>1. \A g \in M3s' : g.gtk \in 1..fresh' /\ g.igtk \in {0, g.gtk}
            BY <1>0, <2>1, <2>3, <2>4, <2>6, <2>9 DEF GroupInd, M3Unique
        <3>2. \A g, h \in M3s' : g.mic.anonce = h.mic.anonce \/ g.gtk = h.gtk => g = h
            BY <2>1, <2>3, <2>7, <2>8 DEF GroupInd, M3Unique
        <3> QED
            BY <3>1, <3>2 DEF M3Unique
    <2>13. ApGroup'
        <3> SUFFICES ASSUME NEW g \in M3s', g.mic.anonce = anonce["ap"]
                     PROVE  g.replay = replay'["ap"] /\ ApCarries(g)'
            BY <1>1 DEF ApGroup
        <3>1. g = m
            BY <2>3, <2>7
        <3>2. d # 0
            BY <1>0
        <3> QED
            BY <1>1, <2>1, <2>4, <2>5, <2>6, <3>1, <3>2 DEF ApCarries
    <2>14. StaGroup'
        BY <1>1, <2>3, <2>4, <2>5 DEF GroupInd, StaGroup
    <2>15. IpnAhead'
        <3>1. ASSUME NEW v \in verified["ap"]
              PROVE  v[1] # 0 /\ v[1] <= fresh' /\ (v[1] = igtk'["ap"] => v[2] <= ipnRx'["ap"])
            <4>1. v[1] \in Nat /\ v[1] # 0 /\ v[1] <= fresh /\ (v[1] = igtk["ap"] => v[2] <= ipnRx["ap"])
                BY DEF GroupInd, IpnAhead, TypeOK
            <4>2. v[1] # d /\ v[1] <= fresh'
                BY <1>0, <2>4, <4>1
            <4> QED
                BY <2>5, <4>1, <4>2
        <3>2. igtk'["ap"] <= fresh'
            <4>1. igtk["ap"] \in Nat /\ igtk["ap"] <= fresh
                BY DEF GroupInd, IpnAhead, TypeOK
            <4>2. igtk'["ap"] \in {d, igtk["ap"]}
                BY <2>5
            <4> QED
                BY <1>0, <2>4, <2>9, <4>1, <4>2
        <3>3. \A v \in verified["sta"] : v[1] # 0 /\ (v[1] = igtk'["sta"] => v[2] <= ipnRx'["sta"])
            BY <2>5 DEF GroupInd, IpnAhead
        <3>4. /\ igtk'["sta"] # 0 => \E g \in M3s' : g.mic \in installs["sta"] /\ g.igtk = igtk'["sta"]
              /\ \A v \in verified["sta"] : \E g \in M3s' : g.mic \in installs["sta"] /\ g.igtk = v[1]
            BY <2>3, <2>5 DEF GroupInd, IpnAhead, IgtkOfM3
        <3> QED
            BY <1>1, <3>1, <3>2, <3>3, <3>4 DEF IpnAhead, IgtkOfM3, Node
    <2> QED
        BY <2>10, <2>11, <2>12, <2>13, <2>14, <2>15 DEF GroupInd
<1> QED
    BY <1>2, <1>3 DEF ApRxM2, Send

\* An M4 the AP accepts answers the M3 of its current ANonce, whose keys it holds.
LEMMA M4OfLastM3 ==
    ASSUME TypeOK, HandshakeInv, GroupInd, NEW f \in air, ApRxM4(f)
    PROVE  \E g \in M3s : g.mic = ptk["ap"] /\ g.replay = replay["ap"] /\ ApCarries(g)
<1> USE NodeNames
<1>1. f \in M4s /\ f.mic = ptk["ap"] /\ f.replay = replay["ap"] /\ state["ap"] = "4WAY"
    BY DEF ApRxM4, M4Valid, M4s
<1>2. PICK g \in M3s : g.mic = ptk["ap"] /\ g.replay = replay["ap"]
    BY <1>1 DEF HandshakeInv, M4Answers
<1>3. ~(replay["ap"] < replay["ap"])
    BY DEF TypeOK
<1>4. g.mic.anonce = anonce["ap"]
    BY <1>2, <1>3 DEF HandshakeInv, M3Order
<1> QED
    BY <1>1, <1>2, <1>4 DEF GroupInd, ApGroup

\* Accepting M4 keeps it.
LEMMA GroupM4 ==
    ASSUME TypeOK, HandshakeInv, GroupInd, NEW f \in air, ApRxM4(f)
    PROVE  GroupInd'
<1> USE NodeNames
<1>1. PICK g \in M3s : g.mic = ptk["ap"] /\ ApCarries(g)
    BY M4OfLastM3
<1>2. /\ state'["ap"] = "CONNECTED" /\ state'["sta"] = state["sta"]
      /\ installedTk'["ap"] = ptk["ap"] /\ installedTk'["sta"] = installedTk["sta"]
      /\ installs'["sta"] = installs["sta"]
    BY DEF ApRxM4, InstallDataKey, TypeOK
<1>3. UNCHANGED <<mfpActive, replay, anonce, earlyM1, gtk, igtk, ipnRx, verified, air, fresh>>
    BY DEF ApRxM4, eapolVars, groupVars
<1>4. M1s' = M1s /\ M2s' = M2s /\ M3s' = M3s
    BY <1>3 DEF M1s, M2s, M3s
<1>5. M1Known' /\ M1Passed' /\ M3Unique'
    BY <1>3, <1>4 DEF GroupInd, M1Known, M1Passed, M3Unique
<1>6. ApGroup'
    BY <1>1, <1>2, <1>3, <1>4 DEF ApGroup, ApCarries
<1>7. StaGroup' /\ IpnAhead'
    BY <1>2, <1>3, <1>4 DEF GroupInd, StaGroup, IpnAhead, IgtkOfM3
<1> QED
    BY <1>5, <1>6, <1>7 DEF GroupInd

\* Accepting a protected Deauth keeps it: ipn_rx moves up to what was accepted.
LEMMA GroupDeauth ==
    ASSUME TypeOK, GroupInd, NEW n \in Node, NEW f \in air, RxProtectedDeauth(n, f)
    PROVE  GroupInd'
<1> USE NodeNames
<1> DEFINE w == <<igtk[n], f.ipn>>
<1>1. w[1] = igtk[n] /\ w[2] = f.ipn /\ f.ipn \in Nat
    BY FrameRead DEF RxProtectedDeauth, TypeOK
<1>2. /\ igtk[n] # 0 /\ f.ipn > ipnRx[n] /\ ipnRx[n] \in Nat
      /\ ipnRx'[n] = f.ipn
      /\ verified'[n] = verified[n] \cup {w}
      /\ \A x \in Node \ {n} : ipnRx'[x] = ipnRx[x] /\ verified'[x] = verified[x]
    BY DEF RxProtectedDeauth, GroupVerify, TypeOK
<1> HIDE DEF w
<1>3. UNCHANGED <<mfpActive, replay, anonce, earlyM1, gtk, igtk, installedTk, installs, air, fresh>>
    BY DEF RxProtectedDeauth, eapolVars, dataVars
<1>4. \A x \in Node : state'[x] \in {state[x], "INIT"}
    BY DEF RxProtectedDeauth, Honour, TypeOK
<1>5. M1s' = M1s /\ M2s' = M2s /\ M3s' = M3s
    BY <1>3 DEF M1s, M2s, M3s
<1>6. M1Known' /\ M1Passed' /\ M3Unique'
    BY <1>3, <1>5 DEF GroupInd, M1Known, M1Passed, M3Unique
<1>7. /\ state'["ap"] = state["ap"] \/ state'["ap"] = "INIT"
      /\ state'["sta"] = state["sta"] \/ state'["sta"] = "INIT"
    BY <1>4
<1>8. ApGroup'
    BY <1>3, <1>5, <1>7 DEF GroupInd, ApGroup, ApCarries
<1>9. StaGroup'
    BY <1>3, <1>5, <1>7 DEF GroupInd, StaGroup
<1>10. IpnAhead'
    <2>1. ASSUME NEW x \in Node, NEW v \in verified'[x]
          PROVE  v[1] # 0 /\ (v[1] = igtk[x] => v[2] <= ipnRx'[x])
        <3>1. CASE v \in verified[x]
            <4>1. v[1] # 0 /\ (v[1] = igtk[x] => v[2] <= ipnRx[x]) /\ v[2] \in Nat
                BY <3>1 DEF GroupInd, IpnAhead, TypeOK
            <4> QED
                BY <1>1, <1>2, <4>1
        <3>2. CASE x = n /\ v = w
            BY <1>1, <1>2, <3>2
        <3> QED
            BY <1>2, <3>1, <3>2
    <2>2. \A v \in verified'["ap"] : v[1] <= fresh
        BY <1>1, <1>2 DEF GroupInd, IpnAhead
    <2>3. \A v \in verified'["sta"] : \E g \in M3s : g.mic \in installs["sta"] /\ g.igtk = v[1]
        BY <1>1, <1>2 DEF GroupInd, IpnAhead, IgtkOfM3
    <2> QED
        BY <1>3, <1>5, <2>1, <2>2, <2>3 DEF GroupInd, IpnAhead, IgtkOfM3
<1> QED
    BY <1>6, <1>8, <1>9, <1>10 DEF GroupInd

\* Every handler keeps it.
LEMMA GroupStep == SmeInv /\ GroupInd /\ [Next]_vars => GroupInd'
<1> SUFFICES ASSUME SmeInv, GroupInd, [Next]_vars PROVE GroupInd'
    OBVIOUS
<1>0. TypeOK /\ HandshakeInv
    BY DEF SmeInv
<1> USE <1>0, NodeNames
\* The steps that send nothing the handshake reads.
<1> DEFINE Dull(f) ==
            /\ UNCHANGED <<fresh, anonce, replay, installedTk, gtk, igtk, installs, ipnRx, verified>>
            /\ UNCHANGED earlyM1
            /\ air' = air \cup {f} /\ f.type \notin {"M1", "M2", "M3"}
            /\ state'["sta"] = "CONNECTED" =>
                    state["sta"] = "CONNECTED" /\ mfpActive'["sta"] = mfpActive["sta"]
            /\ state'["ap"] \in {"4WAY", "CONNECTED"} =>
                    state'["ap"] = state["ap"] /\ mfpActive'["ap"] = mfpActive["ap"]
<1>q. ASSUME NEW f, Dull(f) PROVE GroupInd'
    <2>1. M1s' = M1s /\ M2s' = M2s /\ M3s' = M3s
        BY <1>q, SentWhere
    <2>2. /\ \A g \in M2s' : M1(g.replay, g.mic.anonce) \in M1s
          /\ earlyM1' = NoM1 \/ earlyM1' \in M1s
        BY <1>q, <2>1 DEF GroupInd, M1Known
    <2>3. fresh' \in Nat /\ fresh <= fresh'
        BY <1>q DEF TypeOK
    <2> QED
        BY <1>q, <2>1, <2>2, <2>3, GroupQuiet
\* The steps that leave the air alone and take an end down, if anything.
<1> DEFINE Down ==
            /\ UNCHANGED <<fresh, anonce, replay, installedTk, gtk, igtk, installs, ipnRx, verified>>
            /\ UNCHANGED <<mfpActive, earlyM1, air>>
            /\ \A n \in Node : state'[n] \in {state[n], "INIT", "FAILED"}
<1>d. ASSUME Down PROVE GroupInd'
    <2>1. M1s' = M1s /\ M2s' = M2s /\ M3s' = M3s
        BY <1>d DEF M1s, M2s, M3s
    <2>2. /\ \A g \in M2s' : M1(g.replay, g.mic.anonce) \in M1s
          /\ earlyM1' = NoM1 \/ earlyM1' \in M1s
        BY <1>d, <2>1 DEF GroupInd, M1Known
    <2>3. fresh' \in Nat /\ fresh <= fresh'
        BY <1>d DEF TypeOK
    <2>4. state'["sta"] \in {state["sta"], "INIT", "FAILED"} /\ state'["ap"] \in {state["ap"], "INIT", "FAILED"}
        BY <1>d
    <2> QED
        BY <1>d, <2>1, <2>2, <2>3, <2>4, GroupQuiet
<1>1. ASSUME NEW n \in Node, NEW p \in Pmks, NEW m \in PmfModes, SmeInit(n, p, m)
      PROVE  GroupInd'
    BY <1>1, GroupWipe
<1>2. CASE ConnectStart
    <2>1. state'["sta"] = "SCANNING" /\ state'["ap"] = state["ap"]
        BY <1>2 DEF ConnectStart, TypeOK
    <2>2. Dull(Bare("PROBE_REQ"))
        BY <1>2, <2>1 DEF ConnectStart, Send, Bare, eapolVars, groupVars, dataVars
    <2> QED
        BY <2>2, <1>q
<1>3. ASSUME NEW rsne \in BOOLEAN, StaRxProbeResp(rsne)
      PROVE  GroupInd'
    <2>1. mfpActive'["ap"] = mfpActive["ap"] /\ state["sta"] = "SCANNING" /\ state' = state
        BY <1>3 DEF StaRxProbeResp, Negotiate, TypeOK
    <2>2. Dull(Bare("AUTH_REQ"))
        BY <1>3, <2>1 DEF StaRxProbeResp, Send, Bare, eapolVars, groupVars, dataVars
    <2> QED
        BY <2>2, <1>q
<1>4. CASE StaRxAuthResp
    <2>1. state'["sta"] = "AUTHED" /\ state'["ap"] = state["ap"]
        BY <1>4 DEF StaRxAuthResp, TypeOK
    <2>2. Dull(AssocReq(pmfMode["sta"]))
        BY <1>4, <2>1 DEF StaRxAuthResp, Send, AssocReq, eapolVars, groupVars, dataVars
    <2> QED
        BY <2>2, <1>q
<1>5. CASE ApRxProbeReq
    <2>1. Dull(Bare("PROBE_RESP"))
        BY <1>5 DEF ApRxProbeReq, Send, Bare, ladderVars, eapolVars, groupVars, dataVars
    <2> QED
        BY <2>1, <1>q
<1>6. CASE ApRxAuthReq
    <2>1. state'["ap"] = "AUTHED" /\ state'["sta"] = state["sta"]
        BY <1>6 DEF ApRxAuthReq, TypeOK
    <2>2. Dull(Bare("AUTH_RESP"))
        BY <1>6, <2>1 DEF ApRxAuthReq, Send, Bare, eapolVars, groupVars, dataVars
    <2> QED
        BY <2>2, <1>q
<1>7. ASSUME NEW f \in air, StaRxAssocResp(f)
      PROVE  GroupInd'
    <2>1. mfpActive'["ap"] = mfpActive["ap"]
        BY <1>7 DEF StaRxAssocResp, Negotiate, TypeOK
    <2>2. UNCHANGED <<groupVars, dataVars>>
        BY <1>7 DEF StaRxAssocResp
    <2>3. CASE earlyM1 # NoM1 /\ earlyM1' = NoM1 /\ StaOnM1(earlyM1.replay, earlyM1.nonce, TRUE)
        <3>1. earlyM1 \in M1s
            BY <2>3 DEF GroupInd, M1Known
        <3> QED
            BY <2>1, <2>2, <2>3, <3>1, GroupOnM1
    <2>4. CASE /\ UNCHANGED <<eapolVars, air, fresh>>
               /\ \E v \in {"FAILED", "ASSOCED"} : state' = [state EXCEPT !["sta"] = v]
        <3>1. state'["sta"] \in {"FAILED", "ASSOCED"} /\ state'["ap"] = state["ap"]
            BY <2>4 DEF TypeOK
        <3>2. M1s' = M1s /\ M2s' = M2s /\ M3s' = M3s
            BY <2>4 DEF M1s, M2s, M3s
        <3>3. /\ \A g \in M2s' : M1(g.replay, g.mic.anonce) \in M1s
              /\ earlyM1' = NoM1 \/ earlyM1' \in M1s
            BY <2>4, <3>2 DEF GroupInd, M1Known, eapolVars
        <3>4. fresh' \in Nat /\ fresh <= fresh'
            BY <2>4 DEF TypeOK
        <3> QED
            BY <2>1, <2>2, <2>4, <3>1, <3>2, <3>3, <3>4, GroupQuiet DEF eapolVars, groupVars, dataVars
    <2> QED
        BY <1>7, <2>3, <2>4 DEF StaRxAssocResp
<1>8. ASSUME NEW f \in air, StaRxM1(f)
      PROVE  GroupInd'
    <2>1. f \in M1s /\ UNCHANGED <<mfpActive, groupVars, dataVars>>
        BY <1>8 DEF StaRxM1, M1s
    <2>2. CASE StaOnM1(f.replay, f.nonce, state["sta"] = "ASSOCED") /\ earlyM1' = earlyM1
        BY <2>1, <2>2, GroupOnM1
    <2>3. CASE earlyM1' = f /\ UNCHANGED <<state, replay, anonce, snonce, ptk, air, fresh>>
        <3>1. M1s' = M1s /\ M2s' = M2s /\ M3s' = M3s
            BY <2>3 DEF M1s, M2s, M3s
        <3>2. \A g \in M2s' : M1(g.replay, g.mic.anonce) \in M1s
            BY <3>1 DEF GroupInd, M1Known
        <3>3. fresh' \in Nat /\ fresh <= fresh'
            BY <2>3 DEF TypeOK
        <3> QED
            BY <2>1, <2>3, <3>1, <3>2, <3>3, GroupQuiet DEF groupVars, dataVars
    <2> QED
        BY <1>8, <2>2, <2>3 DEF StaRxM1
<1>9. ASSUME NEW f \in air, StaRxM3(f)
      PROVE  GroupInd'
    BY <1>9, GroupM3
<1>10. ASSUME NEW f \in air, ApRxAssocReq(f)
       PROVE  GroupInd'
    BY <1>10, GroupAssocReq
<1>11. ASSUME NEW f \in air, ApRxM2(f)
       PROVE  GroupInd'
    BY <1>11, GroupM2
<1>12. ASSUME NEW f \in air, ApRxM4(f)
       PROVE  GroupInd'
    BY <1>12, GroupM4
<1>13. ASSUME NEW n \in Node, NEW t \in Tids, DataTx(n, t)
       PROVE  GroupInd'
    <2>1. Dull(Data(n, ptk[n], t, dataTxPn[n] + 1))
        BY <1>13 DEF DataTx, Send, Data, ladderVars, eapolVars, groupVars
    <2> QED
        BY <2>1, <1>q
<1>14. ASSUME NEW n \in Node, NEW f \in air, RxData(n, f)
       PROVE  GroupInd'
    <2>1. Down
        BY <1>14 DEF RxData, ladderVars, eapolVars, groupVars
    <2> QED
        BY <2>1, <1>d
<1>15. ASSUME NEW n \in Node, TxProtectedDeauth(n)
       PROVE  GroupInd'
    <2>1. Dull(ProtDeauth(n, igtk[n], ipnTx[n] + 1))
        BY <1>15 DEF TxProtectedDeauth, Send, ProtDeauth, ladderVars, eapolVars, dataVars
    <2> QED
        BY <2>1, <1>q
<1>16. ASSUME NEW n \in Node, NEW f \in air, RxProtectedDeauth(n, f)
       PROVE  GroupInd'
    BY <1>16, GroupDeauth
<1>17. ASSUME NEW n \in Node, RxStrayDeauth(n)
       PROVE  GroupInd'
    <2>1. \A x \in Node : state'[x] \in {state[x], "INIT", "FAILED"}
        BY <1>17 DEF RxStrayDeauth, Honour, TypeOK
    <2>2. Down
        BY <1>17, <2>1 DEF RxStrayDeauth, eapolVars, groupVars, dataVars
    <2> QED
        BY <2>2, <1>d
<1>18. ASSUME NEW n \in Node, RxRefusal(n)
       PROVE  GroupInd'
    <2>1. \A x \in Node : state'[x] \in {state[x], "INIT", "FAILED"}
        BY <1>18 DEF RxRefusal, TypeOK
    <2>2. Down
        BY <1>18, <2>1 DEF RxRefusal, eapolVars, groupVars, dataVars
    <2> QED
        BY <2>2, <1>d
<1>19. CASE UNCHANGED vars
    <2>1. Down
        BY <1>19 DEF vars
    <2> QED
        BY <2>1, <1>d
<1> HIDE DEF Dull, Down
<1> QED
    BY <1>1, <1>2, <1>3, <1>4, <1>5, <1>6, <1>7, <1>8, <1>9, <1>10, <1>11, <1>12,
       <1>13, <1>14, <1>15, <1>16, <1>17, <1>18, <1>19 DEF Next

\* The ends hold the group keys of the one M3 of their handshake, at every step.
THEOREM GroupInvariant == Spec => []GroupInd
BY GroupInit, GroupStep, SmeInvariant, PTL DEF Spec

\* An AP that goes up on an M4 has sent the M3 it answers and still holds the group
\* keys of that M3 (rf_2a4m1_ap_on_m4), however often M2 and M4 are repeated.
THEOREM M4ConfirmsLastM3 == Spec => M4ConfirmsM3
<1> DEFINE Sent == M3(replay["ap"], ptk["ap"], gtk["ap"],
                      IF mfpActive["ap"] THEN igtk["ap"] ELSE 0) \in air
           Confirm == state["ap"] = "4WAY" /\ state'["ap"] = "CONNECTED" => Sent
<1>1. SmeInv /\ GroupInd /\ [Next]_vars => [Confirm]_vars
    <2> SUFFICES ASSUME SmeInv, GroupInd, Next,
                        state["ap"] = "4WAY", state'["ap"] = "CONNECTED"
                 PROVE  Sent
        OBVIOUS
    <2>0. TypeOK /\ HandshakeInv
        BY DEF SmeInv
    <2> USE <2>0, NodeNames
    <2>1. \E f \in air : ApRxM4(f)
        <3>1. ASSUME NEW n \in Node, NEW p \in Pmks, NEW m \in PmfModes, SmeInit(n, p, m) PROVE FALSE
            BY <3>1 DEF SmeInit, TypeOK
        <3>2. ~ConnectStart /\ ~StaRxAuthResp /\ ~ApRxProbeReq /\ ~ApRxAuthReq
            BY DEF ConnectStart, StaRxAuthResp, ApRxProbeReq, ApRxAuthReq, ladderVars, TypeOK
        <3>3. ASSUME NEW rsne \in BOOLEAN, StaRxProbeResp(rsne) PROVE FALSE
            BY <3>3 DEF StaRxProbeResp, TypeOK
        <3>4. ASSUME NEW f \in air, StaRxAssocResp(f) \/ StaRxM1(f) \/ StaRxM3(f) PROVE FALSE
            BY <3>4 DEF StaRxAssocResp, StaRxM1, StaRxM3, StaOnM1, TypeOK
        <3>5. ASSUME NEW f \in air, ApRxAssocReq(f) \/ ApRxM2(f) PROVE FALSE
            BY <3>5 DEF ApRxAssocReq, ApRxM2, ladderVars, TypeOK
        <3>6. ASSUME NEW n \in Node, NEW t \in Tids, DataTx(n, t) PROVE FALSE
            BY <3>6 DEF DataTx, ladderVars
        <3>7. ASSUME NEW n \in Node, NEW f \in air, RxData(n, f) \/ RxProtectedDeauth(n, f) PROVE FALSE
            BY <3>7 DEF RxData, RxProtectedDeauth, Honour, ladderVars, TypeOK
        <3>8. ASSUME NEW n \in Node, TxProtectedDeauth(n) \/ RxStrayDeauth(n) \/ RxRefusal(n) PROVE FALSE
            BY <3>8 DEF TxProtectedDeauth, RxStrayDeauth, RxRefusal, Honour, ladderVars, TypeOK
        <3> QED
            BY <3>1, <3>2, <3>3, <3>4, <3>5, <3>6, <3>7, <3>8 DEF Next
    <2>2. PICK g \in M3s : g.mic = ptk["ap"] /\ g.replay = replay["ap"] /\ ApCarries(g)
        BY <2>1, M4OfLastM3
    <2>3. g = M3(g.replay, g.mic, g.gtk, g.igtk) /\ g \in air
        BY FrameIs DEF M3s
    <2>4. g.igtk = IF mfpActive["ap"] THEN igtk["ap"] ELSE 0
        BY <2>2 DEF ApCarries
    <2> QED
        BY <2>2, <2>3, <2>4 DEF ApCarries
<1> QED
    BY <1>1, SmeInvariant, GroupInvariant, PTL DEF Spec, M4ConfirmsM3

\* With MFP on, an end goes back to INIT only for a protected Deauth or Disassoc that
\* it has not accepted before: the IPN check of rf_2a4m1_pmf_bip_verify never sees an
\* IGTK a second time.
THEOREM TeardownIsProtected == Spec => ProtectedTeardown
<1> DEFINE Torn(n) == mfpActive[n] /\ state[n] # "INIT" /\ state'[n] = "INIT" /\ inits' = inits
           Teardown == \A n \in Node : Torn(n) => verified'[n] # verified[n]
<1>1. SmeInv /\ GroupInd /\ [Next]_vars => [Teardown]_vars
    <2> SUFFICES ASSUME SmeInv, GroupInd, Next, NEW n \in Node, Torn(n)
                 PROVE  verified'[n] # verified[n]
        OBVIOUS
    <2>0. TypeOK
        BY DEF SmeInv
    <2> USE <2>0, NodeNames
    <2>1. \E f \in air : RxProtectedDeauth(n, f)
        <3>1. ASSUME NEW x \in Node, NEW p \in Pmks, NEW m \in PmfModes, SmeInit(x, p, m) PROVE FALSE
            BY <3>1 DEF SmeInit, TypeOK
        <3>2. ~ConnectStart /\ ~StaRxAuthResp /\ ~ApRxProbeReq /\ ~ApRxAuthReq
            BY DEF ConnectStart, StaRxAuthResp, ApRxProbeReq, ApRxAuthReq, ladderVars, TypeOK
        <3>3. ASSUME NEW rsne \in BOOLEAN, StaRxProbeResp(rsne) PROVE FALSE
            BY <3>3 DEF StaRxProbeResp, TypeOK
        <3>4. ASSUME NEW f \in air, StaRxAssocResp(f) \/ StaRxM1(f) \/ StaRxM3(f) PROVE FALSE
            BY <3>4 DEF StaRxAssocResp, StaRxM1, StaRxM3, StaOnM1, TypeOK
        <3>5. ASSUME NEW f \in air, ApRxAssocReq(f) \/ ApRxM2(f) \/ ApRxM4(f) PROVE FALSE
            BY <3>5 DEF ApRxAssocReq, ApRxM2, ApRxM4, ladderVars, TypeOK
        <3>6. ASSUME NEW x \in Node, NEW t \in Tids, DataTx(x, t) PROVE FALSE
            BY <3>6 DEF DataTx, ladderVars
        <3>7. ASSUME NEW x \in Node, NEW f \in air, RxData(x, f) PROVE FALSE
            BY <3>7 DEF RxData, ladderVars
        <3>8. ASSUME NEW x \in Node, TxProtectedDeauth(x) \/ RxStrayDeauth(x) \/ RxRefusal(x) PROVE FALSE
            BY <3>8 DEF TxProtectedDeauth, RxStrayDeauth, RxRefusal, Honour, ladderVars, TypeOK
        <3>9. ASSUME NEW x \in Node, NEW f \in air, RxProtectedDeauth(x, f) PROVE x = n
            BY <3>9 DEF RxProtectedDeauth, Honour, TypeOK
        <3> QED
            BY <3>1, <3>2, <3>3, <3>4, <3>5, <3>6, <3>7, <3>8, <3>9 DEF Next
    <2>2. PICK f \in air : RxProtectedDeauth(n, f)
        BY <2>1
    <2> DEFINE w == <<igtk[n], f.ipn>>
    <2>3. w[1] = igtk[n] /\ w[2] = f.ipn /\ f.ipn \in Nat /\ ipnRx[n] \in Nat /\ f.ipn > ipnRx[n]
        BY <2>2, FrameRead DEF RxProtectedDeauth, GroupVerify, TypeOK
    <2>4. verified'[n] = verified[n] \cup {w}
        BY <2>2 DEF RxProtectedDeauth, TypeOK
    <2> HIDE DEF w
    <2>5. w \notin verified[n]
        BY <2>3 DEF GroupInd, IpnAhead
    <2> QED
        BY <2>4, <2>5
<1> QED
    BY <1>1, SmeInvariant, GroupInvariant, PTL DEF Spec, ProtectedTeardown

-----------------------------------------------------------------------------
(* PMF.                                                                    *)

Joined == {"ASSOCED", "4WAY", "CONNECTED"}

\* The modes in use and on the air are those the ends are configured with.
ModesKnown ==
    /\ pmfMode["sta"] \in StaPmfModes /\ pmfMode["ap"] \in ApPmfModes
    /\ \A f \in air : f.type = "ASSOC_REQ" => f.mode \in StaPmfModes
    /\ \A f \in air : f.type = "ASSOC_RESP" => f.mode \in ApPmfModes

RequiredInd ==
    /\ ModesKnown
    /\ \A n \in Node : pmfMode[n] = "REQUIRED" /\ state[n] \in Joined => mfpActive[n]

\* What the negotiation of two fixed modes comes to.
Agreed(s, a) == Capable(s) /\ Capable(a) /\ ~MfpViolation(s, a)

AgreedInd ==
    /\ ModesKnown
    /\ \A n \in Node : \A s \in StaPmfModes, a \in ApPmfModes :
        /\ mfpActive[n] => Agreed(s, a)
        /\ state[n] \in Joined => (mfpActive[n] <=> Agreed(s, a))

\* The negotiation comes out the same whichever end runs it.
LEMMA AgreedSymmetric == \A s, a : Agreed(s, a) <=> Agreed(a, s)
BY DEF Agreed, MfpViolation

\* Node n takes the policy q of its peer: without an RSNE nothing changes, with one
\* the association goes on only if neither policy is violated.
Settles(n, q) ==
    \/ /\ n = "sta" /\ q = "DISABLED"
       /\ mfpActive'[n] <=> mfpActive[n]
    \/ /\ n = "ap" \/ q # "DISABLED"
       /\ ~MfpViolation(pmfMode[n], q)
       /\ mfpActive'[n] <=> Agreed(pmfMode[n], q)

\* What a step may do to the PMF state of n: MFP comes on by an agreement only, and an
\* end that is associated after the step was so before, or has just settled the policy.
PmfMove(n) ==
    /\ mfpActive'[n] => \/ mfpActive[n]
                        \/ \E q \in ModesOf(Peer(n)) : Agreed(pmfMode[n], q)
    /\ state'[n] \in Joined =>
        /\ pmfMode'[n] = pmfMode[n]
        /\ \/ state[n] \in Joined /\ (mfpActive'[n] <=> mfpActive[n])
           \/ \E q \in ModesOf(Peer(n)) : Settles(n, q)

\* rf_2a4m1_pmf_negotiate over the RSNE of a (Re)Assoc-Req or -Resp is such a move.
LEMMA NegotiateSettles ==
    ASSUME TypeOK, NEW n \in Node, NEW f, Negotiate(n, f),
           f.type = IF n = "sta" THEN "ASSOC_RESP" ELSE "ASSOC_REQ"
    PROVE  /\ \A x \in Node \ {n} : mfpActive'[x] = mfpActive[x]
           /\ mfpActive'[n] => mfpActive[n] \/ Agreed(pmfMode[n], f.mode)
           /\ ~NegotiationFails(n, f) => Settles(n, f.mode)
<1> DEFINE b == /\ Capable(pmfMode[n])
                /\ Capable(f.mode)
                /\ ~MfpViolation(pmfMode[n], f.mode)
<1>1. b <=> Agreed(pmfMode[n], f.mode)
    BY DEF Agreed
<1>2. mfpActive' = IF HasRsne(f) THEN [mfpActive EXCEPT ![n] = b] ELSE mfpActive
    BY DEF Negotiate
<1> HIDE DEF b
<1>3. /\ HasRsne(f) => mfpActive'[n] = b
      /\ ~HasRsne(f) => mfpActive' = mfpActive
      /\ \A x \in Node \ {n} : mfpActive'[x] = mfpActive[x]
    BY <1>2 DEF TypeOK
<1>4. HasRsne(f) <=> (n = "ap" \/ f.mode # "DISABLED")
    BY DEF HasRsne, Node
<1>5. CASE HasRsne(f)
    BY <1>1, <1>3, <1>4, <1>5 DEF Settles, NegotiationFails
<1>6. CASE ~HasRsne(f)
    BY <1>3, <1>4, <1>6, NodeNames DEF Settles, Node
<1> QED
    BY <1>3, <1>5, <1>6

\* Every handler makes only such moves, and sends only configured modes.
LEMMA PmfStep ==
    ASSUME TypeOK, ModesKnown, [Next]_vars
    PROVE  ModesKnown' /\ \A n \in Node : PmfMove(n)
<1> USE NodeNames
<1> DEFINE Quiet == /\ UNCHANGED <<pmfMode, mfpActive>>
                    /\ \A n \in Node : state'[n] \in Joined => state[n] \in Joined
           Kept == \A f \in air' \ air : f.type \notin {"ASSOC_REQ", "ASSOC_RESP"}
<1>q. ASSUME Quiet PROVE \A n \in Node : PmfMove(n)
    BY <1>q DEF PmfMove
<1>k. ASSUME Kept, pmfMode' = pmfMode PROVE ModesKnown'
    BY <1>k DEF ModesKnown
<1>1. ASSUME NEW n \in Node, NEW p \in Pmks, NEW m \in PmfModes, SmeInit(n, p, m)
      PROVE  ModesKnown' /\ \A x \in Node : PmfMove(x)
    <2>1. /\ state'[n] = "INIT" /\ ~mfpActive'[n] /\ pmfMode'[n] = m /\ m \in ModesOf(n)
          /\ \A x \in Node \ {n} : /\ state'[x] = state[x] /\ pmfMode'[x] = pmfMode[x]
                                   /\ mfpActive'[x] = mfpActive[x]
          /\ air' = air
        BY <1>1 DEF SmeInit, TypeOK
    <2>2. ModesKnown'
        BY <2>1 DEF ModesKnown, ModesOf
    <2>3. \A x \in Node : PmfMove(x)
        BY <2>1 DEF PmfMove, Joined
    <2> QED
        BY <2>2, <2>3
<1>2. CASE ConnectStart
    <2>1. state'["sta"] = "SCANNING" /\ state'["ap"] = state["ap"]
        BY <1>2 DEF ConnectStart, TypeOK
    <2>2. Quiet
        BY <1>2, <2>1 DEF ConnectStart, Joined, Node
    <2>3. Kept /\ pmfMode' = pmfMode
        BY <1>2 DEF ConnectStart, Send, Bare
    <2> QED
        BY <2>2, <2>3, <1>q, <1>k
<1>3. ASSUME NEW rsne \in BOOLEAN, StaRxProbeResp(rsne)
      PROVE  ModesKnown' /\ \A n \in Node : PmfMove(n)
    <2>1. Kept /\ pmfMode' = pmfMode
        BY <1>3 DEF StaRxProbeResp, Send, Bare
    <2>2. state' = state /\ state["sta"] = "SCANNING"
        BY <1>3 DEF StaRxProbeResp
    <2>3. CASE mfpActive' = mfpActive
        <3>1. Quiet
            BY <2>1, <2>2, <2>3
        <3> QED
            BY <2>1, <3>1, <1>q, <1>k
    <2>4. CASE Negotiate("sta", AssocResp(pmfMode["ap"]))
        <3> DEFINE a == AssocResp(pmfMode["ap"])
        <3>1. a.type = "ASSOC_RESP" /\ a.mode = pmfMode["ap"] /\ Negotiate("sta", a)
            BY <2>4 DEF AssocResp
        <3> HIDE DEF a
        <3>2. /\ mfpActive'["ap"] = mfpActive["ap"]
              /\ mfpActive'["sta"] => mfpActive["sta"] \/ Agreed(pmfMode["sta"], pmfMode["ap"])
            BY <3>1, NegotiateSettles
        <3>3. pmfMode["ap"] \in ModesOf(Peer("sta"))
            BY DEF ModesKnown, ModesOf, Peer
        <3>4. PmfMove("sta")
            BY <2>2, <3>2, <3>3 DEF PmfMove, Joined
        <3>5. PmfMove("ap")
            BY <2>1, <2>2, <3>2 DEF PmfMove
        <3> QED
            BY <2>1, <3>4, <3>5, <1>k DEF Node
    <2> QED
        BY <1>3, <2>3, <2>4 DEF StaRxProbeResp
<1>4. CASE StaRxAuthResp
    <2>1. state'["sta"] = "AUTHED" /\ state'["ap"] = state["ap"]
        BY <1>4 DEF StaRxAuthResp, TypeOK
    <2>2. Quiet
        BY <1>4, <2>1 DEF StaRxAuthResp, Joined, Node
    <2> DEFINE a == AssocReq(pmfMode["sta"])
    <2>3. a.type = "ASSOC_REQ" /\ a.mode = pmfMode["sta"]
        BY DEF AssocReq
    <2>4. air' = air \cup {a} /\ pmfMode' = pmfMode
        BY <1>4 DEF StaRxAuthResp, Send
    <2> HIDE DEF a
    <2>5. ModesKnown'
        BY <2>3, <2>4 DEF ModesKnown
    <2> QED
        BY <2>2, <2>5, <1>q
<1>5. CASE ApRxProbeReq
    <2>1. Quiet /\ Kept
        BY <1>5 DEF ApRxProbeReq, ladderVars, Send, Bare
    <2> QED
        BY <2>1, <1>q, <1>k
<1>6. CASE ApRxAuthReq
    <2>1. state'["ap"] = "AUTHED" /\ state'["sta"] = state["sta"]
        BY <1>6 DEF ApRxAuthReq, TypeOK
    <2>2. Quiet
        BY <1>6, <2>1 DEF ApRxAuthReq, Joined, Node
    <2>3. Kept
        BY <1>6 DEF ApRxAuthReq, Send, Bare
    <2> QED
        BY <2>2, <2>3, <1>q, <1>k
<1>7. ASSUME NEW f \in air, StaRxAssocResp(f)
      PROVE  ModesKnown' /\ \A n \in Node : PmfMove(n)
    <2>1. Kept /\ pmfMode' = pmfMode
        <3>1. air' = air \/ StaOnM1(earlyM1.replay, earlyM1.nonce, TRUE)
            BY <1>7 DEF StaRxAssocResp
        <3>2. air' = air \/ \E r, n, k : air' = air \cup {M2(r, n, k)}
            BY <3>1 DEF StaOnM1, Send
        <3> QED
            BY <1>7, <3>2 DEF StaRxAssocResp, M2
    <2>2. f.mode \in ModesOf(Peer("sta")) /\ f.type = "ASSOC_RESP"
        BY <1>7 DEF StaRxAssocResp, ModesKnown, ModesOf, Peer
    <2>3. /\ mfpActive'["ap"] = mfpActive["ap"]
          /\ mfpActive'["sta"] => mfpActive["sta"] \/ Agreed(pmfMode["sta"], f.mode)
          /\ ~NegotiationFails("sta", f) => Settles("sta", f.mode)
        BY <1>7, <2>2, NegotiateSettles DEF StaRxAssocResp
    <2>4. /\ state'["ap"] = state["ap"]
          /\ NegotiationFails("sta", f) => state'["sta"] = "FAILED"
        BY <1>7 DEF StaRxAssocResp, StaOnM1, TypeOK
    <2>5. PmfMove("ap")
        BY <2>1, <2>3, <2>4 DEF PmfMove
    <2>6. PmfMove("sta")
        BY <2>1, <2>2, <2>3, <2>4 DEF PmfMove, Joined
    <2> QED
        BY <2>1, <2>5, <2>6, <1>k DEF Node
<1>8. ASSUME NEW f \in air, StaRxM1(f)
      PROVE  ModesKnown' /\ \A n \in Node : PmfMove(n)
    <2>1. Kept /\ pmfMode' = pmfMode /\ mfpActive' = mfpActive
        BY <1>8 DEF StaRxM1, StaOnM1, Send, M2
    <2>2. /\ state'["ap"] = state["ap"]
          /\ state'["sta"] = state["sta"] \/ state["sta"] \in {"ASSOCED", "4WAY"}
        BY <1>8 DEF StaRxM1, StaOnM1, TypeOK
    <2>3. Quiet
        BY <2>1, <2>2 DEF Joined, Node
    <2> QED
        BY <2>1, <2>3, <1>q, <1>k
<1>9. ASSUME NEW f \in air, StaRxM3(f)
      PROVE  ModesKnown' /\ \A n \in Node : PmfMove(n)
    <2>1. Kept /\ pmfMode' = pmfMode /\ mfpActive' = mfpActive
        BY <1>9 DEF StaRxM3, Send, M4
    <2>2. state'["ap"] = state["ap"] /\ state["sta"] = "4WAY"
        BY <1>9 DEF StaRxM3, M3Valid, TypeOK
    <2>3. Quiet
        BY <2>1, <2>2 DEF Joined, Node
    <2> QED
        BY <2>1, <2>3, <1>q, <1>k
<1>10. ASSUME NEW f \in air, ApRxAssocReq(f)
       PROVE  ModesKnown' /\ \A n \in Node : PmfMove(n)
    <2>1. f.mode \in ModesOf(Peer("ap")) /\ f.type = "ASSOC_REQ" /\ pmfMode' = pmfMode
        BY <1>10 DEF ApRxAssocReq, ModesKnown, ModesOf, Peer
    <2>2. ModesKnown'
        <3> DEFINE a == AssocResp(pmfMode["ap"])
                   m == M1(replay["ap"] + 1, fresh + 1)
        <3>1. a.type = "ASSOC_RESP" /\ a.mode = pmfMode["ap"] /\ m.type = "M1"
            BY DEF AssocResp, M1
        <3>2. air' \subseteq air \cup {a, m}
            BY <1>10 DEF ApRxAssocReq
        <3> HIDE DEF a, m
        <3> QED
            BY <2>1, <3>1, <3>2 DEF ModesKnown
    <2>3. /\ mfpActive'["sta"] = mfpActive["sta"]
          /\ mfpActive'["ap"] => mfpActive["ap"] \/ Agreed(pmfMode["ap"], f.mode)
          /\ ~NegotiationFails("ap", f) => Settles("ap", f.mode)
        BY <1>10, <2>1, NegotiateSettles DEF ApRxAssocReq
    <2>4. /\ state'["sta"] = state["sta"]
          /\ NegotiationFails("ap", f) => state'["ap"] = "FAILED"
        BY <1>10 DEF ApRxAssocReq, TypeOK
    <2>5. PmfMove("sta")
        BY <2>1, <2>3, <2>4 DEF PmfMove
    <2>6. PmfMove("ap")
        BY <2>1, <2>3, <2>4 DEF PmfMove, Joined
    <2> QED
        BY <2>2, <2>5, <2>6 DEF Node
<1>11. ASSUME NEW f \in air, ApRxM2(f)
       PROVE  ModesKnown' /\ \A n \in Node : PmfMove(n)
    <2>1. Quiet
        BY <1>11 DEF ApRxM2, ladderVars
    <2>2. Kept
        BY <1>11 DEF ApRxM2, Send, M3
    <2> QED
        BY <2>1, <2>2, <1>q, <1>k
<1>12. ASSUME NEW f \in air, ApRxM4(f)
       PROVE  ModesKnown' /\ \A n \in Node : PmfMove(n)
    <2>1. Kept /\ pmfMode' = pmfMode /\ mfpActive' = mfpActive
        BY <1>12 DEF ApRxM4
    <2>2. state'["sta"] = state["sta"] /\ state["ap"] = "4WAY"
        BY <1>12 DEF ApRxM4, M4Valid, TypeOK
    <2>3. Quiet
        BY <2>1, <2>2 DEF Joined, Node
    <2> QED
        BY <2>1, <2>3, <1>q, <1>k
<1>13. ASSUME NEW n \in Node, NEW t \in Tids, DataTx(n, t)
       PROVE  ModesKnown' /\ \A x \in Node : PmfMove(x)
    <2>1. Quiet /\ Kept
        BY <1>13 DEF DataTx, ladderVars, Send, Data
    <2> QED
        BY <2>1, <1>q, <1>k
<1>14. ASSUME NEW n \in Node, NEW f \in air, RxData(n, f)
       PROVE  ModesKnown' /\ \A x \in Node : PmfMove(x)
    <2>1. Quiet /\ Kept
        BY <1>14 DEF RxData, ladderVars
    <2> QED
        BY <2>1, <1>q, <1>k
<1>15. ASSUME NEW n \in Node, TxProtectedDeauth(n)
       PROVE  ModesKnown' /\ \A x \in Node : PmfMove(x)
    <2>1. Quiet /\ Kept
        BY <1>15 DEF TxProtectedDeauth, ladderVars, Send, ProtDeauth
    <2> QED
        BY <2>1, <1>q, <1>k
<1>16. ASSUME NEW n \in Node,
              (\E f \in air : RxProtectedDeauth(n, f)) \/ RxStrayDeauth(n) \/ RxRefusal(n)
       PROVE  ModesKnown' /\ \A x \in Node : PmfMove(x)
    <2>1. \A x \in Node : state'[x] \in {state[x], "INIT", "FAILED"}
        BY <1>16 DEF RxProtectedDeauth, RxStrayDeauth, RxRefusal, Honour, TypeOK
    <2>2. UNCHANGED <<pmfMode, mfpActive, air>>
        BY <1>16 DEF RxProtectedDeauth, RxStrayDeauth, RxRefusal
    <2>3. Quiet /\ Kept
        BY <2>1, <2>2 DEF Joined
    <2> QED
        BY <2>2, <2>3, <1>q, <1>k
<1>17. CASE UNCHANGED vars
    <2>1. Quiet /\ Kept
        BY <1>17 DEF vars
    <2> QED
        BY <2>1, <1>q, <1>k
<1> HIDE DEF Quiet, Kept
<1> QED
    BY <1>1, <1>2, <1>3, <1>4, <1>5, <1>6, <1>7, <1>8, <1>9, <1>10, <1>11, <1>12,
       <1>13, <1>14, <1>15, <1>16, <1>17 DEF Next

\* The modes are known from the start, and no end is associated.
LEMMA PmfInit ==
    Init => ModesKnown /\ \A n \in Node : state[n] = "INIT" /\ ~mfpActive[n]
BY NodeNames DEF Init, ModesKnown, ModesOf, Joined

\* An end whose policy is REQUIRED is never up without MFP, unless a STA that requires
\* it meets an AP whose Assoc-Resp leaves the RSNE out (run sme_stripped).
THEOREM RequiredMeansMfp ==
    "REQUIRED" \notin StaPmfModes \/ "DISABLED" \notin ApPmfModes => (Spec => []RequiredMfp)
<1> SUFFICES ASSUME "REQUIRED" \notin StaPmfModes \/ "DISABLED" \notin ApPmfModes
             PROVE  Spec => []RequiredMfp
    OBVIOUS
<1>1. Init => RequiredInd
    BY PmfInit DEF RequiredInd, Joined
<1>2. TypeOK /\ RequiredInd /\ [Next]_vars => RequiredInd'
    <2> SUFFICES ASSUME TypeOK, RequiredInd, [Next]_vars PROVE RequiredInd'
        OBVIOUS
    <2>1. ModesKnown /\ ModesKnown' /\ \A n \in Node : PmfMove(n)
        BY PmfStep DEF RequiredInd
    <2>2. ASSUME NEW n \in Node, pmfMode'[n] = "REQUIRED", state'[n] \in Joined
          PROVE  mfpActive'[n]
        <3>1. pmfMode[n] = "REQUIRED"
            BY <2>1, <2>2 DEF PmfMove
        <3>2. CASE state[n] \in Joined /\ (mfpActive'[n] <=> mfpActive[n])
            BY <3>1, <3>2 DEF RequiredInd
        <3>3. ASSUME NEW q \in ModesOf(Peer(n)), Settles(n, q)
              PROVE  mfpActive'[n]
            <4>1. ~(n = "sta" /\ q = "DISABLED")
                BY <2>1, <3>1 DEF ModesKnown, ModesOf, Peer
            <4> QED
                BY <3>1, <3>3, <4>1 DEF Settles, Agreed, MfpViolation, Requires, Capable
        <3> QED
            BY <2>1, <2>2, <3>2, <3>3 DEF PmfMove
    <2> QED
        BY <2>1, <2>2 DEF RequiredInd
<1>3. RequiredInd => RequiredMfp
    BY DEF RequiredInd, RequiredMfp, Joined
<1> QED
    BY <1>1, <1>2, <1>3, TypeCorrect, PTL DEF Spec

\* Two ends that are up under one TK hold the same GTK, agree on MFP and, under it, on
\* the IGTK, when each end keeps one PMF policy (the glue never sets one: DISABLED).
THEOREM GroupAgrees ==
    (\E s, a : StaPmfModes = {s} /\ ApPmfModes = {a}) => (Spec => []GroupAgreement)
<1> SUFFICES ASSUME NEW s, NEW a, StaPmfModes = {s}, ApPmfModes = {a}
             PROVE  Spec => []GroupAgreement
    OBVIOUS
<1> USE NodeNames
<1> DEFINE AgreedOn(n) == /\ mfpActive[n] => Agreed(s, a)
                          /\ state[n] \in Joined => (mfpActive[n] <=> Agreed(s, a))
<1>1. AgreedInd <=> ModesKnown /\ \A n \in Node : AgreedOn(n)
    BY DEF AgreedInd
<1>2. Init => AgreedInd
    BY <1>1, PmfInit DEF Joined
<1>3. TypeOK /\ AgreedInd /\ [Next]_vars => AgreedInd'
    <2> SUFFICES ASSUME TypeOK, AgreedInd, [Next]_vars PROVE AgreedInd'
        OBVIOUS
    <2>1. ModesKnown /\ ModesKnown' /\ \A n \in Node : PmfMove(n) /\ AgreedOn(n)
        BY <1>1, PmfStep
    <2>2. ASSUME NEW n \in Node, NEW q \in ModesOf(Peer(n))
          PROVE  /\ Agreed(pmfMode[n], q) <=> Agreed(s, a)
                 /\ n = "sta" => q = a
        <3>1. CASE n = "sta"
            BY <2>1, <3>1 DEF ModesKnown, ModesOf, Peer
        <3>2. CASE n = "ap"
            <4>1. pmfMode["ap"] = a /\ q = s
                BY <2>1, <3>2 DEF ModesKnown, ModesOf, Peer
            <4> QED
                BY <3>2, <4>1, AgreedSymmetric
        <3> QED
            BY <3>1, <3>2 DEF Node
    <2>3. ASSUME NEW n \in Node, mfpActive'[n] PROVE Agreed(s, a)
        BY <2>1, <2>2, <2>3 DEF PmfMove
    <2>4. ASSUME NEW n \in Node, state'[n] \in Joined, Agreed(s, a) PROVE mfpActive'[n]
        <3>1. CASE state[n] \in Joined /\ (mfpActive'[n] <=> mfpActive[n])
            BY <2>1, <2>4, <3>1
        <3>2. ASSUME NEW q \in ModesOf(Peer(n)), Settles(n, q)
              PROVE  mfpActive'[n]
            <4>1. ~(n = "sta" /\ q = "DISABLED")
                BY <2>2, <2>4 DEF Agreed, Capable
            <4> QED
                BY <2>2, <2>4, <3>2, <4>1 DEF Settles
        <3> QED
            BY <2>1, <2>4, <3>1, <3>2 DEF PmfMove
    <2>5. \A n \in Node : AgreedOn(n)'
        BY <2>3, <2>4
    <2> QED
        BY <2>1, <2>5 DEF AgreedInd
<1>4. TypeOK /\ GroupInd /\ AgreedInd => GroupAgreement
    <2> SUFFICES ASSUME TypeOK, GroupInd, AgreedInd, state["sta"] = "CONNECTED", state["ap"] = "CONNECTED",
                        installedTk["sta"] = installedTk["ap"]
                 PROVE  /\ gtk["sta"] = gtk["ap"]
                        /\ mfpActive["sta"] = mfpActive["ap"]
                        /\ mfpActive["sta"] => igtk["sta"] = igtk["ap"]
        BY DEF GroupAgreement
    <2>1. PICK g \in M3s : /\ g.mic = installedTk["sta"] /\ g.gtk = gtk["sta"]
                           /\ mfpActive["sta"] /\ g.igtk # 0 => igtk["sta"] = g.igtk
        BY DEF GroupInd, StaGroup
    <2>2. PICK h \in M3s : h.mic = installedTk["ap"] /\ ApCarries(h)
        BY DEF GroupInd, ApGroup
    <2>3. g = h
        BY <2>1, <2>2 DEF GroupInd, M3Unique
    <2>4. mfpActive["sta"] <=> mfpActive["ap"]
        BY <1>1 DEF Joined
    <2>5. mfpActive["sta"] = mfpActive["ap"]
        BY <2>4 DEF TypeOK
    <2> QED
        BY <2>1, <2>2, <2>3, <2>5 DEF ApCarries
<1> QED
    BY <1>2, <1>3, <1>4, TypeCorrect, GroupInvariant, PTL DEF Spec

=============================================================================
