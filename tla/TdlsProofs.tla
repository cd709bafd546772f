----------------------------- MODULE TdlsProofs -----------------------------
(***************************************************************************)
(* The TDLS direct link (module Tdls), for every number of setups and      *)
(* every length of the tunnels.                                            *)
(*                                                                         *)
(* That an ESTABLISHED end's TPK was derived by its peer follows from the  *)
(* MICs.  That two ESTABLISHED ends hold the same TPK does not: either end *)
(* may have been reset, have crossed the other's setup or be answering an  *)
(* old request.  The invariant orders the draws of the nonces: a tunnel is *)
(* a queue, so requests arrive in the order of their SNonces, and an end   *)
(* that has answered the initiator's latest request can meet no other.     *)
(***************************************************************************)
EXTENDS Tdls, TLAPS

Frames(q) == {q[i] : i \in 1..Len(q)}

\* The frames of a STA that are on their way to the other one.
Sent(n) == Frames(up[n]) \cup Frames(down[Other(n)])

Initiator(n) == link[n].state \in {"REQ_SENT", "ESTABLISHED"} /\ link[n].init = n
Responder(n) == link[n].state \in {"SETUP", "ESTABLISHED"} /\ link[n].init = Other(n)

Links == {Idle} \cup [state : {"REQ_SENT", "SETUP", "ESTABLISHED"}, init : Sta, snonce : Nat,
                      tpk : SUBSET Nat]

Fields ==
    /\ link \in [Sta -> Links]
    /\ up \in [Sta -> Seq(Frame)]
    /\ down \in [Sta -> Seq(Frame)]
    /\ nonces \in Nat
    /\ derived \in [Sta -> SUBSET SUBSET Nat]

-----------------------------------------------------------------------------
(* The invariant.                                                          *)

\* The requests of a tunnel arrive in the order of their SNonces.
Rising(q) ==
    \A i, j \in 1..Len(q) :
        i < j /\ q[i].act = "SETUP_REQ" /\ q[j].act = "SETUP_REQ" => q[i].snonce < q[j].snonce

Before(p, q) ==
    \A f \in Frames(p), g \in Frames(q) :
        f.act = "SETUP_REQ" /\ g.act = "SETUP_REQ" => f.snonce < g.snonce

Flow(u, d) == Rising(u) /\ Rising(d) /\ Before(d, u)

Ordered(n) == Flow(up[n], down[Other(n)])

\* What a link holds was drawn and derived, and goes with its role.
LinkOk(n) ==
    /\ link[n].tpk # NoTpk <=> link[n].state \in {"SETUP", "ESTABLISHED"}
    /\ link[n].tpk # NoTpk => link[n].tpk \in derived[n]
    /\ link[n].snonce <= nonces
    /\ link[n].state = "REQ_SENT" => link[n].init = n
    /\ link[n].state = "SETUP" => link[n].init = Other(n)
    /\ link[n].state = "ESTABLISHED" /\ link[n].init = n => link[n].snonce \in link[n].tpk

DerivedDrawn(n) == \A t \in derived[n] : \A x \in t : x <= nonces

\* A frame in the tunnel: its MIC is under a TPK its sender has derived, and an initiator's
\* requests and answers are not younger than the SNonce it waits with.
FrameOk(n, f) ==
    /\ f.snonce <= nonces /\ f.anonce <= nonces
    /\ f.mic # NoTpk => f.mic \in derived[n]
    /\ Initiator(n) /\ f.act = "SETUP_REQ" => f.snonce <= link[n].snonce
    /\ Initiator(n) /\ f.act = "SETUP_RESP" => f.anonce < link[n].snonce

\* An ESTABLISHED end's TPK was derived by its peer.
PeerDerived(n) == link[n].state = "ESTABLISHED" => link[n].tpk \in derived[Other(n)]

\* A peer that has answered the initiator's latest SNonce meets no further request of it; if
\* it still is the responder it holds that TPK, if it became an initiator it drew later.
Answered(n) ==
    \A t \in derived[Other(n)] :
        Initiator(n) /\ link[n].snonce \in t =>
            /\ \A f \in Sent(n) : f.act # "SETUP_REQ"
            /\ Responder(Other(n)) => link[Other(n)].tpk = t
            /\ Initiator(Other(n)) => link[n].snonce < link[Other(n)].snonce

OwnSNonce == Initiator(A) /\ Initiator(B) => link[A].snonce # link[B].snonce

\* Of two responders, the one that derived the other's TPK drew its ANonce later.
ResponderLater(n) ==
    Responder(n) /\ Responder(Other(n)) /\ link[Other(n)].tpk \in derived[n] =>
        \E y \in link[n].tpk : \A x \in link[Other(n)].tpk : x < y

EndOk(n) ==
    /\ Ordered(n) /\ LinkOk(n) /\ DerivedDrawn(n) /\ PeerDerived(n) /\ Answered(n) /\ ResponderLater(n)
    /\ \A f \in Sent(n) : FrameOk(n, f)

TdlsInd == Fields /\ OwnSNonce /\ \A n \in Sta : EndOk(n)

-----------------------------------------------------------------------------
(* The two ends and the tunnels between them.                              *)

\* The other end of the other end is the station itself.
LEMMA TwoEnds ==
    ASSUME A # B, NEW n \in Sta
    PROVE  /\ Other(n) \in Sta /\ Other(n) # n /\ Other(Other(n)) = n
           /\ \A k \in Sta : k = n \/ k = Other(n)
BY DEF Sta, Other

\* The frames that remain when the first is taken.
LEMMA FramesOfTail ==
    ASSUME NEW q \in Seq(Frame), q # <<>>
    PROVE  /\ Head(q) \in Frame /\ Head(q) \in Frames(q)
           /\ Tail(q) \in Seq(Frame) /\ Frames(Tail(q)) \subseteq Frames(q)
<1>1. Len(q) \in Nat /\ Len(q) > 0 /\ Len(Tail(q)) = Len(q) - 1
    OBVIOUS
<1>2. \A i \in 1..Len(Tail(q)) : Tail(q)[i] = q[i + 1] /\ i + 1 \in 1..Len(q)
    BY <1>1
<1>3. Head(q) = q[1] /\ 1 \in 1..Len(q)
    BY <1>1
<1> QED
    BY <1>2, <1>3 DEF Frames

\* The frames of a queue that one more is added to.
LEMMA FramesOfAppend ==
    ASSUME NEW q \in Seq(Frame), NEW f \in Frame
    PROVE  /\ Append(q, f) \in Seq(Frame)
           /\ Frames(Append(q, f)) \subseteq Frames(q) \cup {f}
<1>1. \A i \in 1..Len(Append(q, f)) : Append(q, f)[i] = f \/ (i \in 1..Len(q) /\ Append(q, f)[i] = q[i])
    OBVIOUS
<1> QED
    BY <1>1 DEF Frames

\* The frames behind a request in the tunnel were requested later.
LEMMA RisingTail ==
    ASSUME NEW q \in Seq(Frame), q # <<>>, Rising(q)
    PROVE  /\ Rising(Tail(q))
           /\ \A g \in Frames(Tail(q)) :
                Head(q).act = "SETUP_REQ" /\ g.act = "SETUP_REQ" => Head(q).snonce < g.snonce
<1>1. Len(q) \in Nat /\ Len(q) > 0 /\ Len(Tail(q)) = Len(q) - 1
    OBVIOUS
<1>2. \A i \in 1..Len(Tail(q)) : Tail(q)[i] = q[i + 1] /\ i + 1 \in 1..Len(q)
    BY <1>1
<1>3. Head(q) = q[1] /\ 1 \in 1..Len(q)
    BY <1>1
<1>4. \A i, j \in 1..Len(Tail(q)) : i < j => i + 1 < j + 1
    BY <1>1
<1>5. Rising(Tail(q))
    BY <1>2, <1>4 DEF Rising
<1>6. \A i \in 1..Len(Tail(q)) : 1 < i + 1
    BY <1>1
<1>7. ASSUME NEW g \in Frames(Tail(q)), Head(q).act = "SETUP_REQ", g.act = "SETUP_REQ"
      PROVE  Head(q).snonce < g.snonce
    <2>1. PICK i \in 1..Len(Tail(q)) : g = Tail(q)[i]
        BY DEF Frames
    <2> QED
        BY <1>2, <1>3, <1>6, <1>7, <2>1 DEF Rising
<1> QED
    BY <1>5, <1>7

\* A request of a later nonce keeps the requests of a queue rising.
LEMMA RisingAppend ==
    ASSUME NEW q \in Seq(Frame), NEW f \in Frame, Rising(q),
           \A g \in Frames(q) : f.act = "SETUP_REQ" /\ g.act = "SETUP_REQ" => g.snonce < f.snonce
    PROVE  Rising(Append(q, f))
<1>1. Len(q) \in Nat /\ Len(Append(q, f)) = Len(q) + 1
    OBVIOUS
<1>2. /\ Append(q, f)[Len(q) + 1] = f
      /\ \A i \in 1..Len(q) : Append(q, f)[i] = q[i] /\ q[i] \in Frames(q)
    BY DEF Frames
<1>3. ASSUME NEW i \in 1..(Len(q) + 1), NEW j \in 1..(Len(q) + 1), i < j
      PROVE  i \in 1..Len(q) /\ (j \in 1..Len(q) \/ j = Len(q) + 1)
    BY <1>1, <1>3
<1> QED
    BY <1>1, <1>2, <1>3 DEF Rising

\* A later request at the upper end keeps the whole way in order.
LEMMA FlowPush ==
    ASSUME NEW u \in Seq(Frame), NEW d \in Seq(Frame), NEW f \in Frame, Flow(u, d),
           \A g \in Frames(u) \cup Frames(d) :
               f.act = "SETUP_REQ" /\ g.act = "SETUP_REQ" => g.snonce < f.snonce
    PROVE  Flow(Append(u, f), d)
BY RisingAppend, FramesOfAppend DEF Flow, Before

\* A frame delivered keeps the way in order.
LEMMA FlowTake ==
    ASSUME NEW u \in Seq(Frame), NEW d \in Seq(Frame), Flow(u, d), d # <<>>
    PROVE  Flow(u, Tail(d))
BY RisingTail, FramesOfTail DEF Flow, Before

\* A frame lost keeps the way in order.
LEMMA FlowLose ==
    ASSUME NEW u \in Seq(Frame), NEW d \in Seq(Frame), Flow(u, d), u # <<>>
    PROVE  Flow(Tail(u), d)
BY RisingTail, FramesOfTail DEF Flow, Before

\* A frame relayed by the AP keeps the way in order.
LEMMA FlowRelay ==
    ASSUME NEW u \in Seq(Frame), NEW d \in Seq(Frame), Flow(u, d), u # <<>>
    PROVE  Flow(Tail(u), Append(d, Head(u)))
<1>1. /\ Head(u) \in Frame /\ Head(u) \in Frames(u) /\ Frames(Tail(u)) \subseteq Frames(u)
      /\ Rising(Tail(u))
      /\ \A g \in Frames(Tail(u)) :
            Head(u).act = "SETUP_REQ" /\ g.act = "SETUP_REQ" => Head(u).snonce < g.snonce
    BY FramesOfTail, RisingTail DEF Flow
<1>2. Rising(Append(d, Head(u)))
    BY <1>1, RisingAppend DEF Flow, Before
<1>3. Frames(Append(d, Head(u))) \subseteq Frames(d) \cup {Head(u)}
    BY <1>1, FramesOfAppend
<1>4. Before(Append(d, Head(u)), Tail(u))
    BY <1>1, <1>3 DEF Flow, Before
<1> QED
    BY <1>1, <1>2, <1>4 DEF Flow

\* A way with one empty half is in order when the other is.
LEMMA FlowEmpty ==
    ASSUME NEW q, Rising(q)
    PROVE  Flow(<<>>, q) /\ Flow(q, <<>>)
<1>1. \A i : i \notin 1..Len(<<>>)
    OBVIOUS
<1>2. Rising(<<>>) /\ Frames(<<>>) = {}
    BY <1>1 DEF Rising, Frames
<1> QED
    BY <1>2 DEF Flow, Before

-----------------------------------------------------------------------------
(* Steps that draw no nonce and derive no key.                             *)

\* A link that stays, is dropped, or is confirmed by a Confirm of its peer.
Settles(n) ==
    \/ link'[n] = link[n]
    \/ link'[n] = Idle
    \/ /\ link[n].state = "SETUP" /\ link'[n] = [link[n] EXCEPT !.state = "ESTABLISHED"]
       /\ link[n].tpk \in derived[Other(n)]

\* A station that settles takes no role it did not have.
LEMMA SettledRoles ==
    ASSUME A # B, Fields, NEW n \in Sta, LinkOk(n), Settles(n)
    PROVE  /\ Initiator(n)' => Initiator(n) /\ link'[n] = link[n]
           /\ Responder(n)' => Responder(n) /\ link'[n].tpk = link[n].tpk
           /\ link'[n] \in Links
           /\ link'[n].tpk # NoTpk <=> link'[n].state \in {"SETUP", "ESTABLISHED"}
           /\ link'[n].tpk # NoTpk => link'[n].tpk = link[n].tpk
           /\ link'[n].snonce = link[n].snonce \/ link'[n].snonce = 0
           /\ link'[n].state = "REQ_SENT" => link'[n].init = n
           /\ link'[n].state = "SETUP" => link'[n].init = Other(n)
           /\ link'[n].state = "ESTABLISHED" /\ link'[n].init = n => link'[n].snonce \in link'[n].tpk
           /\ link'[n].state = "ESTABLISHED" => link[n].state = "ESTABLISHED" \/ link[n].tpk \in derived[Other(n)]
           /\ link'[n].state = "ESTABLISHED" => link'[n].tpk = link[n].tpk
<1>1. Other(n) # n /\ link[n] \in Links
    BY TwoEnds DEF Fields
<1>2. CASE link'[n] = link[n]
    BY <1>1, <1>2 DEF LinkOk, Initiator, Responder
<1>3. CASE link'[n] = Idle
    BY <1>3 DEF Idle, Links, Initiator, Responder, NoTpk
<1>4. CASE /\ link[n].state = "SETUP" /\ link'[n] = [link[n] EXCEPT !.state = "ESTABLISHED"]
           /\ link[n].tpk \in derived[Other(n)]
    <2>1. /\ link[n] \in [state : {"REQ_SENT", "SETUP", "ESTABLISHED"}, init : Sta, snonce : Nat,
                          tpk : SUBSET Nat]
          /\ link[n].init = Other(n) /\ link[n].tpk # NoTpk
        BY <1>1, <1>4 DEF Links, Idle, LinkOk
    <2>2. /\ link'[n].state = "ESTABLISHED" /\ link'[n].init = link[n].init
          /\ link'[n].snonce = link[n].snonce /\ link'[n].tpk = link[n].tpk
          /\ link'[n] \in [state : {"REQ_SENT", "SETUP", "ESTABLISHED"}, init : Sta, snonce : Nat,
                           tpk : SUBSET Nat]
        BY <1>4, <2>1
    <2> QED
        BY <1>1, <1>4, <2>1, <2>2 DEF Links, Initiator, Responder
<1> QED
    BY <1>2, <1>3, <1>4 DEF Settles

\* A step that sends no new setup frame and derives no key keeps the invariant.
LEMMA QuietKeeps ==
    ASSUME A # B, TdlsInd, link' \in [Sta -> Links],
           up' \in [Sta -> Seq(Frame)], down' \in [Sta -> Seq(Frame)],
           UNCHANGED <<nonces, derived>>,
           \A n \in Sta : Settles(n),
           \A n \in Sta : Ordered(n)',
           \A n \in Sta : \A f \in Sent(n)' :
               \/ f \in Sent(n)
               \/ /\ f.act = "TEARDOWN" /\ f.snonce = 0 /\ f.anonce = 0
                  /\ f.mic = link[n].tpk
    PROVE  TdlsInd'
<1> USE DEF TdlsInd, EndOk
<1>1. Fields'
    BY DEF Fields
<1>2. nonces \in Nat
    BY DEF Fields
<1>3. \A n \in Sta : /\ Initiator(n)' => Initiator(n) /\ link'[n] = link[n]
                     /\ Responder(n)' => Responder(n) /\ link'[n].tpk = link[n].tpk
    BY SettledRoles
<1>4. OwnSNonce'
    BY <1>3 DEF OwnSNonce, Sta
<1>5. ASSUME NEW n \in Sta
      PROVE  EndOk(n)'
    <2>1. Other(n) \in Sta /\ Other(n) # n /\ Other(Other(n)) = n
        BY TwoEnds
    <2>2. LinkOk(n)'
        <3>1. /\ link'[n].tpk # NoTpk <=> link'[n].state \in {"SETUP", "ESTABLISHED"}
              /\ link'[n].tpk # NoTpk => link'[n].tpk = link[n].tpk
              /\ link'[n].snonce = link[n].snonce \/ link'[n].snonce = 0
              /\ link'[n].state = "REQ_SENT" => link'[n].init = n
              /\ link'[n].state = "SETUP" => link'[n].init = Other(n)
              /\ link'[n].state = "ESTABLISHED" /\ link'[n].init = n
                    => link'[n].snonce \in link'[n].tpk
            BY SettledRoles
        <3>2. /\ link[n].tpk # NoTpk => link[n].tpk \in derived[n]
              /\ link[n].snonce <= nonces
            BY DEF LinkOk
        <3>3. link'[n].snonce <= nonces'
            BY <1>2, <3>1, <3>2
        <3>4. link'[n].tpk # NoTpk => link'[n].tpk \in derived'[n]
            BY <3>1, <3>2
        <3> QED
            BY <3>1, <3>3, <3>4 DEF LinkOk, Other, NoTpk
    <2>3. DerivedDrawn(n)'
        BY DEF DerivedDrawn
    <2>4. PeerDerived(n)'
        BY <1>5, SettledRoles DEF PeerDerived
    <2>5. Answered(n)'
        <3> SUFFICES ASSUME NEW t \in derived[Other(n)], Initiator(n)', link'[n].snonce \in t
                     PROVE  /\ \A f \in Sent(n)' : f.act # "SETUP_REQ"
                            /\ Responder(Other(n))' => link'[Other(n)].tpk = t
                            /\ Initiator(Other(n))' => link'[n].snonce < link'[Other(n)].snonce
            BY DEF Answered, Other
        <3>1. Initiator(n) /\ link'[n] = link[n]
            BY <1>3
        <3>2. /\ \A f \in Sent(n) : f.act # "SETUP_REQ"
              /\ Responder(Other(n)) => link[Other(n)].tpk = t
              /\ Initiator(Other(n)) => link[n].snonce < link[Other(n)].snonce
            BY <3>1 DEF Answered
        <3> QED
            BY <1>3, <2>1, <3>1, <3>2
    <2>6. ResponderLater(n)'
        BY <1>3, <2>1 DEF ResponderLater
    <2>7. ASSUME NEW f \in Sent(n)' PROVE FrameOk(n, f)'
        <3>1. CASE f \in Sent(n)
            BY <1>3, <3>1 DEF FrameOk
        <3>2. CASE /\ f.act = "TEARDOWN" /\ f.snonce = 0 /\ f.anonce = 0
                   /\ f.mic = link[n].tpk
            BY <1>2, <3>2 DEF FrameOk, LinkOk
        <3> QED
            BY <2>7, <3>1, <3>2
    <2> QED
        BY <2>2, <2>3, <2>4, <2>5, <2>6, <2>7
<1> QED
    BY <1>1, <1>4, <1>5

-----------------------------------------------------------------------------
(* What a step does to the tunnels.                                        *)

TunnelsOk ==
    /\ up \in [Sta -> Seq(Frame)] /\ down \in [Sta -> Seq(Frame)]
    /\ \A n \in Sta : Ordered(n)

\* rf_2a4m1_tdls_encap_tx, alone or as the answer to a frame that is taken.
LEMMA PushTunnels ==
    ASSUME A # B, TunnelsOk, NEW n \in Sta, NEW f \in Frame,
           up' = [up EXCEPT ![n] = Append(@, f)],
           \/ down' = down
           \/ down[n] # <<>> /\ down' = [down EXCEPT ![n] = Tail(@)],
           \A g \in Sent(n) : f.act = "SETUP_REQ" /\ g.act = "SETUP_REQ" => g.snonce < f.snonce
    PROVE  /\ TunnelsOk'
           /\ Sent(n)' \subseteq Sent(n) \cup {f}
           /\ Sent(Other(n))' \subseteq Sent(Other(n))
<1> DEFINE m == Other(n)
<1>1. m \in Sta /\ m # n /\ Other(m) = n /\ \A k \in Sta : k = n \/ k = m
    BY TwoEnds
<1>2. /\ up[n] \in Seq(Frame) /\ up[m] \in Seq(Frame)
      /\ down[n] \in Seq(Frame) /\ down[m] \in Seq(Frame)
      /\ Flow(up[n], down[m]) /\ Flow(up[m], down[n])
    BY <1>1 DEF TunnelsOk, Ordered
<1>3. up'[n] = Append(up[n], f) /\ up'[m] = up[m] /\ down'[m] = down[m]
    BY <1>1 DEF TunnelsOk
<1>4. down'[n] = down[n] \/ (down[n] # <<>> /\ down'[n] = Tail(down[n]))
    BY DEF TunnelsOk
<1>5. Flow(up'[n], down'[m]) /\ Frames(up'[n]) \subseteq Frames(up[n]) \cup {f}
    <2>1. \A g \in Frames(up[n]) \cup Frames(down[m]) :
              f.act = "SETUP_REQ" /\ g.act = "SETUP_REQ" => g.snonce < f.snonce
        BY DEF Sent
    <2>2. Flow(Append(up[n], f), down[m])
        BY <1>2, <2>1, FlowPush
    <2> QED
        BY <1>2, <1>3, <2>2, FramesOfAppend
<1>6. Flow(up'[m], down'[n]) /\ Frames(down'[n]) \subseteq Frames(down[n])
    BY <1>2, <1>3, <1>4, FlowTake, FramesOfTail
<1>7. up' \in [Sta -> Seq(Frame)] /\ down' \in [Sta -> Seq(Frame)]
    <2>1. Append(up[n], f) \in Seq(Frame)
        BY <1>2
    <2>2. up' \in [Sta -> Seq(Frame)]
        BY <2>1 DEF TunnelsOk
    <2>3. down[n] # <<>> => Tail(down[n]) \in Seq(Frame)
        BY <1>2, FramesOfTail
    <2>4. down' \in [Sta -> Seq(Frame)]
        BY <2>3 DEF TunnelsOk
    <2> QED
        BY <2>2, <2>4
<1>8. \A k \in Sta : Flow(up'[k], down'[Other(k)])
    BY <1>1, <1>5, <1>6
<1>9. TunnelsOk'
    BY <1>7, <1>8 DEF TunnelsOk, Ordered, Sta, Other
<1>10. Frames(up'[n]) \cup Frames(down'[m]) \subseteq Sent(n) \cup {f}
    BY <1>3, <1>5 DEF Sent
<1>11. Frames(up'[m]) \cup Frames(down'[n]) \subseteq Sent(m)
    BY <1>1, <1>3, <1>6 DEF Sent
<1> QED
    BY <1>1, <1>9, <1>10, <1>11 DEF Sent, Other

\* A frame is taken from the tunnel, delivered or lost.
LEMMA TakeTunnels ==
    ASSUME A # B, TunnelsOk, NEW n \in Sta, down[n] # <<>>,
           down' = [down EXCEPT ![n] = Tail(@)], up' = up
    PROVE  /\ TunnelsOk'
           /\ \A k \in Sta : Sent(k)' \subseteq Sent(k)
<1> DEFINE m == Other(n)
<1>1. m \in Sta /\ m # n /\ Other(m) = n /\ \A k \in Sta : k = n \/ k = m
    BY TwoEnds
<1>2. /\ up[m] \in Seq(Frame) /\ down[n] \in Seq(Frame)
      /\ Flow(up[n], down[m]) /\ Flow(up[m], down[n])
    BY <1>1 DEF TunnelsOk, Ordered
<1>3. down'[m] = down[m] /\ down'[n] = Tail(down[n])
    BY <1>1 DEF TunnelsOk
<1>4. Flow(up'[m], down'[n]) /\ Frames(down'[n]) \subseteq Frames(down[n])
    BY <1>2, <1>3, FlowTake, FramesOfTail
<1>5. up' \in [Sta -> Seq(Frame)] /\ down' \in [Sta -> Seq(Frame)]
    BY <1>2, FramesOfTail DEF TunnelsOk
<1>6. \A k \in Sta : Flow(up'[k], down'[Other(k)])
    BY <1>1, <1>2, <1>3, <1>4
<1>7. TunnelsOk'
    BY <1>5, <1>6 DEF TunnelsOk, Ordered, Sta, Other
<1>8. \A k \in Sta : Frames(up'[k]) \cup Frames(down'[Other(k)]) \subseteq Sent(k)
    BY <1>1, <1>3, <1>4 DEF Sent
<1> QED
    BY <1>7, <1>8 DEF Sent, Other

\* The AP passes a frame on.
LEMMA RelayTunnels ==
    ASSUME A # B, TunnelsOk, NEW n \in Sta, Relay(n)
    PROVE  /\ TunnelsOk'
           /\ \A k \in Sta : Sent(k)' \subseteq Sent(k)
<1> DEFINE m == Other(n)
<1>1. m \in Sta /\ m # n /\ Other(m) = n /\ \A k \in Sta : k = n \/ k = m
    BY TwoEnds
<1>2. /\ up[n] \in Seq(Frame) /\ down[m] \in Seq(Frame) /\ up[n] # <<>>
      /\ Flow(up[n], down[m]) /\ Flow(up[m], down[n])
    BY <1>1 DEF TunnelsOk, Ordered, Relay
<1>3. /\ up'[m] = up[m] /\ up'[n] = Tail(up[n])
      /\ down'[n] = down[n] /\ down'[m] = Append(down[m], Head(up[n]))
    BY <1>1 DEF TunnelsOk, Relay
<1>4. Flow(up'[n], down'[m])
    BY <1>2, <1>3, FlowRelay
<1>5. /\ Head(up[n]) \in Frame /\ Head(up[n]) \in Frames(up[n])
      /\ Frames(up'[n]) \subseteq Frames(up[n])
    BY <1>2, <1>3, FramesOfTail
<1>6. Frames(down'[m]) \subseteq Frames(down[m]) \cup {Head(up[n])}
    BY <1>2, <1>3, <1>5, FramesOfAppend
<1>7. up' \in [Sta -> Seq(Frame)] /\ down' \in [Sta -> Seq(Frame)]
    BY <1>1, <1>2, <1>5, FramesOfTail, FramesOfAppend DEF TunnelsOk, Relay
<1>8. \A k \in Sta : Flow(up'[k], down'[Other(k)])
    BY <1>1, <1>2, <1>3, <1>4
<1>9. TunnelsOk'
    BY <1>7, <1>8 DEF TunnelsOk, Ordered, Sta, Other
<1>10. \A k \in Sta : Frames(up'[k]) \cup Frames(down'[Other(k)]) \subseteq Sent(k)
    BY <1>1, <1>3, <1>5, <1>6 DEF Sent
<1> QED
    BY <1>9, <1>10 DEF Sent, Other

\* A frame is lost before the AP, or both tunnels of a STA are emptied by its new join.
LEMMA LoseTunnels ==
    ASSUME A # B, TunnelsOk, NEW n \in Sta,
           \/ up[n] # <<>> /\ up' = [up EXCEPT ![n] = Tail(@)] /\ down' = down
           \/ up' = [up EXCEPT ![n] = <<>>] /\ down' = [down EXCEPT ![n] = <<>>]
    PROVE  /\ TunnelsOk'
           /\ \A k \in Sta : Sent(k)' \subseteq Sent(k)
<1> DEFINE m == Other(n)
<1>1. m \in Sta /\ m # n /\ Other(m) = n /\ \A k \in Sta : k = n \/ k = m
    BY TwoEnds
<1>2. /\ up[n] \in Seq(Frame) /\ down[m] \in Seq(Frame)
      /\ Flow(up[n], down[m]) /\ Flow(up[m], down[n])
    BY <1>1 DEF TunnelsOk, Ordered
<1>3. /\ up'[m] = up[m] /\ (up'[n] = <<>> \/ (up[n] # <<>> /\ up'[n] = Tail(up[n])))
      /\ down'[m] = down[m] /\ (down'[n] = <<>> \/ down'[n] = down[n])
    BY <1>1 DEF TunnelsOk
<1>4. <<>> \in Seq(Frame) /\ Frames(<<>>) = {}
    <2>1. \A i : i \notin 1..Len(<<>>)
        OBVIOUS
    <2> QED
        BY <2>1 DEF Frames
<1>5. Flow(up'[n], down'[m]) /\ Frames(up'[n]) \subseteq Frames(up[n])
    BY <1>2, <1>3, <1>4, FlowLose, FlowEmpty, FramesOfTail DEF Flow
<1>6. Flow(up'[m], down'[n]) /\ Frames(down'[n]) \subseteq Frames(down[n])
    BY <1>2, <1>3, <1>4, FlowEmpty DEF Flow
<1>7. up' \in [Sta -> Seq(Frame)] /\ down' \in [Sta -> Seq(Frame)]
    BY <1>2, <1>4, FramesOfTail DEF TunnelsOk
<1>8. \A k \in Sta : Flow(up'[k], down'[Other(k)])
    BY <1>1, <1>5, <1>6
<1>9. TunnelsOk'
    BY <1>7, <1>8 DEF TunnelsOk, Ordered, Sta, Other
<1>10. \A k \in Sta : Frames(up'[k]) \cup Frames(down'[Other(k)]) \subseteq Sent(k)
    BY <1>1, <1>3, <1>5, <1>6 DEF Sent
<1> QED
    BY <1>9, <1>10 DEF Sent, Other

-----------------------------------------------------------------------------
(* Steps that draw a nonce or derive a key.                                *)

\* A setup begins: its SNonce is younger than everything.
LEMMA StartSetupKeeps ==
    ASSUME A # B, TdlsInd, NEW n \in Sta, StartSetup(n)
    PROVE  TdlsInd'
<1> DEFINE m == Other(n)
           req == [act |-> "SETUP_REQ", init |-> n, snonce |-> nonces + 1, anonce |-> 0, mic |-> NoTpk]
<1> USE DEF TdlsInd, EndOk
<1>1. m \in Sta /\ m # n /\ Other(m) = n /\ \A k \in Sta : k = n \/ k = m
    BY TwoEnds
<1>2. nonces \in Nat /\ TunnelsOk /\ link \in [Sta -> Links]
    BY DEF Fields, TunnelsOk
<1>3. /\ nonces' = nonces + 1 /\ derived' = derived /\ down' = down
      /\ up' = [up EXCEPT ![n] = Append(@, req)]
      /\ link' = [link EXCEPT ![n] = [state |-> "REQ_SENT", init |-> n, snonce |-> nonces + 1,
                                      tpk |-> NoTpk]]
    BY DEF StartSetup, EncapTx
<1>4. /\ link'[n] = [state |-> "REQ_SENT", init |-> n, snonce |-> nonces + 1, tpk |-> NoTpk]
      /\ link'[m] = link[m]
    BY <1>1, <1>2, <1>3
<1>5. req \in Frame
    BY <1>2 DEF Frame, NoTpk
<1>6. \A g \in Sent(n) : g.snonce < nonces + 1 /\ g.anonce < nonces + 1
    <2>1. ASSUME NEW g \in Sent(n) PROVE g.snonce < nonces + 1 /\ g.anonce < nonces + 1
        <3>1. g \in Frame
            BY <1>1, <2>1 DEF Sent, Frames, Fields
        <3> QED
            BY <1>2, <3>1 DEF FrameOk, Frame
    <2> QED
        BY <2>1
<1>7. /\ TunnelsOk' /\ Sent(n)' \subseteq Sent(n) \cup {req} /\ Sent(m)' \subseteq Sent(m)
    BY <1>2, <1>3, <1>5, <1>6, PushTunnels
<1>8. Fields'
    <2>1. link' \in [Sta -> Links]
        BY <1>2, <1>3 DEF Links, NoTpk
    <2> QED
        BY <1>2, <1>3, <1>7, <2>1 DEF Fields, TunnelsOk
<1>9. link[m].snonce \in Nat /\ link[m].snonce <= nonces
    BY <1>1, <1>2 DEF Links, Idle, LinkOk
<1>10. /\ Initiator(m)' <=> Initiator(m)
       /\ ~Responder(n)'
    BY <1>1, <1>4 DEF Initiator, Responder, Other, Sta
<1>11. OwnSNonce'
    BY <1>1, <1>2, <1>4, <1>9 DEF OwnSNonce, Sta, Other
<1>12. \A k \in Sta : DerivedDrawn(k)'
    <2>1. ASSUME NEW k \in Sta, NEW t \in derived[k], NEW x \in t PROVE x <= nonces + 1
        BY <1>2 DEF DerivedDrawn, Fields
    <2> QED
        BY <1>3, <2>1 DEF DerivedDrawn, Sta
<1>13. EndOk(n)'
    <2>1. LinkOk(n)'
        BY <1>2, <1>3, <1>4 DEF LinkOk, NoTpk
    <2>2. PeerDerived(n)'
        BY <1>4 DEF PeerDerived
    <2>3. Answered(n)'
        <3>1. \A t \in derived[m] : nonces + 1 \notin t
            <4>1. \A t \in derived[m] : \A x \in t : x <= nonces
                BY <1>1 DEF DerivedDrawn
            <4> QED
                BY <1>2, <4>1
        <3>2. link'[n].snonce = nonces + 1 /\ derived'[m] = derived[m]
            BY <1>3, <1>4
        <3>3. \A t \in derived'[m] : link'[n].snonce \notin t
            BY <3>1, <3>2
        <3> QED
            BY <3>3 DEF Answered, Other
    <2>4. ResponderLater(n)'
        BY <1>10 DEF ResponderLater
    <2>5. ASSUME NEW g \in Sent(n)' PROVE FrameOk(n, g)'
        <3>1. CASE g \in Sent(n)
            <4>1. g \in Frame
                BY <1>1, <3>1 DEF Sent, Frames, Fields
            <4>2. g.snonce < nonces + 1 /\ g.anonce < nonces + 1
                BY <1>6, <3>1
            <4>3. g.mic # NoTpk => g.mic \in derived[n]
                BY <3>1 DEF FrameOk
            <4> QED
                BY <1>2, <1>3, <1>4, <4>1, <4>2, <4>3 DEF FrameOk, Frame, NoTpk
        <3>2. CASE g = req
            BY <1>2, <1>3, <1>4, <3>2 DEF FrameOk, NoTpk
        <3> QED
            BY <1>7, <3>1, <3>2
    <2> QED
        BY <1>7, <1>12, <2>1, <2>2, <2>3, <2>4, <2>5 DEF TunnelsOk
<1>14. EndOk(m)'
    <2>1. LinkOk(m)'
        BY <1>1, <1>2, <1>3, <1>4, <1>9 DEF LinkOk, NoTpk, Other
    <2>2. PeerDerived(m)'
        BY <1>1, <1>3, <1>4 DEF PeerDerived, Other
    <2>3. Answered(m)'
        <3> SUFFICES ASSUME NEW t \in derived[n], Initiator(m)', link'[m].snonce \in t
                     PROVE  /\ \A f \in Sent(m)' : f.act # "SETUP_REQ"
                            /\ Responder(n)' => link'[n].tpk = t
                            /\ Initiator(n)' => link'[m].snonce < link'[n].snonce
            BY <1>1, <1>3 DEF Answered, Other
        <3>1. \A f \in Sent(m) : f.act # "SETUP_REQ"
            BY <1>1, <1>4, <1>10 DEF Answered
        <3> QED
            BY <1>2, <1>4, <1>7, <1>9, <1>10, <3>1
    <2>4. ResponderLater(m)'
        BY <1>1, <1>10 DEF ResponderLater, Other
    <2>5. ASSUME NEW g \in Sent(m)' PROVE FrameOk(m, g)'
        <3>1. g \in Sent(m)
            BY <1>7, <2>5
        <3>2. g \in Frame
            BY <1>1, <3>1 DEF Sent, Frames, Fields
        <3>3. FrameOk(m, g)
            BY <1>1, <3>1
        <3> QED
            BY <1>2, <1>3, <1>4, <1>10, <3>2, <3>3 DEF FrameOk, Frame, NoTpk
    <2> QED
        BY <1>1, <1>7, <1>12, <2>1, <2>2, <2>3, <2>4, <2>5 DEF TunnelsOk
<1>15. \A k \in Sta : EndOk(k)'
    BY <1>1, <1>13, <1>14
<1> QED
    BY <1>8, <1>11, <1>15 DEF Sta

\* What a frame at the head of a tunnel is known to be.
LEMMA HeadOfTunnel ==
    ASSUME A # B, TdlsInd, NEW n \in Sta, down[n] # <<>>
    PROVE  /\ Head(down[n]) \in Frame /\ Head(down[n]) \in Sent(Other(n))
           /\ FrameOk(Other(n), Head(down[n]))
           /\ \A g \in Frames(Tail(down[n])) \cup Frames(up[Other(n)]) :
                 Head(down[n]).act = "SETUP_REQ" /\ g.act = "SETUP_REQ" => Head(down[n]).snonce < g.snonce
<1>1. Other(n) \in Sta /\ Other(Other(n)) = n
    BY TwoEnds
<1>2. down[n] \in Seq(Frame) /\ Flow(up[Other(n)], down[n])
    BY <1>1 DEF TdlsInd, Fields, EndOk, Ordered
<1>3. Head(down[n]) \in Frame /\ Head(down[n]) \in Frames(down[n])
    BY <1>2, FramesOfTail
<1>4. Head(down[n]) \in Sent(Other(n))
    BY <1>1, <1>3 DEF Sent
<1>5. \A g \in Frames(Tail(down[n])) :
        Head(down[n]).act = "SETUP_REQ" /\ g.act = "SETUP_REQ" => Head(down[n]).snonce < g.snonce
    BY <1>2, RisingTail DEF Flow
<1>6. \A g \in Frames(up[Other(n)]) :
        Head(down[n]).act = "SETUP_REQ" /\ g.act = "SETUP_REQ" => Head(down[n]).snonce < g.snonce
    BY <1>2, <1>3 DEF Flow, Before
<1>7. FrameOk(Other(n), Head(down[n]))
    BY <1>1, <1>4 DEF TdlsInd, EndOk
<1> QED
    BY <1>3, <1>4, <1>5, <1>6, <1>7

\* An idle STA answers a request: no other request of that initiator is behind it unless the
\* initiator has begun again.
LEMMA SetupReqKeeps ==
    ASSUME A # B, TdlsInd, NEW n \in Sta, down[n] # <<>>, NEW f, f = Head(down[n]),
           f.act = "SETUP_REQ", OnSetupReq(n, f), down' = [down EXCEPT ![n] = Tail(@)]
    PROVE  TdlsInd'
<1> DEFINE m == Other(n)
           tpk == {f.snonce, nonces + 1}
           answer == [act |-> "SETUP_RESP", init |-> f.init, snonce |-> f.snonce,
                      anonce |-> nonces + 1, mic |-> tpk]
<1> USE DEF TdlsInd, EndOk
<1>1. m \in Sta /\ m # n /\ Other(m) = n /\ \A k \in Sta : k = n \/ k = m
    BY TwoEnds
<1>2. /\ nonces \in Nat /\ TunnelsOk /\ link \in [Sta -> Links]
      /\ derived \in [Sta -> SUBSET SUBSET Nat]
    BY DEF Fields, TunnelsOk
<1>3. /\ nonces' = nonces + 1
      /\ up' = [up EXCEPT ![n] = Append(@, answer)]
      /\ link' = [link EXCEPT ![n] = [state |-> "SETUP", init |-> f.init, snonce |-> f.snonce,
                                      tpk |-> tpk]]
      /\ derived' = [derived EXCEPT ![n] = @ \cup {tpk}]
      /\ f.init = m
    BY DEF OnSetupReq, EncapTx, DeriveTpk
<1>4. /\ link'[n] = [state |-> "SETUP", init |-> m, snonce |-> f.snonce, tpk |-> tpk]
      /\ link'[m] = link[m]
      /\ derived'[n] = derived[n] \cup {tpk} /\ derived'[m] = derived[m]
    BY <1>1, <1>2, <1>3
<1>5. /\ f \in Frame /\ f \in Sent(m) /\ FrameOk(m, f)
      /\ f.snonce \in Nat /\ f.snonce <= nonces
      /\ \A g \in Frames(Tail(down[n])) \cup Frames(up[m]) : g.act = "SETUP_REQ" => f.snonce < g.snonce
    BY HeadOfTunnel DEF Frame, FrameOk
<1>6. /\ answer \in Frame
      /\ answer.act = "SETUP_RESP" /\ answer.snonce = f.snonce /\ answer.anonce = nonces + 1
      /\ answer.mic = tpk
    BY <1>1, <1>2, <1>3, <1>5 DEF Frame
<1>7. /\ tpk \in SUBSET Nat /\ tpk # NoTpk
      /\ \A x : x \in tpk <=> x = f.snonce \/ x = nonces + 1
    BY <1>2, <1>5 DEF NoTpk
<1>8. nonces \in Nat /\ nonces' = nonces + 1
    BY <1>2, <1>3
<1>9. derived'[m] = derived[m]
    BY <1>4
<1>10. link'[n].tpk = tpk /\ link'[m].tpk = link[m].tpk
    BY <1>4
<1> HIDE DEF answer, tpk
<1>11. /\ TunnelsOk' /\ Sent(n)' \subseteq Sent(n) \cup {answer} /\ Sent(m)' \subseteq Sent(m)
    BY <1>2, <1>3, <1>6, PushTunnels
<1>12. Sent(m)' = Frames(up[m]) \cup Frames(Tail(down[n]))
    <2>1. up'[m] = up[m] /\ down'[n] = Tail(down[n])
        BY <1>1, <1>2, <1>3 DEF TunnelsOk
    <2> QED
        BY <1>1, <2>1 DEF Sent, Other
<1>13. Fields'
    <2>1. link' \in [Sta -> Links] /\ derived' \in [Sta -> SUBSET SUBSET Nat]
        BY <1>1, <1>2, <1>3, <1>5, <1>7 DEF Links
    <2>2. nonces' \in Nat
        BY <1>2, <1>3
    <2> QED
        BY <1>11, <2>1, <2>2 DEF Fields, TunnelsOk
<1>14. /\ Initiator(m)' <=> Initiator(m)
       /\ Responder(m)' <=> Responder(m)
       /\ ~Initiator(n)'
    BY <1>1, <1>4 DEF Initiator, Responder, Other
<1>15. OwnSNonce'
    BY <1>14 DEF OwnSNonce, Sta, Other
<1>16. \A t \in derived[m] : \A x \in t : x \in Nat /\ x <= nonces
    BY <1>1, <1>2 DEF DerivedDrawn
<1>17. \A k \in Sta : DerivedDrawn(k)'
    <2>1. \A t \in derived'[m] : \A x \in t : x <= nonces'
        BY <1>16, <1>8, <1>9
    <2>2. \A t \in derived[n] : \A x \in t : x \in Nat /\ x <= nonces
        BY <1>2 DEF DerivedDrawn
    <2>3. \A t \in derived'[n] : \A x \in t : x <= nonces'
        <3>1. derived'[n] = derived[n] \cup {tpk}
            BY <1>4
        <3> QED
            BY <1>5, <1>7, <1>8, <2>2, <3>1
    <2>4. DerivedDrawn(n)' /\ DerivedDrawn(m)'
        BY <2>1, <2>3 DEF DerivedDrawn, Other
    <2> QED
        BY <1>1, <2>4
<1>18. EndOk(n)'
    <2>1. LinkOk(n)'
        BY <1>1, <1>2, <1>3, <1>4, <1>5, <1>7 DEF LinkOk, NoTpk, Other
    <2>2. PeerDerived(n)'
        BY <1>4 DEF PeerDerived
    <2>3. Answered(n)'
        BY <1>14 DEF Answered
    <2>4. ResponderLater(n)'
        <3> SUFFICES ASSUME Responder(m)
                     PROVE  \E y \in link'[n].tpk : \A x \in link'[m].tpk : x < y
            BY <1>14 DEF ResponderLater, Other
        <3>1. link[m].tpk \in derived[m]
            BY <1>1 DEF Responder, LinkOk
        <3>2. \A x \in link[m].tpk : x < nonces + 1
            <4>1. \A x \in link[m].tpk : x \in Nat /\ x <= nonces
                BY <1>16, <3>1, Zenon
            <4>2. \A x \in Nat : x <= nonces => x < nonces + 1
                BY <1>2
            <4> QED
                BY <4>1, <4>2, Zenon
        <3> QED
            BY <1>7, <1>10, <3>2
    <2>5. ASSUME NEW g \in Sent(n)' PROVE FrameOk(n, g)'
        <3>1. CASE g \in Sent(n)
            <4>1. g \in Frame
                BY <1>1, <3>1 DEF Sent, Frames, Fields
            <4>2. FrameOk(n, g)
                BY <3>1
            <4> QED
                BY <1>2, <1>3, <1>4, <1>14, <4>1, <4>2 DEF FrameOk, Frame, NoTpk
        <3>2. CASE g = answer
            BY <1>2, <1>3, <1>4, <1>5, <1>6, <1>14, <3>2 DEF FrameOk, NoTpk
        <3> QED
            BY <1>11, <3>1, <3>2
    <2> QED
        BY <1>11, <1>17, <2>1, <2>2, <2>3, <2>4, <2>5 DEF TunnelsOk
<1>19. EndOk(m)'
    <2>1. link[m].snonce \in Nat /\ link[m].snonce <= nonces
        BY <1>1, <1>2 DEF Links, Idle, LinkOk
    <2>2. LinkOk(m)'
        BY <1>1, <1>2, <1>3, <1>4, <2>1 DEF LinkOk, NoTpk, Other
    <2>3. PeerDerived(m)'
        BY <1>1, <1>4 DEF PeerDerived, Other
    <2>4. Answered(m)'
        <3> SUFFICES ASSUME NEW t \in derived'[n], Initiator(m), link[m].snonce \in t
                     PROVE  /\ \A g \in Sent(m)' : g.act # "SETUP_REQ"
                            /\ Responder(n)' => link'[n].tpk = t
            BY <1>1, <1>4, <1>14 DEF Answered, Other
        <3>1. t = tpk
            <4>1. t \notin derived[n]
                BY <1>1, <1>5 DEF Answered
            <4> QED
                BY <1>4, <4>1
        <3>2. link[m].snonce = f.snonce
            BY <1>2, <1>7, <2>1, <3>1
        <3>3. ASSUME NEW g \in Sent(m)', g.act = "SETUP_REQ" PROVE FALSE
            <4>1. g \in Sent(m) /\ f.snonce < g.snonce
                BY <1>5, <1>11, <1>12, <3>3
            <4>2. g \in Frame
                BY <1>1, <4>1 DEF Sent, Frames, Fields
            <4>3. g.snonce <= link[m].snonce /\ g.snonce \in Nat
                BY <1>1, <3>3, <4>1, <4>2 DEF FrameOk, Frame
            <4> QED
                BY <1>5, <3>2, <4>1, <4>3
        <3> QED
            BY <1>4, <3>1, <3>3
    <2>5. ResponderLater(m)'
        <3>1. link'[n].tpk \notin derived'[m]
            <4>1. nonces + 1 \in tpk /\ ~(nonces + 1 <= nonces)
                BY <1>7, <1>8
            <4> QED
                BY <1>16, <1>9, <1>10, <4>1
        <3> QED
            BY <1>1, <3>1 DEF ResponderLater, Other
    <2>6. ASSUME NEW g \in Sent(m)' PROVE FrameOk(m, g)'
        <3>1. g \in Sent(m)
            BY <1>11, <2>6
        <3>2. g \in Frame
            BY <1>1, <3>1 DEF Sent, Frames, Fields
        <3>3. FrameOk(m, g)
            BY <1>1, <3>1
        <3> QED
            BY <1>2, <1>3, <1>4, <1>14, <3>2, <3>3 DEF FrameOk, Frame, NoTpk
    <2> QED
        BY <1>1, <1>11, <1>17, <2>2, <2>3, <2>4, <2>5, <2>6 DEF TunnelsOk
<1>20. \A k \in Sta : EndOk(k)'
    BY <1>1, <1>18, <1>19
<1> QED
    BY <1>13, <1>15, <1>20 DEF Sta

\* The initiator accepts an answer: the MIC shows that the responder holds the TPK.
LEMMA SetupRespKeeps ==
    ASSUME A # B, TdlsInd, NEW n \in Sta, down[n] # <<>>, NEW f, f = Head(down[n]),
           f.act = "SETUP_RESP", OnSetupResp(n, f), down' = [down EXCEPT ![n] = Tail(@)]
    PROVE  TdlsInd'
<1> DEFINE m == Other(n)
           tpk == {link[n].snonce, f.anonce}
           confirm == [act |-> "SETUP_CONFIRM", init |-> n, snonce |-> link[n].snonce,
                       anonce |-> f.anonce, mic |-> tpk]
<1> USE DEF TdlsInd, EndOk
<1>1. m \in Sta /\ m # n /\ Other(m) = n /\ \A k \in Sta : k = n \/ k = m
    BY TwoEnds
<1>2. /\ nonces \in Nat /\ TunnelsOk /\ link \in [Sta -> Links]
      /\ derived \in [Sta -> SUBSET SUBSET Nat]
    BY DEF Fields, TunnelsOk
<1>3. /\ nonces' = nonces
      /\ up' = [up EXCEPT ![n] = Append(@, confirm)]
      /\ link' = [link EXCEPT ![n].state = "ESTABLISHED", ![n].tpk = tpk]
      /\ derived' = [derived EXCEPT ![n] = @ \cup {tpk}]
      /\ link[n].state = "REQ_SENT" /\ f.mic = tpk
    BY DEF OnSetupResp, EncapTx, DeriveTpk
<1>4. /\ f \in Frame /\ f \in Sent(m) /\ FrameOk(m, f)
      /\ f.anonce \in Nat /\ f.anonce <= nonces
      /\ f.mic # NoTpk => f.mic \in derived[m]
    BY HeadOfTunnel DEF Frame, FrameOk
<1>5. /\ link[n] \in [state : {"REQ_SENT", "SETUP", "ESTABLISHED"}, init : Sta, snonce : Nat,
                      tpk : SUBSET Nat]
      /\ link[n].init = n /\ link[n].snonce \in Nat /\ link[n].snonce <= nonces
    <2>1. link[n] \in Links /\ link[n] # Idle
        BY <1>2, <1>3 DEF Idle
    <2> QED
        BY <1>3, <2>1 DEF Links, LinkOk
<1>6. /\ confirm \in Frame
      /\ confirm.act = "SETUP_CONFIRM" /\ confirm.snonce = link[n].snonce
      /\ confirm.anonce = f.anonce /\ confirm.mic = tpk
    BY <1>4, <1>5 DEF Frame
<1>7. /\ tpk \in SUBSET Nat /\ tpk # NoTpk
      /\ \A x : x \in tpk <=> x = link[n].snonce \/ x = f.anonce
    BY <1>4, <1>5 DEF NoTpk
<1> HIDE DEF confirm, tpk
<1>8. /\ link'[n].state = "ESTABLISHED" /\ link'[n].init = n /\ link'[n].tpk = tpk
      /\ link'[n].snonce = link[n].snonce /\ link'[n] \in Links
      /\ link'[m] = link[m]
    <2>1. /\ link'[n] = [[link[n] EXCEPT !.state = "ESTABLISHED"] EXCEPT !.tpk = tpk]
          /\ link'[m] = link[m]
        BY <1>1, <1>2, <1>3
    <2>2. link'[n] = [state |-> "ESTABLISHED", init |-> link[n].init, snonce |-> link[n].snonce,
                      tpk |-> tpk]
        BY <1>5, <2>1
    <2> QED
        BY <1>5, <1>7, <2>1, <2>2 DEF Links
<1>9. /\ derived'[n] = derived[n] \cup {tpk} /\ derived'[m] = derived[m]
      /\ tpk \in derived[m]
    BY <1>1, <1>2, <1>3, <1>4, <1>7
<1>10. /\ TunnelsOk' /\ Sent(n)' \subseteq Sent(n) \cup {confirm} /\ Sent(m)' \subseteq Sent(m)
    BY <1>2, <1>3, <1>6, PushTunnels
<1>11. Fields'
    <2>1. link' \in [Sta -> Links]
        <3>1. \A k \in Sta : link'[k] \in Links
            BY <1>1, <1>2, <1>8
        <3>2. link' = [k \in Sta |-> link'[k]]
            BY <1>2, <1>3
        <3> QED
            BY <3>1, <3>2
    <2>2. derived' \in [Sta -> SUBSET SUBSET Nat]
        BY <1>2, <1>3, <1>7
    <2> QED
        BY <1>2, <1>3, <1>10, <2>1, <2>2 DEF Fields, TunnelsOk
<1>12. /\ Initiator(m)' <=> Initiator(m)
       /\ Responder(m)' <=> Responder(m)
       /\ Initiator(n) /\ ~Responder(n)'
    BY <1>1, <1>3, <1>5, <1>8 DEF Initiator, Responder, Other
<1>13. Initiator(m) => link[m].snonce # link[n].snonce
    BY <1>1, <1>12 DEF OwnSNonce, Sta, Other
<1>14. OwnSNonce'
    BY <1>1, <1>8, <1>12, <1>13 DEF OwnSNonce, Sta, Other
<1>15. EndOk(n)'
    <2>1. LinkOk(n)'
        BY <1>1, <1>3, <1>5, <1>7, <1>8, <1>9 DEF LinkOk, NoTpk, Other
    <2>2. PeerDerived(n)'
        BY <1>8, <1>9 DEF PeerDerived, Other
    <2>3. Answered(n)'
        <3> SUFFICES ASSUME NEW t \in derived[m], link[n].snonce \in t
                     PROVE  /\ \A g \in Sent(n)' : g.act # "SETUP_REQ"
                            /\ Responder(m)' => link'[m].tpk = t
                            /\ Initiator(m)' => link'[n].snonce < link'[m].snonce
            BY <1>8, <1>9 DEF Answered, Other
        <3>1. /\ \A g \in Sent(n) : g.act # "SETUP_REQ"
              /\ Responder(m) => link[m].tpk = t
              /\ Initiator(m) => link[n].snonce < link[m].snonce
            BY <1>12 DEF Answered
        <3> QED
            BY <1>6, <1>8, <1>10, <1>12, <3>1
    <2>4. ResponderLater(n)'
        BY <1>12 DEF ResponderLater
    <2>5. ASSUME NEW g \in Sent(n)' PROVE FrameOk(n, g)'
        <3>1. CASE g \in Sent(n)
            <4>1. FrameOk(n, g)
                BY <3>1
            <4> QED
                BY <1>3, <1>8, <1>9, <1>12, <4>1 DEF FrameOk, NoTpk
        <3>2. CASE g = confirm
            BY <1>3, <1>4, <1>5, <1>6, <1>9, <3>2 DEF FrameOk, NoTpk
        <3> QED
            BY <1>10, <3>1, <3>2
    <2>6. DerivedDrawn(n)'
        <3>1. \A t \in derived[n] : \A x \in t : x <= nonces
            BY DEF DerivedDrawn
        <3>2. \A x \in tpk : x <= nonces
            BY <1>4, <1>5, <1>7
        <3> QED
            BY <1>3, <1>9, <3>1, <3>2 DEF DerivedDrawn
    <2> QED
        BY <1>10, <2>1, <2>2, <2>3, <2>4, <2>5, <2>6 DEF TunnelsOk
<1>16. EndOk(m)'
    <2>1. LinkOk(m)'
        <3>1. LinkOk(m) /\ link'[m] = link[m] /\ derived'[m] = derived[m] /\ nonces' = nonces
            BY <1>1, <1>3, <1>8, <1>9
        <3> QED
            BY <3>1 DEF LinkOk, NoTpk, Other
    <2>2. PeerDerived(m)'
        BY <1>1, <1>8, <1>9 DEF PeerDerived, Other
    <2>3. Answered(m)'
        <3> SUFFICES ASSUME NEW t \in derived'[n], Initiator(m), link[m].snonce \in t
                     PROVE  /\ \A g \in Sent(m) : g.act # "SETUP_REQ"
                            /\ link[m].snonce < link[n].snonce
            BY <1>1, <1>8, <1>10, <1>12 DEF Answered, Other
        <3>1. link[m].snonce # f.anonce
            <4>1. f.anonce < link[m].snonce
                BY <1>1, <1>4 DEF FrameOk
            <4> QED
                BY <1>4, <4>1
        <3>2. t \in derived[n]
            BY <1>7, <1>9, <1>13, <3>1
        <3> QED
            BY <1>1, <1>12, <3>2 DEF Answered
    <2>4. ResponderLater(m)'
        BY <1>1, <1>12 DEF ResponderLater, Other
    <2>5. ASSUME NEW g \in Sent(m)' PROVE FrameOk(m, g)'
        <3>1. g \in Sent(m)
            BY <1>10, <2>5
        <3>2. FrameOk(m, g)
            BY <1>1, <3>1
        <3> QED
            BY <1>3, <1>8, <1>9, <1>12, <3>2 DEF FrameOk, NoTpk
    <2>6. DerivedDrawn(m)'
        <3>1. \A t \in derived[m] : \A x \in t : x <= nonces
            BY <1>1 DEF DerivedDrawn
        <3> QED
            BY <1>3, <1>9, <3>1 DEF DerivedDrawn, Other
    <2> QED
        BY <1>1, <1>10, <2>1, <2>2, <2>3, <2>4, <2>5, <2>6 DEF TunnelsOk
<1>17. \A k \in Sta : EndOk(k)'
    BY <1>1, <1>15, <1>16
<1> QED
    BY <1>11, <1>14, <1>17 DEF Sta

-----------------------------------------------------------------------------
(* All steps, and the theorems.                                            *)

\* A Confirm or a Teardown is taken.
LEMMA TakeKeeps ==
    ASSUME A # B, TdlsInd, NEW n \in Sta, down[n] # <<>>,
           down' = [down EXCEPT ![n] = Tail(@)], UNCHANGED <<up, nonces, derived>>,
           NEW l, link' = [link EXCEPT ![n] = l],
           \/ l = link[n]
           \/ l = Idle
           \/ /\ link[n].state = "SETUP" /\ l = [link[n] EXCEPT !.state = "ESTABLISHED"]
              /\ Head(down[n]).mic = link[n].tpk
    PROVE  TdlsInd'
<1>1. link \in [Sta -> Links] /\ TunnelsOk
    BY DEF TdlsInd, Fields, EndOk, TunnelsOk
<1>2. link'[n] = l /\ \A k \in Sta : k # n => link'[k] = link[k]
    BY <1>1
<1>3. link[n].state = "SETUP" /\ Head(down[n]).mic = link[n].tpk => link[n].tpk \in derived[Other(n)]
    <2>1. link[n].state = "SETUP" => link[n].tpk # NoTpk
        BY DEF TdlsInd, EndOk, LinkOk
    <2>2. FrameOk(Other(n), Head(down[n]))
        BY HeadOfTunnel
    <2> QED
        BY <2>1, <2>2 DEF FrameOk
<1>4. \A k \in Sta : Settles(k)
    BY <1>2, <1>3 DEF Settles
<1>5. \A k \in Sta : link'[k] \in Links
    BY <1>4, SettledRoles DEF TdlsInd, EndOk
<1>6. link' \in [Sta -> Links]
    <2>1. link' = [k \in Sta |-> link'[k]]
        BY <1>1
    <2> QED
        BY <1>5, <2>1
<1>7. TunnelsOk' /\ \A k \in Sta : Sent(k)' \subseteq Sent(k)
    BY <1>1, TakeTunnels
<1>8. \A k \in Sta : Ordered(k)'
    BY <1>7 DEF TunnelsOk, Sta
<1>9. up' \in [Sta -> Seq(Frame)] /\ down' \in [Sta -> Seq(Frame)]
    BY <1>7 DEF TunnelsOk, Sta, Frame
<1> QED
    BY <1>4, <1>6, <1>7, <1>8, <1>9, QuietKeeps

\* The handling of a delivered frame keeps the invariant.
LEMMA DeliverKeeps ==
    ASSUME A # B, TdlsInd, NEW n \in Sta, Deliver(n)
    PROVE  TdlsInd'
<1> DEFINE f == Head(down[n])
<1>1. down[n] # <<>> /\ down' = [down EXCEPT ![n] = Tail(@)]
    BY DEF Deliver
<1>2. CASE f.act = "SETUP_REQ" /\ OnSetupReq(n, f)
    BY <1>1, <1>2, SetupReqKeeps
<1>3. CASE f.act = "SETUP_RESP" /\ OnSetupResp(n, f)
    BY <1>1, <1>3, SetupRespKeeps
<1>4. CASE f.act = "SETUP_CONFIRM" /\ OnSetupConfirm(n, f)
    <2>1. /\ link[n].state = "SETUP" /\ f.mic = link[n].tpk
          /\ link' = [link EXCEPT ![n] = [link[n] EXCEPT !.state = "ESTABLISHED"]]
          /\ UNCHANGED <<up, nonces, derived>>
        BY <1>4 DEF OnSetupConfirm
    <2> QED
        BY <1>1, <2>1, TakeKeeps
<1>5. CASE f.act = "TEARDOWN" /\ OnTeardown(n, f)
    BY <1>1, <1>5, TakeKeeps DEF OnTeardown
<1> QED
    BY <1>2, <1>3, <1>4, <1>5 DEF Deliver

\* Every step keeps the invariant.
LEMMA TdlsStep ==
    ASSUME A # B, TdlsInd, [Next]_vars
    PROVE  TdlsInd'
<1>1. link \in [Sta -> Links] /\ TunnelsOk
    BY DEF TdlsInd, Fields, EndOk, TunnelsOk
<1>2. ASSUME TunnelsOk', UNCHANGED <<nonces, derived>>, link' \in [Sta -> Links],
             \A k \in Sta : link'[k] = link[k] \/ link'[k] = Idle,
             \A k \in Sta : \A g \in Sent(k)' :
               \/ g \in Sent(k)
               \/ /\ g.act = "TEARDOWN" /\ g.snonce = 0 /\ g.anonce = 0
                  /\ g.mic = link[k].tpk
      PROVE  TdlsInd'
    <2>1. \A k \in Sta : Settles(k)
        BY <1>2 DEF Settles
    <2>2. \A k \in Sta : Ordered(k)'
        BY <1>2 DEF TunnelsOk, Sta
    <2>3. up' \in [Sta -> Seq(Frame)] /\ down' \in [Sta -> Seq(Frame)]
        BY <1>2 DEF TunnelsOk, Sta, Frame
    <2> QED
        BY <1>2, <2>1, <2>2, <2>3, QuietKeeps
<1>3. ASSUME NEW n \in Sta, StartSetup(n) PROVE TdlsInd'
    BY <1>3, StartSetupKeeps
<1>4. ASSUME NEW n \in Sta, SendTeardown(n) PROVE TdlsInd'
    <2> DEFINE f == [act |-> "TEARDOWN", init |-> link[n].init, snonce |-> 0, anonce |-> 0,
                     mic |-> link[n].tpk]
    <2>1. /\ up' = [up EXCEPT ![n] = Append(@, f)] /\ down' = down
          /\ link' = [link EXCEPT ![n] = Idle] /\ UNCHANGED <<nonces, derived>>
          /\ link[n].state # "IDLE"
        BY <1>4 DEF SendTeardown, EncapTx
    <2>2. link[n] \in [state : {"REQ_SENT", "SETUP", "ESTABLISHED"}, init : Sta, snonce : Nat,
                       tpk : SUBSET Nat]
        BY <1>1, <2>1 DEF Links, Idle
    <2>3. /\ f \in Frame /\ f.act = "TEARDOWN" /\ f.snonce = 0 /\ f.anonce = 0
          /\ f.mic = link[n].tpk
        BY <2>2 DEF Frame
    <2> HIDE DEF f
    <2>4. /\ TunnelsOk' /\ Sent(n)' \subseteq Sent(n) \cup {f}
          /\ Sent(Other(n))' \subseteq Sent(Other(n))
        BY <1>1, <2>1, <2>3, PushTunnels
    <2>5. ASSUME NEW k \in Sta, NEW g \in Sent(k)'
          PROVE  g \in Sent(k) \/ (k = n /\ g = f)
        <3>1. k = n \/ k = Other(n)
            BY TwoEnds
        <3> QED
            BY <2>4, <2>5, <3>1
    <2>6. /\ link' \in [Sta -> Links]
          /\ \A k \in Sta : link'[k] = link[k] \/ link'[k] = Idle
        BY <1>1, <2>1 DEF Links
    <2> QED
        BY <1>2, <2>1, <2>3, <2>4, <2>5, <2>6
<1>5. ASSUME NEW n \in Sta, Relay(n) PROVE TdlsInd'
    <2>1. TunnelsOk' /\ \A k \in Sta : Sent(k)' \subseteq Sent(k)
        BY <1>1, <1>5, RelayTunnels
    <2> QED
        BY <1>1, <1>2, <1>5, <2>1 DEF Relay
<1>6. ASSUME NEW n \in Sta, Deliver(n) PROVE TdlsInd'
    BY <1>6, DeliverKeeps
<1>7. ASSUME NEW n \in Sta, DropDown(n) PROVE TdlsInd'
    <2>1. TunnelsOk' /\ \A k \in Sta : Sent(k)' \subseteq Sent(k)
        BY <1>1, <1>7, TakeTunnels DEF DropDown
    <2> QED
        BY <1>1, <1>2, <1>7, <2>1 DEF DropDown
<1>8. ASSUME NEW n \in Sta, DropUp(n) PROVE TdlsInd'
    <2>1. TunnelsOk' /\ \A k \in Sta : Sent(k)' \subseteq Sent(k)
        BY <1>1, <1>8, LoseTunnels DEF DropUp
    <2> QED
        BY <1>1, <1>2, <1>8, <2>1 DEF DropUp
<1>9. ASSUME NEW n \in Sta, Rejoin(n) PROVE TdlsInd'
    <2>1. TunnelsOk' /\ \A k \in Sta : Sent(k)' \subseteq Sent(k)
        BY <1>1, <1>9, LoseTunnels DEF Rejoin
    <2>2. /\ link' \in [Sta -> Links] /\ UNCHANGED <<nonces, derived>>
          /\ \A k \in Sta : link'[k] = link[k] \/ link'[k] = Idle
        BY <1>1, <1>9 DEF Rejoin, Links
    <2> QED
        BY <1>2, <2>1, <2>2
<1>10. CASE UNCHANGED vars
    <2>1. UNCHANGED <<link, up, down, nonces, derived>>
        BY <1>10 DEF vars
    <2>2. TunnelsOk' /\ \A k \in Sta : Sent(k)' = Sent(k)
        BY <1>1, <2>1 DEF TunnelsOk, Ordered, Sent
    <2> QED
        BY <1>1, <1>2, <2>1, <2>2
<1> QED
    BY <1>3, <1>4, <1>5, <1>6, <1>7, <1>8, <1>9, <1>10 DEF Next

\* No link and no frame at first.
LEMMA TdlsStart ==
    ASSUME A # B, Init
    PROVE  TdlsInd
<1>1. /\ link = [n \in Sta |-> Idle] /\ up = [n \in Sta |-> <<>>] /\ down = [n \in Sta |-> <<>>]
      /\ nonces = 0 /\ derived = [n \in Sta |-> {}]
    BY DEF Init
<1>2. Fields
    BY <1>1 DEF Fields, Links
<1>3. ASSUME NEW n \in Sta PROVE EndOk(n) /\ ~Initiator(n)
    <2>1. Other(n) \in Sta
        BY TwoEnds
    <2>2. up[n] = <<>> /\ down[Other(n)] = <<>>
        BY <1>1, <2>1
    <2>3. \A i : i \notin 1..Len(<<>>)
        OBVIOUS
    <2>4. Rising(<<>>) /\ Frames(<<>>) = {}
        BY <2>3 DEF Rising, Frames
    <2>5. Ordered(n) /\ Sent(n) = {}
        BY <2>2, <2>4 DEF Ordered, Flow, Before, Sent
    <2>6. /\ link[n] = Idle /\ derived[n] = {} /\ derived[Other(n)] = {}
        BY <1>1, <2>1
    <2>7. Idle.state = "IDLE" /\ Idle.tpk = NoTpk /\ Idle.snonce = 0
        BY DEF Idle
    <2>8. ~Initiator(n) /\ ~Responder(n)
        BY <2>6, <2>7 DEF Initiator, Responder
    <2>9. LinkOk(n)
        BY <1>1, <2>6, <2>7 DEF LinkOk
    <2> QED
        BY <2>5, <2>6, <2>7, <2>8, <2>9
           DEF EndOk, DerivedDrawn, PeerDerived, Answered, ResponderLater
<1>4. OwnSNonce
    BY <1>3 DEF OwnSNonce, Sta
<1> QED
    BY <1>2, <1>3, <1>4 DEF TdlsInd

\* Two ESTABLISHED ends hold one TPK: initiator and responder by Answered, two initiators and
\* two responders cannot both have been answered.
LEMMA KeysAgree ==
    ASSUME A # B, TdlsInd
    PROVE  KeyConfirmed
<1>1. ASSUME NEW n \in Sta, link[n].state = "ESTABLISHED"
      PROVE  /\ link[n].tpk \in derived[Other(n)]
             /\ (Initiator(n) /\ link[n].snonce \in link[n].tpk) \/ Responder(n)
    <2>1. link[n] \in Links /\ LinkOk(n) /\ PeerDerived(n)
        BY DEF TdlsInd, Fields, EndOk
    <2>2. link[n].init \in Sta
        BY <1>1, <2>1 DEF Links, Idle
    <2>3. link[n].init = n \/ link[n].init = Other(n)
        BY <2>2, TwoEnds
    <2> QED
        BY <1>1, <2>1, <2>3 DEF LinkOk, PeerDerived, Initiator, Responder
<1>2. ASSUME NEW n \in Sta, link[n].state = "ESTABLISHED", link[Other(n)].state = "ESTABLISHED"
      PROVE  link[n].tpk = link[Other(n)].tpk
    <2> DEFINE m == Other(n)
    <2>1. m \in Sta /\ Other(m) = n
        BY TwoEnds
    <2>2. /\ link[n].tpk \in derived[m] /\ link[m].tpk \in derived[n]
          /\ (Initiator(n) /\ link[n].snonce \in link[n].tpk) \/ Responder(n)
          /\ (Initiator(m) /\ link[m].snonce \in link[m].tpk) \/ Responder(m)
        BY <1>1, <1>2, <2>1
    <2>3. /\ Answered(n) /\ Answered(m) /\ ResponderLater(n) /\ ResponderLater(m)
          /\ DerivedDrawn(n) /\ DerivedDrawn(m)
          /\ derived \in [Sta -> SUBSET SUBSET Nat] /\ link \in [Sta -> Links]
        BY <2>1 DEF TdlsInd, EndOk, Fields
    <2>4. CASE Initiator(n) /\ link[n].snonce \in link[n].tpk /\ Responder(m)
        BY <2>1, <2>2, <2>3, <2>4 DEF Answered
    <2>5. CASE Initiator(m) /\ link[m].snonce \in link[m].tpk /\ Responder(n)
        BY <2>1, <2>2, <2>3, <2>5 DEF Answered
    <2>6. CASE /\ Initiator(n) /\ link[n].snonce \in link[n].tpk
               /\ Initiator(m) /\ link[m].snonce \in link[m].tpk
        <3>1. link[n].snonce < link[m].snonce /\ link[m].snonce < link[n].snonce
            BY <2>1, <2>2, <2>3, <2>6 DEF Answered
        <3>2. link[n].snonce \in Nat /\ link[m].snonce \in Nat
            BY <2>1, <2>3 DEF Links, Idle
        <3> QED
            BY <3>1, <3>2
    <2>7. CASE Responder(n) /\ Responder(m)
        <3>1. PICK y \in link[n].tpk : \A x \in link[m].tpk : x < y
            BY <2>1, <2>2, <2>3, <2>7 DEF ResponderLater
        <3>2. PICK x \in link[m].tpk : \A z \in link[n].tpk : z < x
            BY <2>1, <2>2, <2>3, <2>7 DEF ResponderLater
        <3>3. x \in Nat /\ y \in Nat
            BY <2>1, <2>2, <2>3
        <3> QED
            BY <3>1, <3>2, <3>3
    <2> QED
        BY <2>2, <2>4, <2>5, <2>6, <2>7
<1>3. (\A n \in Sta : link[n].state = "ESTABLISHED") => link[A].tpk = link[B].tpk
    <2>1. A \in Sta /\ B \in Sta /\ Other(A) = B
        BY DEF Sta, Other
    <2> QED
        BY <1>2, <2>1
<1> QED
    BY <1>1, <1>3 DEF KeyConfirmed

\* The invariant types the state.
LEMMA TdlsTyped ==
    ASSUME TdlsInd
    PROVE  TypeOK
<1>1. ASSUME NEW n \in Sta
      PROVE  /\ link[n].state \in {"IDLE", "REQ_SENT", "SETUP", "ESTABLISHED"}
             /\ link[n].tpk # NoTpk <=> link[n].state \in {"SETUP", "ESTABLISHED"}
    <2>1. link[n] \in Links /\ LinkOk(n)
        BY DEF TdlsInd, Fields, EndOk
    <2>2. link[n].state \in {"IDLE", "REQ_SENT", "SETUP", "ESTABLISHED"}
        BY <2>1 DEF Links, Idle
    <2> QED
        BY <2>1, <2>2 DEF LinkOk
<1>2. ASSUME NEW n \in Sta
      PROVE  /\ \A i \in DOMAIN up[n] : up[n][i] \in Frame
             /\ \A i \in DOMAIN down[n] : down[n][i] \in Frame
    <2>1. up[n] \in Seq(Frame) /\ down[n] \in Seq(Frame)
        BY DEF TdlsInd, Fields
    <2> QED
        BY <2>1
<1> QED
    BY <1>1, <1>2 DEF TypeOK

\* Two STAs that both believe in the direct link hold one TPK, and an ESTABLISHED end's TPK
\* was derived by its peer, after any losses, crossings, teardowns and rejoins
\* (rf_2a4m1_tdls_on_setup_req, _resp and _confirm).
THEOREM TdlsCorrect == TdlsConstants => (Spec => []TdlsInv)
<1> SUFFICES ASSUME A # B
             PROVE  Spec => []TdlsInv
    BY DEF TdlsConstants
<1>1. Init => TdlsInd
    BY TdlsStart
<1>2. TdlsInd /\ [Next]_vars => TdlsInd'
    BY TdlsStep
<1>3. TdlsInd => TdlsInv
    BY KeysAgree, TdlsTyped DEF TdlsInv
<1> QED
    BY <1>1, <1>2, <1>3, PTL DEF Spec

\* A link that holds a TPK is torn down from outside only by a STA that derived that TPK
\* (rf_2a4m1_tdls_on_teardown's MIC check against frames sent before the key).
THEOREM TeardownAuthentic == TdlsConstants => (Spec => TeardownByKeyHolder)
<1> SUFFICES ASSUME A # B
             PROVE  Spec => TeardownByKeyHolder
    BY DEF TdlsConstants
<1> DEFINE Held == \A n \in Sta :
                      (Deliver(n) /\ link[n].tpk # NoTpk /\ link'[n] = Idle) =>
                          link[n].tpk \in derived[Other(n)]
<1>1. Init => TdlsInd
    BY TdlsStart
<1>2. TdlsInd /\ [Next]_vars => TdlsInd'
    BY TdlsStep
<1>3. TdlsInd => Held
    <2> SUFFICES ASSUME TdlsInd, NEW n \in Sta, Deliver(n), link[n].tpk # NoTpk, link'[n] = Idle
                 PROVE  link[n].tpk \in derived[Other(n)]
        OBVIOUS
    <2> DEFINE f == Head(down[n])
    <2>1. link \in [Sta -> Links] /\ down[n] # <<>> /\ Idle.state = "IDLE"
        BY DEF TdlsInd, Fields, Deliver, Idle
    <2>2. FrameOk(Other(n), f)
        BY <2>1, HeadOfTunnel
    <2>3. ~OnSetupReq(n, f)
        BY <2>1 DEF OnSetupReq
    <2>4. ~OnSetupResp(n, f)
        BY <2>1 DEF OnSetupResp, Links
    <2>5. ~OnSetupConfirm(n, f)
        BY <2>1 DEF OnSetupConfirm, Links
    <2>6. OnTeardown(n, f)
        BY <2>3, <2>4, <2>5 DEF Deliver
    <2>7. f.mic = link[n].tpk
        BY <2>6 DEF OnTeardown, TeardownOk
    <2> QED
        BY <2>2, <2>7 DEF FrameOk
<1>4. TdlsInd /\ [Next]_vars => [Held]_vars
    BY <1>3
<1> QED
    BY <1>1, <1>2, <1>4, PTL DEF Spec, TeardownByKeyHolder

=============================================================================
