------------------------------ MODULE DataPath ------------------------------
(***************************************************************************)
(* The bytes of one data frame between the network stack and the air:      *)
(* ndo_start_xmit and hw_data_tx on the way out; rx_process_seg,           *)
(* rx_to_netdev and, for EAPOL, the core's rx_dot11_data on the way in.    *)
(* The chip is external: it pads the header to four bytes (L2PAD), strips  *)
(* MIC and FCS from what it decrypts and may strip the CCMP header with    *)
(* them, leaves the FCS on what it does not decrypt, and rounds the DMA    *)
(* length up to four.                                                      *)
(*                                                                         *)
(* A byte is a pair <<tag, position>>, so that a byte lost, kept or moved  *)
(* shows.  Every frame of the bounds is an initial state and takes one     *)
(* pass through the code.                                                  *)
(***************************************************************************)
EXTENDS Naturals, Sequences, SequencesExt, FiniteSetsExt

CONSTANTS
    PayloadLens,  \* bound: payload lengths behind the LLC/SNAP
    EapolMin,     \* the shortest EAPOL-Key PDU whose length field is used; 95
    TxBuf         \* RF_2A4M1_TX_BUF_SZ

DataPathConstants ==
    /\ PayloadLens \subseteq Nat /\ EapolMin \in Nat
    /\ TxBuf \in Nat /\ TxBuf % 4 = 0

VARIABLES frame,    \* what a station sends: see Frames
          verdict   \* what became of it

vars == <<frame, verdict>>

Bytes(tag, n) == [i \in 1..n |-> <<tag, i>>]
RoundUp4(n) == ((n + 3) \div 4) * 4

Fcs == Bytes("fcs", 4)
CcmpHdr == Bytes("ccmp", 8)
Mic == Bytes("mic", 8)
Snap(type) == <<<<"aa", 0>>, <<"aa", 0>>, <<"03", 0>>>> \o Bytes("oui", 3)
              \o <<<<type, 1>>, <<type, 2>>>>

\* A frame of the air: header flags, protection, the key the receiver needs,
\* whether the body starts with LLC/SNAP, its ethertype and payload.
Frames ==
    { f \in [ds : {"from", "to"}, qos : BOOLEAN, order : BOOLEAN,
             prot : BOOLEAN, snap : BOOLEAN, type : {"ip", "eapol"},
             plen : PayloadLens] : f.order => f.qos }

\* ieee80211_hdrlen of a three-address data frame.
HdrLen(f) == 24 + (IF f.qos THEN 2 ELSE 0) + (IF f.order THEN 4 ELSE 0)

Header(f) == Bytes("hdr", HdrLen(f))
Payload(f) == Bytes("data", f.plen)
Body(f) == (IF f.snap THEN Snap(f.type) ELSE Bytes("llc", 3)) \o Payload(f)

\* The addresses in the header, by offset.
Addr(hdr, n) == SubSeq(hdr, 6 * n - 1, 6 * n + 4)
Da(f, hdr) == Addr(hdr, IF f.ds = "to" THEN 3 ELSE 1)
Sa(f, hdr) == Addr(hdr, IF f.ds = "to" THEN 2 ELSE 3)

\* What the chip did with a frame: decrypted it or not, with or without the
\* CCMP header.
Receptions(f) ==
    { r \in [hw : BOOLEAN, ivKept : BOOLEAN, key : BOOLEAN] :
        (r.hw => f.prot) /\ (r.ivKept => r.hw) }

\* The MPDU without the L2 pad, its length MPDU_LEN.
Mpdu(f, r) ==
    Header(f)
    \o (IF f.prot /\ (~r.hw \/ r.ivKept) THEN CcmpHdr ELSE <<>>)
    \o Body(f)
    \o (IF f.prot /\ ~r.hw THEN Mic ELSE <<>>)
    \o (IF r.hw THEN <<>> ELSE Fcs)

Padded(f) == HdrLen(f) % 4 # 0

\* The payload rx_unwrap finds behind the RXWI: pad in place, DMA-aligned.
Segment(f, r) ==
    LET m == Mpdu(f, r)
        s == IF Padded(f)
             THEN Header(f) \o Bytes("l2pad", 2) \o SubSeq(m, HdrLen(f) + 1, Len(m)) ELSE m
    IN s \o Bytes("align", RoundUp4(28 + Len(s)) - (28 + Len(s)))

\* Mutant: the FCS is stripped from every frame.
StripFcsAlways(r, flen) == flen - 4

\* rx_process_seg: the FCS is there unless the chip decrypted.
StripFcs(r, flen) == IF ~r.hw /\ flen > 4 THEN flen - 4 ELSE flen

\* The header moves up over the pad; the core's span loses the two bytes.
Unpad(f, seg, flen) ==
    IF Padded(f) /\ flen > HdrLen(f) + 2
    THEN [data |-> SubSeq(seg, 1, HdrLen(f)) \o SubSeq(seg, HdrLen(f) + 3, Len(seg)),
          flen |-> flen, len |-> Len(seg) - 2]
    ELSE [data |-> seg, flen |-> flen, len |-> Len(seg)]

IsSnap(b) == Len(b) >= 3 /\ b[1][1] = "aa" /\ b[2][1] = "aa" /\ b[3][1] = "03"

\* The hardware-decrypted body: the CCMP header is found by the signature.
HwBody(b) ==
    IF Len(b) >= 11 /\ ~IsSnap(b) /\ IsSnap(SubSeq(b, 9, Len(b)))
    THEN SubSeq(b, 9, Len(b)) ELSE b

\* ccmp_decrypt: header and MIC off; the right key is assumed (r.key).
SwBody(b) == SubSeq(b, 9, Len(b) - 8)

Dropped == [to |-> "dropped"]

\* Mutant: EAPOL goes up the stack like any other ethertype.
ToStackAny(b) == Len(b) >= 8 /\ IsSnap(b)

\* Long enough, LLC/SNAP, and not EAPOL.
ToStack(b) == Len(b) >= 8 /\ IsSnap(b) /\ b[7][1] # "eapol"

\* rx_dot11_data: the EAPOL PDU of a clear frame, cut by its length field.
CoreEapol(f, len, data) ==
    LET pdu == SubSeq(data, HdrLen(f) + 9, len)
        total == f.plen
    IN IF total >= EapolMin /\ total <= Len(pdu) THEN SubSeq(pdu, 1, total) ELSE pdu

\* What the core sees of a frame that is not bridged.
ToCore(f, u) ==
    [to |-> "core",
     start |-> SubSeq(u.data, 1, HdrLen(f)),
     eapol |-> IF ~f.prot /\ f.snap /\ f.type = "eapol" /\ u.len >= HdrLen(f) + 8
               THEN CoreEapol(f, u.len, u.data) ELSE <<>>]

\* The Ethernet frame of rx_to_netdev.
Bridge(f, hdr, b) ==
    [to |-> "stack", da |-> Da(f, hdr), sa |-> Sa(f, hdr),
     type |-> b[7][1], payload |-> SubSeq(b, 9, Len(b))]

\* rx_process_seg and rx_to_netdev for one segment.
RxProcessSeg(f, r) ==
    LET seg == Segment(f, r)
        u == Unpad(f, seg, StripFcs(r, Min({Len(Mpdu(f, r)), Len(seg)})))
        d == SubSeq(u.data, 1, u.flen)
        hdr == SubSeq(d, 1, HdrLen(f))
        raw == SubSeq(d, HdrLen(f) + 1, Len(d))
        b == IF ~f.prot THEN raw ELSE IF r.hw THEN HwBody(raw) ELSE SwBody(raw)
    IN IF f.prot /\ ~r.hw /\ ~r.key THEN ToCore(f, u)
       ELSE IF ToStack(b) THEN Bridge(f, hdr, b) ELSE ToCore(f, u)

\* hw_data_tx: a plain three-address toDS data frame, Protected, LLC/SNAP.
HwDataTx(type, plen) ==
    [ds |-> "to", qos |-> FALSE, order |-> FALSE, prot |-> TRUE, snap |-> TRUE,
     type |-> type, plen |-> plen]

\* Mutant: the check leaves out the TXWI.
TxAcceptsNoTxwi(plen) == 24 + 8 + plen + 8 <= TxBuf

\* hw_data_tx's -EMSGSIZE check.
TxAccepts(plen) == 24 + 8 + plen + 20 + 8 <= TxBuf

\* tx_wrap: TXINFO, the TXWI and the MPDU rounded up to four, the FCE word.
TxWrapLen(plen) == 4 + RoundUp4(20 + 24 + 8 + plen) + 4

Pending == [to |-> "pending"]

Init == frame \in Frames /\ verdict = Pending

\* A frame of the air is received.
Receive ==
    /\ verdict = Pending
    /\ \E r \in Receptions(frame) :
         verdict' = [out |-> RxProcessSeg(frame, r), how |-> r, to |-> "received"]
    /\ UNCHANGED frame

\* The stack sends an Ethernet frame of this type and length; a peer with the
\* key reads it the way this driver does, with the chip's CCMP header and MIC.
Transmit ==
    /\ verdict = Pending
    /\ LET f == HwDataTx(frame.type, frame.plen) IN
         verdict' = IF ~TxAccepts(frame.plen) THEN Dropped
                    ELSE [to |-> "sent", wrapped |-> TxWrapLen(frame.plen),
                          out |-> RxProcessSeg(f, [hw |-> FALSE, ivKept |-> FALSE, key |-> TRUE])]
    /\ UNCHANGED frame

Next == Receive \/ Transmit
Spec == Init /\ [][Next]_vars

\* The receiver has or can make the plaintext.
Readable(f, r) == ~f.prot \/ r.hw \/ r.key

\* Whatever pad, FCS, CCMP header and decryption the chip applied, the stack
\* gets the sender's addresses, ethertype and payload to the byte, and gets
\* every LLC/SNAP frame that can be read and is not EAPOL (rx_process_seg's
\* FCS and L2PAD arithmetic, rx_to_netdev's search for the signature).
BridgedExact ==
    verdict.to = "received" =>
        LET o == verdict.out IN
        (frame.snap /\ frame.type # "eapol" /\ Readable(frame, verdict.how)) =>
            o = Bridge(frame, Header(frame), Body(frame))

\* EAPOL never goes up the stack; the clear one reaches the 4-way with its
\* header in place and exactly its PDU, without pad, FCS or alignment.
EapolReachesCore ==
    (verdict.to = "received" /\ frame.snap /\ frame.type = "eapol") =>
        LET o == verdict.out IN
        /\ o.to = "core"
        /\ ~frame.prot /\ frame.plen >= EapolMin =>
             o.start = Header(frame) /\ o.eapol = Payload(frame)

\* Every received frame goes where it belongs, to the byte.
ReceivedInv == BridgedExact /\ EapolReachesCore

\* What the stack sends arrives as it was sent, from this station's address
\* to the destination it named; a frame hw_data_tx accepts fits the buffer
\* that tx_wrap fills.
SentIsReceived ==
    verdict.to = "sent" =>
        /\ verdict.wrapped <= TxBuf
        /\ frame.type # "eapol" =>
             /\ verdict.out.payload = Payload(frame) /\ verdict.out.type = frame.type
             /\ verdict.out.da = Addr(Bytes("hdr", 24), 3)
             /\ verdict.out.sa = Addr(Bytes("hdr", 24), 2)
=============================================================================
