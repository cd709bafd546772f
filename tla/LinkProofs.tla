---------------------------- MODULE LinkProofs ------------------------------
(***************************************************************************)
(* Theorems about the data link over the chip: the bytes of a data frame   *)
(* (module DataPath), for every payload length and buffer size, and the    *)
(* link statistics and TX-status reports (module LinkStats), for every     *)
(* FIFO depth, number of frames and of reconnects.                         *)
(***************************************************************************)
EXTENDS Glue, Integers, SequenceTheorems, FiniteSets, FiniteSetTheorems, TLAPS

-----------------------------------------------------------------------------
(* The bytes of a data frame.                                              *)

Tags == {"hdr", "ccmp", "mic", "fcs", "data", "llc", "l2pad", "align", "aa", "03", "oui", "ip", "eapol"}
Byte == Tags \X Nat

\* The two parts of a concatenation.
LEMMA PartsOfConcat ==
    ASSUME NEW S, NEW s \in Seq(S), NEW t \in Seq(S)
    PROVE  /\ SubSeq(s \o t, 1, Len(s)) = s
           /\ SubSeq(s \o t, Len(s) + 1, Len(s) + Len(t)) = t
<1>1. /\ s \o t \in Seq(S) /\ Len(s \o t) = Len(s) + Len(t)
      /\ \A i \in 1..(Len(s) + Len(t)) : (s \o t)[i] = IF i <= Len(s) THEN s[i] ELSE t[i - Len(s)]
    BY ConcatProperties
<1>2. /\ Len(s) \in Nat /\ Len(t) \in Nat
      /\ \A i \in 1..Len(s) : s[i] \in S
      /\ \A i \in 1..Len(t) : t[i] \in S
    BY LenProperties, ElementOfSeq
<1>3. SubSeq(s \o t, 1, Len(s)) = s
    <2> DEFINE c == s \o t
               u == SubSeq(c, 1, Len(s))
    <2>1. \A i \in 1..Len(s) : c[i] = s[i] /\ c[i] \in S
        BY <1>1, <1>2
    <2> HIDE DEF c
    <2>2. /\ u \in Seq(S) /\ Len(u) = IF 1 <= Len(s) THEN Len(s) - 1 + 1 ELSE 0
          /\ \A i \in 1..(Len(s) - 1 + 1) : u[i] = c[1 + i - 1]
        BY <1>2, <2>1, SubSeqProperties
    <2> HIDE DEF u
    <2>3. Len(u) = Len(s) /\ \A i \in 1..Len(u) : u[i] = s[i]
        BY <1>2, <2>1, <2>2
    <2>4. u = s
        BY <2>2, <2>3, SeqEqual
    <2> QED
        BY <2>4 DEF u, c
<1>4. SubSeq(s \o t, Len(s) + 1, Len(s) + Len(t)) = t
    <2> DEFINE c == s \o t
               a == Len(s) + 1
               b == Len(s) + Len(t)
               u == SubSeq(c, a, b)
    <2>1. \A i \in a..b : c[i] \in S
        BY <1>1, <1>2
    <2>2. \A i \in 1..Len(t) : c[a + i - 1] = t[i]
        BY <1>1, <1>2
    <2>3. a \in Int /\ b \in Int /\ b - a + 1 = Len(t) /\ (a <= b <=> Len(t) # 0)
        BY <1>2
    <2> HIDE DEF c, a, b
    <2>4. /\ u \in Seq(S) /\ Len(u) = IF a <= b THEN b - a + 1 ELSE 0
          /\ \A i \in 1..(b - a + 1) : u[i] = c[a + i - 1]
        BY <2>1, <2>3, SubSeqProperties
    <2> HIDE DEF u
    <2>5. Len(u) = Len(t) /\ \A i \in 1..Len(u) : u[i] = t[i]
        BY <1>2, <2>2, <2>3, <2>4
    <2>6. u = t
        BY <2>4, <2>5, SeqEqual
    <2> QED
        BY <2>6 DEF u, c, a, b
<1> QED
    BY <1>3, <1>4

\* A field of n bytes: its length and each of its bytes.
LEMMA BytesAre ==
    ASSUME NEW tag \in Tags, NEW n \in Nat
    PROVE  /\ Path!Bytes(tag, n) \in Seq(Byte)
           /\ Len(Path!Bytes(tag, n)) = n
           /\ \A i \in 1..n : Path!Bytes(tag, n)[i] = <<tag, i>>
<1>1. ASSUME NEW i \in 1..n PROVE <<tag, i>> \in Byte
    <2>1. i \in Nat
        OBVIOUS
    <2> QED
        BY <2>1, Zenon DEF Byte
<1> DEFINE b == [i \in 1..n |-> <<tag, i>>]
<1>2. b \in [1..n -> Byte]
    BY <1>1
<1>3. b \in Seq(Byte)
    BY <1>2, SeqDef
<1>4. Len(b) = n
    BY <1>2, <1>3, LenProperties
<1> QED
    BY <1>3, <1>4 DEF Path!Bytes

\* The LLC/SNAP header: eight bytes, the signature and the ethertype in place.
LEMMA SnapIs ==
    ASSUME NEW type \in Tags
    PROVE  /\ Path!Snap(type) \in Seq(Byte) /\ Len(Path!Snap(type)) = 8
           /\ Path!Snap(type)[1][1] = "aa" /\ Path!Snap(type)[2][1] = "aa"
           /\ Path!Snap(type)[3][1] = "03" /\ Path!Snap(type)[7][1] = type
<1> DEFINE s == <<<<"aa", 0>>, <<"aa", 0>>, <<"03", 0>>>>
           o == Path!Bytes("oui", 3)
           e == <<<<type, 1>>, <<type, 2>>>>
<1>1. s \in Seq(Byte) /\ Len(s) = 3 /\ s[1][1] = "aa" /\ s[2][1] = "aa" /\ s[3][1] = "03"
    <2>1. <<"aa", 0>> \in Byte /\ <<"03", 0>> \in Byte
        BY DEF Byte, Tags
    <2> QED
        BY <2>1
<1>2. e \in Seq(Byte) /\ Len(e) = 2 /\ e[1][1] = type
    <2>1. <<type, 1>> \in Byte /\ <<type, 2>> \in Byte
        BY DEF Byte
    <2> QED
        BY <2>1
<1>3. o \in Seq(Byte) /\ Len(o) = 3
    <2>1. "oui" \in Tags /\ 3 \in Nat
        BY DEF Tags
    <2> QED
        BY <2>1, BytesAre
<1> HIDE DEF s, o, e
<1> DEFINE so == s \o o
           soe == so \o e
<1>4. /\ so \in Seq(Byte) /\ Len(so) = 6
      /\ \A i \in 1..3 : so[i] = s[i]
    <2>1. /\ so \in Seq(Byte) /\ Len(so) = Len(s) + Len(o)
          /\ \A i \in 1..(Len(s) + Len(o)) : so[i] = IF i <= Len(s) THEN s[i] ELSE o[i - Len(s)]
        BY <1>1, <1>3, ConcatProperties
    <2> HIDE DEF so
    <2> QED
        BY <1>1, <1>3, <2>1
<1> HIDE DEF so
<1>5. /\ soe \in Seq(Byte) /\ Len(soe) = 8
      /\ \A i \in 1..6 : soe[i] = so[i]
      /\ soe[7] = e[1]
    <2>1. /\ soe \in Seq(Byte) /\ Len(soe) = Len(so) + Len(e)
          /\ \A i \in 1..(Len(so) + Len(e)) : soe[i] = IF i <= Len(so) THEN so[i] ELSE e[i - Len(so)]
        BY <1>2, <1>4, ConcatProperties
    <2> HIDE DEF soe
    <2> QED
        BY <1>2, <1>4, <2>1
<1>6. Path!Snap(type) = soe
    BY DEF Path!Snap, s, o, e, so
<1> HIDE DEF soe
<1> QED
    BY <1>1, <1>2, <1>4, <1>5, <1>6

\* A concatenation of byte strings, and its length.
LEMMA Joined ==
    ASSUME NEW s \in Seq(Byte), NEW t \in Seq(Byte)
    PROVE  s \o t \in Seq(Byte) /\ Len(s \o t) = Len(s) + Len(t) /\ Len(s) \in Nat /\ Len(t) \in Nat
BY ConcatProperties, LenProperties

\* Three strings joined from the left and from the right.
Regrouped(s, t, u) == (s \o t) \o u = s \o (t \o u)

\* Concatenation of byte strings is associative.
LEMMA Assoc == \A s, t, u \in Seq(Byte) : Regrouped(s, t, u)
<1> DEFINE On(S) == \A s, t, u \in Seq(S) : (s \o t) \o u = s \o (t \o u)
<1>1. \A S : On(S)
    BY ConcatAssociative
<1> HIDE DEF On
<1>2. On(Byte)
    BY <1>1, Zenon
<1> QED
    BY <1>2 DEF On, Regrouped

\* Four byte strings joined from the left, from the right, and as two pairs.
AllRegrouped(h, x, c, a) ==
    /\ (h \o x) \o (c \o a) = h \o (x \o (c \o a))
    /\ ((h \o x) \o c) \o a = (h \o x) \o (c \o a)
    /\ h \o ((x \o c) \o a) = (h \o x) \o (c \o a)

\* All three joins of four byte strings are the same string.
LEMMA Regroup ==
    ASSUME NEW h \in Seq(Byte), NEW x \in Seq(Byte), NEW c \in Seq(Byte), NEW a \in Seq(Byte)
    PROVE  AllRegrouped(h, x, c, a)
<1>1. h \o x \in Seq(Byte) /\ c \o a \in Seq(Byte)
    BY Joined
<1>2. Regrouped(h, x, c \o a) /\ Regrouped(h \o x, c, a) /\ Regrouped(x, c, a)
    BY <1>1, Assoc, Zenon
<1> QED
    BY <1>2, Zenon DEF Regrouped, AllRegrouped

\* The shortest of two lengths.
LEMMA MinOfTwo ==
    ASSUME NEW a \in Nat, NEW b \in Nat, a <= b
    PROVE  Path!Min({a, b}) = a
<1>1. \A y \in {a, b} : a <= y
    OBVIOUS
<1>2. \A x \in {a, b} : (\A y \in {a, b} : x <= y) => x = a
    OBVIOUS
<1> QED
    BY <1>1, <1>2 DEF Path!Min

\* Rounding up to a word only adds.
LEMMA Rounded ==
    ASSUME NEW n \in Nat
    PROVE  Path!RoundUp4(n) - n \in Nat
BY DEF Path!RoundUp4

\* The fields of a frame and the lengths they give it.
LEMMA FrameIs ==
    ASSUME Path!DataPathConstants, NEW f \in Path!Frames
    PROVE  /\ f.plen \in Nat /\ f.type \in Tags /\ f.prot \in BOOLEAN
           /\ Path!HdrLen(f) \in Nat /\ Path!HdrLen(f) >= 24
           /\ Path!Header(f) \in Seq(Byte) /\ Len(Path!Header(f)) = Path!HdrLen(f)
           /\ Path!Payload(f) \in Seq(Byte) /\ Len(Path!Payload(f)) = f.plen
           /\ Path!Body(f) \in Seq(Byte) /\ Len(Path!Body(f)) >= 3
<1>1. f.plen \in Nat /\ f.type \in {"ip", "eapol"} /\ f.prot \in BOOLEAN /\ f.snap \in BOOLEAN
    BY DEF Path!Frames, Path!DataPathConstants
<1>2. f.type \in Tags /\ "hdr" \in Tags /\ "data" \in Tags /\ "llc" \in Tags
    BY <1>1 DEF Tags
<1>3. Path!HdrLen(f) \in Nat /\ Path!HdrLen(f) >= 24
    BY DEF Path!HdrLen
<1>4. Path!Header(f) \in Seq(Byte) /\ Len(Path!Header(f)) = Path!HdrLen(f)
    BY <1>2, <1>3, BytesAre DEF Path!Header
<1>5. Path!Payload(f) \in Seq(Byte) /\ Len(Path!Payload(f)) = f.plen
    BY <1>1, <1>2, BytesAre DEF Path!Payload
<1>6. Path!Bytes("llc", 3) \in Seq(Byte) /\ Len(Path!Bytes("llc", 3)) = 3
    BY <1>2, BytesAre
<1>7. Path!Snap(f.type) \in Seq(Byte) /\ Len(Path!Snap(f.type)) = 8
    BY <1>2, SnapIs
<1>10. Path!Body(f) \in Seq(Byte) /\ Len(Path!Body(f)) >= 3
    <2> DEFINE p == Path!Payload(f)
    <2>1. ASSUME NEW l \in Seq(Byte), Len(l) >= 3
          PROVE  l \o p \in Seq(Byte) /\ Len(l \o p) >= 3
        <3> HIDE DEF p
        <3> QED
            BY <1>1, <1>5, <2>1, Joined DEF p
    <2>2. CASE f.snap
        <3>1. Path!Body(f) = Path!Snap(f.type) \o p
            BY <2>2 DEF Path!Body
        <3> HIDE DEF p
        <3> QED
            <4>1. Path!Snap(f.type) \in Seq(Byte) /\ Len(Path!Snap(f.type)) >= 3
                BY <1>7
            <4> QED
                BY <2>1, <3>1, <4>1, Zenon
    <2>3. CASE ~f.snap
        <3>1. Path!Body(f) = Path!Bytes("llc", 3) \o p
            BY <2>3 DEF Path!Body
        <3> HIDE DEF p
        <3> QED
            <4>1. Path!Bytes("llc", 3) \in Seq(Byte) /\ Len(Path!Bytes("llc", 3)) >= 3
                BY <1>6
            <4> QED
                BY <2>1, <3>1, <4>1, Zenon
    <2> QED
        BY <2>2, <2>3
<1> QED
    BY <1>1, <1>2, <1>3, <1>4, <1>5, <1>10

\* The body of a frame with LLC/SNAP: the signature, the ethertype, the payload.
LEMMA SnapBody ==
    ASSUME Path!DataPathConstants, NEW f \in Path!Frames, f.snap
    PROVE  /\ Path!Body(f) = Path!Snap(f.type) \o Path!Payload(f)
           /\ Len(Path!Body(f)) = 8 + f.plen
           /\ Path!IsSnap(Path!Body(f)) /\ Path!Body(f)[7][1] = f.type
           /\ SubSeq(Path!Body(f), 9, Len(Path!Body(f))) = Path!Payload(f)
<1> DEFINE s == Path!Snap(f.type)
           p == Path!Payload(f)
           b == s \o p
<1>1. f.type \in Tags /\ p \in Seq(Byte) /\ Len(p) = f.plen /\ f.plen \in Nat
    BY FrameIs
<1>2. /\ s \in Seq(Byte) /\ Len(s) = 8 /\ s[1][1] = "aa" /\ s[2][1] = "aa" /\ s[3][1] = "03"
      /\ s[7][1] = f.type
    BY <1>1, SnapIs
<1>3. Path!Body(f) = b
    BY DEF Path!Body
<1> HIDE DEF s, p
<1>4. /\ Len(b) = Len(s) + Len(p)
      /\ \A i \in 1..(Len(s) + Len(p)) : b[i] = IF i <= Len(s) THEN s[i] ELSE p[i - Len(s)]
      /\ SubSeq(b, Len(s) + 1, Len(s) + Len(p)) = p
    BY <1>1, <1>2, ConcatProperties, PartsOfConcat
<1> HIDE DEF b
<1>5. Len(b) = 8 + f.plen /\ b[1] = s[1] /\ b[2] = s[2] /\ b[3] = s[3] /\ b[7] = s[7]
    <2>1. \A i \in {1, 2, 3, 7} : i \in 1..(Len(s) + Len(p)) /\ i <= Len(s)
        BY <1>1, <1>2
    <2>2. \A i \in {1, 2, 3, 7} : b[i] = s[i]
        BY <1>4, <2>1
    <2> QED
        BY <1>1, <1>2, <1>4, <2>2
<1>6. SubSeq(b, 9, Len(b)) = p
    BY <1>1, <1>2, <1>4, <1>5
<1>7. Path!IsSnap(b)
    BY <1>1, <1>2, <1>5 DEF Path!IsSnap
<1> QED
    BY <1>2, <1>3, <1>5, <1>6, <1>7 DEF b, s, p

-----------------------------------------------------------------------------
(* What the chip hands up and what rx_process_seg makes of it.             *)

Iv(f, r) == IF f.prot /\ (~r.hw \/ r.ivKept) THEN Path!CcmpHdr ELSE <<>>
MicOf(f, r) == IF f.prot /\ ~r.hw THEN Path!Mic ELSE <<>>
FcsOf(r) == IF r.hw THEN <<>> ELSE Path!Fcs

\* What lies between the header and the FCS.
Inner(f, r) == (Iv(f, r) \o Path!Body(f)) \o MicOf(f, r)

\* The parts of a received MPDU and their lengths.
LEMMA InnerIs ==
    ASSUME Path!DataPathConstants, NEW f \in Path!Frames, NEW r \in Path!Receptions(f)
    PROVE  /\ Iv(f, r) \in Seq(Byte) /\ MicOf(f, r) \in Seq(Byte)
           /\ FcsOf(r) \in Seq(Byte) /\ Len(FcsOf(r)) = IF r.hw THEN 0 ELSE 4
           /\ Inner(f, r) \in Seq(Byte) /\ Len(Inner(f, r)) \in Nat /\ Len(Inner(f, r)) >= 3
           /\ Path!Mpdu(f, r) = Path!Header(f) \o (Inner(f, r) \o FcsOf(r))
<1>1. "ccmp" \in Tags /\ "mic" \in Tags /\ "fcs" \in Tags
    BY DEF Tags
<1>2. /\ Path!CcmpHdr \in Seq(Byte) /\ Path!Mic \in Seq(Byte)
      /\ Path!Fcs \in Seq(Byte) /\ Len(Path!Fcs) = 4
    BY <1>1, BytesAre DEF Path!CcmpHdr, Path!Mic, Path!Fcs
<1>3. <<>> \in Seq(Byte) /\ Len(<<>>) = 0
    BY EmptySeq
<1>4. Iv(f, r) \in Seq(Byte) /\ MicOf(f, r) \in Seq(Byte)
    BY <1>2, <1>3 DEF Iv, MicOf
<1>5. FcsOf(r) \in Seq(Byte) /\ Len(FcsOf(r)) = IF r.hw THEN 0 ELSE 4
    <2>1. CASE r.hw
        <3>1. FcsOf(r) = <<>>
            BY <2>1 DEF FcsOf
        <3> QED
            BY <1>3, <2>1, <3>1
    <2>2. CASE ~r.hw
        <3>1. FcsOf(r) = Path!Fcs
            BY <2>2 DEF FcsOf
        <3> QED
            BY <1>2, <2>2, <3>1
    <2> QED
        BY <2>1, <2>2
<1> DEFINE h == Path!Header(f)
           v == Iv(f, r)
           b == Path!Body(f)
           m == MicOf(f, r)
           c == FcsOf(r)
<1>6. h \in Seq(Byte) /\ b \in Seq(Byte) /\ Len(b) >= 3
    BY FrameIs
<1>7. Path!Mpdu(f, r) = (((h \o v) \o b) \o m) \o c
    BY DEF Path!Mpdu, Iv, MicOf, FcsOf
<1>8. Inner(f, r) = (v \o b) \o m
    BY DEF Inner
<1>9. v \in Seq(Byte) /\ m \in Seq(Byte) /\ c \in Seq(Byte)
    BY <1>4, <1>5
<1> HIDE DEF h, v, b, m, c
<1>10. v \o b \in Seq(Byte) /\ Len(v \o b) = Len(v) + Len(b) /\ Len(v) \in Nat /\ Len(b) \in Nat
    BY <1>6, <1>9, Joined
<1>11. /\ (v \o b) \o m \in Seq(Byte) /\ Len((v \o b) \o m) = Len(v \o b) + Len(m)
       /\ Len(m) \in Nat
    BY <1>9, <1>10, Joined
<1>12. (((h \o v) \o b) \o m) \o c = h \o (((v \o b) \o m) \o c)
    <2>1. Regrouped(h, v, b)
        BY <1>6, <1>9, Assoc, Zenon
    <2>2. Regrouped(h, v \o b, m)
        BY <1>6, <1>9, <1>10, Assoc, Zenon
    <2>3. Regrouped(h, (v \o b) \o m, c)
        BY <1>6, <1>9, <1>11, Assoc, Zenon
    <2> QED
        BY <2>1, <2>2, <2>3, Zenon DEF Regrouped
<1>13. Len((v \o b) \o m) \in Nat /\ Len((v \o b) \o m) >= 3
    <2> DEFINE x == (v \o b) \o m
               y == v \o b
    <2>1. Len(x) = Len(y) + Len(m) /\ Len(y) = Len(v) + Len(b)
        BY <1>10, <1>11
    <2> HIDE DEF x, y
    <2>2. Len(x) \in Nat /\ Len(x) >= 3
        BY <1>6, <1>10, <1>11, <2>1
    <2> QED
        BY <2>2 DEF x, y
<1> QED
    BY <1>4, <1>5, <1>7, <1>8, <1>11, <1>12, <1>13 DEF h, v, b, m, c

\* Header, pad, the rest and the alignment: where the header and the rest are.
PadLayout(h, p, y, a) ==
    LET seg == ((h \o p) \o y) \o a
    IN /\ Len(seg) = Len(h) + Len(p) + Len(y) + Len(a)
       /\ SubSeq(seg, 1, Len(h)) = h
       /\ SubSeq(seg, Len(h) + Len(p) + 1, Len(seg)) = y \o a

\* Where header, padding and payload are in a padded frame.
LEMMA PadPlaces ==
    ASSUME NEW h \in Seq(Byte), NEW p \in Seq(Byte), NEW y \in Seq(Byte), NEW a \in Seq(Byte)
    PROVE  PadLayout(h, p, y, a)
<1>0. AllRegrouped(h, p, y, a)
    BY Regroup, Zenon
<1> DEFINE hp == h \o p
           ya == y \o a
           pya == p \o ya
           seg == (hp \o y) \o a
<1>1. /\ hp \in Seq(Byte) /\ Len(hp) = Len(h) + Len(p) /\ Len(h) \in Nat /\ Len(p) \in Nat
    BY Joined
<1>2. /\ ya \in Seq(Byte) /\ Len(ya) = Len(y) + Len(a) /\ Len(y) \in Nat /\ Len(a) \in Nat
    BY Joined
<1>3. pya \in Seq(Byte)
    BY <1>2, Joined
<1>4. seg = hp \o ya
    BY <1>0, Zenon DEF AllRegrouped
<1>5. seg = h \o pya
    BY <1>0, Zenon DEF AllRegrouped
<1> HIDE DEF hp, ya, pya, seg
<1>6. Len(seg) = Len(hp) + Len(ya)
    BY <1>1, <1>2, <1>4, Joined
<1>7. SubSeq(seg, Len(hp) + 1, Len(hp) + Len(ya)) = ya
    BY <1>1, <1>2, <1>4, PartsOfConcat
<1>8. SubSeq(seg, 1, Len(h)) = h
    BY <1>3, <1>5, PartsOfConcat
<1>9. /\ Len(hp) + 1 = Len(h) + Len(p) + 1 /\ Len(hp) + Len(ya) = Len(seg)
      /\ Len(seg) = Len(h) + Len(p) + Len(y) + Len(a)
    BY <1>1, <1>2, <1>6
<1> QED
    BY <1>7, <1>8, <1>9 DEF PadLayout, seg, hp, ya

\* Header, body, FCS and the rest: what is left when the FCS and the rest are cut off.
CutLayout(h, x, c, a) ==
    LET data == h \o ((x \o c) \o a)
        d == SubSeq(data, 1, Len(h) + Len(x))
    IN /\ data \in Seq(Byte) /\ Len(data) = Len(h) + Len(x) + Len(c) + Len(a)
       /\ SubSeq(data, 1, Len(h)) = h
       /\ SubSeq(d, 1, Len(h)) = h
       /\ SubSeq(d, Len(h) + 1, Len(d)) = x

\* Where the parts are once the tail of a frame is cut.
LEMMA CutPlaces ==
    ASSUME NEW h \in Seq(Byte), NEW x \in Seq(Byte), NEW c \in Seq(Byte), NEW a \in Seq(Byte)
    PROVE  CutLayout(h, x, c, a)
<1>0. AllRegrouped(h, x, c, a)
    BY Regroup, Zenon
<1> DEFINE xc == x \o c
           xca == xc \o a
           data == h \o xca
           hx == h \o x
           ca == c \o a
           d == SubSeq(data, 1, Len(h) + Len(x))
<1>1. /\ xc \in Seq(Byte) /\ Len(xc) = Len(x) + Len(c) /\ Len(x) \in Nat /\ Len(c) \in Nat
    BY Joined
<1>2. /\ xca \in Seq(Byte) /\ Len(xca) = Len(xc) + Len(a) /\ Len(a) \in Nat
    BY <1>1, Joined
<1>3. data \in Seq(Byte) /\ Len(data) = Len(h) + Len(xca) /\ Len(h) \in Nat
    BY <1>2, Joined
<1>4. hx \in Seq(Byte) /\ Len(hx) = Len(h) + Len(x) /\ ca \in Seq(Byte)
    BY Joined
<1>5. data = hx \o ca
    BY <1>0, Zenon DEF AllRegrouped
<1>6. SubSeq(data, 1, Len(h)) = h
    <2> HIDE DEF xca
    <2> QED
        BY <1>2, PartsOfConcat
<1> HIDE DEF data, ca
<1>7. SubSeq(data, 1, Len(hx)) = hx
    <2> HIDE DEF hx
    <2> QED
        BY <1>4, <1>5, PartsOfConcat
<1>8. d = hx
    BY <1>4, <1>7
<1>9. SubSeq(hx, 1, Len(h)) = h /\ SubSeq(hx, Len(h) + 1, Len(h) + Len(x)) = x
    BY PartsOfConcat
<1> HIDE DEF hx, d, xc, xca
<1>10. Len(data) = Len(h) + Len(x) + Len(c) + Len(a)
    BY <1>1, <1>2, <1>3
<1>11. SubSeq(d, 1, Len(h)) = h /\ SubSeq(d, Len(h) + 1, Len(d)) = x
    BY <1>4, <1>8, <1>9
<1> QED
    BY <1>3, <1>6, <1>10, <1>11 DEF CutLayout, data, d, xc, xca

\* The record rx_process_seg has after the FCS and the pad are dealt with: the header,
\* what lies inside, and after flen the FCS and some alignment.
Unwrapped(f, r, a) ==
    [data |-> Path!Header(f) \o ((Inner(f, r) \o FcsOf(r)) \o a),
     flen |-> Len(Path!Header(f)) + Len(Inner(f, r)),
     len  |-> Len(Path!Header(f)) + Len(Inner(f, r)) + Len(FcsOf(r)) + Len(a)]

\* What removing the padding of a received segment leaves.
LEMMA UnpadIs ==
    ASSUME Path!DataPathConstants, NEW f \in Path!Frames, NEW r \in Path!Receptions(f)
    PROVE  \E a \in Seq(Byte) :
             LET seg == Path!Segment(f, r)
             IN Path!Unpad(f, seg, Path!StripFcs(r, Path!Min({Len(Path!Mpdu(f, r)), Len(seg)})))
                  = Unwrapped(f, r, a)
<1> DEFINE h == Path!Header(f)
           x == Inner(f, r)
           c == FcsOf(r)
           y == x \o c
           m == Path!Mpdu(f, r)
           p == Path!Bytes("l2pad", 2)
           s == IF Path!Padded(f) THEN (h \o p) \o y ELSE h \o y
           k == Path!RoundUp4(28 + Len(s)) - (28 + Len(s))
           a == Path!Bytes("align", k)
           seg == Path!Segment(f, r)
           n == Len(h)
           flen == Path!StripFcs(r, Path!Min({Len(m), Len(seg)}))
<1>1. /\ h \in Seq(Byte) /\ n = Path!HdrLen(f) /\ n \in Nat /\ n >= 24
    BY FrameIs
<1>2. /\ x \in Seq(Byte) /\ Len(x) \in Nat /\ Len(x) >= 3 /\ c \in Seq(Byte)
      /\ Len(c) = (IF r.hw THEN 0 ELSE 4) /\ m = h \o y
    BY InnerIs
<1>3. p \in Seq(Byte) /\ Len(p) = 2
    <2>1. "l2pad" \in Tags
        BY DEF Tags
    <2> QED
        BY <2>1, BytesAre
<1>4. y \in Seq(Byte) /\ Len(y) = Len(x) + Len(c) /\ Len(y) \in Nat /\ Len(c) \in Nat
    <2> HIDE DEF x, c
    <2>1. y \in Seq(Byte) /\ Len(y) = Len(x) + Len(c) /\ Len(c) \in Nat
        BY <1>2, Joined
    <2> HIDE DEF y
    <2> QED
        BY <1>2, <2>1
<1>5. m \in Seq(Byte) /\ Len(m) = n + Len(y) /\ SubSeq(m, n + 1, Len(m)) = y
    <2> HIDE DEF h, y, m
    <2>1. h \o y \in Seq(Byte) /\ Len(h \o y) = Len(h) + Len(y)
          /\ SubSeq(h \o y, Len(h) + 1, Len(h) + Len(y)) = y
        BY <1>1, <1>4, Joined, PartsOfConcat
    <2> QED
        BY <1>2, <2>1
<1>6. seg = s \o a
    <2>1. SubSeq(m, Path!HdrLen(f) + 1, Len(m)) = y
        BY <1>1, <1>5
    <2>2. seg = LET t == IF Path!Padded(f)
                         THEN (h \o p) \o SubSeq(m, Path!HdrLen(f) + 1, Len(m)) ELSE m
                IN t \o Path!Bytes("align", Path!RoundUp4(28 + Len(t)) - (28 + Len(t)))
        BY DEF Path!Segment
    <2> HIDE DEF h, p, y, m
    <2> QED
        BY <1>2, <2>1, <2>2, Zenon
<1>7. s \in Seq(Byte) /\ Len(s) \in Nat
    <2> HIDE DEF h, p, y
    <2>1. h \o p \in Seq(Byte)
        BY <1>1, <1>3, Joined
    <2>2. (h \o p) \o y \in Seq(Byte) /\ h \o y \in Seq(Byte)
        BY <1>1, <1>4, <2>1, Joined
    <2>3. s \in Seq(Byte)
        BY <2>2
    <2> QED
        BY <2>3, LenProperties
<1>8. a \in Seq(Byte) /\ Len(a) \in Nat
    <2> HIDE DEF s
    <2>1. k \in Nat
        BY <1>7, Rounded
    <2>2. "align" \in Tags
        BY DEF Tags
    <2> HIDE DEF k
    <2> QED
        BY <2>1, <2>2, BytesAre
<1> HIDE DEF a, k
<1>9. ASSUME NEW q \in Nat, Len(seg) = n + q + Len(y) + Len(a)
      PROVE  flen = n + Len(x)
    <2>1. Len(m) \in Nat /\ Len(seg) \in Nat /\ Len(m) <= Len(seg)
        <3> HIDE DEF h, x, c, y, m, seg, n
        <3> QED
            <4>1. /\ n \in Nat /\ Len(y) \in Nat /\ Len(a) \in Nat /\ q \in Nat
                  /\ Len(m) = n + Len(y) /\ Len(seg) = n + q + Len(y) + Len(a)
                BY <1>1, <1>4, <1>5, <1>8, <1>9
            <4> QED
                BY <4>1
    <2>2. Path!Min({Len(m), Len(seg)}) = Len(m)
        BY <2>1, MinOfTwo
    <2>3. flen = IF ~r.hw /\ Len(m) > 4 THEN Len(m) - 4 ELSE Len(m)
        BY <2>2 DEF Path!StripFcs
    <2> HIDE DEF h, x, c, y, m, seg, n, flen
    <2>4. /\ n \in Nat /\ n >= 24 /\ Len(x) \in Nat /\ Len(y) = Len(x) + Len(c)
          /\ Len(m) = n + Len(y) /\ Len(c) = IF r.hw THEN 0 ELSE 4
        BY <1>1, <1>2, <1>4, <1>5
    <2> QED
        BY <2>3, <2>4
<1>10. CASE Path!Padded(f)
    <2>1. seg = ((h \o p) \o y) \o a
        BY <1>6, <1>10
    <2> HIDE DEF p, y, s
    <2>2. /\ Len(seg) = n + 2 + Len(y) + Len(a)
          /\ SubSeq(seg, 1, n) = h /\ SubSeq(seg, n + 3, Len(seg)) = y \o a
        <3> HIDE DEF h, seg
        <3>0. PadLayout(h, p, y, a)
            BY <1>1, <1>3, <1>4, <1>8, PadPlaces
        <3>1. /\ Len(seg) = Len(h) + Len(p) + Len(y) + Len(a)
              /\ SubSeq(seg, 1, Len(h)) = h
              /\ SubSeq(seg, Len(h) + Len(p) + 1, Len(seg)) = y \o a
            BY <2>1, <3>0, Zenon DEF PadLayout
        <3>2. n + 3 = Len(h) + Len(p) + 1 /\ n + 2 = Len(h) + Len(p)
            BY <1>1, <1>3
        <3> QED
            BY <3>1, <3>2
    <2>3. flen = n + Len(x)
        BY <1>9, <2>2
    <2>4. flen > Path!HdrLen(f) + 2
        <3> HIDE DEF h, x, flen, n
        <3> QED
            BY <1>1, <1>2, <2>3
    <2>5. Path!Unpad(f, seg, flen) =
            [data |-> SubSeq(seg, 1, n) \o SubSeq(seg, n + 3, Len(seg)),
             flen |-> flen, len |-> Len(seg) - 2]
        <3> HIDE DEF h, x, c, y, m, seg, flen, n
        <3> QED
            BY <1>1, <1>10, <2>4 DEF Path!Unpad
    <2>6. Len(seg) - 2 = n + Len(x) + Len(c) + Len(a)
        <3> HIDE DEF h, x, c, y, m, seg, flen, n
        <3> QED
            <4>1. /\ n \in Nat /\ Len(x) \in Nat /\ Len(c) \in Nat /\ Len(a) \in Nat
                  /\ Len(y) = Len(x) + Len(c) /\ Len(seg) = n + 2 + Len(y) + Len(a)
                BY <1>1, <1>2, <1>4, <1>8, <2>2
            <4> QED
                BY <4>1
    <2>7. Path!Unpad(f, seg, flen) = Unwrapped(f, r, a)
        <3>1. Unwrapped(f, r, a) = [data |-> h \o (y \o a), flen |-> n + Len(x),
                                    len |-> n + Len(x) + Len(c) + Len(a)]
            BY DEF Unwrapped, y
        <3> HIDE DEF h, x, c, y, m, seg, flen, n
        <3> QED
            BY <2>2, <2>3, <2>5, <2>6, <3>1
    <2> QED
        BY <1>8, <2>7
<1>11. CASE ~Path!Padded(f)
    <2>1. seg = (h \o y) \o a
        BY <1>6, <1>11
    <2> HIDE DEF y, s
    <2>2. (h \o y) \o a = h \o (y \o a)
        <3>1. Regrouped(h, y, a)
            BY <1>1, <1>4, <1>8, Assoc, Zenon
        <3> QED
            BY <3>1 DEF Regrouped
    <2>3. Len(seg) = n + 0 + Len(y) + Len(a)
        <3> HIDE DEF h, seg
        <3>1. h \o y \in Seq(Byte) /\ Len(h \o y) = Len(h) + Len(y)
            BY <1>1, <1>4, Joined
        <3>2. Len((h \o y) \o a) = Len(h \o y) + Len(a)
            BY <1>8, <3>1, Joined
        <3>3. Len(seg) = n + Len(y) + Len(a)
            BY <2>1, <3>1, <3>2
        <3> HIDE DEF n
        <3> QED
            BY <1>1, <1>4, <1>8, <3>3
    <2>4. flen = n + Len(x)
        BY <1>9, <2>3
    <2>5. Path!Unpad(f, seg, flen) = [data |-> seg, flen |-> flen, len |-> Len(seg)]
        <3> HIDE DEF h, x, c, y, m, seg, flen, n
        <3> QED
            BY <1>11 DEF Path!Unpad
    <2>6. Len(seg) = n + Len(x) + Len(c) + Len(a)
        <3> HIDE DEF h, x, c, y, m, seg, flen, n
        <3> QED
            BY <1>1, <1>2, <1>4, <1>8, <2>3
    <2>7. Path!Unpad(f, seg, flen) = Unwrapped(f, r, a)
        <3>1. Unwrapped(f, r, a) = [data |-> h \o (y \o a), flen |-> n + Len(x),
                                    len |-> n + Len(x) + Len(c) + Len(a)]
            BY DEF Unwrapped, y
        <3> HIDE DEF h, x, c, y, m, seg, flen, n
        <3> QED
            BY <2>1, <2>2, <2>4, <2>5, <2>6, <3>1
    <2> QED
        BY <1>8, <2>7
<1> QED
    BY <1>10, <1>11

\* The middle part of a concatenation.
LEMMA MiddleOfConcat ==
    ASSUME NEW s \in Seq(Byte), NEW t \in Seq(Byte), NEW u \in Seq(Byte)
    PROVE  SubSeq((s \o t) \o u, Len(s) + 1, Len(s) + Len(t)) = t
<1> DEFINE st == s \o t
           c == st \o u
           a == Len(s) + 1
           b == Len(s) + Len(t)
           v == SubSeq(c, a, b)
<1>1. /\ st \in Seq(Byte) /\ Len(st) = Len(s) + Len(t)
      /\ \A i \in 1..(Len(s) + Len(t)) : st[i] = IF i <= Len(s) THEN s[i] ELSE t[i - Len(s)]
    BY ConcatProperties
<1> HIDE DEF st
<1>2. /\ c \in Seq(Byte) /\ Len(c) = Len(st) + Len(u)
      /\ \A i \in 1..(Len(st) + Len(u)) : c[i] = IF i <= Len(st) THEN st[i] ELSE u[i - Len(st)]
    <2>1. st \in Seq(Byte)
        BY <1>1
    <2> QED
        BY <2>1, ConcatProperties
<1> HIDE DEF c
<1>3. Len(s) \in Nat /\ Len(t) \in Nat /\ Len(u) \in Nat /\ \A i \in 1..Len(t) : t[i] \in Byte
    BY LenProperties, ElementOfSeq
<1>4. ASSUME NEW i \in 1..Len(t) PROVE c[a + i - 1] = t[i]
    <2>1. /\ a + i - 1 \in 1..(Len(st) + Len(u)) /\ a + i - 1 <= Len(st)
          /\ a + i - 1 \in 1..(Len(s) + Len(t)) /\ ~(a + i - 1 <= Len(s))
          /\ (a + i - 1) - Len(s) = i
        BY <1>1, <1>3, <1>4
    <2>2. c[a + i - 1] = st[a + i - 1]
        BY <1>2, <2>1
    <2>3. st[a + i - 1] = t[(a + i - 1) - Len(s)]
        BY <1>1, <2>1
    <2> QED
        BY <2>1, <2>2, <2>3
<1>5. \A i \in a..b : c[i] \in Byte
    <2>1. \A i \in 1..Len(c) : c[i] \in Byte
        BY <1>2, ElementOfSeq
    <2>2. \A i \in a..b : i \in 1..Len(c)
        BY <1>1, <1>2, <1>3
    <2> QED
        BY <2>1, <2>2
<1>6. a \in Int /\ b \in Int /\ b - a + 1 = Len(t) /\ (a <= b <=> Len(t) # 0)
    BY <1>3
<1> HIDE DEF a, b
<1>7. /\ v \in Seq(Byte) /\ Len(v) = IF a <= b THEN b - a + 1 ELSE 0
      /\ \A i \in 1..(b - a + 1) : v[i] = c[a + i - 1]
    BY <1>5, <1>6, SubSeqProperties
<1> HIDE DEF v
<1>8. Len(v) = Len(t) /\ \A i \in 1..Len(v) : v[i] = t[i]
    BY <1>3, <1>4, <1>6, <1>7
<1>9. v = t
    BY <1>7, <1>8, SeqEqual
<1> QED
    BY <1>9 DEF v, c, st, a, b

\* What the driver takes for the body.
Plain(f, r) ==
    IF ~f.prot THEN Inner(f, r)
    ELSE IF r.hw THEN Path!HwBody(Inner(f, r)) ELSE Path!SwBody(Inner(f, r))

\* What becomes of a received segment, in these terms.
LEMMA RxIs ==
    ASSUME Path!DataPathConstants, NEW f \in Path!Frames, NEW r \in Path!Receptions(f)
    PROVE  \E a \in Seq(Byte) :
             Path!RxProcessSeg(f, r) =
               IF f.prot /\ ~r.hw /\ ~r.key THEN Path!ToCore(f, Unwrapped(f, r, a))
               ELSE IF Path!ToStack(Plain(f, r)) THEN Path!Bridge(f, Path!Header(f), Plain(f, r))
               ELSE Path!ToCore(f, Unwrapped(f, r, a))
<1> DEFINE seg == Path!Segment(f, r)
           u == Path!Unpad(f, seg, Path!StripFcs(r, Path!Min({Len(Path!Mpdu(f, r)), Len(seg)})))
           d == SubSeq(u.data, 1, u.flen)
           hdr == SubSeq(d, 1, Path!HdrLen(f))
           raw == SubSeq(d, Path!HdrLen(f) + 1, Len(d))
           b == IF ~f.prot THEN raw ELSE IF r.hw THEN Path!HwBody(raw) ELSE Path!SwBody(raw)
<1>1. PICK a \in Seq(Byte) : u = Unwrapped(f, r, a)
    BY UnpadIs
<1>2. Path!RxProcessSeg(f, r) =
        IF f.prot /\ ~r.hw /\ ~r.key THEN Path!ToCore(f, u)
        ELSE IF Path!ToStack(b) THEN Path!Bridge(f, hdr, b) ELSE Path!ToCore(f, u)
    BY DEF Path!RxProcessSeg
<1> HIDE DEF u
<1> DEFINE h == Path!Header(f)
           x == Inner(f, r)
           c == FcsOf(r)
<1>3. h \in Seq(Byte) /\ Len(h) = Path!HdrLen(f) /\ x \in Seq(Byte) /\ c \in Seq(Byte)
    BY FrameIs, InnerIs
<1>4. u.data = h \o ((x \o c) \o a) /\ u.flen = Len(h) + Len(x)
    BY <1>1 DEF Unwrapped
<1> HIDE DEF h, x, c
<1>5. CutLayout(h, x, c, a)
    BY <1>3, CutPlaces
<1>6. hdr = h /\ raw = x
    BY <1>3, <1>4, <1>5, Zenon DEF CutLayout
<1> HIDE DEF hdr, raw
<1>7. b = Plain(f, r)
    BY <1>6 DEF Plain, x
<1> QED
    BY <1>1, <1>2, <1>6, <1>7, Zenon DEF h

\* A frame with LLC/SNAP that can be read: the driver finds its body.
LEMMA PlainIs ==
    ASSUME Path!DataPathConstants, NEW f \in Path!Frames, f.snap, NEW r \in Path!Receptions(f),
           ~f.prot \/ r.hw \/ r.key
    PROVE  Plain(f, r) = Path!Body(f)
<1> DEFINE b == Path!Body(f)
           v == Path!CcmpHdr
           m == Path!Mic
<1>1. /\ b \in Seq(Byte) /\ Len(b) = 8 + f.plen /\ f.plen \in Nat /\ Path!IsSnap(b)
    BY FrameIs, SnapBody
<1>2. /\ v \in Seq(Byte) /\ Len(v) = 8 /\ v[1] = <<"ccmp", 1>>
      /\ m \in Seq(Byte) /\ Len(m) = 8
    <2>1. "ccmp" \in Tags /\ "mic" \in Tags /\ 8 \in Nat /\ 1 \in 1..8
        BY DEF Tags
    <2> QED
        BY <2>1, BytesAre DEF Path!CcmpHdr, Path!Mic
<1>3. (r.hw => f.prot) /\ (r.ivKept => r.hw)
    BY DEF Path!Receptions
<1> HIDE DEF b, v, m
<1>4. <<>> \o b = b /\ b \o <<>> = b /\ (v \o b) \o <<>> = v \o b
    <2>1. v \o b \in Seq(Byte)
        BY <1>1, <1>2, Joined
    <2> QED
        BY <1>1, <2>1, ConcatEmptySeq
<1>5. CASE ~f.prot
    <2>1. Iv(f, r) = <<>> /\ MicOf(f, r) = <<>>
        BY <1>5 DEF Iv, MicOf
    <2> QED
        BY <1>4, <1>5, <2>1 DEF Plain, Inner, b
<1>6. CASE f.prot /\ r.hw /\ ~r.ivKept
    <2>1. Iv(f, r) = <<>> /\ MicOf(f, r) = <<>>
        BY <1>6 DEF Iv, MicOf
    <2>2. Inner(f, r) = b
        BY <1>4, <2>1 DEF Inner, b
    <2>3. Path!HwBody(b) = b
        BY <1>1 DEF Path!HwBody
    <2> QED
        BY <1>6, <2>2, <2>3 DEF Plain, b
<1>7. CASE f.prot /\ r.hw /\ r.ivKept
    <2>1. Iv(f, r) = v /\ MicOf(f, r) = <<>>
        BY <1>7 DEF Iv, MicOf, v
    <2>2. Inner(f, r) = v \o b
        BY <1>4, <2>1 DEF Inner, b
    <2> DEFINE x == v \o b
    <2>3. /\ Len(x) = Len(v) + Len(b)
          /\ \A i \in 1..(Len(v) + Len(b)) : x[i] = IF i <= Len(v) THEN v[i] ELSE b[i - Len(v)]
          /\ SubSeq(x, Len(v) + 1, Len(v) + Len(b)) = b
        <3>1. v \in Seq(Byte) /\ b \in Seq(Byte)
            BY <1>1, <1>2
        <3>2. SubSeq(x, Len(v) + 1, Len(v) + Len(b)) = b
            BY <3>1, PartsOfConcat
        <3> QED
            BY <3>1, <3>2, ConcatProperties
    <2> HIDE DEF x
    <2>4. Len(x) >= 11 /\ x[1] = <<"ccmp", 1>> /\ Len(v) + 1 = 9
        <3>1. 1 \in 1..(Len(v) + Len(b)) /\ 1 <= Len(v)
            BY <1>1, <1>2
        <3>2. x[1] = v[1]
            BY <2>3, <3>1
        <3> QED
            BY <1>1, <1>2, <2>3, <3>2
    <2>5. ~Path!IsSnap(x)
        BY <2>4 DEF Path!IsSnap
    <2>6. SubSeq(x, 9, Len(x)) = b
        BY <2>3, <2>4
    <2>7. Path!HwBody(x) = b
        BY <1>1, <2>4, <2>5, <2>6 DEF Path!HwBody
    <2> QED
        BY <1>7, <2>2, <2>7 DEF Plain, b, x
<1>8. CASE f.prot /\ ~r.hw
    <2>1. Iv(f, r) = v /\ MicOf(f, r) = m
        BY <1>8 DEF Iv, MicOf, v, m
    <2>2. Inner(f, r) = (v \o b) \o m
        BY <2>1 DEF Inner, b
    <2> DEFINE vb == v \o b
               x == vb \o m
    <2>3. vb \in Seq(Byte) /\ Len(vb) = Len(v) + Len(b)
        BY <1>1, <1>2, Joined
    <2>4. SubSeq(x, Len(v) + 1, Len(v) + Len(b)) = b
        BY <1>1, <1>2, MiddleOfConcat
    <2> HIDE DEF vb
    <2>5. Len(x) = Len(vb) + Len(m)
        BY <1>2, <2>3, Joined
    <2> HIDE DEF x
    <2>6. Len(v) + 1 = 9 /\ Len(v) + Len(b) = Len(x) - 8
        BY <1>1, <1>2, <2>3, <2>5
    <2>7. Path!SwBody(x) = b
        BY <2>4, <2>6 DEF Path!SwBody
    <2> QED
        BY <1>8, <2>2, <2>7 DEF Plain, b, x, vb
<1> QED
    BY <1>5, <1>6, <1>7, <1>8

\* The stack gets every LLC/SNAP frame that can be read and is not EAPOL, as it was sent.
LEMMA BridgedAsSent ==
    ASSUME Path!DataPathConstants, NEW f \in Path!Frames, f.snap, f.type # "eapol",
           NEW r \in Path!Receptions(f), Path!Readable(f, r)
    PROVE  Path!RxProcessSeg(f, r) = Path!Bridge(f, Path!Header(f), Path!Body(f))
<1>1. ~f.prot \/ r.hw \/ r.key
    BY DEF Path!Readable
<1>2. Plain(f, r) = Path!Body(f)
    BY <1>1, PlainIs
<1>3. Path!ToStack(Path!Body(f))
    <2>1. /\ Len(Path!Body(f)) = 8 + f.plen /\ f.plen \in Nat
          /\ Path!IsSnap(Path!Body(f)) /\ Path!Body(f)[7][1] = f.type
        BY FrameIs, SnapBody
    <2> QED
        BY <2>1 DEF Path!ToStack
<1> QED
    BY <1>1, <1>2, <1>3, RxIs

\* Behind header and LLC/SNAP comes the PDU.
PduLayout(h, s, p, c, a) ==
    LET data == h \o (((s \o p) \o c) \o a)
    IN /\ SubSeq(data, Len(h) + Len(s) + 1, Len(data)) = p \o (c \o a)
       /\ SubSeq(p \o (c \o a), 1, Len(p)) = p
       /\ Len(p) <= Len(p \o (c \o a))

\* Where the MPDU is in a segment.
LEMMA PduPlace ==
    ASSUME NEW h \in Seq(Byte), NEW s \in Seq(Byte), NEW p \in Seq(Byte), NEW c \in Seq(Byte),
           NEW a \in Seq(Byte)
    PROVE  PduLayout(h, s, p, c, a)
<1>0. h \o (((s \o p) \o c) \o a) = (h \o s) \o (p \o (c \o a))
    <2>1. p \o (c \o a) \in Seq(Byte)
        BY Joined
    <2>2. AllRegrouped(s, p, c, a) /\ Regrouped(h, s, p \o (c \o a))
        BY <2>1, Assoc, Regroup, Zenon
    <2> QED
        BY <2>2, Zenon DEF Regrouped, AllRegrouped
<1> DEFINE ca == c \o a
           pca == p \o ca
           hs == h \o s
           data == h \o (((s \o p) \o c) \o a)
<1>1. ca \in Seq(Byte) /\ Len(ca) \in Nat
    BY Joined, LenProperties
<1>2. pca \in Seq(Byte) /\ Len(pca) = Len(p) + Len(ca) /\ Len(p) \in Nat
    <2> HIDE DEF ca
    <2> QED
        BY <1>1, Joined
<1>3. hs \in Seq(Byte) /\ Len(hs) = Len(h) + Len(s) /\ Len(h) \in Nat /\ Len(s) \in Nat
    BY Joined
<1>4. data = hs \o pca
    BY <1>0, Zenon
<1>5. SubSeq(pca, 1, Len(p)) = p
    <2> HIDE DEF ca
    <2> QED
        BY <1>1, PartsOfConcat
<1> HIDE DEF ca, pca, hs, data
<1>6. Len(data) = Len(hs) + Len(pca) /\ SubSeq(data, Len(hs) + 1, Len(hs) + Len(pca)) = pca
    <2>1. hs \in Seq(Byte) /\ pca \in Seq(Byte)
        BY <1>2, <1>3
    <2> QED
        BY <1>4, <2>1, Joined, PartsOfConcat
<1>7. Len(p) <= Len(pca) /\ Len(hs) + 1 = Len(h) + Len(s) + 1
    BY <1>1, <1>2, <1>3
<1> QED
    BY <1>5, <1>6, <1>7 DEF PduLayout, data, pca, ca

\* EAPOL goes to the core, and the clear one as its PDU.
LEMMA EapolAsSent ==
    ASSUME Path!DataPathConstants, NEW f \in Path!Frames, f.snap, f.type = "eapol",
           NEW r \in Path!Receptions(f)
    PROVE  LET o == Path!RxProcessSeg(f, r)
           IN /\ o.to = "core"
              /\ ~f.prot /\ f.plen >= EapolMin =>
                   o.start = Path!Header(f) /\ o.eapol = Path!Payload(f)
<1>1. PICK a \in Seq(Byte) :
        Path!RxProcessSeg(f, r) =
          IF f.prot /\ ~r.hw /\ ~r.key THEN Path!ToCore(f, Unwrapped(f, r, a))
          ELSE IF Path!ToStack(Plain(f, r)) THEN Path!Bridge(f, Path!Header(f), Plain(f, r))
          ELSE Path!ToCore(f, Unwrapped(f, r, a))
    BY RxIs
<1> DEFINE u == Unwrapped(f, r, a)
           h == Path!Header(f)
           x == Inner(f, r)
           c == FcsOf(r)
           s == Path!Snap(f.type)
           p == Path!Payload(f)
<1>2. Path!RxProcessSeg(f, r) = Path!ToCore(f, u)
    <2>1. CASE f.prot /\ ~r.hw /\ ~r.key
        BY <1>1, <2>1
    <2>2. CASE ~(f.prot /\ ~r.hw /\ ~r.key)
        <3>1. Plain(f, r) = Path!Body(f)
            BY <2>2, PlainIs
        <3>2. ~Path!ToStack(Path!Body(f))
            BY SnapBody DEF Path!ToStack
        <3> QED
            BY <1>1, <2>2, <3>1, <3>2
    <2> QED
        BY <2>1, <2>2
<1>3. /\ h \in Seq(Byte) /\ Len(h) = Path!HdrLen(f) /\ Len(h) \in Nat
      /\ p \in Seq(Byte) /\ Len(p) = f.plen /\ f.plen \in Nat /\ f.type \in Tags
    BY FrameIs
<1>4. /\ x \in Seq(Byte) /\ Len(x) \in Nat /\ c \in Seq(Byte)
    BY InnerIs
<1>5. s \in Seq(Byte) /\ Len(s) = 8
    BY <1>3, SnapIs
<1>6. /\ u.data = h \o ((x \o c) \o a)
      /\ u.len = Len(h) + Len(x) + Len(c) + Len(a)
    BY DEF Unwrapped
<1>7. CutLayout(h, x, c, a)
    <2> HIDE DEF h, x, c
    <2> QED
        BY <1>3, <1>4, CutPlaces
<1> HIDE DEF u
<1>8. SubSeq(u.data, 1, Path!HdrLen(f)) = h /\ Len(u.data) = u.len
    BY <1>3, <1>6, <1>7, Zenon DEF CutLayout
<1>9. ASSUME ~f.prot, f.plen >= EapolMin PROVE Path!ToCore(f, u).eapol = p
    <2>1. x = s \o p /\ Len(x) = 8 + f.plen
        <3>1. Plain(f, r) = Path!Body(f)
            BY <1>9, PlainIs
        <3>2. Plain(f, r) = x
            BY <1>9 DEF Plain
        <3> QED
            BY <3>1, <3>2, SnapBody
    <2> DEFINE q == p \o (c \o a)
    <2>2. /\ SubSeq(u.data, Len(h) + Len(s) + 1, Len(u.data)) = q
          /\ SubSeq(q, 1, Len(p)) = p /\ Len(p) <= Len(q)
        <3> HIDE DEF h, s, p, c, x
        <3>1. u.data = h \o (((s \o p) \o c) \o a)
            BY <1>6, <2>1
        <3> QED
            <4>1. PduLayout(h, s, p, c, a)
                BY <1>3, <1>4, <1>5, PduPlace
            <4> QED
                BY <3>1, <4>1, Zenon DEF PduLayout
    <2>3. u.len >= Path!HdrLen(f) + 8 /\ Len(h) + Len(s) + 1 = Path!HdrLen(f) + 9
        <3>1. Len(c) \in Nat /\ Len(a) \in Nat
            BY <1>4, LenProperties
        <3> HIDE DEF h, s, p, c, x
        <3> QED
            <4>1. /\ Len(h) = Path!HdrLen(f) /\ Len(h) \in Nat /\ Len(s) = 8 /\ f.plen \in Nat
                  /\ u.len = Len(h) + Len(x) + Len(c) + Len(a) /\ Len(x) = 8 + f.plen
                BY <1>3, <1>5, <1>6, <2>1
            <4>2. \A n, k, i, j \in Nat : n + (8 + k) + i + j >= n + 8 /\ n + 8 + 1 = n + 9
                OBVIOUS
            <4>3. u.len = Len(h) + (8 + f.plen) + Len(c) + Len(a)
                BY <4>1, Zenon
            <4> QED
                <5>1. /\ Len(h) + (8 + f.plen) + Len(c) + Len(a) >= Len(h) + 8
                      /\ Len(h) + 8 + 1 = Len(h) + 9
                    BY <3>1, <4>1, <4>2, Zenon
                <5>2. u.len >= Path!HdrLen(f) + 8
                    BY <4>1, <4>3, <5>1, Zenon
                <5>3. Len(h) + Len(s) + 1 = Path!HdrLen(f) + 9
                    BY <4>1, <5>1, Zenon
                <5> QED
                    BY <5>2, <5>3
    <2> HIDE DEF q, h, s
    <2>4. SubSeq(u.data, Path!HdrLen(f) + 9, u.len) = q
        BY <1>8, <2>2, <2>3, Zenon
    <2>5. Path!CoreEapol(f, u.len, u.data) = p
        BY <1>3, <1>9, <2>2, <2>4 DEF Path!CoreEapol
    <2>6. Path!ToCore(f, u).eapol = Path!CoreEapol(f, u.len, u.data)
        BY <1>9, <2>3 DEF Path!ToCore
    <2> QED
        BY <2>5, <2>6
<1>10. Path!ToCore(f, u).to = "core" /\ Path!ToCore(f, u).start = h
    BY <1>8 DEF Path!ToCore
<1> QED
    BY <1>2, <1>9, <1>10, Zenon

-----------------------------------------------------------------------------
(* The theorems on the frame path.                                         *)

\* One frame, not looked at yet, received in one of the chip's ways, or sent.
PathInd ==
    /\ frame \in Path!Frames
    /\ verdict.to = "received" =>
         \E r \in Path!Receptions(frame) :
           verdict.how = r /\ verdict.out = Path!RxProcessSeg(frame, r)
    /\ verdict.to = "sent" =>
         /\ Path!TxAccepts(frame.plen)
         /\ verdict.wrapped = Path!TxWrapLen(frame.plen)
         /\ verdict.out = Path!RxProcessSeg(Path!HwDataTx(frame.type, frame.plen),
                                            [hw |-> FALSE, ivKept |-> FALSE, key |-> TRUE])

\* The data path keeps its inductive invariant.
LEMMA PathInvariant == Path!Spec => []PathInd
<1>1. Path!Init => PathInd
    BY DEF Path!Init, PathInd, Path!Pending
<1>2. PathInd /\ [Path!Next]_Path!vars => PathInd'
    <2> SUFFICES ASSUME PathInd, [Path!Next]_Path!vars PROVE PathInd'
        OBVIOUS
    <2>1. CASE Path!Receive
        BY <2>1 DEF Path!Receive, PathInd
    <2>2. CASE Path!Transmit
        <3>1. CASE Path!TxAccepts(frame.plen)
            BY <2>2, <3>1 DEF Path!Transmit, PathInd
        <3>2. CASE ~Path!TxAccepts(frame.plen)
            BY <2>2, <3>2 DEF Path!Transmit, PathInd, Path!Dropped
        <3> QED
            BY <3>1, <3>2
    <2>3. CASE UNCHANGED Path!vars
        BY <2>3 DEF Path!vars, PathInd
    <2> QED
        BY <2>1, <2>2, <2>3 DEF Path!Next
<1> QED
    BY <1>1, <1>2, PTL DEF Path!Spec

\* Every received frame goes where it belongs, to the byte: for every payload length,
\* header form and way of the chip with pad, FCS, CCMP header and decryption
\* (rx_process_seg, rx_to_netdev, rx_dot11_data).
THEOREM ReceivedIsExact == Path!DataPathConstants => (Path!Spec => []ReceivedInv)
<1> SUFFICES ASSUME Path!DataPathConstants PROVE Path!Spec => []ReceivedInv
    OBVIOUS
<1>1. PathInd => ReceivedInv
    <2> SUFFICES ASSUME PathInd, verdict.to = "received" PROVE ReceivedInv
        BY DEF ReceivedInv, Path!ReceivedInv, Path!BridgedExact, Path!EapolReachesCore
    <2>1. PICK r \in Path!Receptions(frame) :
            verdict.how = r /\ verdict.out = Path!RxProcessSeg(frame, r)
        BY DEF PathInd
    <2>2. Path!BridgedExact
        BY <2>1, BridgedAsSent DEF PathInd, Path!BridgedExact
    <2>3. Path!EapolReachesCore
        BY <2>1, EapolAsSent DEF PathInd, Path!EapolReachesCore
    <2> QED
        BY <2>2, <2>3 DEF ReceivedInv, Path!ReceivedInv
<1> QED
    BY <1>1, PathInvariant, PTL

\* A frame that hw_data_tx accepts fits the buffer tx_wrap fills, and a peer reads
\* from it what the stack sent, for every length and every buffer size.
THEOREM SentArrives == Path!DataPathConstants => (Path!Spec => []SentIsReceived)
<1> SUFFICES ASSUME Path!DataPathConstants PROVE Path!Spec => []SentIsReceived
    OBVIOUS
<1>1. PathInd => SentIsReceived
    <2> SUFFICES ASSUME PathInd, verdict.to = "sent" PROVE SentIsReceived
        BY DEF SentIsReceived, Path!SentIsReceived
    <2> DEFINE f == Path!HwDataTx(frame.type, frame.plen)
               r == [hw |-> FALSE, ivKept |-> FALSE, key |-> TRUE]
    <2>1. frame.plen \in PayloadLens /\ frame.plen \in Nat /\ frame.type \in {"ip", "eapol"}
        BY DEF PathInd, Path!Frames, Path!DataPathConstants
    <2>2. /\ f \in Path!Frames /\ f.snap /\ f.type = frame.type /\ f.plen = frame.plen
          /\ f.ds = "to" /\ ~f.qos /\ ~f.order /\ f.prot
        BY <2>1 DEF Path!HwDataTx, Path!Frames
    <2>3. r \in Path!Receptions(f) /\ Path!Readable(f, r)
        BY DEF Path!Receptions, Path!Readable
    <2>4. verdict.wrapped <= TxBuf
        BY <2>1 DEF PathInd, Path!TxAccepts, Path!TxWrapLen, Path!RoundUp4, Path!DataPathConstants
    <2>5. ASSUME frame.type # "eapol"
          PROVE  /\ verdict.out.payload = Path!Payload(frame) /\ verdict.out.type = frame.type
                 /\ verdict.out.da = Path!Addr(Path!Bytes("hdr", 24), 3)
                 /\ verdict.out.sa = Path!Addr(Path!Bytes("hdr", 24), 2)
        <3>1. verdict.out = Path!RxProcessSeg(f, r)
            BY DEF PathInd
        <3> HIDE DEF f, r
        <3>2. verdict.out = Path!Bridge(f, Path!Header(f), Path!Body(f))
            BY <2>2, <2>3, <2>5, <3>1, BridgedAsSent
        <3>3. Path!Header(f) = Path!Bytes("hdr", 24)
            BY <2>2 DEF Path!Header, Path!HdrLen
        <3>4. Path!Payload(f) = Path!Payload(frame)
            BY <2>2 DEF Path!Payload
        <3>5. /\ SubSeq(Path!Body(f), 9, Len(Path!Body(f))) = Path!Payload(f)
              /\ Path!Body(f)[7][1] = f.type
            BY <2>2, SnapBody
        <3> QED
            BY <2>2, <3>2, <3>3, <3>4, <3>5 DEF Path!Bridge, Path!Da, Path!Sa
    <2> QED
        BY <2>4, <2>5 DEF SentIsReceived, Path!SentIsReceived
<1> QED
    BY <1>1, PathInvariant, PTL

-----------------------------------------------------------------------------
(* The link statistics and the TX-status reports.                          *)

\* A report of the MAC carries the pktid of its class.
StatReport == {r \in [class : Stats!Classes, pid : Stats!Classes, of : Nat] : r.pid = r.class}

StatDrain == {Stats!IdleDrain} \cup [at : {"read"}, n : Nat]
                \cup [at : {"have"}, n : Nat, report : StatReport]

StatRx == {Stats!NoRx} \cup [at : {"record", "capture?", "capture"}, kind : Stats!Kinds,
                             of : Nat, from : Bssids \cup {"none"}]

StatsTyped ==
    /\ epoch \in Nat
    /\ bss \in Bssids \cup {"none"}
    /\ cpc \in {"idle", "named", "uncaptured"}
    /\ rx \in StatRx
    /\ air \in Seq(StatReport)
    /\ fifo \in Seq(StatReport)
    /\ drain \in [Stats!Drainers -> StatDrain]
    /\ posted \in [Stats!Classes -> Nat]
    /\ missed \in [Stats!Classes -> Nat]
    /\ valid \in [Stats!Classes -> Nat]

\* From the point where .connect resets a sample, what is still to be stored there belongs
\* to this attempt: the frame in hand after the capture is dropped, the reports after the
\* rates are.
AllOf(s, e) == \A i \in DOMAIN s : s[i].of = e

SamplesOfThisConnect ==
    /\ cpc # "named" => capture \in {0, epoch} /\ (rx.at # "idle" => rx.of = epoch)
    /\ cpc = "idle" =>
        /\ {rssi, rxRate, txRate} \subseteq {0, epoch}
        /\ AllOf(air, epoch)
        /\ AllOf(fifo, epoch)
        /\ \A d \in Stats!Drainers : drain[d].at = "have" => drain[d].report.of = epoch

StatsInd == StatsTyped /\ (~straddled => SamplesOfThisConnect) /\ Stats!ReportsAccounted

\* The positions of the reports of one class.
Places(s, c) == {i \in DOMAIN s : s[i].class = c}

\* The instance counts as FiniteSets does.
LEMMA CountIsCardinality == \A S : Stats!Cardinality(S) = Cardinality(S)
BY DEF Stats!Cardinality, Cardinality

\* Counting a class in a queue counts its places.
LEMMA CountOfPlaces ==
    ASSUME NEW s, NEW c
    PROVE  Stats!InSeq(s, c) = Cardinality(Places(s, c))
<1>1. Stats!InSeq(s, c) = Stats!Cardinality(Places(s, c))
    BY DEF Stats!InSeq, Places
<1> QED
    BY <1>1, CountIsCardinality

\* The places of a class in a queue are finitely many.
LEMMA CountType ==
    ASSUME NEW R, NEW s \in Seq(R), NEW c
    PROVE  IsFiniteSet(Places(s, c)) /\ Stats!InSeq(s, c) \in Nat
<1>1. IsFiniteSet(1..Len(s)) /\ Places(s, c) \in SUBSET (1..Len(s))
    BY FS_Interval DEF Places
<1>2. IsFiniteSet(Places(s, c))
    BY <1>1, FS_Subset
<1> QED
    BY <1>2, CountOfPlaces, FS_CardinalityType

\* A report put into a FIFO counts once more in its class.
LEMMA CountAppend ==
    ASSUME NEW R, NEW s \in Seq(R), NEW e \in R, NEW c
    PROVE  Stats!InSeq(Append(s, e), c) = Stats!InSeq(s, c) + (IF e.class = c THEN 1 ELSE 0)
<1>1. IsFiniteSet(Places(s, c)) /\ Stats!InSeq(s, c) \in Nat
    BY CountType
<1>2. Len(s) + 1 \notin Places(s, c)
    BY DEF Places
<1>3. Places(Append(s, e), c) =
        IF e.class = c THEN Places(s, c) \cup {Len(s) + 1} ELSE Places(s, c)
    BY DEF Places
<1>4. Cardinality(Places(s, c) \cup {Len(s) + 1}) = Cardinality(Places(s, c)) + 1
    BY <1>1, <1>2, FS_AddElement
<1>5. /\ Stats!InSeq(s, c) = Cardinality(Places(s, c))
      /\ Stats!InSeq(Append(s, e), c) = Cardinality(Places(Append(s, e), c))
    BY CountOfPlaces
<1> QED
    BY <1>1, <1>3, <1>4, <1>5

\* A report taken from a FIFO counts once less in its class.
LEMMA CountTail ==
    ASSUME NEW R, NEW s \in Seq(R), s # <<>>, NEW c
    PROVE  Stats!InSeq(s, c) = Stats!InSeq(Tail(s), c) + (IF Head(s).class = c THEN 1 ELSE 0)
<1> DEFINE A == Places(Tail(s), c)
           B == {i + 1 : i \in A}
           f == [i \in A |-> i + 1]
<1>1. Tail(s) \in Seq(R) /\ Len(s) \in Nat /\ Len(s) >= 1 /\ Len(Tail(s)) = Len(s) - 1
      /\ \A i \in 1..Len(Tail(s)) : Tail(s)[i] = s[i + 1]
      /\ Head(s) = s[1] /\ DOMAIN s = 1..Len(s) /\ DOMAIN Tail(s) = 1..Len(Tail(s))
    OBVIOUS
<1>2. IsFiniteSet(A) /\ Stats!InSeq(Tail(s), c) \in Nat
    BY <1>1, CountType
<1>3. A \subseteq Nat \ {0}
    BY <1>1 DEF Places
<1>4. f \in Bijection(A, B)
    BY <1>3 DEF Bijection, Injection, Surjection, IsInjective
<1>5. IsFiniteSet(B) /\ Cardinality(B) = Cardinality(A)
    BY <1>2, <1>4, FS_Bijection DEF ExistsBijection
<1>6. 1 \notin B
    BY <1>3
<1>7. Cardinality(B \cup {1}) = Cardinality(B) + 1
    BY <1>5, <1>6, FS_AddElement
<1>8. Places(s, c) = IF Head(s).class = c THEN B \cup {1} ELSE B
    <2>1. ASSUME NEW i \in Places(s, c), i # 1 PROVE i \in B
        <3>1. i \in 2..Len(s) /\ s[i].class = c
            BY <1>1, <2>1 DEF Places
        <3>2. i - 1 \in 1..Len(Tail(s)) /\ Tail(s)[i - 1] = s[i]
            BY <1>1, <3>1
        <3>3. i - 1 \in A /\ i = (i - 1) + 1
            BY <1>1, <3>1, <3>2 DEF Places
        <3> QED
            BY <3>3
    <2>2. B \subseteq Places(s, c)
        BY <1>1 DEF Places
    <2>3. 1 \in Places(s, c) <=> Head(s).class = c
        BY <1>1 DEF Places
    <2> QED
        BY <1>6, <2>1, <2>2, <2>3
<1> HIDE DEF A, B
<1>9. Cardinality(Places(s, c)) = Cardinality(A) + (IF Head(s).class = c THEN 1 ELSE 0)
    BY <1>2, <1>5, <1>7, <1>8, FS_CardinalityType
<1> QED
    BY <1>9, CountOfPlaces DEF A

\* How many of the two drainers hold a report.
LEMMA CountDrainers ==
    ASSUME NEW h \in SUBSET Stats!Drainers
    PROVE  Cardinality(h) = (IF "worker" \in h THEN 1 ELSE 0) + (IF "report" \in h THEN 1 ELSE 0)
<1>1. /\ Cardinality({}) = 0 /\ IsFiniteSet({"worker"})
      /\ Cardinality({"worker"}) = 1 /\ Cardinality({"report"}) = 1
    BY FS_EmptySet, FS_Singleton
<1>2. Cardinality({"worker"} \cup {"report"}) = 2
    BY <1>1, FS_AddElement
<1>3. h \in {{}, {"worker"}, {"report"}, {"worker"} \cup {"report"}}
    BY DEF Stats!Drainers
<1> QED
    BY <1>1, <1>2, <1>3

\* Counting, a report held by a drainer included.
Held(dr, d, c) == IF dr[d].at = "have" /\ dr[d].report.class = c THEN 1 ELSE 0
Balance(p, v, m, a, f, dr, c) ==
    p[c] = v[c] + m[c] + Stats!InSeq(a, c) + Stats!InSeq(f, c)
              + (Held(dr, "worker", c) + Held(dr, "report", c))

\* The reports are accounted for when the balance of each class is even.
LEMMA AccountedIsBalance ==
    /\ Stats!ReportsAccounted <=>
         \A c \in Stats!Classes : Balance(posted, valid, missed, air, fifo, drain, c)
    /\ Stats!ReportsAccounted' <=>
         \A c \in Stats!Classes : Balance(posted', valid', missed', air', fifo', drain', c)
<1>1. ASSUME NEW dr, NEW c
      PROVE  Stats!Cardinality({d \in Stats!Drainers : dr[d].at = "have" /\ dr[d].report.class = c})
                = Held(dr, "worker", c) + Held(dr, "report", c)
    <2> DEFINE h == {d \in Stats!Drainers : dr[d].at = "have" /\ dr[d].report.class = c}
    <2>1. "worker" \in h <=> dr["worker"].at = "have" /\ dr["worker"].report.class = c
        BY DEF Stats!Drainers
    <2>2. "report" \in h <=> dr["report"].at = "have" /\ dr["report"].report.class = c
        BY DEF Stats!Drainers
    <2>3. h \in SUBSET Stats!Drainers
        OBVIOUS
    <2> HIDE DEF h
    <2>4. Stats!Cardinality(h) = (IF "worker" \in h THEN 1 ELSE 0) + (IF "report" \in h THEN 1 ELSE 0)
        BY <2>3, CountDrainers, CountIsCardinality
    <2>5. Stats!Cardinality(h) = Held(dr, "worker", c) + Held(dr, "report", c)
        BY <2>1, <2>2, <2>4 DEF Held
    <2> QED
        BY <2>5 DEF h
<1>2. Stats!ReportsAccounted <=>
        \A c \in Stats!Classes : Balance(posted, valid, missed, air, fifo, drain, c)
    BY <1>1, Zenon DEF Stats!ReportsAccounted, Stats!HeldBy, Balance
<1>3. Stats!ReportsAccounted' <=>
        \A c \in Stats!Classes : Balance(posted', valid', missed', air', fifo', drain', c)
    BY <1>1, Zenon DEF Stats!ReportsAccounted, Stats!HeldBy, Balance
<1> QED
    BY <1>2, <1>3

-----------------------------------------------------------------------------
(* The records.                                                            *)

\* The records the RX worker passes through in rf_2a4m1_rx_process_seg.
LEMMA RxForms ==
    /\ Stats!NoRx \in StatRx /\ Stats!NoRx.at = "idle"
    /\ \A x \in StatRx, p \in {"capture?", "capture"} :
         x.at # "idle" => LET y == [x EXCEPT !.at = p]
                          IN  y \in StatRx /\ y.at # "idle" /\ y.of = x.of
    /\ \A k \in Stats!Kinds, e \in Nat, b \in Bssids \cup {"none"} :
         LET y == [at |-> "record", kind |-> k, of |-> e, from |-> b]
         IN  y \in StatRx /\ y.at # "idle" /\ y.of = e
BY DEF StatRx, Stats!NoRx, Stats!Kinds

\* The records rf_2a4m1_drain_tx_status passes through.
LEMMA DrainForms ==
    /\ Stats!IdleDrain \in StatDrain /\ Stats!IdleDrain.at = "idle"
    /\ \A n \in Nat : LET y == [at |-> "read", n |-> n] IN y \in StatDrain /\ y.at = "read"
    /\ \A n \in Nat, r \in StatReport :
         LET y == [at |-> "have", n |-> n, report |-> r]
         IN  y \in StatDrain /\ y.at = "have" /\ y.report = r
    /\ \A x \in StatDrain : /\ x.at # "idle" => x.n \in Nat
                            /\ x.at = "have" => x.report \in StatReport
BY DEF StatDrain, Stats!IdleDrain

\* A report carries the class its packet id names.
LEMMA ReportForms ==
    /\ \A r \in StatReport : r.class \in Stats!Classes /\ r.pid = r.class /\ r.of \in Nat
    /\ \A c \in Stats!Classes, e \in Nat :
         LET r == [class |-> c, pid |-> Stats!Pktid(c), of |-> e]
         IN  r \in StatReport /\ r.class = c /\ r.of = e
BY DEF StatReport, Stats!Classes, Stats!Pktid, Stats!PktidByKeySlot

\* Taking the first report of a queue.
LEMMA TakeReport ==
    ASSUME NEW s \in Seq(StatReport), s # <<>>
    PROVE  /\ Head(s) \in StatReport
           /\ Tail(s) \in Seq(StatReport)
           /\ \A e : AllOf(s, e) => Head(s).of = e /\ AllOf(Tail(s), e)
<1>1. Head(s) \in StatReport /\ Tail(s) \in Seq(StatReport) /\ Head(s) = s[1] /\ 1 \in DOMAIN s
    OBVIOUS
<1>2. \A i \in DOMAIN Tail(s) : i + 1 \in DOMAIN s /\ Tail(s)[i] = s[i + 1]
    OBVIOUS
<1> QED
    BY <1>1, <1>2 DEF AllOf

\* Adding a report to a queue.
LEMMA PutReport ==
    ASSUME NEW s \in Seq(StatReport), NEW r \in StatReport
    PROVE  /\ Append(s, r) \in Seq(StatReport)
           /\ \A e : AllOf(s, e) /\ r.of = e => AllOf(Append(s, r), e)
<1>1. Append(s, r) \in Seq(StatReport)
    OBVIOUS
<1>2. \A i \in DOMAIN Append(s, r) : (i \in DOMAIN s /\ Append(s, r)[i] = s[i])
                                     \/ Append(s, r)[i] = r
    OBVIOUS
<1> QED
    BY <1>1, <1>2 DEF AllOf

-----------------------------------------------------------------------------
(* The steps.                                                              *)

\* What a step that touches no report and no drainer may do.
Untouched == UNCHANGED <<air, fifo, posted, missed, valid, drain>>

\* A step that moves no report keeps the accounts.
LEMMA UntouchedAccounted ==
    ASSUME StatsInd, Untouched
    PROVE  Stats!ReportsAccounted'
BY AccountedIsBalance DEF StatsInd, Untouched

\* .connect: the attempt is counted, then the capture and the rates are dropped.
LEMMA ConnectKeeps ==
    ASSUME StatsInd,
           \/ \E b \in Bssids : Stats!CfgConnectName(b)
           \/ Stats!CfgConnectUncapture \/ Stats!CfgConnectFresh \/ Stats!LinkUp
    PROVE  StatsInd'
<1> USE DEF Stats!conn, Stats!peer, Stats!txs, Untouched
<1>1. Untouched /\ UNCHANGED rx
    BY DEF Stats!CfgConnectName, Stats!CfgConnectUncapture, Stats!CfgConnectFresh, Stats!LinkUp
<1>2. StatsTyped'
    BY <1>1 DEF StatsInd, StatsTyped, Stats!CfgConnectName, Stats!CfgConnectUncapture,
                Stats!CfgConnectFresh, Stats!LinkUp
<1>3. (~straddled => SamplesOfThisConnect)'
    <2>1. CASE \E b \in Bssids : Stats!CfgConnectName(b)
        BY <2>1 DEF StatsInd, SamplesOfThisConnect, Stats!CfgConnectName
    <2>2. CASE Stats!CfgConnectUncapture
        BY <2>2 DEF StatsInd, SamplesOfThisConnect, Stats!CfgConnectUncapture
    <2>3. CASE Stats!CfgConnectFresh
        <3>1. ~straddled' => /\ rx.at = "idle" /\ air = <<>> /\ fifo = <<>>
                             /\ \A d \in Stats!Drainers : drain[d].at # "have"
            BY <2>3 DEF Stats!CfgConnectFresh, Stats!UnderWay
        <3>2. \A e : AllOf(<<>>, e)
            BY DEF AllOf
        <3> QED
            BY <1>1, <2>3, <3>1, <3>2 DEF StatsInd, SamplesOfThisConnect, Stats!CfgConnectFresh,
                                          Stats!UnderWay
    <2>4. CASE Stats!LinkUp
        BY <2>4 DEF StatsInd, SamplesOfThisConnect, Stats!LinkUp
    <2> QED
        BY <2>1, <2>2, <2>3, <2>4
<1> QED
    BY <1>1, <1>2, <1>3, UntouchedAccounted DEF StatsInd

\* The RX worker stores what it heard in the attempt it heard it in.
LEMMA RxKeeps ==
    ASSUME StatsInd,
           \/ \E k \in Stats!Kinds : Stats!RxMatch(k)
           \/ Stats!RxRecord \/ Stats!RxCaptureCheck \/ Stats!RxCapture
    PROVE  StatsInd'
<1> USE DEF Stats!conn, Stats!peer, Stats!txs, Untouched
<1>1. Untouched /\ UNCHANGED <<epoch, bss, cpc, txRate, straddled>>
    BY DEF Stats!RxMatch, Stats!RxRecord, Stats!RxCaptureCheck, Stats!RxCapture
<1>2. rx' \in StatRx /\ (rx'.at # "idle" => rx'.of = epoch \/ (rx.at # "idle" /\ rx'.of = rx.of))
    <2>1. rx \in StatRx /\ epoch \in Nat /\ bss \in Bssids \cup {"none"}
        BY DEF StatsInd, StatsTyped
    <2>2. CASE \E k \in Stats!Kinds : Stats!RxMatch(k)
        BY <2>1, <2>2, RxForms DEF Stats!RxMatch
    <2>3. CASE Stats!RxRecord
        BY <2>1, <2>3, RxForms DEF Stats!RxRecord
    <2>4. CASE Stats!RxCaptureCheck
        BY <2>1, <2>4, RxForms DEF Stats!RxCaptureCheck
    <2>5. CASE Stats!RxCapture
        BY <2>1, <2>5, RxForms DEF Stats!RxCapture
    <2> QED
        BY <2>2, <2>3, <2>4, <2>5
<1>3. /\ rssi' = rssi \/ (rx.at # "idle" /\ rssi' = rx.of)
      /\ rxRate' = rxRate \/ (rx.at # "idle" /\ rxRate' = rx.of)
      /\ capture' = capture \/ (rx.at # "idle" /\ capture' = rx.of)
    BY DEF Stats!RxMatch, Stats!RxRecord, Stats!RxCaptureCheck, Stats!RxCapture
<1>4. StatsTyped'
    BY <1>1, <1>2 DEF StatsInd, StatsTyped
<1>5. (~straddled => SamplesOfThisConnect)'
    BY <1>1, <1>2, <1>3 DEF StatsInd, StatsTyped, SamplesOfThisConnect
<1> QED
    BY <1>1, <1>4, <1>5, UntouchedAccounted DEF StatsInd

\* A frame handed to the radio is one more posted and one more in the air.
LEMMA TransmitKeeps ==
    ASSUME StatsInd, NEW c \in Stats!Classes, Stats!Transmit(c),
           UNCHANGED <<bss, epoch, cpc, rssi, rxRate, txRate, capture, rx, valid, drain, straddled>>
    PROVE  StatsInd'
<1> DEFINE r == [class |-> c, pid |-> Stats!Pktid(c), of |-> epoch]
<1>1. /\ StatsTyped /\ epoch \in Nat /\ r \in StatReport /\ r.class = c /\ r.of = epoch
      /\ air \in Seq(StatReport)
    BY ReportForms DEF StatsInd, StatsTyped
<1>2. air' = Append(air, r) /\ posted' = [posted EXCEPT ![c] = @ + 1] /\ UNCHANGED <<fifo, missed>>
    BY DEF Stats!Transmit
<1> HIDE DEF r
<1>3. StatsTyped'
    BY <1>1, <1>2, PutReport DEF StatsTyped
<1>4. (~straddled => SamplesOfThisConnect)'
    BY <1>1, <1>2, PutReport DEF StatsInd, SamplesOfThisConnect
<1>5. ASSUME NEW x \in Stats!Classes
      PROVE  Balance(posted', valid', missed', air', fifo', drain', x)
    <2>1. Balance(posted, valid, missed, air, fifo, drain, x)
        BY AccountedIsBalance DEF StatsInd
    <2>2. Stats!InSeq(air', x) = Stats!InSeq(air, x) + (IF c = x THEN 1 ELSE 0)
        BY <1>1, <1>2, CountAppend
    <2>3. posted'[x] = posted[x] + (IF c = x THEN 1 ELSE 0)
        BY <1>1, <1>2 DEF StatsTyped
    <2>4. /\ Stats!InSeq(air, x) \in Nat /\ Stats!InSeq(fifo, x) \in Nat
          /\ posted[x] \in Nat /\ valid[x] \in Nat /\ missed[x] \in Nat
        BY <1>1, CountType DEF StatsTyped
    <2> QED
        BY <1>2, <2>1, <2>2, <2>3, <2>4 DEF Balance, Held
<1> QED
    BY <1>3, <1>4, <1>5, AccountedIsBalance DEF StatsInd

\* The report of the oldest frame enters the FIFO, or is lost to a full one.
LEMMA ReportKeeps ==
    ASSUME StatsInd, Stats!Report
    PROVE  StatsInd'
<1> USE DEF Stats!conn, Stats!peer
<1>1. /\ StatsTyped /\ air \in Seq(StatReport) /\ air # <<>> /\ air' = Tail(air)
      /\ fifo \in Seq(StatReport)
      /\ UNCHANGED <<bss, epoch, cpc, rssi, rxRate, txRate, capture, rx, posted, valid, drain,
                     straddled>>
    BY DEF StatsInd, StatsTyped, Stats!Report
<1>2. \/ fifo' = Append(fifo, Head(air)) /\ UNCHANGED missed
      \/ missed' = [missed EXCEPT ![Head(air).class] = @ + 1] /\ UNCHANGED fifo
    BY DEF Stats!Report
<1>3. Head(air) \in StatReport /\ Head(air).class \in Stats!Classes /\ Tail(air) \in Seq(StatReport)
    BY <1>1, TakeReport, ReportForms
<1>4. StatsTyped'
    <2>1. fifo' \in Seq(StatReport)
        BY <1>1, <1>2, <1>3, PutReport
    <2>2. missed' \in [Stats!Classes -> Nat]
        BY <1>1, <1>2, <1>3 DEF StatsTyped
    <2> QED
        BY <1>1, <1>3, <2>1, <2>2 DEF StatsTyped
<1>5. (~straddled => SamplesOfThisConnect)'
    BY <1>1, <1>2, <1>3, TakeReport, PutReport DEF StatsInd, SamplesOfThisConnect
<1>6. ASSUME NEW x \in Stats!Classes
      PROVE  Balance(posted', valid', missed', air', fifo', drain', x)
    <2> DEFINE one == IF Head(air).class = x THEN 1 ELSE 0
    <2>1. Balance(posted, valid, missed, air, fifo, drain, x)
        BY AccountedIsBalance DEF StatsInd
    <2>2. Stats!InSeq(air, x) = Stats!InSeq(air', x) + one
        BY <1>1, CountTail
    <2>3. missed'[x] + Stats!InSeq(fifo', x) = missed[x] + Stats!InSeq(fifo, x) + one
        <3>1. missed[x] \in Nat /\ Stats!InSeq(fifo, x) \in Nat
            BY <1>1, CountType DEF StatsTyped
        <3>2. CASE fifo' = Append(fifo, Head(air)) /\ UNCHANGED missed
            <4>1. Stats!InSeq(fifo', x) = Stats!InSeq(fifo, x) + one
                BY <1>1, <1>3, <3>2, CountAppend
            <4> QED
                BY <3>1, <3>2, <4>1
        <3>3. CASE missed' = [missed EXCEPT ![Head(air).class] = @ + 1] /\ UNCHANGED fifo
            <4>1. missed'[x] = missed[x] + one
                BY <1>1, <1>3, <3>3 DEF StatsTyped
            <4> QED
                BY <3>1, <3>3, <4>1
        <3> QED
            BY <1>2, <3>2, <3>3
    <2>4. /\ Stats!InSeq(air', x) \in Nat /\ Stats!InSeq(fifo, x) \in Nat
          /\ posted[x] \in Nat /\ valid[x] \in Nat /\ missed[x] \in Nat /\ one \in Nat
          /\ missed'[x] \in Nat /\ Stats!InSeq(fifo', x) \in Nat
        BY <1>1, <1>3, <1>4, CountType DEF StatsTyped
    <2>5. /\ Held(drain, "worker", x) \in Nat /\ Held(drain, "report", x) \in Nat
          /\ posted' = posted /\ valid' = valid /\ drain' = drain
        BY <1>1 DEF Held
    <2> HIDE DEF one
    <2> QED
        BY <2>1, <2>2, <2>3, <2>4, <2>5, SMT DEF Balance
<1> QED
    BY <1>4, <1>5, <1>6, AccountedIsBalance DEF StatsInd

\* A drain begins or ends: no report changes hands.
LEMMA DrainTurnKeeps ==
    ASSUME StatsInd, NEW d \in Stats!Drainers, NEW y \in StatDrain, y.at # "have",
           drain[d].at # "have", drain' = [drain EXCEPT ![d] = y],
           UNCHANGED <<bss, epoch, cpc, rssi, rxRate, txRate, capture, rx, air, fifo, posted,
                       missed, valid, straddled>>
    PROVE  StatsInd'
<1>1. StatsTyped'
    BY DEF StatsInd, StatsTyped
<1>2. \A x \in Stats!Drainers : drain'[x] = IF x = d THEN y ELSE drain[x]
    BY DEF StatsInd, StatsTyped
<1>3. (~straddled => SamplesOfThisConnect)'
    BY <1>2 DEF StatsInd, SamplesOfThisConnect
<1>4. ASSUME NEW x \in Stats!Classes
      PROVE  Balance(posted', valid', missed', air', fifo', drain', x)
    <2>1. Balance(posted, valid, missed, air, fifo, drain, x)
        BY AccountedIsBalance DEF StatsInd
    <2>2. \A e \in Stats!Drainers : Held(drain', e, x) = Held(drain, e, x)
        BY <1>2 DEF Held
    <2> QED
        BY <2>1, <2>2 DEF Balance, Stats!Drainers
<1> QED
    BY <1>1, <1>3, <1>4, AccountedIsBalance DEF StatsInd

\* A report leaves the FIFO into the hands of a drainer.
LEMMA DrainPopKeeps ==
    ASSUME StatsInd, NEW d \in Stats!Drainers, Stats!DrainRead(d),
           fifo # <<>>, drain[d].n # DrainMax
    PROVE  StatsInd'
<1> USE DEF Stats!conn, Stats!peer
<1> DEFINE y == [at |-> "have", n |-> drain[d].n + 1, report |-> Head(fifo)]
<1>1. /\ StatsTyped /\ fifo \in Seq(StatReport) /\ drain \in [Stats!Drainers -> StatDrain]
      /\ drain[d].n + 1 \in Nat /\ drain[d].at = "read" /\ fifo' = Tail(fifo)
      /\ UNCHANGED <<bss, epoch, cpc, rssi, rxRate, txRate, capture, rx, air, posted, missed,
                     valid, straddled>>
    <2>1. StatsTyped /\ fifo \in Seq(StatReport) /\ drain \in [Stats!Drainers -> StatDrain]
        BY DEF StatsInd, StatsTyped
    <2>2. drain[d] \in StatDrain
        BY <2>1
    <2> QED
        BY <2>1, <2>2, DrainForms DEF Stats!DrainRead
<1>2. Head(fifo) \in StatReport /\ Tail(fifo) \in Seq(StatReport)
    BY <1>1, TakeReport
<1>3. y \in StatDrain /\ y.at = "have" /\ y.report = Head(fifo) /\ drain' = [drain EXCEPT ![d] = y]
    BY <1>1, <1>2, DrainForms DEF Stats!DrainRead
<1> HIDE DEF y
<1>4. /\ drain' \in [Stats!Drainers -> StatDrain]
      /\ \A x \in Stats!Drainers : drain'[x] = IF x = d THEN y ELSE drain[x]
    BY <1>1, <1>3
<1>5. StatsTyped'
    BY <1>1, <1>2, <1>4 DEF StatsTyped
<1>6. (~straddled => SamplesOfThisConnect)'
    BY <1>1, <1>3, <1>4, TakeReport DEF StatsInd, SamplesOfThisConnect
<1>7. ASSUME NEW x \in Stats!Classes
      PROVE  Balance(posted', valid', missed', air', fifo', drain', x)
    <2> DEFINE one == IF Head(fifo).class = x THEN 1 ELSE 0
    <2>1. Balance(posted, valid, missed, air, fifo, drain, x)
        BY AccountedIsBalance DEF StatsInd
    <2>2. Stats!InSeq(fifo, x) = Stats!InSeq(fifo', x) + one
        BY <1>1, CountTail
    <2>3. /\ Held(drain, d, x) = 0 /\ Held(drain', d, x) = one
          /\ \A e \in Stats!Drainers \ {d} : Held(drain', e, x) = Held(drain, e, x)
        BY <1>1, <1>3, <1>4 DEF Held
    <2>4. /\ Stats!InSeq(air, x) \in Nat /\ Stats!InSeq(fifo', x) \in Nat
          /\ posted[x] \in Nat /\ valid[x] \in Nat /\ missed[x] \in Nat /\ one \in Nat
        BY <1>1, <1>5, CountType DEF StatsTyped
    <2>5. /\ Held(drain, "worker", x) \in Nat /\ Held(drain, "report", x) \in Nat
          /\ Held(drain', "worker", x) \in Nat /\ Held(drain', "report", x) \in Nat
        BY DEF Held
    <2> HIDE DEF one
    <2>6. \/ /\ Held(drain, "worker", x) = 0 /\ Held(drain', "worker", x) = one
             /\ Held(drain', "report", x) = Held(drain, "report", x)
          \/ /\ Held(drain, "report", x) = 0 /\ Held(drain', "report", x) = one
             /\ Held(drain', "worker", x) = Held(drain, "worker", x)
        BY <2>3, Zenon DEF Stats!Drainers
    <2>7. posted' = posted /\ valid' = valid /\ missed' = missed /\ air' = air
        BY <1>1
    <2>8. Held(drain', "worker", x) + Held(drain', "report", x)
            = Held(drain, "worker", x) + Held(drain, "report", x) + one
        BY <2>4, <2>5, <2>6
    <2> QED
        BY <2>1, <2>2, <2>4, <2>5, <2>7, <2>8, SMT DEF Balance
<1> QED
    BY <1>5, <1>6, <1>7, AccountedIsBalance DEF StatsInd

\* A failed read ends the drain, and may have lost the report it popped.
LEMMA DrainErrorKeeps ==
    ASSUME StatsInd, NEW d \in Stats!Drainers, Stats!DrainError(d)
    PROVE  StatsInd'
<1> USE DEF Stats!conn, Stats!peer
<1>1. /\ StatsTyped /\ fifo \in Seq(StatReport) /\ drain \in [Stats!Drainers -> StatDrain]
      /\ drain[d].at = "read" /\ fifo # <<>>
      /\ drain' = [drain EXCEPT ![d] = Stats!IdleDrain]
      /\ UNCHANGED <<bss, epoch, cpc, rssi, rxRate, txRate, capture, rx, air, posted, valid,
                     straddled>>
    BY DEF StatsInd, StatsTyped, Stats!DrainError, Stats!EndDrain
<1>2. CASE UNCHANGED <<fifo, missed>>
    BY <1>1, <1>2, DrainForms, DrainTurnKeeps
<1>3. CASE fifo' = Tail(fifo) /\ missed' = [missed EXCEPT ![Head(fifo).class] = @ + 1]
    <2>1. /\ Head(fifo) \in StatReport /\ Head(fifo).class \in Stats!Classes
          /\ Tail(fifo) \in Seq(StatReport)
        BY <1>1, TakeReport, ReportForms
    <2>2. /\ drain' \in [Stats!Drainers -> StatDrain]
          /\ \A x \in Stats!Drainers : drain'[x] = IF x = d THEN Stats!IdleDrain ELSE drain[x]
          /\ Stats!IdleDrain.at = "idle"
        BY <1>1, DrainForms
    <2>3. missed' \in [Stats!Classes -> Nat]
        BY <1>1, <1>3, <2>1 DEF StatsTyped
    <2>4. StatsTyped'
        BY <1>1, <1>3, <2>1, <2>2, <2>3 DEF StatsTyped
    <2>5. (~straddled => SamplesOfThisConnect)'
        BY <1>1, <1>3, <2>2, TakeReport DEF StatsInd, SamplesOfThisConnect
    <2>6. ASSUME NEW x \in Stats!Classes
          PROVE  Balance(posted', valid', missed', air', fifo', drain', x)
        <3> DEFINE one == IF Head(fifo).class = x THEN 1 ELSE 0
        <3>1. Balance(posted, valid, missed, air, fifo, drain, x)
            BY AccountedIsBalance DEF StatsInd
        <3>2. Stats!InSeq(fifo, x) = Stats!InSeq(fifo', x) + one
            BY <1>1, <1>3, CountTail
        <3>3. missed'[x] = missed[x] + one
            BY <1>1, <1>3, <2>1 DEF StatsTyped
        <3>4. \A e \in Stats!Drainers : Held(drain', e, x) = Held(drain, e, x)
            BY <1>1, <2>2 DEF Held
        <3>5. /\ Stats!InSeq(air, x) \in Nat /\ Stats!InSeq(fifo', x) \in Nat
              /\ posted[x] \in Nat /\ valid[x] \in Nat /\ missed[x] \in Nat /\ one \in Nat
            BY <1>1, <2>4, CountType DEF StatsTyped
        <3>6. /\ Held(drain, "worker", x) \in Nat /\ Held(drain, "report", x) \in Nat
              /\ Held(drain', "worker", x) = Held(drain, "worker", x)
              /\ Held(drain', "report", x) = Held(drain, "report", x)
            BY <3>4 DEF Held, Stats!Drainers
        <3> HIDE DEF one
        <3> QED
            BY <1>1, <3>1, <3>2, <3>3, <3>5, <3>6, SMT DEF Balance
    <2> QED
        BY <2>4, <2>5, <2>6, AccountedIsBalance DEF StatsInd
<1> QED
    BY <1>2, <1>3 DEF Stats!DrainError

\* The report in hand is counted, in its own class.
LEMMA DrainCountKeeps ==
    ASSUME StatsInd, NEW d \in Stats!Drainers, Stats!DrainCount(d)
    PROVE  StatsInd'
<1> USE DEF Stats!conn, Stats!txs
<1> DEFINE r == drain[d].report
           y == [at |-> "read", n |-> drain[d].n]
<1>1. /\ StatsTyped /\ drain \in [Stats!Drainers -> StatDrain] /\ drain[d] \in StatDrain
      /\ drain[d].at = "have"
      /\ UNCHANGED <<bss, epoch, cpc, rssi, rxRate, capture, rx, air, fifo, posted, missed,
                     straddled>>
    BY DEF StatsInd, StatsTyped, Stats!DrainCount
<1>2. r \in StatReport /\ r.class \in Stats!Classes /\ r.pid = r.class /\ drain[d].n \in Nat
    BY <1>1, DrainForms, ReportForms
<1>3. /\ valid' = [valid EXCEPT ![r.class] = @ + 1]
      /\ txRate' = r.of \/ txRate' = txRate
      /\ drain' = [drain EXCEPT ![d] = y]
    BY <1>2 DEF Stats!DrainCount
<1>4. y \in StatDrain /\ y.at = "read"
    BY <1>2, DrainForms
<1> HIDE DEF y
<1>5. /\ drain' \in [Stats!Drainers -> StatDrain]
      /\ \A x \in Stats!Drainers : drain'[x] = IF x = d THEN y ELSE drain[x]
    BY <1>1, <1>3, <1>4
<1>6. StatsTyped'
    <2>1. valid' \in [Stats!Classes -> Nat]
        BY <1>1, <1>2, <1>3 DEF StatsTyped
    <2> QED
        BY <1>1, <1>5, <2>1 DEF StatsTyped
<1>7. (~straddled => SamplesOfThisConnect)'
    BY <1>1, <1>3, <1>4, <1>5 DEF StatsInd, SamplesOfThisConnect
<1>8. ASSUME NEW x \in Stats!Classes
      PROVE  Balance(posted', valid', missed', air', fifo', drain', x)
    <2> DEFINE one == IF r.class = x THEN 1 ELSE 0
    <2>1. Balance(posted, valid, missed, air, fifo, drain, x)
        BY AccountedIsBalance DEF StatsInd
    <2>2. valid'[x] = valid[x] + one
        BY <1>1, <1>2, <1>3 DEF StatsTyped
    <2>3. /\ Held(drain, d, x) = one /\ Held(drain', d, x) = 0
          /\ \A e \in Stats!Drainers \ {d} : Held(drain', e, x) = Held(drain, e, x)
        BY <1>1, <1>4, <1>5 DEF Held
    <2>4. /\ Stats!InSeq(air, x) \in Nat /\ Stats!InSeq(fifo, x) \in Nat
          /\ posted[x] \in Nat /\ valid[x] \in Nat /\ missed[x] \in Nat /\ one \in Nat
        BY <1>1, CountType DEF StatsTyped
    <2>5. /\ Held(drain, "worker", x) \in Nat /\ Held(drain, "report", x) \in Nat
          /\ Held(drain', "worker", x) \in Nat /\ Held(drain', "report", x) \in Nat
        BY DEF Held
    <2> HIDE DEF one
    <2>6. Held(drain, "worker", x) + Held(drain, "report", x)
            = Held(drain', "worker", x) + Held(drain', "report", x) + one
        <3>1. CASE d = "worker"
            BY <2>3, <2>4, <2>5, <3>1 DEF Stats!Drainers
        <3>2. CASE d = "report"
            BY <2>3, <2>4, <2>5, <3>2 DEF Stats!Drainers
        <3> QED
            BY <3>1, <3>2 DEF Stats!Drainers
    <2> QED
        BY <1>1, <2>1, <2>2, <2>4, <2>5, <2>6, SMT DEF Balance
<1> QED
    BY <1>6, <1>7, <1>8, AccountedIsBalance DEF StatsInd

\* Every step keeps the accounts of the reports.
LEMMA StatsStep ==
    ASSUME StatsInd, [Stats!Next]_Stats!vars
    PROVE  StatsInd'
<1> USE DEF Stats!conn, Stats!peer, Stats!txs
<1>1. CASE \/ \E b \in Bssids : Stats!CfgConnectName(b)
           \/ Stats!CfgConnectUncapture \/ Stats!CfgConnectFresh \/ Stats!LinkUp
    BY <1>1, ConnectKeeps
<1>2. CASE Stats!LinkEnd
    BY <1>2, DrainForms, DrainTurnKeeps DEF Stats!LinkEnd, Stats!Drainers
<1>3. CASE \/ \E k \in Stats!Kinds : Stats!RxMatch(k)
           \/ Stats!RxRecord \/ Stats!RxCaptureCheck \/ Stats!RxCapture
    BY <1>3, RxKeeps
<1>4. ASSUME NEW c \in {"CLEARTEXT", "ENCRYPTED"}, Stats!OpTx(c) PROVE StatsInd'
    BY <1>4, TransmitKeeps DEF Stats!OpTx, Stats!Classes
<1>5. CASE Stats!BogusProbe
    BY <1>5, TransmitKeeps DEF Stats!BogusProbe, Stats!Classes
<1>6. CASE Stats!Report
    BY <1>6, ReportKeeps
<1>7. CASE Stats!StatTimer
    BY <1>7, DrainForms, DrainTurnKeeps DEF Stats!StatTimer, Stats!Drainers
<1>8. ASSUME NEW d \in Stats!Drainers, Stats!DrainRead(d) PROVE StatsInd'
    <2>1. CASE fifo = <<>> \/ drain[d].n = DrainMax
        BY <1>8, <2>1, DrainForms, DrainTurnKeeps DEF Stats!DrainRead, Stats!EndDrain
    <2>2. CASE ~(fifo = <<>> \/ drain[d].n = DrainMax)
        BY <1>8, <2>2, DrainPopKeeps DEF Stats!DrainRead
    <2> QED
        BY <2>1, <2>2
<1>9. ASSUME NEW d \in Stats!Drainers, Stats!DrainError(d) PROVE StatsInd'
    BY <1>9, DrainErrorKeeps
<1>10. ASSUME NEW d \in Stats!Drainers, Stats!DrainCount(d) PROVE StatsInd'
    BY <1>10, DrainCountKeeps
<1>11. CASE UNCHANGED Stats!vars
    <2>1. Stats!ReportsAccounted'
        BY <1>11, UntouchedAccounted DEF Stats!vars, Untouched
    <2> QED
        BY <1>11, <2>1 DEF Stats!vars, StatsInd, StatsTyped, SamplesOfThisConnect
<1> QED
    BY <1>1, <1>2, <1>3, <1>4, <1>5, <1>6, <1>7, <1>8, <1>9, <1>10, <1>11 DEF Stats!Next, Stats!Drain

\* No report is on its way at first.
LEMMA StatsInitial == Stats!Init => StatsInd
<1> SUFFICES ASSUME Stats!Init PROVE StatsInd
    OBVIOUS
<1>1. /\ epoch = 0 /\ bss = "none" /\ cpc = "idle" /\ capture = 0
      /\ rssi = 0 /\ rxRate = 0 /\ txRate = 0
      /\ rx = Stats!NoRx /\ air = <<>> /\ fifo = <<>>
      /\ posted = Stats!Tally /\ missed = Stats!Tally /\ valid = Stats!Tally
      /\ drain = [d \in Stats!Drainers |-> Stats!IdleDrain]
    BY DEF Stats!Init
<1>2. StatsTyped
    BY <1>1, RxForms, DrainForms DEF StatsTyped, Stats!Tally
<1>3. SamplesOfThisConnect
    BY <1>1, RxForms, DrainForms DEF SamplesOfThisConnect, AllOf
<1>4. ASSUME NEW c \in Stats!Classes
      PROVE  Balance(posted, valid, missed, air, fifo, drain, c)
    <2>1. Places(<<>>, c) = {}
        BY DEF Places
    <2>2. Stats!InSeq(<<>>, c) = 0
        BY <2>1, CountOfPlaces, FS_EmptySet
    <2> QED
        BY <1>1, <2>2, DrainForms DEF Balance, Held, Stats!Tally, Stats!Drainers
<1> QED
    BY <1>2, <1>3, <1>4, AccountedIsBalance DEF StatsInd

\* Whatever the RX worker, the two drainers and .connect do at the same time, .get_station
\* shows no sample of an earlier attempt, unless one was under way at the reset.
THEOREM StatsAreFresh == Stats!Spec => []StatsUnraced
<1>1. StatsInd => StatsUnraced
    BY DEF StatsUnraced, StatsInd, SamplesOfThisConnect, Stats!StatsUnraced, Stats!OfThisConnect
<1> QED
    BY <1>1, StatsInitial, StatsStep, PTL DEF Stats!Spec

\* Two drainers that pop one FIFO lose no report and count none twice or in another
\* class, for every depth of the FIFO and every limit of a drain.
THEOREM ReportsAreAccounted == Stats!Spec => []ReportsAccounted
<1>1. StatsInd => ReportsAccounted
    BY DEF ReportsAccounted, StatsInd
<1> QED
    BY <1>1, StatsInitial, StatsStep, PTL DEF Stats!Spec

=============================================================================
