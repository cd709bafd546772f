----------------------------- MODULE UsbProofs ------------------------------
(***************************************************************************)
(* Theorems about the chip side of usb.c and main.c, for every value of    *)
(* the constants: the RX ring (module RxRing), for any number of URBs,     *)
(* segments and failures, and the bring-up (module BringUp).               *)
(***************************************************************************)
EXTENDS Device, Integers, SequenceTheorems, FiniteSets, FiniteSetTheorems, TLAPS

-----------------------------------------------------------------------------
(* The ring holds together.                                                *)

Slots == 1..Urbs

\* The slots that are armed.
Armed == {armed[i] : i \in 1..Len(armed)}

Stopping == {"kill", "free", "cancel", "anchor", "purge"}
OpPlaces == {"idle", "alloc", "submit"} \cup Stopping
DiscPlaces == {"idle", "begin", "stop", "stopped"} \cup Stopping
Places == [pc : OpPlaces \cup DiscPlaces, slot : 1..(Urbs + 1)]

RingFields ==
    /\ armed \in Seq(Slots)
    /\ handler \in 0..Urbs
    /\ alloc \subseteq Slots
    /\ at \in [{"op", "disc"} -> Places]
    /\ at["op"].pc \in OpPlaces
    /\ at["disc"].pc \in DiscPlaces
    /\ \A th \in Ring!Thread : at[th].pc \in {"free", "submit"} => at[th].slot \in Slots
    /\ failures \in Nat

\* An URB is armed once, or its completion runs, and rx_stop knows it; the one that
\* rx_start is about to submit is neither.
OncePerUrb ==
    /\ \A i, j \in 1..Len(armed) : armed[i] = armed[j] => i = j
    /\ handler \notin Armed
    /\ Armed \subseteq alloc
    /\ handler # 0 => handler \in alloc
    /\ at["op"].pc = "submit" /\ at["op"].slot \in alloc
        => at["op"].slot \notin Armed /\ at["op"].slot # handler

\* Before a failure and the removal, the URBs below the index of rx_start's loop are in
\* the ring, and all of them when it runs.
Whole ==
    /\ at["disc"].pc = "idle" => epOpen
    /\ at["disc"].pc \in {"idle", "begin"} => ~removing
    /\ at["disc"].pc = "idle" /\ failures = 0 =>
        /\ at["op"].pc \notin Stopping
        /\ at["op"].pc \in {"alloc", "submit"} => 1..(at["op"].slot - 1) \subseteq Armed \cup {handler}
        /\ running => Slots \subseteq Armed \cup {handler}

\* How far the loop of rx_stop is.
Stopped(th) ==
    /\ at[th].pc \in {"kill", "free"} => \A s \in alloc : s >= at[th].slot
    /\ at[th].pc = "free" => /\ at[th].slot \in alloc
                             /\ at[th].slot \notin Armed
                             /\ at[th].slot # handler
    /\ at[th].pc \in {"cancel", "anchor", "purge", "stopped"} => alloc = {}

\* One thread has the slots to itself: the operation until disconnect enters rx_stop,
\* disconnect from then on.
Alone ==
    /\ at["disc"].pc \in Stopping \cup {"stopped"} => at["op"].pc = "idle"
    /\ at["disc"].pc \notin Stopping \cup {"stopped"} =>
        /\ at["op"].pc = "idle" /\ ~running => alloc = {}
        /\ at["op"].pc = "alloc" => \A s \in alloc : s < at["op"].slot
        /\ at["op"].pc = "submit" => at["op"].slot \in alloc /\ \A s \in alloc : s <= at["op"].slot
    /\ Stopped("op") /\ Stopped("disc")
    /\ ~fault

RingInd == RingFields /\ OncePerUrb /\ Whole /\ (~late => Alone)

\* Arming one more URB.
LEMMA ArmedAppend ==
    ASSUME armed \in Seq(Slots), NEW s \in Slots, armed' = Append(armed, s)
    PROVE  /\ armed' \in Seq(Slots)
           /\ Len(armed') = Len(armed) + 1
           /\ \A i \in 1..Len(armed) : armed'[i] = armed[i]
           /\ armed'[Len(armed) + 1] = s
           /\ Armed' = Armed \cup {s}
<1>1. /\ armed' \in Seq(Slots)
      /\ Len(armed') = Len(armed) + 1
      /\ Len(armed) \in Nat
      /\ \A i \in 1..Len(armed) : armed'[i] = armed[i]
      /\ armed'[Len(armed) + 1] = s
    OBVIOUS
<1>2. \A i \in 1..Len(armed') : i \in 1..Len(armed) \/ i = Len(armed) + 1
    BY <1>1
<1>3. \A i \in 1..Len(armed) : i \in 1..Len(armed')
    BY <1>1
<1>4. Len(armed) + 1 \in 1..Len(armed')
    BY <1>1
<1>5. Armed' \subseteq Armed \cup {s}
    BY <1>1, <1>2 DEF Armed
<1>6. Armed \cup {s} \subseteq Armed'
    BY <1>1, <1>3, <1>4 DEF Armed
<1> QED
    BY <1>1, <1>5, <1>6

\* The completion of the oldest URB.
LEMMA ArmedTail ==
    ASSUME armed \in Seq(Slots), armed # <<>>, armed' = Tail(armed),
           \A i, j \in 1..Len(armed) : armed[i] = armed[j] => i = j
    PROVE  /\ armed' \in Seq(Slots)
           /\ \A i, j \in 1..Len(armed') : armed'[i] = armed'[j] => i = j
           /\ Head(armed) \in Armed
           /\ Head(armed) \in Slots
           /\ Armed' = Armed \ {Head(armed)}
<1>1. /\ armed' \in Seq(Slots)
      /\ Len(armed') = Len(armed) - 1
      /\ Len(armed) \in Nat \ {0}
      /\ \A i \in 1..Len(armed') : armed'[i] = armed[i + 1]
      /\ Head(armed) = armed[1]
    OBVIOUS
<1>2. \A i \in 1..Len(armed') : i + 1 \in 1..Len(armed) /\ i + 1 # 1
    BY <1>1
<1>3. \A i \in 1..Len(armed) : i # 1 => i - 1 \in 1..Len(armed') /\ (i - 1) + 1 = i
    BY <1>1
<1>4. 1 \in 1..Len(armed)
    BY <1>1
<1>5. \A i, j \in 1..Len(armed') : armed'[i] = armed'[j] => i = j
    BY <1>1, <1>2
<1>6. Armed' \subseteq Armed \ {Head(armed)}
    <2> SUFFICES ASSUME NEW i \in 1..Len(armed')
                 PROVE  armed'[i] \in Armed /\ armed'[i] # armed[1]
        BY <1>1 DEF Armed
    <2> QED
        BY <1>1, <1>2, <1>4 DEF Armed
<1>7. Armed \ {Head(armed)} \subseteq Armed'
    <2> SUFFICES ASSUME NEW i \in 1..Len(armed), armed[i] # armed[1]
                 PROVE  armed[i] \in Armed'
        BY <1>1 DEF Armed
    <2>1. i - 1 \in 1..Len(armed') /\ armed'[i - 1] = armed[i]
        BY <1>1, <1>3
    <2> QED
        BY <2>1 DEF Armed
<1>8. armed[1] \in Slots
    BY <1>4
<1> QED
    BY <1>1, <1>4, <1>5, <1>6, <1>7, <1>8 DEF Armed

\* With nothing submitted, no URB counts as armed.
LEMMA ArmedEmpty == armed = <<>> => Armed = {}
BY DEF Armed

\* A thread moves on, the other stays.
LEMMA GoToIs ==
    ASSUME RingFields, NEW th \in {"op", "disc"}, NEW pc, NEW slot, Ring!GoTo(th, pc, slot)
    PROVE  /\ at'[th].pc = pc /\ at'[th].slot = slot
           /\ \A o \in {"op", "disc"} : o # th => at'[o] = at[o]
           /\ pc \in OpPlaces \cup DiscPlaces /\ slot \in 1..(Urbs + 1) => at' \in [{"op", "disc"} -> Places]
<1>1. at' = [at EXCEPT ![th] = [pc |-> pc, slot |-> slot]]
    BY DEF Ring!GoTo
<1>2. at \in [{"op", "disc"} -> Places]
    BY DEF RingFields
<1>3. at'[th] = [pc |-> pc, slot |-> slot]
    BY <1>1, <1>2
<1>4. \A o \in {"op", "disc"} : o # th => at'[o] = at[o]
    BY <1>1, <1>2
<1>5. pc \in OpPlaces \cup DiscPlaces /\ slot \in 1..(Urbs + 1) => [pc |-> pc, slot |-> slot] \in Places
    BY DEF Places
<1>6. pc \in OpPlaces \cup DiscPlaces /\ slot \in 1..(Urbs + 1) => at' \in [{"op", "disc"} -> Places]
    BY <1>1, <1>2, <1>5
<1> QED
    BY <1>3, <1>4, <1>6

\* Two sequences of slots joined.
LEMMA SlotsJoined ==
    ASSUME NEW u \in Seq(Slots), NEW v \in Seq(Slots)
    PROVE  /\ u \o v \in Seq(Slots) /\ Len(u \o v) = Len(u) + Len(v)
           /\ \A i \in 1..(Len(u) + Len(v)) : (u \o v)[i] = IF i <= Len(u) THEN u[i] ELSE v[i - Len(u)]
BY ConcatProperties

\* usb_kill_urb takes the URB out of the ring and leaves the others.
LEMMA KillIs ==
    ASSUME armed \in Seq(Slots), \A i, j \in 1..Len(armed) : armed[i] = armed[j] => i = j,
           NEW s \in Slots, Ring!Kill(s)
    PROVE  /\ handler # s
           /\ armed' \in Seq(Slots)
           /\ \A i, j \in 1..Len(armed') : armed'[i] = armed'[j] => i = j
           /\ Armed' = Armed \ {s}
<1>1. handler # s
    BY DEF Ring!Kill
<1>2. Len(armed) \in Nat /\ DOMAIN armed = 1..Len(armed) /\ \A i \in 1..Len(armed) : armed[i] \in Slots
    BY LenProperties, ElementOfSeq
<1>3. CASE s \notin Ring!ToSet(armed) /\ UNCHANGED armed
    <2>1. s \notin Armed
        BY <1>2, <1>3 DEF Armed, Ring!ToSet
    <2> QED
        BY <1>1, <1>3, <2>1 DEF Armed
<1>4. CASE \E i \in DOMAIN armed : armed[i] = s /\ armed' = Ring!RemoveAt(armed, i)
    <2>1. PICK k \in 1..Len(armed) : armed[k] = s /\ armed' = Ring!RemoveAt(armed, k)
        BY <1>2, <1>4
    <2> DEFINE n == Len(armed)
               a == SubSeq(armed, 1, k - 1)
               b == SubSeq(armed, k + 1, n)
    <2>2. /\ a \in Seq(Slots) /\ Len(a) = k - 1
          /\ \A i \in 1..(k - 1) : a[i] = armed[i]
        <3>1. \A i \in 1..(k - 1) : i \in 1..n /\ armed[i] \in Slots
            BY <1>2
        <3> DEFINE one == 1
                   m == k - 1
        <3>2. one \in Int /\ m \in Int /\ \A i \in one..m : armed[i] \in Slots
            BY <1>2, <3>1
        <3> HIDE DEF one, m
        <3>3. /\ SubSeq(armed, one, m) \in Seq(Slots)
              /\ Len(SubSeq(armed, one, m)) = (IF one <= m THEN m - one + 1 ELSE 0)
              /\ \A i \in 1..(m - one + 1) : SubSeq(armed, one, m)[i] = armed[one + i - 1]
            BY <3>2, SubSeqProperties
        <3>4. /\ a \in Seq(Slots)
              /\ Len(a) = (IF 1 <= k - 1 THEN (k - 1) - 1 + 1 ELSE 0)
              /\ \A i \in 1..((k - 1) - 1 + 1) : a[i] = armed[1 + i - 1]
            BY <3>3 DEF one, m
        <3> HIDE DEF a
        <3>5. Len(a) = k - 1
            BY <1>2, <3>4
        <3>6. ASSUME NEW i \in 1..(k - 1) PROVE a[i] = armed[i]
            <4>1. i \in 1..((k - 1) - 1 + 1) /\ 1 + i - 1 = i
                BY <1>2
            <4> QED
                BY <3>4, <4>1
        <3> QED
            BY <3>4, <3>5, <3>6
    <2>3. /\ b \in Seq(Slots) /\ Len(b) = n - k
          /\ \A i \in 1..(n - k) : b[i] = armed[k + i]
        <3> DEFINE m == k + 1
        <3>1. \A i \in m..n : i \in 1..n /\ armed[i] \in Slots
            BY <1>2
        <3>2. m \in Int /\ n \in Int
            BY <1>2
        <3> HIDE DEF m, n
        <3>3. /\ SubSeq(armed, m, n) \in Seq(Slots)
              /\ Len(SubSeq(armed, m, n)) = (IF m <= n THEN n - m + 1 ELSE 0)
              /\ \A i \in 1..(n - m + 1) : SubSeq(armed, m, n)[i] = armed[m + i - 1]
            BY <3>1, <3>2, SubSeqProperties
        <3>4. n \in Nat /\ k \in 1..n
            BY <1>2 DEF n
        <3>5. /\ b \in Seq(Slots)
              /\ Len(b) = (IF k + 1 <= n THEN n - (k + 1) + 1 ELSE 0)
              /\ \A i \in 1..(n - (k + 1) + 1) : b[i] = armed[(k + 1) + i - 1]
            BY <3>3 DEF m
        <3> HIDE DEF b
        <3>6. Len(b) = n - k
            BY <3>4, <3>5
        <3>7. ASSUME NEW i \in 1..(n - k) PROVE b[i] = armed[k + i]
            <4>1. i \in 1..(n - (k + 1) + 1) /\ (k + 1) + i - 1 = k + i
                BY <3>4
            <4> QED
                BY <3>5, <4>1
        <3> QED
            BY <3>5, <3>6, <3>7
    <2>4. armed' = a \o b
        BY <2>1 DEF Ring!RemoveAt
    <2> HIDE DEF a, b
    <2>5. /\ armed' \in Seq(Slots) /\ Len(armed') = (k - 1) + (n - k)
          /\ \A i \in 1..((k - 1) + (n - k)) : armed'[i] = IF i <= k - 1 THEN a[i] ELSE b[i - (k - 1)]
        <3>1. /\ a \o b \in Seq(Slots) /\ Len(a \o b) = Len(a) + Len(b)
              /\ \A i \in 1..(Len(a) + Len(b)) :
                    (a \o b)[i] = IF i <= Len(a) THEN a[i] ELSE b[i - Len(a)]
            BY <2>2, <2>3, SlotsJoined
        <3>2. Len(a) = k - 1 /\ Len(b) = n - k
            BY <2>2, <2>3
        <3> HIDE DEF n
        <3> QED
            BY <2>4, <3>1, <3>2
    <2>6. \A i \in 1..Len(armed') :
            \/ i \in 1..(k - 1) /\ i \in 1..n /\ armed'[i] = armed[i]
            \/ i \in k..(n - 1) /\ i + 1 \in 1..n /\ armed'[i] = armed[i + 1]
        <3> SUFFICES ASSUME NEW i \in 1..((k - 1) + (n - k))
                     PROVE  \/ i \in 1..(k - 1) /\ i \in 1..n /\ armed'[i] = armed[i]
                            \/ i \in k..(n - 1) /\ i + 1 \in 1..n /\ armed'[i] = armed[i + 1]
            BY <2>5
        <3> HIDE DEF n
        <3>1. n \in Nat /\ k \in 1..n
            BY <1>2 DEF n
        <3>2. CASE i <= k - 1
            <4>1. i \in 1..(k - 1) /\ i \in 1..n
                BY <3>1, <3>2
            <4> QED
                BY <2>2, <2>5, <3>2, <4>1
        <3>3. CASE ~(i <= k - 1)
            <4>1. i \in k..(n - 1) /\ i + 1 \in 1..n /\ i - (k - 1) \in 1..(n - k) /\ k + (i - (k - 1)) = i + 1
                BY <3>1, <3>3
            <4>2. armed'[i] = b[i - (k - 1)]
                BY <2>5, <3>3
            <4>3. b[i - (k - 1)] = armed[k + (i - (k - 1))]
                BY <2>3, <4>1
            <4> QED
                BY <4>1, <4>2, <4>3
        <3> QED
            BY <3>2, <3>3
    <2>7. \A i \in 1..Len(armed') : armed'[i] \in Armed \ {s}
        <3> SUFFICES ASSUME NEW i \in 1..Len(armed') PROVE armed'[i] \in Armed /\ armed'[i] # armed[k]
            BY <2>1
        <3>1. CASE i \in 1..(k - 1) /\ i \in 1..n /\ armed'[i] = armed[i]
            BY <3>1 DEF Armed
        <3>2. CASE i \in k..(n - 1) /\ i + 1 \in 1..n /\ armed'[i] = armed[i + 1]
            BY <3>2 DEF Armed
        <3> QED
            BY <2>6, <3>1, <3>2
    <2>8. \A i \in 1..n : i # k => armed[i] \in Armed'
        <3> SUFFICES ASSUME NEW i \in 1..n, i # k PROVE armed[i] \in Armed'
            OBVIOUS
        <3> HIDE DEF n
        <3>1. n \in Nat /\ k \in 1..n
            BY <1>2 DEF n
        <3>2. CASE i < k
            <4>1. i \in 1..((k - 1) + (n - k)) /\ i \in 1..(k - 1) /\ i <= k - 1
                BY <3>1, <3>2
            <4>2. armed'[i] = armed[i]
                BY <2>2, <2>5, <4>1
            <4> QED
                BY <2>5, <4>1, <4>2 DEF Armed
        <3>3. CASE i > k
            <4>1. /\ i - 1 \in 1..((k - 1) + (n - k)) /\ ~(i - 1 <= k - 1)
                  /\ (i - 1) - (k - 1) \in 1..(n - k) /\ k + ((i - 1) - (k - 1)) = i
                BY <3>1, <3>3
            <4>2. armed'[i - 1] = b[(i - 1) - (k - 1)]
                BY <2>5, <4>1
            <4>3. b[(i - 1) - (k - 1)] = armed[k + ((i - 1) - (k - 1))]
                BY <2>3, <4>1
            <4>4. armed'[i - 1] = armed[i]
                BY <4>1, <4>2, <4>3
            <4> QED
                BY <2>5, <4>1, <4>4 DEF Armed
        <3> QED
            BY <3>1, <3>2, <3>3
    <2>9. Armed' \subseteq Armed \ {s}
        BY <2>7 DEF Armed
    <2>10. Armed \ {s} \subseteq Armed'
        <3> SUFFICES ASSUME NEW i \in 1..n, armed[i] # s PROVE armed[i] \in Armed'
            BY DEF Armed
        <3> QED
            BY <2>1, <2>8
    <2>11. ASSUME NEW i \in 1..Len(armed'), NEW j \in 1..Len(armed'), armed'[i] = armed'[j] PROVE i = j
        <3> HIDE DEF n
        <3>1. CASE i \in 1..(k - 1) /\ j \in 1..(k - 1)
            BY <2>6, <2>11, <3>1 DEF n
        <3>2. CASE i \in k..(n - 1) /\ j \in k..(n - 1)
            <4>1. armed[i + 1] = armed[j + 1] /\ i + 1 \in 1..n /\ j + 1 \in 1..n
                BY <2>6, <2>11, <3>2
            <4> QED
                BY <4>1 DEF n
        <3>3. CASE i \in 1..(k - 1) /\ j \in k..(n - 1)
            <4>1. armed[i] = armed[j + 1] /\ i \in 1..n /\ j + 1 \in 1..n
                BY <2>6, <2>11, <3>3
            <4>2. i = j + 1
                BY <4>1 DEF n
            <4> QED
                BY <3>3, <4>2
        <3>4. CASE i \in k..(n - 1) /\ j \in 1..(k - 1)
            <4>1. armed[i + 1] = armed[j] /\ i + 1 \in 1..n /\ j \in 1..n
                BY <2>6, <2>11, <3>4
            <4>2. i + 1 = j
                BY <4>1 DEF n
            <4> QED
                BY <3>4, <4>2
        <3> QED
            BY <2>6, <3>1, <3>2, <3>3, <3>4
    <2> QED
        BY <1>1, <2>5, <2>9, <2>10, <2>11
<1> QED
    BY <1>3, <1>4 DEF Ring!Kill

\* The ring starts with nothing armed and no thread in it.
LEMMA RingInitial == Ring!RxRingConstants /\ Ring!Init => RingInd
<1> SUFFICES ASSUME Ring!RxRingConstants, Ring!Init PROVE RingInd
    OBVIOUS
<1>1. armed = <<>> /\ handler = 0 /\ alloc = {} /\ failures = 0 /\ ~running /\ epOpen /\ ~removing /\ ~fault
    BY DEF Ring!Init, Ring!NoHandler
<1>2. Armed = {}
    BY <1>1, ArmedEmpty
<1>3. /\ at \in [{"op", "disc"} -> Places]
      /\ at["op"].pc = "idle" /\ at["disc"].pc = "idle"
    <2>1. at = [op |-> [pc |-> "idle", slot |-> 1], disc |-> [pc |-> "idle", slot |-> 1]]
        BY DEF Ring!Init, Ring!AtRest
    <2>2. [pc |-> "idle", slot |-> 1] \in Places
        BY DEF Ring!RxRingConstants, Places, OpPlaces
    <2>3. at["op"] = [pc |-> "idle", slot |-> 1] /\ at["disc"] = [pc |-> "idle", slot |-> 1]
        BY <2>1
    <2>4. at \in [{"op", "disc"} -> Places]
        BY <2>1, <2>2
    <2> QED
        BY <2>3, <2>4
<1>4. RingFields
    BY <1>1, <1>3 DEF Ring!RxRingConstants, RingFields, Ring!Thread, OpPlaces, DiscPlaces
<1>5. OncePerUrb /\ Whole
    BY <1>1, <1>2, <1>3 DEF OncePerUrb, Whole, Stopping
<1>6. Alone
    BY <1>1, <1>2, <1>3 DEF Alone, Stopped, Stopping
<1> QED
    BY <1>4, <1>5, <1>6 DEF RingInd

\* Nothing is misused while an operation has not come late: rx_start never finds an URB in
\* its slot, nor its own gone, and rx_stop none that the other thread holds.
LEMMA NoFault ==
    ASSUME Ring!RxRingConstants, RingInd, Ring!Faults,
           \/ at["op"].pc = "alloc" /\ at["op"].slot \in alloc
           \/ at["op"].pc = "submit" /\ at["op"].slot \notin alloc
           \/ \E th \in Ring!Thread : /\ at[th].pc = "free"
                                      /\ at[th].slot \notin alloc \/ Ring!Live(at[th].slot)
    PROVE  RingInd'
<1>1. UNCHANGED <<removing, epOpen, at, running, alloc, armed, handler, failures, late>>
    BY DEF Ring!Faults, Ring!ring
<1>2. Armed' = Armed
    BY <1>1 DEF Armed
<1>3. RingFields' /\ OncePerUrb' /\ Whole'
    BY <1>1, <1>2 DEF RingInd, RingFields, OncePerUrb, Whole
<1>4. Urbs \in Nat /\ alloc \subseteq 1..Urbs
    BY DEF Ring!RxRingConstants, RingInd, RingFields, Slots
<1>5. ASSUME ~late PROVE FALSE
    <2> USE <1>5 DEF RingInd
    <2>1. CASE at["op"].pc = "alloc" /\ at["op"].slot \in alloc
        <3>1. \A s \in alloc : s < at["op"].slot
            BY <2>1 DEF Alone
        <3> QED
            BY <1>4, <2>1, <3>1
    <2>2. CASE at["op"].pc = "submit" /\ at["op"].slot \notin alloc
        BY <2>2 DEF Alone
    <2>3. ASSUME NEW th \in {"op", "disc"}, at[th].pc = "free",
                 at[th].slot \notin alloc \/ Ring!Live(at[th].slot)
          PROVE  FALSE
        <3>1. Ring!ToSet(armed) = Armed
            BY DEF RingFields, Armed, Ring!ToSet
        <3>2. Stopped(th)
            BY DEF Alone
        <3> QED
            BY <2>3, <3>1, <3>2 DEF Stopped, Ring!Live
    <2> QED
        BY <2>1, <2>2, <2>3 DEF Ring!Thread
<1> QED
    BY <1>1, <1>3, <1>5 DEF RingInd

\* A step that leaves the ring and its threads alone.
LEMMA RestKeeps ==
    ASSUME RingInd, UNCHANGED <<removing, epOpen, at, running, alloc, armed, handler, failures, fault>>,
           late => late'
    PROVE  RingInd'
<1>1. Armed' = Armed
    BY DEF Armed
<1>2. RingFields' /\ OncePerUrb' /\ Whole'
    BY <1>1 DEF RingInd, RingFields, OncePerUrb, Whole
<1>3. Alone => Alone'
    BY <1>1 DEF Alone, Stopped
<1> QED
    BY <1>2, <1>3 DEF RingInd

\* An operation that finds no ring starts with the first slot.
LEMMA EnsureBeginKeeps ==
    ASSUME Ring!RxRingConstants, RingInd, Ring!EnsureBegin
    PROVE  RingInd'
<1>1. /\ at["op"].pc = "idle" /\ ~running
      /\ Ring!GoTo("op", "alloc", 1)
      /\ late' = (late \/ Ring!StopBegun)
      /\ UNCHANGED <<removing, epOpen, running, alloc, armed, handler, failures, fault>>
    BY DEF Ring!EnsureBegin, Ring!ring
<1>2. Urbs \in Nat \ {0}
    BY DEF Ring!RxRingConstants
<1>3. /\ at' \in [{"op", "disc"} -> Places]
      /\ at'["op"].pc = "alloc" /\ at'["op"].slot = 1
      /\ at'["disc"] = at["disc"]
    BY <1>1, <1>2, GoToIs DEF RingInd, OpPlaces
<1>4. Armed' = Armed
    BY <1>1 DEF Armed
<1>5. RingFields'
    BY <1>1, <1>3 DEF RingInd, RingFields, Ring!Thread, OpPlaces
<1>6. OncePerUrb' /\ Whole'
    BY <1>1, <1>3, <1>4 DEF RingInd, OncePerUrb, Whole, Stopping
<1>7. ASSUME ~late' PROVE Alone'
    <2>1. Alone /\ at["disc"].pc \notin Stopping \cup {"stopped"}
        BY <1>1, <1>7 DEF RingInd, RingFields, Ring!StopBegun, Stopping, DiscPlaces
    <2> QED
        BY <1>1, <1>3, <1>4, <2>1 DEF Alone, Stopped, Stopping
<1> QED
    BY <1>5, <1>6, <1>7 DEF RingInd

\* The slot of a round of rx_start gets an URB, or the ring is given up.
LEMMA ArmAllocKeeps ==
    ASSUME Ring!RxRingConstants, RingInd, Ring!ArmAlloc
    PROVE  RingInd'
<1> DEFINE s == at["op"].slot
<1>1. at["op"].pc = "alloc" /\ s \in 1..Urbs
    BY DEF Ring!ArmAlloc, Ring!Slot
<1>2. Urbs \in Nat \ {0} /\ failures \in Nat
    BY DEF Ring!RxRingConstants, RingInd, RingFields
<1>3. CASE s \in alloc /\ Ring!Faults
    BY <1>1, <1>3, NoFault
<1>4. CASE /\ s \notin alloc
           /\ alloc' = alloc \cup {s} /\ Ring!GoTo("op", "submit", s) /\ UNCHANGED failures
           /\ UNCHANGED <<removing, epOpen, running, armed, handler, late, fault>>
    <2>1. /\ at' \in [{"op", "disc"} -> Places]
          /\ at'["op"].pc = "submit" /\ at'["op"].slot = s
          /\ at'["disc"] = at["disc"]
        BY <1>1, <1>2, <1>4, GoToIs DEF RingInd, OpPlaces
    <2>2. Armed' = Armed
        BY <1>4 DEF Armed
    <2>3. s \notin Armed /\ s # handler
        BY <1>1, <1>4 DEF RingInd, OncePerUrb
    <2>4. RingFields'
        BY <1>1, <1>4, <2>1 DEF RingInd, RingFields, Ring!Thread, OpPlaces, Slots
    <2>5. OncePerUrb'
        BY <1>4, <2>1, <2>2, <2>3 DEF RingInd, OncePerUrb
    <2>6. Whole'
        BY <1>1, <1>4, <2>1, <2>2 DEF RingInd, Whole, Stopping
    <2>7. Alone => Alone'
        BY <1>1, <1>4, <2>1, <2>2 DEF Alone, Stopped, Stopping, RingInd, RingFields, Slots
    <2> QED
        BY <1>4, <2>4, <2>5, <2>6, <2>7 DEF RingInd
<1>5. CASE /\ failures' = failures + 1
           /\ s \notin alloc /\ alloc' \in {alloc, alloc \cup {s}} /\ Ring!GoTo("op", "kill", 1)
           /\ UNCHANGED <<removing, epOpen, running, armed, handler, late, fault>>
    <2>1. /\ at' \in [{"op", "disc"} -> Places]
          /\ at'["op"].pc = "kill" /\ at'["op"].slot = 1
          /\ at'["disc"] = at["disc"]
        BY <1>1, <1>2, <1>5, GoToIs DEF RingInd, OpPlaces, Stopping
    <2>2. Armed' = Armed
        BY <1>5 DEF Armed
    <2>3. alloc \subseteq alloc' /\ alloc' \subseteq 1..Urbs
        BY <1>1, <1>5 DEF RingInd, RingFields, Slots
    <2>4. RingFields'
        BY <1>1, <1>2, <1>5, <2>1, <2>3 DEF RingInd, RingFields, Ring!Thread, OpPlaces, Slots, Stopping
    <2>5. OncePerUrb' /\ Whole'
        BY <1>2, <1>5, <2>1, <2>2, <2>3 DEF RingInd, OncePerUrb, Whole, Stopping
    <2>6. Alone => Alone'
        BY <1>1, <1>5, <2>1, <2>2, <2>3 DEF Alone, Stopped, Stopping
    <2> QED
        BY <1>5, <2>4, <2>5, <2>6 DEF RingInd
<1> QED
    BY <1>3, <1>4, <1>5 DEF Ring!ArmAlloc

\* The URB of the slot goes into the ring, or the ring is given up.
LEMMA ArmSubmitKeeps ==
    ASSUME Ring!RxRingConstants, RingInd, Ring!ArmSubmit
    PROVE  RingInd'
<1> DEFINE s == at["op"].slot
<1>1. at["op"].pc = "submit" /\ s \in 1..Urbs
    BY DEF Ring!ArmSubmit, RingInd, RingFields, Ring!Thread, Slots
<1>2. Urbs \in Nat \ {0} /\ failures \in Nat
    BY DEF Ring!RxRingConstants, RingInd, RingFields
<1>3. CASE s \notin alloc /\ Ring!Faults
    BY <1>1, <1>3, NoFault
<1>4. CASE /\ s \in alloc /\ epOpen
           /\ armed' = Append(armed, s) /\ Ring!GoTo("op", "alloc", s + 1) /\ UNCHANGED failures
           /\ UNCHANGED <<removing, epOpen, running, alloc, handler, late, fault>>
    <2>1. /\ at' \in [{"op", "disc"} -> Places]
          /\ at'["op"].pc = "alloc" /\ at'["op"].slot = s + 1
          /\ at'["disc"] = at["disc"]
        <3>1. s + 1 \in 1..(Urbs + 1)
            BY <1>1, <1>2
        <3> QED
            BY <1>4, <3>1, GoToIs DEF RingInd, OpPlaces
    <2>2. /\ armed' \in Seq(Slots)
          /\ Len(armed) \in Nat
          /\ Len(armed') = Len(armed) + 1
          /\ \A i \in 1..Len(armed) : armed'[i] = armed[i]
          /\ armed'[Len(armed) + 1] = s
          /\ Armed' = Armed \cup {s}
        BY <1>1, <1>4, ArmedAppend DEF RingInd, RingFields, Slots
    <2>3. s \notin Armed /\ s # handler
        BY <1>1, <1>4 DEF RingInd, OncePerUrb
    <2>4. RingFields'
        BY <1>4, <2>1, <2>2 DEF RingInd, RingFields, Ring!Thread, OpPlaces
    <2>5. \A i, j \in 1..Len(armed') : armed'[i] = armed'[j] => i = j
        <3>1. \A i \in 1..Len(armed') : i \in 1..Len(armed) \/ i = Len(armed) + 1
            BY <2>2
        <3>2. \A i \in 1..Len(armed) : armed[i] \in Armed
            BY DEF Armed
        <3> QED
            BY <2>2, <2>3, <3>1, <3>2 DEF RingInd, OncePerUrb
    <2>6. OncePerUrb'
        BY <1>4, <2>1, <2>2, <2>3, <2>5 DEF RingInd, OncePerUrb
    <2>7. Whole'
        BY <1>1, <1>2, <1>4, <2>1, <2>2 DEF RingInd, Whole, Stopping
    <2>8. Alone => Alone'
        <3>1. (\A r \in alloc : r <= s) => \A r \in alloc : r < s + 1
            BY <1>1 DEF RingInd, RingFields, Slots
        <3> QED
            BY <1>1, <1>4, <2>1, <2>2, <3>1 DEF Alone, Stopped, Stopping
    <2> QED
        BY <1>4, <2>4, <2>6, <2>7, <2>8 DEF RingInd
<1>5. CASE /\ s \in alloc
           /\ failures' = IF epOpen THEN failures + 1 ELSE failures
           /\ Ring!GoTo("op", "kill", 1) /\ UNCHANGED armed
           /\ UNCHANGED <<removing, epOpen, running, alloc, handler, late, fault>>
    <2>1. /\ at' \in [{"op", "disc"} -> Places]
          /\ at'["op"].pc = "kill" /\ at'["op"].slot = 1
          /\ at'["disc"] = at["disc"]
        BY <1>1, <1>2, <1>5, GoToIs DEF RingInd, OpPlaces, Stopping
    <2>2. Armed' = Armed
        BY <1>5 DEF Armed
    <2>3. RingFields'
        BY <1>2, <1>5, <2>1 DEF RingInd, RingFields, Ring!Thread, OpPlaces, Stopping
    <2>4. OncePerUrb' /\ Whole'
        BY <1>2, <1>5, <2>1, <2>2 DEF RingInd, OncePerUrb, Whole, Stopping
    <2>5. Alone => Alone'
        BY <1>1, <1>5, <2>1, <2>2 DEF Alone, Stopped, Stopping, RingInd, RingFields, Slots
    <2> QED
        BY <1>5, <2>3, <2>4, <2>5 DEF RingInd
<1> QED
    BY <1>3, <1>4, <1>5 DEF Ring!ArmSubmit

\* Every slot is armed: the ring runs.
LEMMA EnsureEndKeeps ==
    ASSUME Ring!RxRingConstants, RingInd, Ring!EnsureEnd
    PROVE  RingInd'
<1>1. /\ at["op"].pc = "alloc" /\ at["op"].slot \notin 1..Urbs
      /\ running' = TRUE
      /\ Ring!GoTo("op", "idle", 1)
      /\ UNCHANGED <<removing, epOpen, alloc, armed, handler, failures, late, fault>>
    BY DEF Ring!EnsureEnd, Ring!Slot
<1>2. Urbs \in Nat \ {0}
    BY DEF Ring!RxRingConstants
<1>3. /\ at' \in [{"op", "disc"} -> Places]
      /\ at'["op"].pc = "idle" /\ at'["op"].slot = 1
      /\ at'["disc"] = at["disc"]
    BY <1>1, <1>2, GoToIs DEF RingInd, OpPlaces
<1>4. at["op"].slot = Urbs + 1
    BY <1>1, <1>2 DEF RingInd, RingFields, Places
<1>5. Armed' = Armed
    BY <1>1 DEF Armed
<1>6. RingFields'
    BY <1>1, <1>3 DEF RingInd, RingFields, Ring!Thread, OpPlaces
<1>7. OncePerUrb'
    BY <1>1, <1>3, <1>5 DEF RingInd, OncePerUrb
<1>8. Whole'
    <2>1. 1..(at["op"].slot - 1) = Slots
        BY <1>2, <1>4 DEF Slots
    <2> QED
        BY <1>1, <1>3, <1>5, <2>1 DEF RingInd, Whole, Stopping
<1>9. Alone => Alone'
    BY <1>1, <1>3, <1>5 DEF Alone, Stopped, Stopping
<1> QED
    BY <1>1, <1>6, <1>7, <1>8, <1>9 DEF RingInd

\* A completion takes the oldest URB out of the ring and holds it.
LEMMA CompletionKeeps ==
    ASSUME Ring!RxRingConstants, RingInd,
           handler = Ring!NoHandler, armed # <<>>, armed' = Tail(armed), handler' = Head(armed),
           failures' \in {failures, failures + 1},
           UNCHANGED <<removing, epOpen, at, running, alloc, late, fault>>
    PROVE  RingInd'
<1> USE DEF RingInd
<1>1. Urbs \in Nat /\ failures \in Nat /\ handler = 0
    BY DEF Ring!RxRingConstants, RingFields, Ring!NoHandler
<1>2. /\ armed' \in Seq(Slots)
      /\ \A i, j \in 1..Len(armed') : armed'[i] = armed'[j] => i = j
      /\ Head(armed) \in Armed
      /\ Armed' = Armed \ {Head(armed)}
    BY ArmedTail DEF RingFields, OncePerUrb
<1>3. Head(armed) \in 1..Urbs
    BY ArmedTail DEF RingFields, OncePerUrb, Slots
<1>4. RingFields'
    BY <1>1, <1>2, <1>3 DEF RingFields
<1>5. OncePerUrb'
    BY <1>2 DEF OncePerUrb
<1>6. Armed' \cup {handler'} = Armed /\ 0 \notin Slots
    BY <1>1, <1>2 DEF Slots
<1>7. Whole'
    <2>1. failures' = 0 => failures = 0
        BY <1>1
    <2>2. Slots \subseteq Armed \cup {handler} => Slots \subseteq Armed' \cup {handler'}
        BY <1>1, <1>6
    <2>3. \A n : 1..n \subseteq Armed \cup {handler} => 1..n \subseteq Armed' \cup {handler'}
        BY <1>1, <1>6
    <2> QED
        BY <2>1, <2>2, <2>3 DEF Whole
<1>8. Alone => Alone'
    <2>1. \A th \in {"op", "disc"} : Stopped(th) => Stopped(th)'
        BY <1>2 DEF Stopped
    <2> QED
        BY <2>1 DEF Alone
<1> QED
    BY <1>4, <1>5, <1>7, <1>8

\* The URB goes back into the ring; only a failed submission or the teardown loses it.
LEMMA ResubmitKeeps ==
    ASSUME Ring!RxRingConstants, RingInd, Ring!Resubmit
    PROVE  RingInd'
<1> USE DEF RingInd
<1>1. Urbs \in Nat /\ failures \in Nat
    BY DEF Ring!RxRingConstants, RingFields
<1>2. /\ handler \in 1..Urbs /\ handler' = 0
      /\ UNCHANGED <<removing, epOpen, at, running, alloc, late, fault>>
    BY <1>1 DEF Ring!Resubmit, Ring!NoHandler, RingFields
<1>3. 0 \notin Armed
    BY <1>1 DEF RingFields, Armed, Slots
<1>4. CASE /\ ~removing /\ epOpen
           /\ armed' = Append(armed, handler)
           /\ UNCHANGED failures
    <2>1. /\ armed' \in Seq(Slots)
          /\ Len(armed) \in Nat
          /\ Len(armed') = Len(armed) + 1
          /\ \A i \in 1..Len(armed) : armed'[i] = armed[i]
          /\ armed'[Len(armed) + 1] = handler
          /\ Armed' = Armed \cup {handler}
        BY <1>2, <1>4, ArmedAppend DEF RingFields, Slots
    <2>2. RingFields'
        BY <1>1, <1>2, <1>4, <2>1 DEF RingFields
    <2>3. \A i, j \in 1..Len(armed') : armed'[i] = armed'[j] => i = j
        <3>1. \A i \in 1..Len(armed') : i \in 1..Len(armed) \/ i = Len(armed) + 1
            BY <2>1
        <3>2. \A i \in 1..Len(armed) : armed[i] \in Armed
            BY DEF Armed
        <3> QED
            BY <2>1, <3>1, <3>2 DEF OncePerUrb
    <2>4. OncePerUrb'
        <3>1. at["op"].pc = "submit" => at["op"].slot \in 1..Urbs
            BY DEF RingFields, Ring!Thread, Slots
        <3> QED
            BY <1>2, <1>3, <2>1, <2>3, <3>1 DEF OncePerUrb
    <2>5. Whole'
        BY <1>2, <1>4, <2>1 DEF Whole
    <2>6. Alone => Alone'
        <3>1. \A th \in {"op", "disc"} : Stopped(th) => Stopped(th)'
            <4>1. \A th \in {"op", "disc"} : at[th].pc = "free" => at[th].slot \in 1..Urbs
                BY DEF RingFields, Ring!Thread, Slots
            <4> QED
                BY <1>2, <2>1, <4>1 DEF Stopped
        <3> QED
            BY <1>2, <3>1 DEF Alone
    <2> QED
        BY <1>2, <2>2, <2>4, <2>5, <2>6
<1>5. CASE /\ failures' = IF ~removing /\ epOpen THEN failures + 1 ELSE failures
           /\ UNCHANGED armed
    <2>1. Armed' = Armed
        BY <1>5 DEF Armed
    <2>2. RingFields'
        BY <1>1, <1>2, <1>5 DEF RingFields
    <2>3. \A th \in {"op", "disc"} : at[th].pc \in {"free", "submit"} => at[th].slot \in 1..Urbs
        BY DEF RingFields, Ring!Thread, Slots
    <2>4. OncePerUrb'
        BY <1>2, <1>3, <1>5, <2>1, <2>3 DEF OncePerUrb
    <2>5. Whole'
        BY <1>1, <1>2, <1>5 DEF Whole
    <2>6. Alone => Alone'
        BY <1>2, <1>5, <2>1, <2>3 DEF Alone, Stopped
    <2> QED
        BY <1>2, <2>2, <2>4, <2>5, <2>6
<1> QED
    BY <1>4, <1>5 DEF Ring!Resubmit

\* Where a thread of rx_stop is, before any of its steps.
LEMMA StopPlace ==
    ASSUME RingInd, NEW th \in Ring!Thread, at[th].pc \in Stopping
    PROVE  /\ th \in {"op", "disc"}
           /\ at["disc"].pc # "idle" \/ failures # 0
           /\ at["disc"].pc \in Stopping \/ th = "op"
           /\ ~late => Stopped(th) /\ (at["op"].pc = "idle" \/ at["disc"].pc \notin Stopping \cup {"stopped"})
<1>1. th \in {"op", "disc"}
    BY DEF Ring!Thread
<1> QED
    BY <1>1 DEF RingInd, RingFields, Whole, Alone, Stopping

\* rx_stop moves on to another place of its own, with the URBs as they were but for some
\* that it killed or freed.
LEMMA StopMoves ==
    ASSUME Ring!RxRingConstants, RingInd, NEW th \in Ring!Thread, at[th].pc \in Stopping,
           NEW pc, NEW slot \in 1..(Urbs + 1), Ring!GoTo(th, pc, slot),
           pc \in Stopping \/ (pc = "idle" /\ th = "op") \/ (pc = "stopped" /\ th = "disc"),
           pc = "free" => slot \in Slots,
           armed' \in Seq(Slots), \A i, j \in 1..Len(armed') : armed'[i] = armed'[j] => i = j,
           Armed' \subseteq Armed \cap alloc', alloc' \subseteq alloc,
           handler # 0 => handler \in alloc',
           ~late => Stopped(th)' /\ (pc = "idle" => alloc' = {}),
           running' \in {running, FALSE},
           running' = running \/ pc \in {"idle", "stopped"},
           UNCHANGED <<removing, epOpen, handler, failures, late, fault>>
    PROVE  RingInd'
<1> USE DEF RingInd
<1>1. /\ th \in {"op", "disc"}
      /\ at'[th].pc = pc /\ at'[th].slot = slot
      /\ \A o \in {"op", "disc"} : o # th => at'[o] = at[o]
      /\ at' \in [{"op", "disc"} -> Places]
    BY GoToIs DEF Ring!Thread, Stopping, OpPlaces, DiscPlaces
<1>2. Urbs \in Nat
    BY DEF Ring!RxRingConstants
<1>3. RingFields'
    <2>1. \A o \in Ring!Thread : at'[o].pc \in {"free", "submit"} => at'[o].slot \in Slots
        BY <1>1 DEF RingFields, Ring!Thread, Stopping
    <2>2. at'["op"].pc \in OpPlaces /\ at'["disc"].pc \in DiscPlaces
        BY <1>1 DEF RingFields, OpPlaces, DiscPlaces, Stopping
    <2> QED
        BY <1>1, <2>1, <2>2 DEF RingFields
<1>4. OncePerUrb'
    <2>1. at'["op"].pc = "submit" => th # "op" /\ at'["op"] = at["op"]
        BY <1>1 DEF Stopping
    <2> QED
        BY <2>1 DEF OncePerUrb
<1>5. at["disc"].pc # "idle" \/ failures # 0
    BY StopPlace
<1>6. at'["disc"].pc = "idle" => at["disc"].pc = "idle"
    BY <1>1 DEF Stopping
<1>7. at'["disc"].pc = "begin" => at["disc"].pc = "begin"
    BY <1>1 DEF Stopping
<1>8. Whole'
    BY <1>5, <1>6, <1>7 DEF Whole
<1>9. ASSUME ~late PROVE Alone'
    <2>1. CASE th = "op"
        <3>1. at["disc"].pc \notin Stopping \cup {"stopped"} /\ at'["disc"] = at["disc"]
            <4>1. at["op"].pc = "idle" \/ at["disc"].pc \notin Stopping \cup {"stopped"}
                BY <1>9, StopPlace
            <4>2. at["op"].pc # "idle"
                BY <2>1 DEF Stopping
            <4>3. at'["disc"] = at["disc"]
                BY <1>1, <2>1
            <4> QED
                BY <4>1, <4>2, <4>3
        <3>2. at'["op"].pc \in Stopping \/ (at'["op"].pc = "idle" /\ alloc' = {})
            <4>1. at'["op"].pc = pc
                BY <1>1, <2>1
            <4>2. pc \in Stopping \/ pc = "idle"
                BY <2>1
            <4>3. pc = "idle" => alloc' = {}
                BY <1>9
            <4> QED
                BY <4>1, <4>2, <4>3
        <3>3. Stopped("disc")'
            BY <3>1 DEF Stopped, Stopping
        <3> QED
            BY <1>9, <2>1, <3>1, <3>2, <3>3 DEF Alone, Stopping
    <2>2. CASE th = "disc"
        <3>1. at["disc"].pc \in Stopping /\ at["op"].pc = "idle" /\ at'["op"] = at["op"]
            BY <1>1, <1>9, <2>2, StopPlace DEF Stopping
        <3>2. at'["disc"].pc \in Stopping \cup {"stopped"}
            BY <1>1, <2>2 DEF Stopping
        <3>3. Stopped("op")'
            BY <3>1 DEF Stopped
        <3> QED
            BY <1>9, <2>2, <3>1, <3>2, <3>3 DEF Alone
    <2> QED
        BY <1>1, <2>1, <2>2
<1> QED
    BY <1>3, <1>4, <1>8, <1>9

\* The loop of rx_stop kills the URB of a slot, passes an empty one, or ends.
LEMMA StopKillKeeps ==
    ASSUME Ring!RxRingConstants, RingInd, NEW th \in Ring!Thread, Ring!StopKill(th)
    PROVE  RingInd'
<1> DEFINE s == at[th].slot
<1>1. /\ at[th].pc = "kill" /\ at[th].pc \in Stopping
      /\ UNCHANGED <<removing, epOpen, running, alloc, handler, failures, late, fault>>
      /\ th \in {"op", "disc"}
    BY DEF Ring!StopKill, Stopping, Ring!Thread
<1>2. Urbs \in Nat \ {0} /\ s \in 1..(Urbs + 1) /\ alloc \subseteq 1..Urbs
    BY <1>1 DEF Ring!RxRingConstants, RingInd, RingFields, Places, Slots
<1>3. ~late => \A r \in alloc : r >= s
    BY <1>1, StopPlace DEF Stopped
<1>4. CASE s \in alloc /\ Ring!Kill(s) /\ Ring!GoTo(th, "free", s)
    <2>1. s \in Slots
        BY <1>2, <1>4 DEF Slots
    <2>2. /\ handler # s
          /\ armed' \in Seq(Slots)
          /\ \A i, j \in 1..Len(armed') : armed'[i] = armed'[j] => i = j
          /\ Armed' = Armed \ {s}
        BY <1>4, <2>1, KillIs DEF RingInd, RingFields, OncePerUrb
    <2>3. at'[th].pc = "free" /\ at'[th].slot = s
        BY <1>1, <1>4, GoToIs DEF RingInd
    <2>4. ~late => Stopped(th)'
        BY <1>1, <1>3, <1>4, <2>2, <2>3 DEF Stopped
    <2>5. Armed' \subseteq Armed \cap alloc' /\ alloc' \subseteq alloc /\ (handler # 0 => handler \in alloc')
        BY <1>1, <2>2 DEF RingInd, OncePerUrb
    <2> DEFINE pc == "free"
    <2>6. pc \in Stopping /\ pc = "free" /\ Ring!GoTo(th, pc, s)
        BY <1>4 DEF Stopping
    <2> HIDE DEF pc, s
    <2> QED
        BY <1>1, <1>2, <2>1, <2>2, <2>4, <2>5, <2>6, StopMoves
<1>5. CASE s \in Ring!Slot \ alloc /\ Ring!GoTo(th, "kill", s + 1) /\ UNCHANGED armed
    <2> DEFINE pc == "kill"
               n == s + 1
    <2>1. n \in 1..(Urbs + 1)
        BY <1>2, <1>5 DEF Ring!Slot
    <2>2. at'[th].pc = "kill" /\ at'[th].slot = n
        BY <1>1, <1>5, GoToIs DEF RingInd
    <2>3. ~late => Stopped(th)'
        <3>1. ASSUME ~late, NEW r \in alloc PROVE r >= s + 1
            <4>1. r >= s /\ r # s
                BY <1>3, <1>5, <3>1
            <4> QED
                BY <1>2, <4>1
        <3> QED
            BY <1>1, <2>2, <3>1 DEF Stopped
    <2>4. Armed' \subseteq Armed \cap alloc' /\ alloc' \subseteq alloc /\ (handler # 0 => handler \in alloc')
        BY <1>1, <1>5 DEF RingInd, OncePerUrb, Armed
    <2>5. armed' \in Seq(Slots) /\ \A i, j \in 1..Len(armed') : armed'[i] = armed'[j] => i = j
        BY <1>5 DEF RingInd, RingFields, OncePerUrb
    <2>6. pc \in Stopping /\ pc # "free" /\ pc # "idle" /\ Ring!GoTo(th, pc, n)
        BY <1>5 DEF Stopping
    <2> HIDE DEF pc, n
    <2> QED
        BY <1>1, <2>1, <2>3, <2>4, <2>5, <2>6, StopMoves
<1>6. CASE s \notin Ring!Slot /\ Ring!GoTo(th, "cancel", 1) /\ UNCHANGED armed
    <2> DEFINE pc == "cancel"
               n == 1
    <2>1. n \in 1..(Urbs + 1)
        BY <1>2
    <2>2. at'[th].pc = "cancel"
        BY <1>1, <1>6, GoToIs DEF RingInd
    <2>3. ~late => Stopped(th)'
        <3>1. ~late => alloc = {}
            BY <1>2, <1>3, <1>6 DEF Ring!Slot
        <3> QED
            BY <1>1, <2>2, <3>1 DEF Stopped
    <2>4. Armed' \subseteq Armed \cap alloc' /\ alloc' \subseteq alloc /\ (handler # 0 => handler \in alloc')
        BY <1>1, <1>6 DEF RingInd, OncePerUrb, Armed
    <2>5. armed' \in Seq(Slots) /\ \A i, j \in 1..Len(armed') : armed'[i] = armed'[j] => i = j
        BY <1>6 DEF RingInd, RingFields, OncePerUrb
    <2>6. pc \in Stopping /\ pc # "free" /\ pc # "idle" /\ Ring!GoTo(th, pc, n)
        BY <1>6 DEF Stopping
    <2> HIDE DEF pc, n
    <2> QED
        BY <1>1, <2>1, <2>3, <2>4, <2>5, <2>6, StopMoves
<1> QED
    BY <1>4, <1>5, <1>6 DEF Ring!StopKill

\* The URB that was killed is freed.
LEMMA StopFreeKeeps ==
    ASSUME Ring!RxRingConstants, RingInd, NEW th \in Ring!Thread, Ring!StopFree(th)
    PROVE  RingInd'
<1> DEFINE s == at[th].slot
           pc == "kill"
           n == s + 1
<1>1. at[th].pc = "free" /\ at[th].pc \in Stopping /\ th \in {"op", "disc"}
    BY DEF Ring!StopFree, Stopping, Ring!Thread
<1>2. Urbs \in Nat \ {0} /\ s \in 1..Urbs /\ alloc \subseteq 1..Urbs
    BY <1>1 DEF Ring!RxRingConstants, RingInd, RingFields, Ring!Thread, Slots
<1>3. CASE (s \notin alloc \/ Ring!Live(s)) /\ Ring!Faults
    BY <1>1, <1>3, NoFault
<1>4. CASE /\ ~Ring!Live(s) /\ alloc' = alloc \ {s} /\ Ring!GoTo(th, "kill", s + 1)
           /\ UNCHANGED <<removing, epOpen, running, armed, handler, failures, late, fault>>
    <2>1. n \in 1..(Urbs + 1)
        BY <1>2
    <2>2. at'[th].pc = "kill" /\ at'[th].slot = n
        BY <1>1, <1>4, GoToIs DEF RingInd
    <2>3. ~late => Stopped(th)'
        <3>1. ~late => \A r \in alloc : r >= s
            BY <1>1, StopPlace DEF Stopped
        <3>2. ~late => \A r \in alloc' : r >= s + 1
            BY <1>2, <1>4, <3>1
        <3> QED
            BY <2>2, <3>2 DEF Stopped
    <2>4. s \notin Armed /\ s # handler
        BY <1>4 DEF RingInd, RingFields, Armed, Ring!Live, Ring!ToSet
    <2>5. Armed' \subseteq Armed \cap alloc' /\ alloc' \subseteq alloc /\ (handler # 0 => handler \in alloc')
        BY <1>4, <2>4 DEF RingInd, OncePerUrb, Armed
    <2>6. armed' \in Seq(Slots) /\ \A i, j \in 1..Len(armed') : armed'[i] = armed'[j] => i = j
        BY <1>4 DEF RingInd, RingFields, OncePerUrb
    <2>7. pc \in Stopping /\ pc # "free" /\ pc # "idle" /\ Ring!GoTo(th, pc, n)
        BY <1>4 DEF Stopping
    <2> HIDE DEF pc, n, s
    <2> QED
        BY <1>1, <1>4, <2>1, <2>3, <2>5, <2>6, <2>7, StopMoves
<1> QED
    BY <1>3, <1>4 DEF Ring!StopFree

\* The worker, the TX frames and the queue, with the ring left as it is.
LEMMA StopFlushKeeps ==
    ASSUME Ring!RxRingConstants, RingInd, NEW th \in Ring!Thread,
           NEW pc, Ring!GoTo(th, pc, 1), at[th].pc \in {"cancel", "anchor", "purge"},
           \/ pc \in {"anchor", "purge"} /\ UNCHANGED running
           \/ running' = FALSE /\ ((pc = "idle" /\ th = "op") \/ (pc = "stopped" /\ th = "disc")),
           UNCHANGED <<removing, epOpen, alloc, armed, handler, failures, late, fault>>
    PROVE  RingInd'
<1> DEFINE n == 1
<1>1. th \in {"op", "disc"} /\ at[th].pc \in Stopping
    BY DEF Ring!Thread, Stopping
<1>2. n \in 1..(Urbs + 1) /\ Ring!GoTo(th, pc, n)
    BY DEF Ring!RxRingConstants
<1> HIDE DEF n
<1>3. at'[th].pc = pc
    BY <1>1, <1>2, GoToIs DEF RingInd
<1>4. ~late => alloc = {}
    BY <1>1, StopPlace DEF Stopped
<1>5. ~late => Stopped(th)' /\ (pc = "idle" => alloc' = {})
    BY <1>3, <1>4 DEF Stopped
<1>6. Armed' \subseteq Armed \cap alloc' /\ alloc' \subseteq alloc /\ (handler # 0 => handler \in alloc')
    BY DEF RingInd, OncePerUrb, Armed
<1>7. armed' \in Seq(Slots) /\ \A i, j \in 1..Len(armed') : armed'[i] = armed'[j] => i = j
    BY DEF RingInd, RingFields, OncePerUrb
<1>8. /\ pc \in Stopping \/ (pc = "idle" /\ th = "op") \/ (pc = "stopped" /\ th = "disc")
      /\ pc = "free" => n \in Slots
      /\ running' \in {running, FALSE}
      /\ running' = running \/ pc \in {"idle", "stopped"}
    BY DEF Stopping
<1> QED
    BY <1>1, <1>2, <1>5, <1>6, <1>7, <1>8, StopMoves

\* disconnect begins, and enters rx_stop.
LEMMA DisconnectKeeps ==
    ASSUME Ring!RxRingConstants, RingInd, Ring!Unplug \/ Ring!DisconnectBegin \/ Ring!DisconnectStop
    PROVE  RingInd'
<1>1. Urbs \in Nat \ {0}
    BY DEF Ring!RxRingConstants
<1>2. ASSUME NEW pc \in {"begin", "stop", "kill"}, Ring!GoTo("disc", pc, 1)
      PROVE  /\ at' \in [{"op", "disc"} -> Places]
             /\ at'["disc"].pc = pc /\ at'["disc"].slot = 1
             /\ at'["op"] = at["op"]
    BY <1>1, <1>2, GoToIs DEF RingInd, DiscPlaces, Stopping
<1>3. CASE Ring!Unplug
    <2>1. /\ at["disc"].pc = "idle"
          /\ armed' = <<>> \/ armed' = armed
          /\ Ring!GoTo("disc", "begin", 1)
          /\ UNCHANGED <<removing, running, alloc, handler, failures, late, fault>>
        BY <1>3 DEF Ring!Unplug
    <2>2. /\ at' \in [{"op", "disc"} -> Places]
          /\ at'["disc"].pc = "begin" /\ at'["op"] = at["op"]
        BY <1>2, <2>1
    <2>3. /\ armed' \in Seq(Slots) /\ Armed' \subseteq Armed
          /\ \A i, j \in 1..Len(armed') : armed'[i] = armed'[j] => i = j
        <3>1. CASE armed' = <<>>
            BY <3>1 DEF Armed
        <3>2. CASE armed' = armed
            BY <3>2 DEF RingInd, RingFields, OncePerUrb, Armed
        <3> QED
            BY <2>1, <3>1, <3>2
    <2>4. RingFields'
        BY <2>1, <2>2, <2>3 DEF RingInd, RingFields, Ring!Thread, DiscPlaces
    <2>5. OncePerUrb' /\ Whole'
        BY <2>1, <2>2, <2>3 DEF RingInd, OncePerUrb, Whole
    <2>6. Alone => Alone'
        BY <2>1, <2>2, <2>3 DEF Alone, Stopped, Stopping
    <2> QED
        BY <2>1, <2>4, <2>5, <2>6 DEF RingInd
<1>4. CASE Ring!DisconnectBegin
    <2>1. /\ at["disc"].pc = "begin"
          /\ Ring!GoTo("disc", "stop", 1)
          /\ UNCHANGED <<epOpen, running, alloc, armed, handler, failures, late, fault>>
        BY <1>4 DEF Ring!DisconnectBegin, Ring!ring
    <2>2. /\ at' \in [{"op", "disc"} -> Places]
          /\ at'["disc"].pc = "stop" /\ at'["op"] = at["op"]
        BY <1>2, <2>1
    <2>3. Armed' = Armed
        BY <2>1 DEF Armed
    <2>4. RingFields'
        BY <2>1, <2>2 DEF RingInd, RingFields, Ring!Thread, DiscPlaces
    <2>5. OncePerUrb' /\ Whole'
        BY <2>1, <2>2, <2>3 DEF RingInd, OncePerUrb, Whole
    <2>6. Alone => Alone'
        BY <2>1, <2>2, <2>3 DEF Alone, Stopped, Stopping
    <2> QED
        BY <2>1, <2>4, <2>5, <2>6 DEF RingInd
<1>5. CASE Ring!DisconnectStop
    <2>1. /\ at["disc"].pc = "stop"
          /\ Ring!GoTo("disc", "kill", 1)
          /\ late' = (late \/ at["op"].pc # "idle")
          /\ UNCHANGED <<removing, epOpen, running, alloc, armed, handler, failures, fault>>
        BY <1>5 DEF Ring!DisconnectStop, Ring!ring
    <2>2. /\ at' \in [{"op", "disc"} -> Places]
          /\ at'["disc"].pc = "kill" /\ at'["disc"].slot = 1 /\ at'["op"] = at["op"]
        BY <1>2, <2>1
    <2>3. Armed' = Armed
        BY <2>1 DEF Armed
    <2>4. RingFields'
        BY <2>1, <2>2 DEF RingInd, RingFields, Ring!Thread, DiscPlaces, Stopping
    <2>5. OncePerUrb' /\ Whole'
        BY <2>1, <2>2, <2>3 DEF RingInd, OncePerUrb, Whole
    <2>6. ASSUME ~late' PROVE Alone'
        <3>1. Alone /\ at["op"].pc = "idle"
            BY <2>1, <2>6 DEF RingInd
        <3>2. \A s \in alloc : s >= 1
            BY <1>1 DEF RingInd, RingFields, Slots
        <3> QED
            BY <2>1, <2>2, <2>3, <3>1, <3>2 DEF Alone, Stopped, Stopping
    <2> QED
        BY <2>4, <2>5, <2>6 DEF RingInd
<1> QED
    BY <1>3, <1>4, <1>5

\* Every step of the ring leaves each buffer in exactly one place.
LEMMA RingStep ==
    ASSUME Ring!RxRingConstants, RingInd, [Ring!Next]_Ring!vars
    PROVE  RingInd'
<1> USE DEF Ring!ring, Ring!soft, Ring!history
<1>1. ASSUME NEW t \in Ring!Transfer, NEW lost \in 0..MaxAgg, Ring!RxComplete(t, lost)
      PROVE  RingInd'
    <2>1. failures' \in {failures, failures + 1}
        BY <1>1 DEF Ring!RxComplete
    <2> QED
        BY <1>1, <2>1, CompletionKeeps DEF Ring!RxComplete
<1>2. CASE Ring!RxError
    BY <1>2, CompletionKeeps DEF Ring!RxError
<1>3. CASE Ring!Worker
    BY <1>3, RestKeeps DEF Ring!Worker, Ring!WorkBegin, Ring!WorkStep, Ring!WorkAnswer, Ring!WorkEnd
<1>4. CASE Ring!Transmit \/ Ring!TxComplete \/ UNCHANGED Ring!vars
    <2>1. UNCHANGED <<removing, epOpen, at, running, alloc, armed, handler, failures, fault>>
        BY <1>4 DEF Ring!Transmit, Ring!TxComplete, Ring!vars
    <2>2. late => late'
        BY <1>4 DEF Ring!Transmit, Ring!TxComplete, Ring!vars
    <2> QED
        BY <2>1, <2>2, RestKeeps
<1>5. ASSUME NEW th \in Ring!Thread, Ring!Stop(th) PROVE RingInd'
    <2>1. CASE Ring!StopKill(th)
        BY <2>1, StopKillKeeps
    <2>2. CASE Ring!StopFree(th)
        BY <2>2, StopFreeKeeps
    <2>3. CASE Ring!StopCancel(th)
        BY <2>3, StopFlushKeeps DEF Ring!StopCancel
    <2>4. CASE Ring!StopAnchor(th)
        BY <2>4, StopFlushKeeps DEF Ring!StopAnchor
    <2>5. CASE Ring!StopPurge(th)
        <3>1. /\ at[th].pc = "purge" /\ running' = FALSE
              /\ Ring!GoTo(th, IF th = "op" THEN "idle" ELSE "stopped", 1)
              /\ UNCHANGED <<removing, epOpen, alloc, armed, handler, failures, late, fault>>
            BY <2>5 DEF Ring!StopPurge
        <3> DEFINE pc == IF th = "op" THEN "idle" ELSE "stopped"
        <3>2. Ring!GoTo(th, pc, 1) /\ ((pc = "idle" /\ th = "op") \/ (pc = "stopped" /\ th = "disc"))
            BY <3>1 DEF Ring!Thread
        <3> HIDE DEF pc
        <3> QED
            BY <3>1, <3>2, StopFlushKeeps
    <2> QED
        BY <1>5, <2>1, <2>2, <2>3, <2>4, <2>5 DEF Ring!Stop
<1> QED
    BY <1>1, <1>2, <1>3, <1>4, <1>5, EnsureBeginKeeps, ArmAllocKeeps, ArmSubmitKeeps, EnsureEndKeeps,
       ResubmitKeeps, DisconnectKeeps DEF Ring!Next

\* What the invariant says of the URBs that are live.
LEMMA RingInvFollows == Ring!RxRingConstants /\ RingInd => RingInv
<1> SUFFICES ASSUME Ring!RxRingConstants, RingInd PROVE RingInv
    OBVIOUS
<1> USE DEF RingInd
<1>1. Ring!ToSet(armed) = Armed
    BY DEF RingFields, Armed, Ring!ToSet
<1>2. Ring!RingStaysWhole /\ Ring!UrbsUsedSafely
    BY <1>1 DEF Whole, Alone, Slots, Ring!RingStaysWhole, Ring!Slot, Ring!UrbsUsedSafely
<1>3. CASE handler = Ring!NoHandler
    <2>1. armed \o <<>> = armed
        BY DEF RingFields
    <2>2. Ring!IsInjective(armed) /\ Ring!ToSet(armed) \subseteq alloc
        BY <1>1 DEF RingFields, OncePerUrb, Ring!IsInjective
    <2> QED
        BY <1>2, <1>3, <2>1, <2>2 DEF RingInv, Ring!RingInv, Ring!RingHoldsTogether
<1>4. CASE handler # Ring!NoHandler
    <2> DEFINE live == armed \o <<handler>>
    <2>1. /\ DOMAIN live = 1..(Len(armed) + 1)
          /\ Len(armed) \in Nat
          /\ \A i \in 1..Len(armed) : live[i] = armed[i]
          /\ live[Len(armed) + 1] = handler
        <3>1. armed \in Seq(Slots) /\ handler \in 0..Urbs
            BY DEF RingFields
        <3>2. armed \in Seq(0..Urbs) /\ <<handler>> \in Seq(0..Urbs)
            BY <3>1 DEF Slots, Ring!RxRingConstants
        <3> QED
            BY <3>2
    <2> HIDE DEF live
    <2>2. \A i \in 1..(Len(armed) + 1) : i \in 1..Len(armed) \/ i = Len(armed) + 1
        BY <2>1
    <2>3. \A i \in 1..Len(armed) : armed[i] \in Armed /\ armed[i] # handler
        BY DEF Armed, OncePerUrb
    <2>4. Ring!IsInjective(live)
        <3> SUFFICES ASSUME NEW i \in 1..(Len(armed) + 1), NEW j \in 1..(Len(armed) + 1), live[i] = live[j]
                     PROVE  i = j
            BY <2>1 DEF Ring!IsInjective
        <3>1. CASE i \in 1..Len(armed) /\ j \in 1..Len(armed)
            BY <2>1, <3>1 DEF OncePerUrb
        <3>2. CASE i = Len(armed) + 1 \/ j = Len(armed) + 1
            BY <2>1, <2>2, <2>3, <3>2
        <3> QED
            BY <2>2, <3>1, <3>2
    <2>5. handler \in alloc
        BY <1>4 DEF RingFields, OncePerUrb, Ring!NoHandler
    <2>6. Ring!ToSet(live) \subseteq alloc
        <3>3. Ring!ToSet(live) = {live[i] : i \in 1..(Len(armed) + 1)}
            BY <2>1 DEF Ring!ToSet
        <3> SUFFICES ASSUME NEW i \in 1..(Len(armed) + 1) PROVE live[i] \in alloc
            BY <3>3
        <3>1. CASE i \in 1..Len(armed)
            BY <2>1, <2>3, <3>1 DEF OncePerUrb
        <3>2. CASE i = Len(armed) + 1
            BY <2>1, <2>5, <3>2
        <3> QED
            BY <2>2, <3>1, <3>2
    <2> QED
        BY <1>2, <1>4, <2>4, <2>6 DEF live, RingInv, Ring!RingInv, Ring!RingHoldsTogether
<1> QED
    BY <1>3, <1>4

\* Through errors, short and malformed transfers, failed starts and a removal at any point,
\* however the threads in rx_start and rx_stop interleave, no URB is armed twice or while its
\* completion runs, rx_stop knows every armed one, none leaves a running ring but by a failed
\* submission, and none is overwritten, freed twice or freed in use while no operation
\* overlaps disconnect's rx_stop (rx_start, rx_complete, rx_stop).
THEOREM RingCorrect == Ring!RxRingConstants => (Ring!Spec => []RingInv)
<1> SUFFICES ASSUME Ring!RxRingConstants PROVE Ring!Spec => []RingInv
    OBVIOUS
<1>1. Ring!Init => RingInd
    BY RingInitial
<1>2. RingInd /\ [Ring!Next]_Ring!vars => RingInd'
    BY RingStep
<1>3. RingInd => RingInv
    BY RingInvFollows
<1> QED
    BY <1>1, <1>2, <1>3, PTL DEF Ring!Spec

-----------------------------------------------------------------------------
(* The teardown of the ring.                                               *)

\* The order of rx_stop: without late operations and frames, each thing disconnect has
\* waited for stays away.  (The URBs are gone first: Alone.)
QuietInd ==
    ~late =>
        /\ at["disc"].pc \in {"anchor", "purge", "stopped"} => work = Ring!IdleWork
        /\ at["disc"].pc \in {"purge", "stopped"} => txAnchor = 0
        /\ at["disc"].pc = "stopped" => rxQueue = <<>>

\* Where disconnect is after a step.
LEMMA DiscMoves ==
    ASSUME RingFields, NEW th \in Ring!Thread, NEW pc, NEW slot, Ring!GoTo(th, pc, slot)
    PROVE  /\ th = "op" => at'["disc"] = at["disc"]
           /\ th = "disc" => at'["disc"].pc = pc
<1>1. th \in {"op", "disc"}
    BY DEF Ring!Thread
<1> QED
    BY <1>1, GoToIs

\* Every step of the RX ring keeps it quiet once stopped.
LEMMA QuietStep ==
    ASSUME RingInd, QuietInd, [Ring!Next]_Ring!vars
    PROVE  QuietInd'
<1> USE DEF QuietInd, Ring!ring, Ring!soft, Ring!history
<1>1. RingFields
    BY DEF RingInd
<1>2. ASSUME ~late, at["disc"].pc \in Stopping \cup {"stopped"} PROVE at["op"].pc = "idle"
    BY <1>2 DEF RingInd, Alone
<1>3. ASSUME ~late, at["disc"].pc \in {"cancel", "anchor", "purge", "stopped"}
      PROVE  armed = <<>> /\ handler = Ring!NoHandler
    <2>1. alloc = {} /\ Armed = {} /\ handler = 0
        BY <1>3 DEF RingInd, Alone, Stopped, OncePerUrb
    <2>2. CASE armed # <<>>
        <3>1. 1 \in 1..Len(armed)
            BY <1>1, <2>2 DEF RingFields
        <3> QED
            BY <2>1, <3>1 DEF Armed
    <2> QED
        BY <2>1, <2>2 DEF Ring!NoHandler
<1>4. ASSUME UNCHANGED <<at, work, txAnchor, rxQueue>>, late => late' PROVE QuietInd'
    BY <1>4
<1>5. ASSUME NEW pc, NEW slot, Ring!GoTo("op", pc, slot), UNCHANGED <<work, txAnchor, rxQueue>>, late => late'
      PROVE  QuietInd'
    <2> DEFINE th == "op"
    <2>1. th \in Ring!Thread /\ Ring!GoTo(th, pc, slot) /\ th = "op"
        BY <1>5 DEF Ring!Thread
    <2> HIDE DEF th
    <2>2. at'["disc"] = at["disc"]
        BY <1>1, <2>1, DiscMoves
    <2> QED
        BY <1>5, <2>2
<1>6. CASE Ring!EnsureBegin \/ Ring!EnsureEnd
    <2>1. UNCHANGED <<work, txAnchor, rxQueue>>
        BY <1>6 DEF Ring!EnsureBegin, Ring!EnsureEnd
    <2>2. late => late'
        <3>1. CASE Ring!EnsureBegin
            BY <3>1 DEF Ring!EnsureBegin
        <3>2. CASE Ring!EnsureEnd
            BY <3>2 DEF Ring!EnsureEnd
        <3> QED
            BY <1>6, <3>1, <3>2
    <2>3. Ring!GoTo("op", "alloc", 1) \/ Ring!GoTo("op", "idle", 1)
        BY <1>6 DEF Ring!EnsureBegin, Ring!EnsureEnd
    <2> QED
        BY <1>5, <2>1, <2>2, <2>3
<1>7. CASE Ring!ArmAlloc
    BY <1>4, <1>5, <1>7 DEF Ring!ArmAlloc, Ring!Faults
<1>8. CASE Ring!ArmSubmit
    BY <1>4, <1>5, <1>8 DEF Ring!ArmSubmit, Ring!Faults
<1>9. ASSUME NEW t \in Ring!Transfer, NEW lost \in 0..MaxAgg, Ring!RxComplete(t, lost)
      PROVE  QuietInd'
    BY <1>3, <1>9 DEF Ring!RxComplete
<1>10. CASE Ring!RxError \/ Ring!Resubmit
    BY <1>4, <1>10 DEF Ring!RxError, Ring!Resubmit
<1>11. CASE Ring!WorkBegin \/ Ring!WorkEnd
    BY <1>11 DEF Ring!WorkBegin, Ring!WorkEnd, Ring!IdleWork
<1>12. CASE Ring!WorkStep
    BY <1>12 DEF Ring!WorkStep, Ring!IdleWork
<1>13. CASE Ring!WorkAnswer
    BY <1>13 DEF Ring!WorkAnswer, Ring!IdleWork
<1>14. CASE Ring!Transmit
    BY <1>14 DEF Ring!Transmit
<1>15. CASE Ring!TxComplete
    BY <1>15 DEF Ring!TxComplete
<1>16. CASE \E th \in Ring!Thread : Ring!Stop(th)
    <2>1. PICK th \in Ring!Thread : Ring!Stop(th)
        BY <1>16
    <2>2. late' = late
        BY <2>1 DEF Ring!Stop, Ring!StopKill, Ring!StopFree, Ring!StopCancel, Ring!StopAnchor,
                    Ring!StopPurge, Ring!Faults
    <2>3. CASE th = "op"
        <3>1. at["op"].pc # "idle"
            BY <2>1, <2>3 DEF Ring!Stop, Ring!StopKill, Ring!StopFree, Ring!StopCancel,
                              Ring!StopAnchor, Ring!StopPurge
        <3>2. ~late => at["disc"].pc \notin Stopping \cup {"stopped"}
            BY <1>2, <3>1
        <3>3. at'["disc"] = at["disc"]
            <4>1. ASSUME Ring!Faults PROVE at' = at
                BY <4>1 DEF Ring!Faults
            <4>2. ASSUME NEW pc, NEW slot, Ring!GoTo(th, pc, slot) PROVE at'["disc"] = at["disc"]
                BY <1>1, <2>3, <4>2, DiscMoves
            <4> QED
                BY <2>1, <4>1, <4>2 DEF Ring!Stop, Ring!StopKill, Ring!StopFree, Ring!StopCancel,
                                        Ring!StopAnchor, Ring!StopPurge
        <3> QED
            BY <2>2, <3>2, <3>3 DEF Stopping
    <2>4. CASE th = "disc"
        <3>1. CASE Ring!StopKill(th)
            <4>1. PICK pc \in {"kill", "free", "cancel"}, slot \in Int : Ring!GoTo(th, pc, slot)
                <5>1. at[th].slot \in Int
                    BY <1>1 DEF RingFields, Places, Ring!Thread
                <5> QED
                    BY <3>1, <5>1 DEF Ring!StopKill
            <4>2. at'["disc"].pc \in {"kill", "free", "cancel"}
                BY <1>1, <2>4, <4>1, DiscMoves
            <4> QED
                BY <2>2, <4>2
        <3>2. CASE Ring!StopFree(th)
            <4>1. CASE Ring!Faults
                BY <1>4, <4>1 DEF Ring!Faults
            <4>2. CASE Ring!GoTo(th, "kill", at[th].slot + 1)
                <5> DEFINE n == at[th].slot + 1
                <5>1. Ring!GoTo(th, "kill", n)
                    BY <4>2
                <5> HIDE DEF n
                <5>2. at'["disc"].pc = "kill"
                    BY <1>1, <2>4, <5>1, DiscMoves
                <5> QED
                    BY <2>2, <5>2
            <4> QED
                BY <3>2, <4>1, <4>2 DEF Ring!StopFree
        <3>3. CASE Ring!StopCancel(th)
            <4>1. at'["disc"].pc = "anchor"
                BY <1>1, <2>4, <3>3, DiscMoves DEF Ring!StopCancel
            <4> QED
                BY <3>3, <4>1 DEF Ring!StopCancel
        <3>4. CASE Ring!StopAnchor(th)
            <4>1. at'["disc"].pc = "purge"
                BY <1>1, <2>4, <3>4, DiscMoves DEF Ring!StopAnchor
            <4> QED
                BY <2>4, <3>4, <4>1 DEF Ring!StopAnchor
        <3>5. CASE Ring!StopPurge(th)
            BY <2>4, <3>5 DEF Ring!StopPurge
        <3> QED
            BY <2>1, <3>1, <3>2, <3>3, <3>4, <3>5 DEF Ring!Stop
    <2> QED
        BY <2>3, <2>4 DEF Ring!Thread
<1>17. CASE Ring!Unplug \/ Ring!DisconnectBegin \/ Ring!DisconnectStop
    <2>1. at'["disc"].pc \in {"begin", "stop", "kill"}
        BY <1>1, <1>17, DiscMoves DEF Ring!Unplug, Ring!DisconnectBegin, Ring!DisconnectStop, Ring!Thread
    <2> QED
        BY <2>1
<1>18. CASE UNCHANGED Ring!vars
    BY <1>4, <1>18 DEF Ring!vars
<1> QED
    BY <1>6, <1>7, <1>8, <1>9, <1>10, <1>11, <1>12, <1>13, <1>14, <1>15, <1>16, <1>17, <1>18
       DEF Ring!Next, Ring!Worker

\* What the two invariants say of a stopped ring.
LEMMA QuietFollows == RingInd /\ QuietInd => QuietAfterStop
<1> SUFFICES ASSUME RingInd, QuietInd, ~late, at["disc"].pc = "stopped" PROVE Ring!Quiet
    BY DEF QuietAfterStop, Ring!QuietAfterStop, Ring!StopIsFinal
<1>1. alloc = {} /\ Armed = {} /\ handler = 0
    BY DEF RingInd, Alone, Stopped, OncePerUrb
<1>2. armed = <<>>
    <2>1. CASE armed # <<>>
        <3>1. 1 \in 1..Len(armed)
            BY <2>1 DEF RingInd, RingFields
        <3> QED
            BY <1>1, <3>1 DEF Armed
    <2> QED
        BY <2>1
<1> QED
    BY <1>1, <1>2 DEF QuietInd, Ring!Quiet, Ring!NoHandler

\* Whatever was in flight when disconnect began, with the endpoints shut or left open, after
\* its rx_stop there is no URB, no completion, no work and no frame left to touch the
\* device, unless an operation overlapped rx_stop or came after it, or a frame came after
\* usb_kill_anchored_urbs: its order is right, and only what it does not exclude is missed.
THEOREM RingQuiet == Ring!RxRingConstants => (Ring!Spec => []QuietAfterStop)
<1> SUFFICES ASSUME Ring!RxRingConstants PROVE Ring!Spec => []QuietAfterStop
    OBVIOUS
<1>1. Ring!Init => RingInd /\ QuietInd
    <2>1. Ring!Init => at["disc"].pc = "idle"
        BY DEF Ring!Init, Ring!AtRest
    <2> QED
        BY <2>1, RingInitial DEF QuietInd
<1>2. RingInd /\ QuietInd /\ [Ring!Next]_Ring!vars => RingInd' /\ QuietInd'
    BY RingStep, QuietStep
<1>3. RingInd /\ QuietInd => QuietAfterStop
    BY QuietFollows
<1> QED
    BY <1>1, <1>2, <1>3, PTL DEF Ring!Spec

-----------------------------------------------------------------------------
(* The order of the segments.                                              *)

Rising(s) == \A i, j \in 1..Len(s) : i < j => s[i] < s[j]
Vals(s) == {s[i] : i \in 1..Len(s)}

\* Every value of s is below every value of t.
Below(s, t) == \A x \in Vals(s), y \in Vals(t) : x < y

\* Length, places and values of a sequence of numbers.
LEMMA NatSeq ==
    ASSUME NEW s \in Seq(Nat)
    PROVE  /\ Len(s) \in Nat /\ DOMAIN s = 1..Len(s) /\ \A i \in 1..Len(s) : s[i] \in Nat
           /\ Vals(s) \subseteq Nat
<1>1. Len(s) \in Nat /\ DOMAIN s = 1..Len(s)
    BY LenProperties
<1>2. \A i \in 1..Len(s) : s[i] \in Nat
    BY ElementOfSeq
<1> QED
    BY <1>1, <1>2 DEF Vals

\* Two rising sequences, one below the other, joined.
LEMMA RisingJoin ==
    ASSUME NEW s \in Seq(Nat), NEW t \in Seq(Nat)
    PROVE  /\ s \o t \in Seq(Nat)
           /\ Vals(s \o t) = Vals(s) \cup Vals(t)
           /\ Rising(s) /\ Rising(t) /\ Below(s, t) => Rising(s \o t)
<1> DEFINE c == s \o t
           n == Len(s)
           m == Len(t)
<1>1. /\ c \in Seq(Nat) /\ Len(c) = n + m
      /\ \A i \in 1..(n + m) : c[i] = IF i <= n THEN s[i] ELSE t[i - n]
    BY ConcatProperties
<1>2. n \in Nat /\ m \in Nat
    BY NatSeq
<1> HIDE DEF c
<1>3. \A i \in 1..n : i \in 1..(n + m) /\ c[i] = s[i] /\ s[i] \in Vals(s)
    BY <1>1, <1>2 DEF Vals
<1>4. \A i \in 1..(n + m) : i > n => i - n \in 1..m /\ c[i] = t[i - n] /\ t[i - n] \in Vals(t)
    <2>1. ASSUME NEW i \in 1..(n + m), i > n PROVE i - n \in 1..m /\ c[i] = t[i - n]
        <3>1. i - n \in 1..m /\ ~(i <= n)
            <4> HIDE DEF n, m
            <4> QED
                BY <1>2, <2>1
        <3>2. c[i] = IF i <= n THEN s[i] ELSE t[i - n]
            BY <1>1
        <3> QED
            BY <3>1, <3>2
    <2> QED
        BY <2>1 DEF Vals
<1>5. Vals(c) = Vals(s) \cup Vals(t)
    <2>1. ASSUME NEW i \in 1..Len(c) PROVE c[i] \in Vals(s) \cup Vals(t)
        <3>1. CASE i <= n
            <4>1. i \in 1..n
                BY <1>1, <1>2, <2>1, <3>1
            <4> QED
                BY <1>3, <4>1
        <3>2. CASE i > n
            BY <1>1, <1>4, <3>2
        <3> QED
            BY <1>1, <1>2, <3>1, <3>2
    <2>2. ASSUME NEW i \in 1..n PROVE s[i] \in Vals(c)
        BY <1>1, <1>3 DEF Vals
    <2>3. ASSUME NEW i \in 1..m PROVE t[i] \in Vals(c)
        <3>1. n + i \in 1..(n + m) /\ n + i > n /\ (n + i) - n = i
            BY <1>2
        <3>2. c[n + i] = t[i]
            BY <1>4, <3>1
        <3> QED
            BY <1>1, <3>1, <3>2 DEF Vals
    <2> QED
        BY <2>1, <2>2, <2>3 DEF Vals
<1>6. ASSUME Rising(s), Rising(t), Below(s, t) PROVE Rising(c)
    <2> SUFFICES ASSUME NEW i \in 1..(n + m), NEW j \in 1..(n + m), i < j PROVE c[i] < c[j]
        BY <1>1 DEF Rising
    <2>1. CASE j <= n
        <3>1. i \in 1..n /\ j \in 1..n
            BY <1>2, <2>1
        <3> QED
            BY <1>3, <1>6, <3>1 DEF Rising
    <2>2. CASE i <= n /\ j > n
        <3>1. i \in 1..n
            BY <1>2, <2>2
        <3> QED
            BY <1>3, <1>4, <1>6, <2>2, <3>1 DEF Below
    <2>3. CASE i > n
        <3>1. j > n /\ i - n < j - n
            BY <1>2, <2>3
        <3> QED
            BY <1>4, <1>6, <2>3, <3>1 DEF Rising
    <2> QED
        BY <1>2, <2>1, <2>2, <2>3
<1> QED
    BY <1>1, <1>5, <1>6 DEF c

\* The oldest of a rising queue, and what is left.
LEMMA RisingTail ==
    ASSUME NEW s \in Seq(Nat), s # <<>>
    PROVE  /\ Head(s) \in Nat /\ Head(s) \in Vals(s)
           /\ Tail(s) \in Seq(Nat) /\ Vals(Tail(s)) \subseteq Vals(s)
           /\ Rising(s) => Rising(Tail(s)) /\ \A y \in Vals(Tail(s)) : Head(s) < y
<1> DEFINE t == Tail(s)
<1>1. /\ Head(s) \in Nat /\ t \in Seq(Nat) /\ Len(t) = Len(s) - 1
      /\ \A i \in 1..Len(t) : t[i] = s[i + 1]
    BY HeadTailProperties
<1>2. Len(s) \in Nat \ {0} /\ Head(s) = s[1]
    BY EmptySeq
<1> HIDE DEF t
<1>3. \A i \in 1..Len(t) : i + 1 \in 1..Len(s) /\ t[i] = s[i + 1]
    BY <1>1, <1>2
<1>4. 1 \in 1..Len(s)
    BY <1>2
<1>5. Head(s) \in Vals(s) /\ Vals(t) \subseteq Vals(s)
    BY <1>2, <1>3, <1>4 DEF Vals
<1>6. ASSUME Rising(s) PROVE Rising(t) /\ \A y \in Vals(t) : Head(s) < y
    <2>1. ASSUME NEW i \in 1..Len(t), NEW j \in 1..Len(t), i < j PROVE t[i] < t[j]
        <3>1. i + 1 < j + 1
            BY <2>1
        <3> QED
            BY <1>3, <1>6, <3>1 DEF Rising
    <2>2. ASSUME NEW i \in 1..Len(t) PROVE Head(s) < t[i]
        <3>1. 1 < i + 1
            BY <2>2
        <3> QED
            BY <1>2, <1>3, <1>4, <1>6, <3>1 DEF Rising
    <2> QED
        BY <2>1, <2>2 DEF Rising, Vals
<1> QED
    BY <1>1, <1>5, <1>6 DEF t

\* One segment moves from the queue to the delivered ones.
LEMMA RisingAppend ==
    ASSUME NEW s \in Seq(Nat), NEW x \in Nat
    PROVE  /\ Append(s, x) \in Seq(Nat) /\ Vals(Append(s, x)) = Vals(s) \cup {x}
           /\ Rising(s) /\ (\A y \in Vals(s) : y < x) => Rising(Append(s, x))
<1>1. <<x>> \in Seq(Nat) /\ Append(s, x) = s \o <<x>>
    BY AppendIsConcat
<1>2. Vals(<<x>>) = {x} /\ Rising(<<x>>)
    BY DEF Vals, Rising
<1>3. (\A y \in Vals(s) : y < x) => Below(s, <<x>>)
    BY <1>2 DEF Below
<1> QED
    BY <1>1, <1>2, <1>3, RisingJoin

\* Three sequences joined from the left and from the right.
Regrouped(u, v, w) == (u \o v) \o w = u \o (v \o w)

\* Concatenation of number sequences is associative.
LEMMA NumbersAssoc == \A u, v, w \in Seq(Nat) : Regrouped(u, v, w)
<1> DEFINE Assoc(S) == \A u, v, w \in Seq(S) : (u \o v) \o w = u \o (v \o w)
<1>1. \A S : Assoc(S)
    BY ConcatAssociative
<1> HIDE DEF Assoc
<1>2. Assoc(Nat)
    BY <1>1, Zenon
<1> QED
    BY <1>2 DEF Assoc, Regrouped

\* Moving the head of a queue to the end of what was delivered leaves the whole in order.
LEMMA MoveOne ==
    ASSUME NEW d \in Seq(Nat), NEW q \in Seq(Nat), q # <<>>
    PROVE  Append(d, Head(q)) \o Tail(q) = d \o q
<1>1. q = <<Head(q)>> \o Tail(q) /\ Head(q) \in Nat /\ Tail(q) \in Seq(Nat) /\ <<Head(q)>> \in Seq(Nat)
    BY HeadTailProperties
<1>2. Append(d, Head(q)) = d \o <<Head(q)>>
    BY <1>1, AppendIsConcat
<1>3. (d \o <<Head(q)>>) \o Tail(q) = d \o (<<Head(q)>> \o Tail(q))
    <2>1. Regrouped(d, <<Head(q)>>, Tail(q))
        BY <1>1, NumbersAssoc, Zenon
    <2> QED
        BY <2>1 DEF Regrouped
<1> QED
    BY <1>1, <1>2, <1>3, Zenon

-----------------------------------------------------------------------------
(* The walk of a transfer.                                                 *)

\* The instance counts as FiniteSets does.
LEMMA RingCardinality == \A S : Ring!Cardinality(S) = Cardinality(S)
BY DEF Ring!Cardinality, Cardinality

\* A transfer is a finite sequence of segments.
LEMMA TransferIs ==
    ASSUME NEW t \in Ring!Transfer
    PROVE  Len(t) \in Nat /\ DOMAIN t = 1..Len(t)
<1>1. PICK k \in 0..MaxAgg : t \in [1..k -> BOOLEAN]
    BY DEF Ring!Transfer
<1>2. k \in Nat
    BY <1>1
<1>3. t \in Seq(BOOLEAN)
    BY <1>1, <1>2, SeqDef
<1> QED
    BY <1>3, LenProperties

\* The walk takes the well-formed segments a transfer begins with.
LEMMA WalkIs ==
    ASSUME NEW t \in Ring!Transfer, NEW k \in 0..Len(t), Ring!WellFormedUpTo(t, k)
    PROVE  Ring!Walk(t) = k
<1> DEFINE W == {i \in DOMAIN t : \A j \in 1..i : t[j]}
<1>1. Len(t) \in Nat /\ DOMAIN t = 1..Len(t)
    BY TransferIs
<1>2. k \in Nat /\ k <= Len(t)
    BY <1>1
<1>3. ASSUME NEW i \in W PROVE i \in 1..k
    <2>1. i \in 1..Len(t) /\ \A j \in 1..i : t[j]
        BY <1>1
    <2>2. CASE k < i
        <3>1. k < Len(t) /\ k + 1 \in 1..i
            BY <1>1, <1>2, <2>1, <2>2
        <3>2. t[k + 1] /\ ~t[k + 1]
            BY <2>1, <3>1, Zenon DEF Ring!WellFormedUpTo
        <3> QED
            BY <3>2
    <2> QED
        BY <1>2, <2>1, <2>2
<1>4. ASSUME NEW i \in 1..k PROVE i \in W
    <2>1. i \in 1..Len(t) /\ \A j \in 1..i : j \in 1..k
        BY <1>1, <1>2
    <2>2. \A j \in 1..i : t[j]
        BY <2>1, Zenon DEF Ring!WellFormedUpTo
    <2> QED
        BY <1>1, <2>1, <2>2
<1>5. W = 1..k
    BY <1>3, <1>4
<1>6. Cardinality(1..k) = k
    BY <1>2, FS_Interval
<1>7. Ring!Walk(t) = Cardinality(W)
    BY RingCardinality DEF Ring!Walk
<1> QED
    BY <1>5, <1>6, <1>7

\* The numbers of n segments, in order.
LEMMA NumberedIs ==
    ASSUME segs \in Nat, NEW n \in Nat
    PROVE  /\ Ring!Numbered(n) \in Seq(Nat) /\ Len(Ring!Numbered(n)) = n
           /\ \A i \in 1..n : Ring!Numbered(n)[i] = segs + i
           /\ Rising(Ring!Numbered(n))
           /\ Vals(Ring!Numbered(n)) = (segs + 1)..(segs + n)
<1> DEFINE s == Ring!Numbered(n)
<1>1. s \in [1..n -> Nat] /\ \A i \in 1..n : s[i] = segs + i
    BY DEF Ring!Numbered
<1> HIDE DEF s
<1>2. s \in Seq(Nat)
    BY <1>1, SeqDef
<1>3. Len(s) = n
    BY <1>1, <1>2, LenProperties
<1>4. Rising(s)
    <2> SUFFICES ASSUME NEW i \in 1..n, NEW j \in 1..n, i < j PROVE s[i] < s[j]
        BY <1>3 DEF Rising
    <2>1. s[i] = segs + i /\ s[j] = segs + j
        BY <1>1
    <2> QED
        BY <2>1
<1>5. Vals(s) = (segs + 1)..(segs + n)
    <2>1. ASSUME NEW i \in 1..n PROVE s[i] \in (segs + 1)..(segs + n)
        BY <1>1
    <2>2. ASSUME NEW x \in (segs + 1)..(segs + n) PROVE \E i \in 1..n : s[i] = x
        <3>1. x - segs \in 1..n /\ segs + (x - segs) = x
            BY <2>2
        <3>2. s[x - segs] = x
            BY <1>1, <3>1
        <3> QED
            BY <3>1, <3>2
    <2> QED
        BY <1>3, <2>1, <2>2 DEF Vals
<1> QED
    BY <1>1, <1>2, <1>3, <1>4, <1>5 DEF s

\* A piece of a rising sequence.
LEMMA RisingPiece ==
    ASSUME NEW s \in Seq(Nat), Rising(s), NEW a \in Nat \ {0}, NEW b \in Nat, b <= Len(s)
    PROVE  /\ SubSeq(s, a, b) \in Seq(Nat) /\ Rising(SubSeq(s, a, b))
           /\ Vals(SubSeq(s, a, b)) = {s[i] : i \in a..b}
<1> DEFINE u == SubSeq(s, a, b)
<1>1. Len(s) \in Nat /\ \A i \in 1..Len(s) : s[i] \in Nat
    BY NatSeq
<1>2. \A i \in a..b : i \in 1..Len(s)
    BY <1>1
<1>3. \A i \in a..b : s[i] \in Nat
    BY <1>1, <1>2
<1>4. /\ u \in Seq(Nat) /\ Len(u) = (IF a <= b THEN b - a + 1 ELSE 0)
      /\ \A i \in 1..(b - a + 1) : u[i] = s[a + i - 1]
    <2>1. a \in Int /\ b \in Int
        OBVIOUS
    <2>2. u \in Seq(Nat)
        BY <1>3, <2>1, SubSeqProperties
    <2>3. Len(u) = IF a <= b THEN b - a + 1 ELSE 0
        BY <1>3, <2>1, SubSeqProperties
    <2>4. \A i \in 1..(b - a + 1) : u[i] = s[a + i - 1]
        BY <1>3, <2>1, SubSeqProperties
    <2> QED
        BY <2>2, <2>3, <2>4
<1> HIDE DEF u
<1>5. \A i \in 1..Len(u) : a + i - 1 \in a..b /\ u[i] = s[a + i - 1]
    <2> SUFFICES ASSUME NEW i \in 1..Len(u) PROVE a + i - 1 \in a..b /\ u[i] = s[a + i - 1]
        OBVIOUS
    <2>1. a <= b /\ i \in 1..(b - a + 1)
        BY <1>4
    <2> QED
        BY <1>4, <2>1
<1>6. Rising(u)
    <2> SUFFICES ASSUME NEW i \in 1..Len(u), NEW j \in 1..Len(u), i < j PROVE u[i] < u[j]
        BY DEF Rising
    <2>1. Len(u) \in Nat
        BY <1>4, LenProperties
    <2>2. a + i - 1 < a + j - 1
        BY <2>1
    <2> QED
        BY <1>2, <1>5, <2>2 DEF Rising
<1>7. \A k \in a..b : k - a + 1 \in 1..Len(u) /\ u[k - a + 1] = s[k]
    <2> SUFFICES ASSUME NEW k \in a..b PROVE k - a + 1 \in 1..Len(u) /\ u[k - a + 1] = s[k]
        OBVIOUS
    <2>1. k - a + 1 \in 1..Len(u) /\ a + (k - a + 1) - 1 = k
        BY <1>4
    <2> QED
        BY <1>5, <2>1
<1>8. Vals(u) = {s[i] : i \in a..b}
    <2>1. ASSUME NEW x \in Vals(u) PROVE \E k \in a..b : x = s[k]
        BY <1>5 DEF Vals
    <2>2. ASSUME NEW k \in a..b PROVE \E i \in 1..Len(u) : s[k] = u[i]
        BY <1>7
    <2> QED
        BY <2>1, <2>2 DEF Vals
<1> QED
    BY <1>4, <1>6, <1>8 DEF u

\* What the completion copies of n segments, all of them or all but one.
Copied(n, lost) ==
    IF lost = 0 THEN Ring!Numbered(n) ELSE Ring!RemoveAt(Ring!Numbered(n), lost)

\* What one completion copies: new numbers, in the order of the transfer.
LEMMA CopiedIs ==
    ASSUME segs \in Nat, NEW n \in Nat, NEW lost \in 0..n
    PROVE  /\ Copied(n, lost) \in Seq(Nat) /\ Rising(Copied(n, lost))
           /\ Vals(Copied(n, lost)) \subseteq (segs + 1)..(segs + n)
<1> DEFINE s == Ring!Numbered(n)
<1>1. /\ s \in Seq(Nat) /\ Len(s) = n /\ Rising(s) /\ Vals(s) = (segs + 1)..(segs + n)
      /\ \A i \in 1..n : s[i] = segs + i
    BY NumberedIs
<1> HIDE DEF s
<1>2. CASE lost = 0
    BY <1>1, <1>2 DEF Copied, s
<1>3. CASE lost # 0
    <2> DEFINE a == SubSeq(s, 1, lost - 1)
               b == SubSeq(s, lost + 1, n)
    <2>1. lost - 1 \in Nat /\ lost - 1 <= n /\ lost + 1 \in Nat \ {0}
        BY <1>3
    <2>2. a \in Seq(Nat) /\ Rising(a) /\ Vals(a) = {s[i] : i \in 1..(lost - 1)}
        <3>1. s \in Seq(Nat) /\ Rising(s) /\ lost - 1 <= Len(s) /\ 1 \in Nat \ {0} /\ lost - 1 \in Nat
            BY <1>1, <2>1
        <3> DEFINE m == lost - 1
                   one == 1
        <3>2. one \in Nat \ {0} /\ m \in Nat /\ m <= Len(s) /\ a = SubSeq(s, one, m)
            BY <3>1
        <3> HIDE DEF a, m, one
        <3>3. a \in Seq(Nat) /\ Rising(a) /\ Vals(a) = {s[i] : i \in one..m}
            BY <3>1, <3>2, RisingPiece
        <3> QED
            BY <3>3 DEF one, m
    <2>3. b \in Seq(Nat) /\ Rising(b) /\ Vals(b) = {s[i] : i \in (lost + 1)..n}
        <3> DEFINE m == lost + 1
        <3>1. m \in Nat \ {0} /\ n \in Nat /\ n <= Len(s) /\ b = SubSeq(s, m, n)
            BY <1>1, <2>1
        <3> HIDE DEF b, m
        <3>2. b \in Seq(Nat) /\ Rising(b) /\ Vals(b) = {s[i] : i \in m..n}
            BY <1>1, <3>1, RisingPiece
        <3> QED
            BY <3>2 DEF m
    <2>4. Copied(n, lost) = a \o b
        BY <1>1, <1>3 DEF Copied, Ring!RemoveAt, s
    <2> HIDE DEF a, b
    <2>5. \A i \in 1..(lost - 1) : i \in 1..n /\ i < lost
        BY <1>3
    <2>6. \A i \in (lost + 1)..n : i \in 1..n /\ lost < i
        BY <1>3
    <2>7. Below(a, b)
        <3> SUFFICES ASSUME NEW i \in 1..(lost - 1), NEW j \in (lost + 1)..n PROVE s[i] < s[j]
            BY <2>2, <2>3 DEF Below
        <3>1. i < j /\ i \in 1..n /\ j \in 1..n
            BY <2>5, <2>6
        <3> QED
            BY <1>1, <3>1 DEF Rising
    <2>8. Vals(a) \subseteq Vals(s) /\ Vals(b) \subseteq Vals(s)
        BY <1>1, <2>2, <2>3, <2>5, <2>6 DEF Vals
    <2>9. a \o b \in Seq(Nat) /\ Vals(a \o b) = Vals(a) \cup Vals(b) /\ Rising(a \o b)
        BY <2>2, <2>3, <2>7, RisingJoin
    <2>10. Vals(a \o b) \subseteq (segs + 1)..(segs + n)
        BY <1>1, <2>8, <2>9, Zenon
    <2> QED
        BY <2>4, <2>9, <2>10, Zenon
<1> QED
    BY <1>2, <1>3

-----------------------------------------------------------------------------
(* Once and in order.                                                      *)

\* The processed segments, then the queued ones, rise; a transfer carried each of them;
\* and nothing is missing but by a failure or the removal.
OrderInd ==
    /\ segs \in Nat /\ failures \in Nat
    /\ rxQueue \in Seq(Nat) /\ delivered \in Seq(Nat) /\ taken \in Seq(Nat)
    /\ Vals(rxQueue) \subseteq 0..segs /\ Vals(delivered) \subseteq 0..segs
    /\ Rising(rxQueue) /\ Rising(delivered) /\ Below(delivered, rxQueue)
    /\ Vals(rxQueue) \subseteq Vals(taken) /\ Vals(delivered) \subseteq Vals(taken)
    /\ at["disc"].pc = "idle" /\ failures = 0 => delivered \o rxQueue = taken

\* The empty queue has no values.
LEMMA EmptyVals == Vals(<<>>) = {} /\ Rising(<<>>) /\ <<>> \in Seq(Nat)
BY EmptySeq DEF Vals, Rising

\* Nothing is queued or delivered at first.
LEMMA OrderInitial == Ring!Init => OrderInd
<1> SUFFICES ASSUME Ring!Init PROVE OrderInd
    OBVIOUS
<1>1. <<>> \o <<>> = <<>>
    BY EmptyVals, ConcatEmptySeq
<1> QED
    BY <1>1, EmptyVals DEF Ring!Init, OrderInd, Below

\* A transfer's well-formed segments, one perhaps lost, go to the end of the queue.
LEMMA CompletionInOrder ==
    ASSUME OrderInd, NEW t \in Ring!Transfer, NEW lost \in 0..MaxAgg, Ring!RxComplete(t, lost)
    PROVE  OrderInd'
<1>1. PICK k \in 0..Len(t) : Ring!WellFormedUpTo(t, k) /\ taken' = taken \o Ring!Numbered(k)
    BY DEF Ring!RxComplete
<1>2. Len(t) \in Nat /\ k \in Nat /\ k <= Len(t)
    BY <1>1, TransferIs
<1>3. Ring!Walk(t) = k
    BY <1>1, WalkIs
<1>4. lost \in 0..k
    BY <1>2, <1>3 DEF Ring!RxComplete
<1> DEFINE c == Copied(k, lost)
           n == Ring!Numbered(k)
<1>5. /\ rxQueue' = rxQueue \o c /\ segs' = segs + Len(t)
      /\ failures' = (IF lost # 0 THEN failures + 1 ELSE failures)
      /\ UNCHANGED <<at, delivered>>
    BY <1>3 DEF Ring!RxComplete, Copied
<1>6. segs \in Nat /\ failures \in Nat /\ rxQueue \in Seq(Nat) /\ delivered \in Seq(Nat) /\ taken \in Seq(Nat)
    BY DEF OrderInd
<1>7. c \in Seq(Nat) /\ Rising(c) /\ Vals(c) \subseteq (segs + 1)..(segs + k)
    BY <1>2, <1>4, <1>6, CopiedIs
<1>8. n \in Seq(Nat) /\ Vals(n) = (segs + 1)..(segs + k)
    BY <1>2, <1>6, NumberedIs
<1>9. lost = 0 => c = n
    BY DEF Copied
<1> HIDE DEF c, n
<1>10. taken' \in Seq(Nat) /\ Vals(taken') = Vals(taken) \cup Vals(n)
    BY <1>1, <1>6, <1>8, RisingJoin DEF n
<1>11. Below(rxQueue, c) /\ Below(delivered, c)
    <2>1. \A x \in 0..segs, y \in (segs + 1)..(segs + k) : x < y
        BY <1>2, <1>6
    <2> QED
        BY <1>7, <2>1 DEF Below, OrderInd
<1>12. rxQueue' \in Seq(Nat) /\ Vals(rxQueue') = Vals(rxQueue) \cup Vals(c) /\ Rising(rxQueue')
    BY <1>5, <1>6, <1>7, <1>11, RisingJoin DEF OrderInd
<1>13. Below(delivered, rxQueue')
    BY <1>11, <1>12 DEF Below, OrderInd
<1>14. segs' \in Nat /\ 0..segs \subseteq 0..segs' /\ (segs + 1)..(segs + k) \subseteq 0..segs'
    BY <1>2, <1>5, <1>6
<1>15. failures' \in Nat /\ (failures' = 0 => failures = 0 /\ lost = 0)
    BY <1>5, <1>6
<1>16. ASSUME at["disc"].pc = "idle", failures' = 0 PROVE delivered \o rxQueue' = taken'
    <2>1. delivered \o rxQueue = taken /\ c = n
        BY <1>9, <1>15, <1>16 DEF OrderInd
    <2>2. (delivered \o rxQueue) \o c = delivered \o (rxQueue \o c)
        <3>1. delivered \in Seq(Nat) /\ rxQueue \in Seq(Nat) /\ c \in Seq(Nat)
            BY <1>6, <1>7
        <3>2. Regrouped(delivered, rxQueue, c)
            BY <3>1, NumbersAssoc, Zenon
        <3> QED
            BY <3>2 DEF Regrouped
    <2>3. taken' = taken \o n
        BY <1>1 DEF n
    <2> QED
        BY <1>5, <2>1, <2>2, <2>3, Zenon
<1>17. Vals(rxQueue') \subseteq 0..segs' /\ Vals(delivered) \subseteq 0..segs'
    BY <1>7, <1>12, <1>14, Zenon DEF OrderInd
<1>18. Vals(rxQueue') \subseteq Vals(taken') /\ Vals(delivered) \subseteq Vals(taken')
    BY <1>7, <1>8, <1>10, <1>12, Zenon DEF OrderInd
<1> QED
    BY <1>5, <1>6, <1>10, <1>12, <1>13, <1>14, <1>15, <1>16, <1>17, <1>18 DEF OrderInd

\* The worker processes the oldest segment, or drops it when the device goes away.
LEMMA WorkInOrder ==
    ASSUME OrderInd, Whole, Ring!WorkStep
    PROVE  OrderInd'
<1> DEFINE x == Head(rxQueue)
           q == Tail(rxQueue)
           d == Append(delivered, x)
<1>1. rxQueue # <<>> /\ rxQueue' = q /\ delivered' = (IF removing THEN delivered ELSE d)
      /\ UNCHANGED <<segs, failures, taken, at>>
    BY DEF Ring!WorkStep, Ring!ring
<1>2. rxQueue \in Seq(Nat) /\ delivered \in Seq(Nat) /\ Rising(rxQueue) /\ Rising(delivered)
      /\ Below(delivered, rxQueue)
    BY DEF OrderInd
<1>3. /\ x \in Nat /\ x \in Vals(rxQueue) /\ q \in Seq(Nat) /\ Vals(q) \subseteq Vals(rxQueue)
      /\ Rising(q) /\ \A y \in Vals(q) : x < y
    BY <1>1, <1>2, RisingTail
<1>4. d \o q = delivered \o rxQueue
    BY <1>1, <1>2, MoveOne
<1> HIDE DEF x, q
<1>5. d \in Seq(Nat) /\ Vals(d) = Vals(delivered) \cup {x} /\ Rising(d)
    <2>1. \A y \in Vals(delivered) : y < x
        BY <1>2, <1>3 DEF Below
    <2> QED
        BY <1>2, <1>3, <2>1, RisingAppend
<1> HIDE DEF d
<1>6. Below(d, q) /\ Below(delivered, q)
    BY <1>2, <1>3, <1>5 DEF Below
<1>7. removing => at["disc"].pc # "idle"
    BY DEF Whole
<1>8. CASE removing
    BY <1>1, <1>3, <1>6, <1>7, <1>8 DEF OrderInd
<1>9. CASE ~removing
    BY <1>1, <1>3, <1>4, <1>5, <1>6, <1>9 DEF OrderInd
<1> QED
    BY <1>8, <1>9

\* The queue is emptied: by rx_start's undo, after a failure, and by disconnect.
LEMMA FlushInOrder ==
    ASSUME RingInd, OrderInd, NEW th \in Ring!Thread, Ring!StopPurge(th)
    PROVE  OrderInd'
<1>1. rxQueue' = <<>> /\ UNCHANGED <<segs, failures, taken, delivered>>
    BY DEF Ring!StopPurge, Ring!history
<1>2. at["disc"].pc # "idle" \/ failures # 0
    BY StopPlace DEF Ring!StopPurge, Stopping
<1>3. at'["disc"].pc = "idle" => at["disc"].pc = "idle"
    <2>1. th = "op" => at'["disc"] = at["disc"]
        BY DiscMoves DEF Ring!StopPurge, RingInd
    <2>2. th = "disc" => at'["disc"].pc = "stopped"
        BY DiscMoves DEF Ring!StopPurge, RingInd
    <2> QED
        BY <2>1, <2>2 DEF Ring!Thread
<1> QED
    BY <1>1, <1>2, <1>3, EmptyVals DEF OrderInd, Below

\* disconnect does not go back.
LEMMA DiscStays ==
    ASSUME RingInd, [Ring!Next]_Ring!vars
    PROVE  at'["disc"].pc = "idle" => at["disc"].pc = "idle"
<1> USE DEF Ring!ring, Ring!soft, Ring!history
<1>1. ASSUME NEW th \in Ring!Thread, NEW pc, NEW slot, Ring!GoTo(th, pc, slot),
             th = "op" \/ at["disc"].pc = "idle" \/ pc # "idle"
      PROVE  at'["disc"].pc = "idle" => at["disc"].pc = "idle"
    BY <1>1, DiscMoves DEF RingInd, Ring!Thread
<1>2. CASE UNCHANGED at
    BY <1>2
<1>3. CASE Ring!EnsureBegin \/ Ring!EnsureEnd \/ Ring!ArmAlloc \/ Ring!ArmSubmit
    <2>1. \/ UNCHANGED at
          \/ \E pc \in {"alloc", "submit", "kill", "idle"}, slot \in {1, at["op"].slot, at["op"].slot + 1} :
                Ring!GoTo("op", pc, slot)
        BY <1>3 DEF Ring!EnsureBegin, Ring!EnsureEnd, Ring!ArmAlloc, Ring!ArmSubmit, Ring!Faults
    <2> QED
        BY <1>1, <1>2, <2>1 DEF Ring!Thread
<1>4. ASSUME NEW th \in Ring!Thread, Ring!Stop(th) PROVE at'["disc"].pc = "idle" => at["disc"].pc = "idle"
    <2>1. \/ UNCHANGED at
          \/ \E pc \in Stopping \cup {"idle", "stopped"}, slot \in {1, at[th].slot, at[th].slot + 1} :
                Ring!GoTo(th, pc, slot) /\ (pc = "idle" => th = "op")
        <3>1. CASE Ring!StopKill(th) \/ Ring!StopFree(th)
            BY <3>1 DEF Ring!StopKill, Ring!StopFree, Ring!Faults, Stopping
        <3>2. CASE Ring!StopCancel(th) \/ Ring!StopAnchor(th)
            BY <3>2 DEF Ring!StopCancel, Ring!StopAnchor, Stopping
        <3>3. CASE Ring!StopPurge(th)
            <4> DEFINE pc == IF th = "op" THEN "idle" ELSE "stopped"
            <4>1. Ring!GoTo(th, pc, 1) /\ pc \in {"idle", "stopped"} /\ (pc = "idle" => th = "op")
                BY <3>3 DEF Ring!StopPurge
            <4> HIDE DEF pc
            <4> QED
                BY <4>1
        <3> QED
            BY <1>4, <3>1, <3>2, <3>3 DEF Ring!Stop
    <2> QED
        BY <1>1, <1>2, <2>1
<1>5. CASE Ring!Unplug \/ Ring!DisconnectBegin \/ Ring!DisconnectStop
    <2>1. \E pc \in {"begin", "stop", "kill"} : Ring!GoTo("disc", pc, 1)
        BY <1>5 DEF Ring!Unplug, Ring!DisconnectBegin, Ring!DisconnectStop
    <2> QED
        BY <1>1, <2>1 DEF Ring!Thread
<1>6. ASSUME NEW t \in Ring!Transfer, NEW lost \in 0..MaxAgg, Ring!RxComplete(t, lost) PROVE UNCHANGED at
    BY <1>6 DEF Ring!RxComplete
<1>7. CASE Ring!RxError \/ Ring!Resubmit \/ Ring!Worker \/ Ring!Transmit \/ Ring!TxComplete
    BY <1>7 DEF Ring!RxError, Ring!Resubmit, Ring!Worker, Ring!WorkBegin, Ring!WorkStep, Ring!WorkAnswer,
                Ring!WorkEnd, Ring!Transmit, Ring!TxComplete
<1>8. CASE UNCHANGED Ring!vars
    BY <1>8 DEF Ring!vars
<1> QED
    BY <1>2, <1>3, <1>4, <1>5, <1>6, <1>7, <1>8 DEF Ring!Next

\* Until the ring is shut down, every step keeps the queues in order.
LEMMA OrderStep ==
    ASSUME RingInd, OrderInd, [Ring!Next]_Ring!vars
    PROVE  OrderInd'
<1> USE DEF Ring!ring, Ring!soft, Ring!history
<1>1. at'["disc"].pc = "idle" => at["disc"].pc = "idle"
    BY DiscStays
<1>2. CASE UNCHANGED <<segs, taken, delivered, rxQueue, failures>>
    BY <1>1, <1>2 DEF OrderInd
<1>3. CASE UNCHANGED <<segs, taken, delivered, rxQueue>> /\ failures' \in {failures, failures + 1}
    BY <1>1, <1>3 DEF OrderInd
<1>4. ASSUME NEW t \in Ring!Transfer, NEW lost \in 0..MaxAgg, Ring!RxComplete(t, lost)
      PROVE  OrderInd'
    BY <1>4, CompletionInOrder
<1>5. CASE Ring!WorkStep
    BY <1>5, WorkInOrder DEF RingInd
<1>6. CASE Ring!EnsureBegin \/ Ring!EnsureEnd \/ Ring!RxError
    BY <1>2, <1>6 DEF Ring!EnsureBegin, Ring!EnsureEnd, Ring!RxError
<1>7. CASE Ring!ArmAlloc
    BY <1>3, <1>7 DEF Ring!ArmAlloc, Ring!Faults
<1>8. CASE Ring!ArmSubmit
    BY <1>3, <1>8 DEF Ring!ArmSubmit, Ring!Faults
<1>9. CASE Ring!Resubmit
    BY <1>3, <1>9 DEF Ring!Resubmit
<1>10. CASE Ring!WorkBegin \/ Ring!WorkAnswer \/ Ring!WorkEnd
    BY <1>2, <1>10 DEF Ring!WorkBegin, Ring!WorkAnswer, Ring!WorkEnd
<1>11. CASE Ring!Transmit \/ Ring!TxComplete
    BY <1>2, <1>11 DEF Ring!Transmit, Ring!TxComplete
<1>12. ASSUME NEW th \in Ring!Thread, Ring!Stop(th) PROVE OrderInd'
    <2>1. CASE Ring!StopPurge(th)
        BY <2>1, FlushInOrder
    <2>2. CASE Ring!StopKill(th)
        BY <1>2, <2>2 DEF Ring!StopKill
    <2>3. CASE Ring!StopFree(th)
        BY <1>2, <2>3 DEF Ring!StopFree, Ring!Faults
    <2>4. CASE Ring!StopCancel(th) \/ Ring!StopAnchor(th)
        BY <1>2, <2>4 DEF Ring!StopCancel, Ring!StopAnchor
    <2> QED
        BY <1>12, <2>1, <2>2, <2>3, <2>4 DEF Ring!Stop
<1>13. CASE Ring!Unplug \/ Ring!DisconnectBegin \/ Ring!DisconnectStop
    BY <1>2, <1>13 DEF Ring!Unplug, Ring!DisconnectBegin, Ring!DisconnectStop
<1>14. CASE UNCHANGED Ring!vars
    BY <1>2, <1>14 DEF Ring!vars
<1> QED
    BY <1>4, <1>5, <1>6, <1>7, <1>8, <1>9, <1>10, <1>11, <1>12, <1>13, <1>14 DEF Ring!Next, Ring!Worker

\* What is delivered is the front of the ordered whole.
LEMMA OrderInvFollows == OrderInd => DeliveredInOrder
<1> SUFFICES ASSUME OrderInd PROVE DeliveredInOrder
    OBVIOUS
<1>1. DOMAIN delivered = 1..Len(delivered) /\ DOMAIN taken = 1..Len(taken)
    BY NatSeq DEF OrderInd
<1>2. Ring!ToSet(delivered) = Vals(delivered) /\ Ring!ToSet(taken) = Vals(taken)
    BY <1>1 DEF Ring!ToSet, Vals
<1> QED
    BY <1>1, <1>2 DEF DeliveredInOrder, Ring!DeliveredInOrder, OrderInd, Rising

\* Every well-formed segment of every aggregate is processed once and in the order the
\* chip delivered it while nothing failed, and none twice or out of order across a
\* failure or the teardown, for any number of URBs and segments (rx_complete, rx_work).
THEOREM SegmentsInOrder == Ring!RxRingConstants => (Ring!Spec => []DeliveredInOrder)
<1> SUFFICES ASSUME Ring!RxRingConstants PROVE Ring!Spec => []DeliveredInOrder
    OBVIOUS
<1>1. Ring!Init => RingInd /\ OrderInd
    BY RingInitial, OrderInitial
<1>2. RingInd /\ OrderInd /\ [Ring!Next]_Ring!vars => RingInd' /\ OrderInd'
    BY RingStep, OrderStep
<1>3. OrderInd => DeliveredInOrder
    BY OrderInvFollows
<1> QED
    BY <1>1, <1>2, <1>3, PTL DEF Ring!Spec

-----------------------------------------------------------------------------
(* Probe and what it holds.                                                *)

Loading == {"setup", "power", "ilm", "dlm", "ivb", "confirm", "init", "wiphy"}

\* What probe holds is known from where it is.
HeldByPlace ==
    /\ probePc \in Loading \cup {"unbound", "register", "bound"}
    /\ probePc = "unbound" => held = {}
    /\ probePc \in Loading => held = {"dev", "udev", "intfdata"}
    /\ probePc = "register" => held = {"dev", "udev", "intfdata", "wiphy"}
    /\ probePc = "bound" => held = {"dev", "udev", "intfdata", "wiphy", "registered", "netdev"}

\* Every step of the bring-up owns what its place in the code owns.
LEMMA HeldStep ==
    ASSUME HeldByPlace, [Load!Next]_Load!vars
    PROVE  HeldByPlace'
<1> USE DEF HeldByPlace, Loading
<1>1. ASSUME NEW ilm \in IlmLens, NEW dlm \in DlmLens, Load!Probe(ilm, dlm) PROVE HeldByPlace'
    BY <1>1 DEF Load!Probe
<1>2. CASE Load!ProbeSetup
    BY <1>2 DEF Load!ProbeSetup, Load!Unwind
<1>3. CASE \/ Load!FirmwareMissing \/ Load!RegisterSetup \/ Load!UploadChunk \/ Load!UploadFails
           \/ Load!UploadDone \/ Load!PushIvb \/ Load!InitFails
    BY <1>3 DEF Load!FirmwareMissing, Load!RegisterSetup, Load!UploadChunk, Load!UploadFails,
                Load!UploadDone, Load!PushIvb, Load!InitFails, Load!GiveUpLoad
<1>4. CASE Load!Boot
    BY <1>4 DEF Load!Boot
<1>5. CASE Load!ConfirmBoot
    BY <1>5 DEF Load!ConfirmBoot, Load!GiveUpLoad
<1>6. ASSUME NEW macValid \in BOOLEAN, Load!InitPhase(macValid) PROVE HeldByPlace'
    BY <1>6 DEF Load!InitPhase
<1>7. CASE Load!WiphyAlloc
    BY <1>7 DEF Load!WiphyAlloc, Load!Unwind
<1>8. CASE Load!Register
    BY <1>8 DEF Load!Register
<1>9. ASSUME NEW did \in {{}, {"registered"}, {"registered", "netdev"}}, Load!RegisterFails(did)
      PROVE  HeldByPlace'
    BY <1>9 DEF Load!RegisterFails, Load!Unwind
<1>10. CASE Load!Disconnect
    BY <1>10 DEF Load!Disconnect, Load!Unwind
<1>11. CASE Load!Unplug \/ UNCHANGED Load!vars
    BY <1>11 DEF Load!Unplug, Load!vars
<1> QED
    BY <1>1, <1>2, <1>3, <1>4, <1>5, <1>6, <1>7, <1>8, <1>9, <1>10, <1>11 DEF Load!Next

\* From whichever step probe fails, and through disconnect, everything that was taken is
\* given back (rf_2a4m1_probe's error path, rf_2a4m1_cfg80211_register).
THEOREM ProbeUnwinds == Load!Spec => []NothingLeaks
<1>1. Load!Init => HeldByPlace
    BY DEF Load!Init, HeldByPlace, Loading
<1>2. HeldByPlace /\ [Load!Next]_Load!vars => HeldByPlace'
    BY HeldStep
<1>3. HeldByPlace => NothingLeaks
    BY DEF HeldByPlace, NothingLeaks, Load!NothingLeaks
<1> QED
    BY <1>1, <1>2, <1>3, PTL DEF Load!Spec

-----------------------------------------------------------------------------
(* The chip init.                                                          *)

DevType == [state : {"INIT", "FW_LOADED", "RUNNING"}, phase : 1..9, ee : BOOLEAN, hw : BOOLEAN,
            mac : {"random", "efuse"}, ndev : {"none", "random", "efuse"}]

\* The phases run in order: past the sixth the EEPROM was read, and only the eighth, which
\* a live MCU must answer, declares the chip initialised.
InitInOrder ==
    /\ dev \in DevType
    /\ probePc \notin {"init", "wiphy", "register", "bound"} => dev = Load!NewDev
    /\ probePc = "init" => dev.phase <= 8 /\ ~dev.hw
    /\ dev.phase > 6 => dev.ee
    /\ dev.hw => dev.phase = 9 /\ mcu = bind

\* The two phases the proofs name, by their place in rf_2a4m1_chip_init.
LEMMA PhaseNames ==
    /\ Len(Load!Phases) = 8
    /\ Load!Phases[6] = "eeprom"
    /\ Load!Phases[8] = "channel"
BY DEF Load!Phases

\* A device just allocated is at the first phase and not running.
LEMMA NewDevFresh ==
    /\ Load!NewDev \in DevType
    /\ Load!NewDev.phase = 1
    /\ Load!NewDev.hw = FALSE
    /\ Load!NewDev.state = "INIT"
BY DEF Load!NewDev, DevType

\* A phase of the initialisation follows the one before it.
LEMMA InitPhaseKeeps ==
    ASSUME InitInOrder, NEW macValid \in BOOLEAN, Load!InitPhase(macValid)
    PROVE  InitInOrder'
<1> DEFINE last == dev.phase = 8
<1>1. /\ probePc = "init"
      /\ Load!PhasePasses(Load!Phases[dev.phase])
      /\ dev' = [dev EXCEPT !.phase = @ + 1,
                            !.ee = @ \/ Load!Phases[dev.phase] = "eeprom",
                            !.mac = IF Load!Phases[dev.phase] = "eeprom" /\ macValid
                                    THEN "efuse" ELSE @,
                            !.hw = last]
      /\ IF last THEN probePc' = "wiphy" ELSE UNCHANGED probePc
      /\ UNCHANGED <<bind, mcu>>
    BY PhaseNames DEF Load!InitPhase, Load!Phase, Load!chip
<1>2. /\ dev \in DevType /\ dev.phase \in 1..8
      /\ dev.phase > 6 => dev.ee
    BY <1>1 DEF InitInOrder, DevType
<1>3. /\ dev'.phase = dev.phase + 1
      /\ dev'.ee <=> (dev.ee \/ Load!Phases[dev.phase] = "eeprom")
      /\ dev'.hw <=> last
    BY <1>1, <1>2 DEF DevType
<1>4. dev' \in DevType
    <2>1. /\ dev.phase + 1 \in 1..9
          /\ (dev.ee \/ Load!Phases[dev.phase] = "eeprom") \in BOOLEAN
          /\ last \in BOOLEAN
          /\ (IF Load!Phases[dev.phase] = "eeprom" /\ macValid THEN "efuse" ELSE dev.mac)
                \in {"random", "efuse"}
        BY <1>2 DEF DevType
    <2> QED
        BY <1>1, <1>2, <2>1 DEF DevType
<1>5. dev'.phase > 6 => dev'.ee
    <2>1. dev'.phase > 6 => dev.phase > 6 \/ dev.phase = 6
        BY <1>2, <1>3
    <2>2. dev.phase = 6 => Load!Phases[dev.phase] = "eeprom"
        BY PhaseNames
    <2> QED
        BY <1>2, <1>3, <2>1, <2>2, Zenon
<1>6. last => mcu = bind
    BY <1>1, PhaseNames DEF Load!PhasePasses, Load!Answered
<1>7. /\ probePc' = "init" => dev'.phase <= 8 /\ ~dev'.hw
      /\ dev'.hw => dev'.phase = 9 /\ mcu' = bind'
      /\ probePc' \in {"init", "wiphy"}
    <2>1. last => dev'.phase = 9
        BY <1>3
    <2>2. ~last => dev'.phase <= 8
        BY <1>2, <1>3
    <2> QED
        BY <1>1, <1>3, <1>6, <2>1, <2>2
<1> HIDE DEF last
<1> QED
    BY <1>4, <1>5, <1>7 DEF InitInOrder

\* Every step of the bring-up keeps the phases in order.
LEMMA InitInOrderStep ==
    ASSUME InitInOrder, [Load!Next]_Load!vars
    PROVE  InitInOrder'
<1> USE DEF Load!chip
<1>1. ASSUME dev' = Load!NewDev, probePc' \notin {"init"} PROVE InitInOrder'
    BY <1>1, NewDevFresh DEF InitInOrder
<1>2. ASSUME UNCHANGED <<dev, bind>>, UNCHANGED mcu \/ mcu' = bind,
             \/ UNCHANGED probePc
             \/ probePc' \in {"wiphy", "register", "bound"}
             \/ dev = Load!NewDev /\ probePc' \notin {"init"}
      PROVE  InitInOrder'
    BY <1>2 DEF InitInOrder
<1>3. ASSUME NEW ilm \in IlmLens, NEW dlm \in DlmLens, Load!Probe(ilm, dlm) PROVE InitInOrder'
    BY <1>1, <1>3 DEF Load!Probe
<1>4. CASE Load!ProbeSetup
    <2>1. dev = Load!NewDev
        BY <1>4 DEF Load!ProbeSetup, InitInOrder
    <2> QED
        BY <1>1, <1>2, <1>4, <2>1 DEF Load!ProbeSetup
<1>5. CASE Load!FirmwareMissing \/ Load!UploadFails \/ Load!InitFails
    BY <1>2, <1>5 DEF Load!FirmwareMissing, Load!UploadFails, Load!InitFails, Load!GiveUpLoad
<1>6. CASE Load!RegisterSetup
    <2>1. dev = Load!NewDev /\ dev' = Load!NewDev /\ probePc' = "ilm"
        BY <1>6 DEF Load!RegisterSetup, InitInOrder
    <2> QED
        BY <1>1, <2>1
<1>7. CASE Load!UploadChunk
    BY <1>2, <1>7 DEF Load!UploadChunk
<1>8. CASE Load!UploadDone
    <2>1. dev = Load!NewDev /\ dev' = Load!NewDev /\ probePc' \in {"dlm", "ivb"}
        BY <1>8 DEF Load!UploadDone, InitInOrder
    <2> QED
        BY <1>1, <2>1
<1>9. CASE Load!PushIvb
    <2>1. dev = Load!NewDev /\ dev' = Load!NewDev /\ probePc' \in {"confirm", "wiphy"}
        BY <1>9 DEF Load!PushIvb, Load!GiveUpLoad, InitInOrder
    <2> QED
        BY <1>1, <2>1
<1>10. CASE Load!Boot
    BY <1>2, <1>10 DEF Load!Boot
<1>11. CASE Load!ConfirmBoot
    <2>1. dev = Load!NewDev
        BY <1>11 DEF Load!ConfirmBoot, InitInOrder
    <2>2. CASE dev' = [dev EXCEPT !.state = "FW_LOADED"] /\ probePc' = "init"
        <3>1. dev' = [state |-> "FW_LOADED", phase |-> 1, ee |-> FALSE, hw |-> FALSE,
                      mac |-> "random", ndev |-> "none"]
            BY <2>1, <2>2 DEF Load!NewDev
        <3>2. dev' \in DevType /\ dev'.phase = 1 /\ ~dev'.hw
            BY <3>1 DEF DevType
        <3> QED
            BY <2>2, <3>2 DEF InitInOrder
    <2>3. CASE probePc' = "wiphy" /\ UNCHANGED dev
        BY <1>2, <1>11, <2>3 DEF Load!ConfirmBoot
    <2> QED
        BY <1>11, <2>2, <2>3 DEF Load!ConfirmBoot, Load!GiveUpLoad
<1>12. ASSUME NEW macValid \in BOOLEAN, Load!InitPhase(macValid) PROVE InitInOrder'
    BY <1>12, InitPhaseKeeps
<1>13. CASE Load!WiphyAlloc
    BY <1>1, <1>2, <1>13 DEF Load!WiphyAlloc
<1>14. CASE Load!Register
    <2>1. /\ dev' = [dev EXCEPT !.state = "RUNNING", !.ndev = dev.mac]
          /\ probePc' = "bound"
          /\ UNCHANGED <<bind, mcu>>
        BY <1>14 DEF Load!Register
    <2>2. /\ dev' \in DevType
          /\ dev'.phase = dev.phase /\ dev'.ee = dev.ee /\ dev'.hw = dev.hw
        BY <2>1 DEF InitInOrder, DevType
    <2> QED
        BY <2>1, <2>2 DEF InitInOrder
<1>15. ASSUME NEW did \in {{}, {"registered"}, {"registered", "netdev"}}, Load!RegisterFails(did)
       PROVE  InitInOrder'
    BY <1>1, <1>15 DEF Load!RegisterFails
<1>16. CASE Load!Disconnect
    BY <1>1, <1>16 DEF Load!Disconnect
<1>17. CASE Load!Unplug
    <2>1. dev' = Load!NewDev /\ probePc' = "unbound"
        BY <1>17 DEF Load!Unplug, InitInOrder
    <2> QED
        BY <1>1, <2>1
<1>18. CASE UNCHANGED Load!vars
    BY <1>2, <1>18 DEF Load!vars
<1> QED
    BY <1>3, <1>4, <1>5, <1>6, <1>7, <1>8, <1>9, <1>10, <1>11, <1>12, <1>13, <1>14, <1>15, <1>16,
       <1>17, <1>18 DEF Load!Next

\* A chip declared initialised has a live MCU on this load's image and a read EEPROM, also
\* where register errors went unnoticed (rf_2a4m1_usb_chip_init).
THEOREM InitedIsLive == Load!Spec => []InitedMeansLive
<1>1. Load!Init => InitInOrder
    BY NewDevFresh DEF Load!Init, InitInOrder
<1>2. InitInOrder /\ [Load!Next]_Load!vars => InitInOrder'
    BY InitInOrderStep
<1>3. InitInOrder => InitedMeansLive
    BY DEF InitInOrder, DevType, InitedMeansLive, Load!InitedMeansLive
<1> QED
    BY <1>1, <1>2, <1>3, PTL DEF Load!Spec

-----------------------------------------------------------------------------
(* The firmware upload.                                                    *)

LoadFields ==
    /\ bind \in Nat
    /\ img \in [ilm : Nat, dlm : Nat]
    /\ probePc # "unbound" => img.ilm \in IlmLens
    /\ seg \in [src : Nat, dst : Nat, left : Nat]
    /\ mem = [a \in Load!Addresses |-> mem[a]]

\* The units below an address hold the ILM of this load.
IlmBelow(top) == \A a \in Load!Addresses : a < top => mem[a] = [bind |-> bind, at |-> a]

\* The units from DlmOffset up to an address hold its DLM.
DlmBelow(top) ==
    \A a \in Load!Addresses : DlmOffset <= a /\ a < top =>
        mem[a] = [bind |-> bind, at |-> img.ilm + Ivb + (a - DlmOffset)]

\* dma_fw's source, destination and length left move together, and what lies behind the
\* destination has been written.
Uploaded ==
    /\ probePc = "ilm" => /\ seg.src = seg.dst
                     /\ Ivb <= seg.dst
                     /\ seg.dst + seg.left = Ivb + img.ilm
                     /\ IlmBelow(seg.dst)
    /\ probePc = "dlm" => /\ seg.src + DlmOffset = Ivb + img.ilm + seg.dst
                     /\ DlmOffset <= seg.dst
                     /\ seg.dst + seg.left = DlmOffset + img.dlm
                     /\ IlmBelow(Ivb + img.ilm)
                     /\ DlmBelow(seg.dst)
    /\ probePc \in {"ivb", "confirm", "init"} => IlmBelow(Ivb + img.ilm) /\ DlmBelow(DlmOffset + img.dlm)

UploadInd == LoadFields /\ Uploaded

\* Every address is a number: there is a longest DLM.
LEMMA AddressIsNat ==
    ASSUME Load!BringUpConstants
    PROVE  /\ Load!Addresses \subseteq Nat
           /\ \A a \in Load!Addresses : Ivb <= a
<1> DEFINE most == Load!Max(DlmLens)
<1>1. \E x \in DlmLens : \A y \in DlmLens : x >= y
    BY DEF Load!BringUpConstants
<1>2. most \in DlmLens
    BY <1>1 DEF Load!Max
<1>3. most \in Nat /\ Ivb \in Nat /\ DlmOffset \in Nat
    BY <1>2 DEF Load!BringUpConstants
<1> QED
    BY <1>3 DEF Load!Addresses

\* A chunk is not empty and no longer than what is left of the image.
LEMMA ChunkLength ==
    ASSUME NEW m \in Nat, NEW n \in Nat \ {0}, m > 0
    PROVE  Load!Min({m, n}) \in Nat /\ 0 < Load!Min({m, n}) /\ Load!Min({m, n}) <= m
<1>1. \E x \in {m, n} : \A y \in {m, n} : x <= y
    BY DEF Load!Min
<1>2. Load!Min({m, n}) \in {m, n} /\ \A y \in {m, n} : Load!Min({m, n}) <= y
    BY <1>1 DEF Load!Min
<1> QED
    BY <1>2

\* One chunk: written where the last one ended, and nothing else is touched.
LEMMA UploadChunkKeeps ==
    ASSUME Load!BringUpConstants, UploadInd, Load!UploadChunk
    PROVE  UploadInd'
<1> DEFINE n == Load!Min({seg.left, Payload})
<1> USE DEF UploadInd
<1>1. /\ probePc \in {"ilm", "dlm"} /\ seg.left > 0
      /\ mem' = [a \in Load!Addresses |->
                   IF a \in seg.dst..(seg.dst + n - 1)
                   THEN [bind |-> bind, at |-> seg.src + (a - seg.dst)] ELSE mem[a]]
      /\ seg' = [src |-> seg.src + n, dst |-> seg.dst + n, left |-> seg.left - n]
      /\ UNCHANGED <<probePc, bind, img>>
    BY DEF Load!UploadChunk, Load!NextSeg
<1>2. /\ seg.src \in Nat /\ seg.dst \in Nat /\ seg.left \in Nat
      /\ img.ilm \in IlmLens /\ img.ilm \in Nat /\ img.dlm \in Nat
    BY <1>1 DEF LoadFields
<1>3. /\ Ivb \in Nat /\ DlmOffset \in Nat /\ Payload \in Nat \ {0}
      /\ Ivb + img.ilm <= DlmOffset
    BY <1>2 DEF Load!BringUpConstants
<1>4. n \in Nat /\ 0 < n /\ n <= seg.left
    BY <1>1, <1>2, <1>3, ChunkLength
<1> HIDE DEF n
<1>5. /\ seg'.src = seg.src + n /\ seg'.dst = seg.dst + n /\ seg'.left = seg.left - n
      /\ seg' \in [src : Nat, dst : Nat, left : Nat]
    BY <1>1, <1>2, <1>4
<1>6. /\ \A a \in Load!Addresses : a \in Nat /\ Ivb <= a
      /\ \A a \in Load!Addresses : mem'[a] = IF seg.dst <= a /\ a < seg.dst + n
                                             THEN [bind |-> bind, at |-> seg.src + (a - seg.dst)]
                                             ELSE mem[a]
    <2>1. \A a \in Load!Addresses : a \in Nat /\ Ivb <= a
        BY AddressIsNat
    <2>2. \A a \in Load!Addresses : a \in seg.dst..(seg.dst + n - 1)
                                       <=> (seg.dst <= a /\ a < seg.dst + n)
        BY <1>2, <1>4, <2>1
    <2> QED
        BY <1>1, <2>1, <2>2
<1>7. LoadFields'
    <2>1. mem' = [a \in Load!Addresses |-> mem'[a]]
        BY <1>1
    <2> QED
        BY <1>1, <1>5, <2>1 DEF LoadFields, Load!Addresses
<1>8. CASE probePc = "ilm"
    <2>1. seg.src = seg.dst /\ Ivb <= seg.dst /\ seg.dst + seg.left = Ivb + img.ilm /\ IlmBelow(seg.dst)
        BY <1>8 DEF Uploaded
    <2>2. ASSUME NEW a \in Load!Addresses, a < seg.dst + n
          PROVE  mem'[a] = [bind |-> bind, at |-> a]
        <3>1. CASE a < seg.dst
            BY <1>2, <1>6, <2>1, <3>1 DEF IlmBelow
        <3>2. CASE seg.dst <= a
            <4>1. seg.src + (a - seg.dst) = a
                BY <1>2, <1>6, <2>1
            <4> QED
                BY <1>6, <2>2, <3>2, <4>1
        <3> QED
            BY <1>2, <1>6, <3>1, <3>2
    <2>3. /\ seg'.src = seg'.dst
          /\ Ivb <= seg'.dst
          /\ seg'.dst + seg'.left = Ivb + img.ilm
        BY <1>2, <1>3, <1>4, <1>5, <2>1
    <2>4. IlmBelow(seg.dst)'
        BY <1>1, <1>5, <2>2 DEF IlmBelow, Load!Addresses
    <2> QED
        BY <1>1, <1>7, <1>8, <2>3, <2>4 DEF Uploaded
<1>9. CASE probePc = "dlm"
    <2>1. /\ seg.src + DlmOffset = Ivb + img.ilm + seg.dst
          /\ DlmOffset <= seg.dst
          /\ seg.dst + seg.left = DlmOffset + img.dlm
          /\ IlmBelow(Ivb + img.ilm)
          /\ DlmBelow(seg.dst)
        BY <1>9 DEF Uploaded
    <2>2. ASSUME NEW a \in Load!Addresses, a < Ivb + img.ilm
          PROVE  mem'[a] = [bind |-> bind, at |-> a]
        <3>1. a \in Nat
            BY <1>6
        <3>2. a < seg.dst
            BY <1>2, <1>3, <2>1, <2>2, <3>1
        <3>3. ~(seg.dst <= a)
            BY <1>2, <3>1, <3>2
        <3>4. mem'[a] = mem[a]
            BY <1>6, <3>3
        <3> QED
            BY <2>1, <2>2, <3>4 DEF IlmBelow
    <2>3. ASSUME NEW a \in Load!Addresses, DlmOffset <= a, a < seg.dst + n
          PROVE  mem'[a] = [bind |-> bind, at |-> img.ilm + Ivb + (a - DlmOffset)]
        <3>1. CASE a < seg.dst
            <4>1. a \in Nat
                BY <1>6
            <4>2. ~(seg.dst <= a)
                BY <1>2, <3>1, <4>1
            <4>3. mem'[a] = mem[a]
                BY <1>6, <4>2
            <4> QED
                BY <2>1, <2>3, <3>1, <4>3 DEF DlmBelow
        <3>2. CASE seg.dst <= a
            <4>1. seg.src + (a - seg.dst) = img.ilm + Ivb + (a - DlmOffset)
                BY <1>2, <1>3, <1>6, <2>1
            <4> QED
                BY <1>6, <2>3, <3>2, <4>1
        <3> QED
            BY <1>2, <1>6, <3>1, <3>2
    <2>4. IlmBelow(Ivb + img.ilm)' /\ DlmBelow(seg.dst)'
        BY <1>1, <1>5, <2>2, <2>3 DEF IlmBelow, DlmBelow, Load!Addresses
    <2>5. /\ seg'.src + DlmOffset = Ivb + img.ilm + seg'.dst
          /\ DlmOffset <= seg'.dst
          /\ seg'.dst + seg'.left = DlmOffset + img.dlm
        BY <1>2, <1>3, <1>4, <1>5, <2>1
    <2> QED
        BY <1>1, <1>7, <1>9, <2>4, <2>5 DEF Uploaded
<1> QED
    BY <1>1, <1>8, <1>9

\* A step that leaves the chip's memory alone and goes on to no place of the upload.
LEMMA UploadKept ==
    ASSUME UploadInd, UNCHANGED <<bind, img, seg, mem>>,
           \/ probePc' = probePc
           \/ probePc' = "unbound"
           \/ probePc' \in {"setup", "power", "wiphy", "register", "bound"} /\ probePc # "unbound"
           \/ probePc = "ivb" /\ probePc' = "confirm"
           \/ probePc = "confirm" /\ probePc' = "init"
    PROVE  UploadInd'
<1>1. LoadFields'
    BY DEF UploadInd, LoadFields, Load!Addresses
<1>2. \A top : IlmBelow(top) => \A a \in Load!Addresses : a < top => mem'[a] = [bind |-> bind', at |-> a]
    BY DEF IlmBelow
<1>3. \A top : DlmBelow(top) => \A a \in Load!Addresses : DlmOffset <= a /\ a < top =>
                    mem'[a] = [bind |-> bind', at |-> img'.ilm + Ivb + (a - DlmOffset)]
    BY DEF DlmBelow
<1>4. Uploaded'
    BY <1>2, <1>3 DEF UploadInd, Uploaded, IlmBelow, DlmBelow, Load!Addresses
<1> QED
    BY <1>1, <1>4 DEF UploadInd

\* The ILM is whole when dma_fw has nothing left of it, and then the DLM.
LEMMA UploadDoneKeeps ==
    ASSUME Load!BringUpConstants, UploadInd, Load!UploadDone
    PROVE  UploadInd'
<1>1. /\ probePc \in {"ilm", "dlm"} /\ seg.left = 0
      /\ UNCHANGED <<bind, img, mem>>
    BY DEF Load!UploadDone, Load!chip
<1>2. /\ seg.src \in Nat /\ seg.dst \in Nat /\ seg.left \in Nat
      /\ img.ilm \in IlmLens /\ img.ilm \in Nat /\ img.dlm \in Nat
      /\ Ivb \in Nat /\ DlmOffset \in Nat
    BY <1>1 DEF UploadInd, LoadFields, Load!BringUpConstants
<1>3. CASE probePc = "ilm"
    <2>1. probePc' = "dlm" /\ seg' = [src |-> Ivb + img.ilm, dst |-> DlmOffset, left |-> img.dlm]
        BY <1>3 DEF Load!UploadDone
    <2>2. seg' \in [src : Nat, dst : Nat, left : Nat]
        BY <1>2, <2>1
    <2>3. LoadFields'
        BY <1>1, <1>2, <2>1, <2>2 DEF UploadInd, LoadFields, Load!Addresses
    <2>4. seg.dst = Ivb + img.ilm /\ IlmBelow(seg.dst)
        BY <1>1, <1>2, <1>3 DEF UploadInd, Uploaded
    <2>5. IlmBelow(Ivb + img.ilm)'
        BY <1>1, <2>4 DEF IlmBelow, Load!Addresses
    <2>6. ASSUME NEW a \in Load!Addresses, DlmOffset <= a, a < DlmOffset PROVE FALSE
        <3>1. a \in Nat
            BY AddressIsNat
        <3> QED
            BY <1>2, <2>6, <3>1
    <2>7. seg'.dst = DlmOffset /\ seg'.src = Ivb + img.ilm /\ seg'.left = img.dlm
        BY <2>1
    <2>8. DlmBelow(seg.dst)'
        BY <2>6, <2>7 DEF DlmBelow, Load!Addresses
    <2>9. /\ seg'.src + DlmOffset = Ivb + img'.ilm + seg'.dst
          /\ DlmOffset <= seg'.dst
          /\ seg'.dst + seg'.left = DlmOffset + img'.dlm
        BY <1>1, <1>2, <2>7
    <2> QED
        BY <2>1, <2>3, <2>5, <2>8, <2>9 DEF UploadInd, Uploaded
<1>4. CASE probePc = "dlm"
    <2>1. probePc' = "ivb" /\ seg' = seg
        BY <1>4 DEF Load!UploadDone
    <2>2. LoadFields'
        BY <1>1, <1>2, <2>1 DEF UploadInd, LoadFields, Load!Addresses
    <2>3. /\ seg.dst = DlmOffset + img.dlm
          /\ IlmBelow(Ivb + img.ilm) /\ DlmBelow(seg.dst)
        BY <1>1, <1>2, <1>4 DEF UploadInd, Uploaded
    <2>4. IlmBelow(Ivb + img.ilm)' /\ DlmBelow(DlmOffset + img.dlm)'
        BY <1>1, <2>3 DEF IlmBelow, DlmBelow, Load!Addresses
    <2> QED
        BY <2>1, <2>2, <2>4 DEF UploadInd, Uploaded
<1> QED
    BY <1>1, <1>3, <1>4

\* The upload starts at the first unit the MCU looks at.
LEMMA RegisterSetupKeeps ==
    ASSUME Load!BringUpConstants, UploadInd, Load!RegisterSetup
    PROVE  UploadInd'
<1>1. /\ probePc = "power" /\ probePc' = "ilm" /\ UNCHANGED <<bind, img, mem>>
      /\ seg' = [src |-> Ivb, dst |-> Ivb, left |-> img.ilm]
    BY DEF Load!RegisterSetup
<1>2. img.ilm \in IlmLens /\ img.ilm \in Nat /\ Ivb \in Nat
    BY <1>1 DEF UploadInd, LoadFields, Load!BringUpConstants
<1>3. seg' \in [src : Nat, dst : Nat, left : Nat]
    BY <1>1, <1>2
<1>4. LoadFields'
    BY <1>1, <1>2, <1>3 DEF UploadInd, LoadFields, Load!Addresses
<1>5. seg'.dst = Ivb /\ seg'.src = Ivb /\ seg'.left = img.ilm
    BY <1>1
<1>6. ASSUME NEW a \in Load!Addresses, a < Ivb PROVE FALSE
    <2>1. a \in Nat /\ Ivb <= a
        BY AddressIsNat
    <2> QED
        BY <1>2, <1>6, <2>1
<1>7. IlmBelow(seg.dst)'
    BY <1>5, <1>6 DEF IlmBelow, Load!Addresses
<1>8. Ivb <= seg'.dst /\ seg'.dst + seg'.left = Ivb + img'.ilm
    BY <1>1, <1>2, <1>5
<1> QED
    BY <1>1, <1>4, <1>5, <1>7, <1>8 DEF UploadInd, Uploaded

\* Every step keeps the images uploaded so far in their places.
LEMMA UploadStep ==
    ASSUME Load!BringUpConstants, UploadInd, [Load!Next]_Load!vars
    PROVE  UploadInd'
<1>1. ASSUME NEW ilm \in IlmLens, NEW dlm \in DlmLens, Load!Probe(ilm, dlm) PROVE UploadInd'
    <2>1. /\ probePc' = "setup" /\ bind' = bind + 1 /\ img' = [ilm |-> ilm, dlm |-> dlm]
          /\ UNCHANGED <<seg, mem>>
        BY <1>1 DEF Load!Probe, Load!chip
    <2>2. ilm \in Nat /\ dlm \in Nat
        BY DEF Load!BringUpConstants
    <2>3. img' \in [ilm : Nat, dlm : Nat] /\ img'.ilm = ilm
        BY <2>1, <2>2
    <2>4. LoadFields'
        BY <2>1, <2>3 DEF UploadInd, LoadFields, Load!Addresses
    <2> QED
        BY <2>1, <2>4 DEF UploadInd, Uploaded
<1>2. CASE Load!RegisterSetup
    BY <1>2, RegisterSetupKeeps
<1>3. CASE Load!UploadChunk
    BY <1>3, UploadChunkKeeps
<1>4. CASE Load!UploadDone
    BY <1>4, UploadDoneKeeps
<1>5. CASE Load!ProbeSetup \/ Load!FirmwareMissing \/ Load!UploadFails \/ Load!PushIvb
    BY <1>5, UploadKept DEF Load!ProbeSetup, Load!FirmwareMissing, Load!UploadFails, Load!PushIvb,
                            Load!GiveUpLoad, Load!chip
<1>6. CASE Load!Boot \/ Load!ConfirmBoot \/ Load!InitFails
    BY <1>6, UploadKept DEF Load!Boot, Load!ConfirmBoot, Load!InitFails, Load!GiveUpLoad, Load!chip
<1>7. ASSUME NEW macValid \in BOOLEAN, Load!InitPhase(macValid) PROVE UploadInd'
    <2>1. probePc = "init" /\ (probePc' = probePc \/ probePc' = "wiphy") /\ UNCHANGED <<bind, img, seg, mem>>
        BY <1>7 DEF Load!InitPhase, Load!chip
    <2> QED
        BY <2>1, UploadKept
<1>8. CASE Load!WiphyAlloc \/ Load!Register \/ Load!Disconnect
    BY <1>8, UploadKept DEF Load!WiphyAlloc, Load!Register, Load!Disconnect, Load!chip
<1>9. ASSUME NEW did \in {{}, {"registered"}, {"registered", "netdev"}}, Load!RegisterFails(did)
      PROVE  UploadInd'
    BY <1>9, UploadKept DEF Load!RegisterFails, Load!chip
<1>10. CASE Load!Unplug
    <2>1. /\ probePc = "unbound" /\ UNCHANGED <<probePc, bind, img, seg>>
          /\ mem' = [a \in Load!Addresses |-> Load!Unwritten]
        BY <1>10 DEF Load!Unplug
    <2>2. mem' = [a \in Load!Addresses |-> mem'[a]]
        BY <2>1
    <2>3. LoadFields'
        BY <2>1, <2>2 DEF UploadInd, LoadFields, Load!Addresses
    <2> QED
        BY <2>1, <2>3 DEF UploadInd, Uploaded
<1>11. CASE UNCHANGED Load!vars
    BY <1>11, UploadKept DEF Load!vars
<1> QED
    BY <1>1, <1>2, <1>3, <1>4, <1>5, <1>6, <1>7, <1>8, <1>9, <1>10, <1>11 DEF Load!Next

\* When the MCU has been started its memory is the image.
LEMMA UploadedIsWhole ==
    ASSUME Load!BringUpConstants, UploadInd
    PROVE  Load!StartedOnWholeImage
<1> SUFFICES ASSUME probePc \in {"confirm", "init"}
             PROVE  mem = Load!Image
    BY DEF Load!StartedOnWholeImage
<1>1. IlmBelow(Ivb + img.ilm) /\ DlmBelow(DlmOffset + img.dlm)
    BY DEF UploadInd, Uploaded
<1>2. /\ img.ilm \in Nat /\ img.dlm \in Nat /\ Ivb \in Nat /\ DlmOffset \in Nat
      /\ mem = [a \in Load!Addresses |-> mem[a]]
    BY DEF UploadInd, LoadFields, Load!BringUpConstants
<1>3. ASSUME NEW a \in Load!Addresses
      PROVE  mem[a] = Load!Image[a]
    <2>1. a \in Nat
        BY AddressIsNat
    <2>2. a \in DlmOffset..(DlmOffset + img.dlm - 1) <=> DlmOffset <= a /\ a < DlmOffset + img.dlm
        BY <1>2, <2>1
    <2>3. img.ilm + Ivb + (a - DlmOffset) = Ivb + img.ilm + (a - DlmOffset)
        BY <1>2, <2>1
    <2> QED
        BY <1>1, <2>2, <2>3 DEF Load!Image, IlmBelow, DlmBelow
<1> QED
    BY <1>2, <1>3 DEF Load!Image

\* COM_REG0 is the boot flag of this load from the register setup on, unless an access
\* of that setup got lost.
Confirmed ==
    /\ com0 \in {0, 1}
    /\ missed \/ /\ probePc \in {"ilm", "dlm", "ivb"} => com0 = 0
                 /\ probePc = "confirm" /\ com0 = 1 => mcu = bind
                 /\ dev.state = "FW_LOADED" => mcu = bind

\* Every step keeps a started MCU one that has confirmed.
LEMMA ConfirmedStep ==
    ASSUME Confirmed, InitInOrder, [Load!Next]_Load!vars
    PROVE  Confirmed'
<1>1. \A v \in {0, 1}, lost \in Load!Lost : Load!Read(v, lost) = 1 => v = 1
    BY DEF Load!Read, Load!AllOnes
<1>2. probePc \notin {"init", "wiphy", "register", "bound"} => dev.state # "FW_LOADED"
    BY NewDevFresh DEF InitInOrder
<1>3. Load!NewDev.state # "FW_LOADED"
    BY NewDevFresh
<1>4. ASSUME NEW ilm \in IlmLens, NEW dlm \in DlmLens, Load!Probe(ilm, dlm) PROVE Confirmed'
    BY <1>3, <1>4 DEF Load!Probe, Load!chip, Confirmed
<1>5. CASE Load!ProbeSetup
    BY <1>3, <1>5 DEF Load!ProbeSetup, Load!chip, Confirmed
<1>6. CASE Load!RegisterSetup
    <2>1. PICK lostRead \in Load!Lost, lostWrite \in Load!Lost :
            /\ com0' = IF Load!Read(com0, lostRead) = 1 THEN Load!Write(com0, 0, lostWrite) ELSE com0
            /\ missed' = (lostRead \/ (lostWrite /\ com0 = 1))
        BY <1>6 DEF Load!RegisterSetup, Load!ClearWarm
    <2>2. com0' \in {0, 1} /\ (~missed' => com0' = 0)
        BY <2>1 DEF Load!Read, Load!Write, Confirmed
    <2>3. dev' = dev /\ probePc = "power" /\ probePc' = "ilm"
        BY <1>6 DEF Load!RegisterSetup
    <2> QED
        BY <1>2, <2>2, <2>3 DEF Confirmed
<1>7. CASE \/ Load!FirmwareMissing \/ Load!UploadChunk \/ Load!UploadFails
           \/ Load!UploadDone \/ Load!PushIvb \/ Load!InitFails
    BY <1>7 DEF Load!FirmwareMissing, Load!UploadChunk, Load!UploadFails, Load!UploadDone,
                Load!PushIvb, Load!InitFails, Load!GiveUpLoad, Load!chip, Confirmed
<1>8. CASE Load!Boot
    BY <1>8 DEF Load!Boot, Confirmed
<1>9. CASE Load!ConfirmBoot
    BY <1>1, <1>9 DEF Load!ConfirmBoot, Load!GiveUpLoad, Load!chip, Confirmed
<1>10. ASSUME NEW macValid \in BOOLEAN, Load!InitPhase(macValid) PROVE Confirmed'
    <2>1. dev'.state = dev.state
        BY <1>10 DEF Load!InitPhase, InitInOrder, DevType
    <2>2. probePc = "init" /\ (probePc' = probePc \/ probePc' = "wiphy") /\ UNCHANGED <<bind, com0, mcu, missed>>
        BY <1>10 DEF Load!InitPhase, Load!chip
    <2> QED
        BY <2>1, <2>2 DEF Confirmed
<1>11. CASE Load!WiphyAlloc
    BY <1>3, <1>11 DEF Load!WiphyAlloc, Load!chip, Confirmed
<1>12. CASE Load!Register
    <2>1. dev'.state = "RUNNING"
        BY <1>12 DEF Load!Register, InitInOrder, DevType
    <2> QED
        BY <1>12, <2>1 DEF Load!Register, Load!chip, Confirmed
<1>13. ASSUME NEW did \in {{}, {"registered"}, {"registered", "netdev"}}, Load!RegisterFails(did)
       PROVE  Confirmed'
    BY <1>3, <1>13 DEF Load!RegisterFails, Load!chip, Confirmed
<1>14. CASE Load!Disconnect
    BY <1>3, <1>14 DEF Load!Disconnect, Load!chip, Confirmed
<1>15. CASE Load!Unplug
    BY <1>2, <1>15 DEF Load!Unplug, Confirmed
<1>16. CASE UNCHANGED Load!vars
    BY <1>16 DEF Load!vars, Confirmed
<1> QED
    BY <1>4, <1>5, <1>6, <1>7, <1>8, <1>9, <1>10, <1>11, <1>12, <1>13, <1>14, <1>15, <1>16
       DEF Load!Next

\* The MCU is started on the whole image of this load, and FW_LOADED means that this image
\* booted, unless an access of the register setup failed unnoticed (usb_load_firmware,
\* dma_fw).
THEOREM LoadCorrect == Load!BringUpConstants => (Load!Spec => []LoadInv)
<1> SUFFICES ASSUME Load!BringUpConstants
             PROVE  Load!Spec => []LoadInv
    OBVIOUS
<1> DEFINE IInv == UploadInd /\ Confirmed /\ InitInOrder
<1>1. Load!Init => IInv
    <2> SUFFICES ASSUME Load!Init PROVE IInv
        OBVIOUS
    <2>1. /\ probePc = "unbound" /\ bind = 0 /\ img = [ilm |-> 0, dlm |-> 0]
          /\ seg = [src |-> 0, dst |-> 0, left |-> 0] /\ dev = Load!NewDev /\ held = {}
          /\ com0 = 0
          /\ mem = [a \in Load!Addresses |-> Load!Unwritten]
        BY DEF Load!Init, Load!NoSeg
    <2>2. mem = [a \in Load!Addresses |-> mem[a]]
        BY <2>1
    <2>3. UploadInd
        BY <2>1, <2>2 DEF UploadInd, LoadFields, Uploaded
    <2>4. Confirmed
        BY <2>1, NewDevFresh DEF Confirmed
    <2>5. InitInOrder
        BY <2>1, NewDevFresh DEF InitInOrder
    <2> QED
        BY <2>3, <2>4, <2>5
<1>2. IInv /\ [Load!Next]_Load!vars => IInv'
    BY UploadStep, ConfirmedStep, InitInOrderStep
<1>3. IInv => LoadInv
    BY UploadedIsWhole DEF Confirmed, LoadInv, Load!LoadInv, Load!BootConfirmed
<1> QED
    BY <1>1, <1>2, <1>3, PTL DEF Load!Spec

=============================================================================
