--------------------------- MODULE ExchangeProofs ---------------------------
(***************************************************************************)
(* Theorems about the management exchanges: the Block Ack negotiation, SA  *)
(* Query, QoS admission control and fast BSS transition, for every number  *)
(* of requests, associations, identifiers and slots, every set of APs and  *)
(* every number of roams; and about the MCU commands of a channel change,  *)
(* for any number of callers, numbers and retries.                         *)
(***************************************************************************)
EXTENDS Exchanges, Integers, SequenceTheorems, FiniteSets, FiniteSetTheorems,
        WellFoundedInduction, TLAPS

-----------------------------------------------------------------------------
(* Block Ack.                                                              *)

BaStates == {"IDLE", "PENDING", "ESTABLISHED"}

\* The fields, and that every key of an end, of a frame and of an M3 is that of an
\* association made.
BaFields ==
    /\ foreign \in BOOLEAN
    /\ baLastSa \in 1..MaxSas
    /\ baKey \in [Ba!End -> 0..baLastSa]
    /\ offer \subseteq 0..baLastSa
    /\ ba \in [state : BaStates, tid : Tids \cup {0}, token : {0, 1}, buf : Nat]
    /\ ba.state # "IDLE" => ba.tid \in Tids /\ ba.buf # 0
    /\ ba.state = "PENDING" => ba.buf = Offer
    /\ baCount \in [txReq : Nat, ok : Nat]
    /\ baAir \subseteq Ba!Request \cup Ba!Response
    /\ \A f \in baAir : f.key \in 0..baLastSa

\* With this code's AP every frame and every agreement has the window of the
\* offer.
OneWindow == ~foreign => (\A f \in baAir : f.buf = Offer) /\ (ba.state # "IDLE" => ba.buf = Offer)

\* This code's AP answers under its present key what it has recorded: a request under
\* that key.
OwnApRecords ==
    ~foreign =>
        \A f \in baAir :
            f.type = "ADDBA_RSP" /\ f.key = baKey["ap"] /\ f.key # 0 =>
                /\ recip.is /\ recip.buf = Offer
                /\ \E g \in baAir : g.type = "ADDBA_REQ" /\ g.key = f.key /\ g.tid = recip.tid

BaInd == BaFields /\ OneWindow /\ OwnApRecords /\ Ba!EstablishedIsAccepted /\ Ba!AgreedOncePerRequest

\* The first association, without an agreement.
LEMMA BaInitial == Ba!BlockAckConstants /\ Ba!Init => BaInd
BY DEF Ba!BlockAckConstants, Ba!Init, BaInd, BaFields, BaStates, OneWindow, OwnApRecords,
       Ba!EstablishedIsAccepted, Ba!AgreedOncePerRequest, Ba!Idle, Ba!NoCounts, Ba!NoRecipient, Ba!End

\* A new request: no answer to it, or to any other one, is lost or made up.
LEMMA BaEstablishKeeps ==
    ASSUME Ba!BlockAckConstants, BaInd, NEW tid \in Tids, Ba!BaEstablish(tid)
    PROVE  BaInd'
<1> DEFINE r == [type |-> "ADDBA_REQ", key |-> baKey["sta"], token |-> 1, tid |-> tid, buf |-> Offer]
<1>1. /\ baAir' = baAir \cup {r}
      /\ ba' = [state |-> "PENDING", tid |-> tid, token |-> 1, buf |-> Offer]
      /\ baCount' = [baCount EXCEPT !.txReq = @ + 1]
      /\ UNCHANGED <<foreign, baKey, offer, baLastSa, agreed, recip>>
    BY DEF Ba!BaEstablish, Ba!saVars, Ba!Token
<1>2. r \in Ba!Request /\ r.key \in 0..baLastSa /\ r.buf = Offer /\ r.type = "ADDBA_REQ"
    BY DEF Ba!BlockAckConstants, Ba!Request, Ba!Token, Ba!End, BaInd, BaFields
<1> HIDE DEF r
<1>3. BaFields'
    BY <1>1, <1>2 DEF Ba!BlockAckConstants, BaInd, BaFields, BaStates
<1>4. OneWindow' /\ Ba!EstablishedIsAccepted' /\ Ba!AgreedOncePerRequest'
    BY <1>1, <1>2 DEF BaInd, BaFields, OneWindow, Ba!EstablishedIsAccepted, Ba!AgreedOncePerRequest
<1>5. OwnApRecords'
    BY <1>1, <1>2 DEF BaInd, OwnApRecords
<1> QED
    BY <1>3, <1>4, <1>5 DEF BaInd

\* An answer of the AP.
LEMMA ReplyKeeps ==
    ASSUME Ba!BlockAckConstants, BaInd, NEW f \in baAir, f.type = "ADDBA_REQ", Ba!Opens("ap", f),
           NEW status \in {"SUCCESS", "DECLINED"}, NEW buf \in Nat,
           baAir' = baAir \cup {Ba!Reply(f, status, buf)},
           UNCHANGED <<foreign, baKey, offer, baLastSa, ba, agreed, baCount>>,
           \/ foreign /\ recip' = recip
           \/ recip' = [is |-> TRUE, tid |-> f.tid, buf |-> f.buf] /\ buf = f.buf
    PROVE  BaInd'
<1> DEFINE r == Ba!Reply(f, status, buf)
<1>1. r \in Ba!Response /\ r.key = baKey["ap"] /\ r.buf = buf /\ r.type = "ADDBA_RSP"
    BY DEF Ba!Reply, Ba!Request, Ba!Response, Ba!Token, Ba!End, BaInd, BaFields
<1>2. baAir' = baAir \cup {r} /\ baKey["ap"] \in 0..baLastSa /\ f.key = baKey["ap"]
    BY DEF BaInd, BaFields, Ba!Opens, Ba!End
<1> HIDE DEF r
<1>3. BaFields'
    BY <1>1, <1>2 DEF BaInd, BaFields
<1>4. OneWindow' /\ Ba!EstablishedIsAccepted' /\ Ba!AgreedOncePerRequest'
    BY <1>1, <1>2 DEF BaInd, OneWindow, Ba!EstablishedIsAccepted, Ba!AgreedOncePerRequest
<1>5. OwnApRecords'
    <2>1. SUFFICES ASSUME ~foreign PROVE OwnApRecords'
        BY DEF OwnApRecords
    <2>2. recip'.is /\ recip'.buf = Offer /\ recip'.tid = f.tid
        BY <2>1 DEF BaInd, OneWindow
    <2>3. f \in baAir'
        BY <1>2
    <2> QED
        BY <1>2, <2>2, <2>3 DEF OwnApRecords
<1> QED
    BY <1>3, <1>4, <1>5 DEF BaInd

\* The STA takes an answer.
LEMMA StaOnAddbaRspKeeps ==
    ASSUME Ba!BlockAckConstants, BaInd, NEW f \in baAir, Ba!StaOnAddbaRsp(f)
    PROVE  BaInd'
<1>1. /\ f.type = "ADDBA_RSP" /\ f.key = baKey["sta"] /\ ba.state = "PENDING"
      /\ ba' = IF Ba!Matches(f) THEN Ba!Adopt(f) ELSE ba
      /\ baCount' = [baCount EXCEPT !.ok = IF ba'.state = "ESTABLISHED" THEN @ + 1 ELSE @]
      /\ agreed' = IF ba'.state = "ESTABLISHED" THEN baKey["sta"] ELSE agreed
      /\ UNCHANGED <<foreign, baKey, offer, baLastSa, recip, baAir>>
    BY DEF Ba!StaOnAddbaRsp, Ba!Opens, Ba!saVars
<1>2. OwnApRecords'
    BY <1>1 DEF BaInd, OwnApRecords
<1>3. ba \in [state : BaStates, tid : Tids \cup {0}, token : {0, 1}, buf : Nat] /\ ba.buf = Offer
      /\ ba.tid \in Tids /\ baCount \in [txReq : Nat, ok : Nat] /\ f \in Ba!Response
    BY <1>1 DEF BaInd, BaFields, Ba!Request, Ba!Response
<1>4. CASE ~Ba!Matches(f)
    <2>1. ba' = ba /\ baCount' = baCount
        BY <1>1, <1>3, <1>4
    <2>2. BaFields' /\ OneWindow'
        BY <1>1, <2>1 DEF BaInd, BaFields, OneWindow
    <2>3. Ba!EstablishedIsAccepted' /\ Ba!AgreedOncePerRequest'
        BY <1>1, <2>1 DEF BaInd, Ba!EstablishedIsAccepted, Ba!AgreedOncePerRequest
    <2> QED
        BY <1>2, <2>2, <2>3 DEF BaInd
<1>5. CASE Ba!Matches(f) /\ f.status # "SUCCESS"
    <2>1. ba' = [state |-> "IDLE", tid |-> ba.tid, token |-> ba.token, buf |-> ba.buf] /\ baCount' = baCount
        BY <1>1, <1>3, <1>5 DEF Ba!Adopt
    <2>2. BaFields' /\ OneWindow'
        BY <1>1, <1>3, <2>1 DEF BaInd, BaFields, BaStates, OneWindow
    <2>3. Ba!EstablishedIsAccepted' /\ Ba!AgreedOncePerRequest'
        BY <1>1, <1>3, <2>1 DEF BaInd, Ba!EstablishedIsAccepted, Ba!AgreedOncePerRequest
    <2> QED
        BY <1>2, <2>2, <2>3 DEF BaInd
<1>6. CASE Ba!Matches(f) /\ f.status = "SUCCESS"
    <2>1. /\ ba' = [state |-> "ESTABLISHED", tid |-> ba.tid, token |-> ba.token,
                    buf |-> IF f.buf # 0 THEN f.buf ELSE Offer]
          /\ agreed' = f.key /\ f.tid = ba.tid
        BY <1>1, <1>3, <1>6 DEF Ba!Adopt, Ba!Matches
    <2>2. baCount' = [txReq |-> baCount.txReq, ok |-> baCount.ok + 1]
        BY <1>1, <1>3, <2>1
    <2>3. f.buf \in Nat /\ Offer \in Nat \ {0}
        BY <1>3 DEF Ba!Response, Ba!BlockAckConstants
    <2>4. BaFields' /\ OneWindow'
        <3>1. BaFields'
            BY <1>1, <1>3, <2>1, <2>2, <2>3 DEF BaInd, BaFields, BaStates
        <3>2. OneWindow'
            BY <1>1, <2>1 DEF BaInd, OneWindow
        <3> QED
            BY <3>1, <3>2
    <2>5. Ba!AgreedOncePerRequest'
        BY <1>1, <1>3, <2>1, <2>2 DEF BaInd, Ba!AgreedOncePerRequest
    <2>6. Ba!EstablishedIsAccepted'
        BY <1>1, <1>6, <2>1, <2>3 DEF Ba!EstablishedIsAccepted
    <2> QED
        BY <1>2, <2>4, <2>5, <2>6 DEF BaInd
<1> QED
    BY <1>4, <1>5, <1>6

\* Initialisations of either end, a Deauth and a new association, under a new key.
LEMMA AssociationKeeps ==
    ASSUME Ba!BlockAckConstants, BaInd, NEW mfp \in BOOLEAN,
           Ba!SmeInitSta \/ Ba!SmeInitAp \/ Ba!Deauth \/ Ba!ApDerives(mfp) \/ Ba!StaJoins
    PROVE  BaInd'
<1>0. 0 \in 0..baLastSa
    BY DEF BaInd, BaFields, Ba!BlockAckConstants
<1>1. CASE Ba!SmeInitSta
    <2>1. baKey' \in [Ba!End -> 0..baLastSa] /\ offer' = {}
        BY <1>0, <1>1 DEF Ba!SmeInitSta, BaInd, BaFields
    <2>2. BaFields'
        BY <1>1, <2>1 DEF Ba!SmeInitSta, Ba!Idle, Ba!NoCounts, BaInd, BaFields, BaStates
    <2> QED
        BY <1>1, <2>2 DEF Ba!SmeInitSta, Ba!Idle, Ba!NoCounts, Ba!End, BaInd, BaFields, OneWindow,
                          OwnApRecords, Ba!EstablishedIsAccepted, Ba!AgreedOncePerRequest
<1>2. CASE Ba!SmeInitAp
    <2>1. baKey' \in [Ba!End -> 0..baLastSa]
        BY <1>0, <1>2 DEF Ba!SmeInitAp, BaInd, BaFields
    <2>2. BaFields'
        BY <1>2, <2>1 DEF Ba!SmeInitAp, BaInd, BaFields
    <2>3. OwnApRecords'
        BY <1>2 DEF Ba!SmeInitAp, Ba!End, BaInd, BaFields, OwnApRecords
    <2> QED
        BY <1>2, <2>2, <2>3 DEF Ba!SmeInitAp, BaInd, OneWindow, Ba!EstablishedIsAccepted,
                                Ba!AgreedOncePerRequest
<1>3. CASE Ba!Deauth
    BY <1>3 DEF Ba!Deauth, BaInd, BaFields, OneWindow, OwnApRecords, Ba!EstablishedIsAccepted,
                Ba!AgreedOncePerRequest
<1>4. CASE Ba!ApDerives(mfp)
    <2>1. baLastSa' = baLastSa + 1 /\ baLastSa' \in 1..MaxSas
          /\ baKey'["ap"] \in {0, baLastSa + 1} /\ baKey' \in [Ba!End -> 0..baLastSa']
          /\ offer' = {baKey'["ap"]}
          /\ UNCHANGED <<foreign, ba, agreed, baCount, recip, baAir>>
        BY <1>4 DEF Ba!ApDerives, Ba!BlockAckConstants, Ba!End, BaInd, BaFields
    <2>2. BaFields'
        BY <2>1 DEF BaInd, BaFields
    <2>3. OwnApRecords'
        BY <2>1 DEF BaInd, BaFields, OwnApRecords
    <2> QED
        BY <2>1, <2>2, <2>3 DEF BaInd, OneWindow, Ba!EstablishedIsAccepted, Ba!AgreedOncePerRequest
<1>5. CASE Ba!StaJoins
    <2>1. baKey' \in [Ba!End -> 0..baLastSa] /\ baKey'["ap"] = baKey["ap"] /\ offer' = {}
          /\ UNCHANGED <<foreign, baLastSa, ba, agreed, baCount, recip, baAir>>
        BY <1>5 DEF Ba!StaJoins, Ba!End, BaInd, BaFields
    <2>2. BaFields'
        BY <2>1 DEF BaInd, BaFields
    <2> QED
        BY <2>1, <2>2 DEF BaInd, OneWindow, OwnApRecords, Ba!EstablishedIsAccepted,
                          Ba!AgreedOncePerRequest
<1> QED
    BY <1>1, <1>2, <1>3, <1>4, <1>5

\* What a step of the exchange may do to the invariant, action by action.
LEMMA BaStep ==
    ASSUME Ba!BlockAckConstants, BaInd, [Ba!Next]_Ba!vars
    PROVE  BaInd'
<1>1. ASSUME NEW tid \in Tids, Ba!BaEstablish(tid) PROVE BaInd'
    BY <1>1, BaEstablishKeeps
<1>2. ASSUME NEW f \in baAir, Ba!ApOnAddbaReq(f) PROVE BaInd'
    <2>1. f.buf \in Nat
        BY DEF BaInd, BaFields, Ba!Request, Ba!Response
    <2> QED
        BY <1>2, <2>1, ReplyKeeps DEF Ba!ApOnAddbaReq, Ba!saVars
<1>3. ASSUME NEW f \in baAir, NEW buf \in Windows, Ba!ForeignAnswer(f, buf) PROVE BaInd'
    <2>1. buf \in Nat
        BY DEF Ba!BlockAckConstants
    <2>2. /\ f.type = "ADDBA_REQ" /\ Ba!Opens("ap", f) /\ foreign /\ recip' = recip
          /\ baAir' = baAir \cup {Ba!Reply(f, "SUCCESS", buf)}
          /\ UNCHANGED <<foreign, baKey, offer, baLastSa, ba, agreed, baCount>>
        BY <1>3 DEF Ba!ForeignAnswer, Ba!saVars
    <2> QED
        BY <2>1, <2>2, ReplyKeeps
<1>4. ASSUME NEW f \in baAir, Ba!ForeignDecline(f) PROVE BaInd'
    <2>1. f.buf \in Nat
        BY DEF BaInd, BaFields, Ba!Request, Ba!Response
    <2> QED
        BY <1>4, <2>1, ReplyKeeps DEF Ba!ForeignDecline, Ba!saVars
<1>5. ASSUME NEW f \in baAir, Ba!StaOnAddbaRsp(f) PROVE BaInd'
    BY <1>5, StaOnAddbaRspKeeps
<1>6. ASSUME NEW mfp \in BOOLEAN,
             Ba!SmeInitSta \/ Ba!SmeInitAp \/ Ba!Deauth \/ Ba!ApDerives(mfp) \/ Ba!StaJoins
      PROVE  BaInd'
    BY <1>6, AssociationKeeps
<1>7. CASE UNCHANGED Ba!vars
    BY <1>7 DEF Ba!vars, BaInd, BaFields, OneWindow, OwnApRecords, Ba!EstablishedIsAccepted,
                Ba!AgreedOncePerRequest
<1> QED
    BY <1>1, <1>2, <1>3, <1>4, <1>5, <1>6, <1>7 DEF Ba!Next

\* What the invariant says of the agreement in use.
LEMMA BaInvFollows == Ba!BlockAckConstants /\ BaInd => BlockAckInv
<1> SUFFICES ASSUME Ba!BlockAckConstants, BaInd PROVE BlockAckInv
    OBVIOUS
<1>1. Ba!TypeOK
    <2>1. baKey \in [Ba!End -> 0..MaxSas]
        <3>1. 0..baLastSa \subseteq 0..MaxSas
            BY DEF BaInd, BaFields, Ba!BlockAckConstants
        <3> QED
            BY <3>1 DEF BaInd, BaFields
    <2> QED
        BY <2>1 DEF BaInd, BaFields, BaStates, Ba!TypeOK
<1>2. Ba!RecipientKnows
    <2>1. SUFFICES ASSUME ~foreign, ba.state = "ESTABLISHED", agreed = baKey["ap"], agreed # 0
                   PROVE  /\ recip.is /\ recip.buf = ba.buf
                          /\ Ba!AskedOnlyFor(ba.tid, agreed) => recip.tid = ba.tid
        BY DEF Ba!RecipientKnows
    <2>2. PICK f \in baAir : f.type = "ADDBA_RSP" /\ f.key = agreed
        BY <2>1 DEF BaInd, Ba!EstablishedIsAccepted
    <2>3. /\ recip.is /\ recip.buf = Offer /\ ba.buf = Offer
          /\ \E g \in baAir : g.type = "ADDBA_REQ" /\ g.key = agreed /\ g.tid = recip.tid
        BY <2>1, <2>2 DEF BaInd, OneWindow, OwnApRecords
    <2> QED
        BY <2>3 DEF Ba!AskedOnlyFor
<1> QED
    BY <1>1, <1>2 DEF BaInd, BlockAckInv, Ba!BlockAckInv

\* Through late, repeated, declined and mismatched answers, initialisations of one end
\* and associations that begin with an old agreement, an ESTABLISHED agreement is one
\* its responder accepted, it counts once, and while this code's AP has the key it was
\* made under, it is on record there: in its window, and for its TID if no other one
\* was asked for (rf_2a4m1_ba_originator_on_addba_rsp, rf_2a4m1_ba_ap_on_addba_req).
THEOREM BlockAckCorrect == Ba!BlockAckConstants => (Ba!Spec => []BlockAckInv)
<1> SUFFICES ASSUME Ba!BlockAckConstants PROVE Ba!Spec => []BlockAckInv
    OBVIOUS
<1>1. Ba!Init => BaInd
    BY BaInitial
<1>2. BaInd /\ [Ba!Next]_Ba!vars => BaInd'
    BY BaStep
<1>3. BaInd => BlockAckInv
    BY BaInvFollows
<1> QED
    BY <1>1, <1>2, <1>3, PTL DEF Ba!Spec

-----------------------------------------------------------------------------
(* SA Query.                                                               *)

QueryStates == {"IDLE", "PENDING", "ANSWERED", "TIMEOUT"}

\* The fields: a frame belongs to an association and a transaction that were begun.
SaFields ==
    /\ apSa \in 0..MaxSas
    /\ staSa \in 0..MaxSas
    /\ lastSa \in 0..MaxSas
    /\ apSa <= lastSa
    /\ staSa <= lastSa
    /\ q \in [state : QueryStates, tid : 0..(TidSpace - 1), next : 1..(TidSpace - 1),
              retries : Nat, elapsed : Nat]
    /\ count \in [comebacks : Nat, resolved : Nat]
    /\ serial \in Nat
    /\ sends \in Nat
    /\ saAir \subseteq Sa!Frame
    /\ \A f \in saAir : f.sa \in 1..lastSa /\ f.of \in 1..serial /\ f.tid \in 1..(TidSpace - 1)

\* An AP without a query has sent no request on its association, and one without an
\* association has no query.
QueryBegun ==
    /\ apSa = 0 => q.state = "IDLE"
    /\ q.state = "IDLE" => q = Sa!Fresh /\ \A f \in saAir : f.sa # apSa
    /\ q.state # "IDLE" => q.tid # 0 /\ q.next = Sa!NextTid(q.tid) /\ serial # 0

\* The identifier runs ahead of that of an older frame of the association by the number of
\* transactions between them, less one turn of the identifiers when it has wrapped.
TidDistance ==
    \A f \in saAir : f.sa = apSa =>
        \/ serial - f.of >= TidSpace - 1
        \/ q.tid = f.tid + (serial - f.of)
        \/ q.tid = f.tid + (serial - f.of) - (TidSpace - 1)

\* The retries spent are the requests sent.
BudgetSpent == q.state = "PENDING" => sends = q.retries /\ q.retries <= MaxRetries

SaInd ==
    /\ SaFields
    /\ QueryBegun
    /\ TidDistance
    /\ BudgetSpent
    /\ Sa!FreshAnswer
    /\ Sa!TimeoutAfterBudget
    /\ Sa!ResolvedOnce

\* Identifiers count up and skip 0 when they wrap.
LEMMA NextTidCounts ==
    ASSUME Sa!SaQueryConstants, NEW t \in 1..(TidSpace - 1)
    PROVE  Sa!NextTid(t) = IF t = TidSpace - 1 THEN 1 ELSE t + 1
BY DEF Sa!SaQueryConstants, Sa!NextTid

\* No query is open at first.
LEMMA SaInitial == Sa!SaQueryConstants /\ Sa!Init => SaInd
BY DEF Sa!SaQueryConstants, Sa!Init, SaInd, SaFields, QueryStates, QueryBegun, TidDistance,
       BudgetSpent, Sa!FreshAnswer, Sa!TimeoutAfterBudget, Sa!ResolvedOnce, Sa!Fresh, Sa!NoCounts

\* A new transaction takes the next identifier: every older frame falls one further behind.
LEMMA SpuriousReassocKeeps ==
    ASSUME Sa!SaQueryConstants, SaInd, Sa!SpuriousReassoc
    PROVE  SaInd'
<1> USE DEF Sa!SaQueryConstants, SaInd, SaFields, QueryStates, Sa!Frame, Sa!NoSa
<1> DEFINE g == [action |-> "REQUEST", sa |-> apSa, tid |-> q.next, of |-> serial + 1]
<1>1. /\ apSa # 0
      /\ q' = [state |-> "PENDING", tid |-> q.next, next |-> Sa!NextTid(q.next),
               retries |-> 1, elapsed |-> 0]
      /\ count' = [comebacks |-> count.comebacks + 1, resolved |-> count.resolved]
      /\ serial' = serial + 1
      /\ sends' = 1
      /\ saAir' = saAir \cup {g}
      /\ UNCHANGED <<apSa, staSa, lastSa>>
    BY DEF Sa!SpuriousReassoc, Sa!Request
<1>2. g \in Sa!Frame /\ g.sa = apSa /\ g.tid = q.next /\ g.of = serial + 1
    OBVIOUS
<1> HIDE DEF g
<1>3. Sa!NextTid(q.next) \in 1..(TidSpace - 1)
    BY NextTidCounts
<1>4. SaFields'
    BY <1>1, <1>2, <1>3
<1>5. QueryBegun'
    BY <1>1 DEF QueryBegun
<1>6. TidDistance'
    <2> SUFFICES ASSUME NEW f \in saAir', f.sa = apSa'
                 PROVE  \/ serial' - f.of >= TidSpace - 1
                        \/ q'.tid = f.tid + (serial' - f.of)
                        \/ q'.tid = f.tid + (serial' - f.of) - (TidSpace - 1)
        BY DEF TidDistance
    <2>1. CASE f = g
        BY <1>1, <1>2, <2>1
    <2>2. CASE f \in saAir
        <3>1. q.state # "IDLE" /\ q.tid \in 1..(TidSpace - 1)
            BY <1>1, <2>2 DEF QueryBegun
        <3>2. q'.tid = IF q.tid = TidSpace - 1 THEN 1 ELSE q.tid + 1
            BY <1>1, <3>1, NextTidCounts DEF QueryBegun
        <3>3. f.tid \in 1..(TidSpace - 1) /\ f.of \in 1..serial
            BY <2>2
        <3>4. \/ serial - f.of >= TidSpace - 1
              \/ q.tid = f.tid + (serial - f.of)
              \/ q.tid = f.tid + (serial - f.of) - (TidSpace - 1)
            BY <1>1, <2>2 DEF TidDistance
        <3> HIDE DEF SaInd
        <3>5. serial' = serial + 1 /\ serial \in Nat /\ TidSpace \in Nat
            BY <1>1 DEF SaInd
        <3> QED
            BY <3>1, <3>2, <3>3, <3>4, <3>5
    <2> QED
        BY <1>1, <2>1, <2>2
<1>7. BudgetSpent' /\ Sa!FreshAnswer' /\ Sa!TimeoutAfterBudget' /\ Sa!ResolvedOnce'
    BY <1>1 DEF BudgetSpent, Sa!FreshAnswer, Sa!TimeoutAfterBudget, Sa!ResolvedOnce
<1> QED
    BY <1>4, <1>5, <1>6, <1>7

\* A retransmission keeps its identifier and its transaction.
LEMMA TickKeeps ==
    ASSUME Sa!SaQueryConstants, SaInd, Sa!Tick
    PROVE  SaInd'
<1> USE DEF Sa!SaQueryConstants, SaInd, SaFields, QueryStates, Sa!Frame, Sa!NoSa
<1>1. apSa # 0 /\ q.state = "PENDING" /\ UNCHANGED <<apSa, staSa, lastSa, count, serial>>
    BY DEF Sa!Tick
<1>2. CASE /\ q' = [q EXCEPT !.elapsed = @ + 1]
           /\ UNCHANGED <<saAir, sends>>
    <2>1. /\ q'.state = "PENDING" /\ q'.tid = q.tid /\ q'.next = q.next
          /\ q'.retries = q.retries
        BY <1>1, <1>2
    <2>2. SaFields'
        BY <1>1, <1>2
    <2> QED
        BY <1>1, <1>2, <2>1, <2>2 DEF QueryBegun, TidDistance, BudgetSpent, Sa!FreshAnswer,
                                      Sa!TimeoutAfterBudget, Sa!ResolvedOnce, Sa!NextTid
<1>3. CASE /\ q.retries >= MaxRetries
           /\ q' = [q EXCEPT !.elapsed = 0, !.state = "TIMEOUT"]
           /\ UNCHANGED <<saAir, sends>>
    <2>1. q'.state = "TIMEOUT" /\ q'.tid = q.tid /\ q'.next = q.next
        BY <1>1, <1>3
    <2>2. SaFields'
        BY <1>1, <1>3
    <2>3. Sa!TimeoutAfterBudget'
        BY <1>1, <1>3 DEF BudgetSpent, Sa!TimeoutAfterBudget
    <2> QED
        BY <1>1, <1>3, <2>1, <2>2, <2>3 DEF QueryBegun, TidDistance, BudgetSpent,
                                            Sa!FreshAnswer, Sa!ResolvedOnce, Sa!NextTid
<1>4. CASE /\ ~(q.retries >= MaxRetries)
           /\ q' = [q EXCEPT !.elapsed = 0, !.retries = @ + 1]
           /\ saAir' = saAir \cup {Sa!Request(q.tid, serial)}
           /\ sends' = sends + 1
    <2> DEFINE g == [action |-> "REQUEST", sa |-> apSa, tid |-> q.tid, of |-> serial]
    <2>1. serial >= 1 /\ q.tid # 0
        BY <1>1 DEF QueryBegun
    <2>2. g \in Sa!Frame /\ g.sa = apSa /\ g.tid = q.tid /\ g.of = serial
        BY <1>1
    <2>3. saAir' = saAir \cup {g}
        BY <1>4 DEF Sa!Request
    <2> HIDE DEF g
    <2>4. SaFields'
        <3>1. q' \in [state : QueryStates, tid : 0..(TidSpace - 1), next : 1..(TidSpace - 1),
                      retries : Nat, elapsed : Nat]
            <4>1. q' = [state |-> q.state, tid |-> q.tid, next |-> q.next,
                        retries |-> q.retries + 1, elapsed |-> 0]
                BY <1>4
            <4>2. q.retries + 1 \in Nat
                OBVIOUS
            <4> QED
                BY <4>1, <4>2
        <3>2. g.sa \in 1..lastSa /\ g.of \in 1..serial /\ g.tid \in 1..(TidSpace - 1)
            BY <1>1, <2>1, <2>2
        <3> QED
            BY <1>1, <1>4, <2>2, <2>3, <3>1, <3>2
    <2>5. QueryBegun' /\ BudgetSpent'
        BY <1>1, <1>4 DEF QueryBegun, BudgetSpent
    <2>6. TidDistance'
        BY <1>1, <1>4, <2>2, <2>3 DEF TidDistance
    <2>7. Sa!FreshAnswer' /\ Sa!TimeoutAfterBudget' /\ Sa!ResolvedOnce'
        BY <1>1, <1>4 DEF Sa!FreshAnswer, Sa!TimeoutAfterBudget, Sa!ResolvedOnce
    <2> QED
        BY <2>4, <2>5, <2>6, <2>7
<1> QED
    BY <1>2, <1>3, <1>4 DEF Sa!Tick

\* Every step of SA Query keeps its invariant.
LEMMA SaStep ==
    ASSUME Sa!SaQueryConstants, SaInd, [Sa!Next]_Sa!vars
    PROVE  SaInd'
<1> USE DEF Sa!SaQueryConstants, SaInd, SaFields, QueryStates, Sa!Frame, Sa!NoSa
<1>1. ASSUME NEW f \in saAir, Sa!StaRxRequest(f) PROVE SaInd'
    <2> DEFINE g == [f EXCEPT !.action = "RESPONSE", !.sa = staSa]
    <2>1. /\ f.sa = staSa
          /\ saAir' = saAir \cup {g}
          /\ UNCHANGED <<apSa, staSa, lastSa, q, count, serial, sends>>
        BY <1>1 DEF Sa!StaRxRequest, Sa!Opens
    <2>2. g \in Sa!Frame /\ g.sa = f.sa /\ g.tid = f.tid /\ g.of = f.of
        BY <2>1
    <2> HIDE DEF g
    <2>3. SaFields'
        BY <2>1, <2>2
    <2>4. QueryBegun' /\ TidDistance'
        BY <2>1, <2>2 DEF QueryBegun, TidDistance, Sa!NextTid, Sa!Fresh
    <2>5. BudgetSpent' /\ Sa!FreshAnswer' /\ Sa!TimeoutAfterBudget' /\ Sa!ResolvedOnce'
        BY <2>1 DEF BudgetSpent, Sa!FreshAnswer, Sa!TimeoutAfterBudget, Sa!ResolvedOnce
    <2> QED
        BY <2>3, <2>4, <2>5
<1>2. ASSUME NEW f \in saAir, Sa!ApRxResponse(f) PROVE SaInd'
    <2>1. /\ f.action = "RESPONSE" /\ f.sa = apSa /\ apSa # 0
          /\ q.state = "PENDING" /\ f.tid = q.tid
          /\ q' = [q EXCEPT !.state = "ANSWERED"]
          /\ count' = [count EXCEPT !.resolved = @ + 1]
          /\ UNCHANGED <<apSa, staSa, lastSa, saAir, serial, sends>>
        BY <1>2 DEF Sa!ApRxResponse, Sa!Opens, Sa!Answers
    <2>2. SaFields'
        BY <2>1
    <2>3. QueryBegun' /\ TidDistance' /\ BudgetSpent' /\ Sa!TimeoutAfterBudget'
        BY <2>1 DEF QueryBegun, TidDistance, BudgetSpent, Sa!TimeoutAfterBudget
    <2>4. Sa!FreshAnswer'
        <3>1. f.of = serial \/ serial - f.of >= TidSpace - 1
            BY <2>1 DEF TidDistance
        <3> QED
            BY <2>1, <3>1 DEF Sa!FreshAnswer
    <2>5. Sa!ResolvedOnce'
        BY <2>1 DEF Sa!ResolvedOnce
    <2> QED
        BY <2>2, <2>3, <2>4, <2>5
<1> USE DEF QueryBegun, TidDistance, BudgetSpent, Sa!FreshAnswer, Sa!TimeoutAfterBudget,
            Sa!ResolvedOnce
<1>3. CASE Sa!StaInit
    BY <1>3 DEF Sa!StaInit
<1>4. CASE Sa!ApInit
    BY <1>4 DEF Sa!ApInit, Sa!Fresh, Sa!NoCounts
<1>5. CASE Sa!Join
    BY <1>5 DEF Sa!Join
<1>6. CASE UNCHANGED Sa!vars
    BY <1>6 DEF Sa!vars
<1> HIDE DEF SaInd
<1> QED
    BY <1>1, <1>2, <1>3, <1>4, <1>5, <1>6, SpuriousReassocKeeps, TickKeeps DEF Sa!Next

\* Through losses, retransmissions, restarts, late answers and new associations a query is
\* resolved once, by an answer to it or to one a whole turn of the identifiers older, and
\* it times out only after its whole budget (rf_2a4m1_pmf_sa_query_on_response, _tick).
THEOREM SaQueryCorrect == Sa!SaQueryConstants => (Sa!Spec => []SaQueryInv)
<1> SUFFICES ASSUME Sa!SaQueryConstants PROVE Sa!Spec => []SaQueryInv
    OBVIOUS
<1>1. Sa!Init => SaInd
    BY SaInitial
<1>2. SaInd /\ [Sa!Next]_Sa!vars => SaInd'
    BY SaStep
<1>3. SaInd => SaQueryInv
    BY DEF SaInd, SaFields, QueryStates, QueryBegun, SaQueryInv, Sa!SaQueryInv, Sa!TypeOK
<1> QED
    BY <1>1, <1>2, <1>3, PTL DEF Sa!Spec

-----------------------------------------------------------------------------
(* Admission control.                                                    *)

\* A non-empty set of slots has a first one.
LEMMA FirstSlot ==
    ASSUME NEW S, S \subseteq Nat, S # {}
    PROVE  Adm!Min(S) \in S
<1>1. \E x \in S : \A y \in S : ~(<<y, x>> \in OpToRel(<, Nat))
    BY NatLessThanWellFounded, WFMin, Zenon
<1>2. ASSUME NEW x \in Nat, NEW y \in Nat, y < x PROVE <<y, x>> \in OpToRel(<, Nat)
    <2>1. <<y, x>> \in Nat \X Nat /\ <<y, x>>[1] < <<y, x>>[2]
        BY <1>2
    <2> QED
        BY <2>1, Zenon DEF OpToRel
<1>3. \E R : /\ \E x \in S : \A y \in S : ~(<<y, x>> \in R)
             /\ \A x \in Nat, y \in Nat : y < x => <<y, x>> \in R
    BY <1>1, <1>2, Zenon
<1>4. PICK R : /\ \E x \in S : \A y \in S : ~(<<y, x>> \in R)
               /\ \A x \in Nat, y \in Nat : y < x => <<y, x>> \in R
    BY <1>3
<1>5. PICK x \in S : \A y \in S : ~(<<y, x>> \in R)
    BY <1>4
<1>6. \A y \in S : ~(y < x)
    BY <1>4, <1>5
<1>7. \A y \in S : x <= y
    BY <1>6
<1> QED
    BY <1>7 DEF Adm!Min

\* A number below the modulus is its own remainder.
LEMMA SmallMod ==
    ASSUME NEW n \in Nat, NEW w \in Nat, n < w
    PROVE  n % w = n
OBVIOUS

\* The instance counts as FiniteSets does.
LEMMA AdmCardinality == \A S : Adm!Cardinality(S) = Cardinality(S)
BY DEF Adm!Cardinality, Cardinality

\* The units of airtime in one table, as Airtime counts them, and those of one slot.
Units(t, ac) == UNION {{i} \X (1..t[i].mt) : i \in {j \in 1..Slots : t[j].inUse /\ t[j].ac = ac}}
Column(i, m) == {i} \X (1..m)

\* A slot's medium time, as a set of units.
LEMMA ColumnSize ==
    ASSUME NEW i, NEW m \in Nat
    PROVE  IsFiniteSet(Column(i, m)) /\ Cardinality(Column(i, m)) = m
<1> DEFINE f == [k \in 1..m |-> <<i, k>>]
<1>1. f \in Bijection(1..m, Column(i, m))
    <2>1. f \in [1..m -> Column(i, m)]
        BY DEF Column
    <2>2. \A k, l \in 1..m : f[k] = f[l] => k = l
        OBVIOUS
    <2>3. \A p \in Column(i, m) : \E k \in 1..m : f[k] = p
        <3>1. ASSUME NEW p \in Column(i, m) PROVE \E k \in 1..m : f[k] = p
            <4>1. p = <<i, p[2]>> /\ p[2] \in 1..m
                BY DEF Column
            <4> QED
                BY <4>1
        <3> QED
            BY <3>1
    <2> HIDE DEF f
    <2> QED
        BY <2>1, <2>2, <2>3 DEF Bijection, Injection, Surjection, IsInjective
<1>2. IsFiniteSet(1..m) /\ Cardinality(1..m) = m
    BY FS_Interval
<1> QED
    BY <1>1, <1>2, FS_Bijection DEF ExistsBijection

\* A unit of an AC belongs to a slot in use by a stream of that AC.
LEMMA UnitsAre ==
    ASSUME NEW t, NEW ac, NEW p
    PROVE  p \in Units(t, ac) <=>
             \E i \in 1..Slots : t[i].inUse /\ t[i].ac = ac /\ p \in Column(i, t[i].mt)
BY DEF Units, Column

\* A stream put into a free slot adds its airtime to its own AC.
LEMMA UnitsPut ==
    ASSUME NEW t, NEW u, NEW s \in 1..Slots, \A i \in (1..Slots) \ {s} : u[i] = t[i],
           ~t[s].inUse, u[s].inUse, u[s].mt \in Nat, NEW ac, IsFiniteSet(Units(t, ac))
    PROVE  /\ IsFiniteSet(Units(u, ac))
           /\ Cardinality(Units(u, ac))
                = Cardinality(Units(t, ac)) + (IF u[s].ac = ac THEN u[s].mt ELSE 0)
<1> DEFINE new == Column(s, u[s].mt)
<1>1. IsFiniteSet(new) /\ Cardinality(new) = u[s].mt
    BY ColumnSize
<1>2. Cardinality(Units(t, ac)) \in Nat /\ Cardinality({}) = 0
    BY FS_CardinalityType, FS_EmptySet
<1>3. ASSUME NEW p \in Units(t, ac) PROVE p \in Units(u, ac) /\ p \notin new
    <2>1. PICK i \in 1..Slots : t[i].inUse /\ t[i].ac = ac /\ p \in Column(i, t[i].mt)
        BY <1>3, UnitsAre
    <2>2. i # s /\ u[i] = t[i]
        BY <2>1
    <2>3. p \in Units(u, ac)
        BY <2>1, <2>2, UnitsAre
    <2>4. p \notin new
        BY <2>1, <2>2 DEF Column
    <2> QED
        BY <2>3, <2>4
<1>4. ASSUME NEW p \in Units(u, ac) PROVE p \in Units(t, ac) \/ (u[s].ac = ac /\ p \in new)
    <2>1. PICK i \in 1..Slots : u[i].inUse /\ u[i].ac = ac /\ p \in Column(i, u[i].mt)
        BY <1>4, UnitsAre
    <2>2. CASE i = s
        BY <2>1, <2>2
    <2>3. CASE i # s
        <3>1. u[i] = t[i]
            BY <2>3
        <3> QED
            BY <2>1, <3>1, UnitsAre
    <2> QED
        BY <2>2, <2>3
<1>5. CASE u[s].ac = ac
    <2>1. \A p \in new : p \in Units(u, ac)
        BY <1>5, UnitsAre
    <2> HIDE DEF new
    <2>2. Units(u, ac) = Units(t, ac) \cup new /\ Units(t, ac) \cap new = {}
        BY <1>3, <1>4, <2>1
    <2>3. /\ IsFiniteSet(Units(t, ac) \cup new)
          /\ Cardinality(Units(t, ac) \cup new)
               = Cardinality(Units(t, ac)) + Cardinality(new) - Cardinality(Units(t, ac) \cap new)
        BY <1>1, FS_Union
    <2>4. IsFiniteSet(Units(u, ac))
        BY <2>2, <2>3
    <2>5. Cardinality(Units(u, ac)) = Cardinality(Units(t, ac)) + Cardinality(new) - Cardinality({})
        BY <2>2, <2>3, Zenon
    <2>6. Cardinality(Units(u, ac)) = Cardinality(Units(t, ac)) + u[s].mt
        BY <1>1, <1>2, <2>5
    <2> QED
        BY <1>5, <2>4, <2>6
<1>6. CASE u[s].ac # ac
    <2>1. Units(u, ac) = Units(t, ac)
        BY <1>3, <1>4, <1>6
    <2> QED
        BY <1>2, <1>6, <2>1
<1> QED
    BY <1>5, <1>6

\* A slot that is freed gives its airtime back to its AC.
LEMMA UnitsTake ==
    ASSUME NEW t, NEW u, NEW s \in 1..Slots, \A i \in (1..Slots) \ {s} : u[i] = t[i],
           t[s].inUse, t[s].mt \in Nat, ~u[s].inUse, NEW ac, IsFiniteSet(Units(t, ac))
    PROVE  /\ IsFiniteSet(Units(u, ac))
           /\ Cardinality(Units(t, ac))
                = Cardinality(Units(u, ac)) + (IF t[s].ac = ac THEN t[s].mt ELSE 0)
<1>1. Units(u, ac) \in SUBSET Units(t, ac)
    <2>1. ASSUME NEW p \in Units(u, ac) PROVE p \in Units(t, ac)
        <3>1. PICK i \in 1..Slots : u[i].inUse /\ u[i].ac = ac /\ p \in Column(i, u[i].mt)
            BY <2>1, UnitsAre
        <3>2. u[i] = t[i]
            BY <3>1
        <3> QED
            BY <3>1, <3>2, UnitsAre
    <2> QED
        BY <2>1
<1>2. IsFiniteSet(Units(u, ac))
    BY <1>1, FS_Subset
<1>3. \A i \in (1..Slots) \ {s} : t[i] = u[i]
    OBVIOUS
<1> QED
    BY <1>2, <1>3, UnitsPut


-----------------------------------------------------------------------------

Airtimes == \A n \in Adm!Node, ac \in Adm!Acs :
    IsFiniteSet(Units(ts[n], ac)) /\ acTotal[n][ac] = Cardinality(Units(ts[n], ac))

\* No limit and no total reaches the modulus of the counters.
LimitsFit == \A n \in Adm!Node, ac \in Adm!Acs : acLimit[n][ac] < Word
TotalsFit == \A n \in Adm!Node, ac \in Adm!Acs : acTotal[n][ac] < Word

\* What crosses the air names an AC under admission control, and what an admitting answer
\* names was granted.
AirBacked ==
    \A f \in admAir :
        /\ f.type \in {"ADDTS_REQ", "ADDTS_RSP"} => Adm!UpToAc(f.tspec.prio) \in Adm!Acs
        /\ f.type = "ADDTS_RSP" /\ f.status = "ADMITTED" => f.tspec \in granted

OneSlot ==
    \A n \in Adm!Node, i, j \in 1..Slots :
        ts[n][i].inUse /\ ts[n][j].inUse /\ ts[n][i].tsid = ts[n][j].tsid => i = j

AdmInd ==
    Adm!TypeOK /\ Airtimes /\ LimitsFit /\ TotalsFit /\ AirBacked /\ OneSlot /\ Adm!GrantBacked

\* What the tables of Adm!Admit become: one free slot of one node is taken.
LEMMA AdmitKeeps ==
    ASSUME Adm!AdmissionConstants, Adm!TypeOK, Airtimes, LimitsFit, TotalsFit, OneSlot,
           NEW n \in Adm!Node, NEW t \in Adm!Tspec, Adm!UpToAc(t.prio) \in Adm!Acs, Adm!Admit(n, t)
    PROVE  /\ ts' \in [Adm!Node -> [1..Slots -> Adm!Entry]]
           /\ acTotal' \in [Adm!Node -> [Adm!Acs -> Nat]]
           /\ Airtimes' /\ TotalsFit' /\ OneSlot'
           /\ \A m \in Adm!Node, ac \in Adm!Acs :
                acTotal'[m][ac] > acTotal[m][ac] => acTotal'[m][ac] <= acLimit[m][ac]
           /\ \A m \in Adm!Node, i \in 1..Slots :
                \/ ts'[m][i] = ts[m][i]
                \/ m = n /\ ts'[m][i] = [inUse |-> TRUE, tsid |-> t.tsid, ac |-> Adm!UpToAc(t.prio),
                                         mt |-> t.mt]
<1> DEFINE ac0 == Adm!UpToAc(t.prio)
           e == [inUse |-> TRUE, tsid |-> t.tsid, ac |-> ac0, mt |-> t.mt]
<1>1. CASE Adm!AdmitResult(n, t) # "OK"
    BY <1>1 DEF Adm!Admit, Adm!TypeOK, Airtimes, TotalsFit, OneSlot
<1>2. CASE Adm!AdmitResult(n, t) = "OK"
    <2> DEFINE slot == Adm!Min(Adm!FreeSlots(n))
    <2>1. /\ Adm!Holding(n, t.tsid) = {} /\ t.mt <= Adm!Room(n, ac0) /\ Adm!FreeSlots(n) # {}
          /\ t.mt \in Nat /\ t.tsid \in Tsids
        BY <1>2 DEF Adm!AdmitResult, Adm!Tspec, Adm!Room, Adm!TypeOK
    <2>2. slot \in 1..Slots /\ ~ts[n][slot].inUse
        <3>1. Adm!FreeSlots(n) \subseteq Nat
            BY DEF Adm!FreeSlots
        <3>2. slot \in Adm!FreeSlots(n)
            BY <2>1, <3>1, FirstSlot
        <3> QED
            BY <3>2 DEF Adm!FreeSlots
    <2>3. /\ ts' = [ts EXCEPT ![n][slot] = e]
          /\ acTotal' = [acTotal EXCEPT ![n][ac0] = (@ + t.mt) % Word]
        BY <1>2 DEF Adm!Admit
    <2>4. /\ e \in Adm!Entry /\ e.inUse = TRUE /\ e.tsid = t.tsid /\ e.ac = ac0 /\ e.mt = t.mt
        BY <2>1 DEF Adm!Entry
    <2> HIDE DEF slot, e, ac0
    <2>5. /\ ts \in [Adm!Node -> [1..Slots -> Adm!Entry]]
          /\ acTotal \in [Adm!Node -> [Adm!Acs -> Nat]]
          /\ acLimit \in [Adm!Node -> [Adm!Acs -> Nat]]
          /\ ac0 \in Adm!Acs /\ Word \in Nat
        BY DEF Adm!TypeOK, ac0, Adm!AdmissionConstants
    <2>6. /\ acTotal[n][ac0] \in Nat /\ acLimit[n][ac0] \in Nat
          /\ acTotal[n][ac0] < Word /\ acLimit[n][ac0] < Word
          /\ t.mt = 0 \/ acTotal[n][ac0] + t.mt <= acLimit[n][ac0]
        <3>1. /\ acTotal[n][ac0] \in Nat /\ acLimit[n][ac0] \in Nat
              /\ acTotal[n][ac0] < Word /\ acLimit[n][ac0] < Word
            BY <2>5 DEF LimitsFit, TotalsFit
        <3>2. t.mt <= IF acLimit[n][ac0] >= acTotal[n][ac0] THEN acLimit[n][ac0] - acTotal[n][ac0] ELSE 0
            BY <2>1 DEF Adm!Room
        <3> QED
            BY <2>1, <3>1, <3>2
    <2>7. /\ acTotal[n][ac0] + t.mt \in Nat /\ acTotal[n][ac0] + t.mt < Word
          /\ (acTotal[n][ac0] + t.mt) % Word = acTotal[n][ac0] + t.mt
        <3>1. acTotal[n][ac0] + t.mt \in Nat /\ acTotal[n][ac0] + t.mt < Word
            BY <2>1, <2>5, <2>6
        <3> QED
            BY <2>5, <3>1, SmallMod
    <2>8. /\ \A m \in Adm!Node \ {n} : ts'[m] = ts[m] /\ acTotal'[m] = acTotal[m]
          /\ ts'[n][slot] = e /\ \A i \in (1..Slots) \ {slot} : ts'[n][i] = ts[n][i]
          /\ acTotal'[n][ac0] = acTotal[n][ac0] + t.mt
          /\ \A ac \in Adm!Acs \ {ac0} : acTotal'[n][ac] = acTotal[n][ac]
        BY <2>2, <2>3, <2>5, <2>7
    <2>9. /\ ts' \in [Adm!Node -> [1..Slots -> Adm!Entry]]
          /\ acTotal' \in [Adm!Node -> [Adm!Acs -> Nat]]
        <3>1. ts' \in [Adm!Node -> [1..Slots -> Adm!Entry]]
            BY <2>2, <2>3, <2>4, <2>5
        <3>2. acTotal' = [acTotal EXCEPT ![n][ac0] = acTotal[n][ac0] + t.mt]
            BY <2>3, <2>5, <2>7
        <3>3. acTotal' \in [Adm!Node -> [Adm!Acs -> Nat]]
            BY <2>5, <2>7, <3>2
        <3> QED
            BY <3>1, <3>3
    <2>10. Airtimes'
        <3>1. ASSUME NEW m \in Adm!Node, NEW ac \in Adm!Acs
              PROVE  IsFiniteSet(Units(ts'[m], ac)) /\ acTotal'[m][ac] = Cardinality(Units(ts'[m], ac))
            <4>1. IsFiniteSet(Units(ts[m], ac)) /\ acTotal[m][ac] = Cardinality(Units(ts[m], ac))
                BY DEF Airtimes
            <4>2. CASE m # n
                BY <2>8, <4>1, <4>2
            <4>3. CASE m = n
                <5>1. /\ IsFiniteSet(Units(ts'[n], ac))
                      /\ Cardinality(Units(ts'[n], ac))
                           = Cardinality(Units(ts[n], ac)) + (IF ts'[n][slot].ac = ac THEN ts'[n][slot].mt ELSE 0)
                    BY <2>1, <2>2, <2>4, <2>8, <4>1, <4>3, UnitsPut
                <5>2. acTotal'[n][ac] = acTotal[n][ac] + (IF ac0 = ac THEN t.mt ELSE 0)
                    BY <2>5, <2>8
                <5> QED
                    BY <2>4, <2>8, <4>1, <4>3, <5>1, <5>2
            <4> QED
                BY <4>2, <4>3
        <3> QED
            BY <3>1 DEF Airtimes
    <2>11. OneSlot'
        BY <2>1, <2>2, <2>4, <2>8 DEF OneSlot, Adm!Holding
    <2>12. TotalsFit'
        BY <2>5, <2>7, <2>8 DEF TotalsFit
    <2>13. ASSUME NEW m \in Adm!Node, NEW ac \in Adm!Acs, acTotal'[m][ac] > acTotal[m][ac]
           PROVE  acTotal'[m][ac] <= acLimit[m][ac]
        <3>1. acTotal[m][ac] \in Nat /\ acTotal'[m][ac] \in Nat
            BY <2>5, <2>9
        <3>2. m = n /\ ac = ac0
            BY <2>8, <2>13, <3>1
        <3> QED
            BY <2>1, <2>6, <2>8, <2>13, <3>2
    <2>14. \A m \in Adm!Node, i \in 1..Slots : ts'[m][i] = ts[m][i] \/ (m = n /\ ts'[m][i] = e)
        BY <2>8
    <2> QED
        BY <2>9, <2>10, <2>11, <2>12, <2>13, <2>14 DEF e, ac0
<1> QED
    BY <1>1, <1>2

\* The fields of an entry of the stream table.
LEMMA EntryFields ==
    \A x \in Adm!Entry : x.mt \in Nat /\ (x.inUse => x.ac \in Adm!Acs)
<1> SUFFICES ASSUME NEW x \in Adm!Entry PROVE x.mt \in Nat /\ (x.inUse => x.ac \in Adm!Acs)
    OBVIOUS
<1>1. CASE x = Adm!Free
    <2>1. x.mt = 0 /\ x.inUse = FALSE
        BY <1>1 DEF Adm!Free
    <2> QED
        BY <2>1
<1>2. CASE x \in [inUse : {TRUE}, tsid : Tsids, ac : Adm!Acs, mt : Nat]
    BY <1>2
<1> QED
    BY <1>1, <1>2 DEF Adm!Entry

\* The empty table takes no medium time.
LEMMA NoUnits ==
    \A ac : /\ IsFiniteSet(Units(Adm!EmptyTable, ac))
            /\ Cardinality(Units(Adm!EmptyTable, ac)) = 0
<1>1. ASSUME NEW ac PROVE Units(Adm!EmptyTable, ac) = {}
    BY DEF Units, Adm!EmptyTable, Adm!Free
<1> QED
    BY <1>1, FS_EmptySet

\* Adm!Release frees the slot of the stream, and the clamp is never needed.
LEMMA ReleaseKeeps ==
    ASSUME Word \in Nat, Adm!TypeOK, Airtimes, TotalsFit, OneSlot,
           NEW n \in Adm!Node, NEW tsid \in Tsids, Adm!Release(n, tsid)
    PROVE  /\ ts' \in [Adm!Node -> [1..Slots -> Adm!Entry]]
           /\ acTotal' \in [Adm!Node -> [Adm!Acs -> Nat]]
           /\ Airtimes' /\ TotalsFit' /\ OneSlot'
           /\ \A m \in Adm!Node, ac \in Adm!Acs : acTotal'[m][ac] <= acTotal[m][ac]
           /\ \A m \in Adm!Node, i \in 1..Slots : ts'[m][i] = ts[m][i] \/ ~ts'[m][i].inUse
<1>0. /\ ts \in [Adm!Node -> [1..Slots -> Adm!Entry]]
      /\ acTotal \in [Adm!Node -> [Adm!Acs -> Nat]]
    BY DEF Adm!TypeOK
<1>1. CASE Adm!Holding(n, tsid) = {}
    <2>1. ts' = ts /\ acTotal' = acTotal
        BY <1>1 DEF Adm!Release
    <2> QED
        BY <1>0, <2>1 DEF Airtimes, TotalsFit, OneSlot
<1>2. CASE Adm!Holding(n, tsid) # {}
    <2> DEFINE slot == Adm!Min(Adm!Holding(n, tsid))
               e == ts[n][slot]
    <2>1. slot \in 1..Slots /\ e.inUse
        <3>1. Adm!Holding(n, tsid) \subseteq Nat
            BY DEF Adm!Holding
        <3>2. slot \in Adm!Holding(n, tsid)
            BY <1>2, <3>1, FirstSlot
        <3> QED
            BY <3>2 DEF Adm!Holding
    <2>2. e \in Adm!Entry /\ e.ac \in Adm!Acs /\ e.mt \in Nat
        <3>1. e \in Adm!Entry
            BY <1>0, <2>1
        <3> QED
            BY <2>1, <3>1, EntryFields
    <2>3. /\ ts' = [ts EXCEPT ![n][slot] = Adm!Free]
          /\ acTotal' = [acTotal EXCEPT ![n][e.ac] = IF @ >= e.mt THEN @ - e.mt ELSE 0]
        BY <1>2 DEF Adm!Release
    <2> HIDE DEF slot
    <2>4. /\ \A m \in Adm!Node \ {n} : ts'[m] = ts[m] /\ acTotal'[m] = acTotal[m]
          /\ ts'[n][slot] = Adm!Free /\ \A i \in (1..Slots) \ {slot} : ts'[n][i] = ts[n][i]
          /\ acTotal'[n][e.ac] = IF acTotal[n][e.ac] >= e.mt THEN acTotal[n][e.ac] - e.mt ELSE 0
          /\ \A ac \in Adm!Acs \ {e.ac} : acTotal'[n][ac] = acTotal[n][ac]
        BY <1>0, <2>1, <2>2, <2>3
    <2>5. Adm!Free \in Adm!Entry /\ ~Adm!Free.inUse
        BY DEF Adm!Entry, Adm!Free
    <2>6. ts' \in [Adm!Node -> [1..Slots -> Adm!Entry]]
        BY <1>0, <2>1, <2>3, <2>5
    <2>7. acTotal' \in [Adm!Node -> [Adm!Acs -> Nat]]
        <3>1. (IF acTotal[n][e.ac] >= e.mt THEN acTotal[n][e.ac] - e.mt ELSE 0) \in Nat
            BY <1>0, <2>2
        <3>2. acTotal' = [acTotal EXCEPT ![n][e.ac] =
                            IF acTotal[n][e.ac] >= e.mt THEN acTotal[n][e.ac] - e.mt ELSE 0]
            BY <1>0, <2>2, <2>3
        <3> QED
            BY <1>0, <2>2, <3>1, <3>2
    <2>8. Airtimes'
        <3>1. ASSUME NEW m \in Adm!Node, NEW ac \in Adm!Acs
              PROVE  IsFiniteSet(Units(ts'[m], ac)) /\ acTotal'[m][ac] = Cardinality(Units(ts'[m], ac))
            <4>1. /\ IsFiniteSet(Units(ts[m], ac)) /\ acTotal[m][ac] = Cardinality(Units(ts[m], ac))
                  /\ acTotal[m][ac] \in Nat
                BY <1>0 DEF Airtimes
            <4>2. CASE m # n
                BY <2>4, <4>1, <4>2
            <4>3. CASE m = n
                <5>1. /\ IsFiniteSet(Units(ts'[n], ac))
                      /\ Cardinality(Units(ts[n], ac))
                           = Cardinality(Units(ts'[n], ac)) + (IF ts[n][slot].ac = ac THEN ts[n][slot].mt ELSE 0)
                    <6>1. /\ \A i \in (1..Slots) \ {slot} : ts'[n][i] = ts[n][i]
                          /\ ts[n][slot].inUse /\ ts[n][slot].mt \in Nat /\ ~ts'[n][slot].inUse
                        BY <2>1, <2>2, <2>4, <2>5
                    <6> QED
                        BY <2>1, <4>1, <4>3, <6>1, UnitsTake
                <5>2. Cardinality(Units(ts'[n], ac)) \in Nat
                    BY <5>1, FS_CardinalityType
                <5> HIDE DEF e
                <5>3. CASE ac = e.ac
                    BY <2>2, <2>4, <4>1, <4>3, <5>1, <5>2, <5>3 DEF e
                <5>4. CASE ac # e.ac
                    BY <2>4, <4>1, <4>3, <5>1, <5>2, <5>4 DEF e
                <5> QED
                    BY <5>3, <5>4
            <4> QED
                BY <4>2, <4>3
        <3> QED
            BY <3>1 DEF Airtimes
    <2>9. \A m \in Adm!Node, ac \in Adm!Acs : acTotal'[m][ac] <= acTotal[m][ac]
        <3>1. ASSUME NEW m \in Adm!Node, NEW ac \in Adm!Acs PROVE acTotal'[m][ac] <= acTotal[m][ac]
            <4>1. acTotal[m][ac] \in Nat
                BY <1>0
            <4> HIDE DEF e
            <4> QED
                BY <2>2, <2>4, <4>1
        <3> QED
            BY <3>1
    <2>10. TotalsFit'
        <3>1. ASSUME NEW m \in Adm!Node, NEW ac \in Adm!Acs PROVE acTotal'[m][ac] < Word
            <4>1. acTotal[m][ac] \in Nat /\ acTotal'[m][ac] \in Nat /\ acTotal[m][ac] < Word
                BY <1>0, <2>7 DEF TotalsFit
            <4>2. acTotal'[m][ac] <= acTotal[m][ac]
                BY <2>9
            <4> QED
                BY <4>1, <4>2
        <3> QED
            BY <3>1 DEF TotalsFit
    <2>11. \A m \in Adm!Node, i \in 1..Slots : ts'[m][i] = ts[m][i] \/ ~ts'[m][i].inUse
        BY <2>4, <2>5
    <2>12. OneSlot'
        BY <2>11 DEF OneSlot
    <2> QED
        BY <2>6, <2>7, <2>8, <2>9, <2>10, <2>11, <2>12
<1> QED
    BY <1>1, <1>2

\* Requests, answers, teardowns, limits and re-initialisations keep the tables accounted.
LEMMA AdmStep ==
    ASSUME Adm!AdmissionConstants, AdmInd, [Adm!Next]_Adm!vars
    PROVE  AdmInd'
<1>0. /\ Adm!TypeOK /\ Airtimes /\ LimitsFit /\ TotalsFit /\ AirBacked /\ OneSlot /\ Adm!GrantBacked
      /\ Word \in Nat
    BY DEF AdmInd, Adm!AdmissionConstants
<1>1. ASSUME NEW tsid \in Tsids, NEW ac \in Adm!Acs, NEW mt \in Times, Adm!AddtsRequest(tsid, ac, mt)
      PROVE  AdmInd'
    <2> DEFINE f == [type |-> "ADDTS_REQ", dialog |-> dialog + 1,
                     tspec |-> [tsid |-> tsid, prio |-> Adm!AcUp(ac), mt |-> mt]]
    <2>1. /\ UNCHANGED <<ts, acTotal, acLimit, admUp, granted>>
          /\ dialog < MaxReqs /\ dialog' = dialog + 1 /\ admAir' = admAir \cup {f}
        BY <1>1 DEF Adm!AddtsRequest
    <2>2. f \in Adm!Frame /\ f.type = "ADDTS_REQ" /\ Adm!UpToAc(f.tspec.prio) \in Adm!Acs
        BY <1>0 DEF Adm!Frame, Adm!Tspec, Adm!AcUp, Adm!UpToAc, Adm!Acs, Adm!AdmissionConstants, Adm!TypeOK
    <2> HIDE DEF f
    <2>3. Adm!TypeOK'
        BY <1>0, <2>1, <2>2 DEF Adm!TypeOK, Adm!AdmissionConstants
    <2>4. AirBacked'
        BY <1>0, <2>1, <2>2 DEF AirBacked
    <2> QED
        BY <1>0, <2>1, <2>3, <2>4 DEF AdmInd, Airtimes, LimitsFit, TotalsFit, OneSlot, Adm!GrantBacked
<1>2. ASSUME NEW f \in admAir, Adm!ApOnAddtsReq(f) PROVE AdmInd'
    <2> DEFINE ok == Adm!AdmitResult("ap", f.tspec) = "OK"
               r == [type |-> "ADDTS_RSP", dialog |-> f.dialog,
                     status |-> IF ok THEN "ADMITTED" ELSE "REFUSED",
                     tspec |-> IF ok THEN f.tspec ELSE [f.tspec EXCEPT !.mt = 0]]
    <2>1. /\ f.type = "ADDTS_REQ" /\ Adm!Admit("ap", f.tspec) /\ UNCHANGED <<acLimit, admUp, dialog>>
          /\ admAir' = admAir \cup {r} /\ granted' = IF ok THEN granted \cup {f.tspec} ELSE granted
        BY <1>2 DEF Adm!ApOnAddtsReq
    <2>2. f.tspec \in Adm!Tspec /\ f.dialog \in Nat /\ Adm!UpToAc(f.tspec.prio) \in Adm!Acs
        BY <1>0, <2>1 DEF Adm!TypeOK, Adm!Frame, AirBacked
    <2>3. /\ r \in Adm!Frame /\ r.type = "ADDTS_RSP" /\ Adm!UpToAc(r.tspec.prio) \in Adm!Acs
          /\ r.status = "ADMITTED" => r.tspec \in granted'
        <3>1. CASE ok
            BY <2>1, <2>2, <3>1 DEF Adm!Frame
        <3>2. CASE ~ok
            <4>1. [f.tspec EXCEPT !.mt = 0] \in Adm!Tspec /\ [f.tspec EXCEPT !.mt = 0].prio = f.tspec.prio
                BY <2>2 DEF Adm!Tspec
            <4> QED
                BY <2>2, <3>2, <4>1 DEF Adm!Frame
        <3> QED
            BY <3>1, <3>2
    <2> HIDE DEF r, ok
    <2>4. /\ ts' \in [Adm!Node -> [1..Slots -> Adm!Entry]]
          /\ acTotal' \in [Adm!Node -> [Adm!Acs -> Nat]]
          /\ Airtimes' /\ TotalsFit' /\ OneSlot'
          /\ \A i \in 1..Slots : ts'["sta"][i] = ts["sta"][i]
        BY <1>0, <2>1, <2>2, AdmitKeeps DEF Adm!Node
    <2>5. Adm!TypeOK'
        BY <1>0, <2>1, <2>3, <2>4 DEF Adm!TypeOK
    <2>6. AirBacked' /\ LimitsFit'
        BY <1>0, <2>1, <2>3 DEF AirBacked, LimitsFit
    <2>7. Adm!GrantBacked'
        BY <1>0, <2>1, <2>4 DEF Adm!GrantBacked
    <2> QED
        BY <2>4, <2>5, <2>6, <2>7 DEF AdmInd
<1>3. ASSUME NEW f \in admAir, Adm!StaOnAddtsResp(f) PROVE AdmInd'
    <2>1. f.type = "ADDTS_RSP" /\ UNCHANGED <<acLimit, admUp, dialog, admAir, granted>>
        BY <1>3 DEF Adm!StaOnAddtsResp
    <2>2. f.tspec \in Adm!Tspec /\ Adm!UpToAc(f.tspec.prio) \in Adm!Acs
        BY <1>0, <2>1 DEF Adm!TypeOK, Adm!Frame, AirBacked
    <2>3. CASE f.status = "ADMITTED"
        <3>1. Adm!Admit("sta", f.tspec) /\ f.tspec \in granted
            BY <1>0, <1>3, <2>1, <2>3 DEF Adm!StaOnAddtsResp, AirBacked
        <3>2. /\ ts' \in [Adm!Node -> [1..Slots -> Adm!Entry]]
              /\ acTotal' \in [Adm!Node -> [Adm!Acs -> Nat]]
              /\ Airtimes' /\ TotalsFit' /\ OneSlot'
              /\ \A i \in 1..Slots :
                   \/ ts'["sta"][i] = ts["sta"][i]
                   \/ ts'["sta"][i] = [inUse |-> TRUE, tsid |-> f.tspec.tsid,
                                       ac |-> Adm!UpToAc(f.tspec.prio), mt |-> f.tspec.mt]
            BY <1>0, <2>2, <3>1, AdmitKeeps DEF Adm!Node
        <3>3. Adm!GrantBacked'
            BY <1>0, <2>1, <3>1, <3>2 DEF Adm!GrantBacked
        <3> QED
            BY <1>0, <2>1, <3>2, <3>3 DEF AdmInd, Adm!TypeOK, AirBacked, LimitsFit
    <2>4. CASE f.status # "ADMITTED"
        <3>1. UNCHANGED <<ts, acTotal>>
            BY <1>3, <2>4 DEF Adm!StaOnAddtsResp
        <3> QED
            BY <1>0, <2>1, <3>1 DEF AdmInd, Adm!TypeOK, Airtimes, LimitsFit, TotalsFit, AirBacked, OneSlot,
                                    Adm!GrantBacked
    <2> QED
        BY <2>3, <2>4
<1>4. ASSUME NEW n \in Adm!Node, NEW tsid \in Tsids, Adm!Release(n, tsid), UNCHANGED <<acLimit, granted>>
      PROVE  /\ ts' \in [Adm!Node -> [1..Slots -> Adm!Entry]]
             /\ acTotal' \in [Adm!Node -> [Adm!Acs -> Nat]]
             /\ Airtimes' /\ TotalsFit' /\ OneSlot' /\ LimitsFit' /\ Adm!GrantBacked'
    <2>1. /\ ts' \in [Adm!Node -> [1..Slots -> Adm!Entry]]
          /\ acTotal' \in [Adm!Node -> [Adm!Acs -> Nat]]
          /\ Airtimes' /\ TotalsFit' /\ OneSlot'
          /\ \A i \in 1..Slots : ts'["sta"][i] = ts["sta"][i] \/ ~ts'["sta"][i].inUse
        BY <1>0, <1>4, ReleaseKeeps DEF Adm!Node
    <2>2. LimitsFit'
        BY <1>0, <1>4 DEF LimitsFit
    <2>3. Adm!GrantBacked'
        <3>1. ASSUME NEW i \in 1..Slots, ts'["sta"][i].inUse
              PROVE  \E t \in granted' : /\ t.tsid = ts'["sta"][i].tsid
                                         /\ t.mt = ts'["sta"][i].mt
                                         /\ Adm!UpToAc(t.prio) = ts'["sta"][i].ac
            <4>1. ts'["sta"][i] = ts["sta"][i] /\ granted' = granted
                BY <1>4, <2>1, <3>1
            <4> QED
                BY <1>0, <3>1, <4>1 DEF Adm!GrantBacked
        <3> QED
            BY <3>1 DEF Adm!GrantBacked
    <2> QED
        BY <2>1, <2>2, <2>3
<1>5. ASSUME NEW f \in admAir, Adm!OnDelts(f) PROVE AdmInd'
    <2>1. f.type = "DELTS" /\ Adm!Release(f.to, f.tsid) /\ UNCHANGED <<acLimit, admUp, dialog, admAir, granted>>
        BY <1>5 DEF Adm!OnDelts
    <2>2. f.to \in Adm!Node /\ f.tsid \in Tsids
        BY <1>0, <2>1 DEF Adm!TypeOK, Adm!Frame
    <2> QED
        BY <1>0, <1>4, <2>1, <2>2 DEF AdmInd, Adm!TypeOK, AirBacked
<1>6. ASSUME NEW tsid \in Tsids, Adm!Delts(tsid) PROVE AdmInd'
    <2> DEFINE f == [type |-> "DELTS", to |-> "ap", tsid |-> tsid]
    <2>1. Adm!Release("sta", tsid) /\ admAir' = admAir \cup {f} /\ UNCHANGED <<acLimit, admUp, dialog, granted>>
        BY <1>6 DEF Adm!Delts
    <2>2. f \in Adm!Frame /\ f.type = "DELTS"
        BY DEF Adm!Frame, Adm!Node
    <2> HIDE DEF f
    <2>3. AirBacked'
        BY <1>0, <2>1, <2>2 DEF AirBacked
    <2>4. "sta" \in Adm!Node
        BY DEF Adm!Node
    <2> QED
        BY <1>0, <1>4, <2>1, <2>2, <2>3, <2>4 DEF AdmInd, Adm!TypeOK
<1>7. ASSUME NEW n \in Limited, NEW ac \in Adm!Acs, NEW limit \in Limits, Adm!SetLimit(n, ac, limit)
      PROVE  AdmInd'
    <2>1. /\ acLimit' = [acLimit EXCEPT ![n][ac] = limit]
          /\ UNCHANGED <<ts, acTotal, admUp, dialog, admAir, granted>>
          /\ n \in Adm!Node /\ limit \in Nat /\ limit < Word
        BY <1>7 DEF Adm!SetLimit, Adm!AdmissionConstants, Adm!Node
    <2>2. acLimit' \in [Adm!Node -> [Adm!Acs -> Nat]] /\ LimitsFit'
        BY <1>0, <2>1 DEF Adm!TypeOK, LimitsFit
    <2> QED
        BY <1>0, <2>1, <2>2 DEF AdmInd, Adm!TypeOK, Airtimes, TotalsFit, AirBacked, OneSlot,
                                Adm!GrantBacked
<1>8. ASSUME NEW n \in Adm!Node, Adm!SmeInit(n) PROVE AdmInd'
    <2>1. /\ ts' = [ts EXCEPT ![n] = Adm!EmptyTable]
          /\ acTotal' = [acTotal EXCEPT ![n] = Adm!NoAirtime]
          /\ acLimit' = [acLimit EXCEPT ![n] = Adm!DefaultLimits]
          /\ admUp' = [admUp EXCEPT ![n] = FALSE]
          /\ UNCHANGED <<dialog, admAir, granted>>
        BY <1>8 DEF Adm!SmeInit
    <2>2. /\ DefaultLimit \in Nat /\ DefaultLimit < Word /\ 0 < Word
          /\ Adm!Free \in Adm!Entry /\ ~Adm!Free.inUse
        BY DEF Adm!AdmissionConstants, Adm!Entry, Adm!Free
    <2>3. /\ Adm!EmptyTable \in [1..Slots -> Adm!Entry] /\ Adm!NoAirtime \in [Adm!Acs -> Nat]
          /\ Adm!DefaultLimits \in [Adm!Acs -> Nat]
        BY <2>2 DEF Adm!EmptyTable, Adm!NoAirtime, Adm!DefaultLimits
    <2>4. Adm!TypeOK'
        <3>1. admUp' \in [Adm!Node -> BOOLEAN]
            BY <1>0, <2>1 DEF Adm!TypeOK
        <3> QED
            BY <1>0, <2>1, <2>3, <3>1 DEF Adm!TypeOK
    <2>5. \A m \in Adm!Node : /\ ts'[m] = IF m = n THEN Adm!EmptyTable ELSE ts[m]
                              /\ acTotal'[m] = IF m = n THEN Adm!NoAirtime ELSE acTotal[m]
                              /\ acLimit'[m] = IF m = n THEN Adm!DefaultLimits ELSE acLimit[m]
        BY <1>0, <2>1 DEF Adm!TypeOK
    <2>6. \A i \in 1..Slots : ~Adm!EmptyTable[i].inUse
        BY <2>2 DEF Adm!EmptyTable
    <2>7. Airtimes'
        BY <1>0, <2>5, NoUnits DEF Airtimes, Adm!NoAirtime
    <2>8. TotalsFit' /\ LimitsFit'
        BY <1>0, <2>2, <2>5 DEF TotalsFit, LimitsFit, Adm!NoAirtime, Adm!DefaultLimits
    <2>9. OneSlot' /\ Adm!GrantBacked'
        BY <1>0, <2>1, <2>5, <2>6 DEF OneSlot, Adm!GrantBacked, Adm!Node
    <2>10. AirBacked'
        BY <1>0, <2>1 DEF AirBacked
    <2> QED
        BY <2>4, <2>7, <2>8, <2>9, <2>10 DEF AdmInd
<1>9. CASE Adm!Rejoin
    <2>1. admUp' = [n \in Adm!Node |-> TRUE] /\ UNCHANGED <<ts, acTotal, acLimit, dialog, resp, admAir, granted>>
        BY <1>9 DEF Adm!Rejoin
    <2>2. admUp' \in [Adm!Node -> BOOLEAN]
        BY <2>1
    <2> QED
        BY <1>0, <2>1, <2>2 DEF AdmInd, Adm!TypeOK, Airtimes, LimitsFit, TotalsFit, AirBacked, OneSlot,
                                Adm!GrantBacked
<1>10. CASE UNCHANGED Adm!vars
    BY <1>0, <1>10 DEF Adm!vars, AdmInd, Adm!TypeOK, Airtimes, LimitsFit, TotalsFit, AirBacked, OneSlot,
                       Adm!GrantBacked
<1> QED
    BY <1>1, <1>2, <1>3, <1>5, <1>6, <1>7, <1>8, <1>9, <1>10 DEF Adm!Next

\* No stream is admitted at first.
LEMMA AdmInitial == Adm!AdmissionConstants /\ Adm!Init => AdmInd
<1> SUFFICES ASSUME Adm!AdmissionConstants, Adm!Init PROVE AdmInd
    OBVIOUS
<1>1. /\ ts = [n \in Adm!Node |-> Adm!EmptyTable]
      /\ acTotal = [n \in Adm!Node |-> Adm!NoAirtime]
      /\ acLimit = [n \in Adm!Node |-> Adm!DefaultLimits]
      /\ admUp = [n \in Adm!Node |-> TRUE] /\ dialog = 0 /\ admAir = {} /\ granted = {}
    BY DEF Adm!Init
<1>2. /\ DefaultLimit \in Nat /\ DefaultLimit < Word /\ 0 < Word /\ MaxReqs \in Nat
      /\ Adm!Free \in Adm!Entry /\ ~Adm!Free.inUse
    BY DEF Adm!AdmissionConstants, Adm!Entry, Adm!Free
<1>3. /\ Adm!EmptyTable \in [1..Slots -> Adm!Entry] /\ Adm!NoAirtime \in [Adm!Acs -> Nat]
      /\ Adm!DefaultLimits \in [Adm!Acs -> Nat]
    BY <1>2 DEF Adm!EmptyTable, Adm!NoAirtime, Adm!DefaultLimits
<1>4. Adm!TypeOK
    <2>1. admUp \in [Adm!Node -> BOOLEAN]
        BY <1>1
    <2> QED
        BY <1>1, <1>2, <1>3, <2>1 DEF Adm!TypeOK
<1>5. Airtimes
    BY <1>1, NoUnits DEF Airtimes, Adm!NoAirtime
<1>6. LimitsFit /\ TotalsFit
    BY <1>1, <1>2 DEF LimitsFit, TotalsFit, Adm!NoAirtime, Adm!DefaultLimits
<1>7. OneSlot /\ Adm!GrantBacked /\ AirBacked
    BY <1>1, <1>2 DEF OneSlot, Adm!GrantBacked, AirBacked, Adm!EmptyTable, Adm!Node
<1> QED
    BY <1>4, <1>5, <1>6, <1>7 DEF AdmInd

\* The total of an AC is the airtime of the streams in the table, a stream has one slot,
\* and what the STA accounts the AP has granted, for every number of slots and streams and
\* every loss, repetition and reordering of the ADDTS and DELTS frames.
THEOREM AdmissionCorrect == Adm!AdmissionConstants => (Adm!Spec => []AdmissionInv)
<1> SUFFICES ASSUME Adm!AdmissionConstants PROVE Adm!Spec => []AdmissionInv
    OBVIOUS
<1>1. Adm!Init => AdmInd
    BY AdmInitial
<1>2. AdmInd /\ [Adm!Next]_Adm!vars => AdmInd'
    BY AdmStep
<1>3. AdmInd => AdmissionInv
    <2> SUFFICES ASSUME AdmInd PROVE AdmissionInv
        OBVIOUS
    <2>1. Adm!BudgetAccounted
        <3>1. ASSUME NEW n \in Adm!Node, NEW ac \in Adm!Acs
              PROVE  acTotal[n][ac] = Adm!Cardinality(Adm!Airtime(n, ac))
            <4>1. Adm!Airtime(n, ac) = Units(ts[n], ac)
                BY DEF Adm!Airtime, Adm!Streams, Units
            <4> QED
                BY <4>1, AdmCardinality DEF AdmInd, Airtimes
        <3> QED
            BY <3>1 DEF Adm!BudgetAccounted
    <2>2. Adm!OneSlotPerStream
        <3>1. ASSUME NEW n \in Adm!Node, NEW t \in Tsids
              PROVE  Adm!Cardinality(Adm!Holding(n, t)) <= 1
            <4>1. CASE Adm!Holding(n, t) = {}
                BY <4>1, AdmCardinality, FS_EmptySet
            <4>2. ASSUME NEW i \in Adm!Holding(n, t) PROVE Adm!Holding(n, t) = {i}
                BY <4>2 DEF Adm!Holding, AdmInd, OneSlot
            <4>3. ASSUME NEW i \in Adm!Holding(n, t) PROVE Adm!Cardinality(Adm!Holding(n, t)) <= 1
                BY <4>2, <4>3, AdmCardinality, FS_Singleton
            <4> QED
                BY <4>1, <4>3
        <3> QED
            BY <3>1 DEF Adm!OneSlotPerStream
    <2> QED
        BY <2>1, <2>2 DEF AdmInd, AdmissionInv, Adm!AdmissionInv
<1> QED
    BY <1>1, <1>2, <1>3, PTL DEF Adm!Spec

\* Airtime is added only within the limit in force: the subtraction that computes the room
\* never wraps, also where set_admission_limit went below what is admitted.
THEOREM AdmissionWithinLimit ==
    Adm!AdmissionConstants => (Adm!Spec => AdmitsWithinLimit)
<1> SUFFICES ASSUME Adm!AdmissionConstants PROVE Adm!Spec => AdmitsWithinLimit
    OBVIOUS
<1> DEFINE Within == \A n \in Adm!Node, ac \in Adm!Acs :
                        acTotal'[n][ac] > acTotal[n][ac] => acTotal'[n][ac] <= acLimit[n][ac]
<1>1. ASSUME AdmInd, [Adm!Next]_Adm!vars PROVE [Within]_Adm!vars
    <2>0. /\ Adm!TypeOK /\ Airtimes /\ LimitsFit /\ TotalsFit /\ AirBacked /\ OneSlot
          /\ Word \in Nat /\ acTotal \in [Adm!Node -> [Adm!Acs -> Nat]]
        BY <1>1 DEF AdmInd, Adm!AdmissionConstants, Adm!TypeOK
    <2>1. ASSUME UNCHANGED acTotal PROVE Within
        BY <2>0, <2>1
    <2>2. ASSUME NEW n \in Adm!Node, NEW f \in admAir, f.type \in {"ADDTS_REQ", "ADDTS_RSP"},
                 Adm!Admit(n, f.tspec)
          PROVE  Within
        <3>1. f.tspec \in Adm!Tspec /\ Adm!UpToAc(f.tspec.prio) \in Adm!Acs
            BY <2>0, <2>2 DEF Adm!TypeOK, Adm!Frame, AirBacked
        <3> QED
            BY <2>0, <2>2, <3>1, AdmitKeeps
    <2>3. ASSUME NEW n \in Adm!Node, NEW tsid \in Tsids, Adm!Release(n, tsid) PROVE Within
        <3>1. /\ acTotal' \in [Adm!Node -> [Adm!Acs -> Nat]]
              /\ \A m \in Adm!Node, ac \in Adm!Acs : acTotal'[m][ac] <= acTotal[m][ac]
            BY <2>0, <2>3, ReleaseKeeps
        <3> QED
            BY <2>0, <3>1
    <2>4. ASSUME NEW tsid \in Tsids, NEW ac \in Adm!Acs, NEW mt \in Times, Adm!AddtsRequest(tsid, ac, mt)
          PROVE  Within
        BY <2>1, <2>4 DEF Adm!AddtsRequest
    <2>5. ASSUME NEW f \in admAir, Adm!ApOnAddtsReq(f) PROVE Within
        BY <2>2, <2>5 DEF Adm!ApOnAddtsReq, Adm!Node
    <2>6. ASSUME NEW f \in admAir, Adm!StaOnAddtsResp(f) PROVE Within
        BY <2>1, <2>2, <2>6 DEF Adm!StaOnAddtsResp, Adm!Node
    <2>7. ASSUME NEW f \in admAir, Adm!OnDelts(f) PROVE Within
        <3>1. f.to \in Adm!Node /\ f.tsid \in Tsids
            BY <2>0, <2>7 DEF Adm!OnDelts, Adm!TypeOK, Adm!Frame
        <3> QED
            BY <2>3, <2>7, <3>1 DEF Adm!OnDelts
    <2>8. ASSUME NEW tsid \in Tsids, Adm!Delts(tsid) PROVE Within
        BY <2>3, <2>8 DEF Adm!Delts, Adm!Node
    <2>9. ASSUME NEW n \in Limited, NEW ac \in Adm!Acs, NEW limit \in Limits, Adm!SetLimit(n, ac, limit)
          PROVE  Within
        BY <2>1, <2>9 DEF Adm!SetLimit
    <2>10. ASSUME NEW n \in Adm!Node, Adm!SmeInit(n) PROVE Within
        BY <2>0, <2>10 DEF Adm!SmeInit, Adm!NoAirtime
    <2>11. CASE Adm!Rejoin
        BY <2>1, <2>11 DEF Adm!Rejoin
    <2> QED
        BY <1>1, <2>4, <2>5, <2>6, <2>7, <2>8, <2>9, <2>10, <2>11 DEF Adm!Next
<1>2. Adm!Init => AdmInd
    BY AdmInitial
<1>3. AdmInd /\ [Adm!Next]_Adm!vars => AdmInd'
    BY AdmStep
<1> QED
    BY <1>1, <1>2, <1>3, PTL DEF Adm!Spec, AdmitsWithinLimit, Adm!AdmitsWithinLimit

-----------------------------------------------------------------------------
(* Fast BSS transition.                                                    *)
(*                                                                         *)
(* Both ends replace their PTK long before they know that the other one    *)
(* has it.  What confirms a key is a MIC: the invariant says of every      *)
(* frame ever sent whose key its MIC shows to have been derived, and by    *)
(* whom.                                                                   *)

Ptk == [r1 : Aps, snonce : Nat, anonce : Nat]

FtFields ==
    /\ sta \in [peer : Aps, target : Aps, snonce : Nat, ptk : Ptk, gtk : Nat,
                completed : BOOLEAN, ricGranted : BOOLEAN]
    /\ ap \in [Aps -> [ptk : Ptk \cup {Ft!NoKey}, gtk : Nat]]
    /\ key \in [sta : Ptk, aps : [Aps -> Ptk \cup {Ft!NoKey}]]
    /\ ftDerived \in [sta : SUBSET Ptk, aps : [Aps -> SUBSET Ptk]]
    /\ drawn \in Nat

\* An AP works with a PTK it has derived, or with none.
ApKeysDerived == \A a \in Aps : ap[a].ptk # Ft!NoKey => ap[a].ptk \in ftDerived.aps[a]

\* A request of the first exchange names an AP to derive for.
RequestNamesAp(f) ==
    /\ f.type = "AUTH1" => f.to \in Aps
    /\ f.type = "DS_REQ" => f.target \in Aps
    /\ f.type \in {"AUTH1", "DS_REQ"} => f.fte.snonce \in Nat

AnswerHasNonce(f) == f.type \in {"AUTH2", "DS_RESP"} => f.fte.snonce \in Nat /\ f.fte.anonce \in Nat

\* The MIC of a Reassociation Request is under a PTK the STA has derived.
RequestMicOfSta(f) == f.type = "REASSOC_REQ" => f.to \in Aps /\ f.mic.ptk \in ftDerived.sta

\* The MIC of a Reassociation Response is under a PTK the AP it names has derived, and that
\* AP grants resources only if it grants any.
ResponseMicOfAp(f) ==
    f.type = "REASSOC_RESP" =>
        /\ f.mic.ap \in Aps
        /\ f.mic.ptk \in ftDerived.aps[f.mic.ap]
        /\ f.gtk \in Nat
        /\ f.granted \in BOOLEAN
        /\ f.granted => f.mic.ap \notin RicDeny

FrameOk(f) == RequestNamesAp(f) /\ AnswerHasNonce(f) /\ RequestMicOfSta(f) /\ ResponseMicOfAp(f)

FtInd ==
    /\ FtFields
    /\ ApKeysDerived
    /\ \A f \in ftAir : FrameOk(f)
    /\ Ft!InstalledKeysConfirmed
    /\ Ft!RicGrantBacked

-----------------------------------------------------------------------------

\* No PTK is taken for the absence of a key.
LEMMA NoKeyIsNoPtk == \A p \in Ptk : p # Ft!NoKey
<1> SUFFICES ASSUME NEW p \in Ptk, p = Ft!NoKey PROVE FALSE
    OBVIOUS
<1>1. "snonce" \in DOMAIN p
    BY DEF Ptk
<1>2. "snonce" \notin DOMAIN Ft!NoKey
    BY DEF Ft!NoKey
<1> QED
    BY <1>1, <1>2

\* A derived key is a pairwise key.
LEMMA PtkDerived ==
    ASSUME NEW a \in Aps, NEW s \in Nat, NEW n \in Nat
    PROVE  Ft!DerivePtk(Ft!PmkR1(a), s, n) \in Ptk
BY DEF Ft!DerivePtk, Ft!PmkR1, Ptk

\* The station starts with the keys of its first association.
LEMMA FtInitial == Ft!FtConstants /\ Ft!Init => FtInd
<1> SUFFICES ASSUME Ft!FtConstants, Ft!Init PROVE FtInd
    OBVIOUS
<1>1. FirstAp \in Aps
    BY DEF Ft!FtConstants
<1>2. Ft!FirstPtk \in Ptk
    BY <1>1 DEF Ft!FirstPtk, Ft!DerivePtk, Ptk
<1> HIDE DEF Ft!FirstPtk
<1>3. FtFields
    BY <1>1, <1>2 DEF Ft!Init, FtFields
<1>4. ApKeysDerived /\ Ft!InstalledKeysConfirmed
    BY <1>1, <1>2 DEF Ft!Init, ApKeysDerived, Ft!InstalledKeysConfirmed
<1> QED
    BY <1>3, <1>4 DEF Ft!Init, FtInd, Ft!RicGrantBacked

-----------------------------------------------------------------------------
(* The steps.                                                              *)

\* A frame stays what it was when more keys are derived.
LEMMA FramesKeep ==
    ASSUME FtFields, FtFields',
           ftDerived.sta \subseteq ftDerived'.sta,
           \A a \in Aps : ftDerived.aps[a] \subseteq ftDerived'.aps[a],
           NEW f, FrameOk(f)
    PROVE  FrameOk(f)'
BY DEF FrameOk, RequestNamesAp, AnswerHasNonce, RequestMicOfSta, ResponseMicOfAp

\* A roam begins: the association in use keeps its keys, and no grant is carried over.
LEMMA BeginRoamKeeps ==
    ASSUME FtInd, NEW target \in Aps, NEW frame, FrameOk(frame), Ft!BeginRoam(target, frame)
    PROVE  FtInd'
<1>1. /\ sta' = [sta EXCEPT !.target = target, !.snonce = drawn + 1, !.completed = FALSE,
                            !.ricGranted = FALSE]
      /\ drawn' = drawn + 1
      /\ ftAir' = ftAir \cup {frame}
      /\ UNCHANGED <<ap, key, ftDerived>>
    BY DEF Ft!BeginRoam
<1>2. FtFields'
    <2>1. sta' = [peer |-> sta.peer, target |-> target, snonce |-> drawn + 1, ptk |-> sta.ptk,
                  gtk |-> sta.gtk, completed |-> FALSE, ricGranted |-> FALSE]
        BY <1>1 DEF FtInd, FtFields
    <2>2. drawn + 1 \in Nat
        BY DEF FtInd, FtFields
    <2> QED
        BY <1>1, <2>1, <2>2 DEF FtInd, FtFields
<1>3. sta'.peer = sta.peer /\ sta'.ricGranted = FALSE
    BY <1>1 DEF FtInd, FtFields
<1>4. ASSUME NEW f \in ftAir' PROVE FrameOk(f)'
    <2>1. FrameOk(f)
        BY <1>1 DEF FtInd
    <2> QED
        BY <1>1, <1>2, <2>1, FramesKeep DEF FtInd
<1>5. ApKeysDerived' /\ Ft!InstalledKeysConfirmed' /\ Ft!RicGrantBacked'
    BY <1>1, <1>3 DEF FtInd, ApKeysDerived, Ft!InstalledKeysConfirmed, Ft!RicGrantBacked
<1> QED
    BY <1>2, <1>4, <1>5 DEF FtInd

\* An AP replaces its PTK: the one it has installed stays a confirmed one.
LEMMA ApDeriveKeeps ==
    ASSUME FtInd, NEW a \in Aps, NEW s \in Nat, Ft!ApDerive(a, s),
           NEW frame, FrameOk(frame), ftAir' = ftAir \cup {frame},
           UNCHANGED <<sta, key>>
    PROVE  FtInd'
<1> DEFINE ptk == Ft!DerivePtk(Ft!PmkR1(a), s, drawn + 1)
<1>1. /\ drawn' = drawn + 1
      /\ ap' = [ap EXCEPT ![a].ptk = ptk]
      /\ ftDerived' = [ftDerived EXCEPT !.aps[a] = @ \cup {ptk}]
    BY DEF Ft!ApDerive
<1>2. ptk \in Ptk
    BY PtkDerived DEF FtInd, FtFields
<1> HIDE DEF ptk
<1>3. FtFields'
    BY <1>1, <1>2 DEF FtInd, FtFields
<1>4. /\ ftDerived'.sta = ftDerived.sta
      /\ \A b \in Aps : ftDerived'.aps[b] = IF b = a THEN ftDerived.aps[a] \cup {ptk} ELSE ftDerived.aps[b]
      /\ \A b \in Aps : ap'[b].ptk = IF b = a THEN ptk ELSE ap[b].ptk
    BY <1>1 DEF FtInd, FtFields
<1>5. ASSUME NEW f \in ftAir' PROVE FrameOk(f)'
    <2>1. FrameOk(f)
        BY DEF FtInd
    <2> QED
        BY <1>3, <1>4, <2>1, FramesKeep DEF FtInd
<1>6. ApKeysDerived'
    BY <1>4 DEF FtInd, ApKeysDerived
<1>7. sta'.peer \in Aps
    BY DEF FtInd, FtFields
<1>8. Ft!InstalledKeysConfirmed' /\ Ft!RicGrantBacked'
    BY <1>4, <1>7 DEF FtInd, Ft!InstalledKeysConfirmed, Ft!RicGrantBacked
<1> QED
    BY <1>3, <1>5, <1>6, <1>8 DEF FtInd

\* The STA replaces its PTK on the answer of the target and signs with it.
LEMMA StaOnAuth2Keeps ==
    ASSUME FtInd, NEW f \in ftAir, Ft!StaOnAuth2(f)
    PROVE  FtInd'
<1> DEFINE ptk == Ft!DerivePtk(Ft!PmkR1(sta.target), f.fte.snonce, f.fte.anonce)
           g   == Ft!ReassocReq(sta.target, ptk)
<1>1. /\ sta' = [sta EXCEPT !.ptk = ptk]
      /\ ftDerived' = [ftDerived EXCEPT !.sta = @ \cup {ptk}]
      /\ ftAir' = ftAir \cup {g}
      /\ UNCHANGED <<ap, key, drawn>>
    BY DEF Ft!StaOnAuth2
<1>2. sta.target \in Aps /\ sta.peer \in Aps
    BY DEF FtInd, FtFields
<1>3. f.fte.snonce \in Nat /\ f.fte.anonce \in Nat
    BY DEF Ft!StaOnAuth2, FtInd, FrameOk, AnswerHasNonce
<1>4. ptk \in Ptk
    BY <1>2, <1>3, PtkDerived
<1> HIDE DEF ptk
<1>5. FtFields'
    BY <1>1, <1>4 DEF FtInd, FtFields
<1>6. /\ ftDerived'.sta = ftDerived.sta \cup {ptk}
      /\ ftDerived'.aps = ftDerived.aps
      /\ sta'.peer = sta.peer
      /\ sta'.ricGranted = sta.ricGranted
    BY <1>1 DEF FtInd, FtFields
<1>7. ASSUME NEW h, h = g PROVE FrameOk(h)'
    <2>1. h.type = "REASSOC_REQ" /\ h.to = sta.target /\ h.mic.ptk = ptk
        BY <1>7 DEF Ft!ReassocReq, Ft!Mic
    <2> HIDE DEF g
    <2> QED
        BY <1>2, <1>6, <2>1
           DEF FrameOk, RequestNamesAp, AnswerHasNonce, RequestMicOfSta, ResponseMicOfAp
<1> HIDE DEF g
<1>8. ASSUME NEW h \in ftAir' PROVE FrameOk(h)'
    <2>1. h = g \/ h \in ftAir
        BY <1>1
    <2>2. h \in ftAir => FrameOk(h)'
        BY <1>5, <1>6, FramesKeep DEF FtInd
    <2> QED
        BY <1>7, <2>1, <2>2
<1>9. ApKeysDerived' /\ Ft!InstalledKeysConfirmed' /\ Ft!RicGrantBacked'
    BY <1>1, <1>6 DEF FtInd, ApKeysDerived, Ft!InstalledKeysConfirmed, Ft!RicGrantBacked
<1> QED
    BY <1>5, <1>8, <1>9 DEF FtInd

\* The AP installs a PTK on a MIC the STA made with it.
LEMMA ApOnReassocKeeps ==
    ASSUME FtInd, NEW f \in ftAir, Ft!ApOnReassoc(f)
    PROVE  FtInd'
<1> DEFINE a == f.to
           g == Ft!ReassocResp(a, ap[a].ptk, drawn + 1, a \notin RicDeny)
<1>1. /\ f.type = "REASSOC_REQ"
      /\ f.mic = Ft!Mic(ap[a].ptk, a)
      /\ drawn' = drawn + 1
      /\ ap' = [ap EXCEPT ![a].gtk = drawn + 1]
      /\ key' = [key EXCEPT !.aps[a] = ap[a].ptk]
      /\ ftAir' = ftAir \cup {g}
      /\ UNCHANGED <<sta, ftDerived>>
    BY DEF Ft!ApOnReassoc, Ft!ApMicOk
<1>2. a \in Aps /\ ap[a].ptk \in ftDerived.sta
    BY <1>1 DEF FtInd, FrameOk, RequestMicOfSta, Ft!Mic
<1>3. ap[a].ptk \in Ptk /\ ap[a].ptk \in ftDerived.aps[a]
    BY <1>2, NoKeyIsNoPtk DEF FtInd, FtFields, ApKeysDerived
<1>4. drawn + 1 \in Nat
    BY DEF FtInd, FtFields
<1>5. ASSUME NEW h, h = g PROVE FrameOk(h)'
    <2>1. /\ h.type = "REASSOC_RESP" /\ h.mic.ap = a /\ h.mic.ptk = ap[a].ptk
          /\ h.gtk = drawn + 1 /\ h.granted = (a \notin RicDeny)
        BY <1>5 DEF Ft!ReassocResp, Ft!Mic
    <2> HIDE DEF g, a
    <2> QED
        BY <1>1, <1>2, <1>3, <1>4, <2>1
           DEF FrameOk, RequestNamesAp, AnswerHasNonce, RequestMicOfSta, ResponseMicOfAp
<1> HIDE DEF g, a
<1>6. FtFields'
    BY <1>1, <1>2, <1>3, <1>4 DEF FtInd, FtFields
<1>7. /\ key'.sta = key.sta
      /\ \A b \in Aps : key'.aps[b] = IF b = a THEN ap[a].ptk ELSE key.aps[b]
      /\ \A b \in Aps : ap'[b].ptk = ap[b].ptk
    BY <1>1, <1>2 DEF FtInd, FtFields
<1>8. ASSUME NEW h \in ftAir' PROVE FrameOk(h)'
    <2>1. h = g \/ h \in ftAir
        BY <1>1
    <2>2. h \in ftAir => FrameOk(h)'
        BY <1>1, <1>6, FramesKeep DEF FtInd
    <2> QED
        BY <1>5, <2>1, <2>2
<1>9. ApKeysDerived' /\ Ft!InstalledKeysConfirmed' /\ Ft!RicGrantBacked'
    BY <1>1, <1>2, <1>7 DEF FtInd, ApKeysDerived, Ft!InstalledKeysConfirmed, Ft!RicGrantBacked
<1> QED
    BY <1>6, <1>8, <1>9 DEF FtInd

\* The STA installs its PTK on a MIC the target made with it.
LEMMA StaOnReassocKeeps ==
    ASSUME FtInd, NEW f \in ftAir, Ft!StaOnReassoc(f)
    PROVE  FtInd'
<1>1. /\ f.type = "REASSOC_RESP"
      /\ f.mic = Ft!Mic(sta.ptk, sta.target)
      /\ sta' = [sta EXCEPT !.peer = sta.target, !.gtk = f.gtk, !.completed = TRUE,
                            !.ricGranted = f.granted]
      /\ key' = [key EXCEPT !.sta = sta.ptk]
      /\ UNCHANGED <<ap, ftAir, drawn, ftDerived>>
    BY DEF Ft!StaOnReassoc, Ft!StaMicOk, Ft!Ric
<1>2. /\ sta.ptk \in ftDerived.aps[sta.target]
      /\ f.gtk \in Nat /\ f.granted \in BOOLEAN
      /\ f.granted => sta.target \notin RicDeny
    BY <1>1 DEF FtInd, FrameOk, ResponseMicOfAp, Ft!Mic
<1>3. FtFields'
    BY <1>1, <1>2 DEF FtInd, FtFields
<1>4. /\ sta'.peer = sta.target /\ sta'.ricGranted = f.granted
      /\ key'.sta = sta.ptk /\ key'.aps = key.aps
    BY <1>1 DEF FtInd, FtFields
<1>5. ASSUME NEW h \in ftAir' PROVE FrameOk(h)'
    <2>1. FrameOk(h)
        BY <1>1 DEF FtInd
    <2> QED
        BY <1>1, <1>3, <2>1, FramesKeep DEF FtInd
<1>6. ApKeysDerived' /\ Ft!InstalledKeysConfirmed' /\ Ft!RicGrantBacked'
    BY <1>1, <1>2, <1>4 DEF FtInd, ApKeysDerived, Ft!InstalledKeysConfirmed, Ft!RicGrantBacked
<1> QED
    BY <1>3, <1>5, <1>6 DEF FtInd

\* Every step of the fast transition keeps its invariant.
LEMMA FtStep ==
    ASSUME Ft!FtConstants, FtInd, [Ft!Next]_Ft!vars
    PROVE  FtInd'
<1>1. drawn + 1 \in Nat /\ sta.peer \in Aps
    BY DEF FtInd, FtFields
<1>2. ASSUME NEW target \in Aps, Ft!FtRoam(target) PROVE FtInd'
    <2>1. FrameOk(Ft!Auth1(target, drawn + 1))
        BY <1>1 DEF Ft!Auth1, Ft!Fte, FrameOk, RequestNamesAp, AnswerHasNonce, RequestMicOfSta,
                    ResponseMicOfAp
    <2> QED
        BY <1>2, <2>1, BeginRoamKeeps DEF Ft!FtRoam
<1>3. ASSUME NEW target \in Aps, Ft!FtRoamOverDs(target) PROVE FtInd'
    <2>1. FrameOk(Ft!DsRequest(sta.peer, target, drawn + 1))
        BY <1>1 DEF Ft!DsRequest, Ft!Fte, FrameOk, RequestNamesAp, AnswerHasNonce, RequestMicOfSta,
                    ResponseMicOfAp
    <2> QED
        BY <1>3, <2>1, BeginRoamKeeps DEF Ft!FtRoamOverDs
<1>4. ASSUME NEW f \in ftAir, Ft!ApOnAuth1(f) PROVE FtInd'
    <2>1. f.to \in Aps /\ f.fte.snonce \in Nat
        BY <1>4 DEF Ft!ApOnAuth1, FtInd, FrameOk, RequestNamesAp
    <2>2. FrameOk(Ft!Auth2(f.fte.snonce, drawn + 1))
        BY <1>1, <2>1 DEF Ft!Auth2, Ft!Fte, FrameOk, RequestNamesAp, AnswerHasNonce, RequestMicOfSta,
                          ResponseMicOfAp
    <2> QED
        BY <1>4, <2>1, <2>2, ApDeriveKeeps DEF Ft!ApOnAuth1
<1>5. ASSUME NEW f \in ftAir, Ft!ApOnDsRequest(f) PROVE FtInd'
    <2>1. f.target \in Aps /\ f.fte.snonce \in Nat
        BY <1>5 DEF Ft!ApOnDsRequest, FtInd, FrameOk, RequestNamesAp
    <2>2. FrameOk(Ft!DsResponse(f.fte.snonce, drawn + 1))
        BY <1>1, <2>1 DEF Ft!DsResponse, Ft!Fte, FrameOk, RequestNamesAp, AnswerHasNonce,
                          RequestMicOfSta, ResponseMicOfAp
    <2> QED
        BY <1>5, <2>1, <2>2, ApDeriveKeeps DEF Ft!ApOnDsRequest
<1>6. ASSUME UNCHANGED <<sta, ap, key, ftAir, drawn, ftDerived>> PROVE FtInd'
    BY <1>6 DEF FtInd, FtFields, ApKeysDerived, FrameOk, RequestNamesAp, AnswerHasNonce,
                RequestMicOfSta, ResponseMicOfAp, Ft!InstalledKeysConfirmed, Ft!RicGrantBacked
<1>7. CASE Ft!DataTx
    BY <1>6, <1>7 DEF Ft!DataTx
<1>8. CASE UNCHANGED Ft!vars
    BY <1>6, <1>8 DEF Ft!vars
<1> QED
    BY <1>2, <1>3, <1>4, <1>5, <1>7, <1>8, StaOnAuth2Keeps, ApOnReassocKeeps, StaOnReassocKeeps
       DEF Ft!Next

\* With late, repeated and reordered frames of other roams about, a key is in use only if
\* the other end has derived it, and the STA believes in a reservation only of an AP that
\* grants one (rf_2a4m1_ft_ap_on_reassoc, rf_2a4m1_ft_sta_on_reassoc).
THEOREM FtCorrect == Ft!FtConstants => (Ft!Spec => []FtInv)
<1> SUFFICES ASSUME Ft!FtConstants PROVE Ft!Spec => []FtInv
    OBVIOUS
<1>1. Ft!Init => FtInd
    BY FtInitial
<1>2. FtInd /\ [Ft!Next]_Ft!vars => FtInd'
    BY FtStep
<1>3. FtInd => FtInv
    BY DEF FtInd, FtInv, Ft!FtInv
<1> QED
    BY <1>1, <1>2, <1>3, PTL DEF Ft!Spec

-----------------------------------------------------------------------------
(* The MCU commands of a channel change.                                   *)

McuCommands == [half : Tune!Halves, seq : Nat]
McuResponses == [seq : Nat, done : BOOLEAN]
McuJobs == [pc : {"idle", "drain", "send", "poll"}, half : Tune!Halves, attempt : Int,
            tries : Int, seq : Nat, chan : Channels \cup {0}, outcome : {"none", "ok", "error"}]

TuneFields ==
    /\ mcuSeq \in Nat
    /\ cmdQueue \in Seq(McuCommands)
    /\ fifo \in Seq(McuResponses)
    /\ job \in [Callers -> McuJobs]
    /\ ran \in SUBSET Tune!Halves
    /\ share \in [Callers -> {"alone", "recycled", "shared"}]

\* No command and no response of the chip has the number s.
Unused(s) ==
    /\ \A i \in 1..Len(cmdQueue) : cmdQueue[i].seq # s
    /\ \A i \in 1..Len(fifo) : fifo[i].seq # s

\* The command a caller waits for is the last one sent and not yet run, or it was
\* run, and then no older one is left and its CMD_DONE tells the truth.
OnItsWay(c) ==
    /\ cmdQueue # <<>>
    /\ cmdQueue[Len(cmdQueue)].seq = job[c].seq /\ cmdQueue[Len(cmdQueue)].half = job[c].half
    /\ \A i \in 1..(Len(cmdQueue) - 1) : cmdQueue[i].seq # job[c].seq
    /\ \A i \in 1..Len(fifo) : fifo[i].seq # job[c].seq

WasRun(c) ==
    /\ cmdQueue = <<>>
    /\ \A i \in 1..Len(fifo) : fifo[i].seq = job[c].seq /\ fifo[i].done => job[c].half \in ran

\* Where a tune with the radio to itself and unused numbers is.
Calibrating(c) ==
    /\ job[c].pc = "send" => Unused(job[c].seq)
    /\ job[c].pc = "poll" => OnItsWay(c) \/ WasRun(c)
    /\ job[c].pc # "idle" /\ job[c].half = "rx" => "tx" \in ran
    /\ job[c].outcome = "ok" => Tune!Complete(c)

Tuning(c) ==
    /\ job[c].pc # "idle" => job[c].outcome = "none"
    /\ job[c].pc # "idle" /\ share[c] # "shared" => rf = job[c].chan
    /\ share[c] = "alone" => Calibrating(c)

\* A tune that is not shared has the radio to itself.
ToItself(c) == share[c] # "shared" => \A d \in Callers \ {c} : job[d].pc = "idle"

TuneInd == TuneFields /\ \A c \in Callers : Tuning(c) /\ ToItself(c)

\* The device at rest.
LEMMA TuneInitial == Tune!Init => TuneInd
<1> SUFFICES ASSUME Tune!Init PROVE TuneInd
    OBVIOUS
<1>1. cmdQueue \in Seq(McuCommands) /\ fifo \in Seq(McuResponses)
    BY EmptySeq DEF Tune!Init
<1>2. /\ job \in [Callers -> McuJobs]
      /\ \A c \in Callers : job[c].pc = "idle" /\ job[c].outcome = "none"
    BY DEF Tune!Init, Tune!IdleJob, Tune!Halves, McuJobs
<1>3. ran \in SUBSET Tune!Halves /\ mcuSeq \in Nat /\ share \in [Callers -> {"alone", "recycled", "shared"}]
    BY DEF Tune!Init
<1>4. TuneFields
    BY <1>1, <1>2, <1>3 DEF TuneFields
<1> QED
    BY <1>2, <1>4 DEF TuneInd, Tuning, Calibrating, ToItself

\* do_set_channel begins, or fails before the first command, whoever else is tuning.
LEMMA TuneBegins ==
    ASSUME TuneInd, NEW c \in Callers, NEW ch \in Channels,
           Tune!SetChannel(c, ch) \/ Tune!SetChannelFails(c, ch)
    PROVE  TuneInd'
<1>1. CASE Tune!SetChannel(c, ch)
    <2> DEFINE j == [pc |-> "drain", half |-> "tx", attempt |-> 1, tries |-> 0, seq |-> 0,
                     chan |-> ch, outcome |-> "none"]
    <2>1. /\ job' \in [Callers -> McuJobs] /\ job'[c] = j
          /\ \A d \in Callers \ {c} : job'[d] = job[d]
        <3>1. [Tune!IdleJob("none", ch) EXCEPT !.pc = "drain"] = j
            BY DEF Tune!IdleJob
        <3>2. j \in McuJobs
            BY DEF McuJobs, Tune!Halves
        <3> QED
            BY <1>1, <3>1, <3>2 DEF Tune!SetChannel, TuneInd, TuneFields
    <2>2. /\ share' \in [Callers -> {"alone", "recycled", "shared"}]
          /\ \A d \in Callers \ {c} : share'[d] = "shared"
          /\ share'[c] # "shared" => \A d \in Callers : job[d].pc = "idle"
        BY <1>1 DEF Tune!SetChannel
    <2>3. TuneFields'
        BY <1>1, <2>1, <2>2 DEF Tune!SetChannel, TuneInd, TuneFields
    <2>4. Tuning(c)' /\ ToItself(c)'
        <3>1. job'[c].pc = "drain" /\ job'[c].half = "tx" /\ job'[c].outcome = "none" /\ job'[c].chan = ch
            BY <2>1
        <3>2. rf' = ch
            BY <1>1 DEF Tune!SetChannel
        <3> HIDE DEF j
        <3> QED
            BY <2>1, <2>2, <3>1, <3>2 DEF Tuning, Calibrating, ToItself
    <2>5. ASSUME NEW d \in Callers \ {c} PROVE Tuning(d)' /\ ToItself(d)'
        BY <2>1, <2>2 DEF TuneInd, Tuning, ToItself
    <2> QED
        BY <2>3, <2>4, <2>5 DEF TuneInd
<1>2. CASE Tune!SetChannelFails(c, ch)
    <2>1. /\ job' \in [Callers -> McuJobs] /\ job'[c].pc = "idle"
          /\ \A d \in Callers \ {c} : job'[d] = job[d]
        <3>1. Tune!IdleJob("error", 0) \in McuJobs /\ Tune!IdleJob("error", 0).pc = "idle"
            BY DEF McuJobs, Tune!Halves, Tune!IdleJob
        <3> QED
            BY <1>2, <3>1 DEF Tune!SetChannelFails, TuneInd, TuneFields
    <2>2. /\ share' \in [Callers -> {"alone", "recycled", "shared"}]
          /\ \A d \in Callers : share'[d] = "shared"
        BY <1>2 DEF Tune!SetChannelFails
    <2>3. TuneFields'
        BY <1>2, <2>1, <2>2 DEF Tune!SetChannelFails, TuneInd, TuneFields
    <2> QED
        BY <2>1, <2>2, <2>3 DEF TuneInd, Tuning, ToItself
<1> QED
    BY <1>1, <1>2

\* A step of one caller's command says nothing of the other callers: whatever they
\* tuned is shared with it.
LEMMA OthersUntouched ==
    ASSUME TuneInd, NEW c \in Callers, job[c].pc # "idle", TuneFields', Tuning(c)',
           \A d \in Callers \ {c} : job'[d] = job[d] /\ share'[d] = share[d],
           share'[c] # "shared" => share[c] # "shared"
    PROVE  TuneInd'
<1>1. ToItself(c)'
    BY DEF TuneInd, ToItself
<1>2. ASSUME NEW d \in Callers \ {c} PROVE Tuning(d)' /\ ToItself(d)'
    <2>1. share[d] = "shared"
        BY DEF TuneInd, ToItself
    <2> QED
        BY <2>1 DEF TuneInd, Tuning, ToItself
<1> QED
    BY <1>1, <1>2 DEF TuneInd

\* An attempt ends without an answer: nothing is claimed of the next one yet.
LEMMA AttemptEnds ==
    ASSUME TuneInd, NEW c \in Callers, job[c].pc # "idle",
           Tune!NextAttempt(c) \/ Tune!Fail(c)
    PROVE  /\ job' \in [Callers -> McuJobs]
           /\ \A d \in Callers \ {c} : job'[d] = job[d]
           /\ job'[c].pc \in {"idle", "drain"}
           /\ job'[c].outcome # "ok"
           /\ job'[c].pc = "drain" => /\ job'[c].half = job[c].half
                                      /\ job'[c].outcome = job[c].outcome
                                      /\ job'[c].chan = job[c].chan
<1>1. job[c] \in McuJobs /\ job[c].outcome = "none" /\ job \in [Callers -> McuJobs]
    BY DEF TuneInd, TuneFields, Tuning
<1>2. CASE Tune!Fail(c)
    <2>1. Tune!IdleJob("error", 0) \in McuJobs /\ Tune!IdleJob("error", 0).pc = "idle"
          /\ Tune!IdleJob("error", 0).outcome = "error"
        BY DEF McuJobs, Tune!Halves, Tune!IdleJob
    <2> QED
        BY <1>1, <1>2, <2>1 DEF Tune!Fail
<1>3. CASE job' = [job EXCEPT ![c].pc = "drain", ![c].attempt = @ + 1]
    <2> DEFINE j == [job[c] EXCEPT !.pc = "drain", !.attempt = @ + 1]
    <2>1. j \in McuJobs /\ j.pc = "drain" /\ j.half = job[c].half /\ j.outcome = job[c].outcome
          /\ j.chan = job[c].chan
        <3>1. job[c].attempt + 1 \in Int
            BY <1>1 DEF McuJobs
        <3>2. j \in McuJobs
            BY <1>1, <3>1 DEF McuJobs
        <3> QED
            BY <1>1, <3>2 DEF McuJobs
    <2>2. job' = [job EXCEPT ![c] = j]
        BY <1>3
    <2>3. job[c].pc # "idle" /\ j.pc \in {"idle", "drain"} /\ j.outcome # "ok"
        BY <1>1, <2>1
    <2> HIDE DEF j
    <2>4. job' \in [Callers -> McuJobs] /\ job'[c] = j /\ \A d \in Callers \ {c} : job'[d] = job[d]
        BY <1>1, <2>1, <2>2
    <2> QED
        BY <2>1, <2>3, <2>4
<1> QED
    BY <1>2, <1>3 DEF Tune!NextAttempt

\* What the drain leaves is a part of what the endpoint held.
LEMMA DrainedFifo ==
    ASSUME Tune!McuConstants, TuneFields
    PROVE  Tune!Drained(fifo) \in Seq(McuResponses)
<1>1. fifo \in Seq(McuResponses) /\ Len(fifo) \in Nat /\ DrainMax + 1 \in 1..(DrainMax + 1)
      /\ DrainMax + 1 \in Int /\ Len(fifo) \in Int
    BY LenProperties DEF TuneFields, Tune!McuConstants
<1>2. \A i \in (DrainMax + 1)..Len(fifo) : fifo[i] \in McuResponses
    <2>1. \A i \in 1..Len(fifo) : fifo[i] \in McuResponses
        BY <1>1, ElementOfSeq
    <2>2. (DrainMax + 1)..Len(fifo) \subseteq 1..Len(fifo)
        BY <1>1 DEF Tune!McuConstants
    <2> QED
        BY <2>1, <2>2
<1> QED
    BY <1>1, <1>2, SubSeqProperties DEF Tune!Drained

\* Draining the stale responses: a number that the chip does not hold afterwards is
\* an unused one.
LEMMA DrainKeeps ==
    ASSUME Tune!McuConstants, TuneInd, NEW c \in Callers, Tune!Drain(c)
    PROVE  TuneInd'
<1>1. TuneFields
    BY DEF TuneInd
<1>2. fifo' \in Seq(McuResponses) /\ fifo' = Tune!Drained(fifo)
    BY <1>1, DrainedFifo DEF Tune!Drain
<1>3. PICK s \in Nat : s = Tune!NextSeq(c, mcuSeq)
    BY <1>1 DEF TuneFields, Tune!NextSeq, Tune!McuConstants
<1>4. /\ job' \in [Callers -> McuJobs]
      /\ job'[c] = [job[c] EXCEPT !.pc = "send", !.seq = s]
      /\ \A d \in Callers \ {c} : job'[d] = job[d]
    <2>1. job[c] \in McuJobs
        BY <1>1 DEF TuneFields
    <2>2. [job[c] EXCEPT !.pc = "send", !.seq = s] \in McuJobs
        BY <1>3, <2>1 DEF McuJobs
    <2>3. job' = [job EXCEPT ![c] = [job[c] EXCEPT !.pc = "send", !.seq = s]]
        BY <1>3 DEF Tune!Drain
    <2> QED
        BY <1>1, <2>2, <2>3 DEF TuneFields
<1>5. /\ share' \in [Callers -> {"alone", "recycled", "shared"}]
      /\ \A d \in Callers \ {c} : share'[d] = share[d]
      /\ share'[c] = "alone" => share[c] = "alone" /\ ~Tune!Held(s)
      /\ share'[c] # "shared" => share[c] # "shared"
    BY <1>1, <1>3 DEF Tune!Drain, TuneFields
<1>6. TuneFields'
    BY <1>1, <1>2, <1>4, <1>5 DEF Tune!Drain, TuneFields
<1>7. ~Tune!Held(s) => Unused(s)'
    <2>1. /\ \A i \in 1..Len(cmdQueue) : cmdQueue[i] \in Tune!ToSet(cmdQueue)
          /\ \A i \in 1..Len(fifo') : fifo'[i] \in Tune!ToSet(fifo')
        <3>1. DOMAIN cmdQueue = 1..Len(cmdQueue) /\ DOMAIN fifo' = 1..Len(fifo')
            BY <1>1, <1>2, LenProperties DEF TuneFields
        <3> QED
            BY <3>1 DEF Tune!ToSet
    <2>2. UNCHANGED cmdQueue
        BY DEF Tune!Drain
    <2>3. ~Tune!Held(s) <=> \A m \in Tune!ToSet(cmdQueue) \cup Tune!ToSet(Tune!Drained(fifo)) : m.seq # s
        BY Zenon DEF Tune!Held
    <2>4. ASSUME ~Tune!Held(s) PROVE \A m \in Tune!ToSet(cmdQueue) \cup Tune!ToSet(fifo') : m.seq # s
        BY <1>2, <2>3, <2>4
    <2> QED
        BY <2>1, <2>2, <2>4 DEF Unused
<1>8. job[c].pc = "drain" /\ job[c].outcome = "none"
    BY DEF Tune!Drain, TuneInd, Tuning
<1>9. job'[c].pc = "send" /\ job'[c].outcome = "none" /\ job'[c].half = job[c].half
      /\ job'[c].chan = job[c].chan /\ job'[c].seq = s
    BY <1>1, <1>4, <1>8 DEF McuJobs, TuneFields
<1>10. Tuning(c)'
    <2>1. UNCHANGED <<rf, ran>>
        BY DEF Tune!Drain
    <2>2. Tuning(c)
        BY DEF TuneInd
    <2>3. share'[c] = "alone" => Calibrating(c)'
        <3>1. ASSUME share'[c] = "alone" PROVE Unused(s)' /\ Calibrating(c)
            BY <1>5, <1>7, <2>2, <3>1 DEF Tuning
        <3>2. ASSUME Unused(s)', Calibrating(c) PROVE Calibrating(c)'
            <4>1. (job[c].half = "rx" => "tx" \in ran) /\ job'[c].outcome # "ok" /\ job'[c].pc # "poll"
                BY <1>8, <1>9, <3>2 DEF Calibrating
            <4>2. job'[c].seq = s /\ job'[c].half = job[c].half /\ ran' = ran
                BY <1>9, <2>1
            <4> QED
                BY <3>2, <4>1, <4>2 DEF Calibrating, Unused
        <3> QED
            BY <3>1, <3>2
    <2> QED
        BY <1>5, <1>8, <1>9, <2>1, <2>2, <2>3 DEF Tuning
<1> QED
    BY <1>4, <1>5, <1>6, <1>8, <1>10, OthersUntouched

\* Sending a command puts it, under its own number, on its way.
LEMMA SendKeeps ==
    ASSUME Tune!McuConstants, TuneInd, NEW c \in Callers, Tune!Send(c)
    PROVE  TuneInd'
<1>1. Tune!Command(c) \in McuCommands /\ Tune!Command(c).seq = job[c].seq
      /\ Tune!Command(c).half = job[c].half
    BY DEF TuneInd, TuneFields, Tune!Command, McuCommands, McuJobs
<1>2. /\ cmdQueue' \in Seq(McuCommands) /\ Len(cmdQueue') = Len(cmdQueue) + 1 /\ cmdQueue' # <<>>
      /\ \A i \in 1..Len(cmdQueue) : cmdQueue'[i] = cmdQueue[i]
      /\ cmdQueue'[Len(cmdQueue')] = Tune!Command(c)
    BY <1>1, AppendProperties DEF TuneInd, TuneFields, Tune!Send
<1>3. /\ job' \in [Callers -> McuJobs]
      /\ job'[c] = [job[c] EXCEPT !.pc = "poll", !.tries = Tries]
      /\ \A d \in Callers \ {c} : job'[d] = job[d]
    <2>1. job[c] \in McuJobs /\ Tries \in Int
        BY DEF TuneInd, TuneFields, Tune!McuConstants
    <2>2. [job[c] EXCEPT !.pc = "poll", !.tries = Tries] \in McuJobs
        BY <2>1 DEF McuJobs
    <2>3. job' = [job EXCEPT ![c] = [job[c] EXCEPT !.pc = "poll", !.tries = Tries]]
        BY DEF Tune!Send
    <2> QED
        BY <2>2, <2>3 DEF TuneInd, TuneFields
<1>4. job[c].pc = "send" /\ job[c].outcome = "none"
    BY DEF Tune!Send, TuneInd, Tuning
<1>5. job'[c].pc = "poll" /\ job'[c].outcome = "none" /\ job'[c].half = job[c].half
      /\ job'[c].chan = job[c].chan /\ job'[c].seq = job[c].seq
    <2>1. job[c] \in McuJobs
        BY DEF TuneInd, TuneFields
    <2> QED
        BY <1>3, <1>4, <2>1 DEF McuJobs
<1>6. TuneFields'
    BY <1>2, <1>3 DEF Tune!Send, TuneInd, TuneFields, McuJobs
<1>7. Unused(job[c].seq) => OnItsWay(c)'
    BY <1>1, <1>2, <1>5 DEF Tune!Send, TuneInd, TuneFields, Unused, OnItsWay
<1>8. Tuning(c)'
    <2>1. UNCHANGED <<rf, ran, share>>
        BY DEF Tune!Send
    <2> QED
        BY <1>4, <1>5, <1>7, <2>1 DEF TuneInd, Tuning, Calibrating
<1> QED
    BY <1>3, <1>4, <1>6, <1>8, OthersUntouched DEF Tune!Send

\* A transfer that fails: the attempt, or the command, is given up.
LEMMA GiveUpKeeps ==
    ASSUME TuneInd, NEW c \in Callers, Tune!SendTimeout(c) \/ Tune!UsbError(c)
    PROVE  TuneInd'
<1>1. job[c].pc # "idle" /\ (Tune!NextAttempt(c) \/ Tune!Fail(c))
      /\ UNCHANGED <<cmdQueue, fifo, rf, curChannel, ran, share>>
    BY DEF Tune!SendTimeout, Tune!UsbError
<1>2. mcuSeq' \in Nat
    BY DEF Tune!SendTimeout, Tune!UsbError, TuneInd, TuneFields, McuJobs
<1>3. TuneFields'
    BY <1>1, <1>2, AttemptEnds DEF TuneInd, TuneFields
<1>4. Tuning(c)'
    BY <1>1, AttemptEnds DEF TuneInd, Tuning, Calibrating
<1> QED
    BY <1>1, <1>3, <1>4, AttemptEnds, OthersUntouched

\* The endpoint gives up its oldest response, and what is left of it.
LEMMA FifoTail ==
    ASSUME TuneFields, fifo # <<>>
    PROVE  /\ Tail(fifo) \in Seq(McuResponses)
           /\ Len(Tail(fifo)) = Len(fifo) - 1
           /\ \A i \in 1..Len(Tail(fifo)) : Tail(fifo)[i] = fifo[i + 1] /\ i + 1 \in 1..Len(fifo)
           /\ Head(fifo) = fifo[1] /\ 1 \in 1..Len(fifo)
BY HeadTailProperties DEF TuneFields

\* What a poll leaves of the endpoint.
Remains(new) ==
    /\ new \in Seq(McuResponses)
    /\ \A i \in 1..Len(new) : \E k \in 1..Len(fifo) : new[i] = fifo[k]

\* What remains of the response FIFO after one is taken.
LEMMA FifoShrinks ==
    ASSUME TuneFields
    PROVE  Remains(fifo) /\ (fifo # <<>> => Remains(Tail(fifo)))
<1>1. Remains(fifo)
    BY DEF Remains, TuneFields
<1>2. ASSUME fifo # <<>> PROVE Remains(Tail(fifo))
    <2> DEFINE new == Tail(fifo)
    <2>1. /\ new \in Seq(McuResponses)
          /\ \A i \in 1..Len(new) : new[i] = fifo[i + 1] /\ i + 1 \in 1..Len(fifo)
        BY <1>2, FifoTail
    <2> HIDE DEF new
    <2>2. ASSUME NEW i \in 1..Len(new) PROVE \E k \in 1..Len(fifo) : new[i] = fifo[k]
        BY <2>1
    <2>3. Remains(new)
        BY <2>1, <2>2 DEF Remains
    <2> QED
        BY <2>3 DEF new
<1> QED
    BY <1>1, <1>2

\* A poll that is not the answer, or that finds nothing.
LEMMA MissKeeps ==
    ASSUME TuneInd, NEW c \in Callers, job[c].pc = "poll",
           Tune!PollMissed(c), Remains(fifo'),
           UNCHANGED <<mcuSeq, cmdQueue, rf, curChannel, ran, share>>
    PROVE  TuneInd'
<1>1. /\ fifo' \in Seq(McuResponses)
      /\ \A i \in 1..Len(fifo') : \E k \in 1..Len(fifo) : fifo'[i] = fifo[k]
    BY DEF Remains
<1>2. CASE job[c].tries = 1
    <2>1. Tune!NextAttempt(c)
        BY <1>2 DEF Tune!PollMissed
    <2>2. TuneFields'
        BY <1>1, <2>1, AttemptEnds DEF TuneInd, TuneFields
    <2>3. Tuning(c)'
        BY <2>1, AttemptEnds DEF TuneInd, Tuning, Calibrating
    <2> QED
        BY <2>1, <2>2, <2>3, AttemptEnds, OthersUntouched
<1>3. CASE job[c].tries # 1
    <2>1. /\ job' \in [Callers -> McuJobs]
          /\ job'[c] = [job[c] EXCEPT !.tries = job[c].tries - 1]
          /\ \A d \in Callers \ {c} : job'[d] = job[d]
        <3>1. job[c] \in McuJobs
            BY DEF TuneInd, TuneFields
        <3>2. [job[c] EXCEPT !.tries = job[c].tries - 1] \in McuJobs
            BY <3>1 DEF McuJobs
        <3>3. job' = [job EXCEPT ![c] = [job[c] EXCEPT !.tries = job[c].tries - 1]]
            BY <1>3 DEF Tune!PollMissed
        <3> QED
            BY <3>2, <3>3 DEF TuneInd, TuneFields
    <2>2. /\ job'[c].pc = job[c].pc /\ job'[c].outcome = job[c].outcome
          /\ job'[c].half = job[c].half /\ job'[c].chan = job[c].chan /\ job'[c].seq = job[c].seq
        BY <2>1 DEF TuneInd, TuneFields, McuJobs
    <2>3. OnItsWay(c) => OnItsWay(c)'
        BY <1>1, <2>2 DEF OnItsWay
    <2>4. WasRun(c) => WasRun(c)'
        BY <1>1, <2>2 DEF WasRun
    <2>5. TuneFields'
        BY <1>1, <2>1 DEF TuneInd, TuneFields
    <2>6. Tuning(c)'
        BY <2>2, <2>3, <2>4 DEF TuneInd, Tuning, Calibrating, Tune!Complete
    <2> QED
        BY <2>1, <2>5, <2>6, OthersUntouched
<1> QED
    BY <1>2, <1>3

\* CMD_DONE for the number a caller waits for: the command was run, and no older
\* one is left.
LEMMA AnswerKeeps ==
    ASSUME TuneInd, NEW c \in Callers, job[c].pc = "poll",
           fifo # <<>>, fifo' = Tail(fifo), Tune!Answers(c, Head(fifo)), Tune!Answered(c),
           UNCHANGED <<mcuSeq, cmdQueue, rf, ran, share>>
    PROVE  TuneInd'
<1>1. TuneFields /\ job[c].outcome = "none"
    BY DEF TuneInd, Tuning
<1>2. share[c] = "alone" => cmdQueue = <<>> /\ job[c].half \in ran
    BY <1>1, FifoTail DEF TuneInd, Tuning, Calibrating, OnItsWay, WasRun, Tune!Answers
<1>3. fifo' \in Seq(McuResponses)
    BY <1>1, FifoTail
<1>4. CASE job[c].half = "tx"
    <2>1. /\ job' \in [Callers -> McuJobs]
          /\ job'[c].pc = "drain" /\ job'[c].outcome = job[c].outcome /\ job'[c].chan = job[c].chan
          /\ \A d \in Callers \ {c} : job'[d] = job[d]
        BY <1>1, <1>4 DEF Tune!Answered, Tune!Halves, TuneFields, McuJobs
    <2>2. TuneFields'
        BY <1>1, <1>3, <2>1 DEF TuneFields
    <2>3. Tuning(c)'
        BY <1>1, <1>2, <1>4, <2>1 DEF TuneInd, Tuning, Calibrating
    <2> QED
        BY <2>1, <2>2, <2>3, OthersUntouched
<1>5. CASE job[c].half # "tx"
    <2>1. /\ job' \in [Callers -> McuJobs]
          /\ job'[c].pc = "idle" /\ job'[c].chan = job[c].chan /\ curChannel' = job[c].chan
          /\ \A d \in Callers \ {c} : job'[d] = job[d]
        <3> DEFINE j == Tune!IdleJob("ok", job[c].chan)
        <3>1. j \in McuJobs /\ j.pc = "idle" /\ j.chan = job[c].chan
            BY <1>1 DEF Tune!IdleJob, Tune!Halves, TuneFields, McuJobs
        <3>2. job' = [job EXCEPT ![c] = j] /\ curChannel' = job[c].chan
            BY <1>5 DEF Tune!Answered
        <3> HIDE DEF j
        <3> QED
            BY <1>1, <3>1, <3>2 DEF TuneFields
    <2>2. job[c].half = "rx" /\ ran \subseteq {"tx", "rx"}
        BY <1>1, <1>5 DEF TuneFields, McuJobs, Tune!Halves
    <2>3. share[c] = "alone" => ran = {"tx", "rx"}
        BY <1>2, <2>2 DEF TuneInd, Tuning, Calibrating
    <2>4. share[c] = "alone" => Tune!Complete(c)'
        BY <1>2, <2>1, <2>3 DEF TuneInd, Tuning, Tune!Complete, Tune!Halves
    <2>5. TuneFields'
        BY <1>1, <1>3, <2>1 DEF TuneFields
    <2>6. Tuning(c)'
        BY <2>1, <2>4 DEF Tuning, Calibrating
    <2> QED
        BY <2>1, <2>5, <2>6, OthersUntouched
<1> QED
    BY <1>4, <1>5

\* The firmware runs or rejects the oldest command.
LEMMA ExecuteKeeps ==
    ASSUME TuneInd, NEW done \in BOOLEAN, Tune!Execute(done)
    PROVE  TuneInd'
<1> DEFINE cmd == Head(cmdQueue)
           rsp == [seq |-> cmd.seq, done |-> done]
<1>1. /\ cmdQueue # <<>> /\ cmdQueue' = Tail(cmdQueue) /\ fifo' = Append(fifo, rsp)
      /\ ran' = IF done THEN ran \cup {cmd.half} ELSE ran
      /\ UNCHANGED <<mcuSeq, job, rf, curChannel, share>>
    BY DEF Tune!Execute
<1>2. /\ cmd \in McuCommands /\ cmd = cmdQueue[1]
      /\ cmdQueue' \in Seq(McuCommands) /\ Len(cmdQueue') = Len(cmdQueue) - 1
      /\ \A i \in 1..Len(cmdQueue') : cmdQueue'[i] = cmdQueue[i + 1]
    BY <1>1, HeadTailProperties DEF TuneInd, TuneFields
<1>3. cmd.half \in Tune!Halves /\ cmd.seq \in Nat
    BY <1>2 DEF McuCommands
<1>4. rsp \in McuResponses /\ rsp.seq = cmd.seq /\ rsp.done = done
    BY <1>3 DEF McuResponses
<1>5. /\ fifo' \in Seq(McuResponses) /\ Len(fifo') = Len(fifo) + 1
      /\ \A i \in 1..Len(fifo) : fifo'[i] = fifo[i]
      /\ fifo'[Len(fifo) + 1] = rsp
    BY <1>1, <1>4, AppendProperties DEF TuneInd, TuneFields
<1>6. /\ ran' \in SUBSET Tune!Halves /\ ran \subseteq ran'
      /\ done => cmd.half \in ran'
    BY <1>1, <1>3 DEF TuneInd, TuneFields
<1>7. Len(cmdQueue) \in Nat \ {0} /\ Len(fifo) \in Nat
    BY <1>1, EmptySeq, LenProperties DEF TuneInd, TuneFields
<1>8. TuneFields'
    BY <1>1, <1>2, <1>5, <1>6 DEF TuneInd, TuneFields
<1>9. SUFFICES ASSUME NEW c \in Callers PROVE Tuning(c)' /\ ToItself(c)'
    BY <1>8, <1>9 DEF TuneInd
<1>10. Unused(job[c].seq) => Unused(job[c].seq)'
    BY <1>1, <1>2, <1>4, <1>5, <1>7 DEF Unused
<1>11. OnItsWay(c) => OnItsWay(c)' \/ WasRun(c)'
    <2>1. SUFFICES ASSUME OnItsWay(c) PROVE OnItsWay(c)' \/ WasRun(c)'
        OBVIOUS
    <2>2. CASE Len(cmdQueue) = 1
        <3>1. cmdQueue' = <<>>
            BY <1>2, <2>2, EmptySeq
        <3>2. cmd.half = job[c].half
            BY <1>2, <2>1, <2>2 DEF OnItsWay
        <3> QED
            BY <1>1, <1>4, <1>5, <1>6, <1>7, <2>1, <3>1, <3>2 DEF OnItsWay, WasRun
    <2>3. CASE Len(cmdQueue) # 1
        <3>1. cmd.seq # job[c].seq
            BY <1>2, <1>7, <2>1, <2>3 DEF OnItsWay
        <3>2. cmdQueue' # <<>> /\ cmdQueue'[Len(cmdQueue')] = cmdQueue[Len(cmdQueue)]
            BY <1>2, <1>7, <2>3
        <3>3. \A i \in 1..(Len(cmdQueue') - 1) : cmdQueue'[i].seq # job[c].seq
            <4>1. ASSUME NEW i \in 1..(Len(cmdQueue') - 1) PROVE cmdQueue'[i].seq # job[c].seq
                <5>1. i + 1 \in 1..(Len(cmdQueue) - 1) /\ i \in 1..Len(cmdQueue')
                    BY <1>2, <1>7, <4>1
                <5> QED
                    BY <1>2, <2>1, <5>1 DEF OnItsWay
            <4> QED
                BY <4>1
        <3>4. \A i \in 1..Len(fifo') : fifo'[i].seq # job[c].seq
            BY <1>4, <1>5, <1>7, <2>1, <3>1 DEF OnItsWay
        <3> QED
            BY <1>1, <2>1, <3>2, <3>3, <3>4 DEF OnItsWay
    <2> QED
        BY <2>2, <2>3
<1>12. ~WasRun(c) /\ ~Tune!Complete(c)
    BY <1>1 DEF WasRun, Tune!Complete
<1>13. share[c] = "alone" => Calibrating(c)'
    BY <1>1, <1>6, <1>10, <1>11, <1>12 DEF TuneInd, Tuning, Calibrating
<1> QED
    BY <1>1, <1>13 DEF TuneInd, Tuning, ToItself

\* Every step of the MCU's exchange keeps the tune invariant.
LEMMA TuneStep ==
    ASSUME Tune!McuConstants, TuneInd, [Tune!Next]_Tune!vars
    PROVE  TuneInd'
<1>1. ASSUME NEW c \in Callers, NEW ch \in Channels,
             Tune!SetChannel(c, ch) \/ Tune!SetChannelFails(c, ch)
      PROVE  TuneInd'
    BY <1>1, TuneBegins
<1>2. ASSUME NEW c \in Callers, Tune!Caller(c) PROVE TuneInd'
    <2>1. CASE Tune!Drain(c)
        BY <2>1, DrainKeeps
    <2>2. CASE Tune!Send(c)
        BY <2>2, SendKeeps
    <2>3. CASE Tune!SendTimeout(c) \/ Tune!UsbError(c)
        BY <2>3, GiveUpKeeps
    <2>4. CASE Tune!Poll(c)
        <3>1. CASE Tune!Answers(c, Head(fifo)) /\ Tune!Answered(c)
            BY <2>4, <3>1, AnswerKeeps DEF Tune!Poll
        <3>2. CASE ~Tune!Answers(c, Head(fifo)) /\ Tune!PollMissed(c) /\ UNCHANGED curChannel
            BY <2>4, <3>2, MissKeeps, FifoShrinks DEF Tune!Poll, TuneInd
        <3> QED
            BY <2>4, <3>1, <3>2 DEF Tune!Poll
    <2>5. CASE Tune!PollTimeout(c)
        BY <2>5, MissKeeps, FifoShrinks DEF Tune!PollTimeout, TuneInd
    <2> QED
        BY <1>2, <2>1, <2>2, <2>3, <2>4, <2>5 DEF Tune!Caller
<1>3. ASSUME NEW done \in BOOLEAN, Tune!Execute(done) PROVE TuneInd'
    BY <1>3, ExecuteKeeps
<1>4. CASE UNCHANGED Tune!vars
    BY <1>4 DEF Tune!vars, TuneInd, TuneFields, Tuning, Calibrating, ToItself, Unused, OnItsWay, WasRun,
                Tune!Complete
<1> QED
    BY <1>1, <1>2, <1>3, <1>4 DEF Tune!Next

\* A channel change that returned 0 was calibrated by the firmware, both halves, for
\* any number of callers, attempts, polls and sequence numbers: if no other tune was
\* under way or began since, and the chip held none of its numbers when it took them,
\* whatever earlier tunes, shared or not, left on the way (mcu_cmd, do_set_channel).
THEOREM TuneCalibrates == Tune!McuConstants => (Tune!Spec => []TunedMeansCalibrated)
<1> SUFFICES ASSUME Tune!McuConstants PROVE Tune!Spec => []TunedMeansCalibrated
    OBVIOUS
<1>1. Tune!Init => TuneInd
    BY TuneInitial
<1>2. TuneInd /\ [Tune!Next]_Tune!vars => TuneInd'
    BY TuneStep
<1>3. TuneInd => TunedMeansCalibrated
    BY DEF TuneInd, Tuning, Calibrating, TunedMeansCalibrated, Tune!TunedMeansCalibrated
<1> QED
    BY <1>1, <1>2, <1>3, PTL DEF Tune!Spec

=============================================================================
