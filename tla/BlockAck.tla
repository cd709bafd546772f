------------------------------ MODULE BlockAck ------------------------------
(***************************************************************************)
(* The Block Ack agreement of rf_2a4m1_ht.c and rf_2a4m1_sme.c: a STA asks *)
(* for an agreement with an ADDBA Request, the responder answers, the STA  *)
(* adopts the answer.  The responder is this code's own AP, which always   *)
(* accepts, or a foreign AP (External), which declines or accepts with a   *)
(* window of its own.                                                      *)
(*                                                                         *)
(* The receiver of an Action frame keeps no replay counter: a frame sent   *)
(* may be received late, twice, out of order or never, with MFP as long as *)
(* the key it was protected with is in use.  Each end is initialised for   *)
(* itself, and a STA that leaves by a Deauth keeps its keys and agreement. *)
(***************************************************************************)
EXTENDS Naturals

CONSTANTS
    Tids,     \* traffic identifiers (0..15 in the code)
    Offer,    \* the window ba_establish asks for (64)
    Windows,  \* windows a foreign AP may answer with; 0 leaves it unsaid
    MaxReqs,  \* bound: ADDBA Requests sent
    MaxSas    \* bound: associations

BlockAckConstants ==
    /\ Offer \in Nat \ {0}
    /\ Windows \subseteq Nat
    /\ MaxReqs \in Nat
    /\ MaxSas \in Nat \ {0}

VARIABLES
    foreign, \* the AP is not this code's
    key,     \* each end's key for Action frames: the association that derived it,
             \* 0 without mfp_active (they go in the clear)
    up,      \* the STA's state is CONNECTED
    offer,   \* the key of the M3 the STA may still take, if any
    lastSa,  \* the last association made
    ba,      \* the STA's ba_agreement
    agreed,  \* history: the key under which the STA completed it
    count,   \* ba_tx_req and ba_ok
    recip,   \* the AP's ba_recipient, ba_recip_tid and ba_recip_bufsize
    air      \* the ADDBA frames sent

vars == <<foreign, key, up, offer, lastSa, ba, agreed, count, recip, air>>

saVars == <<key, up, offer, lastSa>>

End == {"sta", "ap"}

\* The dialog token of every request (rf_2a4m1_sme_ba_establish passes 1).
Token == 1

\* The fields of the Block Ack Parameter Set that build and parse carry over:
\* the TID and the buffer size (the policy bits and the timeout are echoed).
Request == [type : {"ADDBA_REQ"}, key : Nat, token : {Token}, tid : Tids, buf : Nat]
Response == [type : {"ADDBA_RSP"}, key : Nat, token : {Token}, tid : Tids, buf : Nat,
             status : {"SUCCESS", "DECLINED"}]

Idle == [state |-> "IDLE", tid |-> 0, token |-> 0, buf |-> 0]
NoRecipient == [is |-> FALSE]
NoCounts == [txReq |-> 0, ok |-> 0]

Init ==
    /\ foreign \in BOOLEAN
    /\ \E k \in {0, 1} : key = [e \in End |-> k]
    /\ up = TRUE
    /\ offer = {}
    /\ lastSa = 1
    /\ ba = Idle
    /\ agreed = 0
    /\ count = NoCounts
    /\ recip = NoRecipient
    /\ air = {}

\* rf_2a4m1_sme_ba_establish and rf_2a4m1_ba_originator_addba: in any state of
\* the agreement, which is overwritten.
BaEstablish(tid) ==
    /\ up
    /\ count.txReq < MaxReqs
    /\ ba' = [state |-> "PENDING", tid |-> tid, token |-> Token, buf |-> Offer]
    /\ count' = [count EXCEPT !.txReq = @ + 1]
    /\ air' = air \cup {[type |-> "ADDBA_REQ", key |-> key["sta"], token |-> Token,
                         tid |-> tid, buf |-> Offer]}
    /\ UNCHANGED <<foreign, saVars, agreed, recip>>

\* The Action branch of rf_2a4m1_rx_dot11_mgmt, in any state but FAILED: with MFP a
\* frame in the clear or under another key is dropped, without it nothing tells two
\* associations apart (a protected frame is then no Action frame to speak of).
Opens(e, f) == f.key = key[e]

\* rf_2a4m1_ba_build_addba_rsp
Reply(f, status, buf) ==
    [type |-> "ADDBA_RSP", key |-> key["ap"], token |-> f.token, tid |-> f.tid, buf |-> buf,
     status |-> status]

\* Mutant: the AP answers and records no agreement.
ApOnAddbaReqForgets(f) ==
    /\ ~foreign
    /\ f \in air
    /\ f.type = "ADDBA_REQ"
    /\ Opens("ap", f)
    /\ air' = air \cup {Reply(f, "SUCCESS", f.buf)}
    /\ UNCHANGED <<foreign, saVars, ba, agreed, count, recip>>

\* rf_2a4m1_ba_ap_on_addba_req: accepts, in the window asked for.
ApOnAddbaReq(f) ==
    /\ ~foreign
    /\ f \in air
    /\ f.type = "ADDBA_REQ"
    /\ Opens("ap", f)
    /\ recip' = [is |-> TRUE, tid |-> f.tid, buf |-> f.buf]
    /\ air' = air \cup {Reply(f, "SUCCESS", f.buf)}
    /\ UNCHANGED <<foreign, saVars, ba, agreed, count>>

\* A foreign AP accepts in a window of its own, or declines.
ForeignAnswer(f, buf) ==
    /\ foreign
    /\ f \in air
    /\ f.type = "ADDBA_REQ"
    /\ Opens("ap", f)
    /\ air' = air \cup {Reply(f, "SUCCESS", buf)}
    /\ UNCHANGED <<foreign, saVars, ba, agreed, count, recip>>

ForeignDecline(f) ==
    /\ foreign
    /\ f \in air
    /\ f.type = "ADDBA_REQ"
    /\ Opens("ap", f)
    /\ air' = air \cup {Reply(f, "DECLINED", f.buf)}
    /\ UNCHANGED <<foreign, saVars, ba, agreed, count, recip>>

\* Mutant: the TID is not compared.
MatchesTokenOnly(f) == f.token = ba.token

\* The checks of rf_2a4m1_ba_originator_on_addba_rsp.
Matches(f) == f.token = ba.token /\ f.tid = ba.tid

\* rf_2a4m1_ba_originator_on_addba_rsp, past the checks
Adopt(f) ==
    IF f.status # "SUCCESS" THEN [ba EXCEPT !.state = "IDLE"]
    ELSE [ba EXCEPT !.state = "ESTABLISHED", !.buf = IF f.buf # 0 THEN f.buf ELSE @]

\* Mutant: a repeated response is counted again (capped).
StaOnAddbaRspUngated(f) ==
    /\ f \in air
    /\ f.type = "ADDBA_RSP"
    /\ Opens("sta", f)
    /\ ba' = IF Matches(f) /\ ba.state = "PENDING" THEN Adopt(f) ELSE ba
    /\ count' = [count EXCEPT !.ok = IF ba'.state = "ESTABLISHED" /\ @ < 3 THEN @ + 1 ELSE @]
    /\ agreed' = IF ba'.state = "ESTABLISHED" THEN key["sta"] ELSE agreed
    /\ UNCHANGED <<foreign, saVars, recip, air>>

\* rf_2a4m1_sme_demux, ADDBA_RSP: in state PENDING only.
StaOnAddbaRsp(f) ==
    /\ f \in air
    /\ f.type = "ADDBA_RSP"
    /\ Opens("sta", f)
    /\ ba.state = "PENDING"
    /\ ba' = IF Matches(f) THEN Adopt(f) ELSE ba
    /\ count' = [count EXCEPT !.ok = IF ba'.state = "ESTABLISHED" THEN @ + 1 ELSE @]
    /\ agreed' = IF ba'.state = "ESTABLISHED" THEN key["sta"] ELSE agreed
    /\ UNCHANGED <<foreign, saVars, recip, air>>

\* rf_2a4m1_sme_init clears the keys and the Block Ack of one end; the other is not told.
\* An M3 that is on its way answers the nonce the STA had.
SmeInitSta ==
    /\ key' = [key EXCEPT !["sta"] = 0]
    /\ up' = FALSE
    /\ offer' = {}
    /\ ba' = Idle
    /\ agreed' = 0
    /\ count' = NoCounts
    /\ UNCHANGED <<foreign, lastSa, recip, air>>

SmeInitAp ==
    /\ key' = [key EXCEPT !["ap"] = 0]
    /\ recip' = NoRecipient
    /\ UNCHANGED <<foreign, up, offer, lastSa, ba, agreed, count, air>>

\* A Deauth or Disassoc the STA honours, whoever sent it: keys and agreement stay.
Deauth ==
    /\ up
    /\ up' = FALSE
    /\ UNCHANGED <<foreign, key, offer, lastSa, ba, agreed, count, recip, air>>

\* The join of module Sme, where the AP leaves CONNECTED by a Deauth of its own if need
\* be.  The AP has the new key with the M2, MFP negotiated or not,
ApDerives(mfp) ==
    /\ ~up
    /\ lastSa < MaxSas
    /\ lastSa' = lastSa + 1
    /\ key' = [key EXCEPT !["ap"] = IF mfp THEN lastSa + 1 ELSE 0]
    /\ offer' = {key'["ap"]}
    /\ UNCHANGED <<foreign, up, ba, agreed, count, recip, air>>

\* and the STA is CONNECTED with the M3.
StaJoins ==
    /\ ~up
    /\ \E k \in offer : key' = [key EXCEPT !["sta"] = k]
    /\ up' = TRUE
    /\ offer' = {}
    /\ UNCHANGED <<foreign, lastSa, ba, agreed, count, recip, air>>

Next ==
    \/ \E tid \in Tids : BaEstablish(tid)
    \/ \E f \in air : ApOnAddbaReq(f) \/ StaOnAddbaRsp(f)
    \/ \E f \in air, buf \in Windows : ForeignAnswer(f, buf)
    \/ \E f \in air : ForeignDecline(f)
    \/ SmeInitSta
    \/ SmeInitAp
    \/ Deauth
    \/ \E mfp \in BOOLEAN : ApDerives(mfp)
    \/ StaJoins

Spec == Init /\ [][Next]_vars

-----------------------------------------------------------------------------
(* Properties.                                                             *)

\* Type invariant: a live agreement always has a window.
TypeOK ==
    /\ key \in [End -> 0..MaxSas]
    /\ ba.state \in {"IDLE", "PENDING", "ESTABLISHED"}
    /\ ba.state # "IDLE" => ba.tid \in Tids /\ ba.buf \in Nat \ {0}
    /\ air \subseteq Request \cup Response

\* An agreement is ESTABLISHED only for a TID its responder accepted under the
\* key the STA had then, in the window it answered with: answers to an earlier
\* request for another TID, declined ones and those under another key never
\* complete it, although every request carries the same dialog token.
EstablishedIsAccepted ==
    ba.state = "ESTABLISHED" =>
        \E f \in air : /\ f.type = "ADDBA_RSP"
                       /\ f.status = "SUCCESS"
                       /\ f.key = agreed
                       /\ f.tid = ba.tid
                       /\ ba.buf = IF f.buf = 0 THEN Offer ELSE f.buf

\* No request is counted as agreed twice, however often its answer arrives,
\* and the one that is still open is not counted.
AgreedOncePerRequest ==
    count.ok + (IF ba.state = "PENDING" THEN 1 ELSE 0) <= count.txReq

\* The STA asked for no other TID under this key.
AskedOnlyFor(tid, k) == \A f \in air : f.type = "ADDBA_REQ" /\ f.key = k => f.tid = tid

\* With this code's AP and MFP, an agreement the STA completed under the key the AP
\* still has is on record there, in the same window.  The AP has one record, which a
\* late or repeated request for another TID overwrites (rf_2a4m1_ba_ap_on_addba_req):
\* the TID is the same if the STA asked for no other one.  An agreement that outlived
\* its association at one end is on record nowhere.
RecipientKnows ==
    ~foreign /\ ba.state = "ESTABLISHED" /\ agreed = key["ap"] /\ agreed # 0 =>
        /\ recip.is /\ recip.buf = ba.buf
        /\ AskedOnlyFor(ba.tid, agreed) => recip.tid = ba.tid

\* What the Block Ack negotiation keeps through late and repeated answers.
BlockAckInv == TypeOK /\ EstablishedIsAccepted /\ AgreedOncePerRequest /\ RecipientKnows

=============================================================================
