------------------------------ MODULE SaQuery ------------------------------
(***************************************************************************)
(* The SA Query procedure of rf_2a4m1_pmf.c and rf_2a4m1_sme.c: an AP that *)
(* receives a spurious (Re)Assoc-Req on a live MFP association answers it  *)
(* with the comeback status and asks the genuine STA whether it is still   *)
(* there.                                                                  *)
(*                                                                         *)
(* Action frames are CCMP-protected under the key of the association and   *)
(* their receiver keeps no replay counter: a frame sent stays in `air' and *)
(* may be received late, twice, out of order or never.                     *)
(***************************************************************************)
EXTENDS Naturals

CONSTANTS
    MaxRetries,   \* sa_query.max_retries (sme_init: 3)
    TimeoutTicks, \* sa_query.timeout_ticks (sme_init: 1)
    TidSpace,     \* the modulus of the uint16 transaction identifier
    MaxStarts,    \* bound: spurious (Re)Assoc-Reqs received
    MaxSas        \* bound: associations

SaQueryConstants ==
    /\ MaxRetries \in Nat \ {0}
    /\ TimeoutTicks \in Nat \ {0}
    /\ TidSpace \in Nat \ {0, 1}
    /\ MaxStarts \in Nat
    /\ MaxSas \in Nat \ {0}

\* No association: the SME is not CONNECTED.
NoSa == 0

VARIABLES
    apSa,   \* the association (its key) the AP holds, or NoSa
    staSa,  \* the association the STA holds, or NoSa
    lastSa, \* the last association made
    q,      \* the AP's rf_2a4m1_pmf_sa_query
    count,  \* sa_query_comebacks and sa_query_resolved
    air,    \* the SA Query frames sent
    serial, \* history: transactions started
    sends   \* history: requests sent of the current transaction

vars == <<apSa, staSa, lastSa, q, count, air, serial, sends>>

\* Every frame is tagged with the transaction it was sent for (a history).
Frame == [action : {"REQUEST", "RESPONSE"}, sa : Nat, tid : Nat, of : Nat]

\* rf_2a4m1_pmf_sa_query_init
Fresh == [state |-> "IDLE", tid |-> 0, next |-> 1, retries |-> 0, elapsed |-> 0]

NoCounts == [comebacks |-> 0, resolved |-> 0]

Init ==
    /\ apSa = 1
    /\ staSa = 1
    /\ lastSa = 1
    /\ q = Fresh
    /\ count = NoCounts
    /\ air = {}
    /\ serial = 0
    /\ sends = 0

Request(tid, of) == [action |-> "REQUEST", sa |-> apSa, tid |-> tid, of |-> of]

\* The successor of a transaction identifier: 0 is skipped.
NextTid(t) == IF (t + 1) % TidSpace = 0 THEN 1 ELSE (t + 1) % TidSpace

\* rf_2a4m1_pmf_ap_on_spurious_reassoc: the association is left untouched, and
\* a transaction under way is replaced by a new one.
SpuriousReassoc ==
    /\ apSa # NoSa
    /\ serial < MaxStarts
    /\ count' = [count EXCEPT !.comebacks = @ + 1]
    /\ q' = [state |-> "PENDING", tid |-> q.next, next |-> NextTid(q.next),
             retries |-> 1, elapsed |-> 0]
    /\ serial' = serial + 1
    /\ sends' = 1
    /\ air' = air \cup {Request(q.next, serial + 1)}
    /\ UNCHANGED <<apSa, staSa, lastSa>>

\* Mutant: the budget is spent by ticks instead of by requests.
TickEager ==
    /\ apSa # NoSa
    /\ q.state = "PENDING"
    /\ IF q.retries >= MaxRetries
       THEN q' = [q EXCEPT !.state = "TIMEOUT"] /\ UNCHANGED <<air, sends>>
       ELSE /\ q' = [q EXCEPT !.retries = @ + 1]
            /\ IF q.elapsed + 1 < TimeoutTicks
               THEN UNCHANGED <<air, sends>>
               ELSE air' = air \cup {Request(q.tid, serial)} /\ sends' = sends + 1
    /\ UNCHANGED <<apSa, staSa, lastSa, count, serial>>

\* rf_2a4m1_sme_sa_query_tick and rf_2a4m1_pmf_sa_query_tick: a retransmission
\* keeps the transaction identifier.
Tick ==
    /\ apSa # NoSa
    /\ q.state = "PENDING"
    /\ IF q.elapsed + 1 < TimeoutTicks
       THEN q' = [q EXCEPT !.elapsed = @ + 1] /\ UNCHANGED <<air, sends>>
       ELSE IF q.retries >= MaxRetries
       THEN q' = [q EXCEPT !.elapsed = 0, !.state = "TIMEOUT"] /\ UNCHANGED <<air, sends>>
       ELSE /\ q' = [q EXCEPT !.elapsed = 0, !.retries = @ + 1]
            /\ air' = air \cup {Request(q.tid, serial)}
            /\ sends' = sends + 1
    /\ UNCHANGED <<apSa, staSa, lastSa, count, serial>>

\* Mutant: a frame under an old key is accepted.
OpensAny(f, sa) == sa # NoSa

\* The Action branch of rf_2a4m1_rx_dot11_mgmt: a frame that does not decrypt
\* under the receiver's key is dropped.
Opens(f, sa) == sa # NoSa /\ f.sa = sa

\* rf_2a4m1_sa_query_sta_respond: the identifier is echoed.
StaRxRequest(f) ==
    /\ f \in air
    /\ f.action = "REQUEST"
    /\ Opens(f, staSa)
    /\ air' = air \cup {[f EXCEPT !.action = "RESPONSE", !.sa = staSa]}
    /\ UNCHANGED <<apSa, staSa, lastSa, q, count, serial, sends>>

\* Mutant: no query need be pending.
AnswersLoose(f) == f.tid = q.tid

\* The checks of rf_2a4m1_pmf_sa_query_on_response.
Answers(f) == q.state = "PENDING" /\ f.tid = q.tid

\* rf_2a4m1_sme_demux, SA_QUERY_RESP at the AP
ApRxResponse(f) ==
    /\ f \in air
    /\ f.action = "RESPONSE"
    /\ Opens(f, apSa)
    /\ Answers(f)
    /\ q' = [q EXCEPT !.state = "ANSWERED"]
    /\ count' = [count EXCEPT !.resolved = @ + 1]
    /\ UNCHANGED <<apSa, staSa, lastSa, air, serial, sends>>

\* rf_2a4m1_sme_init at the STA: it is gone and the AP is not told.
StaInit ==
    /\ staSa # NoSa
    /\ staSa' = NoSa
    /\ UNCHANGED <<apSa, lastSa, q, count, air, serial, sends>>

\* rf_2a4m1_sme_init at the AP
ApInit ==
    /\ apSa # NoSa
    /\ apSa' = NoSa
    /\ q' = Fresh
    /\ count' = NoCounts
    /\ sends' = 0
    /\ UNCHANGED <<staSa, lastSa, air, serial>>

\* The join and the 4-way handshake of module Sme: a new key. The AP takes
\* part only when it is not CONNECTED.
Join ==
    /\ apSa = NoSa
    /\ lastSa < MaxSas
    /\ lastSa' = lastSa + 1
    /\ apSa' = lastSa + 1
    /\ staSa' = lastSa + 1
    /\ UNCHANGED <<q, count, air, serial, sends>>

Next ==
    \/ SpuriousReassoc
    \/ Tick
    \/ \E f \in air : StaRxRequest(f) \/ ApRxResponse(f)
    \/ StaInit
    \/ ApInit
    \/ Join

Spec == Init /\ [][Next]_vars

-----------------------------------------------------------------------------
(* Properties.                                                             *)

\* Type invariant: the transaction identifier of a started query is never 0.
TypeOK ==
    /\ {apSa, staSa, lastSa} \subseteq 0..MaxSas
    /\ q.state \in {"IDLE", "PENDING", "ANSWERED", "TIMEOUT"}
    /\ q.next \in 1..(TidSpace - 1)
    /\ q.tid \in 0..(TidSpace - 1)
    /\ q.state # "IDLE" => q.tid # 0
    /\ air \subseteq Frame

\* A query is resolved only by an answer the STA gave to that transaction on
\* that association: retransmissions, restarts by further spurious requests
\* and late answers are told apart, unless a whole wrap of the identifier
\* space lies between them.
FreshAnswer ==
    q.state = "ANSWERED" =>
        \E f \in air : /\ f.action = "RESPONSE"
                       /\ f.sa = apSa
                       /\ f.tid = q.tid
                       /\ f.of = serial \/ serial - f.of >= TidSpace - 1

\* The AP gives up on a transaction only after its whole budget of requests
\* has gone out, each with a full window to be answered in.
TimeoutAfterBudget == q.state = "TIMEOUT" => sends = MaxRetries

\* No answer is counted twice: however often a response is received, an AP
\* resolves at most as many queries as it started, and an open one is not
\* among them.
ResolvedOnce ==
    count.resolved + (IF q.state \in {"PENDING", "TIMEOUT"} THEN 1 ELSE 0) <= count.comebacks

\* What SA Query keeps through losses, retries, late answers and wraps.
SaQueryInv == TypeOK /\ FreshAnswer /\ TimeoutAfterBudget /\ ResolvedOnce

=============================================================================
