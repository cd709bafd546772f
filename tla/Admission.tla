----------------------------- MODULE Admission -----------------------------
(***************************************************************************)
(* QoS admission control: the admitted-stream table and the per-AC budgets *)
(* of rf_2a4m1_qos.c, kept by a STA and by its AP, and the ADDTS / DELTS   *)
(* exchange of rf_2a4m1_sme.c that fills and frees them.                   *)
(*                                                                         *)
(* ADDTS and DELTS travel without a MIC, a counter or an acknowledgement   *)
(* of their own: a frame sent stays in `air' and may be received late,     *)
(* twice, out of order, after a reconnect or never.                        *)
(***************************************************************************)
EXTENDS Naturals, FiniteSets, FiniteSetsExt

CONSTANTS
    Tsids,      \* stream identifiers in use (0..15 in the code)
    Slots,      \* entries of the table (RF_2A4M1_QOS_ADM_MAX_TS, 8)
    Times,      \* medium times a request may ask for
    DefaultLimit, \* RF_2A4M1_QOS_ADM_DEFAULT_AC_LIMIT
    Limits,     \* budgets set_admission_limit may set
    Limited,    \* the nodes whose budgets are set
    Word,       \* the modulus of the uint32 counters
    MaxReqs     \* bound: ADDTS requests sent

AdmissionConstants ==
    /\ Times \subseteq Nat
    /\ Limits \subseteq Nat
    /\ Limited \subseteq {"sta", "ap"}
    /\ Slots \in Nat \ {0}
    /\ Word \in Nat
    /\ DefaultLimit \in Nat
    /\ \A limit \in Limits \cup {DefaultLimit} : limit < Word
    /\ MaxReqs \in Nat

Node == {"sta", "ap"}

\* The ACs admission control is mandatory for: addts_request takes no other.
Acs == {"VI", "VO"}

\* rf_2a4m1_addts_ac_up and rf_2a4m1_qos_up_to_ac: the AC crosses the air as
\* a user priority.
AcUp(ac) == IF ac = "VO" THEN 6 ELSE 5
UpToAc(up) == <<"BE", "BK", "BK", "BE", "VI", "VI", "VO", "VO">>[up + 1]

Free == [inUse |-> FALSE, mt |-> 0]

VARIABLES
    ts,       \* admission.ts: the table of each node
    acTotal,  \* admission.ac_total
    acLimit,  \* admission.ac_limit
    up,       \* the node is CONNECTED with qos_enabled
    dialog,   \* the STA's addts_dialog
    resp,     \* the STA's addts_resp_received and addts_last_status
    air,      \* the frames sent
    granted   \* history: the streams the AP has admitted

vars == <<ts, acTotal, acLimit, up, dialog, resp, air, granted>>

\* A TSPEC, by what admission reads of it.
Tspec == [tsid : Tsids, prio : 0..7, mt : Nat]

Frame == [type : {"ADDTS_REQ"}, dialog : Nat, tspec : Tspec]
            \cup [type : {"ADDTS_RSP"}, dialog : Nat, status : {"ADMITTED", "REFUSED"}, tspec : Tspec]
            \cup [type : {"DELTS"}, to : Node, tsid : Tsids]

Entry == {Free} \cup [inUse : {TRUE}, tsid : Tsids, ac : Acs, mt : Nat]

EmptyTable == [i \in 1..Slots |-> Free]
NoAirtime == [ac \in Acs |-> 0]
DefaultLimits == [ac \in Acs |-> DefaultLimit]
NoResp == [received |-> FALSE, status |-> "NONE"]

Init ==
    /\ ts = [n \in Node |-> EmptyTable]
    /\ acTotal = [n \in Node |-> NoAirtime]
    /\ acLimit = [n \in Node |-> DefaultLimits]
    /\ up = [n \in Node |-> TRUE]
    /\ dialog = 0
    /\ resp = NoResp
    /\ air = {}
    /\ granted = {}

-----------------------------------------------------------------------------
(* The admitted-stream table.                                              *)

\* rf_2a4m1_adm_find: the slots that hold a stream.
Holding(n, tsid) == {i \in 1..Slots : ts[n][i].inUse /\ ts[n][i].tsid = tsid}

FreeSlots(n) == {i \in 1..Slots : ~ts[n][i].inUse}

\* Mutant: the unsigned subtraction may wrap.
RoomUnclamped(n, ac) == (acLimit[n][ac] + Word - acTotal[n][ac]) % Word

\* The budget left, guarded: a lowered limit may lie below the total.
Room(n, ac) ==
    IF acLimit[n][ac] >= acTotal[n][ac] THEN acLimit[n][ac] - acTotal[n][ac] ELSE 0

\* Mutant: an admitted stream is admitted again.
AdmitResultDup(n, t) ==
    IF t.mt > Room(n, UpToAc(t.prio)) THEN "REFUSED_LIMIT"
    ELSE IF FreeSlots(n) = {} THEN "REFUSED_FULL"
    ELSE "OK"

\* rf_2a4m1_qos_admission_admit: the reason it returns.
AdmitResult(n, t) ==
    IF Holding(n, t.tsid) # {} THEN "REFUSED_DUP"
    ELSE IF t.mt > Room(n, UpToAc(t.prio)) THEN "REFUSED_LIMIT"
    ELSE IF FreeSlots(n) = {} THEN "REFUSED_FULL"
    ELSE "OK"

\* ... and what it does to the table.
Admit(n, t) ==
    IF AdmitResult(n, t) = "OK"
    THEN LET ac == UpToAc(t.prio)
             slot == Min(FreeSlots(n))
         IN /\ ts' = [ts EXCEPT ![n][slot] =
                        [inUse |-> TRUE, tsid |-> t.tsid, ac |-> ac, mt |-> t.mt]]
            /\ acTotal' = [acTotal EXCEPT ![n][ac] = (@ + t.mt) % Word]
    ELSE UNCHANGED <<ts, acTotal>>

\* Mutant: the airtime of a released stream is not given back.
ReleaseKeepsTotal(n, tsid) ==
    IF Holding(n, tsid) = {} THEN UNCHANGED <<ts, acTotal>>
    ELSE /\ ts' = [ts EXCEPT ![n][Min(Holding(n, tsid))] = Free]
         /\ UNCHANGED acTotal

\* rf_2a4m1_qos_admission_release: a DELTS without an ADDTS is a no-op.
Release(n, tsid) ==
    IF Holding(n, tsid) = {} THEN UNCHANGED <<ts, acTotal>>
    ELSE LET slot == Min(Holding(n, tsid))
             e == ts[n][slot]
         IN /\ acTotal' = [acTotal EXCEPT ![n][e.ac] = IF @ >= e.mt THEN @ - e.mt ELSE 0]
            /\ ts' = [ts EXCEPT ![n][slot] = Free]

-----------------------------------------------------------------------------
(* The exchange.                                                           *)

\* rf_2a4m1_sme_addts_request
AddtsRequest(tsid, ac, mt) ==
    /\ up["sta"]
    /\ dialog < MaxReqs
    /\ dialog' = dialog + 1
    /\ resp' = NoResp
    /\ air' = air \cup {[type |-> "ADDTS_REQ", dialog |-> dialog + 1,
                         tspec |-> [tsid |-> tsid, prio |-> AcUp(ac), mt |-> mt]]}
    /\ UNCHANGED <<ts, acTotal, acLimit, up, granted>>

\* rf_2a4m1_addts_ap_on_req: a refusal carries a medium time of zero.
ApOnAddtsReq(f) ==
    /\ f \in air
    /\ f.type = "ADDTS_REQ"
    /\ Admit("ap", f.tspec)
    /\ LET ok == AdmitResult("ap", f.tspec) = "OK"
       IN /\ air' = air \cup
                {[type |-> "ADDTS_RSP", dialog |-> f.dialog,
                  status |-> IF ok THEN "ADMITTED" ELSE "REFUSED",
                  tspec |-> IF ok THEN f.tspec ELSE [f.tspec EXCEPT !.mt = 0]]}
          /\ granted' = IF ok THEN granted \cup {f.tspec} ELSE granted
    /\ UNCHANGED <<acLimit, up, dialog, resp>>

\* Mutant: the status of the response is not looked at.
StaOnAddtsRespAny(f) ==
    /\ f \in air
    /\ f.type = "ADDTS_RSP"
    /\ resp' = [received |-> TRUE, status |-> f.status]
    /\ Admit("sta", f.tspec)
    /\ UNCHANGED <<acLimit, up, dialog, air, granted>>

\* rf_2a4m1_addts_sta_on_resp: the dialog token is not compared.
StaOnAddtsResp(f) ==
    /\ f \in air
    /\ f.type = "ADDTS_RSP"
    /\ resp' = [received |-> TRUE, status |-> f.status]
    /\ IF f.status = "ADMITTED" THEN Admit("sta", f.tspec) ELSE UNCHANGED <<ts, acTotal>>
    /\ UNCHANGED <<acLimit, up, dialog, air, granted>>

\* rf_2a4m1_sme_delts: the STA frees its own record first.
Delts(tsid) ==
    /\ up["sta"]
    /\ Release("sta", tsid)
    /\ air' = air \cup {[type |-> "DELTS", to |-> "ap", tsid |-> tsid]}
    /\ UNCHANGED <<acLimit, up, dialog, resp, granted>>

\* rf_2a4m1_addts_on_delts
OnDelts(f) ==
    /\ f \in air
    /\ f.type = "DELTS"
    /\ Release(f.to, f.tsid)
    /\ UNCHANGED <<acLimit, up, dialog, resp, air, granted>>

\* rf_2a4m1_sme_set_admission_limit: no stream is evicted.
SetLimit(n, ac, limit) ==
    /\ acLimit' = [acLimit EXCEPT ![n][ac] = limit]
    /\ UNCHANGED <<ts, acTotal, up, dialog, resp, air, granted>>

\* rf_2a4m1_sme_init on one node: memset and rf_2a4m1_qos_admission_init.
SmeInit(n) ==
    /\ up[n]
    /\ up' = [up EXCEPT ![n] = FALSE]
    /\ ts' = [ts EXCEPT ![n] = EmptyTable]
    /\ acTotal' = [acTotal EXCEPT ![n] = NoAirtime]
    /\ acLimit' = [acLimit EXCEPT ![n] = DefaultLimits]
    /\ resp' = IF n = "sta" THEN NoResp ELSE resp
    /\ UNCHANGED <<dialog, air, granted>>

\* The join of module Sme: both ends were re-initialised (a CONNECTED AP
\* takes no Assoc-Req).
Rejoin ==
    /\ \A n \in Node : ~up[n]
    /\ up' = [n \in Node |-> TRUE]
    /\ UNCHANGED <<ts, acTotal, acLimit, dialog, resp, air, granted>>

Next ==
    \/ \E tsid \in Tsids, ac \in Acs, mt \in Times : AddtsRequest(tsid, ac, mt)
    \/ \E f \in air : ApOnAddtsReq(f) \/ StaOnAddtsResp(f) \/ OnDelts(f)
    \/ \E tsid \in Tsids : Delts(tsid)
    \/ \E n \in Limited, ac \in Acs, limit \in Limits : SetLimit(n, ac, limit)
    \/ \E n \in Node : SmeInit(n)
    \/ Rejoin

Spec == Init /\ [][Next]_vars

-----------------------------------------------------------------------------
(* Properties.                                                             *)

\* Type invariant of the tables, the budgets and the air.
TypeOK ==
    /\ ts \in [Node -> [1..Slots -> Entry]]
    /\ acTotal \in [Node -> [Acs -> Nat]]
    /\ acLimit \in [Node -> [Acs -> Nat]]
    /\ up \in [Node -> BOOLEAN]
    /\ dialog \in 0..MaxReqs
    /\ air \subseteq Frame

Streams(n, ac) == {i \in 1..Slots : ts[n][i].inUse /\ ts[n][i].ac = ac}

\* The units of airtime that the streams of an AC hold, each with its slot.
Airtime(n, ac) == UNION {{i} \X (1..ts[n][i].mt) : i \in Streams(n, ac)}

\* The running total of an AC is the airtime of exactly the streams in the
\* table, after any order of grants, refusals, duplicates, late answers and
\* teardowns: rf_2a4m1_qos_admission_release's clamp is never needed, and no
\* airtime is leaked or counted twice.
BudgetAccounted ==
    \A n \in Node, ac \in Acs :
        acTotal[n][ac] = Cardinality(Airtime(n, ac))

\* A stream identifier occupies at most one slot, also when the request or
\* its grant is received twice ("double-add: reject, never double-count").
OneSlotPerStream ==
    \A n \in Node, t \in Tsids : Cardinality(Holding(n, t)) <= 1

\* What the STA accounts was once granted by the AP, with that airtime: a
\* refusal, late or duplicated, never enters the STA's table.
GrantBacked ==
    \A i \in 1..Slots : ts["sta"][i].inUse =>
        \E t \in granted : /\ t.tsid = ts["sta"][i].tsid
                           /\ t.mt = ts["sta"][i].mt
                           /\ UpToAc(t.prio) = ts["sta"][i].ac

\* What the admitted-stream tables keep through any order of requests, answers,
\* teardowns and limits.
AdmissionInv == TypeOK /\ BudgetAccounted /\ OneSlotPerStream /\ GrantBacked

\* Airtime is added to an AC only within the limit in force at that moment,
\* also when the limit was lowered below what is already admitted (the
\* subtraction limit - total must not wrap).
AdmitsWithinLimit ==
    [][\A n \in Node, ac \in Acs :
        acTotal'[n][ac] > acTotal[n][ac] => acTotal'[n][ac] <= acLimit[n][ac]]_vars

=============================================================================
