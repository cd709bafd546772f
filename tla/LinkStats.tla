----------------------------- MODULE LinkStats ------------------------------
(***************************************************************************)
(* What the glue measures of a link and reports through .get_station: the  *)
(* signal, the rates and the beacon captured by the RX worker              *)
(* (rx_process_seg), and the TX-status reports of the MAC, posted to a     *)
(* FIFO of fixed depth and drained by stat_worker every 50 ms and by       *)
(* stat_report at the end of a connection.  .connect starts them afresh.   *)
(*                                                                         *)
(* Every sample carries the connect attempt it was taken in.  The RX       *)
(* worker, the two drainers and the cfg80211 operations interleave.        *)
(***************************************************************************)
EXTENDS Naturals, Sequences, FiniteSets, Functions

CONSTANTS
    Bssids,       \* the APs
    Depth,        \* entries of MT_TX_STAT_FIFO (16)
    DrainMax,     \* reports one drain reads at most (24)
    MaxConnects,  \* bound: connect attempts
    MaxTx,        \* bound: frames handed to the radio
    MaxRx,        \* bound: frames heard
    MaxErrors     \* bound: failed register reads

LinkStatsConstants ==
    {Depth, DrainMax, MaxConnects, MaxTx, MaxRx, MaxErrors} \subseteq Nat

Classes == {"CLEARTEXT", "ENCRYPTED", "BOGUS"}
Drainers == {"worker", "report"}
Kinds == {"beacon", "unicast_data", "group_data"}

VARIABLES
    bss,      \* dev->connect_bssid
    epoch,    \* history: the number of this connect attempt
    cpc,      \* where .connect is: "idle", "named", "uncaptured"
    pending,  \* dev->connect_pending
    link,     \* the SME is CONNECTED and the chip holds the key
    rssi, rxRate, txRate,  \* dev->peer_*: the attempt of the sample, 0 when not valid
    capture,  \* dev->bss_frame: the attempt of the beacon, 0 when none
    rx,       \* the RX worker: its place and its frame
    heard,    \* frames heard
    air,      \* frames handed to the radio and not reported yet
    fifo,     \* MT_TX_STAT_FIFO
    probed,   \* dev->bogus_probe_done
    posted,   \* history: frames handed to the radio, by class
    missed,   \* history: reports lost to a full FIFO or a failed read, by class
    valid,    \* dev->txs_valid, by pktid
    drain,    \* each drainer: its place, its round and the report it read
    polling,  \* dev->stat_polling
    timer,    \* stat_work is queued
    errors,   \* failed reads so far
    straddled \* history: a sample was under way when .connect started afresh

peer == <<rssi, rxRate, txRate, capture>>
conn == <<bss, epoch, cpc, pending, link>>
txs == <<air, fifo, posted, missed>>
vars == <<conn, peer, rx, heard, txs, probed, valid, drain, polling, timer, errors, straddled>>

NoRx == [at |-> "idle"]
IdleDrain == [at |-> "idle"]
Tally == [c \in Classes |-> 0]

Init ==
    /\ bss = "none" /\ epoch = 0 /\ cpc = "idle" /\ pending = FALSE /\ link = FALSE
    /\ rssi = 0 /\ rxRate = 0 /\ txRate = 0 /\ capture = 0
    /\ rx = NoRx /\ heard = 0
    /\ air = <<>> /\ fifo = <<>> /\ probed = FALSE /\ posted = Tally /\ missed = Tally /\ valid = Tally
    /\ drain = [d \in Drainers |-> IdleDrain]
    /\ polling = FALSE /\ timer = FALSE /\ errors = 0 /\ straddled = FALSE

-----------------------------------------------------------------------------
(* .connect, the end of the handshake, .disconnect.                        *)

\* The head of rf_2a4m1_cfg_connect: the target is named, sme_init takes the
\* link down, hal_start starts the TX-status poll (rf_2a4m1_usb_stat_start).
CfgConnectName(b) ==
    /\ cpc = "idle" /\ ~link /\ ~pending /\ drain["report"].at = "idle"
    /\ epoch < MaxConnects
    /\ bss' = b
    /\ epoch' = epoch + 1
    /\ cpc' = "named"
    /\ polling' = TRUE
    /\ timer' = (timer \/ ~polling)
    /\ UNCHANGED <<pending, link, peer, rx, heard, txs, probed, valid, drain, errors, straddled>>

\* ... any beacon captured for a previous connect is dropped ...
CfgConnectUncapture ==
    /\ cpc = "named"
    /\ cpc' = "uncaptured"
    /\ capture' = 0
    /\ straddled' = (straddled \/ rx.at # "idle")
    /\ UNCHANGED <<bss, epoch, pending, link, rssi, rxRate, txRate, rx, heard, txs, probed, valid, drain,
                   polling, timer, errors>>

\* A sample that will be stored later: a frame past its address check, a
\* report of the radio not yet counted.
UnderWay == rx.at # "idle" \/ air # <<>> \/ fifo # <<>> \/ \E d \in Drainers : drain[d].at = "have"

CfgConnectFreshNoTx ==
    /\ cpc = "uncaptured"
    /\ cpc' = "idle"
    /\ rssi' = 0 /\ rxRate' = 0
    /\ pending' = TRUE
    /\ straddled' = (straddled \/ UnderWay)
    /\ UNCHANGED <<bss, epoch, link, txRate, capture, rx, heard, txs, probed, valid, drain, polling, timer, errors>>

\* ... and the link statistics start fresh.
CfgConnectFresh ==
    /\ cpc = "uncaptured"
    /\ cpc' = "idle"
    /\ rssi' = 0 /\ rxRate' = 0 /\ txRate' = 0
    /\ pending' = TRUE
    /\ straddled' = (straddled \/ UnderWay)
    /\ UNCHANGED <<bss, epoch, link, capture, rx, heard, txs, probed, valid, drain, polling, timer, errors>>

\* connect_worker sees the SME connected; the keys are in the chip.
LinkUp ==
    /\ pending /\ cpc = "idle"
    /\ pending' = FALSE
    /\ link' = TRUE
    /\ UNCHANGED <<bss, epoch, cpc, peer, rx, heard, txs, probed, valid, drain, polling, timer, errors, straddled>>

\* A connect that times out, and rf_2a4m1_cfg_disconnect: both end in
\* rf_2a4m1_usb_stat_report, which sweeps the trailing reports.
LinkEnd ==
    /\ pending \/ link
    /\ cpc = "idle" /\ drain["report"].at = "idle"
    /\ pending' = FALSE
    /\ link' = FALSE
    /\ drain' = [drain EXCEPT !["report"] = [at |-> "read", n |-> 0]]
    /\ UNCHANGED <<bss, epoch, cpc, peer, rx, heard, txs, probed, valid, polling, timer, errors, straddled>>

-----------------------------------------------------------------------------
(* The RX worker.                                                          *)

\* A frame of the connect target: its address is compared outside any lock.
RxMatch(kind) ==
    /\ rx.at = "idle" /\ epoch > 0 /\ heard < MaxRx
    /\ rx' = [at |-> "record", kind |-> kind, of |-> epoch, from |-> bss]
    /\ heard' = heard + 1
    /\ UNCHANGED <<conn, peer, txs, probed, valid, drain, polling, timer, errors, straddled>>

\* Under link_lock: the signal of every frame, the rate of unicast data only.
RxRecord ==
    /\ rx.at = "record"
    /\ rssi' = rx.of
    /\ rxRate' = IF rx.kind = "unicast_data" THEN rx.of ELSE rxRate
    /\ rx' = IF rx.kind = "beacon" THEN [rx EXCEPT !.at = "capture?"] ELSE NoRx
    /\ UNCHANGED <<conn, txRate, capture, heard, txs, probed, valid, drain, polling, timer, errors, straddled>>

\* A beacon or probe response is captured for the connect that is pending ...
RxCaptureCheck ==
    /\ rx.at = "capture?"
    /\ rx' = IF pending /\ rx.from = bss THEN [rx EXCEPT !.at = "capture"] ELSE NoRx
    /\ UNCHANGED <<conn, peer, heard, txs, probed, valid, drain, polling, timer, errors, straddled>>

\* ... under bss_frame_lock, taken after the check.
RxCapture ==
    /\ rx.at = "capture"
    /\ capture' = rx.of
    /\ rx' = NoRx
    /\ UNCHANGED <<conn, rssi, rxRate, txRate, heard, txs, probed, valid, drain, polling, timer, errors, straddled>>

-----------------------------------------------------------------------------
(* Transmission and its reports.                                           *)

PktidByKeySlot(class) == IF class = "CLEARTEXT" THEN "CLEARTEXT" ELSE "ENCRYPTED"

\* The pktid of rf_2a4m1_op_tx: the caller's when it names one, otherwise by
\* the key slot (rf_2a4m1_txwi_set_pktid).
Pktid(class) == IF class = "BOGUS" THEN "BOGUS" ELSE PktidByKeySlot(class)

\* A frame goes to the radio.
Transmit(class) ==
    /\ SumFunction(posted) < MaxTx
    /\ posted' = [posted EXCEPT ![class] = @ + 1]
    /\ air' = Append(air, [class |-> class, pid |-> Pktid(class), of |-> epoch])
    /\ UNCHANGED <<fifo, missed>>

\* rf_2a4m1_op_tx for the frames of the handshake and for data.
OpTx(class) ==
    /\ class = "CLEARTEXT" => pending
    /\ class = "ENCRYPTED" => link
    /\ Transmit(class)
    /\ UNCHANGED <<conn, peer, rx, heard, probed, valid, drain, polling, timer, errors, straddled>>

\* rf_2a4m1_usb_bogus_bssid_probe: once, when the key is in the chip.
BogusProbe ==
    /\ link /\ ~probed
    /\ probed' = TRUE
    /\ Transmit("BOGUS")
    /\ UNCHANGED <<conn, peer, rx, heard, valid, drain, polling, timer, errors, straddled>>

\* The MAC reports a frame it has sent; a full FIFO loses the report.
Report ==
    /\ air # <<>>
    /\ air' = Tail(air)
    /\ IF Len(fifo) < Depth
       THEN fifo' = Append(fifo, Head(air)) /\ UNCHANGED missed
       ELSE missed' = [missed EXCEPT ![Head(air).class] = @ + 1] /\ UNCHANGED fifo
    /\ UNCHANGED <<conn, peer, rx, heard, posted, probed, valid, drain, polling, timer, errors, straddled>>

\* rf_2a4m1_stat_worker starts a drain.
StatTimer ==
    /\ timer /\ drain["worker"].at = "idle"
    /\ timer' = FALSE
    /\ drain' = [drain EXCEPT !["worker"] = [at |-> "read", n |-> 0]]
    /\ UNCHANGED <<conn, peer, rx, heard, txs, probed, valid, polling, errors, straddled>>

EndDrainOnce(d) == [drain |-> [drain EXCEPT ![d] = IdleDrain], timer |-> timer]

\* The end of a drain; stat_worker queues itself again.
EndDrain(d) ==
    [drain |-> [drain EXCEPT ![d] = IdleDrain], timer |-> timer \/ (d = "worker" /\ polling)]

\* One round of rf_2a4m1_drain_tx_status: reading the register pops a report
\* ...
DrainRead(d) ==
    /\ drain[d].at = "read"
    /\ IF fifo = <<>> \/ drain[d].n = DrainMax
       THEN /\ drain' = EndDrain(d).drain /\ timer' = EndDrain(d).timer
            /\ UNCHANGED fifo
       ELSE /\ drain' = [drain EXCEPT ![d] = [at |-> "have", n |-> @.n + 1, report |-> Head(fifo)]]
            /\ fifo' = Tail(fifo)
            /\ UNCHANGED timer
    /\ UNCHANGED <<conn, peer, rx, heard, air, posted, missed, probed, valid, polling, errors, straddled>>

\* ... a read that fails ends the drain, and takes a report with it when the
\* transfer failed after the pop.
DrainError(d) ==
    /\ drain[d].at = "read" /\ errors < MaxErrors /\ fifo # <<>>
    /\ errors' = errors + 1
    /\ drain' = EndDrain(d).drain /\ timer' = EndDrain(d).timer
    /\ \/ UNCHANGED <<fifo, missed>>
       \/ /\ fifo' = Tail(fifo)
          /\ missed' = [missed EXCEPT ![Head(fifo).class] = @ + 1]
    /\ UNCHANGED <<conn, peer, rx, heard, air, posted, probed, valid, polling, straddled>>

\* ... and the report is counted by its pktid; the rate of an encrypted one
\* is the link's.
DrainCount(d) ==
    /\ drain[d].at = "have"
    /\ LET r == drain[d].report
       IN /\ valid' = [valid EXCEPT ![r.pid] = @ + 1]
          /\ txRate' = IF r.pid = "ENCRYPTED" THEN r.of ELSE txRate
    /\ drain' = [drain EXCEPT ![d] = [at |-> "read", n |-> @.n]]
    /\ UNCHANGED <<conn, rssi, rxRate, capture, rx, heard, txs, probed, polling, timer, errors, straddled>>

Drain(d) == DrainRead(d) \/ DrainCount(d)

Next ==
    \/ \E b \in Bssids : CfgConnectName(b)
    \/ CfgConnectUncapture \/ CfgConnectFresh \/ LinkUp \/ LinkEnd
    \/ \E k \in Kinds : RxMatch(k)
    \/ RxRecord \/ RxCaptureCheck \/ RxCapture
    \/ \E c \in {"CLEARTEXT", "ENCRYPTED"} : OpTx(c)
    \/ BogusProbe \/ Report \/ StatTimer
    \/ \E d \in Drainers : Drain(d) \/ DrainError(d)

\* The delayed work runs and the drains go on.
Fairness == WF_vars(StatTimer) /\ \A d \in Drainers : WF_vars(Drain(d))

Spec == Init /\ [][Next]_vars /\ Fairness

-----------------------------------------------------------------------------
(* Properties.                                                             *)

InSeq(s, c) == Cardinality({i \in DOMAIN s : s[i].class = c})
HeldBy(d, c) == drain[d].at = "have" /\ drain[d].report.class = c

\* Two drainers and a FIFO at its limit: every report of every class of
\* frame is counted once and in its own class, unless the FIFO was full or
\* its read failed (usb.c:2413-2462, 2623-2651).  The ACK measurement of the
\* driver rests on the classes being kept apart.
ReportsAccounted ==
    \A c \in Classes :
        posted[c] = valid[c] + missed[c] + InSeq(air, c) + InSeq(fifo, c)
                        + Cardinality({d \in Drainers : HeldBy(d, c)})

\* The samples .get_station and the connect completion would report.
OfThisConnect == {rssi, rxRate, txRate, capture} \subseteq {0, epoch}

\* The statistics of the last connect do not leak into this one, unless
\* through a sample that was under way while .connect reset them: a frame past
\* its address check, a report not yet counted (cfg80211.c:886-895).
StatsUnraced == (cpc = "idle" /\ ~straddled) => OfThisConnect

\* Once the poll has been started the FIFO is emptied again and again, though
\* stat_worker re-queues itself and stops at errors and at its limit.
FifoDrains == []<>(fifo = <<>> \/ ~polling)
=============================================================================
