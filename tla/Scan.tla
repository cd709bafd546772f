-------------------------------- MODULE Scan --------------------------------
(***************************************************************************)
(* The glue's channel-hop scan (src/src/cfg80211.c): the .scan op, the     *)
(* delayed work that sweeps the channels, the abort from .disconnect and   *)
(* from USB removal, and the harvest of beacons by the RX worker.  Each of *)
(* these is a thread; a step is what runs under one hold of scan_lock or   *)
(* between two sleeping calls.                                             *)
(*                                                                         *)
(* External, from how the glue uses them: cfg80211 (one scan request at a  *)
(* time, .scan and .disconnect under the wiphy mutex, unregistration waits *)
(* for that mutex) and the workqueue (one instance of a work item runs;    *)
(* while cancel_delayed_work_sync waits for it, it cannot be requeued).    *)
(***************************************************************************)
EXTENDS Naturals

CONSTANTS
    MaxReqs,    \* bound: scan requests cfg80211 makes
    NumChans,   \* channels in each request
    MayUnplug   \* the dongle may be removed

ScanConstants ==
    /\ MaxReqs \in Nat
    /\ NumChans \in Nat
    /\ MayUnplug \in BOOLEAN

Requests == 1..MaxReqs

\* The two threads that may abort a scan: a cfg80211 op and rf_2a4m1_disconnect.
Caller == {"op", "usb"}

VARIABLES
    devState,   \* dev->state, or FREED after kfree(dev)
    scanReq,    \* dev->scan_req (0: NULL)
    chanIdx,    \* dev->scan_chan_idx
    curFreq,    \* dev->scan_cur_freq, as a channel (0: none)
    aborted,    \* dev->scan_aborted
    queued,     \* scan_work is pending
    wpc,        \* where the running scan_work is
    wreq,       \* its local req
    widx,       \* its local idx
    wtuned,     \* its local tuned (== 0)
    pc,         \* where each caller is
    radio,      \* the channel the chip listens on
    cfgReq,     \* external: rdev->scan_req
    reqs,       \* external: how many requests cfg80211 has made
    status,     \* history: what became of each request
    progress,   \* history: channels visited for each request
    dones,      \* history: cfg80211_scan_done calls for each request
    informed    \* history: <<channel heard on, channel reported>> of each BSS

scanVars == <<scanReq, chanIdx, curFreq, aborted>>
workVars == <<queued, wpc, wreq, widx, wtuned>>
histVars == <<status, progress, dones>>
vars == <<devState, scanReq, chanIdx, curFreq, aborted, queued, wpc, wreq, widx, wtuned,
          pc, radio, cfgReq, reqs, status, progress, dones, informed>>

Init ==
    /\ devState = "RUNNING"
    /\ scanReq = 0
    /\ chanIdx = 0
    /\ curFreq = 0
    /\ aborted = FALSE
    /\ queued = FALSE
    /\ wpc = "idle"
    /\ wreq = 0
    /\ widx = 0
    /\ wtuned = FALSE
    /\ pc = [c \in Caller |-> "idle"]
    /\ radio \in 0..NumChans
    /\ cfgReq = 0
    /\ reqs = 0
    /\ status = [r \in Requests |-> "new"]
    /\ progress = [r \in Requests |-> 0]
    /\ dones = [r \in Requests |-> 0]
    /\ informed = {}

-----------------------------------------------------------------------------
(* Shared helpers.                                                         *)

Goto(c, label) == pc' = [pc EXCEPT ![c] = label]

Cancelling == \E c \in Caller : pc[c] = "cancel"

\* schedule_delayed_work: nothing happens while the item is being cancelled.
Schedule == queued' = (queued \/ ~Cancelling)

\* Mutant: scan_finish reports the request and leaves it in place.
ScanFinishKeeps(how) ==
    /\ curFreq' = 0
    /\ IF scanReq = 0
       THEN UNCHANGED <<status, dones, cfgReq>>
       ELSE /\ status' = [status EXCEPT ![scanReq] = how]
            /\ dones' = [dones EXCEPT ![scanReq] = @ + 1]
            /\ cfgReq' = IF cfgReq = scanReq THEN 0 ELSE cfgReq
    /\ UNCHANGED <<scanReq, chanIdx, aborted, progress>>

\* rf_2a4m1_scan_finish.  Only the caller that swapped the request out reports it,
\* so the up-call is taken together with the swap.
ScanFinish(how) ==
    /\ scanReq' = 0
    /\ curFreq' = 0
    /\ IF scanReq = 0
       THEN UNCHANGED <<status, dones, cfgReq>>
       ELSE /\ status' = [status EXCEPT ![scanReq] = how]
            /\ dones' = [dones EXCEPT ![scanReq] = @ + 1]
            /\ cfgReq' = IF cfgReq = scanReq THEN 0 ELSE cfgReq
    /\ UNCHANGED <<chanIdx, aborted, progress>>

-----------------------------------------------------------------------------
(* rf_2a4m1_cfg_scan.                                                      *)

\* cfg80211 makes a request; the op looks at dev->state without a lock.
CfgScan ==
    /\ pc["op"] = "idle"
    /\ pc["usb"] # "gone"
    /\ cfgReq = 0
    /\ reqs < MaxReqs
    /\ reqs' = reqs + 1
    /\ IF devState = "REMOVING"
       THEN /\ status' = [status EXCEPT ![reqs + 1] = "refused"]
            /\ UNCHANGED <<pc, cfgReq>>
       ELSE /\ cfgReq' = reqs + 1
            /\ Goto("op", "publish")
            /\ UNCHANGED status
    /\ UNCHANGED <<devState, scanVars, workVars, radio, progress, dones, informed>>

\* The request is published under scan_lock, or refused with -EBUSY.
CfgScanPublish ==
    /\ pc["op"] = "publish"
    /\ IF scanReq # 0
       THEN /\ status' = [status EXCEPT ![cfgReq] = "refused"]
            /\ cfgReq' = 0
            /\ Goto("op", "idle")
            /\ UNCHANGED scanVars
       ELSE /\ scanReq' = cfgReq
            /\ chanIdx' = 0
            /\ curFreq' = 0
            /\ aborted' = FALSE
            /\ status' = [status EXCEPT ![cfgReq] = "active"]
            /\ Goto("op", "rx_ensure")
            /\ UNCHANGED cfgReq
    /\ UNCHANGED <<devState, workVars, radio, reqs, progress, dones, informed>>

\* rf_2a4m1_usb_rx_ensure fails: the request is unwound without a completion.
CfgScanRxFails ==
    /\ pc["op"] = "rx_ensure"
    /\ scanReq' = 0
    /\ status' = [status EXCEPT ![reqs] = "refused"]
    /\ cfgReq' = 0
    /\ Goto("op", "idle")
    /\ UNCHANGED <<devState, chanIdx, curFreq, aborted, workVars, radio, reqs, progress, dones, informed>>

CfgScanRxUp ==
    /\ pc["op"] = "rx_ensure"
    /\ Goto("op", "schedule")
    /\ UNCHANGED <<devState, scanVars, workVars, radio, cfgReq, reqs, histVars, informed>>

CfgScanSchedule ==
    /\ pc["op"] = "schedule"
    /\ Schedule
    /\ Goto("op", "idle")
    /\ UNCHANGED <<devState, scanVars, wpc, wreq, widx, wtuned, radio, cfgReq, reqs, histVars, informed>>

-----------------------------------------------------------------------------
(* rf_2a4m1_scan_worker.                                                   *)

\* Snapshot of the request and the index under scan_lock.
WorkerStart ==
    /\ queued
    /\ wpc = "idle"
    /\ queued' = FALSE
    /\ wreq' = scanReq
    /\ widx' = chanIdx
    /\ wpc' = IF scanReq = 0 THEN "idle" ELSE "decide"
    /\ UNCHANGED <<devState, scanVars, wtuned, pc, radio, cfgReq, reqs, histVars, informed>>

\* Mutant: the sweep stops one channel short.
SweptAllButOne == widx + 1 >= NumChans

SweptAll == widx >= NumChans

WorkerDecide ==
    /\ wpc = "decide"
    /\ \/ /\ devState = "REMOVING" \/ aborted
          /\ ScanFinish("aborted")
          /\ wpc' = "idle"
       \/ /\ ~(devState = "REMOVING" \/ aborted)
          /\ SweptAll
          /\ ScanFinish("complete")
          /\ wpc' = "idle"
       \/ /\ ~(devState = "REMOVING" \/ aborted)
          /\ ~SweptAll
          /\ wpc' = "tune"
          /\ UNCHANGED <<scanVars, histVars, cfgReq>>
    /\ UNCHANGED <<devState, queued, wreq, widx, wtuned, pc, radio, reqs, informed>>

\* hal set_channel sleeps, without scan_lock; it may fail.
WorkerTune(ok) ==
    /\ wpc = "tune"
    /\ wtuned' = ok
    /\ radio' = IF ok THEN widx + 1 ELSE radio
    /\ wpc' = "attribute"
    /\ UNCHANGED <<devState, scanVars, queued, wreq, widx, pc, cfgReq, reqs, histVars, informed>>

WorkerAttribute ==
    /\ wpc = "attribute"
    /\ curFreq' = IF wtuned THEN widx + 1 ELSE 0
    /\ chanIdx' = widx + 1
    /\ progress' = [progress EXCEPT ![wreq] = @ + 1]
    /\ wpc' = "probe"
    /\ UNCHANGED <<devState, scanReq, aborted, queued, wreq, widx, wtuned, pc, radio, cfgReq, reqs, status, dones, informed>>

\* Mutant: an unsuccessful tune ends the tick without a next one.
RearmIfTuned == IF wtuned THEN Schedule ELSE UNCHANGED queued

Rearm == Schedule

\* Probe requests are built from req (rf_2a4m1_scan_tx_probes), then the next tick
\* is scheduled after the dwell.
WorkerProbe ==
    /\ wpc = "probe"
    /\ Rearm
    /\ wpc' = "idle"
    /\ UNCHANGED <<devState, scanVars, wreq, widx, wtuned, pc, radio, cfgReq, reqs, histVars, informed>>

-----------------------------------------------------------------------------
(* rf_2a4m1_scan_stop, from .disconnect and from USB removal.              *)

ScanStop(c, next) ==
    /\ aborted' = TRUE
    /\ Goto(c, IF scanReq # 0 THEN "cancel" ELSE next)
    /\ UNCHANGED <<devState, scanReq, chanIdx, curFreq, workVars, radio, cfgReq, reqs, histVars, informed>>

CfgDisconnect ==
    /\ pc["op"] = "idle"
    /\ pc["usb"] # "gone"
    /\ ScanStop("op", "idle")

\* Mutant: cancel_delayed_work, which does not wait for a running worker.
CancelDoneNow == TRUE

\* cancel_delayed_work_sync returns once no instance runs.
CancelDone == wpc = "idle"

ScanStopCancel(c) ==
    /\ pc[c] = "cancel"
    /\ CancelDone
    /\ queued' = FALSE
    /\ Goto(c, "finish")
    /\ UNCHANGED <<devState, scanVars, wpc, wreq, widx, wtuned, radio, cfgReq, reqs, histVars, informed>>

ScanStopFinish(c) ==
    /\ pc[c] = "finish"
    /\ ScanFinish("aborted")
    /\ Goto(c, IF c = "op" THEN "idle" ELSE "unregister")
    /\ UNCHANGED <<devState, workVars, radio, reqs, informed>>

\* rf_2a4m1_disconnect (USB): REMOVING first, without any lock the ops take.
Unplug ==
    /\ MayUnplug
    /\ devState = "RUNNING"
    /\ devState' = "REMOVING"
    /\ Goto("usb", "stop")
    /\ UNCHANGED <<scanVars, workVars, radio, cfgReq, reqs, histVars, informed>>

UnplugScanStop ==
    /\ pc["usb"] = "stop"
    /\ ScanStop("usb", "unregister")

\* unregister_netdev and wiphy_unregister wait for a running op; then kfree(dev).
Unregister ==
    /\ pc["usb"] = "unregister"
    /\ pc["op"] = "idle"
    /\ devState' = "FREED"
    /\ Goto("usb", "gone")
    /\ UNCHANGED <<scanVars, workVars, radio, cfgReq, reqs, histVars, informed>>

\* rf_2a4m1_scan_rx_bss, from the RX worker: a beacon of the channel the chip is on
\* is reported on the channel of the sweep.  A segment rx_work took before REMOVING is
\* still delivered, until rx_stop has waited for the worker.
ScanRxBss ==
    /\ pc["usb"] \in {"idle", "stop"}
    /\ scanReq # 0
    /\ curFreq # 0
    /\ radio # 0
    /\ informed' = informed \cup {<<radio, curFreq>>}
    /\ UNCHANGED <<devState, scanVars, workVars, pc, radio, cfgReq, reqs, histVars>>

-----------------------------------------------------------------------------

\* Nothing is modelled of a worker that runs on freed memory.
WorkerStep ==
    /\ devState # "FREED"
    /\ \/ WorkerStart
       \/ WorkerDecide
       \/ \E ok \in BOOLEAN : WorkerTune(ok)
       \/ WorkerAttribute
       \/ WorkerProbe

OpStep ==
    \/ CfgScanPublish
    \/ CfgScanRxFails
    \/ CfgScanRxUp
    \/ CfgScanSchedule
    \/ ScanStopCancel("op")
    \/ ScanStopFinish("op")

UsbStep ==
    \/ UnplugScanStop
    \/ ScanStopCancel("usb")
    \/ ScanStopFinish("usb")
    \/ Unregister

Next ==
    \/ CfgScan
    \/ CfgDisconnect
    \/ Unplug
    \/ ScanRxBss
    \/ WorkerStep
    \/ OpStep
    \/ UsbStep

\* Timers fire, and a thread that has entered the driver leaves it.
Fairness == WF_vars(WorkerStep) /\ WF_vars(OpStep) /\ WF_vars(UsbStep)

Spec == Init /\ [][Next]_vars /\ Fairness

-----------------------------------------------------------------------------
(* Properties.                                                             *)

\* Every variable stays in the range of its C field or history; the index never
\* leaves req->channels[], also when a removal overtakes the sweep.
TypeOK ==
    /\ devState \in {"RUNNING", "REMOVING", "FREED"}
    /\ scanReq \in 0..MaxReqs
    /\ chanIdx \in 0..NumChans
    /\ curFreq \in 0..NumChans
    /\ aborted \in BOOLEAN
    /\ queued \in BOOLEAN
    /\ wpc \in {"idle", "decide", "tune", "attribute", "probe"}
    /\ wreq \in 0..MaxReqs
    /\ widx \in 0..NumChans
    /\ wtuned \in BOOLEAN
    /\ pc \in [Caller -> {"idle", "publish", "rx_ensure", "schedule", "cancel", "finish",
                          "stop", "unregister", "gone"}]
    /\ radio \in 0..NumChans
    /\ cfgReq \in 0..MaxReqs
    /\ reqs \in 0..MaxReqs
    /\ status \in [Requests -> {"new", "active", "complete", "aborted", "refused"}]
    /\ progress \in [Requests -> 0..NumChans]
    /\ dones \in [Requests -> Nat]
    /\ informed \subseteq (1..NumChans) \X (1..NumChans)

\* The abstract specification, with the same names for its requests.
Contract == INSTANCE ScanContract WITH present <- devState = "RUNNING"

\* Until the dongle is pulled, the glue keeps the contract: one scan at a time, each
\* ended once, and reported complete only after all its channels were visited, with
\* the worker and a .disconnect racing for it.
ImplementsContract == Contract!Spec

\* A request the driver took on ends, completed, aborted or refused, unless the dongle
\* is pulled, and then the driver is free for the next one: later no request is active.
EveryScanEnds ==
    (\E r \in Requests : status[r] = "active") ~>
        (\A r \in Requests : status[r] # "active") \/ devState # "RUNNING"

\* Until the dongle is pulled the worker works on no request that was given back to
\* cfg80211 and may be freed: req is used outside scan_lock, across a sleeping
\* set_channel, and only cancel_delayed_work_sync keeps an abort from completing it.
WorkerHoldsLiveRequest ==
    devState = "RUNNING" /\ wpc # "idle" => status[wreq] = "active" /\ scanReq = wreq

\* scan_done fires at most once for a request, with the worker, a disconnect and
\* the removal of the dongle racing for it.
AtMostOneDone == \A r \in Requests : dones[r] <= 1

\* The sweep stays inside its request, which is alive while it is worked on and is
\* reported once.
ScanInv == TypeOK /\ AtMostOneDone /\ WorkerHoldsLiveRequest

\* No scan is pending when the removal, past its scan_stop, goes on to unregister from
\* cfg80211 and no op holds it up.
NoScanAtUnregister == pc["usb"] = "unregister" /\ pc["op"] = "idle" => scanReq = 0

\* A BSS is reported on the channel it was heard on: between channels, while the
\* radio already listens on the next one, nothing is attributed.
HeardWhereReported == \A b \in informed : b[1] = b[2]

=============================================================================
