----------------------------- MODULE ScanProofs -----------------------------
(***************************************************************************)
(* The channel-hop scan of the glue (module Scan), for every number of     *)
(* requests and of channels.  What holds also while the dongle is pulled   *)
(* comes first (ScanInd); what only cancel_delayed_work_sync and the wiphy *)
(* mutex give, and only until it is pulled, is on top of it (StayInd), and *)
(* the refinement of the contract with cfg80211 follows from that.         *)
(***************************************************************************)
EXTENDS Scan, TLAPS

\* cfg80211 has at most one request with the driver, the last one it made.
RequestsMade ==
    /\ cfgReq <= reqs
    /\ scanReq # 0 => /\ cfgReq = scanReq
                      /\ status[scanReq] = "active"
                      /\ dones[scanReq] = 0
    /\ \A r \in Requests : r > reqs => status[r] = "new"
    /\ \A r \in Requests : status[r] = "new" => progress[r] = 0 /\ dones[r] = 0

\* Where the .scan op is, there is a request.
OpHasRequest ==
    /\ pc["op"] \in {"publish", "rx_ensure", "schedule"} => reqs # 0
    /\ pc["op"] = "publish" => cfgReq = reqs /\ status[reqs] = "new" /\ scanReq = 0

\* The worker's index is not behind the channels visited for its request, also when the
\* request was taken away from it and another one published.
WorkerIndex ==
    /\ wpc # "idle" => wreq \in 1..reqs /\ status[wreq] # "new"
    /\ wpc \in {"decide", "tune", "attribute"} => progress[wreq] <= widx
    /\ wpc \in {"tune", "attribute"} => widx < NumChans
    /\ wpc \in {"decide", "tune", "attribute"} /\ scanReq \notin {0, wreq}
          => progress[scanReq] = 0
    /\ scanReq # 0 => progress[scanReq] <= chanIdx

ScanInd == TypeOK /\ RequestsMade /\ OpHasRequest /\ WorkerIndex /\ AtMostOneDone

-----------------------------------------------------------------------------

\* No scan is running at first.
LEMMA ScanInitial == ScanConstants /\ Init => ScanInd
<1> SUFFICES ASSUME ScanConstants, Init PROVE ScanInd
    OBVIOUS
<1>1. TypeOK
    <2>1. aborted \in BOOLEAN /\ queued \in BOOLEAN /\ wtuned \in BOOLEAN
        BY DEF Init
    <2>2. /\ pc \in [Caller -> {"idle"}]
          /\ status \in [Requests -> {"new"}]
          /\ progress \in [Requests -> {0}]
          /\ dones \in [Requests -> {0}]
        BY DEF Init
    <2> QED
        BY <2>1, <2>2 DEF ScanConstants, Init, TypeOK
<1>2. RequestsMade
    BY DEF ScanConstants, Init, RequestsMade, Requests
<1>3. OpHasRequest
    BY DEF Init, OpHasRequest, Caller
<1>4. WorkerIndex /\ AtMostOneDone
    BY DEF Init, WorkerIndex, AtMostOneDone
<1> QED
    BY <1>1, <1>2, <1>3, <1>4 DEF ScanInd

\* A new request is the last one made.
LEMMA CfgScanKeeps ==
    ASSUME ScanConstants, ScanInd, CfgScan
    PROVE  ScanInd'
<1> USE DEF ScanConstants, Requests, Caller
<1>1. /\ reqs' = reqs + 1
      /\ reqs + 1 \in Requests
      /\ cfgReq = 0
      /\ scanReq = 0
      /\ pc["op"] = "idle"
      /\ UNCHANGED <<devState, scanReq, chanIdx, curFreq, aborted, queued, wpc, wreq, widx,
                     wtuned, radio, progress, dones, informed>>
    BY DEF CfgScan, scanVars, workVars, ScanInd, TypeOK, RequestsMade
<1>2. \/ /\ status' = [status EXCEPT ![reqs + 1] = "refused"]
         /\ UNCHANGED <<pc, cfgReq>>
      \/ /\ cfgReq' = reqs + 1
         /\ pc' = [pc EXCEPT !["op"] = "publish"]
         /\ UNCHANGED status
    BY DEF CfgScan, Goto
<1>3. TypeOK'
    <2>1. /\ pc' \in [Caller -> {"idle", "publish", "rx_ensure", "schedule", "cancel", "finish",
                                "stop", "unregister", "gone"}]
          /\ status' \in [Requests -> {"new", "active", "complete", "aborted", "refused"}]
        BY <1>1, <1>2 DEF ScanInd, TypeOK
    <2> QED
        BY <1>1, <1>2, <2>1 DEF ScanInd, TypeOK
<1>4. RequestsMade'
    BY <1>1, <1>2 DEF ScanInd, TypeOK, RequestsMade
<1>5. OpHasRequest'
    BY <1>1, <1>2 DEF ScanInd, TypeOK, RequestsMade, OpHasRequest
<1>6. WorkerIndex' /\ AtMostOneDone'
    BY <1>1, <1>2 DEF ScanInd, TypeOK, WorkerIndex, AtMostOneDone
<1> QED
    BY <1>3, <1>4, <1>5, <1>6 DEF ScanInd

\* The request published is a new one, of which no channel was visited.
LEMMA CfgScanPublishKeeps ==
    ASSUME ScanConstants, ScanInd, CfgScanPublish
    PROVE  ScanInd'
<1> USE DEF ScanConstants, Requests, Caller
<1>1. /\ pc["op"] = "publish"
      /\ reqs \in Requests
      /\ cfgReq = reqs
      /\ status[reqs] = "new"
      /\ progress[reqs] = 0
      /\ dones[reqs] = 0
      /\ scanReq = 0
    BY DEF CfgScanPublish, ScanInd, TypeOK, RequestsMade, OpHasRequest
<1>2. /\ scanReq' = reqs
      /\ chanIdx' = 0
      /\ curFreq' = 0
      /\ aborted' = FALSE
      /\ status' = [status EXCEPT ![reqs] = "active"]
      /\ pc' = [pc EXCEPT !["op"] = "rx_ensure"]
      /\ UNCHANGED <<devState, queued, wpc, wreq, widx, wtuned, radio, cfgReq, reqs, progress,
                     dones, informed>>
    BY <1>1 DEF CfgScanPublish, Goto, workVars
<1>3. TypeOK'
    <2>1. aborted' \in BOOLEAN
        BY <1>2
    <2>2. /\ pc' \in [Caller -> {"idle", "publish", "rx_ensure", "schedule", "cancel", "finish",
                                "stop", "unregister", "gone"}]
          /\ status' \in [Requests -> {"new", "active", "complete", "aborted", "refused"}]
        BY <1>1, <1>2 DEF ScanInd, TypeOK
    <2> QED
        BY <1>1, <1>2, <2>1, <2>2 DEF ScanInd, TypeOK
<1>4. RequestsMade'
    BY <1>1, <1>2 DEF ScanInd, TypeOK, RequestsMade
<1>5. OpHasRequest'
    BY <1>1, <1>2 DEF ScanInd, TypeOK, OpHasRequest
<1>6. WorkerIndex' /\ AtMostOneDone'
    BY <1>1, <1>2 DEF ScanInd, TypeOK, WorkerIndex, AtMostOneDone
<1> QED
    BY <1>3, <1>4, <1>5, <1>6 DEF ScanInd

\* A .scan whose receiver cannot start leaves no request behind.
LEMMA CfgScanRxFailsKeeps ==
    ASSUME ScanConstants, ScanInd, CfgScanRxFails
    PROVE  ScanInd'
<1> USE DEF ScanConstants, Requests, Caller
<1>1. /\ reqs \in Requests
      /\ scanReq' = 0
      /\ cfgReq' = 0
      /\ status' = [status EXCEPT ![reqs] = "refused"]
      /\ pc' = [pc EXCEPT !["op"] = "idle"]
      /\ UNCHANGED <<devState, chanIdx, curFreq, aborted, queued, wpc, wreq, widx, wtuned,
                     radio, reqs, progress, dones, informed>>
    BY DEF CfgScanRxFails, Goto, workVars, ScanInd, TypeOK, OpHasRequest
<1>2. TypeOK'
    BY <1>1 DEF ScanInd, TypeOK
<1>3. RequestsMade'
    BY <1>1 DEF ScanInd, TypeOK, RequestsMade
<1>4. OpHasRequest'
    BY <1>1 DEF ScanInd, TypeOK, OpHasRequest
<1>5. WorkerIndex' /\ AtMostOneDone'
    BY <1>1 DEF ScanInd, TypeOK, WorkerIndex, AtMostOneDone
<1> QED
    BY <1>2, <1>3, <1>4, <1>5 DEF ScanInd

\* A channel is visited: the index moves past it.
LEMMA WorkerAttributeKeeps ==
    ASSUME ScanConstants, ScanInd, WorkerAttribute
    PROVE  ScanInd'
<1> USE DEF ScanConstants, Requests, Caller
<1>1. /\ wreq \in Requests /\ wreq \in 1..reqs
      /\ status[wreq] # "new"
      /\ progress[wreq] <= widx
      /\ widx < NumChans
      /\ scanReq \notin {0, wreq} => progress[scanReq] = 0
    BY DEF WorkerAttribute, ScanInd, TypeOK, WorkerIndex
<1>2. /\ curFreq' \in 0..NumChans
      /\ chanIdx' = widx + 1
      /\ progress' = [progress EXCEPT ![wreq] = @ + 1]
      /\ wpc' = "probe"
      /\ UNCHANGED <<devState, scanReq, aborted, queued, wreq, widx, wtuned, pc, radio, cfgReq,
                     reqs, status, dones, informed>>
    BY <1>1 DEF WorkerAttribute, ScanInd, TypeOK
<1>3. TypeOK'
    <2>1. progress[wreq] + 1 \in 0..NumChans /\ widx + 1 \in 0..NumChans
        BY <1>1 DEF ScanInd, TypeOK
    <2> QED
        BY <1>1, <1>2, <2>1 DEF ScanInd, TypeOK
<1>4. RequestsMade'
    BY <1>1, <1>2 DEF ScanInd, TypeOK, RequestsMade
<1>5. OpHasRequest' /\ AtMostOneDone'
    BY <1>2 DEF ScanInd, OpHasRequest, AtMostOneDone
<1>6. WorkerIndex'
    <2>1. ASSUME scanReq # 0 PROVE progress'[scanReq] <= widx + 1
        <3>1. widx \in Nat /\ progress[wreq] \in Nat
            BY <1>1 DEF ScanInd, TypeOK
        <3>2. CASE scanReq = wreq
            BY <1>1, <1>2, <3>1, <3>2 DEF ScanInd, TypeOK
        <3>3. CASE scanReq # wreq
            BY <1>1, <1>2, <2>1, <3>1, <3>3 DEF ScanInd, TypeOK
        <3> QED
            BY <3>2, <3>3
    <2> QED
        BY <1>1, <1>2, <2>1 DEF ScanInd, TypeOK, WorkerIndex
<1> QED
    BY <1>3, <1>4, <1>5, <1>6 DEF ScanInd

\* Whoever finishes a scan swaps its request out, and it is reported once.
LEMMA FinishReportsOnce ==
    ASSUME ScanConstants, ScanInd, NEW how \in {"complete", "aborted"}, ScanFinish(how),
           UNCHANGED <<devState, queued, wreq, widx, wtuned, radio, reqs, informed>>,
           wpc' \in {wpc, "idle"},
           \/ UNCHANGED pc
           \/ \E c \in Caller : pc' = [pc EXCEPT ![c] = IF c = "op" THEN "idle" ELSE "unregister"]
    PROVE  ScanInd'
<1> USE DEF ScanConstants, Requests, Caller
<1>1. /\ scanReq' = 0
      /\ curFreq' = 0
      /\ cfgReq' \in {0, cfgReq}
      /\ UNCHANGED <<chanIdx, aborted, progress>>
    BY DEF ScanFinish
<1>2. /\ pc' \in [Caller -> {"idle", "publish", "rx_ensure", "schedule", "cancel", "finish",
                             "stop", "unregister", "gone"}]
      /\ pc'["op"] \in {pc["op"], "idle"}
    BY DEF ScanInd, TypeOK
<1>3. /\ devState' \in {"RUNNING", "REMOVING", "FREED"} /\ queued' \in BOOLEAN
      /\ wreq' \in 0..MaxReqs /\ widx' \in 0..NumChans /\ wtuned' \in BOOLEAN
      /\ radio' \in 0..NumChans /\ reqs' \in 0..MaxReqs
      /\ informed' \subseteq (1..NumChans) \X (1..NumChans)
    BY DEF ScanInd, TypeOK
<1>4. wpc' \in {"idle", "decide", "tune", "attribute", "probe"}
    BY DEF ScanInd, TypeOK
<1>5. /\ scanReq' \in 0..MaxReqs /\ curFreq' \in 0..NumChans /\ cfgReq' \in 0..MaxReqs
      /\ chanIdx' \in 0..NumChans /\ aborted' \in BOOLEAN
      /\ progress' \in [Requests -> 0..NumChans]
    BY <1>1 DEF ScanInd, TypeOK
<1>6. CASE scanReq = 0
    <2>1. UNCHANGED <<status, dones, cfgReq>>
        BY <1>6 DEF ScanFinish
    <2>2. /\ status' \in [Requests -> {"new", "active", "complete", "aborted", "refused"}]
          /\ dones' \in [Requests -> Nat]
        BY <2>1 DEF ScanInd, TypeOK
    <2>3. TypeOK'
        BY <1>2, <1>3, <1>4, <1>5, <2>2 DEF TypeOK
    <2>4. RequestsMade'
        BY <1>1, <2>1 DEF ScanInd, TypeOK, RequestsMade
    <2>5. OpHasRequest' /\ WorkerIndex' /\ AtMostOneDone'
        BY <1>1, <1>2, <1>6, <2>1 DEF ScanInd, OpHasRequest, WorkerIndex, AtMostOneDone
    <2> QED
        BY <2>4, <2>5, <2>3 DEF ScanInd
<1>7. CASE scanReq # 0
    <2>1. /\ scanReq \in Requests
          /\ status[scanReq] = "active"
          /\ dones[scanReq] = 0
        BY <1>7 DEF ScanInd, TypeOK, RequestsMade
    <2>2. /\ status' = [status EXCEPT ![scanReq] = how]
          /\ dones' = [dones EXCEPT ![scanReq] = 1]
        BY <1>7, <2>1 DEF ScanFinish, ScanInd, TypeOK
    <2>3. /\ status' \in [Requests -> {"new", "active", "complete", "aborted", "refused"}]
          /\ dones' \in [Requests -> Nat]
        BY <2>1, <2>2 DEF ScanInd, TypeOK
    <2>4. TypeOK'
        BY <1>2, <1>3, <1>4, <1>5, <2>3 DEF TypeOK
    <2>5. RequestsMade'
        BY <1>1, <2>1, <2>2 DEF ScanInd, TypeOK, RequestsMade
    <2>6. OpHasRequest'
        BY <1>1, <1>2, <1>7, <2>1, <2>2 DEF ScanInd, TypeOK, OpHasRequest
    <2>7. WorkerIndex'
        BY <1>1, <2>1, <2>2 DEF ScanInd, TypeOK, WorkerIndex
    <2>8. AtMostOneDone'
        BY <2>1, <2>2 DEF ScanInd, TypeOK, AtMostOneDone
    <2> QED
        BY <2>4, <2>5, <2>6, <2>7, <2>8 DEF ScanInd
<1> QED
    BY <1>6, <1>7

\* The worker takes its request and its index under scan_lock.
LEMMA WorkerStartKeeps ==
    ASSUME ScanConstants, ScanInd, WorkerStart
    PROVE  ScanInd'
<1> USE DEF ScanConstants, Requests, Caller
<1>1. /\ queued' = FALSE
      /\ wreq' = scanReq
      /\ widx' = chanIdx
      /\ wpc' = IF scanReq = 0 THEN "idle" ELSE "decide"
      /\ UNCHANGED <<devState, scanReq, chanIdx, curFreq, aborted, wtuned, pc, radio, cfgReq,
                     reqs, status, progress, dones, informed>>
    BY DEF WorkerStart, scanVars, histVars
<1>2. TypeOK' /\ RequestsMade' /\ OpHasRequest' /\ AtMostOneDone'
    BY <1>1 DEF ScanInd, TypeOK, RequestsMade, OpHasRequest, AtMostOneDone
<1>3. WorkerIndex'
    BY <1>1 DEF ScanInd, TypeOK, RequestsMade, WorkerIndex
<1> QED
    BY <1>2, <1>3 DEF ScanInd

\* The other steps move a thread and leave the requests alone.
LEMMA ThreadMoves ==
    ASSUME ScanConstants, ScanInd,
           UNCHANGED <<scanReq, chanIdx, curFreq, cfgReq, reqs, status, progress, dones, wreq,
                       widx>>,
           devState' \in {"RUNNING", "REMOVING", "FREED"},
           aborted' \in BOOLEAN, queued' \in BOOLEAN, wtuned' \in BOOLEAN,
           radio' \in 0..NumChans,
           informed' \subseteq (1..NumChans) \X (1..NumChans),
           \/ UNCHANGED wpc
           \/ wpc = "decide" /\ wpc' = "tune" /\ widx < NumChans
           \/ wpc = "tune" /\ wpc' = "attribute"
           \/ wpc' = "idle",
           \/ UNCHANGED pc
           \/ \E c \in Caller, label \in {"idle", "cancel", "finish", "stop", "unregister", "gone"} :
                  pc' = [pc EXCEPT ![c] = label]
           \/ pc["op"] = "rx_ensure" /\ pc' = [pc EXCEPT !["op"] = "schedule"]
    PROVE  ScanInd'
<1> USE DEF ScanConstants, Requests, Caller
<1>1. /\ pc' \in [Caller -> {"idle", "publish", "rx_ensure", "schedule", "cancel", "finish",
                             "stop", "unregister", "gone"}]
      /\ \/ pc'["op"] \in {pc["op"], "idle", "cancel", "finish", "stop", "unregister", "gone"}
         \/ pc["op"] = "rx_ensure" /\ pc'["op"] = "schedule"
    BY DEF ScanInd, TypeOK
<1>2. TypeOK'
    BY <1>1 DEF ScanInd, TypeOK
<1>3. RequestsMade' /\ AtMostOneDone'
    BY DEF ScanInd, RequestsMade, AtMostOneDone
<1>4. OpHasRequest'
    BY <1>1 DEF ScanInd, OpHasRequest
<1>5. WorkerIndex'
    BY DEF ScanInd, WorkerIndex
<1> QED
    BY <1>2, <1>3, <1>4, <1>5 DEF ScanInd

\* Every step of the scan keeps its invariant.
LEMMA ScanStep ==
    ASSUME ScanConstants, ScanInd, [Next]_vars
    PROVE  ScanInd'
<1> USE DEF scanVars, workVars, histVars, Goto
<1>1. TypeOK
    BY DEF ScanInd
<1>2. CASE WorkerStep
    <2>1. ASSUME WorkerDecide PROVE ScanInd'
        <3>1. CASE /\ ~SweptAll
                   /\ wpc' = "tune"
                   /\ UNCHANGED <<scanVars, histVars, cfgReq>>
            BY <1>1, <2>1, <3>1, ThreadMoves DEF WorkerDecide, SweptAll, TypeOK, ScanConstants
        <3>2. CASE wpc' = "idle" /\ ScanFinish("aborted")
            BY <2>1, <3>2, FinishReportsOnce DEF WorkerDecide
        <3>3. CASE wpc' = "idle" /\ ScanFinish("complete")
            BY <2>1, <3>3, FinishReportsOnce DEF WorkerDecide
        <3> QED
            BY <2>1, <3>1, <3>2, <3>3 DEF WorkerDecide
    <2>2. ASSUME NEW ok \in BOOLEAN, WorkerTune(ok) PROVE ScanInd'
        <3>1. widx + 1 \in 0..NumChans
            BY <2>2 DEF WorkerTune, ScanInd, TypeOK, WorkerIndex, ScanConstants
        <3>2. radio' \in 0..NumChans
            BY <1>1, <2>2, <3>1 DEF WorkerTune, TypeOK
        <3> QED
            BY <1>1, <2>2, <3>2, ThreadMoves DEF WorkerTune, TypeOK
    <2>3. ASSUME WorkerProbe PROVE ScanInd'
        BY <1>1, <2>3, ThreadMoves DEF WorkerProbe, Rearm, Schedule, TypeOK
    <2> QED
        BY <1>2, <2>1, <2>2, <2>3, WorkerStartKeeps, WorkerAttributeKeeps DEF WorkerStep
<1>3. CASE CfgScanRxUp
    BY <1>1, <1>3, ThreadMoves DEF CfgScanRxUp, TypeOK
<1>4. CASE CfgScanSchedule
    BY <1>1, <1>4, ThreadMoves DEF CfgScanSchedule, Schedule, TypeOK, Caller
<1>5. ASSUME NEW c \in Caller, ScanStopCancel(c) PROVE ScanInd'
    BY <1>1, <1>5, ThreadMoves DEF ScanStopCancel, TypeOK
<1>6. ASSUME NEW c \in Caller, ScanStopFinish(c) PROVE ScanInd'
    BY <1>6, FinishReportsOnce DEF ScanStopFinish
<1>7. ASSUME NEW c \in Caller, NEW next \in {"idle", "unregister"}, ScanStop(c, next) PROVE ScanInd'
    BY <1>1, <1>7, ThreadMoves DEF ScanStop, TypeOK
<1>8. CASE Unplug
    BY <1>1, <1>8, ThreadMoves DEF Unplug, TypeOK, Caller
<1>9. CASE Unregister
    BY <1>1, <1>9, ThreadMoves DEF Unregister, TypeOK, Caller
<1>10. CASE ScanRxBss
    BY <1>1, <1>10, ThreadMoves DEF ScanRxBss, TypeOK, ScanConstants
<1>11. CASE UNCHANGED vars
    BY <1>1, <1>11, ThreadMoves DEF vars, TypeOK
<1> QED
    BY <1>2, <1>3, <1>4, <1>5, <1>6, <1>7, <1>8, <1>9, <1>10, <1>11,
       CfgScanKeeps, CfgScanPublishKeeps, CfgScanRxFailsKeeps
       DEF Next, OpStep, UsbStep, CfgDisconnect, UnplugScanStop, Caller

-----------------------------------------------------------------------------
(* While the dongle stays: only the op aborts a scan, and it waits for the  *)
(* worker before it completes the request.                                  *)

Stays ==
    /\ devState = "RUNNING"
    /\ pc["usb"] = "idle"

\* The worker runs, or is queued, only for the request in place.
WorkForRequest ==
    /\ wpc # "idle" => ~queued /\ scanReq = wreq
    /\ scanReq = 0 => ~queued /\ wpc = "idle"
    /\ pc["op"] \in {"publish", "rx_ensure", "schedule", "finish"} => ~queued /\ wpc = "idle"
    /\ pc["op"] \in {"rx_ensure", "schedule"} => scanReq = reqs

\* The one active request is the one in place, and the index counts its channels.
IndexCounts ==
    /\ \A r \in Requests : status[r] = "active" => r = scanReq
    /\ scanReq # 0 => progress[scanReq] = chanIdx
    /\ wpc \in {"decide", "tune", "attribute"} => widx = chanIdx

StayInd == ScanInd /\ Stays /\ WorkForRequest /\ IndexCounts

KeepInd == ScanInd /\ (devState = "RUNNING" => StayInd)

\* What finishing does to the request in place.
LEMMA StaysFinish ==
    ASSUME ScanConstants, StayInd, ScanInd', NEW how \in {"complete", "aborted"}, ScanFinish(how),
           UNCHANGED <<devState, queued, reqs>>,
           ~queued, wpc' = "idle",
           \/ UNCHANGED pc
           \/ pc["op"] = "finish" /\ pc' = [pc EXCEPT !["op"] = "idle"],
           pc["op"] \notin {"rx_ensure", "schedule"}
    PROVE  StayInd'
<1> USE DEF ScanConstants, Requests, Caller
<1>1. /\ scanReq' = 0
      /\ UNCHANGED <<chanIdx, progress>>
    BY DEF ScanFinish
<1>2. pc'["usb"] = "idle" /\ pc'["op"] \in {pc["op"], "idle"}
    BY DEF StayInd, Stays, ScanInd, TypeOK
<1>3. Stays' /\ WorkForRequest'
    BY <1>1, <1>2 DEF StayInd, Stays, WorkForRequest
<1>4. IndexCounts'
    <2>1. CASE scanReq = 0
        BY <1>1, <2>1 DEF StayInd, IndexCounts, ScanFinish
    <2>2. CASE scanReq # 0
        <3>1. status' = [status EXCEPT ![scanReq] = how]
            BY <2>2 DEF ScanFinish
        <3> QED
            BY <1>1, <2>2, <3>1 DEF StayInd, IndexCounts, ScanInd, TypeOK
    <2> QED
        BY <2>1, <2>2
<1> QED
    BY <1>3, <1>4 DEF StayInd

\* The device is running, with no scan, at first.
LEMMA StaysInitial == ScanConstants /\ Init => StayInd
<1> SUFFICES ASSUME ScanConstants, Init PROVE StayInd
    OBVIOUS
<1>1. ScanInd
    BY ScanInitial
<1>2. pc["op"] = "idle" /\ pc["usb"] = "idle"
    BY DEF Init, Caller
<1>3. Stays /\ WorkForRequest /\ IndexCounts
    BY <1>2 DEF Init, Stays, WorkForRequest, IndexCounts
<1> QED
    BY <1>1, <1>3 DEF StayInd

\* While the device stays, every step keeps the request that is being served.
LEMMA StaysStep ==
    ASSUME ScanConstants, StayInd, [Next]_vars, devState' = "RUNNING"
    PROVE  StayInd'
<1> USE DEF ScanConstants, Requests, Caller, scanVars, workVars, histVars, Goto
<1>1. ScanInd'
    BY ScanStep DEF StayInd
<1>2. /\ devState = "RUNNING"
      /\ pc["usb"] = "idle"
    BY DEF StayInd, Stays
<1>3. CASE CfgScan
    <2>1. scanReq = 0 /\ reqs + 1 \in Requests /\ status[reqs + 1] = "new"
        BY <1>3 DEF CfgScan, StayInd, ScanInd, TypeOK, RequestsMade
    <2>2. /\ pc' = [pc EXCEPT !["op"] = "publish"]
          /\ UNCHANGED <<devState, scanReq, chanIdx, queued, wpc, widx, status, progress>>
        BY <1>2, <1>3 DEF CfgScan
    <2>3. pc'["usb"] = "idle" /\ pc'["op"] = "publish"
        BY <1>2, <2>2 DEF StayInd, ScanInd, TypeOK
    <2> QED
        BY <1>1, <1>3, <2>1, <2>2, <2>3 DEF StayInd, Stays, WorkForRequest, IndexCounts
<1>4. CASE CfgScanPublish
    <2>1. /\ scanReq = 0 /\ cfgReq = reqs /\ reqs \in Requests /\ status[reqs] = "new"
          /\ progress[reqs] = 0 /\ pc["op"] = "publish"
        BY <1>4 DEF CfgScanPublish, StayInd, ScanInd, TypeOK, OpHasRequest, RequestsMade
    <2>2. /\ scanReq' = reqs
          /\ chanIdx' = 0
          /\ status' = [status EXCEPT ![reqs] = "active"]
          /\ pc' = [pc EXCEPT !["op"] = "rx_ensure"]
          /\ UNCHANGED <<devState, queued, wpc, reqs, progress>>
        BY <1>4, <2>1 DEF CfgScanPublish
    <2>3. pc'["usb"] = "idle" /\ pc'["op"] = "rx_ensure"
        BY <1>2, <2>2 DEF StayInd, ScanInd, TypeOK
    <2>4. ~queued /\ wpc = "idle"
        BY <2>1 DEF StayInd, WorkForRequest
    <2>5. Stays' /\ WorkForRequest'
        BY <1>2, <2>2, <2>3, <2>4 DEF Stays, WorkForRequest
    <2>6. IndexCounts'
        BY <2>1, <2>2, <2>4 DEF StayInd, ScanInd, TypeOK, IndexCounts
    <2> QED
        BY <1>1, <2>5, <2>6 DEF StayInd
<1>5. CASE CfgScanRxFails
    <2>1. /\ scanReq = reqs /\ reqs \in Requests /\ ~queued /\ wpc = "idle"
        BY <1>5 DEF CfgScanRxFails, StayInd, ScanInd, TypeOK, OpHasRequest, WorkForRequest
    <2>2. /\ scanReq' = 0
          /\ status' = [status EXCEPT ![reqs] = "refused"]
          /\ pc' = [pc EXCEPT !["op"] = "idle"]
          /\ UNCHANGED <<devState, queued, wpc, progress>>
        BY <1>5 DEF CfgScanRxFails
    <2>3. pc'["usb"] = "idle" /\ pc'["op"] = "idle"
        BY <1>2, <2>2 DEF StayInd, ScanInd, TypeOK
    <2>4. Stays' /\ WorkForRequest'
        BY <1>2, <2>1, <2>2, <2>3 DEF Stays, WorkForRequest
    <2>5. IndexCounts'
        BY <2>1, <2>2 DEF StayInd, ScanInd, TypeOK, IndexCounts
    <2> QED
        BY <1>1, <2>4, <2>5 DEF StayInd
<1>6. CASE CfgScanRxUp \/ CfgScanSchedule
    <2>1. /\ pc["op"] \in {"rx_ensure", "schedule"}
          /\ \/ pc["op"] = "rx_ensure" /\ pc' = [pc EXCEPT !["op"] = "schedule"] /\ UNCHANGED queued
             \/ pc' = [pc EXCEPT !["op"] = "idle"]
          /\ UNCHANGED <<devState, scanReq, chanIdx, wpc, wreq, widx, reqs, status, progress>>
        BY <1>6 DEF CfgScanRxUp, CfgScanSchedule
    <2>2. /\ pc'["usb"] = "idle"
          /\ \/ pc'["op"] = "schedule" /\ UNCHANGED queued
             \/ pc'["op"] = "idle"
        BY <1>2, <2>1 DEF StayInd, ScanInd, TypeOK
    <2>3. scanReq = reqs /\ reqs # 0 /\ wpc = "idle" /\ ~queued
        BY <2>1 DEF StayInd, ScanInd, OpHasRequest, WorkForRequest
    <2>4. Stays' /\ WorkForRequest' /\ IndexCounts'
        BY <1>2, <2>1, <2>2, <2>3 DEF StayInd, Stays, WorkForRequest, IndexCounts
    <2> QED
        BY <1>1, <2>4 DEF StayInd
<1>7. CASE WorkerStart
    BY <1>1, <1>2, <1>7 DEF WorkerStart, StayInd, Stays, WorkForRequest, IndexCounts
<1>8. CASE WorkerDecide
    <2>1. ~queued /\ pc["op"] \notin {"rx_ensure", "schedule"}
        BY <1>8 DEF WorkerDecide, StayInd, WorkForRequest
    <2>2. CASE ScanFinish("aborted") /\ wpc' = "idle"
        BY <1>1, <1>8, <2>1, <2>2, StaysFinish DEF WorkerDecide
    <2>3. CASE ScanFinish("complete") /\ wpc' = "idle"
        BY <1>1, <1>8, <2>1, <2>3, StaysFinish DEF WorkerDecide
    <2>4. CASE wpc' = "tune" /\ UNCHANGED <<scanVars, histVars, cfgReq>>
        BY <1>1, <1>8, <2>4 DEF WorkerDecide, StayInd, Stays, WorkForRequest, IndexCounts
    <2> QED
        BY <1>8, <2>2, <2>3, <2>4 DEF WorkerDecide
<1>9. ASSUME NEW ok \in BOOLEAN, WorkerTune(ok) PROVE StayInd'
    BY <1>1, <1>9 DEF WorkerTune, StayInd, Stays, WorkForRequest, IndexCounts
<1>10. CASE WorkerAttribute
    <2>1. scanReq = wreq /\ wreq \in Requests /\ widx = chanIdx /\ progress[wreq] = chanIdx
        BY <1>10 DEF WorkerAttribute, StayInd, ScanInd, TypeOK, WorkForRequest, WorkerIndex, IndexCounts
    <2>2. /\ chanIdx' = chanIdx + 1
          /\ progress' = [progress EXCEPT ![wreq] = @ + 1]
          /\ wpc = "attribute"
          /\ wpc' = "probe"
          /\ UNCHANGED <<devState, scanReq, queued, wreq, pc, reqs, status>>
        BY <1>10, <2>1 DEF WorkerAttribute
    <2>3. Stays' /\ WorkForRequest'
        BY <2>1, <2>2 DEF StayInd, Stays, WorkForRequest
    <2>4. IndexCounts'
        BY <2>1, <2>2 DEF StayInd, ScanInd, TypeOK, IndexCounts
    <2> QED
        BY <1>1, <2>3, <2>4 DEF StayInd
<1>11. CASE WorkerProbe
    <2>1. /\ wpc = "probe" /\ wpc' = "idle"
          /\ scanReq # 0 /\ pc["op"] \notin {"publish", "rx_ensure", "schedule", "finish"}
          /\ UNCHANGED <<devState, scanReq, chanIdx, pc, reqs, status, progress>>
        BY <1>11 DEF WorkerProbe, StayInd, WorkForRequest
    <2> QED
        BY <1>1, <2>1 DEF StayInd, Stays, WorkForRequest, IndexCounts
<1>12. CASE CfgDisconnect
    <2>1. /\ \/ scanReq # 0 /\ pc' = [pc EXCEPT !["op"] = "cancel"]
             \/ pc' = [pc EXCEPT !["op"] = "idle"]
          /\ UNCHANGED <<devState, scanReq, chanIdx, queued, wpc, wreq, widx, reqs, status, progress>>
        BY <1>12 DEF CfgDisconnect, ScanStop
    <2>2. pc'["usb"] = "idle" /\ pc'["op"] \in {"cancel", "idle"}
        BY <1>2, <2>1 DEF StayInd, ScanInd, TypeOK
    <2> QED
        BY <1>1, <2>1, <2>2 DEF StayInd, Stays, WorkForRequest, IndexCounts
<1>13. CASE ScanStopCancel("op")
    <2>1. /\ pc' = [pc EXCEPT !["op"] = "finish"]
          /\ wpc = "idle" /\ queued' = FALSE
          /\ UNCHANGED <<devState, scanReq, chanIdx, wpc, wreq, widx, reqs, status, progress>>
        BY <1>13 DEF ScanStopCancel, CancelDone
    <2>2. pc'["usb"] = "idle" /\ pc'["op"] = "finish"
        BY <1>2, <2>1 DEF StayInd, ScanInd, TypeOK
    <2> QED
        BY <1>1, <2>1, <2>2 DEF StayInd, Stays, WorkForRequest, IndexCounts
<1>14. CASE ScanStopFinish("op")
    <2>1. /\ pc["op"] = "finish"
          /\ pc' = [pc EXCEPT !["op"] = "idle"]
          /\ ScanFinish("aborted")
          /\ UNCHANGED <<devState, queued, wpc, reqs>>
        BY <1>14 DEF ScanStopFinish
    <2>2. ~queued /\ wpc = "idle"
        BY <2>1 DEF StayInd, WorkForRequest
    <2> QED
        BY <1>1, <2>1, <2>2, StaysFinish
<1>15. CASE ScanRxBss \/ UNCHANGED vars
    BY <1>1, <1>15 DEF ScanRxBss, vars, StayInd, Stays, WorkForRequest, IndexCounts
<1>16. ~Unplug /\ ~UsbStep
    BY <1>2 DEF Unplug, UsbStep, UnplugScanStop, ScanStopCancel, ScanStopFinish, Unregister
<1> QED
    BY <1>3, <1>4, <1>5, <1>6, <1>7, <1>8, <1>9, <1>10, <1>11, <1>12, <1>13, <1>14, <1>15, <1>16
       DEF Next, WorkerStep, OpStep

\* The removal is not taken back.
LEMMA NeverBack == [Next]_vars /\ devState' = "RUNNING" => devState = "RUNNING"
BY DEF Next, vars, CfgScan, CfgDisconnect, Unplug, ScanRxBss, WorkerStep, WorkerStart, WorkerDecide,
       WorkerTune, WorkerAttribute, WorkerProbe, OpStep, CfgScanPublish, CfgScanRxFails,
       CfgScanRxUp, CfgScanSchedule, UsbStep, UnplugScanStop, ScanStop, ScanStopCancel,
       ScanStopFinish, Unregister

\* Every step keeps what the scan holds.
LEMMA KeepStep ==
    ASSUME ScanConstants, KeepInd, [Next]_vars
    PROVE  KeepInd'
<1>1. ScanInd'
    BY ScanStep DEF KeepInd
<1>2. ASSUME devState' = "RUNNING" PROVE StayInd'
    BY <1>2, NeverBack, StaysStep DEF KeepInd
<1> QED
    BY <1>1, <1>2 DEF KeepInd

\* Also while the dongle is pulled, the sweep's index never leaves req->channels[] and
\* cfg80211_scan_done fires at most once for a request (rf_2a4m1_scan_finish).  Until it is
\* pulled, the worker works on no request that was given back to cfg80211, because
\* cancel_delayed_work_sync keeps an abort from completing it during a sleeping set_channel.
THEOREM ScanCorrect == ScanConstants => (Spec => []ScanInv)
<1> SUFFICES ASSUME ScanConstants PROVE Spec => []ScanInv
    OBVIOUS
<1>1. Init => KeepInd
    BY ScanInitial, StaysInitial DEF KeepInd
<1>2. KeepInd /\ [Next]_vars => KeepInd'
    BY KeepStep
<1>3. KeepInd => ScanInv
    BY DEF KeepInd, StayInd, ScanInd, RequestsMade, WorkerIndex, WorkForRequest, ScanInv,
           WorkerHoldsLiveRequest
<1> QED
    BY <1>1, <1>2, <1>3, PTL DEF Spec

-----------------------------------------------------------------------------
(* The refinement: every step is one of the contract, or a stutter.         *)

\* Reporting the end of a scan is the contract's step for that end.
LEMMA FinishRefines ==
    ASSUME ScanConstants, StayInd, NEW how \in {"complete", "aborted"}, ScanFinish(how),
           how = "complete" => progress[scanReq] = NumChans, devState' = devState
    PROVE  [Contract!Next]_Contract!contractVars
<1>1. CASE scanReq = 0
    BY <1>1 DEF ScanFinish, Contract!contractVars
<1>2. CASE scanReq # 0
    <2>1. scanReq \in Requests /\ status[scanReq] = "active"
        BY <1>2 DEF StayInd, ScanInd, TypeOK, RequestsMade, Requests, ScanConstants
    <2>2. Contract!Become(scanReq, "active", how) /\ UNCHANGED progress
        BY <1>2, <2>1 DEF ScanFinish, Contract!Become
    <2>3. Contract!Complete(scanReq) \/ Contract!Abort(scanReq)
        BY <2>2 DEF Contract!Complete, Contract!Abort
    <2> QED
        BY <2>1, <2>3 DEF Contract!Next, StayInd, Stays
<1> QED
    BY <1>1, <1>2

\* While the device stays, every step is a step of the contract or a stutter.
LEMMA ContractStep ==
    ASSUME ScanConstants, StayInd, [Next]_vars, devState' = "RUNNING"
    PROVE  [Contract!Next]_Contract!contractVars
<1> USE DEF ScanConstants, Requests, Caller
<1>1. /\ devState = "RUNNING" /\ devState' = devState
      /\ pc["usb"] = "idle"
    BY DEF StayInd, Stays
<1>2. ASSUME UNCHANGED <<status, progress>> PROVE UNCHANGED Contract!contractVars
    BY <1>1, <1>2 DEF Contract!contractVars
<1>3. CASE CfgScan
    BY <1>1, <1>2, <1>3 DEF CfgScan
<1>4. CASE CfgScanPublish
    <2>1. /\ scanReq = 0 /\ cfgReq = reqs /\ reqs \in Requests /\ status[reqs] = "new"
        BY <1>4 DEF CfgScanPublish, StayInd, ScanInd, TypeOK, OpHasRequest
    <2>2. \A r \in Requests : status[r] # "active"
        BY <2>1 DEF StayInd, IndexCounts
    <2>3. Contract!Start(reqs)
        BY <1>4, <2>1, <2>2 DEF CfgScanPublish, Contract!Start, Contract!Become
    <2> QED
        BY <1>1, <2>1, <2>3 DEF Contract!Next
<1>5. CASE CfgScanRxFails
    <2>1. /\ scanReq = reqs /\ reqs \in Requests /\ status[reqs] = "active"
        BY <1>5 DEF CfgScanRxFails, StayInd, ScanInd, TypeOK, OpHasRequest, WorkForRequest, RequestsMade
    <2>2. Contract!Refuse(reqs)
        BY <1>5, <2>1 DEF CfgScanRxFails, Contract!Refuse, Contract!Become
    <2> QED
        BY <1>1, <2>1, <2>2 DEF Contract!Next
<1>6. CASE WorkerDecide
    <2>1. CASE SweptAll /\ ScanFinish("complete")
        <3>1. scanReq # 0 /\ progress[scanReq] = NumChans
            BY <1>6, <2>1 DEF WorkerDecide, SweptAll, StayInd, ScanInd, TypeOK, WorkForRequest,
                              WorkerIndex, IndexCounts
        <3> QED
            BY <1>1, <2>1, <3>1, FinishRefines
    <2>2. CASE ScanFinish("aborted")
        BY <1>1, <2>2, FinishRefines
    <2>3. CASE UNCHANGED <<scanVars, histVars, cfgReq>>
        BY <1>2, <2>3 DEF histVars
    <2> QED
        BY <1>6, <2>1, <2>2, <2>3 DEF WorkerDecide
<1>7. CASE WorkerAttribute
    <2>1. wreq \in Requests /\ status[wreq] = "active" /\ progress[wreq] < NumChans
        BY <1>7 DEF WorkerAttribute, StayInd, ScanInd, TypeOK, RequestsMade, WorkForRequest,
                    WorkerIndex
    <2>2. Contract!Visit(wreq)
        BY <1>7, <2>1 DEF WorkerAttribute, Contract!Visit
    <2> QED
        BY <1>1, <2>1, <2>2 DEF Contract!Next
<1>8. CASE ScanStopFinish("op")
    BY <1>1, <1>8, FinishRefines DEF ScanStopFinish
<1>9. CASE \/ CfgScanRxUp \/ CfgScanSchedule \/ WorkerStart \/ WorkerProbe \/ CfgDisconnect
           \/ ScanStopCancel("op") \/ ScanRxBss \/ UNCHANGED vars
    BY <1>2, <1>9 DEF CfgScanRxUp, CfgScanSchedule, WorkerStart, WorkerProbe, CfgDisconnect,
                      ScanStop, ScanStopCancel, ScanRxBss, vars, histVars
<1>10. ASSUME NEW ok \in BOOLEAN, WorkerTune(ok) PROVE UNCHANGED Contract!contractVars
    BY <1>2, <1>10 DEF WorkerTune, histVars
<1>11. ~Unplug /\ ~UsbStep
    BY <1>1 DEF Unplug, UsbStep, UnplugScanStop, ScanStopCancel, ScanStopFinish, Unregister
<1> QED
    BY <1>3, <1>4, <1>5, <1>6, <1>7, <1>8, <1>9, <1>10, <1>11 DEF Next, WorkerStep, OpStep

\* Pulling the dongle ends the contract.
LEMMA RemovalRefines ==
    ASSUME StayInd, [Next]_vars, devState' # "RUNNING"
    PROVE  Contract!Removed
<1>1. devState = "RUNNING" /\ pc["usb"] = "idle"
    BY DEF StayInd, Stays
<1>2. Unplug
    BY <1>1 DEF Next, vars, CfgScan, CfgDisconnect, ScanRxBss, WorkerStep, WorkerStart, WorkerDecide,
           WorkerTune, WorkerAttribute, WorkerProbe, OpStep, CfgScanPublish, CfgScanRxFails,
           CfgScanRxUp, CfgScanSchedule, UsbStep, UnplugScanStop, ScanStop, ScanStopCancel,
           ScanStopFinish, Unregister
<1> QED
    BY <1>1, <1>2 DEF Unplug, histVars, Contract!Removed

\* Until the dongle is pulled, the scan keeps its contract with cfg80211 (cfg80211.c): one
\* scan at a time, each ended once, and complete only after all its channels were visited.
THEOREM ScanImplements == ScanConstants => (Spec => ImplementsContract)
<1> SUFFICES ASSUME ScanConstants PROVE Spec => ImplementsContract
    OBVIOUS
<1>1. Init => KeepInd
    BY ScanInitial, StaysInitial DEF KeepInd
<1>2. KeepInd /\ [Next]_vars => KeepInd'
    BY KeepStep
<1>3. Init => Contract!Init
    BY DEF Init, Contract!Init
<1>4. KeepInd /\ [Next]_vars => [Contract!Next]_Contract!contractVars
    <2> SUFFICES ASSUME KeepInd, [Next]_vars PROVE [Contract!Next]_Contract!contractVars
        OBVIOUS
    <2>1. CASE devState # "RUNNING"
        BY <2>1, NeverBack DEF Contract!Next
    <2>2. CASE devState = "RUNNING" /\ devState' = "RUNNING"
        BY <2>2, ContractStep DEF KeepInd
    <2>3. CASE devState = "RUNNING" /\ devState' # "RUNNING"
        BY <2>3, RemovalRefines DEF KeepInd, Contract!Next
    <2> QED
        BY <2>1, <2>2, <2>3
<1> QED
    BY <1>1, <1>2, <1>3, <1>4, PTL DEF Spec, ImplementsContract, Contract!Spec

=============================================================================
