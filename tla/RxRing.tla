------------------------------- MODULE RxRing -------------------------------
(***************************************************************************)
(* The bulk-IN ring of usb.c: RX URBs armed by a scan or a connect         *)
(* (rx_ensure), completed in softirq (rx_complete), their DMA segments     *)
(* queued for a process-context worker (rx_work) that answers on the TX    *)
(* endpoint, and the teardown by rf_2a4m1_disconnect.                      *)
(*                                                                         *)
(* The cfg80211 operations exclude each other by the wiphy lock, but not   *)
(* disconnect: rx_ensure, rx_start and rx_stop look at no lock and at no   *)
(* REMOVING, and both threads can be in rx_stop.  usbcore is external: it  *)
(* completes the URBs of an endpoint one at a time in the order they were  *)
(* submitted, usb_kill_urb waits for a running completion of its URB and   *)
(* refuses its resubmission, and the endpoints are shut before disconnect  *)
(* when the dongle is pulled, but not on an unbind or rmmod (soft_unbind). *)
(***************************************************************************)
EXTENDS Naturals, Sequences, FiniteSets, SequencesExt

CONSTANTS
    Urbs,         \* RF_2A4M1_RX_URBS, the slots 1..Urbs
    MaxAgg,       \* bound: segments in one transfer
    MaxSegs,      \* bound: segments the chip delivers
    MaxErrs,      \* bound: transfers that end in a transient error
    MaxFailures,  \* bound: allocations and submissions that fail
    MaxTx         \* bound: frames in flight on the TX endpoint

RxRingConstants ==
    /\ Urbs \in Nat \ {0}
    /\ MaxAgg \in Nat \ {0}
    /\ {MaxSegs, MaxErrs, MaxFailures, MaxTx} \subseteq Nat

Slot == 1..Urbs

VARIABLES
    removing,  \* dev->state is REMOVING
    epOpen,    \* usbcore accepts submissions on the endpoints (external)
    running,   \* dev->rx_running
    at,        \* where the operation ("op") and disconnect ("disc") are, and at which slot
    alloc,     \* the slots with an URB: dev->rx[i].urb is not NULL
    armed,     \* the URBs submitted, in order
    handler,   \* the slot whose completion runs, or NoHandler
    queue,     \* dev->rx_queue
    work,      \* rx_work: queued to run, and where a run of it is
    txAnchor,  \* frames submitted on the TX endpoint and not completed
    segs,      \* segments the chip has delivered
    taken,     \* history: the segments a transfer carried, well formed ones only
    delivered, \* history: the segments processed
    errs,      \* transient errors so far
    failures,  \* failed allocations and submissions so far
    late,      \* history: an operation or a frame came between or after disconnect's rx_stop
    fault      \* history: an URB was used or freed after its release, or overwritten

ring == <<running, alloc, armed, handler>>
soft == <<queue, work, txAnchor>>
history == <<segs, taken, delivered>>
vars == <<removing, epOpen, at, ring, soft, history, errs, failures, late, fault>>

NoHandler == 0
IdleWork == [queued |-> FALSE, at |-> "idle"]
AtRest == [pc |-> "idle", slot |-> 1]

\* rf_2a4m1_usb_probe_setup, and the zeroed device: nothing armed.
Init ==
    /\ removing = FALSE /\ epOpen = TRUE /\ running = FALSE
    /\ at = [op |-> AtRest, disc |-> AtRest]
    /\ alloc = {} /\ armed = <<>> /\ handler = NoHandler
    /\ queue = <<>> /\ work = IdleWork /\ txAnchor = 0
    /\ segs = 0 /\ taken = <<>> /\ delivered = <<>>
    /\ errs = 0 /\ failures = 0
    /\ late = FALSE /\ fault = FALSE

GoTo(th, pc, slot) == at' = [at EXCEPT ![th] = [pc |-> pc, slot |-> slot]]

\* disconnect has entered rx_stop.
StopBegun == at.disc.pc \notin {"idle", "begin", "stop"}

\* Undefined behaviour of the code: nothing is modelled after it.
Faults == fault' = TRUE /\ UNCHANGED <<removing, epOpen, at, ring, soft, history, errs, failures, late>>

-----------------------------------------------------------------------------
(* Bring-up.                                                               *)

\* rf_2a4m1_usb_rx_ensure, from .scan and from the SME's hal_start: the rx_running guard
\* is its only one, so an op past its own checks gets here during the removal too.
EnsureBegin ==
    /\ at.op.pc = "idle" /\ ~running
    /\ GoTo("op", "alloc", 1)
    /\ late' = (late \/ StopBegun)
    /\ UNCHANGED <<removing, epOpen, ring, soft, history, errs, failures, fault>>

\* A round of rf_2a4m1_usb_rx_start stores a new URB and buffer in its slot; one that has
\* an URB already loses it, submitted as it may be.
ArmAlloc ==
    LET s == at.op.slot IN
    /\ at.op.pc = "alloc" /\ s \in Slot
    /\ \/ s \in alloc /\ Faults
       \/ /\ s \notin alloc
          /\ \/ /\ alloc' = alloc \cup {s}
                /\ GoTo("op", "submit", s)
                /\ UNCHANGED failures
             \/ /\ failures < MaxFailures
                /\ failures' = failures + 1
                /\ alloc' \in {alloc, alloc \cup {s}}
                /\ GoTo("op", "kill", 1)
          /\ UNCHANGED <<removing, epOpen, running, armed, handler, soft, history, errs, late, fault>>

\* ... then fills and submits it, unless disconnect has released it meanwhile.
ArmSubmit ==
    LET s == at.op.slot IN
    /\ at.op.pc = "submit"
    /\ \/ s \notin alloc /\ Faults
       \/ /\ s \in alloc
          /\ \/ /\ epOpen
                /\ armed' = Append(armed, s)
                /\ GoTo("op", "alloc", s + 1)
                /\ UNCHANGED failures
             \/ /\ epOpen => failures < MaxFailures
                /\ failures' = IF epOpen THEN failures + 1 ELSE failures
                /\ GoTo("op", "kill", 1)
                /\ UNCHANGED armed
          /\ UNCHANGED <<removing, epOpen, running, alloc, handler, soft, history, errs, late, fault>>

\* The ring is armed.
EnsureEnd ==
    /\ at.op.pc = "alloc" /\ at.op.slot \notin Slot
    /\ running' = TRUE
    /\ GoTo("op", "idle", 1)
    /\ UNCHANGED <<removing, epOpen, alloc, armed, handler, soft, history, errs, failures, late, fault>>

-----------------------------------------------------------------------------
(* Completion, in softirq.                                                 *)

\* The segments a transfer carries, by whether the DMA header of each is
\* well formed (a length that is not zero, 4-aligned and within the
\* transfer).
Transfer == UNION {[1..k -> BOOLEAN] : k \in 0..MaxAgg}

\* The first k segments are well formed, and no more.
WellFormedUpTo(t, k) == (\A j \in 1..k : t[j]) /\ (k < Len(t) => ~t[k + 1])

WalkHeadOnly(t) == IF t # <<>> /\ t[1] THEN 1 ELSE 0

\* The walk of rf_2a4m1_rx_complete stops at the first malformed header.
Walk(t) == Cardinality({k \in DOMAIN t : \A j \in 1..k : t[j]})

Numbered(n) == [k \in 1..n |-> segs + k]

QueueWorkIfIdle(w) == [w EXCEPT !.queued = @ \/ w.at = "idle"]

\* schedule_work: work that runs is queued to run again.
QueueWork(w) == [w EXCEPT !.queued = TRUE]

\* The transfer of the oldest URB ended well: its segments are copied to
\* rx_queue, but for one there is no memory for, and the worker is scheduled.
RxComplete(t, lost) ==
    /\ handler = NoHandler /\ armed # <<>>
    /\ segs + Len(t) <= MaxSegs
    /\ armed' = Tail(armed)
    /\ handler' = Head(armed)
    /\ lost # 0 => lost \in 1..Walk(t) /\ failures < MaxFailures
    /\ failures' = IF lost # 0 THEN failures + 1 ELSE failures
    /\ LET walked == Numbered(Walk(t))
           copied == IF lost = 0 THEN walked ELSE RemoveAt(walked, lost)
       IN /\ queue' = queue \o copied
          /\ work' = IF copied # <<>> THEN QueueWork(work) ELSE work
    /\ segs' = segs + Len(t)
    /\ \E k \in 0..Len(t) : WellFormedUpTo(t, k) /\ taken' = taken \o Numbered(k)
    /\ UNCHANGED <<removing, epOpen, at, running, alloc, txAnchor, delivered, errs, late, fault>>

RxErrorAbandons ==
    /\ handler = NoHandler /\ armed # <<>> /\ errs < MaxErrs
    /\ armed' = Tail(armed)
    /\ errs' = errs + 1
    /\ UNCHANGED <<removing, epOpen, at, running, alloc, handler, soft, history, failures, late, fault>>

\* The transfer ended in a transient error: nothing to walk, straight to the
\* resubmission.
RxError ==
    /\ handler = NoHandler /\ armed # <<>> /\ errs < MaxErrs
    /\ armed' = Tail(armed)
    /\ handler' = Head(armed)
    /\ errs' = errs + 1
    /\ UNCHANGED <<removing, epOpen, at, running, alloc, soft, history, failures, late, fault>>

\* The end of rf_2a4m1_rx_complete: re-arm the URB unless the device goes
\* away.  The result of the submission is not looked at.  (The look at REMOVING and
\* the submission are one step: a kill of the URB waits for both.)
Resubmit ==
    /\ handler # NoHandler
    /\ handler' = NoHandler
    /\ \/ /\ ~removing /\ epOpen
          /\ armed' = Append(armed, handler)
          /\ UNCHANGED failures
       \/ /\ ~removing /\ epOpen => failures < MaxFailures
          /\ failures' = IF ~removing /\ epOpen THEN failures + 1 ELSE failures
          /\ UNCHANGED armed
    /\ UNCHANGED <<removing, epOpen, at, running, alloc, soft, history, errs, late, fault>>

-----------------------------------------------------------------------------
(* The worker and the TX endpoint.                                         *)

WorkBegin ==
    /\ work.queued /\ work.at = "idle"
    /\ work' = [queued |-> FALSE, at |-> "loop"]
    /\ UNCHANGED <<removing, epOpen, at, ring, queue, txAnchor, history, errs, failures, late, fault>>

\* One round of rf_2a4m1_rx_work: a segment is processed unless the device goes away.
WorkStep ==
    /\ work.at = "loop" /\ queue # <<>>
    /\ queue' = Tail(queue)
    /\ delivered' = IF removing THEN delivered ELSE Append(delivered, Head(queue))
    /\ work' = IF removing THEN work ELSE [work EXCEPT !.at = "process"]
    /\ UNCHANGED <<removing, epOpen, at, ring, txAnchor, segs, taken, errs, failures, late, fault>>

\* bulk_out_async, which looks at no state.
Submit ==
    /\ epOpen /\ txAnchor < MaxTx
    /\ txAnchor' = txAnchor + 1

\* The core is done with the segment and may have answered it.
WorkAnswer ==
    /\ work.at = "process"
    /\ work' = [work EXCEPT !.at = "loop"]
    /\ Submit \/ UNCHANGED txAnchor
    /\ UNCHANGED <<removing, epOpen, at, ring, queue, history, errs, failures, late, fault>>

\* skb_dequeue found nothing; the run is over only a moment later.
WorkEnd ==
    /\ \/ work.at = "loop" /\ queue = <<>> /\ work' = [work EXCEPT !.at = "ending"]
       \/ work.at = "ending" /\ work' = [work EXCEPT !.at = "idle"]
    /\ UNCHANGED <<removing, epOpen, at, ring, queue, txAnchor, history, errs, failures, late, fault>>

\* A frame of the network stack or of a .connect, until cfg80211_unregister ends both.
Transmit ==
    /\ Submit
    /\ late' = (late \/ at.disc.pc \in {"purge", "stopped"})
    /\ UNCHANGED <<removing, epOpen, at, ring, queue, work, history, errs, failures, fault>>

\* rf_2a4m1_tx_complete: a frame has left.
TxComplete ==
    /\ txAnchor > 0
    /\ txAnchor' = txAnchor - 1
    /\ UNCHANGED <<removing, epOpen, at, ring, queue, work, history, errs, failures, late, fault>>

-----------------------------------------------------------------------------
(* Teardown.                                                               *)

Thread == {"op", "disc"}

Live(s) == s \in ToSet(armed) \/ handler = s

KillUnwaited(s) == UNCHANGED armed

\* usb_kill_urb: when it returns the URB is not armed and its completion does not run.
Kill(s) ==
    /\ handler # s
    /\ \/ s \notin ToSet(armed) /\ UNCHANGED armed
       \/ \E i \in DOMAIN armed : armed[i] = s /\ armed' = RemoveAt(armed, i)

\* The loop of rf_2a4m1_usb_rx_stop, in the undo of a failed rx_start and in disconnect:
\* the URB of a slot is killed, an empty slot is passed ...
StopKill(th) ==
    LET s == at[th].slot IN
    /\ at[th].pc = "kill"
    /\ \/ s \in alloc /\ Kill(s) /\ GoTo(th, "free", s)
       \/ s \in Slot \ alloc /\ GoTo(th, "kill", s + 1) /\ UNCHANGED armed
       \/ s \notin Slot /\ GoTo(th, "cancel", 1) /\ UNCHANGED armed
    /\ UNCHANGED <<removing, epOpen, running, alloc, handler, soft, history, errs, failures, late, fault>>

\* ... then freed.  Where the other thread has freed it meanwhile, the pointer is NULL
\* already or is freed twice; where the operation has submitted it, it is freed in use.
StopFree(th) ==
    LET s == at[th].slot IN
    /\ at[th].pc = "free"
    /\ \/ /\ s \notin alloc \/ Live(s)
          /\ Faults
       \/ /\ ~Live(s)
          /\ alloc' = alloc \ {s}
          /\ GoTo(th, "kill", s + 1)
          /\ UNCHANGED <<removing, epOpen, running, armed, handler, soft, history, errs, failures, late, fault>>

\* Mutant: cancel_work instead of cancel_work_sync.
StopCancelUnwaited(th) ==
    /\ at[th].pc = "cancel"
    /\ work' = [work EXCEPT !.queued = FALSE]
    /\ GoTo(th, "anchor", 1)
    /\ UNCHANGED <<removing, epOpen, ring, queue, txAnchor, history, errs, failures, late, fault>>

\* cancel_work_sync
StopCancel(th) ==
    /\ at[th].pc = "cancel"
    /\ work.at = "idle"
    /\ work' = IdleWork
    /\ GoTo(th, "anchor", 1)
    /\ UNCHANGED <<removing, epOpen, ring, queue, txAnchor, history, errs, failures, late, fault>>

\* usb_kill_anchored_urbs
StopAnchor(th) ==
    /\ at[th].pc = "anchor"
    /\ txAnchor' = 0
    /\ GoTo(th, "purge", 1)
    /\ UNCHANGED <<removing, epOpen, ring, queue, work, history, errs, failures, late, fault>>

\* skb_queue_purge, and the ring may be brought up again.
StopPurge(th) ==
    /\ at[th].pc = "purge"
    /\ queue' = <<>>
    /\ running' = FALSE
    /\ GoTo(th, IF th = "op" THEN "idle" ELSE "stopped", 1)
    /\ UNCHANGED <<removing, epOpen, alloc, armed, handler, work, txAnchor, history, errs, failures,
                   late, fault>>

\* usbcore calls disconnect: of a pulled dongle after the endpoints are shut (the URBs in
\* flight end with -ESHUTDOWN, and rx_complete lets those go), else with them open.
Unplug ==
    /\ at.disc.pc = "idle"
    /\ \/ epOpen' = FALSE /\ armed' = <<>>
       \/ UNCHANGED <<epOpen, armed>>
    /\ GoTo("disc", "begin", 1)
    /\ UNCHANGED <<removing, running, alloc, handler, soft, history, errs, failures, late, fault>>

DisconnectBegin ==
    /\ at.disc.pc = "begin"
    /\ removing' = TRUE
    /\ GoTo("disc", "stop", 1)
    /\ UNCHANGED <<epOpen, ring, soft, history, errs, failures, late, fault>>

\* disconnect enters rx_stop, whatever an operation is doing.
DisconnectStop ==
    /\ at.disc.pc = "stop"
    /\ GoTo("disc", "kill", 1)
    /\ late' = (late \/ at.op.pc # "idle")
    /\ UNCHANGED <<removing, epOpen, ring, soft, history, errs, failures, fault>>

Stop(th) == StopKill(th) \/ StopFree(th) \/ StopCancel(th) \/ StopAnchor(th) \/ StopPurge(th)

Worker == WorkBegin \/ WorkStep \/ WorkAnswer \/ WorkEnd

Next ==
    /\ ~fault
    /\ \/ EnsureBegin \/ ArmAlloc \/ ArmSubmit \/ EnsureEnd
       \/ \E t \in Transfer, lost \in 0..MaxAgg : RxComplete(t, lost)
       \/ RxError \/ Resubmit
       \/ Worker \/ Transmit \/ TxComplete
       \/ \E th \in Thread : Stop(th)
       \/ Unplug \/ DisconnectBegin \/ DisconnectStop

\* The workqueue runs pending work, usbcore lets a completion finish, and a thread that is
\* in rx_stop goes on.
Fairness ==
    /\ WF_vars(~fault /\ Worker)
    /\ WF_vars(~fault /\ Resubmit)
    /\ \A th \in Thread : WF_vars(~fault /\ Stop(th))

Spec == Init /\ [][Next]_vars /\ Fairness

-----------------------------------------------------------------------------
(* Properties.                                                             *)

\* The ring holds together: no URB is armed twice or runs its completion
\* while it is armed, and every armed URB is one rx_stop will kill, however
\* two rx_stop and an rx_start interleave (usb.c:2123-2177).
RingHoldsTogether ==
    LET live == armed \o (IF handler = NoHandler THEN <<>> ELSE <<handler>>)
    IN /\ IsInjective(live)
       /\ ToSet(live) \subseteq alloc

\* Until the teardown or a failed submission, no URB ever leaves a
\* running ring: not through errors, not through short or malformed
\* transfers (usb.c:1713-1782).
RingStaysWhole ==
    (running /\ at.disc.pc = "idle" /\ failures = 0) =>
        Slot \subseteq ToSet(armed) \cup {handler}

\* The lock that rx_start and rx_stop do not take is missed only by an operation
\* that overlaps disconnect's rx_stop: otherwise no URB is freed twice, freed in
\* use, submitted after its release or overwritten (usb.c:2123-2177).
UrbsUsedSafely == fault => late

\* The ring is sound, whole and safe.
RingInv == RingHoldsTogether /\ RingStaysWhole /\ UrbsUsedSafely

\* Every well-formed segment of every aggregate reaches the core once and in
\* the order the chip delivered it, as long as the ring is not torn down;
\* across a teardown none is delivered twice or out of order (rx_complete,
\* rx_work).
DeliveredInOrder ==
    /\ (at.disc.pc = "idle" /\ failures = 0) => delivered \o queue = taken
    /\ \A i, j \in DOMAIN delivered : i < j => delivered[i] < delivered[j]
    /\ ToSet(delivered) \subseteq ToSet(taken)

\* Nothing is in flight that could touch the device: no URB, no completion,
\* no queued or running work, no frame.
Quiet ==
    /\ armed = <<>> /\ handler = NoHandler
    /\ queue = <<>> /\ work = IdleWork /\ txAnchor = 0

\* What rx_stop says of its order: the URBs are dead, so nothing new can be
\* queued, then the worker and its frames are waited out.  After disconnect's
\* rx_stop everything stays quiet (main.c:161-170 frees the device next).
StopIsFinal == at.disc.pc = "stopped" => Quiet

\* The same, also with endpoints that stay open on an unbind, as long as no
\* operation overlapped disconnect's rx_stop or armed the ring after it, and no
\* frame was sent after it.
QuietAfterStop == ~late => StopIsFinal

\* A queued segment does not stay in the queue: the worker is woken for it
\* (the lost wake-up that schedule_work must not have).
QueueDrains == []<>(queue = <<>> \/ fault)
=============================================================================
