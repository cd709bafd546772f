------------------------------- MODULE Device -------------------------------
(***************************************************************************)
(* The parts of usb.c and main.c that work the chip, side by side: the RX  *)
(* ring, the MCU commands of a channel change, and the bring-up.  They use *)
(* different endpoints and different fields of the device, and none reads  *)
(* a field that another writes: part, chosen at the start among Parts,     *)
(* says which of them moves, and the others rest in their initial state.   *)
(***************************************************************************)
EXTENDS Naturals, Sequences

CONSTANTS
    Parts,                                                          \* bound: the parts a run looks at
    Urbs, MaxAgg, MaxSegs, MaxErrs, MaxFailures, MaxTx,             \* RxRing
    Callers, Channels, SeqMax, Attempts, Tries, DrainMax, MaxLag,   \* Mcu
    IlmLens, DlmLens, Payload, Ivb, DlmOffset, IoErrors, MaxBinds   \* BringUp

VARIABLES
    part,
    removing, epOpen, running, at, alloc, armed, handler, rxQueue,
    work, txAnchor, segs, taken, delivered, errs, failures, late, fault,
    mcuSeq, cmdQueue, fifo, job, rf, curChannel, share, ran,
    probePc, bind, img, seg, dev, held, com0, mcu, started, mem, missed

ringVars == <<removing, epOpen, running, at, alloc, armed, handler,
              rxQueue, work, txAnchor, segs, taken, delivered, errs, failures, late, fault>>
mcuVars == <<mcuSeq, cmdQueue, fifo, job, rf, curChannel, share, ran>>
probeVars == <<probePc, bind, img, seg, dev, held, com0, mcu, started, mem, missed>>
vars == <<part, ringVars, mcuVars, probeVars>>

Ring == INSTANCE RxRing WITH queue <- rxQueue
Tune == INSTANCE Mcu WITH queue <- cmdQueue
Load == INSTANCE BringUp WITH pc <- probePc

DeviceConstants ==
    /\ Parts \subseteq {"ring", "tune", "load"}
    /\ Ring!RxRingConstants
    /\ Tune!McuConstants
    /\ Load!BringUpConstants

Init ==
    /\ part \in Parts
    /\ Ring!Init
    /\ Tune!Init
    /\ Load!Init

Next ==
    /\ UNCHANGED part
    /\ \/ /\ part = "ring"
          /\ Ring!Next
          /\ UNCHANGED <<mcuVars, probeVars>>
       \/ /\ part = "tune"
          /\ Tune!Next
          /\ UNCHANGED <<ringVars, probeVars>>
       \/ /\ part = "load"
          /\ Load!Next
          /\ UNCHANGED <<ringVars, mcuVars>>

\* The fairness of the components; at rest none of it is enabled.
Spec == Init /\ [][Next]_vars
             /\ Ring!Fairness /\ Tune!Fairness /\ Load!Fairness

-----------------------------------------------------------------------------
(* The properties of the modules; each is explained where it is defined.   *)

\* No URB is armed twice, rx_stop knows every armed one, none leaves a running ring but by
\* a failed submission or the teardown, and none is misused but by a late operation.
RingInv == Ring!RingInv

\* Every well-formed segment reaches the core once and in order.
DeliveredInOrder == Ring!DeliveredInOrder

\* Nothing is in flight when disconnect frees the device, unless an operation or a frame
\* came late.
QuietAfterStop == Ring!QuietAfterStop

\* Nothing is in flight once disconnect has stopped the ring.
StopIsFinal == Ring!StopIsFinal

\* A queued segment is processed.
QueueDrains == Ring!QueueDrains

\* set_channel returns, also from a firmware that never answers.
TuneReturns == Tune!TuneReturns

\* The MCU is started on the whole image of this load, and FW_LOADED confirms
\* this load and not that of an earlier bind.
LoadInv == Load!LoadInv

\* A chip declared initialised has a live MCU, also where errors went unnoticed.
InitedMeansLive == Load!InitedMeansLive

\* Every way out of probe gives back what it took.
NothingLeaks == Load!NothingLeaks

\* A probe ends, bound or unwound.
ProbeEnds == Load!ProbeEnds

=============================================================================
