----------------------------- MODULE Exchanges ------------------------------
(***************************************************************************)
(* The exchanges that match late answers with requests: five with a peer   *)
(* on top of a completed association, TDLS (module Tdls), admission        *)
(* control, SA Query, Block Ack and fast transition, and the one with the  *)
(* firmware, the MCU commands of a channel change.  Each owns its part of  *)
(* the state and its own frames, and none reads the state of another, so   *)
(* an interleaving of two of them can show nothing that each does not show *)
(* alone: part, chosen at the start, says which of them moves, and the     *)
(* others rest in their initial state.                                     *)
(***************************************************************************)
EXTENDS Tdls

CONSTANTS
    Tsids, Slots, Times, DefaultLimit, Limits, Limited, Word,      \* Admission
    MaxRetries, TimeoutTicks, TidSpace, MaxQueries,                \* SaQuery
    Tids, Offer, Windows,                                          \* BlockAck
    MaxReqs, MaxSas,                                               \* the bounds they share
    Aps, FirstAp, OffChannel, RicDeny, MaxRoams, MaxNonces, MaxData, \* Ft
    Callers, Channels, SeqMax, Attempts, Tries, DrainMax, MaxLag   \* Mcu

VARIABLES
    part,
    ts, acTotal, acLimit, admUp, dialog, resp, admAir, granted,
    apSa, staSa, lastSa, q, count, saAir, serial, sends,
    foreign, baKey, baUp, offer, baLastSa, ba, agreed, baCount, recip, baAir,
    sta, ap, key, txPn, ftAir, drawn, roams, ftDerived, sent, repeated,
    mcuSeq, cmdQueue, fifo, job, rf, curChannel, share, ran

admVars == <<ts, acTotal, acLimit, admUp, dialog, resp, admAir, granted>>
saVars == <<apSa, staSa, lastSa, q, count, saAir, serial, sends>>
baVars == <<foreign, baKey, baUp, offer, baLastSa, ba, agreed, baCount, recip, baAir>>
ftVars == <<sta, ap, key, txPn, ftAir, drawn, roams, ftDerived, sent, repeated>>
mcuVars == <<mcuSeq, cmdQueue, fifo, job, rf, curChannel, share, ran>>
exVars == <<part, vars, admVars, saVars, baVars, ftVars, mcuVars>>

Adm == INSTANCE Admission WITH up <- admUp, air <- admAir
Sa == INSTANCE SaQuery WITH MaxStarts <- MaxQueries, air <- saAir
Ba == INSTANCE BlockAck WITH key <- baKey, up <- baUp, lastSa <- baLastSa, count <- baCount, air <- baAir
Ft == INSTANCE Ft WITH air <- ftAir, derived <- ftDerived
Tune == INSTANCE Mcu WITH queue <- cmdQueue

ExchangeConstants ==
    /\ TdlsConstants
    /\ Adm!AdmissionConstants
    /\ Sa!SaQueryConstants
    /\ Ba!BlockAckConstants
    /\ Ft!FtConstants
    /\ Tune!McuConstants

ExInit ==
    /\ part \in {"tdls", "admission", "sa_query", "block_ack", "ft", "tune"}
    /\ Init
    /\ Adm!Init
    /\ Sa!Init
    /\ Ba!Init /\ (part # "block_ack" => ~foreign /\ baKey["sta"] = 0)
    /\ Ft!Init
    /\ Tune!Init

ExNext ==
    /\ UNCHANGED part
    /\ \/ /\ part = "tdls"
          /\ Next
          /\ UNCHANGED <<admVars, saVars, baVars, ftVars, mcuVars>>
       \/ /\ part = "admission"
          /\ Adm!Next
          /\ UNCHANGED <<vars, saVars, baVars, ftVars, mcuVars>>
       \/ /\ part = "sa_query"
          /\ Sa!Next
          /\ UNCHANGED <<vars, admVars, baVars, ftVars, mcuVars>>
       \/ /\ part = "block_ack"
          /\ Ba!Next
          /\ UNCHANGED <<vars, admVars, saVars, ftVars, mcuVars>>
       \/ /\ part = "ft"
          /\ Ft!Next
          /\ UNCHANGED <<vars, admVars, saVars, baVars, mcuVars>>
       \/ /\ part = "tune"
          /\ Tune!Next
          /\ UNCHANGED <<vars, admVars, saVars, baVars, ftVars>>

ExSpec == ExInit /\ [][ExNext]_exVars

-----------------------------------------------------------------------------
(* The properties of the modules, each explained where it is defined; those *)
(* of TDLS are Tdls's TdlsInv and TeardownByKeyHolder.                      *)

\* The stream tables of both ends are consistent: the airtime of an AC is that
\* of its streams, no stream holds two slots, and the STA's were granted (qos.c).
AdmissionInv == Adm!AdmissionInv

\* Airtime is admitted within the limit in force, which may be below the total.
AdmitsWithinLimit == Adm!AdmitsWithinLimit

\* An SA Query is resolved once, by an answer to that transaction on that
\* association, and given up only after its whole budget of requests (pmf.c).
SaQueryInv == Sa!SaQueryInv

\* An ESTABLISHED Block Ack agreement was accepted for its TID, in its window; it
\* counts once, and this code's AP has it on record while its key lasts (ht.c).
BlockAckInv == Ba!BlockAckInv

\* A key is in use only when the other end of the roam has derived it, and a
\* reservation the STA believes in was granted by the AP it is connected to.
FtInv == Ft!FtInv

\* A tune that returned 0 and had the radio to itself was calibrated by the firmware, both
\* halves (usb.c).
TunedMeansCalibrated == Tune!TunedMeansCalibrated

=============================================================================
