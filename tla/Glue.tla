-------------------------------- MODULE Glue --------------------------------
(***************************************************************************)
(* What the glue keeps between cfg80211 and the chip beside a connection   *)
(* attempt (module Connect): the sweep of the channels (module Scan), the  *)
(* statistics of the link, and the bytes of a data frame on their way to   *)
(* and from the stack.  None reads what another writes: part, chosen at    *)
(* the start, says which of them moves, and the others rest.               *)
(***************************************************************************)
EXTENDS Scan, Sequences

CONSTANTS
    Bssids, Depth, DrainMax, MaxConnects, MaxTx, MaxRx, MaxErrors,   \* LinkStats
    PayloadLens, EapolMin, TxBuf                                     \* DataPath

VARIABLES
    part,
    bss, epoch, cpc, pending, link, rssi, rxRate, txRate, capture, rx, heard, air, fifo,
    probed, posted, missed, valid, drain, polling, timer, errors, straddled,
    frame, verdict

statVars == <<bss, epoch, cpc, pending, link, rssi, rxRate, txRate, capture, rx, heard, air, fifo,
              probed, posted, missed, valid, drain, polling, timer, errors, straddled>>
pathVars == <<frame, verdict>>
glueVars == <<part, vars, statVars, pathVars>>

Stats == INSTANCE LinkStats
Path == INSTANCE DataPath

GlueConstants ==
    /\ ScanConstants
    /\ Stats!LinkStatsConstants
    /\ Path!DataPathConstants

\* Any frame will do while the frame path rests.
SomeFrame == Path!HwDataTx("ip", 0)

GlueInit ==
    /\ part \in {"scan", "stats", "path"}
    /\ Init /\ (part # "scan" => radio = 0)
    /\ Stats!Init
    /\ IF part = "path" THEN Path!Init ELSE frame = SomeFrame /\ verdict = Path!Pending

GlueNext ==
    /\ UNCHANGED part
    /\ \/ /\ part = "scan"
          /\ Next
          /\ UNCHANGED <<statVars, pathVars>>
       \/ /\ part = "stats"
          /\ Stats!Next
          /\ UNCHANGED <<vars, pathVars>>
       \/ /\ part = "path"
          /\ Path!Next
          /\ UNCHANGED <<vars, statVars>>

\* The fairness of the components; at rest none of it is enabled.
GlueSpec == GlueInit /\ [][GlueNext]_glueVars /\ Fairness /\ Stats!Fairness

-----------------------------------------------------------------------------
(* The properties of the modules, each explained where it is defined; those *)
(* of the sweep are Scan's.                                                *)

\* Every TX-status report is counted once and in its class, or was lost to a
\* full FIFO or a failed read.
ReportsAccounted == Stats!ReportsAccounted

\* .get_station shows no sample of an earlier connect, unless one was under way
\* while .connect started afresh.
StatsUnraced == Stats!StatsUnraced

\* The TX-status FIFO is emptied again and again while it is polled.
FifoDrains == Stats!FifoDrains

\* The stack gets the sender's addresses, ethertype and payload to the byte,
\* and EAPOL reaches the 4-way handshake and only it.
ReceivedInv == Path!ReceivedInv

\* What the stack sends arrives as it was sent, and fits its buffer.
SentIsReceived == Path!SentIsReceived

=============================================================================
