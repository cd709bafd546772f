------------------------------ MODULE Connect ------------------------------
(***************************************************************************)
(* The glue's connect path (src/src/cfg80211.c, src/src/usb.c): the        *)
(* .connect and .disconnect ops, the delayed work that polls the SME and   *)
(* tells cfg80211 how the attempt ended, the installation of the keys in   *)
(* the chip's CCMP table and the data frames the chip encrypts with them.  *)
(* The threads are the op, the poll work, the RX worker that drives the    *)
(* SME, the transmit path and the removal of the dongle; the glue takes no *)
(* lock between them.  A step ends where another thread can see the        *)
(* difference.                                                             *)
(*                                                                         *)
(* The SME is taken at its view (module SmeView), which module Sme is      *)
(* shown to implement.  External, from how the glue uses them: cfg80211    *)
(* (ops run one at a time; .connect comes on an idle link, again during an *)
(* attempt, or as a re-association of a connected link, and the op looks   *)
(* at neither; a success up-call makes the link connected), the workqueue, *)
(* and the chip, whose packet number restarts when WCID_IV is written.     *)
(***************************************************************************)
EXTENDS Naturals

CONSTANTS
    Keys,         \* the TKs the 4-ways can derive
    NoKey,        \* the all-zero key buffer
    MaxPolls,     \* RF_2A4M1_CONNECT_MAX_POLLS
    MaxConnects,  \* bound: .connect calls
    MaxPn,        \* bound: frames the chip sends under one installation
    MayRejoin,    \* user space may call .connect on a link that is not idle
    MayAddKey,    \* user space may call .add_key with a pairwise CCMP key
    MayUnplug     \* the dongle may be removed

ASSUME ConnectConstants ==
    /\ NoKey \notin Keys
    /\ MaxPolls \in Nat
    /\ MaxConnects \in Nat
    /\ MaxPn \in Nat
    /\ MayRejoin \in BOOLEAN
    /\ MayAddKey \in BOOLEAN
    /\ MayUnplug \in BOOLEAN

VARIABLES
    phase, upFlag, tk, spent, armed,   \* dev->sme, as SmeView
    devState,   \* dev->state, or FREED after kfree(dev)
    pending,    \* dev->connect_pending
    polls,      \* dev->connect_polls
    queued,     \* connect_work is pending
    wpc,        \* where the running connect_work is
    cpc,        \* where the running cfg80211 op is
    upc,        \* where the removal of the dongle is
    hwKey,      \* dev->hw_key_installed
    chipTk,     \* the TK in the chip's WCID table
    chipPn,     \* the chip's packet number under it
    probed,     \* dev->bogus_probe_done
    link,       \* external: what the last up-call or op has told cfg80211 of the link
    connects,   \* external: the .connect calls so far
    old,        \* history: the TKs spent before the current .connect
    raced,      \* history: a connect_work has run beside a .connect or past a .disconnect
    rejoined,   \* history: a .connect without a .disconnect has found hw_key_installed set
    added,      \* history: user space has called .add_key
    sent        \* history: the (TK, PN) the chip has sent under

smeVars == <<phase, upFlag, tk, spent, armed>>
chipVars == <<hwKey, chipTk, chipPn, probed, sent>>
vars == <<phase, upFlag, tk, spent, armed, devState, pending, polls, queued, wpc, cpc, upc,
          hwKey, chipTk, chipPn, probed, link, connects, old, raced, rejoined, added, sent>>

Sme == INSTANCE SmeView

\* The SME is zeroed memory until the first .connect.
Init ==
    /\ Sme!Init
    /\ armed = FALSE
    /\ devState = "RUNNING"
    /\ pending = FALSE
    /\ polls = 0
    /\ queued = FALSE
    /\ wpc = "idle"
    /\ cpc = "idle"
    /\ upc = "idle"
    /\ hwKey = FALSE
    /\ chipTk = NoKey
    /\ chipPn = 0
    /\ probed = FALSE
    /\ link = "idle"
    /\ connects = 0
    /\ old = {}
    /\ raced = FALSE
    /\ rejoined = FALSE
    /\ added = FALSE
    /\ sent = {}

-----------------------------------------------------------------------------
(* The RX worker: what received frames do to the SME.                      *)

\* bind_hal of the first .connect has registered the SME's rx_cb.
Bound == connects > 1 \/ (connects = 1 /\ cpc # "init")

\* rx_work drops what it dequeues after REMOVING, but a segment past that check is
\* still delivered, until rx_stop has waited for the worker.
SmeRx ==
    /\ Bound
    /\ upc \in {"idle", "stop"}
    /\ (\E k \in Keys : Sme!Connects(k)) \/ Sme!Torn \/ Sme!Fails
    /\ UNCHANGED <<devState, pending, polls, queued, wpc, cpc, upc, chipVars, link, connects, old, raced, rejoined, added>>

-----------------------------------------------------------------------------
(* rf_2a4m1_cfg_connect.                                                   *)

\* The target is resolved and the radio tuned.  A call that fails before this point,
\* hal set_channel included, starts nothing.  The link may be up, or another attempt be
\* under way with its poll queued or running: the op asks for neither, and leaves both
\* connect_work and hw_key_installed as they are.
CfgConnect ==
    /\ cpc = "idle"
    /\ upc # "gone"
    /\ link = "idle" \/ MayRejoin
    /\ connects < MaxConnects
    /\ connects' = connects + 1
    /\ link' = "connecting"
    /\ cpc' = "init"
    /\ raced' = (raced \/ wpc # "idle")
    /\ rejoined' = (rejoined \/ (link # "idle" /\ hwKey))
    /\ UNCHANGED <<smeVars, devState, pending, polls, queued, wpc, upc, chipVars, old, added>>

\* Mutant: the SME is not initialised again.
CfgConnectInitKeeps ==
    /\ cpc = "init"
    /\ armed' = TRUE
    /\ UNCHANGED <<phase, upFlag, tk, spent, old>>
    /\ cpc' = "start"
    /\ UNCHANGED <<devState, pending, polls, queued, wpc, upc, chipVars, link, connects, raced, rejoined, added>>

\* sme_init and bind_hal: from here on frames reach the new SME.
CfgConnectInit ==
    /\ cpc = "init"
    /\ Sme!Wipe
    /\ old' = spent
    /\ cpc' = "start"
    /\ UNCHANGED <<devState, pending, polls, queued, wpc, upc, chipVars, link, connects, raced, rejoined, added>>

\* set_peer and connect_start, then the fields of the new attempt.
CfgConnectStart ==
    /\ cpc = "start"
    /\ Sme!Restart
    /\ polls' = 0
    /\ cpc' = "arm"
    /\ UNCHANGED <<devState, pending, queued, wpc, upc, chipVars, link, connects, old, raced, rejoined, added>>

\* Mutant: the poll is scheduled before connect_pending is set.
CfgConnectArmLate(step) ==
    /\ cpc = step
    /\ IF step = "arm"
       THEN queued' = TRUE /\ UNCHANGED pending
       ELSE pending' = TRUE /\ UNCHANGED queued
    /\ cpc' = IF step = "arm" THEN "schedule" ELSE "idle"

\* connect_pending is set, then connect_work scheduled (a pending item stays so).
CfgConnectArm(step) ==
    /\ cpc = step
    /\ IF step = "arm"
       THEN pending' = TRUE /\ UNCHANGED queued
       ELSE queued' = TRUE /\ UNCHANGED pending
    /\ cpc' = IF step = "arm" THEN "schedule" ELSE "idle"

CfgConnectEnd(step) ==
    /\ CfgConnectArm(step)
    /\ UNCHANGED <<smeVars, devState, polls, wpc, upc, chipVars, link, connects, old, raced, rejoined, added>>

-----------------------------------------------------------------------------
(* rf_2a4m1_cfg_disconnect.                                                *)

CfgDisconnect ==
    /\ cpc = "idle"
    /\ upc # "gone"
    /\ link # "idle"
    /\ pending' = FALSE
    /\ cpc' = "cancel"
    /\ UNCHANGED <<smeVars, devState, polls, queued, wpc, upc, chipVars, link, connects, old, raced, rejoined, added>>

\* cancel_delayed_work: a worker that already runs goes on.
CfgDisconnectCancel ==
    /\ cpc = "cancel"
    /\ queued' = FALSE
    /\ raced' = (raced \/ wpc # "idle")
    /\ cpc' = "forget"
    /\ UNCHANGED <<smeVars, devState, pending, polls, wpc, upc, chipVars, link, connects, old, rejoined, added>>

\* Mutant: the chip's key still counts as installed.
CfgDisconnectKeepsKey ==
    /\ cpc = "forget"
    /\ cpc' = "tell"
    /\ UNCHANGED <<smeVars, devState, pending, polls, queued, wpc, upc, chipVars, link, connects,
                   old, raced, rejoined, added>>

\* After the (sleeping) TX-status report.  The SME is left as it is, up and keyed.
CfgDisconnectForget ==
    /\ cpc = "forget"
    /\ hwKey' = FALSE
    /\ cpc' = "tell"
    /\ UNCHANGED <<smeVars, devState, pending, polls, queued, wpc, upc, chipTk, chipPn, probed,
                   sent, link, connects, old, raced, rejoined, added>>

\* The protected deauth, then cfg80211_disconnected.
CfgDisconnectTell ==
    /\ cpc = "tell"
    /\ link' = "idle"
    /\ cpc' = "idle"
    /\ UNCHANGED <<smeVars, devState, pending, polls, queued, wpc, upc, chipVars, connects, old, raced, rejoined, added>>

-----------------------------------------------------------------------------
(* rf_2a4m1_connect_worker.                                                *)

WorkerVars == <<smeVars, devState, cpc, upc, connects, old, raced, rejoined, added>>

WorkerStart ==
    /\ queued
    /\ wpc = "idle"
    /\ queued' = FALSE
    /\ wpc' = "check"
    /\ raced' = (raced \/ cpc \in {"init", "start", "arm", "schedule"})
    /\ UNCHANGED <<smeVars, devState, cpc, upc, connects, old, rejoined, added,
                   pending, polls, chipVars, link>>

WorkerCheck ==
    /\ wpc = "check"
    /\ wpc' = IF devState = "REMOVING" \/ ~pending THEN "idle" ELSE "poll"
    /\ UNCHANGED <<WorkerVars, pending, polls, queued, chipVars, link>>

\* Mutant: a poll that finds the SME between two states is not repeated.
RearmUnlessLast == queued' = (queued \/ polls + 1 < MaxPolls)

Rearm == queued' = TRUE

\* Mutant: the limit is compared before the poll is counted.
OutOfPollsLate == polls > MaxPolls

OutOfPolls == polls + 1 > MaxPolls

\* One look at the SME: won, lost, out of polls, or once more after POLL_MS.
WorkerPoll ==
    /\ wpc = "poll"
    /\ \/ /\ phase = "connected" \/ upFlag
          /\ wpc' = "won"
          /\ UNCHANGED <<polls, queued>>
       \/ /\ ~(phase = "connected" \/ upFlag)
          /\ phase = "failed"
          /\ wpc' = "lost"
          /\ UNCHANGED <<polls, queued>>
       \/ /\ ~(phase = "connected" \/ upFlag)
          /\ phase # "failed"
          /\ polls' = polls + 1
          /\ IF OutOfPolls
             THEN wpc' = "lost" /\ UNCHANGED queued
             ELSE wpc' = "idle" /\ Rearm
    /\ UNCHANGED <<WorkerVars, pending, chipVars, link>>

\* A failure, or a timeout after a last TX-status report.
WorkerLost ==
    /\ wpc = "lost"
    /\ pending' = FALSE
    /\ wpc' = "fail"
    /\ UNCHANGED <<WorkerVars, polls, queued, chipVars, link>>

WorkerFail ==
    /\ wpc = "fail"
    /\ link' = IF link = "connecting" THEN "idle" ELSE link
    /\ wpc' = "idle"
    /\ UNCHANGED <<WorkerVars, pending, polls, queued, chipVars>>

\* install_hw_keys looks whether there is a PTK and a data key, unless hw_key_installed.
WorkerWon ==
    /\ wpc = "won"
    /\ pending' = FALSE
    /\ wpc' = IF ~hwKey /\ tk # NoKey THEN "program" ELSE "probe"
    /\ UNCHANGED <<WorkerVars, polls, queued, chipVars, link>>

\* The register writes: the TK as it is in memory now, and a packet number of 0.
InstallHwKeys ==
    /\ chipTk' = tk
    /\ chipPn' = 0
    /\ hwKey' = TRUE
    /\ UNCHANGED <<probed, sent>>

WorkerProgram ==
    /\ wpc = "program"
    /\ InstallHwKeys
    /\ wpc' = "probe"
    /\ UNCHANGED <<WorkerVars, pending, polls, queued, link>>

\* A frame the chip numbers and encrypts.
ChipTx ==
    /\ chipPn < MaxPn
    /\ chipPn' = chipPn + 1
    /\ sent' = sent \cup {<<chipTk, chipPn + 1>>}
    /\ UNCHANGED <<hwKey, chipTk>>

\* The one-shot bogus-BSSID frames use the pairwise key too.
WorkerProbe ==
    /\ wpc = "probe"
    /\ wpc' = "report"
    /\ IF hwKey /\ ~probed
       THEN /\ probed' = TRUE
            /\ ChipTx \/ UNCHANGED <<hwKey, chipTk, chipPn, sent>>
       ELSE UNCHANGED chipVars
    /\ UNCHANGED <<WorkerVars, pending, polls, queued, link>>

\* publish_target_bss, cfg80211_connect_bss(SUCCESS) and cfg80211_port_authorized.
WorkerReport ==
    /\ wpc = "report"
    /\ link' = "connected"
    /\ wpc' = "idle"
    /\ UNCHANGED <<WorkerVars, pending, polls, queued, chipVars>>

-----------------------------------------------------------------------------
(* The transmit path, .add_key and the removal of the dongle.              *)

\* ndo_start_xmit -> rf_2a4m1_usb_hw_data_tx
HwDataTx ==
    /\ hwKey
    /\ devState # "FREED"
    /\ ChipTx
    /\ UNCHANGED <<WorkerVars, pending, polls, queued, wpc, probed, link>>

\* .add_key -> rf_2a4m1_op_set_key installs the SME's key, not the one given.
CfgAddKey ==
    /\ MayAddKey
    /\ cpc = "idle"
    /\ upc # "gone"
    /\ tk # NoKey
    /\ InstallHwKeys
    /\ added' = TRUE
    /\ UNCHANGED <<smeVars, devState, pending, polls, queued, wpc, cpc, upc, link, connects, old, raced, rejoined>>

Unplug ==
    /\ MayUnplug
    /\ devState = "RUNNING"
    /\ devState' = "REMOVING"
    /\ upc' = "stop"
    /\ UNCHANGED <<smeVars, pending, polls, queued, wpc, cpc, chipVars, link, connects, old, raced, rejoined, added>>

UnplugStop ==
    /\ upc = "stop"
    /\ pending' = FALSE
    /\ upc' = "cancel"
    /\ UNCHANGED <<smeVars, devState, polls, queued, wpc, cpc, chipVars, link, connects, old, raced, rejoined, added>>

\* cancel_delayed_work_sync
UnplugCancel ==
    /\ upc = "cancel"
    /\ wpc = "idle"
    /\ queued' = FALSE
    /\ upc' = "unregister"
    /\ UNCHANGED <<smeVars, devState, pending, polls, wpc, cpc, chipVars, link, connects, old, raced, rejoined, added>>

\* unregister_netdev and wiphy_unregister wait for a running op; then kfree(dev).
Unregister ==
    /\ upc = "unregister"
    /\ cpc = "idle"
    /\ devState' = "FREED"
    /\ upc' = "gone"
    /\ UNCHANGED <<smeVars, pending, polls, queued, wpc, cpc, chipVars, link, connects, old, raced, rejoined, added>>

-----------------------------------------------------------------------------

\* Nothing is modelled of a worker that runs on freed memory.
WorkerStep ==
    /\ devState # "FREED"
    /\ \/ WorkerStart
       \/ WorkerCheck
       \/ WorkerPoll
       \/ WorkerLost
       \/ WorkerFail
       \/ WorkerWon
       \/ WorkerProgram
       \/ WorkerProbe
       \/ WorkerReport

OpStep ==
    \/ CfgConnectInit
    \/ CfgConnectStart
    \/ CfgConnectEnd("arm")
    \/ CfgConnectEnd("schedule")
    \/ CfgDisconnectCancel
    \/ CfgDisconnectForget
    \/ CfgDisconnectTell

UnplugStep == UnplugStop \/ UnplugCancel \/ Unregister

Next ==
    \/ SmeRx
    \/ CfgConnect
    \/ CfgDisconnect
    \/ OpStep
    \/ WorkerStep
    \/ HwDataTx
    \/ CfgAddKey
    \/ Unplug
    \/ UnplugStep

\* The timer fires and a thread that is inside the driver goes on.
Fairness == WF_vars(WorkerStep) /\ WF_vars(OpStep) /\ WF_vars(UnplugStep)

Spec == Init /\ [][Next]_vars /\ Fairness

-----------------------------------------------------------------------------
(* Properties.                                                             *)

\* Every variable stays in the range of its C field.  connect_polls stops at its limit
\* unless a worker that outlived its attempt counts on for the next one.
TypeOK ==
    /\ phase \in {"open", "connected", "failed"}
    /\ upFlag \in BOOLEAN
    /\ tk \in Keys \cup {NoKey}
    /\ spent \subseteq Keys
    /\ armed \in BOOLEAN
    /\ devState \in {"RUNNING", "REMOVING", "FREED"}
    /\ pending \in BOOLEAN
    /\ polls \in Nat
    /\ ~raced => polls <= MaxPolls + 1
    /\ queued \in BOOLEAN
    /\ wpc \in {"idle", "check", "poll", "won", "lost", "fail", "program", "probe", "report"}
    /\ cpc \in {"idle", "init", "start", "arm", "schedule", "cancel", "forget", "tell"}
    /\ upc \in {"idle", "stop", "cancel", "unregister", "gone"}
    /\ hwKey \in BOOLEAN
    /\ chipTk \in Keys \cup {NoKey}
    /\ chipPn \in Nat
    /\ probed \in BOOLEAN
    /\ link \in {"idle", "connecting", "connected"}
    /\ connects \in Nat
    /\ old \subseteq Keys
    /\ raced \in BOOLEAN
    /\ rejoined \in BOOLEAN
    /\ added \in BOOLEAN
    /\ sent \subseteq (Keys \cup {NoKey}) \X Nat

\* A pending attempt is never forgotten: the poll is queued, or a worker that has
\* not decided yet is on it, however .connect, .disconnect and a late worker overlap.
PollerArmed ==
    pending /\ devState = "RUNNING" /\ cpc # "schedule"
        => queued \/ wpc \in {"check", "poll", "won", "lost"}

\* What makes PollerArmed inductive: the op that cancels the poll has cleared
\* connect_pending first, and the removal cancels only after leaving RUNNING.
PollerInv ==
    /\ PollerArmed
    /\ cpc = "cancel" => ~pending
    /\ upc # "idle" => devState # "RUNNING"

\* An attempt ends within the polls: pending is cleared again, unless the dongle goes.
EveryConnectEnds == pending ~> ~pending \/ devState # "RUNNING"

\* The chip never numbers two frames alike under one TK: as long as no connect_work ran
\* beside a .connect or past a .disconnect and nobody called .add_key, no TK is programmed
\* twice, so the reset of the chip's packet number in install_hw_keys is safe, also when
\* a link is re-associated without a .disconnect.
NoChipNonceReuse ==
    [][~raced /\ ~added /\ chipPn' = chipPn + 1 /\ chipTk # NoKey
          => <<chipTk, chipPn'>> \notin sent]_vars

\* A link cfg80211 takes for connected has in the chip no TK of an earlier .connect:
\* the TK is programmed when the 4-way of this one completes.
ChipKeyOfThisConnect == link = "connected" /\ cpc = "idle" => chipTk \notin old

\* The same, as long as no connect_work ran beside a .connect or past a .disconnect,
\* nobody called .add_key, which programs whatever TK the SME holds, and no .connect of a
\* link in use, which a .disconnect has not gone before, found hw_key_installed set.
ChipKeyUnraced == ~raced /\ ~added /\ ~rejoined => ChipKeyOfThisConnect

=============================================================================
