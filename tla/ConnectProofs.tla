--------------------------- MODULE ConnectProofs ---------------------------
(***************************************************************************)
(* For every number of attempts, polls and keys: a pending connect attempt *)
(* is never without a poll; while no connect_work runs beside a .connect   *)
(* or past a .disconnect, the chip never repeats a packet number, and      *)
(* unless a link in use is re-associated it has the key of this connection.*)
(***************************************************************************)
EXTENDS Connect, TLAPS

\* Every step of the op, of the worker, of the SME and of the removal keeps the
\* poll of a pending attempt armed.
LEMMA PollerStep == PollerInv /\ [Next]_vars => PollerInv'
<1> SUFFICES ASSUME PollerInv, [Next]_vars PROVE PollerInv'
    OBVIOUS
<1> USE DEF PollerInv, PollerArmed
<1>1. CASE SmeRx
    BY <1>1 DEF SmeRx
<1>2. CASE CfgConnect
    BY <1>2 DEF CfgConnect
<1>3. CASE CfgDisconnect
    BY <1>3 DEF CfgDisconnect
<1>4. CASE OpStep
    <2>1. CASE CfgConnectInit
        BY <2>1 DEF CfgConnectInit
    <2>2. CASE CfgConnectStart
        BY <2>2 DEF CfgConnectStart
    <2>3. CASE CfgConnectEnd("arm")
        BY <2>3 DEF CfgConnectEnd, CfgConnectArm
    <2>4. CASE CfgConnectEnd("schedule")
        BY <2>4 DEF CfgConnectEnd, CfgConnectArm
    <2>5. CASE CfgDisconnectCancel
        BY <2>5 DEF CfgDisconnectCancel
    <2>6. CASE CfgDisconnectForget
        BY <2>6 DEF CfgDisconnectForget
    <2>7. CASE CfgDisconnectTell
        BY <2>7 DEF CfgDisconnectTell
    <2> QED
        BY <1>4, <2>1, <2>2, <2>3, <2>4, <2>5, <2>6, <2>7 DEF OpStep
<1>5. CASE WorkerStep
    <2> USE DEF WorkerVars
    <2>1. CASE WorkerStart
        BY <2>1 DEF WorkerStart
    <2>2. CASE WorkerCheck
        BY <2>2 DEF WorkerCheck
    <2>3. CASE WorkerPoll
        BY <2>3 DEF WorkerPoll, Rearm
    <2>4. CASE WorkerLost
        BY <2>4 DEF WorkerLost
    <2>5. CASE WorkerFail
        BY <2>5 DEF WorkerFail
    <2>6. CASE WorkerWon
        BY <2>6 DEF WorkerWon
    <2>7. CASE WorkerProgram
        BY <2>7 DEF WorkerProgram
    <2>8. CASE WorkerProbe
        BY <2>8 DEF WorkerProbe
    <2>9. CASE WorkerReport
        BY <2>9 DEF WorkerReport
    <2> QED
        BY <1>5, <2>1, <2>2, <2>3, <2>4, <2>5, <2>6, <2>7, <2>8, <2>9 DEF WorkerStep
<1>6. CASE HwDataTx
    BY <1>6 DEF HwDataTx, WorkerVars
<1>7. CASE CfgAddKey
    BY <1>7 DEF CfgAddKey, WorkerVars
<1>8. CASE Unplug
    BY <1>8 DEF Unplug
<1>9. CASE UnplugStep
    BY <1>9 DEF UnplugStep, UnplugStop, UnplugCancel, Unregister
<1>10. CASE UNCHANGED vars
    BY <1>10 DEF vars
<1> QED
    BY <1>1, <1>2, <1>3, <1>4, <1>5, <1>6, <1>7, <1>8, <1>9, <1>10 DEF Next

\* However .connect, .disconnect, the removal and the poll work interleave, an attempt
\* that connect_pending announces has its connect_work queued or still deciding.
THEOREM PollerStaysArmed == Spec => []PollerArmed
<1>1. Init => PollerInv
    BY DEF Init, PollerInv, PollerArmed
<1>2. PollerInv => PollerArmed
    BY DEF PollerInv
<1> QED
    BY <1>1, <1>2, PollerStep, PTL DEF Spec

-----------------------------------------------------------------------------
(* The chip's key.                                                         *)

\* The TK in memory is none of an earlier .connect, and one is there when the SME is up.
TkOfThisConnect ==
    /\ old \subseteq spent
    /\ tk \in (spent \ old) \cup {NoKey}
    /\ upFlag \/ phase = "connected" => tk # NoKey

\* The poll is queued or running only while cfg80211 waits for this attempt, and not
\* before .connect has scheduled it or after .disconnect has cancelled it.
PollOfThisConnect ==
    /\ queued \/ wpc # "idle" => link = "connecting"
    /\ wpc # "idle" => ~queued
    /\ cpc \in {"init", "start", "arm", "schedule"} => link = "connecting" /\ wpc = "idle"
    /\ cpc \in {"forget", "tell"} => wpc = "idle" /\ ~queued
    /\ cpc = "arm" => polls = 0
    /\ (pending /\ wpc # "lost") \/ wpc = "poll" => polls <= MaxPolls
    /\ polls <= MaxPolls + 1

\* hw_key_installed is clear until this attempt has programmed its key, so that the key
\* is there when the attempt is reported.
HwKeyOfThisConnect ==
    /\ link = "idle" \/ cpc = "tell" => ~hwKey
    /\ link = "connecting" /\ wpc \notin {"probe", "report"} => ~hwKey
    /\ wpc \in {"won", "program"} => tk # NoKey
    /\ wpc \in {"probe", "report"} \/ link = "connected" => chipTk \notin old

\* The chip's key comes from the SME: of an earlier attempt until this one programs it.
ChipKeyKnown ==
    /\ chipTk \in spent \cup {NoKey}
    /\ link = "connecting" /\ cpc # "init" /\ wpc \notin {"probe", "report"}
        => chipTk \in old \cup {NoKey} /\ \A p \in sent : p[1] \in old \cup {NoKey}

\* No packet number above the chip's own has been used under its key.
ChipPnAhead ==
    /\ \A p \in sent : p[1] \in spent \cup {NoKey}
    /\ \A p \in sent : p[1] = chipTk /\ chipTk # NoKey => p[2] <= chipPn

Unraced == PollOfThisConnect /\ ChipKeyKnown /\ ChipPnAhead

ChipInd ==
    /\ TkOfThisConnect
    /\ ~raced /\ ~added => Unraced
    /\ ~raced /\ ~added /\ ~rejoined => HwKeyOfThisConnect

\* With the poll of each attempt its own, connect_polls keeps to its limit.
PollInd == TypeOK /\ (~raced => PollOfThisConnect)

\* Every step keeps the poll of an attempt its own.
LEMMA PollStep == PollInd /\ [Next]_vars => (~raced => PollOfThisConnect)'
<1> SUFFICES ASSUME PollInd, [Next]_vars PROVE (~raced => PollOfThisConnect)'
    OBVIOUS
<1> USE ConnectConstants DEF PollInd, TypeOK, PollOfThisConnect, smeVars, chipVars
<1>1. CASE SmeRx
    BY <1>1 DEF SmeRx, Sme!Connects, Sme!Torn, Sme!Fails
<1>2. CASE CfgConnect
    BY <1>2 DEF CfgConnect
<1>3. CASE CfgDisconnect
    BY <1>3 DEF CfgDisconnect
<1>4. CASE OpStep
    <2>1. CASE CfgConnectInit
        BY <2>1 DEF CfgConnectInit, Sme!Wipe
    <2>2. CASE CfgConnectStart
        BY <2>2 DEF CfgConnectStart, Sme!Restart
    <2>3. CASE CfgConnectEnd("arm")
        BY <2>3 DEF CfgConnectEnd, CfgConnectArm
    <2>4. CASE CfgConnectEnd("schedule")
        BY <2>4 DEF CfgConnectEnd, CfgConnectArm
    <2>5. CASE CfgDisconnectCancel
        BY <2>5 DEF CfgDisconnectCancel
    <2>6. CASE CfgDisconnectForget
        BY <2>6 DEF CfgDisconnectForget
    <2>7. CASE CfgDisconnectTell
        BY <2>7 DEF CfgDisconnectTell
    <2> QED
        BY <1>4, <2>1, <2>2, <2>3, <2>4, <2>5, <2>6, <2>7 DEF OpStep
<1>5. CASE WorkerStep
    <2> USE DEF WorkerVars
    <2>1. CASE WorkerStart
        BY <2>1 DEF WorkerStart
    <2>2. CASE WorkerCheck
        BY <2>2 DEF WorkerCheck
    <2>3. CASE WorkerPoll
        BY <2>3 DEF WorkerPoll, Rearm, OutOfPolls
    <2>4. CASE WorkerLost
        BY <2>4 DEF WorkerLost
    <2>5. CASE WorkerFail
        BY <2>5 DEF WorkerFail
    <2>6. CASE WorkerWon
        BY <2>6 DEF WorkerWon
    <2>7. CASE WorkerProgram
        BY <2>7 DEF WorkerProgram, InstallHwKeys
    <2>8. CASE WorkerProbe
        BY <2>8 DEF WorkerProbe, ChipTx
    <2>9. CASE WorkerReport
        BY <2>9 DEF WorkerReport
    <2> QED
        BY <1>5, <2>1, <2>2, <2>3, <2>4, <2>5, <2>6, <2>7, <2>8, <2>9 DEF WorkerStep
<1>6. CASE HwDataTx
    BY <1>6 DEF HwDataTx, WorkerVars, ChipTx
<1>7. CASE CfgAddKey
    BY <1>7 DEF CfgAddKey, WorkerVars, InstallHwKeys
<1>8. CASE Unplug
    BY <1>8 DEF Unplug
<1>9. CASE UnplugStep
    BY <1>9 DEF UnplugStep, UnplugStop, UnplugCancel, Unregister
<1>10. CASE UNCHANGED vars
    BY <1>10 DEF vars
<1> QED
    BY <1>1, <1>2, <1>3, <1>4, <1>5, <1>6, <1>7, <1>8, <1>9, <1>10 DEF Next

\* The flags among the variables.
Flags ==
    /\ upFlag \in BOOLEAN
    /\ armed \in BOOLEAN
    /\ pending \in BOOLEAN
    /\ queued \in BOOLEAN
    /\ hwKey \in BOOLEAN
    /\ probed \in BOOLEAN
    /\ raced \in BOOLEAN
    /\ rejoined \in BOOLEAN
    /\ added \in BOOLEAN

\* Every step keeps the flags Booleans.
LEMMA FlagStep == Flags /\ [Next]_vars => Flags'
<1> SUFFICES ASSUME Flags, [Next]_vars PROVE Flags'
    OBVIOUS
<1> USE DEF Flags, smeVars, chipVars
<1>1. CASE SmeRx
    BY <1>1 DEF SmeRx, Sme!Connects, Sme!Torn, Sme!Fails
<1>2. CASE CfgConnect
    BY <1>2 DEF CfgConnect
<1>3. CASE CfgDisconnect
    BY <1>3 DEF CfgDisconnect
<1>4. CASE OpStep
    <2>1. CASE CfgConnectInit
        BY <2>1 DEF CfgConnectInit, Sme!Wipe
    <2>2. CASE CfgConnectStart
        BY <2>2 DEF CfgConnectStart, Sme!Restart
    <2>3. CASE CfgConnectEnd("arm")
        BY <2>3 DEF CfgConnectEnd, CfgConnectArm
    <2>4. CASE CfgConnectEnd("schedule")
        BY <2>4 DEF CfgConnectEnd, CfgConnectArm
    <2>5. CASE CfgDisconnectCancel
        BY <2>5 DEF CfgDisconnectCancel
    <2>6. CASE CfgDisconnectForget
        BY <2>6 DEF CfgDisconnectForget
    <2>7. CASE CfgDisconnectTell
        BY <2>7 DEF CfgDisconnectTell
    <2> QED
        BY <1>4, <2>1, <2>2, <2>3, <2>4, <2>5, <2>6, <2>7 DEF OpStep
<1>5. CASE WorkerStep
    <2> USE DEF WorkerVars
    <2>1. CASE WorkerStart
        BY <2>1 DEF WorkerStart
    <2>2. CASE WorkerCheck
        BY <2>2 DEF WorkerCheck
    <2>3. CASE WorkerPoll
        BY <2>3 DEF WorkerPoll, Rearm, OutOfPolls
    <2>4. CASE WorkerLost
        BY <2>4 DEF WorkerLost
    <2>5. CASE WorkerFail
        BY <2>5 DEF WorkerFail
    <2>6. CASE WorkerWon
        BY <2>6 DEF WorkerWon
    <2>7. CASE WorkerProgram
        BY <2>7 DEF WorkerProgram, InstallHwKeys
    <2>8. CASE WorkerProbe
        BY <2>8 DEF WorkerProbe, ChipTx
    <2>9. CASE WorkerReport
        BY <2>9 DEF WorkerReport
    <2> QED
        BY <1>5, <2>1, <2>2, <2>3, <2>4, <2>5, <2>6, <2>7, <2>8, <2>9 DEF WorkerStep
<1>6. CASE HwDataTx
    BY <1>6 DEF HwDataTx, WorkerVars, ChipTx
<1>7. CASE CfgAddKey
    BY <1>7 DEF CfgAddKey, WorkerVars, InstallHwKeys
<1>8. CASE Unplug
    BY <1>8 DEF Unplug
<1>9. CASE UnplugStep
    BY <1>9 DEF UnplugStep, UnplugStop, UnplugCancel, Unregister
<1>10. CASE UNCHANGED vars
    BY <1>10 DEF vars
<1> QED
    BY <1>1, <1>2, <1>3, <1>4, <1>5, <1>6, <1>7, <1>8, <1>9, <1>10 DEF Next

\* Every step keeps the variables in the range of their C fields.
LEMMA TypeStep == PollInd /\ [Next]_vars => TypeOK'
<1> SUFFICES ASSUME PollInd, [Next]_vars PROVE TypeOK'
    OBVIOUS
<1>a. ~raced' => polls' <= MaxPolls + 1
    BY PollStep DEF PollInd, PollOfThisConnect
<1>b. Flags'
    BY FlagStep DEF PollInd, TypeOK, Flags
<1> USE ConnectConstants DEF PollInd, TypeOK, Flags, smeVars, chipVars
<1>1. CASE SmeRx
    BY <1>a, <1>b, <1>1 DEF SmeRx, Sme!Connects, Sme!Torn, Sme!Fails
<1>2. CASE CfgConnect
    BY <1>a, <1>b, <1>2 DEF CfgConnect
<1>3. CASE CfgDisconnect
    BY <1>a, <1>b, <1>3 DEF CfgDisconnect
<1>4. CASE OpStep
    <2>1. CASE CfgConnectInit
        BY <1>a, <1>b, <2>1 DEF CfgConnectInit, Sme!Wipe
    <2>2. CASE CfgConnectStart
        BY <1>a, <1>b, <2>2 DEF CfgConnectStart, Sme!Restart
    <2>3. CASE CfgConnectEnd("arm")
        BY <1>a, <1>b, <2>3 DEF CfgConnectEnd, CfgConnectArm
    <2>4. CASE CfgConnectEnd("schedule")
        BY <1>a, <1>b, <2>4 DEF CfgConnectEnd, CfgConnectArm
    <2>5. CASE CfgDisconnectCancel
        BY <1>a, <1>b, <2>5 DEF CfgDisconnectCancel
    <2>6. CASE CfgDisconnectForget
        BY <1>a, <1>b, <2>6 DEF CfgDisconnectForget
    <2>7. CASE CfgDisconnectTell
        BY <1>a, <1>b, <2>7 DEF CfgDisconnectTell
    <2> QED
        BY <1>4, <2>1, <2>2, <2>3, <2>4, <2>5, <2>6, <2>7 DEF OpStep
<1>5. CASE WorkerStep
    <2> USE DEF WorkerVars
    <2>1. CASE WorkerStart
        BY <1>a, <1>b, <2>1 DEF WorkerStart
    <2>2. CASE WorkerCheck
        BY <1>a, <1>b, <2>2 DEF WorkerCheck
    <2>3. CASE WorkerPoll
        BY <1>a, <1>b, <2>3 DEF WorkerPoll, Rearm, OutOfPolls
    <2>4. CASE WorkerLost
        BY <1>a, <1>b, <2>4 DEF WorkerLost
    <2>5. CASE WorkerFail
        BY <1>a, <1>b, <2>5 DEF WorkerFail
    <2>6. CASE WorkerWon
        BY <1>a, <1>b, <2>6 DEF WorkerWon
    <2>7. CASE WorkerProgram
        BY <1>a, <1>b, <2>7 DEF WorkerProgram, InstallHwKeys
    <2>8. CASE WorkerProbe
        BY <1>a, <1>b, <2>8 DEF WorkerProbe, ChipTx
    <2>9. CASE WorkerReport
        BY <1>a, <1>b, <2>9 DEF WorkerReport
    <2> QED
        BY <1>5, <2>1, <2>2, <2>3, <2>4, <2>5, <2>6, <2>7, <2>8, <2>9 DEF WorkerStep
<1>6. CASE HwDataTx
    BY <1>a, <1>b, <1>6 DEF HwDataTx, WorkerVars, ChipTx
<1>7. CASE CfgAddKey
    BY <1>a, <1>b, <1>7 DEF CfgAddKey, WorkerVars, InstallHwKeys
<1>8. CASE Unplug
    BY <1>a, <1>b, <1>8 DEF Unplug
<1>9. CASE UnplugStep
    BY <1>a, <1>b, <1>9 DEF UnplugStep, UnplugStop, UnplugCancel, Unregister
<1>10. CASE UNCHANGED vars
    BY <1>a, <1>b, <1>10 DEF vars
<1> QED
    BY <1>1, <1>2, <1>3, <1>4, <1>5, <1>6, <1>7, <1>8, <1>9, <1>10 DEF Next

\* No poll is under way and the chip holds no key at first.
LEMMA ChipInitial == Init => PollInd /\ ChipInd
<1> SUFFICES ASSUME Init PROVE PollInd /\ ChipInd
    OBVIOUS
<1>1. Flags
    BY DEF Init, Sme!Init, Flags
<1>2. PollInd
    BY <1>1, ConnectConstants DEF Init, Sme!Init, Flags, PollInd, TypeOK, PollOfThisConnect
<1>3. ChipInd
    BY ConnectConstants DEF Init, Sme!Init, ChipInd, TkOfThisConnect, Unraced, PollOfThisConnect,
                            HwKeyOfThisConnect, ChipKeyKnown, ChipPnAhead
<1> QED
    BY <1>2, <1>3

\* In every state of the connect path each variable is in the range of its C field, and
\* connect_polls passes its limit only after a connect_work ran beside a .connect or past
\* a .disconnect.
THEOREM ConnectTyped == Spec => []TypeOK
<1>1. Init => PollInd
    BY ChipInitial
<1>2. PollInd => TypeOK
    BY DEF PollInd
<1>3. PollInd /\ [Next]_vars => PollInd'
    BY PollStep, TypeStep DEF PollInd
<1> QED
    BY <1>1, <1>2, <1>3, PTL DEF Spec

\* Every step keeps the TK in memory one of this .connect.
LEMMA TkStep == TypeOK /\ TkOfThisConnect /\ [Next]_vars => TkOfThisConnect'
<1> SUFFICES ASSUME TypeOK, TkOfThisConnect, [Next]_vars PROVE TkOfThisConnect'
    OBVIOUS
<1> USE ConnectConstants DEF TypeOK, TkOfThisConnect, smeVars, chipVars
<1>1. CASE SmeRx
    BY <1>1 DEF SmeRx, Sme!Connects, Sme!Torn, Sme!Fails
<1>2. CASE CfgConnect
    BY <1>2 DEF CfgConnect
<1>3. CASE CfgDisconnect
    BY <1>3 DEF CfgDisconnect
<1>4. CASE OpStep
    <2>1. CASE CfgConnectInit
        BY <2>1 DEF CfgConnectInit, Sme!Wipe
    <2>2. CASE CfgConnectStart
        BY <2>2 DEF CfgConnectStart, Sme!Restart
    <2>3. CASE CfgConnectEnd("arm")
        BY <2>3 DEF CfgConnectEnd, CfgConnectArm
    <2>4. CASE CfgConnectEnd("schedule")
        BY <2>4 DEF CfgConnectEnd, CfgConnectArm
    <2>5. CASE CfgDisconnectCancel
        BY <2>5 DEF CfgDisconnectCancel
    <2>6. CASE CfgDisconnectForget
        BY <2>6 DEF CfgDisconnectForget
    <2>7. CASE CfgDisconnectTell
        BY <2>7 DEF CfgDisconnectTell
    <2> QED
        BY <1>4, <2>1, <2>2, <2>3, <2>4, <2>5, <2>6, <2>7 DEF OpStep
<1>5. CASE WorkerStep
    <2> USE DEF WorkerVars
    <2>1. CASE WorkerStart
        BY <2>1 DEF WorkerStart
    <2>2. CASE WorkerCheck
        BY <2>2 DEF WorkerCheck
    <2>3. CASE WorkerPoll
        BY <2>3 DEF WorkerPoll, Rearm, OutOfPolls
    <2>4. CASE WorkerLost
        BY <2>4 DEF WorkerLost
    <2>5. CASE WorkerFail
        BY <2>5 DEF WorkerFail
    <2>6. CASE WorkerWon
        BY <2>6 DEF WorkerWon
    <2>7. CASE WorkerProgram
        BY <2>7 DEF WorkerProgram, InstallHwKeys
    <2>8. CASE WorkerProbe
        BY <2>8 DEF WorkerProbe, ChipTx
    <2>9. CASE WorkerReport
        BY <2>9 DEF WorkerReport
    <2> QED
        BY <1>5, <2>1, <2>2, <2>3, <2>4, <2>5, <2>6, <2>7, <2>8, <2>9 DEF WorkerStep
<1>6. CASE HwDataTx
    BY <1>6 DEF HwDataTx, WorkerVars, ChipTx
<1>7. CASE CfgAddKey
    BY <1>7 DEF CfgAddKey, WorkerVars, InstallHwKeys
<1>8. CASE Unplug
    BY <1>8 DEF Unplug
<1>9. CASE UnplugStep
    BY <1>9 DEF UnplugStep, UnplugStop, UnplugCancel, Unregister
<1>10. CASE UNCHANGED vars
    BY <1>10 DEF vars
<1> QED
    BY <1>1, <1>2, <1>3, <1>4, <1>5, <1>6, <1>7, <1>8, <1>9, <1>10 DEF Next

\* Unless user space called .add_key or re-associated a link in use, hw_key_installed stands
\* for a key of this attempt.
LEMMA HwKeyStep ==
    TypeOK /\ ChipInd /\ [Next]_vars => (~raced /\ ~added /\ ~rejoined => HwKeyOfThisConnect)'
<1> SUFFICES ASSUME TypeOK, ChipInd, [Next]_vars 
             PROVE  (~raced /\ ~added /\ ~rejoined => HwKeyOfThisConnect)'
    OBVIOUS
<1> USE ConnectConstants DEF TypeOK, ChipInd, Unraced, TkOfThisConnect, PollOfThisConnect, HwKeyOfThisConnect, ChipKeyKnown, smeVars, chipVars
<1>1. CASE SmeRx
    BY <1>1 DEF SmeRx, Sme!Connects, Sme!Torn, Sme!Fails
<1>2. CASE CfgConnect
    BY <1>2 DEF CfgConnect
<1>3. CASE CfgDisconnect
    BY <1>3 DEF CfgDisconnect
<1>4. CASE OpStep
    <2>1. CASE CfgConnectInit
        BY <2>1 DEF CfgConnectInit, Sme!Wipe
    <2>2. CASE CfgConnectStart
        BY <2>2 DEF CfgConnectStart, Sme!Restart
    <2>3. CASE CfgConnectEnd("arm")
        BY <2>3 DEF CfgConnectEnd, CfgConnectArm
    <2>4. CASE CfgConnectEnd("schedule")
        BY <2>4 DEF CfgConnectEnd, CfgConnectArm
    <2>5. CASE CfgDisconnectCancel
        BY <2>5 DEF CfgDisconnectCancel
    <2>6. CASE CfgDisconnectForget
        BY <2>6 DEF CfgDisconnectForget
    <2>7. CASE CfgDisconnectTell
        BY <2>7 DEF CfgDisconnectTell
    <2> QED
        BY <1>4, <2>1, <2>2, <2>3, <2>4, <2>5, <2>6, <2>7 DEF OpStep
<1>5. CASE WorkerStep
    <2> USE DEF WorkerVars
    <2>1. CASE WorkerStart
        BY <2>1 DEF WorkerStart
    <2>2. CASE WorkerCheck
        BY <2>2 DEF WorkerCheck
    <2>3. CASE WorkerPoll
        BY <2>3 DEF WorkerPoll, Rearm, OutOfPolls
    <2>4. CASE WorkerLost
        BY <2>4 DEF WorkerLost
    <2>5. CASE WorkerFail
        BY <2>5 DEF WorkerFail
    <2>6. CASE WorkerWon
        BY <2>6 DEF WorkerWon
    <2>7. CASE WorkerProgram
        BY <2>7 DEF WorkerProgram, InstallHwKeys
    <2>8. CASE WorkerProbe
        BY <2>8 DEF WorkerProbe, ChipTx
    <2>9. CASE WorkerReport
        BY <2>9 DEF WorkerReport
    <2> QED
        BY <1>5, <2>1, <2>2, <2>3, <2>4, <2>5, <2>6, <2>7, <2>8, <2>9 DEF WorkerStep
<1>6. CASE HwDataTx
    BY <1>6 DEF HwDataTx, WorkerVars, ChipTx
<1>7. CASE CfgAddKey
    BY <1>7 DEF CfgAddKey, WorkerVars, InstallHwKeys
<1>8. CASE Unplug
    BY <1>8 DEF Unplug
<1>9. CASE UnplugStep
    BY <1>9 DEF UnplugStep, UnplugStop, UnplugCancel, Unregister
<1>10. CASE UNCHANGED vars
    BY <1>10 DEF vars
<1> QED
    BY <1>1, <1>2, <1>3, <1>4, <1>5, <1>6, <1>7, <1>8, <1>9, <1>10 DEF Next

\* The chip keeps the key of an earlier attempt until this one programs its own.
LEMMA ChipKeyStep == TypeOK /\ ChipInd /\ [Next]_vars => (~raced /\ ~added => ChipKeyKnown)'
<1> SUFFICES ASSUME TypeOK, ChipInd, [Next]_vars PROVE (~raced /\ ~added => ChipKeyKnown)'
    OBVIOUS
<1> USE ConnectConstants DEF TypeOK, ChipInd, Unraced, TkOfThisConnect, PollOfThisConnect, ChipKeyKnown, ChipPnAhead, smeVars, chipVars
<1>1. CASE SmeRx
    BY <1>1 DEF SmeRx, Sme!Connects, Sme!Torn, Sme!Fails
<1>2. CASE CfgConnect
    BY <1>2 DEF CfgConnect
<1>3. CASE CfgDisconnect
    BY <1>3 DEF CfgDisconnect
<1>4. CASE OpStep
    <2>1. CASE CfgConnectInit
        BY <2>1 DEF CfgConnectInit, Sme!Wipe
    <2>2. CASE CfgConnectStart
        BY <2>2 DEF CfgConnectStart, Sme!Restart
    <2>3. CASE CfgConnectEnd("arm")
        BY <2>3 DEF CfgConnectEnd, CfgConnectArm
    <2>4. CASE CfgConnectEnd("schedule")
        BY <2>4 DEF CfgConnectEnd, CfgConnectArm
    <2>5. CASE CfgDisconnectCancel
        BY <2>5 DEF CfgDisconnectCancel
    <2>6. CASE CfgDisconnectForget
        BY <2>6 DEF CfgDisconnectForget
    <2>7. CASE CfgDisconnectTell
        BY <2>7 DEF CfgDisconnectTell
    <2> QED
        BY <1>4, <2>1, <2>2, <2>3, <2>4, <2>5, <2>6, <2>7 DEF OpStep
<1>5. CASE WorkerStep
    <2> USE DEF WorkerVars
    <2>1. CASE WorkerStart
        BY <2>1 DEF WorkerStart
    <2>2. CASE WorkerCheck
        BY <2>2 DEF WorkerCheck
    <2>3. CASE WorkerPoll
        BY <2>3 DEF WorkerPoll, Rearm, OutOfPolls
    <2>4. CASE WorkerLost
        BY <2>4 DEF WorkerLost
    <2>5. CASE WorkerFail
        BY <2>5 DEF WorkerFail
    <2>6. CASE WorkerWon
        BY <2>6 DEF WorkerWon
    <2>7. CASE WorkerProgram
        BY <2>7 DEF WorkerProgram, InstallHwKeys
    <2>8. CASE WorkerProbe
        BY <2>8 DEF WorkerProbe, ChipTx
    <2>9. CASE WorkerReport
        BY <2>9 DEF WorkerReport
    <2> QED
        BY <1>5, <2>1, <2>2, <2>3, <2>4, <2>5, <2>6, <2>7, <2>8, <2>9 DEF WorkerStep
<1>6. CASE HwDataTx
    BY <1>6 DEF HwDataTx, WorkerVars, ChipTx
<1>7. CASE CfgAddKey
    BY <1>7 DEF CfgAddKey, WorkerVars, InstallHwKeys
<1>8. CASE Unplug
    BY <1>8 DEF Unplug
<1>9. CASE UnplugStep
    BY <1>9 DEF UnplugStep, UnplugStop, UnplugCancel, Unregister
<1>10. CASE UNCHANGED vars
    BY <1>10 DEF vars
<1> QED
    BY <1>1, <1>2, <1>3, <1>4, <1>5, <1>6, <1>7, <1>8, <1>9, <1>10 DEF Next

\* The packet number restarts only under a key that no frame was sent under.
LEMMA ChipPnStep == TypeOK /\ ChipInd /\ [Next]_vars => (~raced /\ ~added => ChipPnAhead)'
<1> SUFFICES ASSUME TypeOK, ChipInd, [Next]_vars PROVE (~raced /\ ~added => ChipPnAhead)'
    OBVIOUS
<1> USE ConnectConstants DEF TypeOK, ChipInd, Unraced, TkOfThisConnect, PollOfThisConnect, ChipKeyKnown, ChipPnAhead, smeVars, chipVars
<1>1. CASE SmeRx
    BY <1>1 DEF SmeRx, Sme!Connects, Sme!Torn, Sme!Fails
<1>2. CASE CfgConnect
    BY <1>2 DEF CfgConnect
<1>3. CASE CfgDisconnect
    BY <1>3 DEF CfgDisconnect
<1>4. CASE OpStep
    <2>1. CASE CfgConnectInit
        BY <2>1 DEF CfgConnectInit, Sme!Wipe
    <2>2. CASE CfgConnectStart
        BY <2>2 DEF CfgConnectStart, Sme!Restart
    <2>3. CASE CfgConnectEnd("arm")
        BY <2>3 DEF CfgConnectEnd, CfgConnectArm
    <2>4. CASE CfgConnectEnd("schedule")
        BY <2>4 DEF CfgConnectEnd, CfgConnectArm
    <2>5. CASE CfgDisconnectCancel
        BY <2>5 DEF CfgDisconnectCancel
    <2>6. CASE CfgDisconnectForget
        BY <2>6 DEF CfgDisconnectForget
    <2>7. CASE CfgDisconnectTell
        BY <2>7 DEF CfgDisconnectTell
    <2> QED
        BY <1>4, <2>1, <2>2, <2>3, <2>4, <2>5, <2>6, <2>7 DEF OpStep
<1>5. CASE WorkerStep
    <2> USE DEF WorkerVars
    <2>1. CASE WorkerStart
        BY <2>1 DEF WorkerStart
    <2>2. CASE WorkerCheck
        BY <2>2 DEF WorkerCheck
    <2>3. CASE WorkerPoll
        BY <2>3 DEF WorkerPoll, Rearm, OutOfPolls
    <2>4. CASE WorkerLost
        BY <2>4 DEF WorkerLost
    <2>5. CASE WorkerFail
        BY <2>5 DEF WorkerFail
    <2>6. CASE WorkerWon
        BY <2>6 DEF WorkerWon
    <2>7. CASE WorkerProgram
        BY <2>7 DEF WorkerProgram, InstallHwKeys
    <2>8. CASE WorkerProbe
        BY <2>8 DEF WorkerProbe, ChipTx
    <2>9. CASE WorkerReport
        BY <2>9 DEF WorkerReport
    <2> QED
        BY <1>5, <2>1, <2>2, <2>3, <2>4, <2>5, <2>6, <2>7, <2>8, <2>9 DEF WorkerStep
<1>6. CASE HwDataTx
    BY <1>6 DEF HwDataTx, WorkerVars, ChipTx
<1>7. CASE CfgAddKey
    BY <1>7 DEF CfgAddKey, WorkerVars, InstallHwKeys
<1>8. CASE Unplug
    BY <1>8 DEF Unplug
<1>9. CASE UnplugStep
    BY <1>9 DEF UnplugStep, UnplugStop, UnplugCancel, Unregister
<1>10. CASE UNCHANGED vars
    BY <1>10 DEF vars
<1> QED
    BY <1>1, <1>2, <1>3, <1>4, <1>5, <1>6, <1>7, <1>8, <1>9, <1>10 DEF Next

\* Every step keeps what the next theorems rest on.
LEMMA ChipStep == PollInd /\ ChipInd /\ [Next]_vars => PollInd' /\ ChipInd'
<1> SUFFICES ASSUME PollInd, ChipInd, [Next]_vars PROVE PollInd' /\ ChipInd'
    OBVIOUS
<1>1. PollInd' /\ TypeOK
    BY PollStep, TypeStep DEF PollInd
<1>2. TkOfThisConnect'
    BY <1>1, TkStep DEF ChipInd
<1>3. /\ (~raced /\ ~added /\ ~rejoined => HwKeyOfThisConnect)'
      /\ (~raced /\ ~added => ChipKeyKnown)'
      /\ (~raced /\ ~added => ChipPnAhead)'
    BY <1>1, HwKeyStep, ChipKeyStep, ChipPnStep
<1> QED
    BY <1>1, <1>2, <1>3 DEF PollInd, ChipInd, Unraced

\* Only the data path and the probe raise the chip's packet number, and both send under
\* the key the chip has, which no frame above that number has used.
LEMMA FreshPn ==
    ASSUME TypeOK, ChipInd, ~raced, ~added, chipPn' = chipPn + 1, chipTk # NoKey
    PROVE  <<chipTk, chipPn'>> \notin sent
BY DEF TypeOK, ChipInd, Unraced, ChipPnAhead

\* For every number of .connect calls and keys: unless user space called .add_key, a
\* connect_work ran beside a .connect or past a .disconnect, or a link in use was
\* re-associated (the link then keeps the earlier TK), a link that cfg80211
\* takes for connected has no TK of an earlier .connect in the chip, because
\* install_hw_keys programs the TK of this attempt before connect_work reports it.
THEOREM ChipKeyCurrent == Spec => []ChipKeyUnraced
<1>1. PollInd /\ ChipInd /\ [Next]_vars => (PollInd /\ ChipInd)'
    BY ChipStep
<1>2. PollInd /\ ChipInd => ChipKeyUnraced
    BY DEF ChipInd, HwKeyOfThisConnect, ChipKeyUnraced, ChipKeyOfThisConnect
<1> QED
    BY <1>1, <1>2, ChipInitial, PTL DEF Spec

\* The chip never numbers two frames alike under one TK while no connect_work runs beside
\* a .connect or past a .disconnect and .add_key is not called, re-associations of a link
\* in use included: the write of WCID_IV that restarts the packet number comes with a TK
\* no frame was sent under.
THEOREM ChipNonceFresh == Spec => NoChipNonceReuse
<1>1. PollInd /\ ChipInd /\ [Next]_vars => (PollInd /\ ChipInd)'
    BY ChipStep
<1>2. PollInd /\ ChipInd /\ [Next]_vars =>
        [~raced /\ ~added /\ chipPn' = chipPn + 1 /\ chipTk # NoKey
            => <<chipTk, chipPn'>> \notin sent]_vars
    BY FreshPn DEF PollInd
<1> QED
    BY <1>1, <1>2, ChipInitial, PTL DEF Spec, NoChipNonceReuse

=============================================================================
