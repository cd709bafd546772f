-------------------------------- MODULE Mcu --------------------------------
(***************************************************************************)
(* The MCU inband command path of usb.c (rf_2a4m1_mcu_cmd) under its run-  *)
(* time user, the channel program (do_set_channel): the RF registers, then *)
(* two answered MCU commands (the TX and the RX half of the BW filter      *)
(* calibration), then cur_channel.  Each command is issued up to Attempts  *)
(* times; an attempt drains the response endpoint, takes the next sequence *)
(* number, sends, and polls Tries times for that number with CMD_DONE.     *)
(*                                                                         *)
(* The callers are the scan worker and .connect, which share no lock.  The *)
(* firmware is external: it runs commands in the order they arrive, as     *)
(* late as it likes, and answers each one with its number.                 *)
(***************************************************************************)
EXTENDS Naturals, Sequences, SequencesExt

CONSTANTS
    Callers,   \* the threads that tune the radio
    Channels,
    SeqMax,    \* numbers run 1..SeqMax; 15 in the code
    Attempts,  \* RF_2A4M1_MCU_CMD_ATTEMPTS
    Tries,     \* RF_2A4M1_MCU_RESP_TRIES
    DrainMax,  \* RF_2A4M1_MCU_DRAIN_MAX
    MaxLag     \* bound: commands the chip holds before its endpoint stalls

McuConstants ==
    {SeqMax, Attempts, Tries, DrainMax, MaxLag} \subseteq Nat \ {0}

VARIABLES
    mcuSeq,   \* dev->mcu_seq
    queue,    \* commands sent and not yet run by the firmware
    fifo,     \* the response endpoint
    job,      \* each caller's do_set_channel
    rf,       \* the channel the RF registers are programmed for
    curChannel,
    share,    \* history: "alone" while no other tune was under way or began since a caller's
              \* last one did, "recycled" if the chip held a number that this one took, or "shared"
    ran       \* history: the halves the firmware ran since a tune last began

vars == <<mcuSeq, queue, fifo, job, rf, curChannel, share, ran>>

Halves == {"tx", "rx"}

\* What mcu_cmd keeps on its stack, and how the last do_set_channel ended.
IdleJob(outcome, chan) ==
    [pc |-> "idle", half |-> "tx", attempt |-> 1, tries |-> 0, seq |-> 0,
     chan |-> chan, outcome |-> outcome]

Init ==
    /\ mcuSeq = 0 /\ queue = <<>> /\ fifo = <<>>
    /\ job = [c \in Callers |-> IdleJob("none", 0)]
    /\ rf = 0 /\ curChannel = 0
    /\ ran = {}
    /\ share = [c \in Callers |-> "alone"]

\* do_set_channel up to set_bw_filter: synthesizer, power, gain and VCO.
SetChannel(c, ch) ==
    /\ job[c].pc = "idle"
    /\ rf' = ch
    /\ ran' = {}
    /\ share' = [d \in Callers |->
                   IF d = c /\ \A e \in Callers : job[e].pc = "idle" THEN "alone" ELSE "shared"]
    /\ job' = [job EXCEPT ![c] = [IdleJob("none", ch) EXCEPT !.pc = "drain"]]
    /\ UNCHANGED <<mcuSeq, queue, fifo, curChannel>>

\* An RF register write fails: do_set_channel returns before any command,
\* with the synthesizer untouched or half programmed (0).
SetChannelFails(c, ch) ==
    /\ job[c].pc = "idle"
    /\ rf' \in {rf, 0}
    /\ ran' = {}
    /\ share' = [d \in Callers |-> "shared"]
    /\ job' = [job EXCEPT ![c] = IdleJob("error", 0)]
    /\ UNCHANGED <<mcuSeq, queue, fifo, curChannel>>

\* rf_2a4m1_mcu_drain on the response endpoint.
Drained(f) == SubSeq(f, DrainMax + 1, Len(f))

\* seq = (dev->mcu_seq = (dev->mcu_seq % 15) + 1): read here, stored by Send.
NextSeq(c, last) == (last % SeqMax) + 1

\* The chip holds a command or, past the drain, a response with this number.
Held(seq) == \E m \in ToSet(queue) \cup ToSet(Drained(fifo)) : m.seq = seq

Drain(c) ==
    /\ job[c].pc = "drain"
    /\ fifo' = Drained(fifo)
    /\ job' = [job EXCEPT ![c].pc = "send", ![c].seq = NextSeq(c, mcuSeq)]
    /\ share' = [share EXCEPT ![c] = IF @ = "alone" /\ Held(NextSeq(c, mcuSeq)) THEN "recycled" ELSE @]
    /\ UNCHANGED <<mcuSeq, queue, rf, curChannel, ran>>

Fail(c) == job' = [job EXCEPT ![c] = IdleJob("error", 0)]

\* Mutant: the re-issues are not bounded.
NextAttemptUnbounded(c) == job' = [job EXCEPT ![c].pc = "drain"]

\* The end of an attempt that was not answered: issue again, or give up.
NextAttempt(c) ==
    IF job[c].attempt = Attempts THEN Fail(c)
    ELSE job' = [job EXCEPT ![c].pc = "drain", ![c].attempt = @ + 1]

Command(c) == [half |-> job[c].half, seq |-> job[c].seq]

Send(c) ==
    /\ job[c].pc = "send"
    /\ Len(queue) < MaxLag
    /\ mcuSeq' = job[c].seq
    /\ queue' = Append(queue, Command(c))
    /\ job' = [job EXCEPT ![c].pc = "poll", ![c].tries = Tries]
    /\ UNCHANGED <<fifo, rf, curChannel, share, ran>>

\* bulk_out times out: re-issue.
SendTimeout(c) ==
    /\ job[c].pc = "send"
    /\ mcuSeq' = job[c].seq
    /\ NextAttempt(c)
    /\ UNCHANGED <<queue, fifo, rf, curChannel, share, ran>>

\* bulk_out or bulk_in fails for good: out.
UsbError(c) ==
    /\ job[c].pc \in {"send", "poll"}
    /\ mcuSeq' = IF job[c].pc = "send" THEN job[c].seq ELSE mcuSeq
    /\ Fail(c)
    /\ UNCHANGED <<queue, fifo, rf, curChannel, share, ran>>

\* Mutant: any CMD_DONE will do.
AnswersAny(c, r) == r.done

\* rseq == seq && evt == MT_EVT_CMD_DONE
Answers(c, r) == r.seq = job[c].seq /\ r.done

\* A poll that did not end the wait, by timeout or by a stale response.
PollMissed(c) ==
    IF job[c].tries = 1 THEN NextAttempt(c)
    ELSE job' = [job EXCEPT ![c].tries = @ - 1]

\* CMD_DONE: on to the other half, or the end of do_set_channel.
Answered(c) ==
    IF job[c].half = "tx"
    THEN /\ job' = [job EXCEPT ![c].half = "rx", ![c].attempt = 1, ![c].pc = "drain"]
         /\ UNCHANGED curChannel
    ELSE /\ job' = [job EXCEPT ![c] = IdleJob("ok", @.chan)]
         /\ curChannel' = job[c].chan

Poll(c) ==
    /\ job[c].pc = "poll"
    /\ fifo # <<>>
    /\ fifo' = Tail(fifo)
    /\ \/ Answers(c, Head(fifo)) /\ Answered(c)
       \/ ~Answers(c, Head(fifo)) /\ PollMissed(c) /\ UNCHANGED curChannel
    /\ UNCHANGED <<mcuSeq, queue, rf, share, ran>>

PollTimeout(c) ==
    /\ job[c].pc = "poll"
    /\ fifo = <<>>
    /\ PollMissed(c)
    /\ UNCHANGED <<mcuSeq, queue, fifo, rf, curChannel, share, ran>>

\* The firmware runs the oldest command, or rejects it, and answers it.
Execute(done) ==
    /\ queue # <<>>
    /\ LET cmd == Head(queue) IN
         /\ queue' = Tail(queue)
         /\ fifo' = Append(fifo, [seq |-> cmd.seq, done |-> done])
         /\ ran' = IF done THEN ran \cup {cmd.half} ELSE ran
    /\ UNCHANGED <<mcuSeq, job, rf, curChannel, share>>

Caller(c) ==
    \/ Drain(c) \/ Send(c) \/ SendTimeout(c) \/ UsbError(c)
    \/ Poll(c) \/ PollTimeout(c)

Next ==
    \/ \E c \in Callers, ch \in Channels : SetChannel(c, ch) \/ SetChannelFails(c, ch)
    \/ \E c \in Callers : Caller(c)
    \/ \E done \in BOOLEAN : Execute(done)

\* Every USB transfer of a caller ends, in its timeout at the latest.
Fairness == \A c \in Callers : WF_vars(Caller(c))

Spec == Init /\ [][Next]_vars /\ Fairness

Complete(c) ==
    /\ ran = Halves /\ queue = <<>>
    /\ rf = job[c].chan /\ curChannel = job[c].chan

\* A tune that returned 0 is complete: the firmware ran both halves since it
\* began, no re-issue is still on its way, and the registers and
\* cur_channel name its channel (mcu_cmd's "return ret", do_set_channel).
\* The callers share no lock, so this is said of a tune that no other one
\* touched, and whose numbers the chip had forgotten when they came round;
\* the tunes before it may have been anything.
TunedMeansCalibrated ==
    \A c \in Callers : job[c].outcome = "ok" /\ share[c] = "alone" => Complete(c)

\* Timeouts, re-issues and a silent firmware: set_channel returns anyway, so
\* the sweep and .connect go on.
TuneReturns == \A c \in Callers : job[c].pc # "idle" ~> job[c].pc = "idle"
=============================================================================
