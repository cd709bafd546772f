------------------------------ MODULE BringUp ------------------------------
(***************************************************************************)
(* rf_2a4m1_probe: the firmware upload (usb_load_firmware), the chip init  *)
(* (chip_init), the cfg80211 registration with its unwinding, and          *)
(* rf_2a4m1_disconnect.  The chip is external and outlives the driver: an  *)
(* unbind leaves its MCU running and COM_REG0 set, an unplug clears both,  *)
(* so a probe may meet a chip that is cold, warm, or half loaded by a      *)
(* probe that failed.  A register read whose control transfer fails gives  *)
(* all ones and a write that fails is not noticed, where the code does not *)
(* look (IoErrors).                                                        *)
(***************************************************************************)
EXTENDS Naturals, Sequences, FiniteSetsExt

CONSTANTS
    IlmLens,   \* ILM lengths of the images, in units, the IVB excluded
    DlmLens,   \* DLM lengths
    Payload,   \* MCU_FW_URB_MAX_PAYLOAD
    Ivb,       \* MT_MCU_IVB_SIZE
    DlmOffset, \* MT_MCU_DLM_OFFSET
    IoErrors,  \* control transfers may fail where the result is not looked at
    MaxBinds   \* bound: probes

BringUpConstants ==
    /\ IlmLens \subseteq Nat \ {0} /\ DlmLens \subseteq Nat
    /\ \E most \in DlmLens : \A n \in DlmLens : n <= most
    /\ {Payload, Ivb} \subseteq Nat \ {0} /\ MaxBinds \in Nat
    /\ DlmOffset \in Nat /\ \A n \in IlmLens : Ivb + n <= DlmOffset
    /\ IoErrors \in BOOLEAN

VARIABLES
    pc,     \* where probe is; "unbound", "bound"
    bind,   \* how many times probe was called: names the image of this load
    img,    \* the image's lengths
    seg,    \* dma_fw: source, destination and length left
    dev,    \* struct rf_2a4m1_dev
    held,   \* what probe has acquired
    com0,   \* the chip: COM_REG0
    mcu,    \* the chip: the load whose image its MCU runs, 0 none
    started,\* the chip: the IVB was pushed and the MCU has not booted yet
    mem,    \* the chip: ILM and DLM, what each unit was written with
    missed  \* history: an access of the last register setup failed unnoticed

vars == <<pc, bind, img, seg, dev, held, com0, mcu, started, mem, missed>>
chip == <<com0, mcu, started, mem, missed>>

Phases == <<"ready", "qselect", "mac", "bbp", "wcid", "eeprom", "phy", "channel">>

\* MCU commands that wait for CMD_DONE: the WCID burst writes, the
\* calibrations of phy_init, the BW filter of do_set_channel.
Answered == {"wcid", "phy", "channel"}

Addresses == Ivb..(DlmOffset + Max(DlmLens))
Unwritten == [bind |-> 0, at |-> 0]

NewDev == [state |-> "INIT", phase |-> 1, ee |-> FALSE, hw |-> FALSE,
           mac |-> "random", ndev |-> "none"]
NoSeg == [src |-> 0, dst |-> 0, left |-> 0]

Init ==
    /\ pc = "unbound" /\ bind = 0 /\ img = [ilm |-> 0, dlm |-> 0]
    /\ seg = NoSeg /\ dev = NewDev /\ held = {}
    /\ com0 = 0 /\ mcu = 0 /\ started = FALSE
    /\ mem = [a \in Addresses |-> Unwritten] /\ missed = FALSE

\* kzalloc, usb_get_dev, usb_set_intfdata, eth_random_addr.
Probe(ilm, dlm) ==
    /\ pc = "unbound" /\ ~started /\ bind < MaxBinds
    /\ bind' = bind + 1
    /\ img' = [ilm |-> ilm, dlm |-> dlm]
    /\ dev' = NewDev /\ held' = {"dev", "udev", "intfdata"}
    /\ pc' = "setup"
    /\ UNCHANGED <<seg, chip>>

\* Mutant: the error path drops the device and keeps the interface data.
UnwindKeepsIntfdata(what) == what \ {"udev", "dev"}

\* err: usb_set_intfdata(NULL), usb_put_dev, kfree.
Unwind(what) == what \ {"intfdata", "udev", "dev"}

\* usb_probe_setup: the bulk endpoints are there, or probe fails.
ProbeSetup ==
    /\ pc = "setup"
    /\ \/ pc' = "power" /\ UNCHANGED <<held, dev>>
       \/ pc' = "unbound" /\ held' = Unwind(held) /\ dev' = NewDev
    /\ UNCHANGED <<bind, img, seg, chip>>

\* No firmware file, one whose header does not match its size, or any error
\* of the load or of the chip init: probe goes on without.
GiveUpLoad == pc' = "wiphy"

FirmwareMissing ==
    /\ pc = "power"
    /\ GiveUpLoad
    /\ UNCHANGED <<bind, img, seg, dev, held, chip>>

\* ~0u, told apart from 0 and 1.
AllOnes == 65535

\* Whether the control transfers of a register access get lost.
Lost == IF IoErrors THEN BOOLEAN ELSE {FALSE}

\* A 32-bit register read: ~0 when the transfer fails.
Read(v, lost) == IF lost THEN AllOnes ELSE v

\* A register write: two control writes, the result not looked at.
Write(old, v, lost) == IF lost THEN old ELSE v

\* Mutant: a warm chip is reset, COM_REG0 is not cleared.
ClearWarmForgets(seen, lost) == com0' = com0

\* The warm branch of the register setup: vendor reset, COM_REG0 := 0.
ClearWarm(seen, lost) == com0' = IF seen = 1 THEN Write(com0, 0, lost) ELSE com0

\* wlan_onoff_reset and the register setup up to the upload; the vendor
\* resets stop the MCU.
RegisterSetup ==
    /\ pc = "power"
    /\ \E lostRead, lostWrite \in Lost :
         /\ ClearWarm(Read(com0, lostRead), lostWrite)
         /\ missed' = (lostRead \/ (lostWrite /\ com0 = 1))
    /\ mcu' = 0 /\ started' = FALSE
    /\ seg' = [src |-> Ivb, dst |-> Ivb, left |-> img.ilm]
    /\ pc' = "ilm"
    /\ UNCHANGED <<bind, img, dev, held, mem>>

\* Mutant: the destination does not move with the data.
NextSegSameDst(s, n) == [src |-> s.src + n, dst |-> s.dst, left |-> s.left - n]

NextSeg(s, n) == [src |-> s.src + n, dst |-> s.dst + n, left |-> s.left - n]

\* One turn of dma_fw's loop: dma_fw_chunk and the COM_REG1 poll.
UploadChunk ==
    /\ pc \in {"ilm", "dlm"} /\ seg.left > 0
    /\ LET n == Min({seg.left, Payload}) IN
         /\ mem' = [a \in Addresses |->
                      IF a \in seg.dst..(seg.dst + n - 1)
                      THEN [bind |-> bind, at |-> seg.src + (a - seg.dst)] ELSE mem[a]]
         /\ seg' = NextSeg(seg, n)
    /\ UNCHANGED <<pc, bind, img, dev, held, com0, mcu, started, missed>>

\* A FCE register write, the bulk-out or the poll fails.
UploadFails ==
    /\ pc \in {"ilm", "dlm"} /\ seg.left > 0
    /\ GiveUpLoad
    /\ UNCHANGED <<bind, img, seg, dev, held, chip>>

UploadDone ==
    /\ pc \in {"ilm", "dlm"} /\ seg.left = 0
    /\ IF pc = "ilm"
       THEN pc' = "dlm" /\ seg' = [src |-> Ivb + img.ilm, dst |-> DlmOffset, left |-> img.dlm]
       ELSE pc' = "ivb" /\ UNCHANGED seg
    /\ UNCHANGED <<bind, img, dev, held, chip>>

\* The IVB push, DEV_MODE 0x12.
PushIvb ==
    /\ pc = "ivb"
    /\ \/ pc' = "confirm" /\ started' = TRUE
       \/ GiveUpLoad /\ UNCHANGED started
    /\ UNCHANGED <<bind, img, seg, dev, held, com0, mcu, mem, missed>>

\* The chip boots from ILM and sets COM_REG0, possibly after the confirm has
\* given up, before the driver is bound again at the latest.
Boot ==
    /\ started /\ pc \in {"confirm", "init", "wiphy", "register", "bound", "unbound"}
    /\ mcu' = bind /\ com0' = 1 /\ started' = FALSE
    /\ UNCHANGED <<pc, bind, img, seg, dev, held, mem, missed>>

\* Mutant: the confirm polls until the MCU is up.
ConfirmBootForever ==
    /\ pc = "confirm" /\ \E lost \in Lost : Read(com0, lost) = 1
    /\ dev' = [dev EXCEPT !.state = "FW_LOADED"]
    /\ pc' = "init"
    /\ UNCHANGED <<bind, img, seg, held, chip>>

\* The boot confirm: one of the polls reads 1, or all of them do not.
ConfirmBoot ==
    /\ pc = "confirm"
    /\ \/ /\ \E lost \in Lost : Read(com0, lost) = 1
          /\ dev' = [dev EXCEPT !.state = "FW_LOADED"]
          /\ pc' = "init"
       \/ /\ \E lost \in Lost : Read(com0, lost) # 1
          /\ GiveUpLoad
          /\ UNCHANGED dev
    /\ UNCHANGED <<bind, img, seg, held, chip>>

Phase == Phases[dev.phase]

\* Mutant: a timed-out MCU command does not end the init.
PhasePassesUnanswered(p) == p = "ready" => com0 = 1

\* COM_REG0 five times in a row, and CMD_DONE from a running MCU.
PhasePasses(p) ==
    /\ p = "ready" => com0 = 1
    /\ p \in Answered => mcu = bind

\* eeprom_read adopts the chip's MAC unless the efuse has none.
InitPhase(macValid) ==
    /\ pc = "init" /\ PhasePasses(Phase)
    /\ dev' = [dev EXCEPT
         !.phase = @ + 1,
         !.ee  = @ \/ Phase = "eeprom",
         !.mac = IF Phase = "eeprom" /\ macValid THEN "efuse" ELSE @,
         !.hw  = dev.phase = Len(Phases)]
    /\ IF dev.phase = Len(Phases) THEN pc' = "wiphy" ELSE UNCHANGED pc
    /\ UNCHANGED <<bind, img, seg, held, chip>>

InitFails ==
    /\ pc = "init"
    /\ GiveUpLoad
    /\ UNCHANGED <<bind, img, seg, dev, held, chip>>

\* wiphy_alloc, then cfg80211_register's wiphy_register, alloc_netdev and
\* register_netdev; the MAC goes to the net_device before it is registered.
WiphyAlloc ==
    /\ pc = "wiphy"
    /\ \/ held' = held \cup {"wiphy"} /\ pc' = "register" /\ UNCHANGED dev
       \/ held' = Unwind(held) /\ pc' = "unbound" /\ dev' = NewDev
    /\ UNCHANGED <<bind, img, seg, chip>>

\* err_free, err_wiphy and probe's err_wiphy: from the step that failed.
RegisterFails(did) ==
    /\ pc = "register"
    /\ held' = Unwind((held \cup did) \ (did \cup {"wiphy"}))
    /\ pc' = "unbound" /\ dev' = NewDev
    /\ UNCHANGED <<bind, img, seg, chip>>

Register ==
    /\ pc = "register"
    /\ held' = held \cup {"registered", "netdev"}
    /\ dev' = [dev EXCEPT !.state = "RUNNING", !.ndev = dev.mac]
    /\ pc' = "bound"
    /\ UNCHANGED <<bind, img, seg, chip>>

\* rf_2a4m1_disconnect, the chip left as it is.
Disconnect ==
    /\ pc = "bound"
    /\ held' = Unwind(held \ {"netdev", "registered", "wiphy"})
    /\ dev' = NewDev
    /\ pc' = "unbound"
    /\ UNCHANGED <<bind, img, seg, chip>>

\* The chip loses power while no driver is bound.
Unplug ==
    /\ pc = "unbound"
    /\ com0' = 0 /\ mcu' = 0 /\ started' = FALSE
    /\ mem' = [a \in Addresses |-> Unwritten]
    /\ UNCHANGED <<pc, bind, img, seg, dev, held, missed>>

Next ==
    \/ \E ilm \in IlmLens, dlm \in DlmLens : Probe(ilm, dlm)
    \/ ProbeSetup \/ FirmwareMissing \/ RegisterSetup
    \/ UploadChunk \/ UploadFails \/ UploadDone \/ PushIvb \/ Boot \/ ConfirmBoot
    \/ \E macValid \in BOOLEAN : InitPhase(macValid)
    \/ InitFails \/ WiphyAlloc \/ Register
    \/ \E did \in {{}, {"registered"}, {"registered", "netdev"}} : RegisterFails(did)
    \/ Disconnect \/ Unplug

\* Every step of probe ends: polls and transfers have their timeouts.
ProbeStep ==
    \/ ProbeSetup \/ RegisterSetup \/ UploadChunk \/ UploadDone \/ PushIvb
    \/ ConfirmBoot \/ InitFails \/ WiphyAlloc \/ Register

Fairness == WF_vars(ProbeStep)

Spec == Init /\ [][Next]_vars /\ Fairness

\* The units of the image of this load, where the MCU looks for them.
Image ==
    [a \in Addresses |->
       IF a < Ivb + img.ilm THEN [bind |-> bind, at |-> a]
       ELSE IF a \in DlmOffset..(DlmOffset + img.dlm - 1)
       THEN [bind |-> bind, at |-> Ivb + img.ilm + (a - DlmOffset)]
       ELSE mem[a]]

\* The MCU is started on the whole image of this load, whatever an earlier
\* load left in its memory (dma_fw's arithmetic, usb_load_firmware's offsets).
StartedOnWholeImage == pc \in {"confirm", "init"} => mem = Image

\* FW_LOADED is a confirmation of this load: the MCU runs this image, and a
\* warm chip's COM_REG0 is not taken for it (the COM_REG0 == 1 boot confirm),
\* unless an access of the register setup failed unnoticed.
BootConfirmed == dev.state = "FW_LOADED" /\ ~missed => mcu = bind

\* A load that is taken for done is done.
LoadInv == StartedOnWholeImage /\ BootConfirmed

\* A chip declared initialised has a live MCU running this load's image, a
\* read EEPROM and a program for the default channel, and keeps them while
\* bound, even where unnoticed register errors fooled the boot confirm.
InitedMeansLive == dev.hw => mcu = bind /\ dev.ee

\* Every way out of probe gives back what it took, from whichever step.
NothingLeaks == pc = "unbound" => held = {}

\* A probe ends, bound or unwound.
ProbeEnds == pc \notin {"unbound", "bound"} ~> pc \in {"unbound", "bound"}
=============================================================================
