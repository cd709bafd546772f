# TLA+ models of the rf-2a4m1 driver

rf-2a4m1 is a Linux FullMAC Wi-Fi driver for an MT7601U USB dongle. A portable
core (`src/src/core/`) runs the station-management entity (SME), including the
WPA2 4-way handshake; kernel glue (`src/src/cfg80211.c`, `usb.c`, `main.c`) binds
it to cfg80211, to USB and to the chip's key table. This directory models the parts
where the order of events decides correctness, checks them with TLC and proves the
most important results with TLAPS.

## Inventory of the system

| Component | State | Operations | Hard behaviour | What makes it correct |
|---|---|---|---|---|
| SME (`rf_2a4m1_sme.c`) | `struct rf_2a4m1_sme`: ladder state, nonces, PTK, replay counter, installed TK, packet numbers | `sme_init`, `connect_start`, one handler per frame type, data TX/RX | frames lost, repeated, reordered; re-initialisation in mid-handshake; M1 is unauthenticated | same TK on both ends, no packet number used twice under a TK, nothing delivered twice |
| PMF (`rf_2a4m1_pmf.c`) | mode, `mfp_active`, IGTK with two IPNs; SA Query transaction | negotiate, protect, verify, SA Query tick | recorded frames, absent RSNE, retries against late answers | a REQUIRED end never runs without MFP; only a new protected frame ends the association |
| Scan (`cfg80211.c`) | `scan_req`, index, current frequency, abort flag, delayed work | `.scan`, worker tick, abort, harvest | worker sleeps without the lock; abort and removal race with it | one completion per request, request not used after it, every scan ends |
| Connect (`cfg80211.c`, `usb.c`) | `connect_pending`, poll count, delayed work, `hw_key_installed`, chip key and PN | `.connect`, `.disconnect`, `.add_key`, poll, key programming, TX | the poll is cancelled without waiting; a timeout races the last frame | a pending attempt has a poll; the chip has this connection's key |
| USB RX ring (`usb.c`) | URBs, queue, `rx_running`, worker, TX anchor | arm, undo, complete, resubmit, process, stop | resubmission fails; teardown races completion, worker and an arming op, no lock between them | the ring never shrinks silently; every segment is processed once, in order; nothing is in flight after the stop |
| MCU commands (`usb.c`) | sequence number 1..15, response endpoint | drain, send, poll, re-issue | late response with a reused number, silent firmware, two tunes at once | a tune that succeeded was carried out; every tune returns |
| Bring-up (`main.c`, `usb.c`) | `dev->state`, `hw_inited`, what probe holds, the chip's memory and COM_REG0 | probe, upload, boot confirm, init phases, register, unwind | a warm chip, a failing step, failing register transfers | the running firmware is this load's; a failing probe gives everything back |
| TX status and link statistics (`usb.c`, `cfg80211.c`) | FIFO of 16, polling work, `peer_*`, captured beacon | drain, sample, reset, report | two drainers, overflow, a reset between a check and a write | counters match frames; statistics are of this connection |
| Frame path (`usb.c`, `rf_2a4m1_usb_hal.c`) | none | unwrap, unpad, strip, decrypt, bridge; build, wrap | pad, FCS, CCMP header and alignment in all combinations | the stack and the 4-way get the sender's bytes |
| QoS admission (`rf_2a4m1_qos.c`) | budgets per AC, stream table | ADDTS, DELTS, set limit | table and budget at their limit | used time = sum of the streams |
| Block Ack (`rf_2a4m1_ht.c`) | one agreement per end | ADDBA request and response | one dialog token for all requests, late answers, ends that start over by themselves | an agreement is what the responder accepted |
| TDLS (`rf_2a4m1_tdls.c`) | peer-link state machine | setup, confirm, teardown | crossing setups, relay by the AP | both peers agree on the key |
| FT and roaming (`rf_2a4m1_roam.c`, `rf_2a4m1_sme.c`) | key hierarchy, target, PTK | over-air and over-DS exchange | the PTK is replaced before the roam is done | a key is in use only when both have it |
| SAE, OWE (`rf_2a4m1_sme.c`) | commit/confirm state | commit, confirm, DH in association | none of it is reachable: nothing selects these AKMs | PMK agreement |
| Crypto, codecs, register values | none of their own | pure functions, register sequences | - | numerical and layout correctness |

How they interact: cfg80211 calls the ops under the wiphy mutex; the URB completion
queues segments and `rx_work` hands them to `rf_2a4m1_sme_rx` and to
`rf_2a4m1_scan_rx_bss`; `connect_work` polls the SME, because the core has no
completion callback, programs the chip from `dev->sme` and makes the up-call;
`scan_work` retunes the radio that both use; `rf_2a4m1_disconnect` sets REMOVING,
stops RX and cancels both works. `plat_crit_enter` exists, but no glue path takes it.

## Modules

| Module | Stands for |
|---|---|
| `Sme` | two `struct rf_2a4m1_sme`, STA and AP, and the air between them |
| `SecureLink` | abstract: what a keyed link promises |
| `SmeView` | abstract: what the glue sees of the STA's SME |
| `SmeInv`, `SmeProofs` | the inductive invariant of `Sme`, and its theorems |
| `SmeGroupProofs` | theorems of `Sme` about group keys, PMF policy and teardown |
| `Scan` | the glue's scan: op, worker, abort, removal, harvest |
| `ScanContract` | abstract: what cfg80211 may rely on for a scan request |
| `Connect` | the glue's connect path and the chip's key slot, over `SmeView` |
| `ScanProofs`, `ConnectProofs` | the theorems of `Scan` and of `Connect` |
| `Admission` | ADDTS and DELTS between a STA and an AP, both tables and budgets |
| `SaQuery` | the AP's SA Query transaction and the STA that answers it |
| `BlockAck` | the STA's ADDBA request and an AP, this code's or a foreign one |
| `Tdls` | two STAs that set up a direct link through the AP's tunnel |
| `Ft` | a STA that roams between APs of one mobility domain |
| `RxRing` | the URB ring, its completion handler, worker and teardown |
| `Mcu` | `mcu_cmd` under `do_set_channel`, and the firmware |
| `BringUp` | probe, firmware load, chip init, registration and their unwinding |
| `DataPath` | the bytes of one data frame through receive and transmit |
| `LinkStats` | TX reports, their two drainers, link samples and `.connect`'s reset |
| `ExchangeProofs` | the theorems of `BlockAck`, `SaQuery`, `Admission`, `Ft` and `Mcu` |
| `TdlsProofs` | the theorems of `Tdls` |
| `UsbProofs` | the theorems of `RxRing` and `BringUp` |
| `LinkProofs` | the theorems of `DataPath` and `LinkStats` |
| `Glue` | `Scan`, `LinkStats` and `DataPath` side by side |
| `Device` | `RxRing`, `Mcu` and `BringUp` side by side |
| `Exchanges` | `Tdls`, `Admission`, `SaQuery`, `BlockAck`, `Ft` and `Mcu` side by side: what matches late answers with requests |
| `MCSme`, `MCConnect`, `MCGlue`, `MCDevice`, `MCExchanges` | small instances for TLC |

`Sme` implements `SmeView` (checked and proved), and `Connect` is built over an
instance of `SmeView`: what `Connect` shows of the glue holds with the real SME in
the place of the abstract one, as far as one core entry is one step.

### Sme

Every variable is a field of the struct, named after it, indexed by the node where
both roles use it. An action is one handler of `rf_2a4m1_sme_demux`,
`rf_2a4m1_rx_dot11_mgmt` or `rf_2a4m1_rx_robust_mgmt`, or one entry point of the core,
run to completion. A frame once sent stays in `air` and may be received whenever its
handler's guard holds, any number of times, in any order, or never. Frames of other
senders are `RxStrayDeauth` (an unprotected Deauth or Disassoc) and `RxRefusal` (an
Auth or Assoc-Resp with an error status).

Abstractions:
- Cryptography is ideal. A PTK is the triple (PMK, ANonce, SNonce), a MIC is the PTK
  it was made with, nonces and group keys are values of a counter `fresh`, never
  repeated (the glue's `gen_nonce` is `get_random_bytes`). GTK and IGTK of one M3 are
  drawn as one value.
- PSK only. The cfg80211 glue never sets another AKM, FT, OCV or beacon protection,
  and leaves the PMF mode DISABLED; PMF is core API and modelled with all its modes.
- `data_key_valid` and `ptk_installed` are merged into `installedTk # ZeroKey`; a
  replay slot's `seen` and `highest` into one number (packet numbers start at 1).
- TDLS routing in `rx_data`, WMM/HT negotiation, address filters and diagnostic
  counters are left out. SA Query, ADDBA, ADDTS, TDLS and FT frames have modules of
  their own.
- A Beacon counts as the Probe-Resp; whether it carries the RSNE is free. The RSNE in
  it is that of the AP's mode.
- Histories (`installs`, `used`, `delivered`, `verified`) are not read by any action.

### Scan

Threads: a cfg80211 op (`pc["op"]`), the removal (`pc["usb"]`), the delayed work
(`wpc`) and the RX worker (`ScanRxBss`). A step is what runs under one hold of
`scan_lock` or between two sleeping calls. `ScanFinish` takes the swap of `scan_req`
and the up-call together, since only the thread that swapped it out reports it.
`radio` is the channel the chip is on, as opposed to `curFreq`, the one the sweep
attributes to. External, from their use: one request at a time, ops under one mutex,
unregistration waits for a running op; one instance of a work item runs, and it cannot
be queued while a synchronous cancel waits for it. A worker running on freed memory
is not modelled. TX of the probes is only its place in the order. `ScanContract` is what
cfg80211 may rely on until the dongle is pulled (`present`); afterwards it promises nothing.

### Connect

Threads: an op (`cpc`), `connect_work` (`wpc`), the RX worker (`SmeRx`), the transmit
path (`HwDataTx`) and the removal (`upc`). `chipTk` and `chipPn` are the pairwise slot;
programming restarts the number because `install_hw_keys` writes WCID_IV. The GTK table
is written with it and not kept apart; `hw_inited` is taken as TRUE; the four frames of
the bogus-BSSID control are at most one; reference beacon and link statistics are in
`LinkStats`. `CfgConnect` takes any link, as the op does: one that is idle, one that is up (a
re-association) and one with an attempt under way, whose poll stays queued or goes on running
(`MayRejoin`). Three histories: `raced`, a `connect_work` ran while a `.connect` came in or past
a `.disconnect`'s cancel; `added`, user space called `.add_key`; `rejoined`, a `.connect` that no
`.disconnect` went before found `hw_key_installed` set. External: cfg80211 takes the link for
connected when a success is reported.

### The exchanges of an association: Admission, SaQuery, BlockAck, Tdls, Ft

All take the association as given: the join of `Sme` is one action that makes a new
association, and `rf_2a4m1_sme_init` one that ends it. A frame once sent stays in `air`
and may be received late, again, out of order or never; `Tdls` has queues instead,
because its frames travel in the data stream, and drops them. Protection is the key a
frame was sent under: the receiver takes it as long as it holds that key.

- `Admission`: `ts`, `acTotal` and `acLimit` are the fields of `admission` at both ends,
  `AdmitResult` the checks of `rf_2a4m1_qos_admission_admit` in their order. An AC crosses
  the air as a user priority and is mapped back. The counters are unsigned
  (`Word`). ADDTS is asked for the two ACs that need it.
- `SaQuery`: `q` is `rf_2a4m1_pmf_sa_query`, and `Tick` one call of its tick. The
  identifier space is a parameter so that it wraps. Every frame remembers the transaction
  it was sent for; no action reads that.
- `BlockAck`: the dialog token is the constant the code sends. A foreign AP may decline
  and may answer with another window. The association is kept per end: `sme_init` of one end
  (`SmeInitSta`, `SmeInitAp`) tells the other nothing, an honoured `Deauth` leaves keys and
  agreement in place, and in a join the AP has the new key with the M2 (`ApDerives`), the STA
  with the M3 (`StaJoins`), with MFP or without. `key` is what an end opens Action frames with;
  `agreed` is a history. That a protected frame is parsed as its ciphertext by an end without
  MFP is left out, and so is an agreement that survives an FT roam.
- `Tdls`: a TPK is the set of the two nonces, because the derivation sorts them. The code
  that starts a setup and the sender of a teardown are not in the repository; they are
  external.
- `Ft`: a PTK is (PMK-R1, SNonce, ANonce), and a MIC the PTK and the AP it was made for.
  The PTK a STA holds and the key it has installed are two fields, as in the code, since
  data is protected with the first.

### The chip's side: RxRing, Mcu, BringUp, DataPath, LinkStats

- `RxRing`: an op, `rx_complete`, `rx_work`, the TX completion and the disconnect are
  threads. `armed` is what usbcore owns, `handler` the completion that runs, `alloc` the slots
  with an URB. A transfer is a sequence of segments, some of them malformed. `rx_ensure` has the
  `rx_running` test and no other; `rx_start` allocates and submits slot by slot and undoes itself
  by `rx_stop`; `rx_stop` is one code for the op and the disconnect, cut at every call that
  sleeps: kill, free, cancel, anchor, purge. Where two of them meet so that an URB is freed twice,
  freed in use or overwritten, `fault` is set and the behaviour ends. `late` is the history that an
  op was under way when the disconnect entered `rx_stop` or came after, or that a frame was sent
  after it. External: usbcore completes URBs of an endpoint in order; `usb_kill_urb` waits for the
  handler; `Unplug` shuts the endpoints for a pulled dongle and leaves them open for an unbind or
  `rmmod` (`soft_unbind`). `op_stop` of the HAL has no caller and is left out.
- `Mcu`: the two answered commands of a tune, each with its drain, send, polls and
  re-issues, of any number of callers (in the code the scan worker and `.connect`) that share the
  radio, the number and the endpoint without a lock. The firmware runs commands in order, rejects
  some and answers late; it may also stall. `share` is the history of a caller's last tune:
  `alone`; `recycled` if it took a number that the chip still held a command or an undrained
  response for; `shared` if another tune was under way or began. `ran` is which halves the
  firmware ran since a tune last began.
- `BringUp`: the steps of `rf_2a4m1_probe` down to registration, the upload chunk by chunk,
  and the chip that survives the driver. A failing step unwinds as the code does.
  `IoErrors` lets the register transfers fail whose result the code does not look at, and the
  history `missed` records that one of the register setup did. The short bulk-out of
  `usb.c:282` is left out: usbcore ends an OUT transfer whole or with an error.
- `DataPath`: a frame is a sequence of tagged bytes, so that a byte in the wrong place is
  seen. `Segment` is what the chip hands over (external); `RxProcessSeg` and the transmit
  side are the code's arithmetic.
- `LinkStats`: a sample carries the number of the connect it was taken in. Steps are the
  holds of `link_lock` and `bss_frame_lock`, and the register reads of a drain.

## What the runs check

All runs end within four minutes with two workers.

| Run | Bounds | Shows |
|---|---|---|
| `sme_init` | STA DISABLED, AP DISABLED or REQUIRED, two PMKs, one re-initialisation of either end, 5 random values | `KeyAgreement`, `RequiredMfp`, `ImplementsView` (1.35 M states) |
| `sme_twice` | STA OPTIONAL, AP DISABLED or REQUIRED, one PMK, 6 random values, 1 data and 1 protected frame per key | `SmeInv`, `GroupAgreement`, `ProtectedTeardown`, `M4ConfirmsM3`, `NoReplayedDelivery`, `NoNonceReuse`, `ImplementsLink` (1.2 M states) |
| `sme_stripped` | STA OPTIONAL or REQUIRED, AP DISABLED | violated: `RequiredMfp` |
| `connect` | 2 attempts on any link, 1 poll, 2 keys, 1 frame per key, `.add_key` and removal | `TypeOK`, `PollerArmed`, `ChipKeyUnraced`, `NoChipNonceReuse`, `EveryConnectEnds` (1.1 M states) |
| `scan_unregister` | 1 request, 1 channel, removal | violated: `NoScanAtUnregister` |
| `scan_between` | 1 request, 2 channels | violated: `HeardWhereReported` |
| `connect_stale` | 2 attempts, 1 poll, 2 keys | violated: `ChipKeyOfThisConnect` |
| `exchanges` | admission: 2 streams, 2 requests, 2 slots, a lowered limit; SA Query: 4 queries, 2 identifiers, 2 associations; Block Ack: 2 TIDs, 2 requests, 2 associations, either end started over at any time; TDLS: 3 setups, 2 frames per leg; FT: 2 roams between 2 APs, 6 random values; tunes: 2 callers (symmetric), 1 channel, 3 numbers, 2 attempts of 1 poll, a drain of 1 | `AdmissionInv`, `AdmitsWithinLimit`, `SaQueryInv`, `BlockAckInv`, `TdlsInv`, `TeardownByKeyHolder`, `FtInv`, `TunedMeansCalibrated` (1.3 M states) |
| `device` | ring: 2 URBs, 2 segments in one transfer or two, 1 error, 1 failed allocation or submission, 1 frame sent; MCU: 1 caller, 2 channels, 3 numbers, 3 attempts of 2 polls; bring-up: 3 binds, 4 images, failing transfers | `RingInv`, `DeliveredInOrder`, `QuietAfterStop`, `QueueDrains`, `TuneReturns`, `LoadInv`, `InitedMeansLive`, `NothingLeaks`, `ProbeEnds` (0.4 M states) |
| `rx_rearm` | 2 URBs, no errors, no failures | violated: `StopIsFinal` |
| `glue` | scan: 3 requests for 2 channels, removal; statistics: 2 APs, 2 connects, 2 frames sent, 1 heard, FIFO of 1, 1 failed read; frames: all header forms, 14 lengths | `ScanInv`, `ImplementsContract`, `EveryScanEnds`, `ReportsAccounted`, `StatsUnraced`, `FifoDrains`, `ReceivedInv`, `SentIsReceived` (0.5 M states) |
| `ft_pn` | 1 roam, 1 data frame | violated: `PacketNumberFresh` |

`glue`, `device` and `exchanges` put several components into one run; `rx_rearm` takes from
`Device` the ring alone (`Parts`). Each component starts in its own initial state and `part`,
chosen there, says which one moves; the others rest.
Since these components share no variable, a behaviour of two of them interleaved is, for
each, a behaviour of that one alone with stuttering, and all their properties are closed
under stuttering: nothing is lost by not interleaving them. Where components do share
state they are one module (`Connect` over `SmeView`, the drainers and `.connect` in
`LinkStats`, the op, the completion and the disconnect in `RxRing`).

Why the bounds suffice. A full handshake draws three random values (ANonce, SNonce,
group keys). Six make room for a second complete one, under a new TK, with every frame of
the first still in the air (`sme_twice`). Five make room for one complete
handshake and, around a re-initialisation, the beginning of another: the ANonce and SNonce
with which old M1, M2, M3 and M4 could be taken for new ones (`sme_init`); a sixth value
together with a re-initialisation is 5 M states, and the theorems cover it. One frame per
key is enough to meet a number again, since a restart of the counter meets number 1. Two
channels give a first and a last one; three requests let an aborted scan be followed by
one that overlaps its late worker. Two attempts and two keys are the smallest case with
an earlier key; `EveryConnectEnds` is shown for that many calls of `.connect`, since each one sets
`connect_polls` back.

In `exchanges`, two streams fill the budget of an AC; a limit of 1 is below every stream. A
table with fewer slots than streams is not in the run (three streams in two slots are more
than 2.5 M states): `AdmissionCorrect` covers every number of slots. Two identifiers and
four queries wrap once around. Two TIDs and two requests give an answer for the wrong TID and a
record overwritten by a late request; two associations give a frame under an old key and an
agreement that outlives its end. Three
TDLS setups let one cross another and a third follow a teardown. Two roams draw six values
and leave every frame of the first in the air. For the tunes, three numbers with two attempts per command come around within one tune, a drain
of one leaves responses of earlier tunes in the endpoint, and with two callers either one's tune
can be the clean one after anything the other did; one channel is enough, because what a tune
leaves behind for the next names no channel. In `device`, two URBs complete out of step, two
segments come in one transfer or in two, and one failure is enough for the undo of `rx_start` to
meet the disconnect. `Mcu` is there with one caller for `TuneReturns`, because the polls and re-issues of a caller
are its own. The images end inside, at and behind a chunk of two units,
with and without a DLM; three binds put a warm chip after a failed and after a complete
load. In `glue` a FIFO of one overflows with the second report, and the lengths run through
every rounding to four several times, below and above the EAPOL minimum.

The bounds end behaviours, so `CHECK_DEADLOCK FALSE` is set, but in `scan_between`, whose
violation comes before any end; that the threads do not wait on each other for ever is what
`EveryScanEnds`, `EveryConnectEnds`, `QueueDrains`, `TuneReturns`, `ProbeEnds` and
`FifoDrains` show.

`GroupAgreement` is stated for ends whose PMF policy does not change: `sme_twice` has no
re-initialisation. `NoChipNonceReuse` and `ChipKeyUnraced` say nothing once `.add_key` was
called: a 4-way-offload user space does not call it, and `rf_2a4m1_op_set_key` would restart
the chip's number under the key in use. They also end with a `connect_work` that ran beside a
`.connect` or past a `.disconnect`, the case of `connect_stale`, and `ChipKeyUnraced` with a
`.connect` that found the key of a link in use (`rejoined`), where the link does keep the
earlier TK; `NoChipNonceReuse` holds there too. `QuietAfterStop` and the safe use of URBs in `RingInv` end
with an op that overlaps the disconnect's `rx_stop`, the case of `rx_rearm`;
`TunedMeansCalibrated` is said of a tune that no other one touched and whose numbers the chip had
forgotten; the others are in the list below. `RecipientKnows`
of `BlockAckInv` is said with MFP and while the AP has the key of the agreement, because without
either nothing tells the AP's record from that of another association, and compares TIDs where
the STA asked for one, because the AP has one record for all. The boot confirm in `LoadInv` is claimed unless an
access of the register setup failed unnoticed (`missed`). The contract of a scan,
`EveryScanEnds` and the worker's part of `ScanInv` end with the removal, the case of
`scan_unregister`.

### Fairness

`Sme` and the five exchanges have none; their properties are safety. `Scan` and `Connect`
assume weak fairness of the worker (timers fire and the workqueue runs), of an op that has
entered the driver and of the removal: each is a kernel thread the scheduler runs and
whose calls return. `RxRing` assumes it of the worker, of a completion that is running and of a
thread in `rx_stop`,
`LinkStats` of the delayed work and of a drain, `Mcu` of the caller and `BringUp` of probe:
all their USB transfers have timeouts. Nothing is assumed of the environment: not that
frames arrive, that cfg80211 calls anything, that tuning succeeds, that `rx_ensure` does,
or that the firmware answers.

### Disagreements between comments and code

1. `sme_stripped`. `pmf_negotiate_ies` succeeds when there is no RSNE, so a REQUIRED
   station connects without MFP although the comment at `rf_2a4m1_sme.c:2279` says that
   the association is refused.
2. `scan_unregister`. `.scan` looks at `dev->state` before it takes `scan_lock`; the
   request can be published after the removal's `scan_stop`, against `cfg80211.c:1261`.
3. `scan_between`. Between `set_channel` and the update of `scan_cur_freq` a beacon of the
   new channel is reported on the old one, against `cfg80211.c:641` and `:498`.
4. `connect_stale`. `.disconnect` does not wait for a running `connect_work`, which sets
   `hw_key_installed` again; the next connection keeps the old TK in the chip, against
   `rf-2a4m1.h:296`.
5. `rx_rearm`. `rx_ensure` looks at no REMOVING: an op past its own checks arms the ring beside or
   after the disconnect's `rx_stop`, and an unbind leaves the endpoints open, against
   `usb.c:2168`.
6. `ft_pn`. After Auth2 `data_tx` protects with the new PTK, and the installation at the
   Reassociation Response restarts the packet number under it, against
   `rf_2a4m1_sme.c:2433` ("fresh per-frame 48-bit PN").

Seen while modelling, and not kept as runs:
- `cfg80211.c:325`, "Program the MT7601U HW crypto key table from those keys": a `.connect` on
  a link that is up skips `install_hw_keys`, because only `.disconnect` clears
  `hw_key_installed`, and the new 4-way leaves the earlier TK in the chip (`Connect`: drop
  `~rejoined` from `ChipKeyUnraced`).
- `cfg80211.c:641`, "a channel we actually tuned to": the scan worker and `.connect` tune at the
  same time, and `set_channel` returns 0 with the radio on the other's channel (`Mcu`: drop
  `share[c] = "alone"` from `TunedMeansCalibrated`).
- `usb.c:861`, "desyncs the seq stream": a response 15 numbers late, behind a command the chip
  still held during the drain, completes a command that has not run (`Mcu`: let
  `TunedMeansCalibrated` include `"recycled"`).
- `rf_2a4m1_sme.c:1616`: a SA Query that times out declares the peer gone; nothing reads
  TIMEOUT, and the AP keeps the association (`SaQuery`).
- `rf_2a4m1_ht.c:143`, "responder may shrink the window": a larger one is adopted as well
  (`BlockAck`).
- `rf-2a4m1.h:255`: a URB that ends with an error is "NOT resubmitted"; `rx_complete`
  re-arms it (`RxRing`).
- `cfg80211.c:886`: the last connect's rate "must not leak"; a report still in the FIFO
  brings it back (`LinkStats`, whose `StatsUnraced` shows that there is no other way).
- `usb.c:517`: the response endpoint is quiescent; with two callers it is not
  (`Mcu`).
- `usb.c:478`, "Boot confirm": a failed read or write of COM_REG0 leaves the 1 of the
  earlier boot (`BringUp` with `IoErrors`; `InitedMeansLive` shows that the init phases
  catch it).
- `main.c:40` ("the glue serializes every core entry") while no glue path takes the lock;
  `cfg80211.c:453` ("no periodic drain runs during connect") while `rx_ensure` starts it;
  `cfg80211.c:286` ("CONNECTED / FAILED") while FAILED with `connected` set is reported as
  a success.

## What is proved

Every safety property of the passing runs is a theorem for all values of the constants, some
under a hypothesis the table states. The constants are assumed to be what the module's
`...Constants` operator says (`SmeConstants`, `FtConstants`, ...): finite sets, positive
bounds and, where the C code has a width, values that fit it. A theorem is an
inductive invariant, its preservation action by action, and what follows from it;
the table says what the invariant has to add and why.

| Theorem | Property | Hypothesis | What the invariant adds |
|---|---|---|---|
| `SmeInvariant`, `TypeCorrect`, `KeyAgreementHolds`, `NoNonceReuseHolds`, `NoReplayedDeliveryHolds` | `SmeInv` and its consequences | - | see below |
| `ImplementsLinkHolds`, `ImplementsViewHolds` | `ImplementsLink`, `ImplementsView` | - | `SmeInv`; each step is a step or a stutter of the abstract specification |
| `GroupInvariant`, `M4ConfirmsLastM3` | `M4ConfirmsM3` | - | an ANonce has one M3: the replay counter has passed its M1 once M3 is out (`GroupInd`) |
| `TeardownIsProtected` | `ProtectedTeardown` | - | the IPNs accepted under an IGTK are behind the counter, and an IGTK is installed once (`IpnAhead`) |
| `RequiredMeansMfp` | `RequiredMfp` | STA never REQUIRED or AP never DISABLED | the mode a node answered under is one of its modes; without the hypothesis `sme_stripped` is a counterexample |
| `GroupAgrees` | `GroupAgreement` | one mode per end | both ends settle MFP from the same two modes, and the group keys are those of one M3 |
| `PollerStaysArmed` | `PollerArmed` | - | the op that cancels the poll has cleared `connect_pending` |
| `ConnectTyped` | `TypeOK` of `Connect` | - | the poll at work is that of this attempt, unless a `.disconnect` met it |
| `ChipKeyCurrent` | `ChipKeyUnraced` | - | whose TK the SME, `hw_key_installed` and the chip hold, with the key of a link in use as a case of its own (`ChipInd`) |
| `ChipNonceFresh` | `NoChipNonceReuse` | - | the numbers spent under the chip's TK are behind its counter |
| `ScanCorrect` | `ScanInv` | - | the request in `scan_req` is the last one made; the index is not behind the channels visited (`ScanInd`); until the removal the op, the worker and the cancel exclude each other as the workqueue promises (`StayInd`) |
| `ScanImplements` | `ImplementsContract` | - | `StayInd`: until the removal the index counts exactly the channels visited |
| `BlockAckCorrect` | `BlockAckInv` | - | an answer of this code's AP under its present key has left a record with its window and the TID of a request under that key (`OwnApRecords`) |
| `SaQueryCorrect` | `SaQueryInv` | - | how far the identifier of a frame is from the current one, with the wrap (`TidDistance`) |
| `AdmissionCorrect`, `AdmissionWithinLimit` | `AdmissionInv`, `AdmitsWithinLimit` | - | totals below `Word`; an admitting answer on the air was granted |
| `FtCorrect` | `FtInv` | - | which end each MIC in the air proves to know which PTK (`FrameOk`) |
| `TdlsCorrect`, `TeardownAuthentic` | `TdlsInv`, `TeardownByKeyHolder` | - | the order of the nonce draws: a tunnel is a queue, so an end that has answered the latest request can meet no other |
| `RingQuiet` | `QuietAfterStop` | - | without a late op what `rx_stop` has passed stays dead: slots below the loop, then the worker, then the frames (`QuietInd`); nothing is assumed of the endpoints |
| `RingCorrect` | `RingInv` | - | a URB is in one place: armed, in its handler, or with the arming loop; which slots are allocated where the op and the disconnect are, until they overlap (`RingInd`) |
| `SegmentsInOrder` | `DeliveredInOrder` | - | processed segments, then queued ones, rise; without a failure both together are all that were taken (`OrderInd`) |
| `ProbeUnwinds`, `InitedIsLive` | `NothingLeaks`, `InitedMeansLive` | - | what probe holds at each step |
| `LoadCorrect` | `LoadInv` | - | each segment is uploaded up to `seg.dst` (`Uploaded`), the rest follows from the chunk arithmetic; COM_REG0 is the flag of this load from the register setup on (`Confirmed`) |
| `TuneCalibrates` | `TunedMeansCalibrated` | - | of a tune that is alone: its command is the last of the queue and alone with its number, or has run and the queue is empty (`Calibrating`) |
| `ReceivedIsExact`, `SentArrives` | `ReceivedInv`, `SentIsReceived` | - | none: the operators are followed byte by byte, for every length |
| `StatsAreFresh`, `ReportsAreAccounted` | `StatsUnraced`, `ReportsAccounted` | - | while no sample straddled a reset, all that is on its way is of this connect |

`SmeInv`. `KeyAgreement` is not inductive: an M4 the AP takes
may answer an M3 sent long ago. `SmeInv` adds where every nonce comes from
(`NoncesDrawn`), that a key under negotiation is new at each end (`StaKeyIsNew`,
`ApNonceIsNew`), how the replay counter separates the AP's handshakes (`M3Order`: the PTK
is overwritten by each M2, so an old M3 may carry the current PTK only with a smaller
counter), that each M4 answers an M3 with an installed key (`M4Answers`), that a
connected end uses the key in place (`KeyInPlace`), and that the packet numbers spent
under it are behind the counters (`CountersAhead`). The action properties need one
case per action that moves a counter.

The hypotheses, and where they come from. A STA that requires MFP and an AP with PMF disabled:
`sme_stripped` shows what happens. One policy per end: the glue sets none, and the modes of a core user
change only with `rf_2a4m1_sme_init`.

What the proofs changed in the models:
- `Connect`: `connect_polls` was said to stay within its limit. It does not: a worker that
  outlives its attempt counts once more into the next one. With three `.connect` calls the
  count passes the limit, which two, as in the run, do not show. `TypeOK` states the limit for
  attempts whose poll was not met by a `.disconnect`.
- `Connect`, `BringUp`, `Scan`: where a property held only without `.add_key`, without transfer
  errors or without a removal, the runs had one instance with and one without. The histories
  `added` and `missed` and the contract's `present` now state the exact condition, so one instance
  and one theorem cover both.
- `EveryScanEnds` says that the driver becomes free again, which includes that each request ends.
- The components that are checked together are composed in modules with the constants of all of
  them (`Glue`, `Device`, `Exchanges`): the theorem and the run state the same definition.
- `BringUp`: probe takes only a chip that no driver has started, the images have a longest DLM,
  and the failed boot check lists the state it leaves.
- `Admission`: `BudgetAccounted` compares the total with the set of airtime units of the streams,
  which needs no fold over the table; limits are below `Word`, as they are `u32` in the code.
- `Mcu`: a proof for one caller and a drain longer than the chip's lag hid what the code does with
  two; the property now says of which tunes it speaks (`share`), and the theorem needs neither.
- `RxRing`: the copied segments are the numbered ones with one removed, and `DeliveredInOrder`
  states a strictly rising order instead of comparing with a sorted sequence.

Induction over data is within reach where a least counterexample suffices: the library's
`WFMin` has no operator parameter, and with it `ExchangeProofs` finds the first free slot.

Only model-checked: liveness (`EveryScanEnds`, `EveryConnectEnds`, `QueueDrains`,
`TuneReturns`, `ProbeEnds`, `FifoDrains`), which needs fairness and ENABLED, out of this prover's reach; and
the six violated properties.

`MCGlue`, `MCDevice` and `MCExchanges` assume the `...Constants` of their components, so that TLC
evaluates them; `Sme` and `Connect` assume theirs themselves.

## Not modelled, and the plan

Left to prove: the safety halves of the
liveness properties: which thread is bound to move when one of them waits, as invariants of
`Scan`, `RxRing` and `LinkStats`.

Not modelled, and why:
- SAE and OWE: unreachable at this commit. `rf_2a4m1_sme_init` clears `akm`, `sae_pw_len`
  and `owe_kp_ok` and, unlike PMF or FT, no entry of the core sets them again, although `README.md:23` lists
  both among the driver's features; a model would start in a state the program has not.
- OCV, beacon protection and Transition Disable in the 4-way: elements of the key data of M2
  and M3, checked one frame at a time (the channel check of a roam is in `Ft`); nothing reads
  the BIGTK once it is installed. TWT and the generation (HE/EHT) elements likewise.
- The cryptographic primitives: numerical code, out of a model checker's reach.
- Frame codecs: conversions of single frames. What they do is in the frames of each
  module; walking elements byte by byte is not.
- Register values, calibration tables, TXWI and RXWI bit fields no property reads, and
  the firmware's contents: the chip's.
- The power and regulatory getters, the kernel compatibility layer and the packaging: no
  state.
- The wrap of a packet number at 2^48: beyond any bound a model checker reaches; `MaxPn`
  and `MaxData` stand for it.
- Core entries cut into steps. No glue path takes the critical section, but following
  `dev->sme` one store at a time is a model of C's memory and not of this code.
