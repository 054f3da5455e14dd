# A TLA+ model of the rtw88 USB driver

`src/` is a FreeBSD driver for Realtek RTL8821CU / RTL8811CU Wi-Fi sticks.
Nearly all of it is `sys/dev/rtw88/if_rtw88_usb.c`; line numbers below refer to
that file unless another one is named. This directory holds TLA+ models of its
concurrent core and of the loops over data from outside, the TLC runs that check
them, and TLAPS proofs of every safety property the runs check.

## Contents

- [The system](#the-system)
- [Who runs, and when](#who-runs-and-when)
- [Modules](#modules)
- [Runs](#runs)
- [Disagreements between code and comments](#disagreements-between-code-and-comments)
- [Proofs](#proofs)
- [Abstractions and limits](#abstractions-and-limits)
- [Plan](#plan)

## The system

| part | state it keeps | operations | what makes it correct |
|---|---|---|---|
| EP0 register access (1298-1546) | `sc_io_busy`, error counter | `read_region`, `write_region`, `setbits1`, `clrbits1`, the ON-section seal `reg_sec` | one request at a time; no lost wakeup; no lost update; the seal follows its access |
| Bulk-OUT transmit (2381-2969, 4981-5129) | three mbuf queues, three in-flight slots, four transfers, `sc_tx_buf`, the single-slot sync state | enqueue, callbacks, `bulk_tx_sync` | frames have one owner, keep their order and move on; a synchronous call returns 0 only when its data is out |
| Keys and the transmit gate (5409-5639, 7307-7712) | `sc_cam_q`, the chip's CAM, `sc_ptk_install_pending`, `sc_tx_pending_q`, `sc_m4_needs_encap` | `vap_key_set`, `vap_key_delete`, `cam_task`, `crypto_encap_if_needed` | no key operation lost or reordered; held frames are released in order; message 4 goes out encrypted |
| Link changes (4138-4520) | `sc_post_state_ops` and its parameters | `newstate`, `post_state_task` | every teardown is complete before the next link is set up |
| Timers (4578-4975) | keep-alive and DIG callouts, watchdog counters | start, stop, callout, task, scan start and end | nothing runs after stop or detach |
| Receive (1758-2329) | staging buffer, RSSI average, counters | `bulk_rx_cb`, `rx_one`, C2H dispatch | an aggregate is walked within its bounds; the transfer is re-armed |
| Firmware and power (2980-3694) | the chip's power, CPU, memory and status bits | power sequence, download, DDMA, checksum, wait for ready | a download that succeeds has started the image it was given; memory is written only with the CPU in reset |
| H2C mailbox (6873-7184) | `sc_h2c_box_next`, four boxes in the chip | poll, extension, message | a command waits in its box whole until the firmware takes it |
| Channel and calibration (3843-4115, 4522-4570, 6354-6871, 7779-7904) | `sc_cur_channel`, `sc_cur_bw`, RF register 8 | `set_channel`, `phy_set_channel`, `phy_calibration` | registers and cache agree with what was asked for; a calibration sees its own result |
| MAC and PHY initialisation (5829-6345, 7924-8628) | the chip's registers | `mac_init`, `phy_set_param`, table walk | of each conditional block the branch of this device is applied |
| eFuse (`rtw88_efuse.c`) | logical map, fields | dump, logical walk | the walk lays out what the records say and stays in its map |
| Coexistence (`rtw88_coex.c`) | flags | `coex_init`, `link_up`, `prepare_tx` | locks as its callers expect |
| Power save, beamforming, regulatory, LED, debug (`rtw88_*.c`) | per-device records | one or two calls each | - |
| Attach, detach (9612-9969) | everything above | set up, tear down in order | each thread finds what it works with (it does, but for two cases: see `LackOnlyUnguarded`); nothing is left after a failed attach or a detach |
| PCI front end (`if_rtw88_pci.c`) | - | probe and register access | - |

How the parts interact: every part reaches the chip through the EP0 layer; the
senders and the link task share the frame queues with the USB callbacks; key
installation closes and opens the gate in front of these queues; link teardown
resets keys, gate and queues; the link task and calibration send firmware
commands through the synchronous bulk path, which shares buffer and transfers
with management frames.

## Who runs, and when

One mutex, `sc_mtx`, protects all of it, but it is dropped in the middle of
many functions:

- `usbd_do_request_flags` drops it while a control request is on the wire;
- `msleep` in `rtw88_usb_io_enter` drops it while a thread waits for EP0;
- `cv_timedwait_sig` in `rtw88_bulk_tx_sync`, `usb_pause_mtx` in polling loops
  and `rx_one` around `ieee80211_input_mimo_all` drop it too.

The threads are `sc_tq` (one thread: link changes, calibration, timers'
tasks), `sc_cam_tq` (one thread: key operations), the USB callback threads,
net80211's own threads (state changes, key calls, transmit, scan) and user
threads in sysctl and ioctl handlers.

A model's action is what a thread does between two such points.

One fact shapes everything above the EP0 layer. `rtw88_usb_io_exit` gives the
claim up and wakes a sleeper, but the thread still holds `sc_mtx`; if it goes
on to its next register access without unlocking, it takes the claim again
before the sleeper can look at it. So a chain of register accesses in one
`sc_mtx` section is never interleaved with another thread's register accesses,
although sections that do no register I/O run in the middle of it. `Ep0` models
this, `CallsAreAtomic` and `NoLostUpdate` prove it for a read-modify-write, and
`KeyGate` and `Mailbox` use it as their variable `bus`.

## Modules

### Ep0, AtomicRegs

`Ep0` is the register access layer. `pc[t]` says where a thread is: `idle`,
`asleep` in `msleep`, `woken` (picked by `wakeup_one`, has not run yet), `wire`
(request issued, mutex dropped), `served` (the chip has acted), `seal`
(`reg_sec`'s request is out). `Begin` is a thread taking `sc_mtx` and calling;
`Recheck` the loop in `io_enter`; `Serve` the chip; `Return`,
`rtw88_usb_reg_sec` and `Fail` what follows the request. `AccessDone` and
`Leave` are the common tail: `io_exit`, the second half of
`setbits1`/`clrbits1`, the next call of the same section, or unlocking.

`AtomicRegs` is what callers may rely on: each call, a read-modify-write
included, takes effect at one instant. `Ep0` refines it
(`Atomic == INSTANCE AtomicRegs WITH st <- CallState`): the state of a call is
computed from `pc`, `phase` and `call`.

### BulkTx

Queues `q`, slots `inflight`, transfers `xfer` with what they carry (`load`),
the shared `sc_tx_buf`, and the sync slot. `rtw88_bulk_tx_data_cb` is both data
callbacks, which differ only in queue and slot; `rtw88_bulk_tx_cb` is the
callback HI and H2C share; `TransferError` is the error arm of all three. HI
and H2C are bound to one endpoint, so `ep05` keeps the order of their
submissions. The USB framework (`usbd_transfer_start`, `usbd_transfer_stop`,
`Resubmitted`, `Complete`) is external: a started transfer gets a SETUP
callback, a stopped one a callback with `USB_ERR_CANCELLED`.

### KeyGate

Key operations, gate and link changes together, since their hazards lie between
them. `newstate` posts work for `post_state_task`, whose LINK_DOWN branch is
split at the end of its register I/O (`post_state_wipe`, `post_state_tail`).
`vap_key_op` and `vap_key_enqueue` are the two halves of
`key_set`/`key_delete`, before and after the unlock; `cam_task_begin` and
`cam_task_op` the snapshot and each operation of it, with `ReleaseHeld` when a
PTK landed; `crypto_encap`, `defer_m4` and `tx_enqueue_locked(k)` the three
sections of a sender. Frames are message 4 of the handshake or protected data.
net80211 (`NetMoves`, `crypto_newkey`) is external.

### Timers

The keep-alive (`fwka`) and DIG timers and their end in detach. Per timer:
`active` (`sc_dig_active`, `sc_fwka_active`), `armed` (callout pending),
`firing` (handler running, about to enqueue). `queue` and `run` are `sc_tq` and
its thread, shared with `prepare_tx_task` and `post_state_task`; a task is
`TaskBegin` up to its first I/O and an action of its own after it, so that
detach, handlers and state changes fall in the middle. The watchdog's two RX
counters are one flag, `rx`: has anything been counted since the last look.
`DetachSteps` lists what `rtw88_usb_detach` does to timers and `sc_tq` in its
order, and `detach` how far it is; a drain is a guard (`callout_drain` waits for
the handler, `taskqueue_drain` for the task). `late` is a history variable:
timers started after detach switched them off. It is only read by properties.

### Bringup and its parts

The rest of the driver is one composition, because the hazards lie between its
parts and between one attach and the next. Each part is a module with its own
variables and actions; `Bringup` extends them all, adds the order of attach and
detach and the resources (`held`), and conjoins to every action of a part what
that step leaves alone.

- `Access` says how a register access ends for its caller: `ok`, `lost` (an
  error, the chip has not seen it) or `late` (an error, the chip has). Every
  access above the EP0 layer takes an outcome.
- `Mailbox`: `rtw88_h2c_mailbox` step by step for any number of threads. `send`
  is where each thread is, `hmebox` the boxes with their two registers. `Call`
  chooses the box before the first access; `Poll`, `WriteExt`, `WriteMsg`,
  `Advance` follow; `FwTake` is the firmware, `Forget` its loss of power. A command is a name, and its
  extension word what `ExtOf` says.
- `Radio`: `set_channel` with its early return, the four register groups (each
  programmed for a setting, or torn by an error in the middle: `SwitchFails`),
  `SwitchDone`, and IQ calibration (`calibration`, `CalPoll`, `CalReset`). A
  setting is a channel and a width, which stands for width and primary position.
- `Firmware`: `dl` is the step of `rtw88_download_firmware`. The chip is the
  other half: FIFO page, DDMA, memory per chunk, `mcufw` bits, CPU. It stores
  (perhaps garbled), copies and boots when it likes (`ChipStores`, `ChipCopies`,
  `ChipBoots`), before or after the driver has given up waiting, and keeps what
  it holds over attaches. `Content` names a chunk by attach and number, so that
  leftovers differ from what is being downloaded. `Await` is
  `rtw88_check_hw_ready`: there, or given up (also when a read fails with the bit
  there).
- `ChipInit`: the parts of `rtw88_mac_init` and `rtw88_phy_set_param` with their
  early exits; attach ignores both results.
- `RxPath`: `rx_one` and the loop over an aggregate as functions, and the life of
  the receive transfer with the frame that is in net80211 while `sc_mtx` is
  released.
- `Efuse`, `PhyTable`: the eFuse walk and the conditional table walk as functions
  of the turns done (`efuse_logical_walk`, `phy_walk`), each with a reference that
  says what a map or a block means: `Encode` writes a record's bytes, `Logical` what
  a list of records says of each byte, `Meaning` which entries of a block apply.
- `Bringup`: `phase` is where the attaching thread (`main`) is. `GiveBack` is one
  release of `UndoOrder` or `DetachOrder`, guarded by what it waits for. `tq`
  runs one job at a time, a list of commands (LINK_UP, LINK_DOWN, a keep-alive
  tick) or a calibration; `ic` switches channels (net80211 runs channel changes
  on its one taskqueue thread); the receive callback runs while transfers are
  set up; `user` is a thread that writes the `lps_state` sysctl, at any moment from
  `net80211_attach` until newbus frees the OIDs behind detach's back, and nothing
  in detach waits for it. Detach's drains end the tasks net80211 enqueues
  ("tasks"), but a keep-alive that a LINK_UP under way has started again still
  enqueues its own (`KeepAlives`) until `taskqueue_free`.

### MC modules

`MCEp0`, `MCBulkTx`, `MCKeyGate`, `MCBringup` give the constants their values; `Timers` has
two numeric bounds, which its `.cfg` files give directly.
Definitions named after another one with a suffix (`Return_unsealed`,
`FreeInflight_leaks`, ...) are deliberate bugs: each breaks the property it is
paired with in `PROJECT.json`, which shows that the property can fail.

## Runs

| run | checks | bounds and why they suffice |
|---|---|---|
| `ep0` | `TypeOK`, `OneClaimant`, `NoLostWakeup`, `UpdateIsCurrent`, `SealBeforeNext`, refinement `AtomicSpec`, liveness `CallsReturn` | three threads (claimant, sleeper, woken: one of each), two calls each, one always-on register; one failure |
| `bulktx` | `TypeOK`, `DataFramesOwned`, `QueuesInOrder`, `DataTransferIsInflight`, `NoStalePending`, `AttachSyncIsSafe`, liveness `QueuesDrain` | four frames over the three queues with room for one BE frame, so that a frame is in flight while the next one waits or is rejected; two synchronous calls on either pipe; one error or timeout |
| `bulktx_sync` | `SyncOkMeansCarried`, violated | one management frame, one call |
| `bulktx_leak` | `MgmtFramesOwned`, violated | two management frames, one H2C call |
| `keygate` | `TypeOK`, `HeldOnlyBehindGate`, `DataInOrder`, `FramesOwned`, `TeardownIsComplete` | two M4s (so that the marker is taken), two data frames (so that order matters), two key operations on a CAM queue of one (so that it overflows), a held queue of two (so that it overflows), two associations with one loss |
| `keygate_live` | `NoLostOps`, `OpsInOrder`, liveness `M4Encrypted`, `HeldFramesReleased`, `KeyOpsExecute` | one frame of each kind, two PTK/GTK operations in a queue of two, one CAM error, one loss |
| `keygate_tkip` | `HeldFramesReleased`, violated | one M4, one TKIP key |
| `keygate_lostdown` | `TeardownBeforeUp`, violated | two associations, one loss, no keys |
| `timers` | `TypeOK`, `TimerAlive`, `QuietAfterDetach`, liveness `KeepAliveTicks` | three associations (start, stop, start again, and a LINK_UP with no LINK_DOWN between), a stall after three ticks as in the code, detach at any moment |
| `timers_fresh` | `FreshLink`, violated | two associations |
| `bringup` | `TypeOK`, `ReadyMeansImage`, `CommandsWhole`, `TunedAsAsked`, `CalibrationIsFresh`, `LackOnlyUnguarded`, `NothingLeft`, `EfuseRight`, `TablesRight`, `AggregatesRight`, `WrittenInReset`, liveness `CallsReturn` | see below |
| `coex_lock` | `LockNotRecursed`, violated | one attach, no faults |

`bringup` has three kinds of behaviours (`MCBudgets`): two attaches with one failed
or late access, or one missing table, anywhere in them, so that the second meets
what any failure of the first has left; one attach with two such faults, so that
the built-in MAC table, used when the blob is missing, fails as well; or one
attach without faults followed by two pieces of work (task, channel switch,
sysctl) and one failed access, so that two threads are in the mailbox or at the
radio when it happens, or one is at work while detach goes on. It has about
580,000 states and takes three minutes with two workers. Polls end after
two reads instead of 30 and 300; two boxes stand for four: two is the least with
which a wrong box can be chosen and the index can wrap. The image is one chunk of
DMEM and one of IMEM, so that a stale page, a stale DDMA and a stale checksum are
told apart. Channels 1 and 36 on a chip with one band, two widths: same channel
with another width, a channel refused. `LinkupSkip` leaves three of LINK_UP's
commands; the others add length only. The walks are checked over all eFuse maps
of eight bytes over four byte values and all lists of three records, all pairs of
table blocks with up to two branches, all aggregates of three packets of eight
descriptors and all lengths up to 14 units.

Deadlock checking is off everywhere: with bounded frames, calls and keys every
model comes to rest.

Fairness. A USB request or transfer completes or times out (the driver gives
each a timeout), its callback runs, a woken thread runs, a queued task runs:
weak fairness on those steps. New calls, frames, link changes and losses are
never promised. In `Bringup` the four threads and the callback (`MainStep`,
`TqStep`, `IcStep`, `UserStep`, `RxStep`) take the step they can take; the chip
owes nothing, and `CallsReturn` (attach, detach and sysctl writes return) holds
all the same because every wait on it is counted. In `Timers` an armed callout expires and its handler ends, and
the thread of `sc_tq` runs. In `KeyGate` the supplicant is fair in one respect,
`SupplicantInstalls`: having sent message 4 it goes on to install the PTK, the
order the comment at 774-778 describes.

The liveness properties are stated for what the code can keep. `QueuesDrain`
stops promising anything after a transfer error or a sync timeout: the error
arm of a callback submits nothing, so frames already queued wait for the next
enqueue. `M4Encrypted` and `HeldFramesReleased` hold while the link stays up
and CAM writes succeed, and for the order "M4, then SET_KEY" (`M4First`); with
the two running concurrently, as 5442 allows, M4 can miss the installation
altogether and stay held until the next one or the next LINK_DOWN.

`TeardownIsComplete` is about the window from LINK_DOWN's wipe of the CAM to the
end of its teardown; a snapshot `cam_task` took earlier is carried out after it
(`OldOpsDropped`, below).

`LackOnlyUnguarded` says of everybody at work - the receive callback, the task of
`sc_tq`, net80211's thread, `main`, a sysctl handler - that what `Needs` lists for
him is held, whatever the order of steps in attach and detach, with two exceptions
that `Unguarded` names because the code does not see to them:

- `<<"rx", "ic">>`. `rx_one` counts errors in net80211 (2168) and hands it frames
  (2272). Receive is armed in attach, before `ieee80211_ifattach`, and its
  transfers are unset (9943) after `ieee80211_ifdetach` (9912); `rx_one` does not
  look at `sc_ic_attached`. Without this exception TLC finds a violation of seven
  states: a transfer completes during the download.
- `<<"user", "sc_mtx">>`. A handler of `lps_state` sleeps in a USB request with
  `sc_mtx` dropped (and Giant with it) while detach runs to `mtx_destroy` (9967);
  newbus waits for handlers only when it frees the OIDs, after that. Without this
  exception TLC finds a violation at the 88th state. What the handler then does
  with the mutex is undefined; in the model it goes on.

No comment or test of the repository says the contrary (the one at 9890-9895 is
about ioctls, which `destroy_dev` does wait for), so neither is a run of its own.
The property excepts these two pairs and nothing else; a detach that frees the
staging buffer before the transfers (`DetachOrder_early`) breaks it.

## Disagreements between code and comments

Six runs end in a violation; each is a place where a comment promises more
than the code keeps.

- `bulktx_sync`. A synchronous call armed while a management frame is in flight
  on HI: the frame's completion finds `sc_tx_pending` set (2874) and completes
  the call, whose data is never sent. Comments at 982-985 and 2928-2929.
- `bulktx_leak`. The H2C transfer's callback, done with its command, drains the
  management queue (2897) into `sc_tx_mgmt_inflight` while HI's frame is still
  there: HI's frame is never freed. Comment at 1010-1012.
- `keygate_tkip`. A deferred M4 closes the gate (5480); only a CAM install opens
  it, and `key_set` queues one for AES only. Comment at 7446.
- `keygate_lostdown`. `newstate` to RUN takes back a LINK_DOWN still posted
  (4484): old keys, gate and queued operations survive. Comment at 4362-4363.
- `timers_fresh`. `rtw88_fwka_start` returns at once when the keep-alive is
  active (4901), before its resets. After RUN - AUTH - ASSOC - RUN, which posts
  no LINK_DOWN, the stall count and `sc_ra_tighten_fired` are those of the old
  association. Comments at 4904 and 565.
- `coex_lock`. `rtw88_coex_init` takes `sc_mtx` (`rtw88_coex.c:240`), which
  `rtw88_download_firmware` has held since 3599; the mutex is not recursive
  (9661). The comment at 3555-3558 says that `mac_power_on` "runs unlocked;
  safe". A kernel with INVARIANTS panics there on every attach with firmware; one
  without counts the recursion and goes on, which is how `bringup` goes on.

Seen while modelling, without a run:

- Two threads that choose the same box (6898) both advance the index, so the box
  after it is skipped; and the second one may get EBUSY with other boxes free.
  The comment at 6875 calls the boxes round-robined.
- After a failed switch `sc_cur_channel` still names the old channel: going back
  to it returns at once (4561) though registers are partly the new channel's.
  After a calibration that timed out, or whose reset of the sentinel failed, the
  next one may take the old sentinel for its own (4022). `TunedAsAsked` and
  `CalibrationIsFresh` except these cases.
- Without a table blob `rtw88_load_mac_tbl` serves as fallback (8441), but on
  rfe 2 and 4 the replay of the RF table needs the blob and ends
  `phy_set_param` (8244).
- A failed `mac_init` is ignored (9823): net80211 is attached over an H2C queue
  that was never set up, and calibrations time out.
- The two pairs of `Unguarded` (see Runs). The LED callback does register I/O
  that sleeps.
- A synchronous call whose wait timed out just as its transfer completed finds
  `sc_tx_done` set and returns EWOULDBLOCK (2957): its data is out. `BulkTx` gives
  this answer too (`Answers`).
- An `lps_state` written by hand lasts until the next keep-alive tick sends
  ACTIVE again.

`QuietAfterDetach` speaks of timers that were not started again after detach
switched them off. A LINK_UP under way in `post_state_task`, which detach drains
last, or a `reinit_phy` sysctl can do that; the comment at 9924 ("After this no
callout or task references the softc") holds for all others. `Bringup` lets a tick
of such a keep-alive enqueue its task up to `taskqueue_free`, which waits for it;
a tick after that would use a queue that is gone, and is in no module.

`KeyGate` states three more that do not hold and have no run of their own:
`GateCoversInstalls` (two PTK installs queued: the first opens the gate),
`MarkerIsHeld` (cam_task runs between `defer_m4` and `tx_enqueue_locked`: the
marked M4 passes the open gate and the marker stays), `OldOpsDropped` (a
cam_task that has its snapshot carries it out after LINK_DOWN's wipe).

## Proofs

All proofs are for arbitrary constants (any number of threads, registers, keys,
frames, attaches, channels, chunks, errors), under the modules' named
assumptions (`Ep0Assumption`, `BulkTxAssumption`, ...), which say no more than
that bounds are naturals, limits are not zero, the four threads of `Bringup`
differ, the chip has 20 MHz channels, and parameters have their types;
`EfuseAssumption` adds that the map is a whole number of blocks with a protected
tail of at least a byte, and which records can be written at all (a record of the
last eight blocks without a word would be an end mark). Every invariant, action
property and refinement the passing runs check is proved.

`Ep0_proofs` proves `Spec => []IInv` and from it `TypeCorrect`,
`ClaimIsExclusive`, `NobodyStranded`, `NoLostUpdate`, `SealComesFirst`, and the
refinement `CallsAreAtomic`. `OneClaimant` and `UpdateIsCurrent` are not
inductive: that a thread's computed value is still current needs to know that
what it read is current while it holds the claim (`ReadIsCurrent`), that it
waits for the claim only before the first access of a call, never between the
two (`WaitsAtStart`), and that a plain write has its caller's bits
(`WriteIsCallers`); `SealPending` says who may be unsealed. The step lemmas
follow the code: `WakeupOne` for `io_exit`, `LeavePreserves` and
`AccessDonePreserves` for the common tail, then one case per action.

`KeyGate_proofs` proves `TypeCorrect`, `OpsNotLost`, `NothingBehindOpenGate`,
`WipeStaysWiped` and `OpsKeepOrder`. `TeardownIsComplete` needs `TailHasBus`:
between the wipe and the tail the EP0 chain belongs to `post_state_task`.
`OpsInOrder` needs that every operation's number is at most `keyOps`
(`OrderInv`). One lemma per action.

`KeyGate_proofs` also proves `FramesHaveOneOwner` and `DataKeepsOrder`.
`FramesOwned` needs its converse, that only frames handed over are anywhere
(`GivenOnly`). `DataInOrder` needs that what was sent is older than what is held
(`SentOlder`), which lasts because a data frame on its way is Protected
(`DataIsProtected`) and cannot overtake at a closed gate: only the marked M4 loses
that bit, and the marker never names data (`MarkerIsM4`).

`BulkTx_proofs` proves `TypeCorrect`, `DataFramesAreOwned`, `OrderIsKept`,
`CallbackFreesWhatWasSent`, `SlotDisarmed` and `DownloadCanTrustSync`. Ownership,
order and `DataTransferIsInflight` are inductive only together: which frame a
completion frees rests on what the transfer carries, and that it is freed once on
the queue being strictly increasing (`OwnInv`); a data transfer not under way has
nothing in flight (`DataPipesQuiet`), so a start never overwrites the slot.
`AttachSyncIsSafe` speaks of the return; before it, the transfer that is under way
must be the waiting call's and carry its data (`ActiveIsCallers`), the armed slot
must hold it (`PendingIsCallers`), and an answer must disarm the slot
(`AnsweredNotPending`). All of that fails with the first management frame, which
is what `bulktx_sync` shows.

`Timers_proofs` proves `TypeCorrect`, `TimersStayAlive` and
`DetachLeavesNothing`. `QuietAfterDetach` speaks of the last step only; what
makes it true earlier is `OffHolds` (a timer switched off stays off or is in
`late`) and `DrainHolds` (after its first `callout_drain` a callout is neither
pending nor running, or the timer is in `late`). The second argument is that a
task past its entry check looks at `active` again in the same `sc_mtx` section
in which it arms: detach's second `callout_drain` finds nothing to do.

`Chip_proofs` proves of `MbSpec`, the mailbox with any number of boxes and
threads that may call, fail and overlap as they like, `MailboxTypeCorrect`,
`HalvesStayTogether` and `WaitingCommandsKept`, from the invariant `MbInv`.
`CommandsWhole` is not inductive: between its last poll and its message a thread
must own the register bus (`OnTheBus`), its box must still be the empty one it
found (`FoundEmpty`), and before the message the extension in it must be its own
(`ExtensionThere`). The argument is that choosing the same box is harmless,
because the poll that decides is in the same register section as both writes.

`Firmware_proofs` states `FwSpec`, the download and the chip with any layout of the
image, any failures and any number of attaches, and proves `ImageIsThisLifes` and
`MemoryIsWrittenInReset`. That READY means this image (`FwInv`) is a chain: every
chunk copied so far is this attach's or the running checksum of its segment is bad
(`RightSoFar`); nothing is copied behind the driver's back, because the DMA channel
is idle between chunks (`ChannelIdle`) and a copy under way is the current chunk's
(`CopyIsChunk`), a leftover one having been waited for; the CPU is in reset from
`wcpu_disable` to `wcpu_enable` (`HeldInReset`); and the READY bit was cleared
meanwhile (`NotBootedYet`), so it is news (`BootIsNew`).

`Chip_proofs` also states `RadioSpec` and proves `SwitchesAreNotSkipped` and
`SentinelIsOwn`. The early return of `set_channel` compares the cache with what is
asked for; it is right because between switches the cache is what was asked for
(`SettingIsAsked`), only widths the chip has get there (`WidthIsChips`), and a
switch in the mailbox has its registers written (`SwitchIsAsked`).
`CalibrationIsFresh` rests on there being one request or one sentinel, never both
and never two, while the driver polls (`OneSentinel`).

`Bringup_proofs` is about the composition. Three theorems, `MailboxImplemented`,
`RadioImplemented` and `FirmwareImplemented`, say that `Bringup`'s specification
implements `MbSpec`, `RadioSpec` and `FwSpec`: every step of any thread is, seen from
a part, a step of that part or none. This is not by construction: those
specifications let the softc be renewed and power be lost only while no thread is
in the mailbox or at the radio and no download runs, and that nobody is takes the
invariant `HostInv`. `PartsKeepPromises` carries the parts' results over.
`BringupTypeCorrect`, `OnlyUnguardedIsLacked` and `AllIsGivenBack` follow from
`HostInv` too: what is still to be released is a rest of one of the two orders and
contains everything held (`TodoIsRest`); what each phase of attach holds
(`HeldByPhase`); a task has its queue, net80211's thread net80211, the callback
the transfers, a sysctl handler the OIDs, and nobody else is in the mailbox
(`TqHasQueue`, `IcHasIc`, `RxHasTransfer`, `UserHasOids`, `NobodyElse`); where `main` may be in the
mailbox, the download, the initialisation and under the mutex (`MainSends`,
`DownloadIsPhase`, `StageIsPhase`, `LocksHeld`). `LackOnlyUnguarded` during detach
is then a matter of places in the order: whatever a thread still needs comes after
the resource whose release waits for that thread - except in the two pairs of
`Unguarded`, where it comes before. `AllInv` was checked by TLC on the instance of
`bringup`, as were the three refinements, before they were proved.

`Walks_proofs` is about the three loops over data the driver does not control, for
inputs of any length and any contents: the packets of a bulk-IN transfer, the
entries of a PHY table, the bytes of the eFuse. TLC compares each loop with its
reference on a bounded set of inputs; the theorems do it for all.

- *Induction.* The library's induction rules take a predicate as a parameter,
  which no installed prover can instantiate. `SetInduction` states induction for
  a set instead (a set of numbers with 0 and with every successor is all of
  `Nat`), from a least counterexample by well-foundedness of `<`;
  `TurnInduction` bounds it by a number of turns; `Recursion` gives from it that
  a loop of N turns over a set of states has a function from turns to states, so
  that the `CHOOSE` behind a recursive function definition finds one. Each loop
  then has a lemma with its defining equations (`RxWalkDef`, `PhyWalkDef`,
  `TurnsDef`), and so do the recursive references (`AfterDef`,
  `BranchEntriesDef`, `BytesDef`).
- *`AggregateWalk`.* The invariant `RxInv`: as long as the loop has not stopped its
  offset is where the reference puts the end of the packets so far, aligned, and
  every one of them lies inside the transfer; once it has stopped, the packet at
  which it did does not fit. The comparison that matters is of a packet's
  unaligned end with `actlen`: the aligned offset may exceed it, which ends the
  loop and loses nothing.
- *`TableWalk`.* A run of plain entries is applied whole or not at all
  (`PlainWalk`), a branch sets `matched` and `skipped` as its condition says
  (`BranchWalk`), after n branches the first one that holds has been applied
  (`BranchesWalk`), and a block leaves the state in which plain entries are
  applied (`BlockWalk`), so that what follows it is not lost.
- *`EfuseStaysInside`.* Every turn ends the walk or consumes a byte
  (`RecordGoes`), so it ends for any bytes; every index is below the size: the
  second header byte is looked at before the tail is, which the protected tail of
  at least one byte makes harmless.
- *`EfuseLayout`.* `HeaderReads`: the two header forms are told apart and give back
  block and word mask for each of the 128 blocks; `WordLays` and `RecordLays`: a
  turn at a record stores exactly its words at exactly their places, or refuses
  for one of the two reasons; the invariant `Walked`: after n turns the walk has n
  records behind it and each byte of the logical map is that of the last of them
  that has it (`Reading`), or it has refused a map that does not fit, or it is at
  the end with the map laid out.

`EfuseAlwaysRight`, `TablesAlwaysRight` and `AggregatesAlwaysRight` of
`Bringup_proofs` say it of the properties `bringup` checks.

Only model-checked, because TLAPS does not reach them: the liveness properties
(`CallsReturn` twice, `QueuesDrain`, `M4Encrypted`, `HeldFramesReleased`,
`KeyOpsExecute`, `KeepAliveTicks`), which need fairness and ENABLED.

## Abstractions and limits

- Ep0: a register is a set of bits, widths and byte order are left out; the
  write trace (1440-1493) is diagnostics.
- BulkTx: frame contents and TX descriptors are left out; `drain_q`'s branch for
  a bad length cannot be reached, since `tx_enqueue_locked` refuses such frames.
  Multi-packet firmware download is a sequence of synchronous calls.
- KeyGate: the data queues behind the gate are never full (that is BulkTx's
  question), the allocation failure in `maybe_upgrade_eapol_qos` is left out,
  INIT counts as SCAN, one GTK slot stands for four, and LINK_UP's register and
  H2C traffic does not touch this state. A move RUN to AUTH posts no LINK_DOWN,
  as in the code.
- Timers: DIG's gain computation and the firmware commands of a tick are left
  out, as are scan start and end; the debug knob `sc_linkup_skip` is 0; INIT
  counts as SCAN; the POST_BSSID work of `post_state_task` is register I/O only.
  The stall count saturates at `StallAfter` instead of 255. After
  `taskqueue_free` nothing of `sc_tq` runs.
- Mailbox: payloads are command names; `DELAY` in the poll keeps `sc_mtx`.
- Radio: the groups of a switch that succeeds are one step, since only the `ic`
  thread works on these registers; the calibration's report of failed paths is
  logged only. Register values of channels, bands and power are data.
- Firmware: a flow of the power sequence is one step that lands whole, part way
  or not at all; the chip's checksum finds every garbled chunk; memory does not
  decay. `PowerLost` and the boot ROM are external.
- ChipInit: values written are data; a part is complete or not.
- RxPath: lengths are in small units (descriptor 3, alignment 2, FCS 1); C2H
  contents, PHY status, CCMP strip and radiotap are per-frame data. A transfer
  longer than its buffer cannot complete, so the exit that would leave receive
  unarmed (2298) is not taken.
- Bringup: one thread at a time writes a sysctl, and `lps_state` is the modelled
  one (Giant would let a second one in while the first sleeps); transmit, keys
  and timers are in their own modules; the eFuse dump fails as a whole; nothing
  calls `rtw88_h2c_keep_alive`, `rtw88_lps_enter` or `rtw88_ps_notify`.
- Not modelled: `rtw88_regd.c` (a table and a clamp whose result nothing uses:
  transmit power is written as constants), `rtw88_led.c` and `rtw88_debug.c`
  (one write per call, counters), `rtw88_bf.c` (flags nothing reads back),
  `if_rtw88_pci.c` (probe and register access; H2C and interrupts are stubs),
  `scan_start`/`scan_end`'s save of the gain, the peek, poke, stats and
  `reinit_phy` sysctls, the tables' contents.
- All counters of frames, calls, keys, errors and losses are bounds of the
  model, named in the modules' CONSTANTS.

## Plan

1. Done: `Ep0`, `BulkTx`, `KeyGate`, `Timers`, `Bringup` with its parts; proofs
   of every safety property the runs check, the three walks' for inputs of any
   length.
2. `Timers` extended with scan start and end and DIG's gain.
