------------------------------- MODULE Bringup -------------------------------
(***************************************************************************)
(* The driver from attach to detach, and again: the thread that attaches   *)
(* and detaches it (`main'), net80211's thread (`ic'), the thread of sc_tq *)
(* (`tq'), one that writes a sysctl (`user'), the receive callback and the *)
(* chip, whose registers, memory and firmware outlive each attach.         *)
(*                                                                         *)
(* The parts are Firmware, ChipInit, Mailbox, Radio and RxPath; this       *)
(* module adds what binds them: the order of attach, the resources each    *)
(* thread works with, the order in which they are given back.              *)
(***************************************************************************)
EXTENDS Radio, Firmware, ChipInit, RxPath, Efuse, PhyTable

CONSTANTS
    main, user,     \* the other two of Senders
    LinkupSkip,     \* commands sc_linkup_skip disables
    Budgets,        \* bounds, one of which holds in a behaviour: attaches,
                    \* failed accesses during attach and after it, and `work':
                    \* tasks, sysctl writes and calls of set_channel
    MaxFrames       \* bound: frames of one transfer handed to net80211

ASSUME BringupAssumption ==
    /\ main \in Senders \ {ic, tq} /\ user \in Senders \ {ic, tq, main}
    /\ LinkupSkip \subseteq Commands
    /\ MaxFrames \in Nat
    /\ Budgets \subseteq [lives : 0 .. MaxLives, attach : Nat, after : Nat,
                          work : Nat]

VARIABLES
    phase,      \* where main is
    todo,       \* what it still has to give back
    held,       \* resources the softc owns
    job,        \* what the running task of sc_tq has still to do
    budget      \* what is left of the bounds

hostVars == <<phase, todo, held>>
allVars == <<phase, todo, held, job, budget, mbVars, radioVars, fwVars,
             initVars, rx>>

Base == {"sc_mtx", "sc_tq", "sc_cam_tq", "sc_tx_cv", "sc_tx_buf", "sc_rx_stage"}

(* "tasks": net80211 and the driver's callouts may enqueue tasks.  "oids": *)
(* the sysctls, which hang off a context of newbus.                        *)
Resources == Base \cup {"sc_fw", "xfers", "sc_tbl", "ic", "tasks", "cdev", "oids"}

Phases == {"gone", "cfg", "fw", "endpoints", "xfers", "download", "chip",
           "up", "undo", "detach"}

TypeOK ==
    /\ MbTypeOK /\ RadioTypeOK /\ FwTypeOK /\ InitTypeOK /\ RxTypeOK
    /\ phase \in Phases /\ held \subseteq Resources
    /\ todo \in Seq(Resources)
    /\ job \in Seq(Commands \cup {"IQK"})
    /\ budget \in [lives : Nat, attach : Nat, after : Nat, work : Nat]

Init ==
    /\ MbInit /\ RadioInit /\ FwInit /\ InitInit /\ RxInit
    /\ phase = "gone" /\ todo = <<>> /\ held = {} /\ job = <<>>
    /\ budget \in Budgets

Spend(what) == budget[what] > 0 /\ budget' = [budget EXCEPT ![what] = @ - 1]

(* Few accesses fail.                                                      *)
Fault(out) ==
    IF out = "ok" THEN UNCHANGED budget
    ELSE Spend(IF phase \in {"up", "detach"} THEN "after" ELSE "attach")

-----------------------------------------------------------------------------
(* Order of release.                                                       *)

(* Mutant: the firmware image is forgotten.                                *)
UndoOrder_leak ==
    <<"xfers", "sc_tx_buf", "sc_rx_stage", "sc_cam_tq", "sc_tq", "sc_tx_cv",
      "sc_mtx">>

(* The tail of rtw88_usb_attach.                                           *)
UndoOrder ==
    <<"xfers", "sc_fw", "sc_tx_buf", "sc_rx_stage", "sc_cam_tq", "sc_tq",
      "sc_tx_cv", "sc_mtx">>

(* Mutant: the staging buffer goes before the transfer that fills it.      *)
DetachOrder_early ==
    <<"cdev", "ic", "tasks", "sc_cam_tq", "sc_tq", "sc_rx_stage",
      "xfers", "sc_tbl", "sc_fw", "sc_tx_buf", "sc_tx_cv", "sc_mtx", "oids">>

(* rtw88_usb_detach, and newbus, which frees the sysctls after it.         *)
DetachOrder ==
    <<"cdev", "ic", "tasks", "sc_cam_tq", "sc_tq", "xfers", "sc_tbl",
      "sc_fw", "sc_tx_buf", "sc_rx_stage", "sc_tx_cv", "sc_mtx", "oids">>

IcBusy == Switching \/ Sending(ic)
TqBusy == job # <<>> \/ Sending(tq) \/ Calibrating

(* One resource is given back.  ieee80211_ifdetach waits for net80211's    *)
(* thread, the drains and taskqueue_free for the tasks,                    *)
(* usbd_transfer_unsetup for the callback, newbus for sysctl handlers.     *)
GiveBack ==
    /\ phase \in {"undo", "detach"}
    /\ LET r == Head(todo)
       IN  /\ r = "ic" => ~IcBusy
           /\ r \in {"tasks", "sc_tq"} => ~TqBusy
           /\ r = "oids" => ~Sending(user)
           /\ IF r = "xfers" THEN RxUnsetup ELSE UNCHANGED rx
           /\ held' = held \ {r}
    /\ todo' = Tail(todo)
    /\ phase' = IF Len(todo) = 1 THEN "gone" ELSE phase
    /\ UNCHANGED <<job, budget, mbVars, radioVars, fwVars, initVars>>

Undo == phase' = "undo" /\ todo' = UndoOrder

detach ==
    /\ phase = "up" /\ phase' = "detach" /\ todo' = DetachOrder
    /\ UNCHANGED <<held, job, budget, mbVars, radioVars, fwVars, initVars, rx>>

-----------------------------------------------------------------------------
(* rtw88_usb_attach up to the download.                                    *)

(* A device without a chip spec is refused before anything is allocated.   *)
(* The softc is new: its copies of chip state start from zero, the chip    *)
(* does not.                                                               *)
attach(known) ==
    /\ phase = "gone" /\ Spend("lives") /\ life' = life + 1
    /\ IF known
       THEN phase' = "cfg" /\ held' = Base /\ depth' = depth + 1
       ELSE UNCHANGED <<phase, held, depth>>
    /\ NewSoftc /\ sc_cur_channel' = 0 /\ sc_cur_bw' = "20"
    /\ asked' = Unset /\ failed' = FALSE
    /\ cal' = [pc |-> "no", try |-> 0, ok |-> FALSE]
    /\ stage' = "no" /\ sc_rfe_option' = 0 /\ dl' = "no" /\ error' = FALSE
    /\ UNCHANGED <<todo, job, tuned, switch, iqk, dtxlok, unclean,
                   chunk, chipVars, inited, rx>>

(* REG_SYS_CFG1 and REG_SYS_CFG2.                                          *)
ReadSysCfg(out) ==
    /\ phase = "cfg" /\ Fault(out)
    /\ depth' = depth - 1
    /\ IF out = "ok" THEN phase' = "fw" /\ UNCHANGED todo ELSE Undo
    /\ UNCHANGED <<held, job, mbVars, radioVars, life, dl, chunk, error,
                   chipVars, initVars, rx>>

(* rtw88_fw_acquire: an image that is missing, too small or for another    *)
(* chip is not kept; attach goes on without.                               *)
fw_acquire(got) ==
    /\ phase = "fw" /\ phase' = "endpoints"
    /\ held' = IF got THEN held \cup {"sc_fw"} ELSE held
    /\ UNCHANGED <<todo, job, budget, mbVars, radioVars, fwVars, initVars, rx>>

(* At least one bulk-OUT endpoint is needed.                               *)
discover_endpoints(bulk_out) ==
    /\ phase = "endpoints"
    /\ IF bulk_out THEN phase' = "xfers" /\ UNCHANGED todo ELSE Undo
    /\ UNCHANGED <<held, job, budget, mbVars, radioVars, fwVars, initVars, rx>>

(* Receive is armed at once, long before there is a net80211.              *)
xfers_setup(ok) ==
    /\ phase = "xfers"
    /\ IF ok THEN /\ phase' = "download" /\ held' = held \cup {"xfers"}
                  /\ RxArm /\ UNCHANGED todo
       ELSE Undo /\ UNCHANGED <<held, rx>>
    /\ UNCHANGED <<job, budget, mbVars, radioVars, fwVars, initVars>>

-----------------------------------------------------------------------------
(* The download.                                                           *)

BeginDownload(usable) ==
    /\ phase = "download" /\ dl = "no"
    /\ usable => "sc_fw" \in held
    /\ download_firmware(usable)
    /\ phase' = IF usable THEN "download" ELSE "up"
    /\ UNCHANGED <<todo, held, job, budget, life, mbVars, radioVars, initVars, rx>>

(* Without power the mailbox, the radio and the MAC forget as well.        *)
PowerOff(out) ==
    /\ mac_power_off(out) /\ Fault(out)
    /\ IF power' = "off"
       THEN /\ Forget
            /\ tuned' = [g \in DOMAIN tuned |-> Unset]
            /\ iqk' = 0 /\ dtxlok' = FALSE
            /\ unclean' = FALSE /\ inited' = {}
       ELSE UNCHANGED <<mbVars, tuned, iqk, dtxlok, unclean, inited>>
    /\ UNCHANGED <<hostVars, job, life, sc_cur_channel, sc_cur_bw, switch, asked, failed, cal, stage,
                   sc_rfe_option, rx>>

(* A step of the download that touches nothing else.                       *)
DownloadStep(out) ==
    /\ \/ \E on \in BOOLEAN : mac_currently_on(out, on)
       \/ mac_power_up_once(out)
       \/ wcpu_disable(out)
       \/ dlfw_prep_chip(out)
       \/ reset_platform(out)
       \/ Arm(out)
       \/ SegmentBegin(out)
       \/ StagePage(out)
       \/ SendPacket(out)
       \/ StartDdma(out)
       \/ segment_checksum_ack(out)
       \/ CheckSums(out)
       \/ CloseWindow(out)
       \/ wcpu_enable(out)
    /\ Fault(out)
    /\ UNCHANGED <<hostVars, job, life, mbVars, radioVars, initVars, rx>>

DownloadWait ==
    /\ CoexLock \/ CoexUnlock \/ AwaitPage \/ AwaitIdle \/ AwaitCopy \/ AwaitReady
    /\ UNCHANGED <<hostVars, job, budget, life, mbVars, radioVars, initVars, rx>>

(* The coexistence pair of rtw88_coex_init, before any firmware runs.      *)
CoexPair(from, c, to) ==
    /\ dl = from /\ Goto(to) /\ Call(main, c)
    /\ UNCHANGED <<hostVars, job, budget, life, depth, chipVars, radioVars,
                   initVars, rx>>

CoexEnd ==
    /\ dl = "coex end" /\ ~Sending(main) /\ Goto("cpu off")
    /\ UNCHANGED <<hostVars, job, budget, life, depth, chipVars, mbVars,
                   radioVars, initVars, rx>>

(* A download that fails leaves the device attached, without net80211.     *)
EndDownload ==
    /\ DownloadReturns("no")
    /\ phase' = IF error THEN "up" ELSE "chip"
    /\ stage' = IF error THEN stage ELSE "efuse"
    /\ UNCHANGED <<todo, held, job, budget, life, mbVars, radioVars, inited,
                   sc_rfe_option, rx>>

-----------------------------------------------------------------------------
(* The chip's initialisation, and net80211.                                *)

ChipStep(out) ==
    /\ phase = "chip"
    /\ \/ efuse_read(out)
       \/ txdma_queue_mapping(out)
       \/ priority_queue_cfg(out)
       \/ init_h2c(out)
       \/ mac_init_8821c(out)
       \/ drv_info_cfg(out)
       \/ usb_init_burst(out)
       \/ MacTail(out)
       \/ PowerBaseband(out)
       \/ BtgReplay(out, "sc_tbl" \in held)
       \/ CommitBaseband(out)
       \/ bf_phy_init(out)
    /\ Fault(out)
    /\ UNCHANGED <<hostVars, job, mbVars, radioVars, fwVars, rx>>

InfoStep ==
    /\ phase = "chip" /\ InfoPackets
    /\ UNCHANGED <<hostVars, job, budget, mbVars, radioVars, fwVars, rx>>

(* rtw88_phy_acquire_tbl: the blob stays until detach; without it (which   *)
(* counts as a fault) the MAC table is a built-in one.                     *)
TablesStep(out, blob) ==
    /\ phase = "chip" /\ LoadTables(out)
    /\ LET faults == (IF out = "ok" THEN 0 ELSE 1) + (IF blob THEN 0 ELSE 1)
       IN  /\ budget.attach >= faults
           /\ budget' = [budget EXCEPT !.attach = @ - faults]
    /\ held' = IF blob THEN held \cup {"sc_tbl"} ELSE held
    /\ UNCHANGED <<phase, todo, job, mbVars, radioVars, fwVars, rx>>

MacPair(from, c, to) ==
    /\ stage = from /\ stage' = to /\ Call(main, c)
    /\ UNCHANGED <<hostVars, job, budget, radioVars, fwVars, inited,
                   sc_rfe_option, rx>>

MeterStep ==
    /\ ~Sending(main) /\ ThermalMeter
    /\ UNCHANGED <<hostVars, job, budget, mbVars, radioVars, fwVars, rx>>

(* rtw88_net80211_attach cannot fail.  "cdev" stands for what it and       *)
(* rtw88_led_attach leave in /dev; a node that could not be made is one    *)
(* that need not be destroyed.                                             *)
net80211_attach ==
    /\ phase = "chip" /\ stage = "done" /\ phase' = "up"
    /\ held' = held \cup {"ic", "tasks", "cdev", "oids"}
    /\ UNCHANGED <<todo, job, budget, mbVars, radioVars, fwVars, initVars, rx>>

(* rtw88_lps_state_sysctl, by a thread of its own: nothing in detach waits *)
(* for it.  After its command it only releases sc_mtx.  (What it does with *)
(* a mutex that is gone is undefined; here it goes on.)                    *)
lps_state(c) ==
    /\ "oids" \in held /\ Spend("work") /\ Call(user, c)
    /\ UNCHANGED <<hostVars, job, radioVars, fwVars, initVars, rx>>

-----------------------------------------------------------------------------
(* The other threads, and the steps any sender takes in the mailbox.       *)

(* A section goes on after a command of a task that has another to send,   *)
(* unless pages are uploaded first (rtw88_bulk_tx_sync gives sc_mtx up),   *)
(* and after set_channel's.  main, inside attach, has the chip to itself.  *)
More(s) == s = ic \/ (s = tq /\ job # <<>> /\ Head(job) # "RSVD_PAGE")

MailboxStep(s, out) ==
    /\ Step(s, out, More(s)) /\ Fault(out)
    /\ UNCHANGED <<hostVars, job, radioVars, fwVars, initVars, rx>>

MailboxEnd(s) ==
    /\ Advance(s, More(s))
    /\ UNCHANGED <<hostVars, job, budget, radioVars, fwVars, initVars, rx>>

(* LINK_UP: coexistence again, then what sc_linkup_skip leaves.            *)
LinkUp ==
    LET Unless(c) == IF c \in LinkupSkip THEN <<>> ELSE <<c>>
    IN  <<"BT_WIFI_CONTROL", "COEX_TDMA_TYPE">>
        \o Unless("RA_INFO") \o Unless("MEDIA_STATUS") \o Unless("PWR_ACTIVE")
        \o Unless("RSVD_PAGE") \o Unless("DEFAULT_PORT")

(* post_state_task, a keep-alive tick (one per link has RA_INFO as well),  *)
(* prepare_tx_task.                                                        *)
Jobs == {LinkUp, <<"MEDIA_STATUS">>, <<"PWR_ACTIVE">>,
         <<"PWR_ACTIVE", "RA_INFO">>, <<"IQK">>}

(* A keep-alive that LINK_UP started behind the drains (see Timers) still  *)
(* enqueues its task.                                                      *)
KeepAlives == {<<"PWR_ACTIVE">>, <<"PWR_ACTIVE", "RA_INFO">>}

TqBegin ==
    /\ ~TqBusy /\ {"sc_tq", "oids"} \subseteq held /\ Spend("work")
    /\ \E j \in IF "tasks" \in held THEN Jobs ELSE KeepAlives : job' = j
    /\ UNCHANGED <<hostVars, mbVars, radioVars, fwVars, initVars, rx>>

(* The next command; its result is ignored.                                *)
TqSend ==
    /\ job # <<>> /\ Head(job) # "IQK" /\ Call(tq, Head(job)) /\ job' = Tail(job)
    /\ UNCHANGED <<hostVars, budget, radioVars, fwVars, initVars, rx>>

(* Each access is a section of its own: the bulk path and the pauses       *)
(* between polls give sc_mtx up.  (The reset follows the poll that found   *)
(* the sentinel at once; a step in between does no harm.)                  *)
TqCalibrate(out) ==
    /\ bus = None
    /\ \/ job # <<>> /\ Head(job) = "IQK" /\ calibration(out) /\ job' = Tail(job)
       \/ CalPoll(out) /\ UNCHANGED job
       \/ CalReset(out) /\ UNCHANGED job
       \/ out = "ok" /\ CalReturn /\ UNCHANGED job
    /\ Fault(out)
    /\ UNCHANGED <<hostVars, mbVars, switchVars, fwVars, initVars, rx>>

IcBegin ==
    /\ "ic" \in held /\ Spend("work")
    /\ \E c \in Channels, w \in Widths : set_channel(c, w)
    /\ UNCHANGED <<hostVars, job, mbVars, calVars, fwVars, initVars, rx>>

IcRegisters ==
    /\ SwitchRegisters
    /\ UNCHANGED <<hostVars, job, budget, calVars, fwVars, initVars, rx>>

IcFails(n) ==
    /\ SwitchFails(n) /\ Spend("after")
    /\ UNCHANGED <<hostVars, job, mbVars, calVars, fwVars, initVars, rx>>

IcDone ==
    /\ SwitchDone
    /\ UNCHANGED <<hostVars, job, budget, calVars, fwVars, initVars, rx>>

(* usbd_transfer_unsetup stops the transfer before it waits.               *)
RxBegin ==
    /\ "xfers" \in held /\ ~(todo # <<>> /\ Head(todo) = "xfers")
    /\ (\E n \in 0 .. MaxFrames : RxTransferred(n)) \/ RxError
    /\ UNCHANGED <<hostVars, job, budget, mbVars, radioVars, fwVars, initVars>>

RxStep ==
    /\ RxInputDone
    /\ UNCHANGED <<hostVars, job, budget, mbVars, radioVars, fwVars, initVars>>

(* The chip, its firmware included: it takes commands only while it runs.  *)
Running == cpu /\ booted # 0

ChipMemory(garbled) ==
    /\ ChipStores(garbled) \/ ChipCopies \/ ChipBoots
    /\ UNCHANGED <<hostVars, job, budget, life, mbVars, radioVars, initVars, rx>>

FirmwareTakes ==
    /\ Running /\ \E b \in Boxes : FwTake(b)
    /\ UNCHANGED <<hostVars, job, budget, radioVars, fwVars, initVars, rx>>

FirmwareCalibrates ==
    /\ Running /\ "h2cq" \in inited /\ FwCalibrate
    /\ UNCHANGED <<hostVars, job, budget, mbVars, switchVars, fwVars, initVars, rx>>

-----------------------------------------------------------------------------

(* main inside attach or detach: all but the decision to begin.            *)
MainStep ==
    \/ GiveBack
    \/ \E out \in Outcomes :
          \/ ReadSysCfg(out) \/ PowerOff(out) \/ DownloadStep(out)
          \/ ChipStep(out) \/ MailboxStep(main, out)
          \/ \E blob \in BOOLEAN : TablesStep(out, blob)
    \/ \E yes \in BOOLEAN :
          fw_acquire(yes) \/ discover_endpoints(yes) \/ xfers_setup(yes)
          \/ BeginDownload(yes)
    \/ DownloadWait \/ CoexEnd \/ EndDownload \/ InfoStep \/ MeterStep
    \/ CoexPair("coex bt", "BT_WIFI_CONTROL", "coex tdma")
    \/ CoexPair("coex tdma", "COEX_TDMA_TYPE", "coex end")
    \/ MacPair("bt", "BT_WIFI_CONTROL", "tdma")
    \/ MacPair("tdma", "COEX_TDMA_TYPE", "meter")
    \/ net80211_attach
    \/ MailboxEnd(main)

TqStep ==
    \/ TqSend \/ MailboxEnd(tq)
    \/ \E out \in Outcomes : TqCalibrate(out) \/ MailboxStep(tq, out)

IcStep ==
    \/ IcRegisters \/ IcDone \/ MailboxEnd(ic)
    \/ \E n \in DOMAIN Groups : IcFails(n)
    \/ \E out \in Outcomes : MailboxStep(ic, out)

UserStep == MailboxEnd(user) \/ \E out \in Outcomes : MailboxStep(user, out)

Chip == (\E garbled \in BOOLEAN : ChipMemory(garbled))
        \/ FirmwareTakes \/ FirmwareCalibrates

Next ==
    \/ \E known \in BOOLEAN : attach(known)
    \/ detach \/ \E c \in {"PWR_ACTIVE", "PWR_LPS"} : lps_state(c)
    \/ MainStep \/ TqBegin \/ TqStep \/ IcBegin \/ IcStep \/ UserStep
    \/ RxBegin \/ RxStep \/ Chip

(* A thread or callback that can go on does so.  Nothing is asked of the   *)
(* chip, and nobody has to attach, detach or send.                         *)
Fairness == WF_allVars(MainStep) /\ WF_allVars(TqStep)
            /\ WF_allVars(IcStep) /\ WF_allVars(UserStep)
            /\ WF_allVars(RxStep)

Spec == Init /\ [][Next]_allVars /\ Fairness

-----------------------------------------------------------------------------

(* Who works with what, and whom nobody waits for: rtw88_rx_one uses       *)
(* net80211 (its counters, 2168, and ieee80211_input_mimo_all, 2272)       *)
(* though receive starts before net80211 is there and ends after it is     *)
(* gone; a sysctl handler asleep in its USB request may find sc_mtx        *)
(* destroyed.                                                              *)
Needs ==
    [rx |-> {"sc_mtx", "sc_rx_stage", "xfers", "ic"},
     tq |-> {"sc_mtx", "sc_tq"},
     ic |-> {"sc_mtx", "ic"},
     main |-> {"sc_mtx"},
     user |-> {"oids", "sc_mtx"}]
Unguarded == {<<"rx", "ic">>, <<"user", "sc_mtx">>}

AtWork ==
    [rx |-> InCallback, tq |-> TqBusy, ic |-> IcBusy,
     main |-> Sending(main) \/ depth > 0, user |-> Sending(user)]

(* Whoever is at work lacks nothing he works with - but for the two pairs  *)
(* of Unguarded, where the code does not see to it: the callback keeps its *)
(* staging buffer, transfers and mutex, a task (a late keep-alive's, too)  *)
(* its queue and mutex, net80211's thread net80211 and the mutex, a sysctl *)
(* handler the softc, whatever the order of steps in attach and detach.    *)
LackOnlyUnguarded ==
    \A u \in DOMAIN Needs : AtWork[u] =>
        \A r \in Needs[u] : r \in held \/ <<u, r>> \in Unguarded

(* A detached device, or one whose attach failed at whatever point, owns   *)
(* nothing, and no thread or callback of it is left.                       *)
NothingLeft ==
    phase = "gone" =>
        /\ held = {} /\ rx.at = "none" /\ depth = 0
        /\ ~TqBusy /\ ~IcBusy /\ ~Sending(user)

(* The mutex is not taken by the thread that owns it: sc_mtx is MTX_DEF    *)
(* without MTX_RECURSE, and the comment at rtw88_mac_power_on's call of    *)
(* rtw88_coex_init says it "runs unlocked; safe".                          *)
LockNotRecursed == depth \in {0, 1}

(* attach, detach and sysctl writes return, whatever fails and however     *)
(* long the chip takes: each wait of theirs has a limit, or ends with      *)
(* another thread's work.                                                  *)
CallsReturn ==
    /\ phase \notin {"up", "gone"} ~> phase \in {"up", "gone"}
    /\ Sending(user) ~> ~Sending(user)

(* rtw88_efuse_logical_walk, on the inputs of the instance: every record   *)
(* list that fits is laid out as the reference says, and no map makes it   *)
(* read or write outside its buffers.                                      *)
EfuseRight == life = 0 => EfuseWalkRight

(* rtw88_phy_walk_table, on the inputs of the instance: of every block the *)
(* first branch whose condition the device meets is applied, or the ELSE,  *)
(* in order, and nothing else.                                             *)
TablesRight == life = 0 => TableWalkRight

(* The aggregate loop of rtw88_bulk_rx_cb, on the inputs of the instance:  *)
(* the packets handed on lie inside the transfer and do not overlap, and   *)
(* none that arrived whole is missed.                                      *)
AggregatesRight == life = 0 => AggregateWalkRight
=============================================================================
