--------------------------- MODULE Bringup_proofs ---------------------------
(***************************************************************************)
(* The driver as a whole: each part of Bringup behaves as the              *)
(* specification its own proofs are about, and what its threads may lack   *)
(* while they are at work is what Unguarded names, nothing more.           *)
(***************************************************************************)
EXTENDS Bringup, Chip_proofs, Firmware_proofs, Walks_proofs, SequenceTheorems

Releasing == {"undo", "detach"}
Attaching == {"cfg", "fw", "endpoints", "xfers", "download", "chip"}

(* What is still to be given back is the rest of one of the two orders,    *)
(* and of what is held nothing is missing there.                           *)
OrderOf == [undo |-> UndoOrder, detach |-> DetachOrder]
RestFrom(order, i) ==
    /\ todo = SubSeq(order, i, Len(order))
    /\ held \subseteq {order[j] : j \in i .. Len(order)}
    /\ \A j \in i .. Len(order) : order[j] \in Base => order[j] \in held
TodoIsRest ==
    /\ phase \in Releasing =>
           \E i \in DOMAIN OrderOf[phase] : RestFrom(OrderOf[phase], i)
    /\ phase \notin Releasing => todo = <<>>

(* What is held where attach is.                                           *)
HeldByPhase ==
    /\ phase = "gone" => held = {}
    /\ phase \in Attaching \cup {"up"} => Base \subseteq held
    /\ phase \in {"cfg", "fw", "endpoints", "xfers"} => "xfers" \notin held
    /\ phase \in {"download", "chip", "up"} => "xfers" \in held
    /\ phase \in Attaching \cup {"undo"} =>
           held \cap {"ic", "tasks", "cdev", "oids"} = {}
    /\ phase \in (Attaching \cup {"undo"}) \ {"chip"} => "sc_tbl" \notin held

(* Who may be at work.                                                     *)
RxHasTransfer == ("xfers" \in held <=> rx.at # "none")
                 /\ (InCallback => rx.left > 0)
TqHasQueue == TqBusy => {"sc_tq", "oids"} \subseteq held
IcHasIc == IcBusy => "ic" \in held
UserHasOids == Sending(user) => "oids" \in held
MainSends ==
    Sending(main) =>
        \/ phase = "download" /\ dl \in {"coex tdma", "coex end"}
        \/ phase = "chip" /\ stage \in {"tdma", "meter"}
NobodyElse == \A s \in Senders \ {main, ic, tq, user} : ~Sending(s)

(* Where main is, as its parts see it.                                     *)
DownloadIsPhase == dl # "no" => phase = "download"
StageIsPhase ==
    /\ stage \notin {"no", "done"} => phase = "chip"
    /\ phase = "chip" => stage # "no"
    /\ phase \in Attaching \ {"chip"} => stage = "no"
LocksHeld ==
    /\ dl = "coex regs" => depth = 2
    /\ dl \notin {"no", "coex regs"} \/ phase = "cfg" => depth = 1
    /\ dl = "no" /\ phase # "cfg" => depth = 0
NothingAsked == phase \in Attaching => asked = Unset

HostTypes ==
    /\ phase \in Phases /\ held \subseteq Resources
    /\ todo \in Seq(Resources)
    /\ job \in Seq(Commands \cup {"IQK"})
    /\ budget \in [lives : Nat, attach : Nat, after : Nat, work : Nat]
    /\ life + budget.lives <= MaxLives

HostInv ==
    /\ HostTypes /\ InitTypeOK /\ RxTypeOK
    /\ TodoIsRest /\ HeldByPhase
    /\ RxHasTransfer /\ TqHasQueue /\ IcHasIc /\ UserHasOids /\ MainSends /\ NobodyElse
    /\ DownloadIsPhase /\ StageIsPhase /\ LocksHeld /\ NothingAsked

(* The driver's invariant and those of its parts.                          *)
AllInv == HostInv /\ MbInv /\ RadioInv /\ FwInv

-----------------------------------------------------------------------------
(* The four threads.                                                       *)
LEMMA ThreadNames ==
    /\ main \in Senders /\ ic \in Senders /\ tq \in Senders /\ user \in Senders
    /\ main # ic /\ main # tq /\ ic # tq
    /\ user # main /\ user # ic /\ user # tq
  BY BringupAssumption, RadioAssumption

(* The commands the driver sends are commands.                             *)
LEMMA CommandNames ==
    {"BT_WIFI_CONTROL", "COEX_TDMA_TYPE", "WL_CH_INFO", "MEDIA_STATUS",
     "DEFAULT_PORT", "RA_INFO", "RSVD_PAGE", "PWR_ACTIVE", "PWR_LPS"} \subseteq Commands
  BY DEF Commands, ExtOf

(* A thread enters rtw88_h2c_mailbox; the others stay where they are.      *)
LEMMA Entering ==
    ASSUME MbTypeOK, NEW s \in Senders, NEW c, Enter(s, c)
    PROVE  /\ ~Sending(s) /\ Sending(s)'
           /\ \A t \in Senders \ {s} : Sending(t)' <=> Sending(t)
  BY DEF MbTypeOK, Enter, Sending

(* A step inside the function is one of a thread that is in it.            *)
LEMMA Stepping ==
    ASSUME MbTypeOK, NEW s \in Senders, NEW out, NEW more,
           Step(s, out, more) \/ Advance(s, more)
    PROVE  /\ Sending(s)
           /\ \A t \in Senders \ {s} : Sending(t)' <=> Sending(t)
  <1>1. Sending(s)
    BY DEF Step, Poll, WriteExt, WriteMsg, Advance, Sending
  <1>2. \A t \in Senders \ {s} : send'[t] = send[t]
    BY DEF MbTypeOK, Step, Poll, WriteExt, WriteMsg, Advance, Return, Goes
  <1> QED BY <1>1, <1>2 DEF Sending

(* Nobody is in the mailbox, the radio or the tasks before net80211 is     *)
(* there, but main where it says so.                                       *)
LEMMA Alone ==
    ASSUME HostInv, phase \in Attaching \cup {"gone"}
    PROVE  /\ ~TqBusy /\ ~IcBusy /\ ~Switching /\ ~Calibrating
           /\ \A s \in Senders \ {main} : ~Sending(s)
  <1>1. "ic" \notin held /\ "oids" \notin held
    BY DEF HostInv, HeldByPhase
  <1>2. ~TqBusy /\ ~IcBusy /\ ~Sending(user)
    BY <1>1 DEF HostInv, TqHasQueue, IcHasIc, UserHasOids
  <1> QED BY <1>2 DEF TqBusy, IcBusy, HostInv, NobodyElse

(* A job is made of commands and calibrations.                             *)
LEMMA JobHead ==
    ASSUME HostInv, job # <<>>
    PROVE  /\ Head(job) \in Commands \cup {"IQK"}
           /\ Tail(job) \in Seq(Commands \cup {"IQK"})
  <1> DEFINE S == Commands \cup {"IQK"}
  <1>1. job \in Seq(S)
    BY DEF HostInv, HostTypes
  <1> HIDE DEF S
  <1>2. Head(job) \in S /\ Tail(job) \in Seq(S)
    BY <1>1
  <1> QED BY <1>2 DEF S

-----------------------------------------------------------------------------
(* Each part, as the others see it.                                        *)

(* Whatever the driver does, the mailbox takes a step of its own.          *)
LEMMA MailboxRefined ==
    ASSUME HostInv, [Next]_allVars
    PROVE  [MbNext]_mbVars
  <1>1. ASSUME NEW known \in BOOLEAN, attach(known) PROVE MbNext
    <2>1. phase = "gone" /\ NewSoftc
      BY <1>1 DEF attach
    <2>2. \A s \in Senders : ~Sending(s)
      BY <2>1, Alone DEF HostInv, MainSends
    <2> QED BY <2>1, <2>2 DEF MbNext
  <1>2. ASSUME NEW out \in Outcomes, PowerOff(out) PROVE [MbNext]_mbVars
    <2>1. dl = "off" /\ (Forget \/ UNCHANGED mbVars)
      BY <1>2 DEF PowerOff, mac_power_off
    <2>2. phase = "download" /\ ~Sending(main)
      BY <2>1 DEF HostInv, DownloadIsPhase, MainSends
    <2>3. \A s \in Senders : ~Sending(s)
      BY <2>2, Alone DEF Attaching
    <2> QED BY <2>1, <2>3 DEF MbNext
  <1>3. ASSUME NEW s \in {main, tq, ic, user}, NEW out \in Outcomes, MailboxStep(s, out)
        PROVE  MbNext
    <2>1. s \in Senders /\ Step(s, out, More(s))
      BY <1>3, ThreadNames DEF MailboxStep
    <2>2. More(s) \in BOOLEAN
      BY Zenon DEF More
    <2> QED BY <2>1, <2>2 DEF MbNext
  <1>4. ASSUME NEW s \in {main, tq, ic, user}, MailboxEnd(s) PROVE MbNext
    <2>1. s \in Senders /\ Advance(s, More(s))
      BY <1>4, ThreadNames DEF MailboxEnd
    <2>2. More(s) \in BOOLEAN
      BY Zenon DEF More
    <2> QED BY <2>1, <2>2 DEF MbNext
  <1>5. ASSUME NEW c \in {"PWR_ACTIVE", "PWR_LPS", "BT_WIFI_CONTROL", "COEX_TDMA_TYPE"},
               NEW s \in {main, user}, Call(s, c)
        PROVE  MbNext
    BY <1>5, ThreadNames, CommandNames DEF MbNext
  <1>6. ASSUME TqSend PROVE MbNext
    <2>1. Head(job) \in Commands /\ Call(tq, Head(job))
      BY <1>6, JobHead DEF TqSend
    <2> QED BY <2>1, ThreadNames DEF MbNext
  <1>7. ASSUME IcRegisters PROVE MbNext
    <2>1. CallInside(ic, "WL_CH_INFO")
      BY <1>7 DEF IcRegisters, SwitchRegisters
    <2> QED BY <2>1, ThreadNames, CommandNames DEF MbNext
  <1>8. ASSUME IcDone PROVE MbNext
    BY <1>8, ThreadNames DEF IcDone, SwitchDone, MbNext
  <1>9. ASSUME FirmwareTakes PROVE MbNext
    BY <1>9 DEF FirmwareTakes, MbNext
  <1>10. ASSUME MainStep PROVE [MbNext]_mbVars
    <2>1. ASSUME NEW out \in Outcomes,
                 \/ ReadSysCfg(out) \/ DownloadStep(out) \/ ChipStep(out)
                 \/ \E blob \in BOOLEAN : TablesStep(out, blob)
          PROVE  UNCHANGED mbVars
      BY <2>1 DEF ReadSysCfg, DownloadStep, ChipStep, TablesStep
    <2>2. ASSUME NEW yes \in BOOLEAN,
                 fw_acquire(yes) \/ discover_endpoints(yes) \/ xfers_setup(yes)
                 \/ BeginDownload(yes)
          PROVE  UNCHANGED mbVars
      BY <2>2 DEF fw_acquire, discover_endpoints, xfers_setup, BeginDownload
    <2>3. ASSUME \/ GiveBack \/ DownloadWait \/ CoexEnd \/ EndDownload \/ InfoStep
                 \/ MeterStep \/ net80211_attach
          PROVE  UNCHANGED mbVars
      BY <2>3 DEF GiveBack, DownloadWait, CoexEnd, EndDownload, InfoStep,
         MeterStep, net80211_attach
    <2>4. ASSUME \/ CoexPair("coex bt", "BT_WIFI_CONTROL", "coex tdma")
                 \/ CoexPair("coex tdma", "COEX_TDMA_TYPE", "coex end")
                 \/ MacPair("bt", "BT_WIFI_CONTROL", "tdma")
                 \/ MacPair("tdma", "COEX_TDMA_TYPE", "meter")
          PROVE  MbNext
      BY <2>4, <1>5 DEF CoexPair, MacPair
    <2> QED BY <1>10, <1>2, <1>3, <1>4, <2>1, <2>2, <2>3, <2>4 DEF MainStep
  <1>11. ASSUME TqStep \/ IcStep \/ UserStep PROVE [MbNext]_mbVars
    <2>1. ASSUME NEW out \in Outcomes, TqCalibrate(out) PROVE UNCHANGED mbVars
      BY <2>1 DEF TqCalibrate
    <2>2. ASSUME NEW n \in DOMAIN Groups, IcFails(n) PROVE UNCHANGED mbVars
      BY <2>2 DEF IcFails
    <2> QED BY <1>11, <1>3, <1>4, <1>6, <1>7, <1>8, <2>1, <2>2
            DEF TqStep, IcStep, UserStep
  <1>12. ASSUME Chip PROVE [MbNext]_mbVars
    <2>1. ASSUME NEW garbled \in BOOLEAN, ChipMemory(garbled) PROVE UNCHANGED mbVars
      BY <2>1 DEF ChipMemory
    <2>2. FirmwareCalibrates => UNCHANGED mbVars
      BY DEF FirmwareCalibrates
    <2> QED BY <1>12, <1>9, <2>1, <2>2 DEF Chip
  <1>13. detach \/ TqBegin \/ IcBegin \/ RxBegin \/ RxStep => UNCHANGED mbVars
    BY DEF detach, TqBegin, IcBegin, RxBegin, RxStep
  <1>14. ASSUME NEW c \in {"PWR_ACTIVE", "PWR_LPS"}, lps_state(c) PROVE MbNext
    BY <1>14, <1>5 DEF lps_state
  <1>15. UNCHANGED allVars => UNCHANGED mbVars
    BY DEF allVars
  <1> QED BY <1>1, <1>10, <1>11, <1>12, <1>13, <1>14, <1>15 DEF Next

(* The radio takes a step of its own, or none.                             *)
LEMMA RadioRefined ==
    ASSUME HostInv, [Next]_allVars
    PROVE  [RadioNext]_radioVars
  <1>1. ASSUME NEW known \in BOOLEAN, attach(known) PROVE RadioNext
    <2>1. ~Switching /\ ~Calibrating
      BY <1>1, Alone DEF attach
    <2> QED BY <1>1, <2>1 DEF attach, RadioNext, NewSoftcRadio
  <1>2. ASSUME NEW out \in Outcomes, PowerOff(out) PROVE [RadioNext]_radioVars
    <2>1. phase = "download" /\ phase \in Attaching
      BY <1>2 DEF PowerOff, mac_power_off, HostInv, DownloadIsPhase, Attaching
    <2>2. ~Switching /\ ~Calibrating /\ asked = Unset
      BY <2>1, Alone DEF HostInv, NothingAsked
    <2>3. UNCHANGED radioVars \/ RadioOff
      BY <1>2, <2>2 DEF PowerOff, radioVars, RadioOff
    <2> QED BY <2>3 DEF RadioNext
  <1>3. ASSUME MainStep PROVE [RadioNext]_radioVars
    <2>1. ASSUME NEW out \in Outcomes,
                 \/ ReadSysCfg(out) \/ DownloadStep(out) \/ ChipStep(out)
                 \/ MailboxStep(main, out)
                 \/ \E blob \in BOOLEAN : TablesStep(out, blob)
          PROVE  UNCHANGED radioVars
      BY <2>1 DEF ReadSysCfg, DownloadStep, ChipStep, TablesStep, MailboxStep
    <2>2. ASSUME NEW yes \in BOOLEAN,
                 fw_acquire(yes) \/ discover_endpoints(yes) \/ xfers_setup(yes)
                 \/ BeginDownload(yes)
          PROVE  UNCHANGED radioVars
      BY <2>2 DEF fw_acquire, discover_endpoints, xfers_setup, BeginDownload
    <2>3. ASSUME \/ GiveBack \/ DownloadWait \/ CoexEnd \/ EndDownload \/ InfoStep
                 \/ MeterStep \/ net80211_attach \/ MailboxEnd(main)
          PROVE  UNCHANGED radioVars
      BY <2>3 DEF GiveBack, DownloadWait, CoexEnd, EndDownload, InfoStep,
         MeterStep, net80211_attach, MailboxEnd
    <2>4. ASSUME NEW from, NEW c, NEW to, CoexPair(from, c, to) \/ MacPair(from, c, to)
          PROVE  UNCHANGED radioVars
      BY <2>4 DEF CoexPair, MacPair
    <2> QED BY <1>3, <1>2, <2>1, <2>2, <2>3, <2>4 DEF MainStep
  <1>4. ASSUME NEW out \in Outcomes, TqCalibrate(out) PROVE [RadioNext]_radioVars
    BY <1>4 DEF TqCalibrate, RadioNext, RadioCalibrate
  <1>5. ASSUME TqStep PROVE [RadioNext]_radioVars
    <2>1. ASSUME NEW out \in Outcomes, TqSend \/ MailboxEnd(tq) \/ MailboxStep(tq, out)
          PROVE  UNCHANGED radioVars
      BY <2>1 DEF TqSend, MailboxEnd, MailboxStep
    <2>2. "ok" \in Outcomes
      BY DEF Outcomes
    <2> QED BY <1>4, <1>5, <2>1, <2>2 DEF TqStep
  <1>6. ASSUME IcBegin \/ IcRegisters \/ IcDone \/ \E n \in DOMAIN Groups : IcFails(n)
        PROVE  RadioNext
    BY <1>6 DEF IcBegin, IcRegisters, IcDone, IcFails, RadioNext, RadioSwitch
  <1>7. ASSUME IcStep PROVE [RadioNext]_radioVars
    <2>1. ASSUME NEW out \in Outcomes, MailboxEnd(ic) \/ MailboxStep(ic, out)
          PROVE  UNCHANGED radioVars
      BY <2>1 DEF MailboxEnd, MailboxStep
    <2>2. "ok" \in Outcomes
      BY DEF Outcomes
    <2> QED BY <1>6, <1>7, <2>1, <2>2 DEF IcStep
  <1>8. ASSUME Chip PROVE [RadioNext]_radioVars
    <2>1. ASSUME NEW garbled \in BOOLEAN, ChipMemory(garbled) PROVE UNCHANGED radioVars
      BY <2>1 DEF ChipMemory
    <2>2. FirmwareTakes => UNCHANGED radioVars
      BY DEF FirmwareTakes
    <2>3. FirmwareCalibrates => RadioNext
      BY DEF FirmwareCalibrates, RadioNext, RadioCalibrate
    <2> QED BY <1>8, <2>1, <2>2, <2>3 DEF Chip
  <1>9. detach \/ TqBegin \/ RxBegin \/ RxStep => UNCHANGED radioVars
    BY DEF detach, TqBegin, RxBegin, RxStep
  <1>10. ASSUME UserStep \/ \E c \in {"PWR_ACTIVE", "PWR_LPS"} : lps_state(c)
         PROVE  UNCHANGED radioVars
    BY <1>10 DEF lps_state, UserStep, MailboxEnd, MailboxStep
  <1>11. UNCHANGED allVars => UNCHANGED radioVars
    BY DEF allVars
  <1> QED BY <1>1, <1>3, <1>5, <1>6, <1>7, <1>8, <1>9, <1>10, <1>11 DEF Next

(* The firmware download takes a step of its own, or none.                 *)
LEMMA FirmwareRefined ==
    ASSUME HostInv, FwInv, [Next]_allVars
    PROVE  [FwNext]_fwState
  <1> USE DEF fwState
  <1>0. fwVars' = fwVars => UNCHANGED fwState
    BY DEF fwVars
  <1>1. ASSUME NEW known \in BOOLEAN, attach(known) PROVE FwNext
    <2>1. dl = "no" /\ life < MaxLives
      <3>1. phase = "gone" /\ Spend("lives")
        BY <1>1 DEF attach
      <3>2. budget.lives \in Nat /\ budget.lives > 0 /\ life + budget.lives <= MaxLives
        BY <3>1 DEF Spend, HostInv, HostTypes
      <3>3. life \in Nat /\ MaxLives \in Nat
        BY LayoutFacts DEF FwInv, FwTypes, DlTypes
      <3> QED BY <3>1, <3>2, <3>3 DEF HostInv, DownloadIsPhase
    <2> QED BY <1>1, <2>1 DEF attach, FwNext, NewLife
  <1>2. ASSUME MainStep PROVE [FwNext]_fwState
    <2>1. ASSUME NEW out \in Outcomes, PowerOff(out) \/ DownloadStep(out)
          PROVE  FwNext
      BY <2>1 DEF PowerOff, DownloadStep, FwNext, Prepare, Load, Release
    <2>2. ASSUME NEW out \in Outcomes, ReadSysCfg(out)
          PROVE  UNCHANGED fwState
      BY <2>2 DEF ReadSysCfg, chipVars
    <2>3. ASSUME NEW out \in Outcomes,
                 \/ ChipStep(out) \/ MailboxStep(main, out)
                 \/ \E blob \in BOOLEAN : TablesStep(out, blob)
          PROVE  UNCHANGED fwState
      BY <2>3, <1>0 DEF ChipStep, TablesStep, MailboxStep
    <2>4. ASSUME NEW yes \in BOOLEAN,
                 fw_acquire(yes) \/ discover_endpoints(yes) \/ xfers_setup(yes)
          PROVE  UNCHANGED fwState
      BY <2>4, <1>0 DEF fw_acquire, discover_endpoints, xfers_setup
    <2>5. ASSUME NEW yes \in BOOLEAN, BeginDownload(yes) PROVE FwNext
      BY <2>5 DEF BeginDownload, FwNext
    <2>6. DownloadWait \/ CoexEnd \/ EndDownload => FwNext
      BY DEF DownloadWait, CoexEnd, EndDownload, FwNext, Wait, CoexSends
    <2>7. ASSUME GiveBack \/ InfoStep \/ MeterStep \/ net80211_attach \/ MailboxEnd(main)
          PROVE  UNCHANGED fwState
      BY <2>7, <1>0 DEF GiveBack, InfoStep, MeterStep, net80211_attach, MailboxEnd
    <2>8. ASSUME \/ CoexPair("coex bt", "BT_WIFI_CONTROL", "coex tdma")
                 \/ CoexPair("coex tdma", "COEX_TDMA_TYPE", "coex end")
          PROVE  FwNext
      BY <2>8 DEF CoexPair, FwNext, Wait, CoexSends
    <2>9. ASSUME NEW from, NEW c, NEW to, MacPair(from, c, to) PROVE UNCHANGED fwState
      BY <2>9, <1>0 DEF MacPair
    <2> QED BY <1>2, <2>1, <2>2, <2>3, <2>4, <2>5, <2>6, <2>7, <2>8, <2>9
            DEF MainStep
  <1>3. ASSUME TqBegin \/ TqStep PROVE UNCHANGED fwState
    BY <1>3, <1>0 DEF TqBegin, TqStep, TqSend, TqCalibrate, MailboxEnd, MailboxStep
  <1>4. ASSUME IcBegin \/ IcStep PROVE UNCHANGED fwState
    BY <1>4, <1>0
    DEF IcBegin, IcStep, IcRegisters, IcDone, IcFails, MailboxEnd, MailboxStep
  <1>5. ASSUME Chip PROVE [FwNext]_fwState
    <2>1. ASSUME NEW garbled \in BOOLEAN, ChipMemory(garbled) PROVE FwNext
      BY <2>1 DEF ChipMemory, FwNext, ChipActs
    <2>2. FirmwareTakes \/ FirmwareCalibrates => UNCHANGED fwState
      BY <1>0 DEF FirmwareTakes, FirmwareCalibrates
    <2> QED BY <1>5, <2>1, <2>2 DEF Chip
  <1>6. detach \/ RxBegin \/ RxStep => UNCHANGED fwState
    BY <1>0 DEF detach, RxBegin, RxStep
  <1>7. ASSUME UserStep \/ \E c \in {"PWR_ACTIVE", "PWR_LPS"} : lps_state(c)
        PROVE  UNCHANGED fwState
    BY <1>7, <1>0 DEF lps_state, UserStep, MailboxEnd, MailboxStep
  <1>8. UNCHANGED allVars => UNCHANGED fwState
    BY <1>0 DEF allVars
  <1> HIDE DEF fwState
  <1> QED BY <1>1, <1>2, <1>3, <1>4, <1>5, <1>6, <1>7, <1>8 DEF Next

-----------------------------------------------------------------------------
(* Steps that leave the resources and main's phase alone.                  *)

BudgetTypes == [lives : Nat, attach : Nat, after : Nat, work : Nat]

(* What is spent stays a count, and only attach spends lives.              *)
LEMMA Spending ==
    ASSUME HostInv, NEW what \in {"lives", "attach", "after", "work"}, Spend(what)
    PROVE  /\ budget' \in BudgetTypes /\ budget[what] > 0
           /\ budget'.lives = IF what = "lives" THEN budget.lives - 1 ELSE budget.lives
  BY DEF HostInv, HostTypes, Spend, BudgetTypes

(* A fault is spent from one of two of them.                               *)
LEMMA Faulting ==
    ASSUME HostInv, NEW out, Fault(out)
    PROVE  budget' \in BudgetTypes /\ budget'.lives = budget.lives
  <1>1. CASE out = "ok"
    BY <1>1 DEF Fault, HostInv, HostTypes, BudgetTypes
  <1>2. CASE out # "ok"
    <2>1. PICK what \in {"attach", "after"} : Spend(what)
      BY <1>2 DEF Fault
    <2> QED BY <2>1, Spending
  <1> QED BY <1>1, <1>2

(* Nothing is spent.                                                       *)
LEMMA NotSpending ==
    ASSUME HostInv, budget' = budget
    PROVE  budget' \in BudgetTypes /\ budget'.lives = budget.lives
  BY DEF HostInv, HostTypes, BudgetTypes

(* Where main is, with a mailbox in which it has not newly begun.          *)
MainInv == MainSends /\ DownloadIsPhase /\ StageIsPhase /\ LocksHeld /\ NothingAsked
OtherInv == TqHasQueue /\ IcHasIc /\ UserHasOids /\ NobodyElse

(* A step of whoever, main's state untouched.                              *)
LEMMA MainUntouched ==
    ASSUME HostInv, UNCHANGED <<phase, dl, stage, depth, asked>>,
           Sending(main)' => Sending(main)
    PROVE  MainInv'
  BY DEF HostInv, MainInv, MainSends, DownloadIsPhase, StageIsPhase, LocksHeld,
     NothingAsked

(* A step of main, nobody else begins anything.                            *)
LEMMA OthersUntouched ==
    ASSUME HostInv, UNCHANGED <<held, job>>, cal'.pc = cal.pc, switch' = switch,
           \A s \in Senders \ {main} : Sending(s)' => Sending(s)
    PROVE  OtherInv'
  <1>1. Sending(tq)' => Sending(tq)
    BY ThreadNames
  <1>2. Sending(ic)' => Sending(ic)
    BY ThreadNames
  <1>3. TqHasQueue'
    BY <1>1 DEF HostInv, TqHasQueue, TqBusy, Calibrating
  <1>4. IcHasIc'
    BY <1>2 DEF HostInv, IcHasIc, IcBusy, Switching
  <1>5. NobodyElse'
    BY DEF HostInv, NobodyElse
  <1>6. UserHasOids'
    BY ThreadNames DEF HostInv, UserHasOids
  <1> QED BY <1>3, <1>4, <1>5, <1>6 DEF OtherInv

(* The step has left the resources alone: what is to be shown.             *)
LEMMA HostQuiet ==
    ASSUME HostInv, UNCHANGED hostVars, life' = life,
           job' \in Seq(Commands \cup {"IQK"}),
           budget' \in BudgetTypes /\ budget'.lives = budget.lives,
           InitTypeOK', RxTypeOK', RxHasTransfer', MainInv', OtherInv'
    PROVE  HostInv'
  <1>1. UNCHANGED <<phase, todo, held>>
    BY DEF hostVars
  <1>2. HostTypes'
    BY <1>1 DEF HostInv, HostTypes, BudgetTypes
  <1>3. TodoIsRest' /\ HeldByPhase'
    BY <1>1 DEF HostInv, TodoIsRest, RestFrom, HeldByPhase
  <1> QED BY <1>2, <1>3 DEF HostInv, MainInv, OtherInv

(* The receive path untouched.                                             *)
LEMMA RxUntouched ==
    ASSUME HostInv, UNCHANGED <<rx, held>>
    PROVE  RxTypeOK' /\ RxHasTransfer'
  BY DEF HostInv, RxTypeOK, RxHasTransfer, InCallback

(* The chip's initialisation untouched.                                    *)
LEMMA InitUntouched == ASSUME HostInv, UNCHANGED initVars PROVE InitTypeOK'
  BY DEF HostInv, InitTypeOK, initVars

(* The running task untouched.                                             *)
LEMMA JobUntouched ==
    ASSUME HostInv, job' = job PROVE job' \in Seq(Commands \cup {"IQK"})
  BY DEF HostInv, HostTypes

(* Any thread inside the mailbox, and the firmware that takes from it.     *)
LEMMA MailboxKeepsHost ==
    ASSUME HostInv, MbTypeOK,
           UNCHANGED <<hostVars, job, radioVars, fwVars, initVars, rx>>,
           budget' \in BudgetTypes /\ budget'.lives = budget.lives,
           \A s \in Senders : Sending(s)' => Sending(s)
    PROVE  HostInv'
  <1>1. /\ UNCHANGED <<phase, held, dl, depth, life, stage, asked, switch>>
        /\ cal'.pc = cal.pc
    BY DEF hostVars, fwVars, initVars, radioVars
  <1>2. MainInv' /\ OtherInv'
    BY <1>1, ThreadNames, MainUntouched, OthersUntouched
  <1>3. RxTypeOK' /\ RxHasTransfer' /\ InitTypeOK'
    BY <1>1, RxUntouched, InitUntouched
  <1> QED BY <1>1, <1>2, <1>3, HostQuiet, JobUntouched

(* MailboxStep, MailboxEnd, FirmwareTakes.                                 *)
LEMMA MailboxStepsKeepHost ==
    ASSUME HostInv, MbTypeOK,
           \/ \E s \in {main, tq, ic, user} :
                 MailboxEnd(s) \/ \E out \in Outcomes : MailboxStep(s, out)
           \/ FirmwareTakes
    PROVE  HostInv'
  <1>1. ASSUME NEW s \in {main, tq, ic, user}, MailboxEnd(s) PROVE HostInv'
    <2>1. s \in Senders /\ Advance(s, More(s)) /\ budget' = budget
          /\ UNCHANGED <<hostVars, job, radioVars, fwVars, initVars, rx>>
      BY <1>1, ThreadNames DEF MailboxEnd
    <2>2. \A t \in Senders : Sending(t)' => Sending(t)
      BY <2>1, Stepping
    <2> QED BY <2>1, <2>2, MailboxKeepsHost, NotSpending
  <1>2. ASSUME NEW s \in {main, tq, ic, user}, NEW out \in Outcomes, MailboxStep(s, out)
        PROVE  HostInv'
    <2>1. s \in Senders /\ Step(s, out, More(s)) /\ Fault(out)
          /\ UNCHANGED <<hostVars, job, radioVars, fwVars, initVars, rx>>
      BY <1>2, ThreadNames DEF MailboxStep
    <2>2. \A t \in Senders : Sending(t)' => Sending(t)
      BY <2>1, Stepping
    <2> QED BY <2>1, <2>2, MailboxKeepsHost, Faulting
  <1>3. CASE FirmwareTakes
    <2>1. /\ send' = send /\ budget' = budget
          /\ UNCHANGED <<hostVars, job, radioVars, fwVars, initVars, rx>>
      BY <1>3 DEF FirmwareTakes, FwTake
    <2>2. \A t \in Senders : Sending(t)' => Sending(t)
      BY <2>1 DEF Sending
    <2> QED BY <2>1, <2>2, MailboxKeepsHost, NotSpending
  <1> QED BY <1>1, <1>2, <1>3

(* What a task may have to do.                                             *)
LEMMA JobsAreJobs == \A j \in Jobs : j \in Seq(Commands \cup {"IQK"})
  <1> DEFINE S == Commands \cup {"IQK"}
             Unless(c) == IF c \in LinkupSkip THEN <<>> ELSE <<c>>
  <1>1. \A c \in Commands : c \in S
    OBVIOUS
  <1>2. "IQK" \in S
    OBVIOUS
  <1> HIDE DEF S
  <1>3. /\ \A c \in Commands : <<c>> \in Seq(S) /\ Unless(c) \in Seq(S)
        /\ <<"IQK">> \in Seq(S)
    BY <1>1, <1>2
  <1>4. /\ <<"BT_WIFI_CONTROL", "COEX_TDMA_TYPE">> \in Seq(S)
        /\ <<"PWR_ACTIVE", "RA_INFO">> \in Seq(S)
    BY <1>1, CommandNames
  <1>5. LinkUp \in Seq(S)
    <2> HIDE DEF Unless
    <2>1. /\ Unless("RA_INFO") \in Seq(S) /\ Unless("MEDIA_STATUS") \in Seq(S)
          /\ Unless("PWR_ACTIVE") \in Seq(S) /\ Unless("RSVD_PAGE") \in Seq(S)
          /\ Unless("DEFAULT_PORT") \in Seq(S)
      BY <1>3, CommandNames
    <2>2. \A p, q \in Seq(S) : p \o q \in Seq(S)
      OBVIOUS
    <2>3. <<"BT_WIFI_CONTROL", "COEX_TDMA_TYPE">>
          \o Unless("RA_INFO") \o Unless("MEDIA_STATUS") \o Unless("PWR_ACTIVE")
          \o Unless("RSVD_PAGE") \o Unless("DEFAULT_PORT") \in Seq(S)
      BY <1>4, <2>1, <2>2
    <2> QED BY <2>3 DEF LinkUp, Unless
  <1>6. \A j \in Jobs : j \in Seq(S)
    BY <1>3, <1>4, <1>5, CommandNames DEF Jobs
  <1> QED BY <1>6 DEF S

(* What a late tick enqueues is a task like another.                       *)
LEMMA KeepAlivesAreJobs == KeepAlives \subseteq Jobs
  BY DEF KeepAlives, Jobs

(* The steps of sc_tq's thread.  It finds its queue there when it begins,  *)
(* and GiveBack waits for it.                                              *)
LEMMA TqKeepsHost ==
    ASSUME HostInv, MbTypeOK, TqBegin \/ TqSend \/ \E out \in Outcomes : TqCalibrate(out)
    PROVE  HostInv'
  <1>1. /\ UNCHANGED <<phase, todo, held, dl, depth, life, stage, asked, switch, rx>>
        /\ UNCHANGED hostVars /\ UNCHANGED initVars
    BY DEF TqBegin, TqSend, TqCalibrate, hostVars, fwVars, initVars, radioVars,
       switchVars
  <1>2. {"sc_tq", "oids"} \subseteq held
    <2>1. TqSend \/ (\E out \in Outcomes : TqCalibrate(out)) => TqBusy
      BY DEF TqSend, TqCalibrate, TqBusy, CalPoll, CalReset, CalReturn, Calibrating
    <2> QED BY <2>1 DEF TqBegin, HostInv, TqHasQueue
  <1>3. \A s \in Senders \ {tq} : Sending(s)' => Sending(s)
    <2>1. CASE TqSend
      BY <2>1, ThreadNames, Entering DEF TqSend, Call
    <2>2. CASE send' = send
      BY <2>2 DEF Sending
    <2> QED BY <2>1, <2>2 DEF TqBegin, TqCalibrate, mbVars
  <1>4. job' \in Seq(Commands \cup {"IQK"})
    <2>1. TqBegin => job' \in Jobs
      BY KeepAlivesAreJobs DEF TqBegin
    <2> QED BY <2>1, JobUntouched, JobHead, JobsAreJobs DEF TqSend, TqCalibrate
  <1>5. budget' \in BudgetTypes /\ budget'.lives = budget.lives
    <2>1. TqBegin => Spend("work")
      BY DEF TqBegin
    <2>2. TqSend => budget' = budget
      BY DEF TqSend
    <2>3. \A out \in Outcomes : TqCalibrate(out) => Fault(out)
      BY DEF TqCalibrate
    <2> QED BY <2>1, <2>2, <2>3, Spending, Faulting, NotSpending
  <1>6. MainInv'
    BY <1>1, <1>3, ThreadNames, MainUntouched
  <1>7. OtherInv'
    <2>1. TqHasQueue'
      BY <1>1, <1>2 DEF TqHasQueue
    <2>2. IcHasIc'
      BY <1>1, <1>3, ThreadNames DEF HostInv, IcHasIc, IcBusy, Switching
    <2>3. NobodyElse'
      BY <1>3 DEF HostInv, NobodyElse
    <2>4. UserHasOids'
      BY <1>1, <1>3, ThreadNames DEF HostInv, UserHasOids
    <2> QED BY <2>1, <2>2, <2>3, <2>4 DEF OtherInv
  <1>8. RxTypeOK' /\ RxHasTransfer' /\ InitTypeOK'
    BY <1>1, RxUntouched, InitUntouched
  <1> QED BY <1>1, <1>4, <1>5, <1>6, <1>7, <1>8, HostQuiet

(* The steps of net80211's thread.                                         *)
LEMMA IcKeepsHost ==
    ASSUME HostInv, MbTypeOK,
           IcBegin \/ IcRegisters \/ IcDone \/ \E n \in DOMAIN Groups : IcFails(n)
    PROVE  HostInv'
  <1>1. /\ UNCHANGED <<phase, todo, held, dl, depth, life, stage, cal, rx, job>>
        /\ UNCHANGED hostVars /\ UNCHANGED initVars
    BY DEF IcBegin, IcRegisters, IcDone, IcFails, hostVars, fwVars, initVars, calVars
  <1>2. "ic" \in held
    <2>1. IcRegisters \/ IcDone \/ (\E n \in DOMAIN Groups : IcFails(n)) => IcBusy
      BY DEF IcRegisters, SwitchRegisters, IcDone, SwitchDone, IcFails, SwitchFails,
         IcBusy, Switching
    <2> QED BY <2>1 DEF IcBegin, HostInv, IcHasIc
  <1>3. \A s \in Senders \ {ic} : Sending(s)' => Sending(s)
    <2>1. CASE IcRegisters
      BY <2>1, ThreadNames, Entering DEF IcRegisters, SwitchRegisters, CallInside
    <2>2. CASE send' = send
      BY <2>2 DEF Sending
    <2> QED BY <2>1, <2>2 DEF IcBegin, IcDone, SwitchDone, Unlock, IcFails, mbVars
  <1>4. budget' \in BudgetTypes /\ budget'.lives = budget.lives
    <2>1. Spend("work") \/ Spend("after") \/ budget' = budget
      BY DEF IcBegin, IcRegisters, IcDone, IcFails
    <2> QED BY <2>1, Spending, NotSpending
  <1>5. phase \notin Attaching
    BY <1>2 DEF HostInv, HeldByPhase
  <1>6. MainInv'
    <2>1. Sending(main)' => Sending(main)
      BY <1>3, ThreadNames
    <2> QED BY <1>1, <1>5, <2>1
        DEF HostInv, MainInv, MainSends, DownloadIsPhase, StageIsPhase, LocksHeld,
            NothingAsked
  <1>7. OtherInv'
    <2>1. IcHasIc'
      BY <1>1, <1>2 DEF IcHasIc
    <2>2. TqHasQueue'
      BY <1>1, <1>3, ThreadNames DEF HostInv, TqHasQueue, TqBusy, Calibrating
    <2>3. NobodyElse'
      BY <1>3 DEF HostInv, NobodyElse
    <2>4. UserHasOids'
      BY <1>1, <1>3, ThreadNames DEF HostInv, UserHasOids
    <2> QED BY <2>1, <2>2, <2>3, <2>4 DEF OtherInv
  <1>8. RxTypeOK' /\ RxHasTransfer' /\ InitTypeOK'
    BY <1>1, RxUntouched, InitUntouched
  <1> QED BY <1>1, <1>4, <1>6, <1>7, <1>8, HostQuiet, JobUntouched

(* The receive callback: while it has frames to hand up it is inside, and  *)
(* then it is armed again.                                                 *)
LEMMA RxKeepsHost == ASSUME HostInv, RxBegin \/ RxStep PROVE HostInv'
  <1>1. /\ UNCHANGED <<phase, todo, held, dl, depth, life, stage, asked, switch, job>>
        /\ UNCHANGED hostVars /\ UNCHANGED initVars /\ cal' = cal /\ send' = send
        /\ budget' = budget
    BY DEF RxBegin, RxStep, hostVars, fwVars, initVars, radioVars, mbVars
  <1>2. RxTypeOK' /\ RxHasTransfer'
    <2>1. rx \in [at : {"none", "armed", "input"}, left : Nat]
      BY DEF HostInv, RxTypeOK
    <2>2. ASSUME NEW n \in 0 .. MaxFrames, RxTransferred(n)
          PROVE  RxTypeOK' /\ RxHasTransfer'
      <3>1. n \in Nat
        BY BringupAssumption
      <3>2. /\ rx.at = "armed"
            /\ \/ n = 0 /\ rx' = [at |-> "armed", left |-> n]
               \/ n > 0 /\ rx' = [at |-> "input", left |-> n]
        BY <2>2, <3>1 DEF RxTransferred
      <3> QED BY <1>1, <3>1, <3>2 DEF HostInv, RxTypeOK, RxHasTransfer, InCallback
    <2>3. CASE RxError
      BY <2>3, <1>1, RxUntouched DEF RxError
    <2>4. CASE RxStep
      <3>1. rx.at = "input" /\ rx.left > 0 /\ rx.left \in Nat
        BY <2>1, <2>4 DEF RxStep, RxInputDone, HostInv, RxHasTransfer, InCallback
      <3>2. \/ rx.left = 1 /\ rx' = [at |-> "armed", left |-> rx.left - 1]
            \/ rx.left > 1 /\ rx' = [at |-> "input", left |-> rx.left - 1]
        BY <2>4, <3>1 DEF RxStep, RxInputDone
      <3>3. rx.left - 1 \in Nat
        BY <3>1
      <3> QED BY <1>1, <3>1, <3>2, <3>3 DEF HostInv, RxTypeOK, RxHasTransfer, InCallback
    <2> QED BY <2>2, <2>3, <2>4 DEF RxBegin
  <1>3. \A s : Sending(s)' => Sending(s)
    BY <1>1 DEF Sending
  <1>4. MainInv' /\ OtherInv'
    BY <1>1, <1>3, MainUntouched, OthersUntouched
  <1> QED BY <1>1, <1>2, <1>4, HostQuiet, JobUntouched, InitUntouched, NotSpending

(* The chip's memory and its calibrations.                                 *)
LEMMA ChipKeepsHost ==
    ASSUME HostInv, (\E garbled \in BOOLEAN : ChipMemory(garbled)) \/ FirmwareCalibrates
    PROVE  HostInv'
  <1>1. /\ UNCHANGED <<phase, todo, held, dl, depth, life, stage, asked, switch, job>>
        /\ UNCHANGED hostVars /\ UNCHANGED initVars /\ cal' = cal /\ send' = send
        /\ budget' = budget /\ rx' = rx
    BY DEF ChipMemory, ChipStores, ChipCopies, ChipBoots, dlVars, FirmwareCalibrates,
       FwCalibrate, switchVars, hostVars, fwVars, initVars, radioVars, mbVars
  <1>2. \A s : Sending(s)' => Sending(s)
    BY <1>1 DEF Sending
  <1>3. MainInv' /\ OtherInv'
    BY <1>1, <1>2, MainUntouched, OthersUntouched
  <1> QED BY <1>1, <1>3, HostQuiet, JobUntouched, InitUntouched, NotSpending,
          RxUntouched

-----------------------------------------------------------------------------
(* main inside rtw88_download_firmware and the chip's initialisation.      *)

(* A step of the download that leaves the mutex as it is.                  *)
LEMMA DownloadKeepsMain ==
    ASSUME HostInv, dl \notin {"no", "coex regs"}, dl' \notin {"no", "coex regs"},
           UNCHANGED <<phase, depth, stage, asked>>,
           Sending(main)' => dl' \in {"coex tdma", "coex end"}
    PROVE  MainInv'
  <1>1. phase = "download"
    BY DEF HostInv, DownloadIsPhase
  <1> QED BY <1>1 DEF HostInv, MainInv, MainSends, DownloadIsPhase, StageIsPhase,
          LocksHeld, NothingAsked

(* Where a step of the download may lead.                                  *)
LEMMA DownloadGoes ==
    ASSUME NEW out \in Outcomes, DownloadStep(out) \/ PowerOff(out)
    PROVE  /\ dl \notin {"no", "coex regs", "coex tdma", "coex end"}
           /\ dl' \notin {"no", "coex regs"} /\ depth' = depth
  <1> USE DEF Then, Goto, Fail
  <1>1. CASE PowerOff(out)
    BY <1>1 DEF PowerOff, mac_power_off
  <1>2. CASE DownloadStep(out)
    <2>1. ASSUME NEW on \in BOOLEAN, mac_currently_on(out, on)
          PROVE  /\ dl \notin {"no", "coex regs", "coex tdma", "coex end"}
                 /\ dl' \notin {"no", "coex regs"} /\ depth' = depth
      BY <2>1 DEF mac_currently_on
    <2>2. CASE \/ mac_power_up_once(out) \/ wcpu_disable(out) \/ dlfw_prep_chip(out)
               \/ reset_platform(out) \/ Arm(out)
      BY <2>2 DEF mac_power_up_once, wcpu_disable, dlfw_prep_chip, reset_platform, Arm
    <2>3. CASE SegmentBegin(out) \/ StagePage(out) \/ SendPacket(out) \/ StartDdma(out)
      BY <2>3 DEF SegmentBegin, StagePage, SendPacket, StartDdma
    <2>4. CASE \/ segment_checksum_ack(out) \/ CheckSums(out) \/ CloseWindow(out)
               \/ wcpu_enable(out)
      BY <2>4 DEF segment_checksum_ack, CheckSums, CloseWindow, wcpu_enable
    <2> QED BY <1>2, <2>1, <2>2, <2>3, <2>4 DEF DownloadStep
  <1> QED BY <1>1, <1>2

(* Register accesses of the download, the loss of power included.          *)
LEMMA DownloadKeepsHost ==
    ASSUME HostInv, InitTypeOK, NEW out \in Outcomes, DownloadStep(out) \/ PowerOff(out)
    PROVE  HostInv'
  <1>1. /\ UNCHANGED <<phase, todo, held, life, stage, asked, switch, job, rx>>
        /\ UNCHANGED hostVars /\ cal' = cal /\ send' = send /\ Fault(out)
        /\ sc_rfe_option' = sc_rfe_option /\ inited' \in {inited, {}}
    BY DEF DownloadStep, PowerOff, Forget, hostVars, initVars, radioVars, mbVars
  <1>2. \A s : Sending(s)' <=> Sending(s)
    BY <1>1 DEF Sending
  <1>3. /\ dl \notin {"no", "coex regs", "coex tdma", "coex end"}
        /\ dl' \notin {"no", "coex regs"} /\ depth' = depth
    BY DownloadGoes
  <1>4. ~Sending(main)
    <2>1. phase = "download"
      BY <1>3 DEF HostInv, DownloadIsPhase
    <2> QED BY <2>1, <1>3 DEF HostInv, MainSends
  <1>5. MainInv' /\ OtherInv'
    BY <1>1, <1>2, <1>3, <1>4, DownloadKeepsMain, OthersUntouched
  <1>6. InitTypeOK'
    BY <1>1 DEF InitTypeOK
  <1> QED BY <1>1, <1>5, <1>6, HostQuiet, JobUntouched, Faulting, RxUntouched

(* Its waits.  rtw88_coex_init takes the mutex once more and gives it up.  *)
LEMMA WaitKeepsHost == ASSUME HostInv, DownloadWait PROVE HostInv'
  <1>1. /\ UNCHANGED <<phase, todo, held, life, stage, asked, switch, job, rx>>
        /\ UNCHANGED hostVars /\ UNCHANGED initVars /\ cal' = cal /\ send' = send
        /\ budget' = budget
    BY DEF DownloadWait, hostVars, initVars, radioVars, mbVars
  <1>2. \A s : Sending(s)' <=> Sending(s)
    BY <1>1 DEF Sending
  <1>3. \/ dl = "coex" /\ dl' = "coex regs" /\ depth' = depth + 1
        \/ dl = "coex regs" /\ dl' = "coex bt" /\ depth' = depth - 1
        \/ /\ dl \notin {"no", "coex regs", "coex tdma", "coex end"}
           /\ dl' \notin {"no", "coex regs"} /\ depth' = depth
    BY DEF DownloadWait, CoexLock, CoexUnlock, AwaitPage, AwaitIdle, AwaitCopy,
       AwaitReady, Await, Goto, Fail
  <1>4. phase = "download" /\ ~Sending(main)
    <2>1. phase = "download"
      BY <1>3 DEF HostInv, DownloadIsPhase
    <2> QED BY <2>1, <1>3 DEF HostInv, MainSends
  <1>5. LocksHeld'
    <2>1. dl # "no" /\ phase # "cfg"
      BY <1>3, <1>4
    <2>2. /\ dl = "coex regs" => depth = 2
          /\ dl # "coex regs" => depth = 1
      BY <2>1 DEF HostInv, LocksHeld
    <2>3. /\ dl' = "coex regs" => depth' = 2
          /\ dl' # "coex regs" => depth' = 1
      <3>1. dl = "coex" => depth = 1
        BY <2>2
      <3>2. 1 + 1 = 2 /\ 2 - 1 = 1
        OBVIOUS
      <3> QED BY <1>3, <2>2, <3>1, <3>2
    <2>4. dl' # "no" /\ phase' # "cfg"
      BY <1>1, <1>3, <1>4
    <2> QED BY <2>3, <2>4 DEF LocksHeld
  <1>6. MainInv'
    BY <1>1, <1>2, <1>3, <1>4, <1>5
    DEF HostInv, MainInv, MainSends, DownloadIsPhase, StageIsPhase, NothingAsked
  <1>7. OtherInv'
    BY <1>1, <1>2, OthersUntouched
  <1> QED BY <1>1, <1>6, <1>7, HostQuiet, JobUntouched, NotSpending, RxUntouched,
          InitUntouched

(* The two commands of rtw88_coex_init.                                    *)
LEMMA CoexKeepsHost ==
    ASSUME HostInv, MbTypeOK,
           \/ CoexPair("coex bt", "BT_WIFI_CONTROL", "coex tdma")
           \/ CoexPair("coex tdma", "COEX_TDMA_TYPE", "coex end")
           \/ CoexEnd
    PROVE  HostInv'
  <1>1. /\ UNCHANGED <<phase, todo, held, life, stage, asked, switch, job, rx, depth>>
        /\ UNCHANGED hostVars /\ UNCHANGED initVars /\ cal' = cal /\ budget' = budget
    BY DEF CoexPair, CoexEnd, hostVars, initVars, radioVars
  <1>2. \A s \in Senders \ {main} : Sending(s)' => Sending(s)
    <2>1. CASE send' = send
      BY <2>1 DEF Sending
    <2>2. ASSUME NEW c, Call(main, c)
          PROVE  \A s \in Senders \ {main} : Sending(s)' => Sending(s)
      BY <2>2, ThreadNames, Entering DEF Call
    <2> QED BY <2>1, <2>2 DEF CoexPair, CoexEnd, mbVars
  <1>3. /\ dl \notin {"no", "coex regs"} /\ dl' \notin {"no", "coex regs"}
        /\ Sending(main)' => dl' \in {"coex tdma", "coex end"}
    BY DEF CoexPair, CoexEnd, Goto, Sending, mbVars
  <1>4. MainInv' /\ OtherInv'
    BY <1>1, <1>2, <1>3, DownloadKeepsMain, OthersUntouched
  <1> QED BY <1>1, <1>4, HostQuiet, JobUntouched, NotSpending, RxUntouched,
          InitUntouched

(* A step of the chip's initialisation, with main in the mailbox only      *)
(* where it sends.                                                         *)
LEMMA StageKeepsMain ==
    ASSUME HostInv, phase = "chip", stage' # "no",
           UNCHANGED <<phase, dl, depth, asked>>,
           Sending(main)' => stage' \in {"tdma", "meter"}
    PROVE  MainInv'
  BY DEF HostInv, MainInv, MainSends, DownloadIsPhase, StageIsPhase, LocksHeld,
     NothingAsked

(* Where a part leads.                                                     *)
LEMMA PartGoes ==
    ASSUME InitTypeOK, NEW p \in Parts, NEW out, NEW next \in Stages \ {"no"},
           NEW exit \in Stages \ {"no"}, Part(p, out, next, exit)
    PROVE  InitTypeOK' /\ stage = p /\ stage' # "no"
  BY DEF InitTypeOK, Part

(* Every step of rtw88_efuse_read, rtw88_mac_init and rtw88_phy_set_param. *)
LEMMA StagesGo ==
    ASSUME InitTypeOK, NEW out, NEW blob,
           \/ efuse_read(out) \/ txdma_queue_mapping(out) \/ priority_queue_cfg(out)
           \/ init_h2c(out) \/ mac_init_8821c(out) \/ drv_info_cfg(out)
           \/ usb_init_burst(out) \/ MacTail(out) \/ PowerBaseband(out)
           \/ BtgReplay(out, blob) \/ CommitBaseband(out) \/ bf_phy_init(out)
           \/ LoadTables(out) \/ InfoPackets
    PROVE  InitTypeOK' /\ stage \notin {"tdma", "meter"} /\ stage' # "no"
  <1> DEFINE Good == InitTypeOK' /\ stage \notin {"tdma", "meter"} /\ stage' # "no"
  <1>1. CASE efuse_read(out)
    BY <1>1 DEF efuse_read, InitTypeOK, Stages, Parts
  <1>2. CASE InfoPackets
    BY <1>2 DEF InfoPackets, InitTypeOK, Stages, Parts
  <1>3. ASSUME NEW p \in Parts, NEW o, NEW next \in Stages \ {"no"},
               NEW exit \in Stages \ {"no"}, Part(p, o, next, exit)
        PROVE  Good
    <2>1. InitTypeOK' /\ stage = p /\ stage' # "no"
      BY <1>3, PartGoes
    <2> QED BY <2>1 DEF Parts
  <1>4. /\ \A p \in Parts : p \in Stages \ {"no"}
        /\ "info" \in Stages \ {"no"} /\ "done" \in Stages \ {"no"}
        /\ {"txdma", "prioq", "h2cq", "wmac", "drvinfo", "burst", "sec", "bb",
            "tables", "btg", "xtal", "bf"} \subseteq Parts
    BY DEF Stages, Parts
  <1> HIDE DEF Good
  <1>5. CASE \/ txdma_queue_mapping(out) \/ priority_queue_cfg(out) \/ init_h2c(out)
             \/ mac_init_8821c(out) \/ drv_info_cfg(out) \/ usb_init_burst(out)
             \/ MacTail(out)
    BY <1>3, <1>4, <1>5 DEF txdma_queue_mapping, priority_queue_cfg, init_h2c,
       mac_init_8821c, drv_info_cfg, usb_init_burst, MacTail, Good
  <1>6. CASE \/ PowerBaseband(out) \/ BtgReplay(out, blob) \/ CommitBaseband(out)
             \/ bf_phy_init(out)
    BY <1>3, <1>4, <1>6 DEF PowerBaseband, BtgReplay, CommitBaseband, bf_phy_init, Good
  <1>7. CASE LoadTables(out)
    <2>1. PICK next \in {"btg", "xtal"} : Part("tables", out, next, "done")
      BY <1>7 DEF LoadTables
    <2> QED BY <1>3, <1>4, <2>1 DEF Good
  <1> QED BY <1>1, <1>2, <1>5, <1>6, <1>7 DEF Good

(* The initialisation, but for the blob it acquires.                       *)
LEMMA ChipStepKeepsHost ==
    ASSUME HostInv, InfoStep \/ \E out \in Outcomes : ChipStep(out)
    PROVE  HostInv'
  <1>1. /\ UNCHANGED <<phase, todo, held, life, asked, switch, job, rx, dl, depth>>
        /\ UNCHANGED hostVars /\ cal' = cal /\ send' = send /\ phase = "chip"
    BY DEF InfoStep, ChipStep, hostVars, radioVars, mbVars, fwVars
  <1>2. \A s : Sending(s)' <=> Sending(s)
    BY <1>1 DEF Sending
  <1>3. InitTypeOK' /\ stage \notin {"tdma", "meter"} /\ stage' # "no"
    <2>1. InitTypeOK
      BY DEF HostInv
    <2>2. CASE InfoStep
      BY <2>1, <2>2, StagesGo DEF InfoStep
    <2>3. ASSUME NEW out \in Outcomes, ChipStep(out)
          PROVE  InitTypeOK' /\ stage \notin {"tdma", "meter"} /\ stage' # "no"
      BY <2>1, <2>3, StagesGo DEF ChipStep
    <2> QED BY <2>2, <2>3
  <1>4. ~Sending(main)
    BY <1>1, <1>3 DEF HostInv, MainSends
  <1>5. MainInv' /\ OtherInv'
    BY <1>1, <1>2, <1>3, <1>4, StageKeepsMain, OthersUntouched
  <1>6. budget' \in BudgetTypes /\ budget'.lives = budget.lives
    BY Faulting, NotSpending DEF InfoStep, ChipStep
  <1> QED BY <1>1, <1>3, <1>5, <1>6, HostQuiet, JobUntouched, RxUntouched

(* The coexistence pair at the end of rtw88_mac_init, and what follows it. *)
LEMMA MacPairKeepsHost ==
    ASSUME HostInv, MbTypeOK,
           \/ MacPair("bt", "BT_WIFI_CONTROL", "tdma")
           \/ MacPair("tdma", "COEX_TDMA_TYPE", "meter")
           \/ MeterStep
    PROVE  HostInv'
  <1>1. /\ UNCHANGED <<phase, todo, held, life, asked, switch, job, rx, dl, depth>>
        /\ UNCHANGED <<inited, sc_rfe_option>>
        /\ UNCHANGED hostVars /\ cal' = cal /\ budget' = budget
    BY DEF MacPair, MeterStep, ThermalMeter, hostVars, radioVars, fwVars
  <1>2. /\ stage \in {"bt", "tdma", "meter"} /\ stage' \in {"tdma", "meter", "bb"}
        /\ Sending(main)' => stage' \in {"tdma", "meter"}
    BY DEF MacPair, MeterStep, ThermalMeter, Sending, mbVars
  <1>3. \A s \in Senders \ {main} : Sending(s)' => Sending(s)
    <2>1. CASE send' = send
      BY <2>1 DEF Sending
    <2>2. ASSUME NEW c, Call(main, c)
          PROVE  \A s \in Senders \ {main} : Sending(s)' => Sending(s)
      BY <2>2, ThreadNames, Entering DEF Call
    <2> QED BY <2>1, <2>2 DEF MacPair, MeterStep, mbVars
  <1>4. phase = "chip"
    BY <1>2 DEF HostInv, StageIsPhase
  <1>5. InitTypeOK'
    BY <1>1, <1>2 DEF HostInv, InitTypeOK, Stages, Parts
  <1>6. MainInv' /\ OtherInv'
    BY <1>1, <1>2, <1>3, <1>4, StageKeepsMain, OthersUntouched
  <1> QED BY <1>1, <1>5, <1>6, HostQuiet, JobUntouched, NotSpending, RxUntouched

-----------------------------------------------------------------------------
(* main gets and gives back resources.                                     *)

(* Both orders, place by place.                                            *)
LEMMA Orders ==
    /\ Len(UndoOrder) = 8 /\ Len(DetachOrder) = 13
    /\ UndoOrder[1] = "xfers" /\ UndoOrder[2] = "sc_fw" /\ UndoOrder[3] = "sc_tx_buf"
    /\ UndoOrder[4] = "sc_rx_stage" /\ UndoOrder[5] = "sc_cam_tq"
    /\ UndoOrder[6] = "sc_tq" /\ UndoOrder[7] = "sc_tx_cv" /\ UndoOrder[8] = "sc_mtx"
    /\ DetachOrder[1] = "cdev" /\ DetachOrder[2] = "ic" /\ DetachOrder[3] = "tasks"
    /\ DetachOrder[4] = "sc_cam_tq" /\ DetachOrder[5] = "sc_tq"
    /\ DetachOrder[6] = "xfers" /\ DetachOrder[7] = "sc_tbl"
    /\ DetachOrder[8] = "sc_fw" /\ DetachOrder[9] = "sc_tx_buf"
    /\ DetachOrder[10] = "sc_rx_stage" /\ DetachOrder[11] = "sc_tx_cv"
    /\ DetachOrder[12] = "sc_mtx" /\ DetachOrder[13] = "oids"
  BY DEF UndoOrder, DetachOrder

(* An order gives back every resource once.                                *)
LEMMA OrderFacts ==
    ASSUME NEW order \in {UndoOrder, DetachOrder}
    PROVE  /\ order \in Seq(Resources) /\ Len(order) \in {8, 13}
           /\ \A j, k \in 1 .. Len(order) : order[j] = order[k] => j = k
           /\ \A r \in Base : \E j \in 1 .. Len(order) : order[j] = r
  <1>1. CASE order = UndoOrder
    <2>1. order \in Seq(Resources)
      BY <1>1 DEF UndoOrder, Resources, Base
    <2>2. \A j \in 1 .. 8 : j \in {1, 2, 3, 4, 5, 6, 7, 8}
      OBVIOUS
    <2>3. \A j, k \in 1 .. Len(order) : order[j] = order[k] => j = k
      BY <1>1, <2>2, Orders
    <2>4. \A r \in Base : \E j \in 1 .. Len(order) : order[j] = r
      BY <1>1, Orders DEF Base
    <2> QED BY <1>1, <2>1, <2>3, <2>4, Orders
  <1>2. CASE order = DetachOrder
    <2>1. order \in Seq(Resources)
      BY <1>2 DEF DetachOrder, Resources, Base
    <2>2. \A j \in 1 .. 13 : j \in {1, 2, 3, 4, 5, 6, 7, 8, 9, 10, 11, 12, 13}
      OBVIOUS
    <2>3. \A j, k \in 1 .. Len(order) : order[j] = order[k] => j = k
      BY <1>2, <2>2, Orders
    <2>4. \A r \in Base : \E j \in 1 .. Len(order) : order[j] = r
      BY <1>2, Orders DEF Base
    <2> QED BY <1>2, <2>1, <2>3, <2>4, Orders
  <1> QED BY <1>1, <1>2

(* The whole of an order is a rest of it.                                  *)
LEMMA WholeOrder ==
    ASSUME NEW order \in {UndoOrder, DetachOrder}, todo' = order, Base \subseteq held',
           held' \subseteq {order[j] : j \in 1 .. Len(order)}
    PROVE  RestFrom(order, 1)' /\ 1 \in DOMAIN order /\ todo' \in Seq(Resources)
  <1>1. order \in Seq(Resources) /\ Len(order) \in {8, 13}
    BY OrderFacts
  <1>2. order = SubSeq(order, 1, Len(order)) /\ 1 \in DOMAIN order
    BY <1>1
  <1> QED BY <1>1, <1>2 DEF RestFrom, UndoOrder, DetachOrder

(* One resource is given back: what is left is a shorter rest.             *)
LEMMA RestShrinks ==
    ASSUME NEW order \in {UndoOrder, DetachOrder}, NEW i \in DOMAIN order,
           RestFrom(order, i), todo' = Tail(todo), held' = held \ {Head(todo)}
    PROVE  /\ Head(todo) = order[i] /\ todo' \in Seq(Resources)
           /\ Len(todo) = 1 <=> i = Len(order)
           /\ i = Len(order) => held' = {} /\ todo' = <<>>
           /\ i # Len(order) => RestFrom(order, i + 1)' /\ i + 1 \in DOMAIN order
  <1> DEFINE n == Len(order)
  <1>1. /\ order \in Seq(Resources) /\ n \in Nat /\ i \in 1 .. n /\ n \in {8, 13}
        /\ \A j, k \in 1 .. n : order[j] = order[k] => j = k
    BY OrderFacts, SMTT(30)
  <1>2. todo = SubSeq(order, i, n)
    BY DEF RestFrom
  <1>3. /\ Len(todo) = n - i + 1 /\ todo \in Seq(Resources)
        /\ \A k \in 1 .. n - i + 1 : todo[k] = order[i + k - 1]
    BY <1>1, <1>2, SMTT(30)
  <1>4. Head(todo) = order[i] /\ todo # <<>>
    BY <1>1, <1>3
  <1>5. todo' \in Seq(Resources) /\ Len(todo') = n - i
        /\ \A k \in 1 .. n - i : todo'[k] = order[i + k]
    BY <1>1, <1>3, <1>4
  <1>6. Len(todo) = 1 <=> i = n
    BY <1>1, <1>3
  <1>7. held' \subseteq {order[j] : j \in i + 1 .. n}
    BY <1>1, <1>4 DEF RestFrom
  <1>8. ASSUME i = n PROVE held' = {} /\ todo' = <<>>
    <2>1. i + 1 .. n = {}
      BY <1>1, <1>8
    <2>2. Len(todo') = 0
      BY <1>1, <1>5, <1>8
    <2> QED BY <1>5, <1>7, <2>1, <2>2
  <1>9. ASSUME i # n PROVE RestFrom(order, i + 1)' /\ i + 1 \in DOMAIN order
    <2>1. i + 1 \in 1 .. n
      BY <1>1, <1>9
    <2>2. todo' = SubSeq(order, i + 1, n)
      <3>1. /\ SubSeq(order, i + 1, n) \in Seq(Resources)
            /\ Len(SubSeq(order, i + 1, n)) = n - i
            /\ \A k \in 1 .. n - i : SubSeq(order, i + 1, n)[k] = order[i + k]
        BY <1>1, <2>1
      <3> QED BY <1>1, <1>5, <3>1, SMTT(30)
    <2>3. \A j \in i + 1 .. n : order[j] \in Base => order[j] \in held'
      <3>1. \A j \in i + 1 .. n : j \in i .. n /\ j \in 1 .. n /\ j # i
        BY <1>1
      <3> QED BY <1>1, <1>4, <3>1 DEF RestFrom
    <2>4. i + 1 \in DOMAIN order
      BY <1>1, <2>1
    <2>5. RestFrom(order, i + 1)'
      BY <1>7, <2>2, <2>3, Zenon DEF RestFrom
    <2> QED BY <2>4, <2>5
  <1> QED BY <1>4, <1>5, <1>6, <1>8, <1>9

(* The other threads keep what they work with.                             *)
LEMMA OthersKeepTheirs ==
    ASSUME HostInv, UNCHANGED <<job, switch>>, cal'.pc = cal.pc,
           \A s \in Senders \ {main} : Sending(s)' => Sending(s),
           TqBusy /\ {"sc_tq", "oids"} \subseteq held =>
               {"sc_tq", "oids"} \subseteq held',
           IcBusy /\ "ic" \in held => "ic" \in held',
           Sending(user) /\ "oids" \in held => "oids" \in held'
    PROVE  OtherInv'
  <1>1. (TqBusy' => TqBusy) /\ (IcBusy' => IcBusy)
    BY ThreadNames DEF TqBusy, IcBusy, Calibrating, Switching
  <1>2. TqHasQueue' /\ IcHasIc'
    BY <1>1 DEF HostInv, TqHasQueue, IcHasIc
  <1>3. NobodyElse'
    BY DEF HostInv, NobodyElse
  <1>4. UserHasOids'
    BY ThreadNames DEF HostInv, UserHasOids
  <1> QED BY <1>2, <1>3, <1>4 DEF OtherInv

(* Nobody is in the mailbox anew.                                          *)
LEMMA SendersStay ==
    ASSUME send' = send PROVE \A s : Sending(s)' <=> Sending(s)
  BY DEF Sending

(* Types of what main changes.                                             *)
LEMMA HostTypesKept ==
    ASSUME HostInv, phase' \in Phases, held' \subseteq Resources,
           todo' \in Seq(Resources), job' = job, life' = life,
           budget' \in BudgetTypes /\ budget'.lives = budget.lives
    PROVE  HostTypes'
  BY DEF HostInv, HostTypes, BudgetTypes

(* Names of phases and resources.                                          *)
LEMMA PhaseNames ==
    /\ Attaching \subseteq Phases /\ Releasing \subseteq Phases
    /\ {"gone", "up"} \subseteq Phases
    /\ Base \subseteq Resources
    /\ {"sc_fw", "xfers", "sc_tbl", "ic", "tasks", "cdev", "oids"} \subseteq Resources
    /\ Base \cap {"sc_fw", "xfers", "sc_tbl", "ic", "tasks", "cdev", "oids"} = {}
    /\ {"undo", "detach", "gone", "up"} \cap Attaching = {}
    /\ {"gone", "up"} \cap Releasing = {}
    /\ Attaching \cap Releasing = {}
  BY DEF Attaching, Releasing, Phases, Base, Resources

(* rtw88_usb_attach begins with a new softc; a device it does not know is  *)
(* left alone.                                                             *)
LEMMA AttachKeepsHost ==
    ASSUME HostInv, FwInv, NEW known \in BOOLEAN, attach(known)
    PROVE  HostInv'
  <1>1. /\ phase = "gone" /\ life' = life + 1 /\ Spend("lives")
        /\ UNCHANGED <<todo, job, switch, send, rx>>
        /\ asked' = Unset /\ cal'.pc = "no" /\ stage' = "no" /\ sc_rfe_option' = 0
        /\ inited' = inited /\ dl' = "no"
    BY DEF attach, NewSoftc
  <1>2. \/ phase' = "cfg" /\ held' = Base /\ depth' = depth + 1
        \/ phase' = "gone" /\ held' = held /\ depth' = depth
    BY <1>1 DEF attach
  <1>3. /\ held = {} /\ todo = <<>> /\ dl = "no" /\ depth = 0 /\ ~Sending(main)
        /\ rx.at = "none"
    BY <1>1, PhaseNames DEF HostInv, HeldByPhase, TodoIsRest, DownloadIsPhase,
       LocksHeld, MainSends, RxHasTransfer
  <1>4. ~TqBusy /\ ~IcBusy /\ \A s : Sending(s)' <=> Sending(s)
    BY <1>1, Alone, SendersStay
  <1>5. HostTypes'
    <2>1. /\ budget' \in BudgetTypes /\ budget.lives > 0
          /\ budget'.lives = budget.lives - 1
      BY <1>1, Spending
    <2>2. life \in Nat /\ budget.lives \in Nat /\ life + budget.lives <= MaxLives
          /\ MaxLives \in Nat
      BY LayoutFacts DEF FwInv, FwTypes, DlTypes, HostInv, HostTypes
    <2>3. life' + budget'.lives <= MaxLives
      BY <1>1, <2>1, <2>2
    <2>4. phase' \in Phases /\ held' \subseteq Resources
      BY <1>2, <1>3, PhaseNames DEF Attaching
    <2> QED BY <1>1, <2>1, <2>3, <2>4 DEF HostInv, HostTypes, BudgetTypes
  <1>6. InitTypeOK' /\ RxTypeOK'
    <2>1. RxTypeOK'
      BY <1>1 DEF HostInv, RxTypeOK
    <2>2. "no" \in Stages
      BY DEF Stages
    <2> QED BY <1>1, <2>1, <2>2 DEF HostInv, InitTypeOK
  <1>7. TodoIsRest'
    BY <1>1, <1>2, <1>3, PhaseNames DEF TodoIsRest, Attaching
  <1>8. HeldByPhase' /\ "xfers" \notin held'
    BY <1>2, <1>3, PhaseNames DEF HeldByPhase, Attaching, Base
  <1>9. RxHasTransfer'
    BY <1>1, <1>3, <1>8 DEF RxHasTransfer, InCallback
  <1>10. MainInv'
    <2>1. MainSends' /\ DownloadIsPhase' /\ NothingAsked'
      BY <1>1, <1>3, <1>4 DEF MainSends, DownloadIsPhase, NothingAsked
    <2>2. StageIsPhase'
      BY <1>1, <1>2 DEF StageIsPhase
    <2>3. LocksHeld'
      BY <1>1, <1>2, <1>3 DEF LocksHeld
    <2> QED BY <2>1, <2>2, <2>3 DEF MainInv
  <1>11. OtherInv'
    <2>1. ~TqBusy' /\ ~IcBusy'
      BY <1>1, <1>4 DEF TqBusy, IcBusy, Calibrating, Switching
    <2>2. ~Sending(user)'
      BY <1>1, <1>4, Alone, ThreadNames
    <2> QED BY <2>1, <2>2, <1>4
        DEF HostInv, OtherInv, TqHasQueue, IcHasIc, UserHasOids, NobodyElse
  <1> QED BY <1>5, <1>6, <1>7, <1>8, <1>9, <1>10, <1>11 DEF HostInv, MainInv, OtherInv

(* From the first register to the transfers: one thing is acquired after   *)
(* the other, and an error undoes what there is.                           *)
LEMMA EarlyKeepsHost ==
    ASSUME HostInv, phase \in {"cfg", "fw", "endpoints", "xfers"},
           UNCHANGED <<dl, asked, send, switch, cal, job, life>>, UNCHANGED initVars,
           budget' \in BudgetTypes /\ budget'.lives = budget.lives,
           depth' = IF phase = "cfg" THEN depth - 1 ELSE depth,
           \/ /\ phase' \in {"fw", "endpoints", "xfers"} /\ todo' = todo
              /\ held' \in {held, held \cup {"sc_fw"}} /\ rx' = rx
           \/ /\ phase' = "download" /\ todo' = todo
              /\ held' = held \cup {"xfers"} /\ RxArm
           \/ /\ phase' = "undo" /\ todo' = UndoOrder /\ held' = held /\ rx' = rx
    PROVE  HostInv'
  <1>1. /\ Base \subseteq held /\ "xfers" \notin held /\ "sc_tbl" \notin held
        /\ held \cap {"ic", "tasks", "cdev", "oids"} = {} /\ held \subseteq Resources
    BY DEF HostInv, HostTypes, HeldByPhase, Attaching
  <1>2. /\ todo = <<>> /\ todo \in Seq(Resources) /\ dl = "no" /\ stage = "no"
        /\ asked = Unset /\ ~Sending(main) /\ rx.at = "none"
    <2>1. phase \in Attaching /\ phase \notin Releasing /\ phase \notin {"chip", "download"}
      BY DEF Attaching, Releasing
    <2>2. todo = <<>> /\ todo \in Seq(Resources)
      BY <2>1 DEF HostInv, HostTypes, TodoIsRest
    <2>3. dl = "no" /\ stage = "no" /\ asked = Unset
      BY <2>1 DEF HostInv, DownloadIsPhase, StageIsPhase, NothingAsked
    <2> QED BY <1>1, <2>1, <2>2, <2>3 DEF HostInv, MainSends, RxHasTransfer
  <1>3. depth' = 0
    <2>1. /\ phase = "cfg" => depth = 1
          /\ phase # "cfg" => depth = 0
      BY <1>2 DEF HostInv, LocksHeld
    <2> QED BY <2>1
  <1>4. phase' \in {"fw", "endpoints", "xfers", "download", "undo"}
    OBVIOUS
  <1>5. Base \subseteq held' /\ held' \subseteq held \cup {"sc_fw", "xfers"}
    BY <1>1
  <1>6. TodoIsRest' /\ todo' \in Seq(Resources)
    <2>1. CASE phase' = "undo"
      <3>1. held' \subseteq {UndoOrder[j] : j \in 1 .. Len(UndoOrder)}
        <4>1. \A r \in Resources \ {"sc_tbl", "ic", "tasks", "cdev", "oids"} :
                \E j \in 1 .. Len(UndoOrder) : UndoOrder[j] = r
          BY Orders DEF Resources, Base
        <4> QED BY <1>1, <2>1, <4>1
      <3>2. RestFrom(UndoOrder, 1)' /\ 1 \in DOMAIN UndoOrder /\ todo' \in Seq(Resources)
        BY <1>5, <2>1, <3>1, WholeOrder
      <3>3. OrderOf[phase'] = UndoOrder
        BY <2>1 DEF OrderOf
      <3> QED BY <2>1, <3>2, <3>3 DEF TodoIsRest, Releasing
    <2>2. CASE phase' # "undo"
      BY <1>2, <2>2 DEF TodoIsRest, Releasing
    <2> QED BY <2>1, <2>2
  <1>7. HostTypes'
    <2>1. phase' \in Phases
      BY <1>4 DEF Phases
    <2>2. held' \subseteq Resources
      BY <1>1, <1>5 DEF Resources
    <2> QED BY <1>6, <2>1, <2>2, HostTypesKept
  <1>8. HeldByPhase'
    BY <1>1, <1>4, <1>5 DEF HeldByPhase, Attaching
  <1>9. RxTypeOK' /\ RxHasTransfer'
    <2>1. CASE RxArm
      <3>1. rx' = [at |-> "armed", left |-> 0] /\ "xfers" \in held'
        BY <1>2, <2>1, <1>1 DEF RxArm
      <3> QED BY <3>1 DEF RxTypeOK, RxHasTransfer, InCallback
    <2>2. CASE rx' = rx
      <3>1. "xfers" \notin held'
        BY <1>2, <2>2, <1>1 DEF RxArm
      <3> QED BY <3>1, <2>2, <1>2 DEF HostInv, RxTypeOK, RxHasTransfer, InCallback
    <2> QED BY <2>1, <2>2
  <1>10. \A s : Sending(s)' <=> Sending(s)
    BY SendersStay
  <1>11. MainInv'
    <2>1. MainSends' /\ DownloadIsPhase' /\ NothingAsked'
      BY <1>2, <1>10 DEF MainSends, DownloadIsPhase, NothingAsked
    <2>2. StageIsPhase' /\ LocksHeld'
      BY <1>2, <1>3, <1>4 DEF StageIsPhase, LocksHeld, initVars
    <2> QED BY <2>1, <2>2 DEF MainInv
  <1>12. OtherInv'
    BY <1>1, <1>10, OthersKeepTheirs
  <1> QED BY <1>6, <1>7, <1>8, <1>9, <1>11, <1>12, InitUntouched
          DEF HostInv, MainInv, OtherInv

(* The four actions of that stretch.                                       *)
LEMMA EarlyStepsKeepHost ==
    ASSUME HostInv,
           \/ \E out \in Outcomes : ReadSysCfg(out)
           \/ \E yes \in BOOLEAN :
                 fw_acquire(yes) \/ discover_endpoints(yes) \/ xfers_setup(yes)
    PROVE  HostInv'
  <1>1. ASSUME NEW out \in Outcomes, ReadSysCfg(out) PROVE HostInv'
    <2>1. /\ phase = "cfg" /\ Fault(out) /\ depth' = depth - 1 /\ held' = held
          /\ rx' = rx
          /\ (phase' = "fw" /\ todo' = todo) \/ (phase' = "undo" /\ todo' = UndoOrder)
          /\ UNCHANGED <<dl, asked, send, switch, cal, job, life>> /\ UNCHANGED initVars
      BY <1>1 DEF ReadSysCfg, Undo, radioVars, mbVars
    <2>2. budget' \in BudgetTypes /\ budget'.lives = budget.lives
      BY <2>1, Faulting
    <2> QED BY <2>1, <2>2, EarlyKeepsHost
  <1>2. ASSUME NEW yes \in BOOLEAN,
               fw_acquire(yes) \/ discover_endpoints(yes) \/ xfers_setup(yes)
        PROVE  HostInv'
    <2>1. /\ phase \in {"fw", "endpoints", "xfers"} /\ phase # "cfg"
          /\ budget' = budget /\ depth' = depth
          /\ UNCHANGED <<dl, asked, send, switch, cal, job, life>> /\ UNCHANGED initVars
      BY <1>2 DEF fw_acquire, discover_endpoints, xfers_setup, radioVars, mbVars, fwVars
    <2>2. \/ /\ phase' \in {"fw", "endpoints", "xfers"} /\ todo' = todo
             /\ held' \in {held, held \cup {"sc_fw"}} /\ rx' = rx
          \/ /\ phase' = "download" /\ todo' = todo
             /\ held' = held \cup {"xfers"} /\ RxArm
          \/ /\ phase' = "undo" /\ todo' = UndoOrder /\ held' = held /\ rx' = rx
      BY <1>2 DEF fw_acquire, discover_endpoints, xfers_setup, Undo
    <2>3. budget' \in BudgetTypes /\ budget'.lives = budget.lives
      BY <2>1, NotSpending
    <2> QED BY <2>1, <2>2, <2>3, EarlyKeepsHost
  <1> QED BY <1>1, <1>2

(* main goes on with nothing given back, inside attach.                    *)
LEMMA ForwardKeepsHost ==
    ASSUME HostInv, phase \in {"download", "chip"},
           phase' \in {"download", "chip", "up"}, todo' = todo,
           \/ held' \in {held, held \cup {"sc_tbl"}} /\ phase' \in {phase, "up"}
           \/ held' = held \cup {"ic", "tasks", "cdev", "oids"} /\ phase' = "up"
           \/ held' = held /\ phase = "download" /\ phase' = "chip",
           held' # held => phase = "chip",
           UNCHANGED <<job, life, rx, switch>>, cal'.pc = cal.pc,
           budget' \in BudgetTypes /\ budget'.lives = budget.lives, InitTypeOK',
           \A s \in Senders \ {main} : Sending(s)' => Sending(s), MainInv'
    PROVE  HostInv'
  <1>1. /\ Base \subseteq held /\ "xfers" \in held /\ held \subseteq Resources
        /\ todo = <<>> /\ todo \in Seq(Resources)
    BY DEF HostInv, HostTypes, HeldByPhase, Attaching, Releasing, TodoIsRest
  <1>2. held \subseteq held' /\ ("xfers" \in held <=> "xfers" \in held')
    OBVIOUS
  <1>3. HostTypes'
    <2>1. phase' \in Phases /\ held' \subseteq Resources
      BY <1>1, PhaseNames DEF Attaching
    <2> QED BY <1>1, <2>1, HostTypesKept
  <1>4. TodoIsRest'
    BY <1>1 DEF TodoIsRest, Releasing
  <1>5. HeldByPhase'
    <2>1. phase \in {"download", "chip"} => held \cap {"ic", "tasks", "cdev", "oids"} = {}
      BY DEF HostInv, HeldByPhase, Attaching
    <2>2. phase = "download" => "sc_tbl" \notin held
      BY DEF HostInv, HeldByPhase, Attaching
    <2>3. phase' = "download" => phase = "download" /\ held' = held
      OBVIOUS
    <2>4. phase' = "chip" => phase \in {"download", "chip"}
                             /\ held' \in {held, held \cup {"sc_tbl"}}
      OBVIOUS
    <2> QED BY <1>1, <1>2, <2>1, <2>2, <2>3, <2>4 DEF HeldByPhase, Attaching
  <1>6. RxTypeOK' /\ RxHasTransfer'
    BY <1>2 DEF HostInv, RxTypeOK, RxHasTransfer, InCallback
  <1>7. OtherInv'
    BY <1>2, OthersKeepTheirs
  <1> QED BY <1>3, <1>4, <1>5, <1>6, <1>7 DEF HostInv, MainInv, OtherInv

(* The download is begun, or attach goes on without.                       *)
LEMMA BeginKeepsHost ==
    ASSUME HostInv, NEW usable \in BOOLEAN, BeginDownload(usable)
    PROVE  HostInv'
  <1>1. /\ phase = "download" /\ dl = "no"
        /\ \/ dl' = "power?" /\ depth' = depth + 1 /\ phase' = "download"
           \/ dl' = "no" /\ depth' = depth /\ phase' = "up"
        /\ UNCHANGED <<todo, held, job, budget, life, send, switch, cal, asked, stage, rx>>
        /\ UNCHANGED initVars
    BY DEF BeginDownload, download_firmware, mbVars, radioVars, initVars
  <1>2. depth = 0 /\ stage = "no" /\ ~Sending(main) /\ asked = Unset
    BY <1>1 DEF HostInv, LocksHeld, StageIsPhase, MainSends, Attaching, NothingAsked
  <1>3. \A s : Sending(s)' <=> Sending(s)
    BY <1>1, SendersStay
  <1>4. MainInv'
    <2>1. MainSends' /\ DownloadIsPhase' /\ NothingAsked'
      BY <1>1, <1>2, <1>3 DEF MainSends, DownloadIsPhase, NothingAsked
    <2>2. StageIsPhase'
      BY <1>1, <1>2 DEF StageIsPhase
    <2>3. (dl' = "power?" /\ depth' = 1) \/ (dl' = "no" /\ depth' = 0)
      BY <1>1, <1>2
    <2>4. LocksHeld'
      BY <1>1, <2>3 DEF LocksHeld
    <2> QED BY <2>1, <2>2, <2>4 DEF MainInv
  <1>5. InitTypeOK' /\ budget' \in BudgetTypes /\ budget'.lives = budget.lives
    BY <1>1, InitUntouched, NotSpending
  <1> QED BY <1>1, <1>3, <1>4, <1>5, ForwardKeepsHost

(* The download returns.                                                   *)
LEMMA EndKeepsHost == ASSUME HostInv, EndDownload PROVE HostInv'
  <1>1. /\ dl = "out" /\ dl' = "no" /\ depth' = depth - 1
        /\ \/ phase' = "up" /\ stage' = stage
           \/ phase' = "chip" /\ stage' = "efuse"
        /\ UNCHANGED <<todo, held, job, budget, life, send, switch, cal, asked, rx>>
        /\ UNCHANGED <<inited, sc_rfe_option>>
    BY DEF EndDownload, DownloadReturns, mbVars, radioVars
  <1>2. phase = "download" /\ depth = 1
    BY <1>1 DEF HostInv, DownloadIsPhase, LocksHeld
  <1>3. stage = "no" /\ ~Sending(main) /\ asked = Unset
    BY <1>1, <1>2 DEF HostInv, StageIsPhase, MainSends, Attaching, NothingAsked
  <1>4. \A s : Sending(s)' <=> Sending(s)
    BY <1>1, SendersStay
  <1>5. MainInv'
    <2>1. MainSends' /\ DownloadIsPhase' /\ NothingAsked'
      BY <1>1, <1>3, <1>4 DEF MainSends, DownloadIsPhase, NothingAsked
    <2>2. StageIsPhase' /\ LocksHeld'
      BY <1>1, <1>2, <1>3 DEF StageIsPhase, LocksHeld, Attaching
    <2> QED BY <2>1, <2>2 DEF MainInv
  <1>6. InitTypeOK' /\ budget' \in BudgetTypes /\ budget'.lives = budget.lives
    BY <1>1, NotSpending DEF HostInv, InitTypeOK, Stages
  <1> QED BY <1>1, <1>2, <1>4, <1>5, <1>6, ForwardKeepsHost

(* The PHY tables, whose blob is kept.                                     *)
LEMMA TablesKeepHost ==
    ASSUME HostInv, NEW out \in Outcomes, NEW blob \in BOOLEAN, TablesStep(out, blob)
    PROVE  HostInv'
  <1>1. /\ phase = "chip" /\ LoadTables(out) /\ phase' = phase
        /\ held' \in {held, held \cup {"sc_tbl"}}
        /\ UNCHANGED <<todo, job, life, send, switch, cal, asked, rx, dl, depth>>
    BY DEF TablesStep, mbVars, radioVars, fwVars
  <1>2. InitTypeOK' /\ stage \notin {"tdma", "meter"} /\ stage' # "no"
    BY <1>1, StagesGo DEF HostInv
  <1>3. ~Sending(main) /\ \A s : Sending(s)' <=> Sending(s)
    BY <1>1, <1>2, SendersStay DEF HostInv, MainSends
  <1>4. MainInv'
    BY <1>1, <1>2, <1>3, StageKeepsMain
  <1>5. budget' \in BudgetTypes /\ budget'.lives = budget.lives
    <2>1. PICK n \in {0, 1, 2} :
             budget.attach >= n /\ budget' = [budget EXCEPT !.attach = @ - n]
      <3>1. /\ (IF out = "ok" THEN 0 ELSE 1) \in {0, 1}
            /\ (IF blob THEN 0 ELSE 1) \in {0, 1}
        OBVIOUS
      <3> QED BY <3>1 DEF TablesStep
    <2> QED BY <2>1 DEF HostInv, HostTypes, BudgetTypes
  <1> QED BY <1>1, <1>2, <1>3, <1>4, <1>5, ForwardKeepsHost

(* net80211 is there: its thread and the tasks may begin.                  *)
LEMMA NetKeepsHost == ASSUME HostInv, net80211_attach PROVE HostInv'
  <1>1. /\ phase = "chip" /\ stage = "done" /\ phase' = "up"
        /\ held' = held \cup {"ic", "tasks", "cdev", "oids"}
        /\ UNCHANGED <<todo, job, budget, life, send, switch, cal, asked, rx, dl, depth>>
        /\ UNCHANGED <<stage, inited, sc_rfe_option>> /\ UNCHANGED initVars
    BY DEF net80211_attach, mbVars, radioVars, fwVars, initVars
  <1>2. ~Sending(main) /\ dl = "no" /\ depth = 0
    BY <1>1 DEF HostInv, MainSends, DownloadIsPhase, LocksHeld
  <1>3. \A s : Sending(s)' <=> Sending(s)
    BY <1>1, SendersStay
  <1>4. MainInv'
    BY <1>1, <1>2, <1>3 DEF MainInv, MainSends, DownloadIsPhase, StageIsPhase,
       LocksHeld, NothingAsked, Attaching
  <1>5. InitTypeOK' /\ budget' \in BudgetTypes /\ budget'.lives = budget.lives
    BY <1>1, InitUntouched, NotSpending
  <1> QED BY <1>1, <1>3, <1>4, <1>5, ForwardKeepsHost

(* A write to the power-save sysctl: its handler has the softc while it    *)
(* sends.                                                                  *)
LEMMA SysctlKeepsHost ==
    ASSUME HostInv, MbTypeOK, NEW c, lps_state(c)
    PROVE  HostInv'
  <1>1. /\ UNCHANGED <<phase, todo, held, job, life, switch, asked, rx, dl, depth, stage>>
        /\ UNCHANGED hostVars /\ UNCHANGED initVars /\ cal'.pc = cal.pc
        /\ "oids" \in held /\ Spend("work") /\ Call(user, c)
    BY DEF lps_state, hostVars, radioVars, initVars, fwVars
  <1>2. \A s \in Senders \ {user} : Sending(s)' => Sending(s)
    BY <1>1, ThreadNames, Entering DEF Call
  <1>3. MainInv'
    BY <1>1, <1>2, ThreadNames, MainUntouched
  <1>4. OtherInv'
    <2>1. TqHasQueue' /\ IcHasIc'
      BY <1>1, <1>2, ThreadNames DEF HostInv, TqHasQueue, TqBusy, Calibrating,
         IcHasIc, IcBusy, Switching
    <2>2. UserHasOids'
      BY <1>1 DEF UserHasOids
    <2>3. NobodyElse'
      BY <1>2 DEF HostInv, NobodyElse
    <2> QED BY <2>1, <2>2, <2>3 DEF OtherInv
  <1> QED BY <1>1, <1>3, <1>4, HostQuiet, JobUntouched, Spending, RxUntouched,
          InitUntouched

(* Where main releases, the rest of its state is at rest.                  *)
LEMMA ReleaseKeepsMain ==
    ASSUME HostInv, phase \in {"up", "undo", "detach"},
           phase' \in {"undo", "detach", "gone"},
           UNCHANGED <<dl, depth, stage, asked, send>>
    PROVE  MainInv'
  <1>1. ~Sending(main) /\ dl = "no" /\ stage \in {"no", "done"} /\ depth = 0
    BY DEF HostInv, MainSends, DownloadIsPhase, StageIsPhase, LocksHeld
  <1>2. ~Sending(main)'
    BY <1>1, SendersStay
  <1> QED BY <1>1, <1>2 DEF MainInv, MainSends, DownloadIsPhase, StageIsPhase,
          LocksHeld, NothingAsked, Attaching

(* Detach begins: everything held is in its order.                         *)
LEMMA DetachKeepsHost == ASSUME HostInv, detach PROVE HostInv'
  <1>1. /\ phase = "up" /\ phase' = "detach" /\ todo' = DetachOrder
        /\ UNCHANGED <<held, job, budget, life, send, switch, cal, asked, rx, dl, depth, stage>>
        /\ UNCHANGED initVars
    BY DEF detach, mbVars, radioVars, fwVars, initVars
  <1>2. Base \subseteq held /\ held \subseteq Resources
    BY <1>1 DEF HostInv, HostTypes, HeldByPhase
  <1>3. held' \subseteq {DetachOrder[j] : j \in 1 .. Len(DetachOrder)}
    <2>1. \A r \in Resources : \E j \in 1 .. Len(DetachOrder) : DetachOrder[j] = r
      BY Orders DEF Resources, Base
    <2> QED BY <1>1, <1>2, <2>1
  <1>4. /\ RestFrom(DetachOrder, 1)' /\ 1 \in DOMAIN DetachOrder
        /\ todo' \in Seq(Resources)
    BY <1>1, <1>2, <1>3, WholeOrder
  <1>5. TodoIsRest'
    <2>1. OrderOf[phase'] = DetachOrder
      BY <1>1 DEF OrderOf
    <2> QED BY <1>1, <1>4, <2>1 DEF TodoIsRest, Releasing
  <1>6. HostTypes'
    BY <1>1, <1>2, <1>4, PhaseNames, HostTypesKept, NotSpending DEF Releasing
  <1>7. HeldByPhase'
    BY <1>1 DEF HeldByPhase, Attaching
  <1>8. MainInv'
    BY <1>1, ReleaseKeepsMain
  <1>9. OtherInv'
    BY <1>1, SendersStay, OthersKeepTheirs
  <1> QED BY <1>1, <1>5, <1>6, <1>7, <1>8, <1>9, RxUntouched, InitUntouched
          DEF HostInv, MainInv, OtherInv

(* When it is the sysctls' turn, sc_tq is long gone.                       *)
LEMMA OidsAreLast ==
    ASSUME NEW order \in {UndoOrder, DetachOrder}, NEW i \in DOMAIN order,
           RestFrom(order, i), Head(todo) = "oids"
    PROVE  "sc_tq" \notin held
  <1>1. Len(order) \in {8, 13} /\ order \in Seq(Resources)
    BY OrderFacts
  <1>2. i \in 1 .. Len(order) /\ Head(todo) = order[i]
    <2>1. i \in 1 .. Len(order)
      BY <1>1
    <2>2. todo = SubSeq(order, i, Len(order))
      BY DEF RestFrom
    <2> QED BY <1>1, <2>1, <2>2
  <1>3. CASE order = UndoOrder
    <2>1. i \in {1, 2, 3, 4, 5, 6, 7, 8}
      BY <1>2, <1>3, Orders
    <2> QED BY <1>2, <1>3, <2>1, Orders
  <1>4. CASE order = DetachOrder
    <2>1. i \in {1, 2, 3, 4, 5, 6, 7, 8, 9, 10, 11, 12, 13}
      BY <1>2, <1>4, Orders
    <2>2. i = 13
      BY <1>2, <1>4, <2>1, Orders
    <2>3. \A j \in 13 .. 13 : j = 13
      OBVIOUS
    <2>4. held \subseteq {DetachOrder[j] : j \in 13 .. 13}
      BY <1>4, <2>2, Orders DEF RestFrom
    <2>5. \A r \in held : r = "oids"
      BY <2>3, <2>4, Orders
    <2> QED BY <2>5
  <1> QED BY <1>3, <1>4

(* A resource is given back once whoever works with it has come to an end. *)
LEMMA GiveBackKeepsHost == ASSUME HostInv, GiveBack PROVE HostInv'
  <1> DEFINE r == Head(todo)
  <1>1. /\ phase \in Releasing
        /\ r = "ic" => ~IcBusy
        /\ r \in {"tasks", "sc_tq"} => ~TqBusy
        /\ r = "oids" => ~Sending(user)
        /\ IF r = "xfers" THEN RxUnsetup ELSE rx' = rx
        /\ held' = held \ {r} /\ todo' = Tail(todo)
        /\ phase' = IF Len(todo) = 1 THEN "gone" ELSE phase
        /\ UNCHANGED <<job, budget, life, send, switch, cal, asked, dl, depth, stage>>
        /\ UNCHANGED initVars
    BY DEF GiveBack, mbVars, radioVars, fwVars, initVars, Releasing
  <1>2. PICK order \in {UndoOrder, DetachOrder} : order = OrderOf[phase]
    BY <1>1 DEF OrderOf, Releasing
  <1>3. PICK i \in DOMAIN order : RestFrom(order, i)
    <2>1. \E i \in DOMAIN OrderOf[phase] : RestFrom(OrderOf[phase], i)
      BY <1>1 DEF HostInv, TodoIsRest
    <2> QED BY <1>2, <2>1
  <1>4. /\ todo' \in Seq(Resources)
        /\ Len(todo) = 1 <=> i = Len(order)
        /\ i = Len(order) => held' = {} /\ todo' = <<>>
        /\ i # Len(order) => RestFrom(order, i + 1)' /\ i + 1 \in DOMAIN order
    BY <1>1, <1>3, RestShrinks
  <1>5. TodoIsRest'
    <2>1. CASE Len(todo) = 1
      BY <1>1, <1>4, <2>1, PhaseNames DEF TodoIsRest
    <2>2. CASE Len(todo) # 1
      <3>1. phase' = phase /\ order = OrderOf[phase']
        BY <1>1, <1>2, <2>2
      <3>2. RestFrom(order, i + 1)' /\ i + 1 \in DOMAIN order
        BY <1>4, <2>2
      <3>3. phase' \in Releasing
        BY <1>1, <3>1
      <3> QED BY <3>1, <3>2, <3>3 DEF TodoIsRest
    <2> QED BY <2>1, <2>2
  <1>6. HostTypes'
    <2>1. phase' \in Phases
      BY <1>1, PhaseNames
    <2>2. held' \subseteq Resources
      BY <1>1 DEF HostInv, HostTypes
    <2> QED BY <1>1, <1>4, <2>1, <2>2, HostTypesKept, NotSpending
  <1>7. HeldByPhase'
    <2>1. CASE Len(todo) = 1
      <3>1. phase' = "gone" /\ held' = {}
        BY <1>1, <1>4, <2>1
      <3> QED BY <3>1 DEF HeldByPhase, Attaching
    <2>2. CASE Len(todo) # 1
      <3>1. phase' = phase /\ held' \subseteq held
        BY <1>1, <2>2
      <3> QED BY <1>1, <3>1 DEF HostInv, HeldByPhase, Attaching, Releasing
    <2> QED BY <2>1, <2>2
  <1>8. RxTypeOK' /\ RxHasTransfer'
    <2>1. CASE r = "xfers"
      <3>1. rx' = [rx EXCEPT !.at = "none"]
        BY <1>1, <2>1 DEF RxUnsetup
      <3>2. rx' \in [at : {"none", "armed", "input"}, left : Nat] /\ rx'.at = "none"
        BY <3>1 DEF HostInv, RxTypeOK
      <3> QED BY <1>1, <2>1, <3>2 DEF RxTypeOK, RxHasTransfer, InCallback
    <2>2. CASE r # "xfers"
      <3>1. rx' = rx /\ ("xfers" \in held' <=> "xfers" \in held)
        BY <1>1, <2>2
      <3> QED BY <3>1 DEF HostInv, RxTypeOK, RxHasTransfer, InCallback
    <2> QED BY <2>1, <2>2
  <1>9. MainInv'
    <2>1. phase' \in {"undo", "detach", "gone"} /\ phase \in {"undo", "detach"}
      BY <1>1 DEF Releasing
    <2> QED BY <1>1, <2>1, ReleaseKeepsMain
  <1>10. OtherInv'
    <2>1. ASSUME r = "oids", "oids" \in held PROVE ~TqBusy
      BY <1>2, <1>3, <2>1, OidsAreLast DEF HostInv, TqHasQueue
    <2>2. TqBusy /\ {"sc_tq", "oids"} \subseteq held =>
             {"sc_tq", "oids"} \subseteq held'
      BY <1>1, <2>1
    <2> QED BY <1>1, <2>2, SendersStay, OthersKeepTheirs
  <1> QED BY <1>1, <1>5, <1>6, <1>7, <1>8, <1>9, <1>10, InitUntouched
          DEF HostInv, MainInv, OtherInv

-----------------------------------------------------------------------------
(* The invariant of the whole driver.                                      *)

(* Before the first attach nothing is held and nobody is at work.          *)
LEMMA InitHostInv == ASSUME Init PROVE HostInv
  <1>1. /\ phase = "gone" /\ todo = <<>> /\ held = {} /\ job = <<>>
        /\ life = 0 /\ dl = "no" /\ depth = 0 /\ stage = "no"
        /\ rx = [at |-> "none", left |-> 0] /\ asked = Unset
    BY DEF Init, FwInit, InitInit, RxInit, RadioInit
  <1>2. \A s \in Senders : ~Sending(s)
    BY DEF Init, MbInit, Idle, Sending
  <1>3. ~TqBusy /\ ~IcBusy
    BY <1>1, <1>2, ThreadNames DEF Init, RadioInit, TqBusy, IcBusy, Switching,
       Calibrating
  <1>4. HostTypes
    <2>1. budget \in [lives : 0 .. MaxLives, attach : Nat, after : Nat, work : Nat]
      BY BringupAssumption DEF Init
    <2>2. MaxLives \in Nat
      BY LayoutFacts
    <2>3. /\ budget \in [lives : Nat, attach : Nat, after : Nat, work : Nat]
          /\ budget.lives \in 0 .. MaxLives
      BY <2>1, <2>2
    <2>4. life + budget.lives <= MaxLives
      BY <1>1, <2>2, <2>3
    <2>5. phase \in Phases
      BY <1>1, PhaseNames
    <2> QED BY <1>1, <2>3, <2>4, <2>5 DEF HostTypes
  <1>5. InitTypeOK /\ RxTypeOK
    BY <1>1 DEF Init, InitInit, InitTypeOK, RxTypeOK, Stages
  <1>6. TodoIsRest /\ HeldByPhase
    BY <1>1 DEF TodoIsRest, HeldByPhase, Releasing, Attaching
  <1>7. RxHasTransfer /\ TqHasQueue /\ IcHasIc /\ UserHasOids /\ NobodyElse
    BY <1>1, <1>2, <1>3, ThreadNames
    DEF RxHasTransfer, TqHasQueue, IcHasIc, UserHasOids, NobodyElse, InCallback
  <1>8. MainSends /\ DownloadIsPhase /\ StageIsPhase /\ LocksHeld /\ NothingAsked
    BY <1>1, <1>2, ThreadNames DEF MainSends, DownloadIsPhase, StageIsPhase,
       LocksHeld, NothingAsked, Attaching
  <1> QED BY <1>4, <1>5, <1>6, <1>7, <1>8 DEF HostInv

(* So do the parts start from theirs.                                      *)
LEMMA InitAllInv == ASSUME Init PROVE AllInv
  <1>1. MbInv
    BY InitMbInv DEF Init
  <1>2. RadioInv
    BY InitSwitchInv, InitCalInv, RadioInvParts DEF Init
  <1>3. FwInv
    BY InitFwInv DEF Init
  <1> QED BY <1>1, <1>2, <1>3, InitHostInv DEF AllInv

(* A step of main's thread inside attach or detach.                        *)
LEMMA MainKeepsHost == ASSUME HostInv, MbTypeOK, MainStep PROVE HostInv'
  <1>1. CASE GiveBack
    BY <1>1, GiveBackKeepsHost
  <1>2. ASSUME NEW out \in Outcomes, ReadSysCfg(out) PROVE HostInv'
    BY <1>2, EarlyStepsKeepHost
  <1>3. ASSUME NEW out \in Outcomes, PowerOff(out) \/ DownloadStep(out) PROVE HostInv'
    <2>1. InitTypeOK
      BY DEF HostInv
    <2> QED BY <1>3, <2>1, DownloadKeepsHost
  <1>4. ASSUME NEW out \in Outcomes, ChipStep(out) PROVE HostInv'
    BY <1>4, ChipStepKeepsHost
  <1>5. ASSUME MailboxEnd(main) \/ \E out \in Outcomes : MailboxStep(main, out)
        PROVE  HostInv'
    BY <1>5, MailboxStepsKeepHost
  <1>6. ASSUME NEW out \in Outcomes, NEW blob \in BOOLEAN, TablesStep(out, blob)
        PROVE  HostInv'
    BY <1>6, TablesKeepHost
  <1>7. ASSUME NEW yes \in BOOLEAN,
               fw_acquire(yes) \/ discover_endpoints(yes) \/ xfers_setup(yes)
        PROVE  HostInv'
    BY <1>7, EarlyStepsKeepHost
  <1>8. ASSUME NEW yes \in BOOLEAN, BeginDownload(yes) PROVE HostInv'
    BY <1>8, BeginKeepsHost
  <1>9. CASE DownloadWait
    BY <1>9, WaitKeepsHost
  <1>10. CASE EndDownload
    BY <1>10, EndKeepsHost
  <1>11. CASE InfoStep
    BY <1>11, ChipStepKeepsHost
  <1>12. ASSUME \/ CoexPair("coex bt", "BT_WIFI_CONTROL", "coex tdma")
                \/ CoexPair("coex tdma", "COEX_TDMA_TYPE", "coex end")
                \/ CoexEnd
         PROVE  HostInv'
    BY <1>12, CoexKeepsHost
  <1>13. ASSUME \/ MacPair("bt", "BT_WIFI_CONTROL", "tdma")
                \/ MacPair("tdma", "COEX_TDMA_TYPE", "meter")
                \/ MeterStep
         PROVE  HostInv'
    BY <1>13, MacPairKeepsHost
  <1>14. CASE net80211_attach
    BY <1>14, NetKeepsHost
  <1> QED BY <1>1, <1>2, <1>3, <1>4, <1>5, <1>6, <1>7, <1>8, <1>9, <1>10, <1>11,
          <1>12, <1>13, <1>14 DEF MainStep

(* Any step of the driver or the chip.                                     *)
LEMMA NextKeepsHost ==
    ASSUME HostInv, MbTypeOK, FwInv, [Next]_allVars PROVE HostInv'
  <1>1. ASSUME NEW known \in BOOLEAN, attach(known) PROVE HostInv'
    BY <1>1, AttachKeepsHost
  <1>2. CASE detach
    BY <1>2, DetachKeepsHost
  <1>3. ASSUME NEW c \in {"PWR_ACTIVE", "PWR_LPS"}, lps_state(c) PROVE HostInv'
    BY <1>3, SysctlKeepsHost
  <1>4. CASE MainStep
    BY <1>4, MainKeepsHost
  <1>5. ASSUME \E s \in {main, tq, ic, user} :
                  MailboxEnd(s) \/ \E out \in Outcomes : MailboxStep(s, out)
        PROVE  HostInv'
    BY <1>5, MailboxStepsKeepHost
  <1>6. CASE TqBegin \/ TqStep
    BY <1>5, <1>6, TqKeepsHost DEF TqStep
  <1>7. CASE IcBegin \/ IcStep
    BY <1>5, <1>7, IcKeepsHost DEF IcStep
  <1>8. CASE RxBegin \/ RxStep
    BY <1>8, RxKeepsHost
  <1>9. CASE Chip
    <2>1. CASE FirmwareTakes
      BY <2>1, MailboxStepsKeepHost
    <2> QED BY <1>9, <2>1, ChipKeepsHost DEF Chip
  <1>10. CASE UNCHANGED allVars
    <2>1. /\ UNCHANGED <<hostVars, job, radioVars, fwVars, initVars, rx>>
          /\ budget' = budget /\ send' = send
      BY <1>10 DEF allVars, mbVars, hostVars
    <2>2. \A s \in Senders : Sending(s)' => Sending(s)
      BY <2>1, SendersStay
    <2> QED BY <2>1, <2>2, MailboxKeepsHost, NotSpending
  <1>11. CASE UserStep
    BY <1>5, <1>11 DEF UserStep
  <1> QED BY <1>1, <1>2, <1>3, <1>4, <1>6, <1>7, <1>8, <1>9, <1>10,
          <1>11 DEF Next

(* Each part keeps its own invariant because its step is one of its own.   *)
LEMMA NextKeepsAll == ASSUME AllInv, [Next]_allVars PROVE AllInv'
  <1>1. HostInv /\ MbInv /\ RadioInv /\ FwInv /\ MbTypeOK
    BY DEF AllInv, MbInv
  <1>2. [MbNext]_mbVars /\ [RadioNext]_radioVars /\ [FwNext]_fwState
    BY <1>1, MailboxRefined, RadioRefined, FirmwareRefined
  <1>3. HostInv'
    BY <1>1, NextKeepsHost
  <1>4. MbInv' /\ RadioInv' /\ FwInv'
    BY <1>1, <1>2, NextKeepsMb, NextKeepsRadio, NextKeepsFw
  <1> QED BY <1>3, <1>4 DEF AllInv

(* The invariant of the driver and of each of its parts holds always.      *)
THEOREM BringupInvariance == Spec => []AllInv
  <1>1. Init => AllInv
    BY InitAllInv
  <1>2. AllInv /\ [Next]_allVars => AllInv'
    BY NextKeepsAll
  <1> QED BY <1>1, <1>2, PTL DEF Spec

-----------------------------------------------------------------------------
(* What follows.                                                           *)

(* Whatever the threads of the driver and the chip do, the mailbox sees    *)
(* only calls, register accesses and takes that its own specification      *)
(* allows; in particular power is lost and the softc renewed only while    *)
(* nobody is inside rtw88_h2c_mailbox.                                     *)
THEOREM MailboxImplemented == Spec => MbSpec
  <1>1. Init => MbInit
    BY DEF Init
  <1>2. AllInv /\ [Next]_allVars => [MbNext]_mbVars
    BY MailboxRefined DEF AllInv
  <1> QED BY <1>1, <1>2, BringupInvariance, PTL DEF Spec, MbSpec

(* The radio sees only switches and calibrations, and a loss of power only *)
(* before anybody has asked for a channel.                                 *)
THEOREM RadioImplemented == Spec => RadioSpec
  <1>1. Init => RadioInit
    BY DEF Init
  <1>2. AllInv /\ [Next]_allVars => [RadioNext]_radioVars
    BY RadioRefined DEF AllInv
  <1> QED BY <1>1, <1>2, BringupInvariance, PTL DEF Spec, RadioSpec

(* The download's registers and chip memory are touched by the download    *)
(* and the chip alone, and a new life begins only when no download runs.   *)
THEOREM FirmwareImplemented == Spec => FwSpec
  <1>1. Init => FwInit
    BY DEF Init
  <1>2. AllInv /\ [Next]_allVars => [FwNext]_fwState
    BY FirmwareRefined DEF AllInv
  <1> QED BY <1>1, <1>2, BringupInvariance, PTL DEF Spec, FwSpec

(* What the parts promise alone they promise inside the driver: commands   *)
(* stay whole and are not overwritten before the firmware took them, the   *)
(* image that boots is this attach's and is written in reset, a channel    *)
(* switch is skipped only when the radio is there already, and a           *)
(* calibration reported done was its own.                                  *)
THEOREM PartsKeepPromises ==
    Spec => /\ []CommandsWhole /\ BoxesKept
            /\ []ReadyMeansImage /\ WrittenInReset
            /\ []TunedAsAsked /\ []CalibrationIsFresh
  BY MailboxImplemented, RadioImplemented, FirmwareImplemented, HalvesStayTogether,
     WaitingCommandsKept, ImageIsThisLifes, MemoryIsWrittenInReset,
     SwitchesAreNotSkipped, SentinelIsOwn, PTL

(* Every variable of the driver stays in its type; the depth of sc_mtx     *)
(* stays within two because only rtw88_coex_init takes it again.           *)
THEOREM BringupTypeCorrect == Spec => []TypeOK
  <1>1. AllInv => TypeOK
    <2> SUFFICES ASSUME AllInv PROVE TypeOK
      OBVIOUS
    <2>1. MbTypeOK /\ RadioTypeOK /\ FwTypes /\ HostInv
      BY DEF AllInv, MbInv, RadioInv, FwInv
    <2>2. depth \in 0 .. 2
      <3>1. depth = 0 \/ depth = 1 \/ depth = 2
        BY <2>1, Zenon DEF HostInv, LocksHeld
      <3> QED BY <3>1
    <2>3. FwTypeOK
      BY <2>1, <2>2, Zenon
      DEF FwTypeOK, FwTypes, DlTypes, FlagTypes, RegTypes, MemTypes
    <2> QED BY <2>1, <2>3 DEF TypeOK, HostInv, HostTypes
  <1> QED BY <1>1, BringupInvariance, PTL

(* While one resource is held, everything basic that is released later is. *)
LEMMA LaterIsHeld ==
    ASSUME HostInv, NEW order \in {UndoOrder, DetachOrder}, phase \in Releasing,
           order = OrderOf[phase], NEW k \in 1 .. Len(order), NEW m \in k .. Len(order),
           order[k] \in held, order[m] \in Base
    PROVE  order[m] \in held
  <1>1. PICK i \in DOMAIN order : RestFrom(order, i)
    BY DEF HostInv, TodoIsRest
  <1>2. /\ \A j, l \in 1 .. Len(order) : order[j] = order[l] => j = l
        /\ Len(order) \in Nat /\ DOMAIN order = 1 .. Len(order)
    <2>1. \A j, l \in 1 .. Len(order) : order[j] = order[l] => j = l
      BY OrderFacts, Zenon
    <2>2. order \in Seq(Resources)
      BY OrderFacts, Zenon
    <2>3. Len(order) \in Nat /\ DOMAIN order = 1 .. Len(order)
      BY <2>2
    <2> QED BY <2>1, <2>3
  <1>3. PICK j \in i .. Len(order) : order[j] = order[k]
    BY <1>1 DEF RestFrom
  <1>4. j = k /\ m \in i .. Len(order)
    BY <1>2, <1>3
  <1> QED BY <1>1, <1>4 DEF RestFrom

(* Where the code does see to it: the callback, the tasks, net80211's      *)
(* thread, main and a sysctl's handler.                                    *)
LEMMA GuardedAreHeld ==
    ASSUME HostInv
    PROVE  /\ InCallback => {"sc_mtx", "sc_rx_stage", "xfers"} \subseteq held
           /\ TqBusy => {"sc_mtx", "sc_tq"} \subseteq held
           /\ IcBusy => {"sc_mtx", "ic"} \subseteq held
           /\ Sending(main) \/ depth > 0 => "sc_mtx" \in held
           /\ Sending(user) => "oids" \in held
  <1>1. /\ InCallback => "xfers" \in held
        /\ TqBusy => {"sc_tq", "oids"} \subseteq held
        /\ IcBusy => "ic" \in held
        /\ Sending(user) => "oids" \in held
    BY DEF HostInv, RxHasTransfer, InCallback, TqHasQueue, IcHasIc, UserHasOids
  <1>2. CASE phase = "gone"
    <2>1. held = {} /\ ~Sending(main) /\ depth = 0
      BY <1>2 DEF HostInv, HeldByPhase, MainSends, DownloadIsPhase, LocksHeld
    <2> QED BY <1>1, <2>1
  <1>3. CASE phase \in Attaching \cup {"up"}
    <2>1. {"sc_mtx", "sc_rx_stage", "sc_tq"} \subseteq held
      BY <1>3 DEF HostInv, HeldByPhase, Base
    <2> QED BY <1>1, <2>1
  <1>4. CASE phase = "undo"
    <2>1. "oids" \notin held /\ "ic" \notin held
      BY <1>4 DEF HostInv, HeldByPhase
    <2>2. ~Sending(main) /\ depth = 0
      BY <1>4 DEF HostInv, MainSends, DownloadIsPhase, LocksHeld
    <2>3. "xfers" \in held => "sc_mtx" \in held /\ "sc_rx_stage" \in held
      <3>1. phase \in Releasing /\ OrderOf[phase] = UndoOrder
        BY <1>4 DEF Releasing, OrderOf
      <3>2. /\ 1 \in 1 .. Len(UndoOrder) /\ 4 \in 1 .. Len(UndoOrder)
            /\ 8 \in 1 .. Len(UndoOrder)
            /\ UndoOrder[4] \in Base /\ UndoOrder[8] \in Base
        BY Orders DEF Base
      <3> QED BY <3>1, <3>2, LaterIsHeld, Orders
    <2> QED BY <1>1, <2>1, <2>2, <2>3
  <1>5. CASE phase = "detach"
    <2>1. ~Sending(main) /\ depth = 0
      BY <1>5 DEF HostInv, MainSends, DownloadIsPhase, LocksHeld
    <2>2. phase \in Releasing /\ OrderOf[phase] = DetachOrder
      BY <1>5 DEF Releasing, OrderOf
    <2>3. DetachOrder[10] \in Base /\ DetachOrder[12] \in Base
      BY Orders DEF Base
    <2>4. \A k \in 1 .. 13 : \A m \in k .. 13 :
             DetachOrder[k] \in held /\ DetachOrder[m] \in Base =>
                 DetachOrder[m] \in held
      <3>1. Len(DetachOrder) = 13
        BY Orders
      <3> QED BY <2>2, <3>1, LaterIsHeld
    <2>5. "xfers" \in held => "sc_mtx" \in held /\ "sc_rx_stage" \in held
      <3>1. 6 \in 1 .. 13 /\ 10 \in 6 .. 13 /\ 12 \in 6 .. 13
        OBVIOUS
      <3> QED BY <2>3, <2>4, <3>1, Orders
    <2>6. "sc_tq" \in held => "sc_mtx" \in held
      <3>1. 5 \in 1 .. 13 /\ 12 \in 5 .. 13
        OBVIOUS
      <3> QED BY <2>3, <2>4, <3>1, Orders
    <2>7. "ic" \in held => "sc_mtx" \in held
      <3>1. 2 \in 1 .. 13 /\ 12 \in 2 .. 13
        OBVIOUS
      <3> QED BY <2>3, <2>4, <3>1, Orders
    <2> QED BY <1>1, <2>1, <2>5, <2>6, <2>7
  <1>6. phase \in {"gone", "undo", "detach"} \cup Attaching \cup {"up"}
    BY DEF HostInv, HostTypes, Phases, Attaching
  <1> QED BY <1>2, <1>3, <1>4, <1>5, <1>6

(* Wherever attach fails and whatever runs while detach gives resources    *)
(* back - tasks of a late keep-alive and sysctl handlers included - nobody *)
(* at work lacks a resource, but for the two cases of Unguarded: net80211  *)
(* in the receive callback, sc_mtx in a sysctl handler.                    *)
THEOREM OnlyUnguardedIsLacked == Spec => []LackOnlyUnguarded
  <1>1. HostInv => LackOnlyUnguarded
    <2> SUFFICES ASSUME HostInv, NEW u \in DOMAIN Needs, AtWork[u], NEW r \in Needs[u]
                 PROVE  r \in held \/ <<u, r>> \in Unguarded
      BY DEF LackOnlyUnguarded
    <2>1. u \in {"rx", "tq", "ic", "main", "user"}
      BY DEF Needs
    <2>2. CASE u = "rx"
      BY <2>2, GuardedAreHeld DEF Needs, AtWork, Unguarded
    <2>3. CASE u = "tq"
      BY <2>3, GuardedAreHeld DEF Needs, AtWork
    <2>4. CASE u = "ic"
      BY <2>4, GuardedAreHeld DEF Needs, AtWork
    <2>5. CASE u = "main"
      BY <2>5, GuardedAreHeld DEF Needs, AtWork
    <2>6. CASE u = "user"
      BY <2>6, GuardedAreHeld DEF Needs, AtWork, Unguarded
    <2> QED BY <2>1, <2>2, <2>3, <2>4, <2>5, <2>6
  <1> QED BY <1>1, BringupInvariance, PTL DEF AllInv

(* Whatever attach failed at, and after every detach, nothing is left.     *)
THEOREM AllIsGivenBack == Spec => []NothingLeft
  <1>1. HostInv => NothingLeft
    <2> SUFFICES ASSUME HostInv, phase = "gone"
                 PROVE  /\ held = {} /\ rx.at = "none" /\ depth = 0
                        /\ ~TqBusy /\ ~IcBusy /\ ~Sending(user)
      BY DEF NothingLeft
    <2>1. held = {}
      BY DEF HostInv, HeldByPhase
    <2>2. ~TqBusy /\ ~IcBusy /\ ~Sending(user)
      BY Alone, ThreadNames
    <2>3. rx.at = "none"
      BY <2>1 DEF HostInv, RxHasTransfer
    <2>4. depth = 0
      BY DEF HostInv, DownloadIsPhase, LocksHeld
    <2> QED BY <2>1, <2>2, <2>3, <2>4
  <1> QED BY <1>1, BringupInvariance, PTL DEF AllInv

(* Whatever attach does before it, the eFuse walk it calls lays out every  *)
(* map as its records say and stays inside its buffers.                    *)
THEOREM EfuseAlwaysRight == Spec => []EfuseRight
  <1>1. EfuseRight
    BY EfuseWalkHolds DEF EfuseRight
  <1> QED BY <1>1, PTL

(* Of every block of a table the first branch that the device meets is     *)
(* applied, or the ELSE, in order, and nothing else.                       *)
THEOREM TablesAlwaysRight == Spec => []TablesRight
  <1>1. TablesRight
    BY TableWalkHolds DEF TablesRight
  <1> QED BY <1>1, PTL

(* The aggregate loop hands on packets that lie inside the transfer and do *)
(* not overlap, and misses none that arrived whole.                        *)
THEOREM AggregatesAlwaysRight == Spec => []AggregatesRight
  <1>1. AggregatesRight
    BY AggregateWalkHolds DEF AggregatesRight
  <1> QED BY <1>1, PTL
=============================================================================
