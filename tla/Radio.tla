-------------------------------- MODULE Radio --------------------------------
(***************************************************************************)
(* Channel switches and IQ calibration.                                    *)
(*                                                                         *)
(* net80211 switches channels from its own thread (`ic'): four groups of   *)
(* registers in order, then WL_CH_INFO through the mailbox, and only then  *)
(* sc_cur_channel, which later calls compare with.  sc_tq's thread (`tq')  *)
(* has the firmware calibrate: a bulk H2C packet asks for it, RF register  *)
(* 8 is polled for a sentinel and written back to zero.                    *)
(***************************************************************************)
EXTENDS Mailbox, Sequences

CONSTANTS
    ic, tq,         \* the two threads, members of Senders
    Channels,       \* channels net80211 may ask for
    Widths,         \* widths it may ask for; "20" is one of them
    ChipChannels,   \* channels in a band the chip has (RTW88_CAP_2GHZ, 5GHZ)
    ChipWidths,     \* widths it has (RTW88_CAP_HT40, VHT80, and "20")
    MaxIqkPolls     \* reads of the sentinel before ETIMEDOUT (300)

ASSUME RadioAssumption ==
    /\ ic \in Senders /\ tq \in Senders /\ ic # tq
    /\ "20" \in Widths \cap ChipWidths
    /\ MaxIqkPolls \in Nat \ {0}

VARIABLES
    sc_cur_channel, sc_cur_bw,
    tuned,      \* per register group: the setting it was last programmed for
    switch,     \* where ic is in rtw88_phy_set_channel, and for what
    asked,      \* what net80211 asked for last
    failed,     \* the last switch that was begun ended in an error
    cal,        \* where tq is in rtw88_phy_calibration
    iqk,        \* calibrations asked of the firmware and not run yet
    dtxlok,     \* the sentinel is in RF register 8
    unclean     \* a calibration timed out or could not reset the sentinel

radioVars == <<sc_cur_channel, sc_cur_bw, tuned, switch, asked, failed, cal,
               iqk, dtxlok, unclean>>
switchVars == <<sc_cur_channel, sc_cur_bw, tuned, switch, asked, failed>>
calVars == <<cal, iqk, dtxlok, unclean>>

(* BB tuning and bandwidth, MAC housekeeping, RF, receive filter; each has *)
(* a 2.4 and a 5 GHz form.                                                 *)
Groups == <<"bb", "mac", "rf", "rxdfir">>

Unset == <<0, "20">>
Torn == <<"torn">>
Settings == Channels \X Widths

RadioTypeOK ==
    /\ sc_cur_channel \in Channels \cup {0} /\ sc_cur_bw \in Widths
    /\ tuned \in [{"bb", "mac", "rf", "rxdfir"} ->
                     Settings \cup {Unset, Torn}]
    /\ switch \in [at : 0 .. 2, to : Settings \cup {Unset}]
    /\ asked \in Settings \cup {Unset} /\ failed \in BOOLEAN
    /\ cal \in [pc : {"no", "poll", "reset", "done", "timeout"},
                try : 0 .. MaxIqkPolls - 1, ok : BOOLEAN]
    /\ iqk \in Nat /\ dtxlok \in BOOLEAN /\ unclean \in BOOLEAN

RadioInit ==
    /\ sc_cur_channel = 0 /\ sc_cur_bw = "20"
    /\ tuned = [g \in {"bb", "mac", "rf", "rxdfir"} |-> Unset]
    /\ switch = [at |-> 0, to |-> Unset] /\ asked = Unset /\ failed = FALSE
    /\ cal = [pc |-> "no", try |-> 0, ok |-> FALSE]
    /\ iqk = 0 /\ dtxlok = FALSE /\ unclean = FALSE

Switching == switch.at # 0
Calibrating == cal.pc # "no"

-----------------------------------------------------------------------------

(* A width the chip does not have becomes 20 MHz.                          *)
Supported(w) == IF w \in ChipWidths THEN w ELSE "20"

(* Mutant: the width is not compared.                                      *)
SameSetting_channel(c, w) == c = sc_cur_channel

(* rtw88_set_channel returns at once when nothing would change.  The       *)
(* width compared is the one asked for, not the one it becomes.            *)
SameSetting(c, w) == c = sc_cur_channel /\ w = sc_cur_bw

(* rtw88_set_channel and the entry of rtw88_phy_set_channel: nothing to    *)
(* do, a channel the chip lacks, or the first group is next.               *)
set_channel(c, w) ==
    /\ ~Switching /\ ~Sending(ic)
    /\ asked' = IF c \in ChipChannels THEN <<c, Supported(w)>> ELSE asked
    /\ IF SameSetting(c, w) \/ c \notin ChipChannels
       THEN UNCHANGED <<switch, failed>>
       ELSE switch' = [at |-> 1, to |-> <<c, Supported(w)>>] /\ failed' = FALSE
    /\ UNCHANGED <<sc_cur_channel, sc_cur_bw, tuned>>

(* The four groups are written in order, all without an error, and the     *)
(* firmware is told (an error there is only reported).  Nobody else works  *)
(* on these registers, so the groups are one step.  All of the switch is   *)
(* one sc_mtx section.                                                     *)
SwitchRegisters ==
    /\ switch.at = 1
    /\ tuned' = [g \in DOMAIN tuned |-> switch.to]
    /\ sc_cur_bw' = switch.to[2]
    /\ CallInside(ic, "WL_CH_INFO")
    /\ switch' = [switch EXCEPT !.at = 2]
    /\ UNCHANGED <<sc_cur_channel, asked, failed>>

(* An error in the middle of group n leaves it partly written and the      *)
(* later ones as they were, ends the switch and leaves sc_cur_* alone.     *)
SwitchFails(n) ==
    /\ switch.at = 1 /\ bus = None
    /\ tuned' = [g \in DOMAIN tuned |->
                    CASE g \in {Groups[k] : k \in 1 .. n - 1} -> switch.to
                      [] g = Groups[n] -> Torn
                      [] OTHER -> tuned[g]]
    /\ switch' = [at |-> 0, to |-> Unset] /\ failed' = TRUE
    /\ UNCHANGED <<sc_cur_channel, sc_cur_bw, asked>>

(* TX report and power registers, errors ignored, then sc_cur_channel.     *)
SwitchDone ==
    /\ switch.at = 2 /\ Unlock(ic)
    /\ sc_cur_channel' = switch.to[1]
    /\ switch' = [at |-> 0, to |-> Unset]
    /\ UNCHANGED <<sc_cur_bw, tuned, asked, failed>>

-----------------------------------------------------------------------------

(* rtw88_prepare_tx_task: rtw88_fw_do_iqk sends the request through the    *)
(* synchronous bulk path.  One that fails there ends the calibration.      *)
calibration(out) ==
    /\ ~Calibrating
    /\ iqk' = IF Landed(out) THEN iqk + 1 ELSE iqk
    /\ cal' = [pc |-> IF out = "ok" THEN "poll" ELSE "no", try |-> 0,
               ok |-> FALSE]
    /\ unclean' = (unclean \/ out = "late")
    /\ UNCHANGED dtxlok

(* One read of RF register 8; an error counts as "not yet".                *)
CalPoll(out) ==
    /\ cal.pc = "poll"
    /\ cal' = IF out = "ok" /\ dtxlok
              THEN [cal EXCEPT !.pc = "reset", !.ok = TRUE]
              ELSE IF cal.try + 1 < MaxIqkPolls
                   THEN [cal EXCEPT !.try = @ + 1]
              ELSE [cal EXCEPT !.pc = "reset"]
    /\ UNCHANGED <<iqk, dtxlok, unclean>>

(* Mutant: the sentinel is left in place.                                  *)
CalReset_not(out) ==
    /\ cal.pc = "reset"
    /\ cal' = [cal EXCEPT !.pc = IF cal.ok THEN "done" ELSE "timeout", !.try = 0]
    /\ unclean' = (unclean \/ ~cal.ok \/ out # "ok")
    /\ UNCHANGED <<iqk, dtxlok>>

(* The sentinel is reset, the error of that write ignored.                 *)
CalReset(out) ==
    /\ cal.pc = "reset"
    /\ dtxlok' = (dtxlok /\ ~Landed(out))
    /\ cal' = [cal EXCEPT !.pc = IF cal.ok THEN "done" ELSE "timeout", !.try = 0]
    /\ unclean' = (unclean \/ ~cal.ok \/ out # "ok")
    /\ UNCHANGED iqk

(* prepare_tx_task ignores the result.                                     *)
CalReturn ==
    /\ cal.pc \in {"done", "timeout"}
    /\ cal' = [pc |-> "no", try |-> 0, ok |-> FALSE]
    /\ UNCHANGED <<iqk, dtxlok, unclean>>

(* The firmware runs a calibration it was asked for.                       *)
FwCalibrate ==
    /\ iqk > 0 /\ iqk' = iqk - 1
    /\ dtxlok' = TRUE
    /\ UNCHANGED <<cal, unclean>>

-----------------------------------------------------------------------------

(* When set_channel has returned and the switch did not fail, every group  *)
(* of registers and the cached setting are those net80211 asked for last:  *)
(* the early return never skips a switch that was needed.  (After a failed *)
(* switch it may: sc_cur_channel still names the channel of before.)       *)
TunedAsAsked ==
    ~Switching /\ ~failed /\ asked # Unset =>
        /\ <<sc_cur_channel, sc_cur_bw>> = asked
        /\ \A g \in DOMAIN tuned : tuned[g] = asked

(* A calibration that reports success saw the sentinel of the request it   *)
(* made itself, unless an earlier one timed out (its answer may come late) *)
(* or could not reset the sentinel.                                        *)
CalibrationIsFresh ==
    cal.pc = "done" /\ ~unclean => iqk = 0
=============================================================================
