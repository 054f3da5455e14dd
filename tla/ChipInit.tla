------------------------------ MODULE ChipInit ------------------------------
(***************************************************************************)
(* What attach does to a chip whose firmware runs: the eFuse, the MAC      *)
(* (rtw88_mac_init) and the baseband and radio (rtw88_phy_set_param).      *)
(* Every part is a list of register accesses; the first that fails leaves  *)
(* the part, and with it the function that called it, half done.  Attach   *)
(* goes on all the same.                                                   *)
(***************************************************************************)
EXTENDS Naturals, Access

CONSTANT DeviceRfe      \* rfe_option in the eFuse
ASSUME ChipInitAssumption == DeviceRfe \in 0 .. 31

VARIABLES
    stage,          \* the part the thread is at
    inited,         \* parts the chip has been taken through completely
    sc_rfe_option   \* 0, or what was read

initVars == <<stage, inited, sc_rfe_option>>

Parts == {"txdma", "prioq", "h2cq", "wmac", "drvinfo", "burst", "sec", "bb",
          "tables", "btg", "xtal", "bf"}
Stages == Parts \cup {"no", "efuse", "info", "bt", "tdma", "meter", "done"}

InitTypeOK ==
    /\ stage \in Stages /\ inited \subseteq Parts
    /\ sc_rfe_option \in {0, DeviceRfe}

InitInit == stage = "no" /\ inited = {} /\ sc_rfe_option = 0

(* Part p with outcome out: next part, or the exit of its function.        *)
Part(p, out, next, exit) ==
    /\ stage = p
    /\ IF out = "ok" THEN stage' = next /\ inited' = inited \cup {p}
       ELSE stage' = exit /\ inited' = inited \ {p}
    /\ UNCHANGED sc_rfe_option

-----------------------------------------------------------------------------

(* rtw88_efuse_read: the physical map byte by byte, the walk (see Efuse),  *)
(* the fields.  An error leaves the defaults in place.                     *)
efuse_read(out) ==
    /\ stage = "efuse" /\ stage' = "txdma"
    /\ sc_rfe_option' = IF out = "ok" THEN DeviceRfe ELSE 0
    /\ UNCHANGED inited

-----------------------------------------------------------------------------
(* rtw88_mac_init.                                                         *)

txdma_queue_mapping(out) == Part("txdma", out, "prioq", "bb")

(* Ends with a wait for the chip to build its page list (LLT).             *)
priority_queue_cfg(out) == Part("prioq", out, "h2cq", "bb")

(* The queue bulk H2C packets arrive in.                                   *)
init_h2c(out) == Part("h2cq", out, "wmac", "bb")

mac_init_8821c(out) == Part("wmac", out, "drvinfo", "bb")
drv_info_cfg(out) == Part("drvinfo", out, "burst", "bb")
usb_init_burst(out) == Part("burst", out, "sec", "bb")

(* Security engine, AID, BSSID: errors are ignored.                        *)
MacTail(out) == Part("sec", out, "info", "info")

(* GENERAL_INFO and PHYDM_INFO as bulk packets; then the coexistence pair  *)
(* through the mailbox (see Bringup).                                      *)
InfoPackets == stage = "info" /\ stage' = "bt" /\ UNCHANGED <<inited, sc_rfe_option>>

(* The thermal meter is started, and mac_init returns.                     *)
ThermalMeter ==
    stage = "meter" /\ stage' = "bb" /\ UNCHANGED <<inited, sc_rfe_option>>

-----------------------------------------------------------------------------
(* rtw88_phy_set_param.                                                    *)

BtgTable == sc_rfe_option \in {2, 4}

PowerBaseband(out) == Part("bb", out, "tables", "done")

(* rtw88_phy_load_blob_locked, or rtw88_load_mac_tbl when there is none.   *)
LoadTables(out) ==
    Part("tables", out, IF BtgTable THEN "btg" ELSE "xtal", "done")

(* The AGC table of a front end shared with Bluetooth, and the RF table    *)
(* once more from the blob: without a blob that is an error.               *)
BtgReplay(out, blob) ==
    Part("btg", IF blob THEN out ELSE "lost", "xtal", "done")

(* Crystal, commit, snapshot of the filter words; DIG is started.          *)
CommitBaseband(out) == Part("xtal", out, "bf", "done")

(* Errors ignored.                                                         *)
bf_phy_init(out) == Part("bf", out, "done", "done")
=============================================================================
