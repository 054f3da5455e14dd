----------------------------- MODULE MCBringup -----------------------------
(***************************************************************************)
(* Values for Bringup: two attaches with one failed access among them, or  *)
(* one attach with one failed access and two pieces of work after it; maps *)
(* and tables small enough to enumerate.                                   *)
(***************************************************************************)
EXTENDS Bringup
MCSenders == {"main", "ic", "tq", "user"}
MCLayout == <<"DMEM", "IMEM">>
MCBudgets == {[lives |-> 1, attach |-> 2, after |-> 0, work |-> 0],
              [lives |-> 2, attach |-> 1, after |-> 0, work |-> 0],
              [lives |-> 1, attach |-> 0, after |-> 1, work |-> 2]}
OneAttach == {[lives |-> 1, attach |-> 0, after |-> 0, work |-> 0]}
MCEfuseDim == [size |-> 8, protect |-> 1]
MCEfuseRecords ==
    [blk : {0, 1}, long : BOOLEAN,
     words : {<<>>, 0 :> <<17, 34>>, 1 :> <<51, 68>>, (0 :> <<1, 2>>) @@ (2 :> <<3, 4>>)}]
MCDevice == [cut |-> 1, pkg |-> 1, rfe |-> 2]
MCConds == {[cut |-> 1, pkg |-> 0, intf |-> 2, rfe |-> 2],
            [cut |-> 2, pkg |-> 0, intf |-> 0, rfe |-> 2],
            [cut |-> 0, pkg |-> 1, intf |-> 1, rfe |-> 2],
            [cut |-> 0, pkg |-> 0, intf |-> 0, rfe |-> 0]}
MCBodies == {<<11>>, <<12, 13>>}
MCRxDescs ==
    [drv_info_sz : {0, 2}, shift : {0}, pkt_len : {1, 2, 5}, is_c2h : {FALSE},
     crc_err : {FALSE}]
    \cup {[drv_info_sz |-> 0, shift |-> 1, pkt_len |-> 2, is_c2h |-> TRUE,
           crc_err |-> FALSE],
          [drv_info_sz |-> 0, shift |-> 0, pkt_len |-> 3, is_c2h |-> FALSE,
           crc_err |-> TRUE]}
=============================================================================
