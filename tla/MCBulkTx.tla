------------------------------ MODULE MCBulkTx ------------------------------
(* BulkTx for TLC: which frames the stack hands over, in which order, and  *)
(* how many a queue holds.                                                 *)
EXTENDS BulkTx

MixedFrames == <<"be", "mgmt", "be", "vo">>
OneMgmt == <<"mgmt">>
TwoMgmt == <<"mgmt", "mgmt">>
Caps == [mgmt |-> 2, be |-> 1, vo |-> 1]
=============================================================================
