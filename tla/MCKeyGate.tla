----------------------------- MODULE MCKeyGate -----------------------------
(* KeyGate for TLC: how many frames of each kind are handed over.          *)
EXTENDS KeyGate

TwoEach == [m4 |-> 2, data |-> 2]
OneEach == [m4 |-> 1, data |-> 1]
M4Only == [m4 |-> 1, data |-> 0]
NoFrames == [m4 |-> 0, data |-> 0]
=============================================================================
