------------------------------- MODULE MCEp0 -------------------------------
(* Ep0 for TLC: register users on an always-on register and an ordinary    *)
(* one; calls of every kind, three of them changing the same register.     *)
EXTENDS Ep0

CONSTANTS t1, t2, t3, rOn, rOff, b1, b2

MCProgram ==
    {[kind |-> "setbits", addr |-> rOn,  bits |-> {b1}],
     [kind |-> "clrbits", addr |-> rOn,  bits |-> {b2}],
     [kind |-> "write",   addr |-> rOn,  bits |-> {b2}],
     [kind |-> "read",    addr |-> rOff, bits |-> {}]}
=============================================================================
