---------------------------- MODULE AtomicRegs ----------------------------
(***************************************************************************)
(* What the EP0 layer promises its callers: a register file on which each  *)
(* call - a read, a write, or a whole read-modify-write - takes effect at  *)
(* one instant between its start and its end, or fails.                    *)
(***************************************************************************)
CONSTANTS Threads, Regs, Bits, Program

VARIABLES
    st,         \* idle; called: made, no effect yet; applied: took effect
    call,       \* the call each thread is in, or made last
    reg         \* the registers

vars == <<st, call, reg>>

(* What a call makes of the register it names.                             *)
Effect(c, v) ==
    CASE c.kind = "read"    -> v
      [] c.kind = "write"   -> c.bits
      [] c.kind = "setbits" -> v \cup c.bits
      [] c.kind = "clrbits" -> v \ c.bits

Init ==
    /\ st = [t \in Threads |-> "idle"]
    /\ call \in [Threads -> Program]
    /\ reg = [r \in Regs |-> {}]

(* A call starts: the thread's first, or the next one of its chain, made   *)
(* in the same critical section as the end of the one before.              *)
Start(t) ==
    /\ \E c \in Program : call' = [call EXCEPT ![t] = c]
    /\ st' = [st EXCEPT ![t] = "called"]
    /\ UNCHANGED reg

Apply(t) ==
    /\ st[t] = "called"
    /\ st' = [st EXCEPT ![t] = "applied"]
    /\ reg' = [reg EXCEPT ![call[t].addr] = Effect(call[t], @)]
    /\ UNCHANGED call

(* A call ends: after it took effect, or failed (with or without effect).  *)
End(t) ==
    /\ st[t] # "idle"
    /\ st' = [st EXCEPT ![t] = "idle"]
    /\ UNCHANGED <<call, reg>>

Next == \E t \in Threads : Start(t) \/ Apply(t) \/ End(t)

Spec == Init /\ [][Next]_vars
=============================================================================
