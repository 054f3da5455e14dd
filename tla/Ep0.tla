-------------------------------- MODULE Ep0 --------------------------------
(***************************************************************************)
(* Register access over USB endpoint 0 (if_rtw88_usb.c, "P30").            *)
(*                                                                         *)
(* Every driver thread reaches the chip's registers through                *)
(* rtw88_usb_{read,write}_region, called with sc_mtx held.  sc_mtx is NOT  *)
(* held all the way: usbd_do_request_flags drops it while the control      *)
(* request is on the wire, and msleep drops it while a thread waits for    *)
(* the claim sc_io_busy.  One action below is what a thread does between   *)
(* two such points; all of it runs under sc_mtx, so sc_mtx itself needs no *)
(* variable.                                                               *)
(*                                                                         *)
(* A register holds a set of bits.  A call is a read, a write, or one of   *)
(* the read-modify-writes setbits1/clrbits1: two region accesses with the  *)
(* claim given up in between.  A thread may make several calls in one      *)
(* critical section (a chain), as almost every user of this layer does.    *)
(* A thread that unlocks, or sleeps in usb_pause_mtx or cv_timedwait, is   *)
(* "idle" here: it holds neither sc_mtx nor the claim.                     *)
(***************************************************************************)
EXTENDS Naturals

CONSTANTS
    Threads,        \* kernel threads that touch registers
    Regs,           \* register addresses
    OnSection,      \* the addresses of the always-on section
    Bits,           \* the bits of a register
    Program,        \* the calls the threads may make
    MaxCalls,       \* bound: calls a thread makes in a behaviour
    MaxErrors       \* bound: control requests that fail in a behaviour

Kinds == {"read", "write", "setbits", "clrbits"}
Calls == [kind : Kinds, addr : Regs, bits : SUBSET Bits]

ASSUME Ep0Assumption ==
    /\ OnSection \subseteq Regs
    /\ Program \subseteq Calls /\ Program # {}
    /\ MaxCalls \in Nat
    /\ MaxErrors \in Nat

VARIABLES
    pc,                     \* where each thread is
    call,                   \* the call each thread is in, or made last
    phase,                  \* which access of the call: "rd" or "wr"
    val,                    \* the caller's buffer
    made,                   \* calls made so far
    sc_io_busy,             \* the EP0 claim
    reg,                    \* the chip's registers
    unsealed,               \* threads whose ON-section access is not sealed
    sc_stat_usb_errors

vars == <<pc, call, phase, val, made, sc_io_busy, reg, unsealed,
          sc_stat_usb_errors>>

(* asleep: in io_enter's msleep; woken: picked by wakeup_one, has not yet  *)
(* looked at the claim again; wire: request issued; served: the chip has   *)
(* acted, usbd has not returned; seal: reg_sec's request is on the wire.   *)
PCs == {"idle", "asleep", "woken", "wire", "served", "seal"}

(* The places between io_enter and io_exit.                                *)
Claiming == {"wire", "served", "seal"}

FirstPhase(c) == IF c.kind = "write" THEN "wr" ELSE "rd"

(* A thread that has made no call yet: any value will do.                  *)
AnyCall == CHOOSE c \in Program : TRUE

Init ==
    /\ pc = [t \in Threads |-> "idle"]
    /\ call = [t \in Threads |-> AnyCall]
    /\ phase = [t \in Threads |-> "rd"]
    /\ val = [t \in Threads |-> {}]
    /\ made = [t \in Threads |-> 0]
    /\ sc_io_busy = FALSE
    /\ reg = [r \in Regs |-> {}]
    /\ unsealed = {}
    /\ sc_stat_usb_errors = 0

----------------------------------------------------------------------------
(* Thread t loads its next call: the buffer of a write is the caller's.    *)
Load(t, c) ==
    /\ made[t] < MaxCalls
    /\ made' = [made EXCEPT ![t] = @ + 1]
    /\ call' = [call EXCEPT ![t] = c]
    /\ phase' = [phase EXCEPT ![t] = FirstPhase(c)]
    /\ val' = [val EXCEPT ![t] = IF c.kind = "write" THEN c.bits ELSE {}]

(* Mutant: the claim is taken without looking whether it is free.          *)
io_enter_unchecked(t, p, busy) ==
    /\ pc' = [p EXCEPT ![t] = "wire"]
    /\ sc_io_busy' = TRUE

(* io_enter: sleep while the claim is taken, else take it and issue the    *)
(* request.  p is pc as this thread finds it.                              *)
rtw88_usb_io_enter(t, p, busy) ==
    /\ pc' = [p EXCEPT ![t] = IF busy THEN "asleep" ELSE "wire"]
    /\ sc_io_busy' = TRUE

(* Mutant: nobody is woken.                                                *)
io_exit_silent(p) == {p}

(* io_exit: what wakeup_one may make of pc.                                *)
rtw88_usb_io_exit(p) ==
    LET sleepers == {u \in Threads : p[u] = "asleep"}
    IN  IF sleepers = {} THEN {p}
        ELSE {[p EXCEPT ![u] = "woken"] : u \in sleepers}

(* A thread takes sc_mtx and makes a call.                                 *)
Begin(t) ==
    /\ pc[t] = "idle"
    /\ \E c \in Program : Load(t, c)
    /\ rtw88_usb_io_enter(t, pc, sc_io_busy)
    /\ UNCHANGED <<reg, unsealed, sc_stat_usb_errors>>

(* msleep returns with sc_mtx held; the loop looks at the claim again.     *)
Recheck(t) ==
    /\ pc[t] = "woken"
    /\ rtw88_usb_io_enter(t, pc, sc_io_busy)
    /\ UNCHANGED <<call, phase, val, made, reg, unsealed, sc_stat_usb_errors>>

(* The chip serves the control request of t.                               *)
Serve(t) ==
    /\ pc[t] = "wire"
    /\ pc' = [pc EXCEPT ![t] = "served"]
    /\ IF phase[t] = "rd"
       THEN /\ val' = [val EXCEPT ![t] = reg[call[t].addr]]
            /\ UNCHANGED reg
       ELSE /\ reg' = [reg EXCEPT ![call[t].addr] = val[t]]
            /\ UNCHANGED val
    /\ unsealed' = IF call[t].addr \in OnSection
                   THEN unsealed \cup {t} ELSE unsealed
    /\ UNCHANGED <<call, phase, made, sc_io_busy, sc_stat_usb_errors>>

(* What follows io_exit in the same critical section: the thread unlocks   *)
(* (or sleeps elsewhere), or goes on to its next call and finds the claim  *)
(* free again, since sc_mtx was never dropped in between.                  *)
Leave(t, p) ==
    \/ /\ pc' = [p EXCEPT ![t] = "idle"]
       /\ sc_io_busy' = FALSE
       /\ UNCHANGED <<call, phase, val, made>>
    \/ /\ \E c \in Program : Load(t, c)
       /\ rtw88_usb_io_enter(t, p, FALSE)

(* Mutant: sc_mtx is dropped between the halves of a read-modify-write.    *)
AccessDone_unlocked(t) ==
    \E p \in rtw88_usb_io_exit(pc) :
        IF phase[t] = "rd" /\ call[t].kind \in {"setbits", "clrbits"}
        THEN /\ pc' = [p EXCEPT ![t] = "woken"]
             /\ sc_io_busy' = FALSE
             /\ phase' = [phase EXCEPT ![t] = "wr"]
             /\ val' = [val EXCEPT ![t] =
                          IF call[t].kind = "setbits" THEN @ \cup call[t].bits
                          ELSE @ \ call[t].bits]
             /\ UNCHANGED <<call, made>>
        ELSE Leave(t, p)

(* The tail of a region access that succeeded: io_exit, then the second    *)
(* half of setbits1/clrbits1, or the end of the call.                      *)
AccessDone(t) ==
    \E p \in rtw88_usb_io_exit(pc) :
        IF phase[t] = "rd" /\ call[t].kind \in {"setbits", "clrbits"}
        THEN /\ rtw88_usb_io_enter(t, p, FALSE)
             /\ phase' = [phase EXCEPT ![t] = "wr"]
             /\ val' = [val EXCEPT ![t] =
                          IF call[t].kind = "setbits" THEN @ \cup call[t].bits
                          ELSE @ \ call[t].bits]
             /\ UNCHANGED <<call, made>>
        ELSE Leave(t, p)

(* Mutant: the seal write is forgotten.                                    *)
Return_unsealed(t) ==
    /\ pc[t] = "served"
    /\ AccessDone(t)
    /\ UNCHANGED <<reg, unsealed, sc_stat_usb_errors>>

(* usbd returns success: seal an ON-section access, else finish.           *)
Return(t) ==
    /\ pc[t] = "served"
    /\ IF call[t].addr \in OnSection
       THEN /\ pc' = [pc EXCEPT ![t] = "seal"]
            /\ UNCHANGED <<call, phase, val, made, sc_io_busy>>
       ELSE AccessDone(t)
    /\ UNCHANGED <<reg, unsealed, sc_stat_usb_errors>>

(* reg_sec's own request ends, well or badly: its result is not looked at. *)
rtw88_usb_reg_sec(t) ==
    /\ pc[t] = "seal"
    /\ unsealed' = unsealed \ {t}
    /\ AccessDone(t)
    /\ UNCHANGED <<reg, sc_stat_usb_errors>>

(* Mutants: an error is counted twice; EIO is returned without io_exit.    *)
Fail_counted_twice(t) ==
    /\ pc[t] \in {"wire", "served"}
    /\ sc_stat_usb_errors < MaxErrors
    /\ sc_stat_usb_errors' = sc_stat_usb_errors + 2
    /\ unsealed' = unsealed \ {t}
    /\ \E p \in rtw88_usb_io_exit(pc) : Leave(t, p)
    /\ UNCHANGED reg

Fail_without_exit(t) ==
    /\ pc[t] \in {"wire", "served"}
    /\ sc_stat_usb_errors < MaxErrors
    /\ sc_stat_usb_errors' = sc_stat_usb_errors + 1
    /\ pc' = [pc EXCEPT ![t] = "idle"]
    /\ UNCHANGED <<call, phase, val, made, sc_io_busy, reg, unsealed>>

(* usbd returns an error (the chip may or may not have acted): count it,   *)
(* io_exit, EIO.  No seal, no second half of a read-modify-write.          *)
Fail(t) ==
    /\ pc[t] \in {"wire", "served"}
    /\ sc_stat_usb_errors < MaxErrors
    /\ sc_stat_usb_errors' = sc_stat_usb_errors + 1
    /\ unsealed' = unsealed \ {t}
    /\ \E p \in rtw88_usb_io_exit(pc) : Leave(t, p)
    /\ UNCHANGED reg

Step(t) ==
    \/ Begin(t)
    \/ Recheck(t)
    \/ Serve(t)
    \/ Return(t)
    \/ rtw88_usb_reg_sec(t)
    \/ Fail(t)

Next == \E t \in Threads : Step(t)

(* A request on the wire completes or times out (EP0 requests carry a      *)
(* timeout) and a runnable thread runs.  Beginning a call is not fair.     *)
Fairness == \A t \in Threads : WF_vars(Step(t) /\ ~Begin(t))

Spec == Init /\ [][Next]_vars
FairSpec == Spec /\ Fairness

----------------------------------------------------------------------------
(* The variables hold what their comments say.                             *)
TypeOK ==
    /\ pc \in [Threads -> PCs]
    /\ call \in [Threads -> Program]
    /\ phase \in [Threads -> {"rd", "wr"}]
    /\ val \in [Threads -> SUBSET Bits]
    /\ made \in [Threads -> 0 .. MaxCalls]
    /\ sc_io_busy \in BOOLEAN
    /\ reg \in [Regs -> SUBSET Bits]
    /\ unsealed \in SUBSET Threads
    /\ sc_stat_usb_errors \in 0 .. MaxErrors

(* Between io_enter and io_exit there is at most one thread, and exactly   *)
(* when sc_io_busy is set: no two threads' requests overlap on EP0 even    *)
(* though usbd drops sc_mtx under each of them.                            *)
OneClaimant ==
    /\ \A t, u \in Threads : pc[t] \in Claiming /\ pc[u] \in Claiming => t = u
    /\ sc_io_busy <=> \E t \in Threads : pc[t] \in Claiming

(* wakeup_one in io_exit wakes one sleeper, who may find the claim taken   *)
(* again by the very thread that woke it: still nobody sleeps with the     *)
(* claim free and no one on the way to look at it.                         *)
NoLostWakeup ==
    (\E t \in Threads : pc[t] = "asleep") =>
        sc_io_busy \/ \E u \in Threads : pc[u] = "woken"

(* A read-modify-write gives the claim up between its read and its write,  *)
(* yet what it is about to write is computed from what the register still  *)
(* holds: no other thread's update is overwritten.                         *)
UpdateIsCurrent ==
    \A t \in Threads :
        pc[t] = "wire" /\ phase[t] = "wr" =>
            /\ call[t].kind = "setbits" =>
                   val[t] = reg[call[t].addr] \cup call[t].bits
            /\ call[t].kind = "clrbits" =>
                   val[t] = reg[call[t].addr] \ call[t].bits

(* The whole layer implements AtomicRegs: each call, read-modify-writes    *)
(* included, takes effect at one instant.                                  *)
CallState ==
    [t \in Threads |->
        IF pc[t] = "idle" THEN "idle"
        ELSE IF /\ pc[t] \in {"served", "seal"}
                /\ phase[t] = "wr" \/ call[t].kind = "read"
             THEN "applied"
             ELSE "called"]

Atomic == INSTANCE AtomicRegs WITH st <- CallState

AtomicSpec == Atomic!Spec

(* No access reaches the chip while an earlier ON-section access that      *)
(* succeeded still waits for its seal write: reg_sec rides the claim of    *)
(* its parent, so the seal follows its access directly.                    *)
SealBeforeNext ==
    [][\A t \in Threads :
          pc[t] = "wire" /\ pc'[t] = "served" => unsealed = {}]_vars

(* Every thread that waits for the claim gets it and gets through: with a  *)
(* bounded number of calls no thread is left asleep.                       *)
CallsReturn == \A t \in Threads : []<>(pc[t] = "idle")
=============================================================================
