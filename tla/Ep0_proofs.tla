---------------------------- MODULE Ep0_proofs ----------------------------
(* Proofs about the EP0 layer, for any number of threads, registers, bits, *)
(* calls and errors.                                                       *)
EXTENDS Ep0, TLAPS

(* A thread with an unsealed access is between that access and its seal.   *)
SealPending ==
    \A t \in Threads :
        t \in unsealed => /\ pc[t] \in {"served", "seal"}
                         /\ call[t].addr \in OnSection

(* What a thread has just read is still what the register holds: nobody    *)
(* else's request is served before the thread's own next one.              *)
ReadIsCurrent ==
    \A t \in Threads :
        pc[t] \in {"served", "seal"} /\ phase[t] = "rd" =>
            val[t] = reg[call[t].addr]

(* A thread waits for the claim only before the first access of a call,    *)
(* never between the read and the write of a read-modify-write.            *)
WaitsAtStart ==
    \A t \in Threads :
        pc[t] \in {"asleep", "woken"} => phase[t] = FirstPhase(call[t])

(* A plain write still has its caller's bits in the buffer, and a plain    *)
(* read has no second access.                                              *)
WriteIsCallers ==
    \A t \in Threads :
        /\ pc[t] # "idle" /\ call[t].kind = "write" =>
               phase[t] = "wr" /\ val[t] = call[t].bits
        /\ pc[t] # "idle" /\ call[t].kind = "read" => phase[t] = "rd"

IInv ==
    /\ TypeOK
    /\ OneClaimant
    /\ NoLostWakeup
    /\ WaitsAtStart
    /\ WriteIsCallers
    /\ ReadIsCurrent
    /\ UpdateIsCurrent
    /\ SealPending

(* wakeup_one keeps pc's type, only turns a sleeper into a woken thread,   *)
(* and wakes one when there is one.                                        *)
LEMMA WakeupOne ==
    ASSUME pc \in [Threads -> PCs],
           NEW p \in rtw88_usb_io_exit(pc)
    PROVE  /\ p \in [Threads -> PCs]
           /\ \A u \in Threads : \/ p[u] = pc[u]
                                 \/ pc[u] = "asleep" /\ p[u] = "woken"
           /\ (\E u \in Threads : pc[u] = "asleep") =>
                  \E u \in Threads : p[u] = "woken"
  <1>1. CASE \A u \in Threads : pc[u] # "asleep"
    BY <1>1 DEF rtw88_usb_io_exit
  <1>2. CASE \E u \in Threads : pc[u] = "asleep"
    <2>1. PICK w \in Threads : pc[w] = "asleep" /\ p = [pc EXCEPT ![w] = "woken"]
      BY <1>2 DEF rtw88_usb_io_exit
    <2> QED BY <2>1 DEF PCs
  <1> QED BY <1>1, <1>2

(* At attach the claim is free and every thread idle: the invariant holds. *)
LEMMA InitIInv == Init => IInv
  <1> SUFFICES ASSUME Init PROVE IInv
    OBVIOUS
  <1>1. AnyCall \in Program
    BY Ep0Assumption DEF AnyCall
  <1>2. MaxCalls \in Nat /\ MaxErrors \in Nat
    BY Ep0Assumption
  <1>3. TypeOK
    <2>1. pc \in [Threads -> PCs] BY DEF Init, PCs
    <2>2. call \in [Threads -> Program] BY <1>1 DEF Init
    <2>3. phase \in [Threads -> {"rd", "wr"}] BY DEF Init
    <2>4. val \in [Threads -> SUBSET Bits] BY DEF Init
    <2>5. made \in [Threads -> 0 .. MaxCalls] BY <1>2 DEF Init
    <2>6. sc_io_busy \in BOOLEAN BY DEF Init
    <2>7. reg \in [Regs -> SUBSET Bits] BY DEF Init
    <2>8. unsealed \in SUBSET Threads BY DEF Init
    <2>9. sc_stat_usb_errors \in 0 .. MaxErrors BY <1>2 DEF Init
    <2> QED BY <2>1, <2>2, <2>3, <2>4, <2>5, <2>6, <2>7, <2>8, <2>9 DEF TypeOK
  <1> QED
    BY <1>3 DEF Init, IInv, OneClaimant, NoLostWakeup, WaitsAtStart,
        WriteIsCallers, ReadIsCurrent, UpdateIsCurrent, SealPending, Claiming

(* Loading a call keeps the types.                                         *)
LEMMA LoadType ==
    ASSUME TypeOK, NEW t \in Threads, NEW c \in Program, Load(t, c)
    PROVE  /\ call' \in [Threads -> Program]
           /\ phase' \in [Threads -> {"rd", "wr"}]
           /\ val' \in [Threads -> SUBSET Bits]
           /\ made' \in [Threads -> 0 .. MaxCalls]
           /\ call'[t] = c
           /\ phase'[t] = FirstPhase(c)
           /\ c.kind = "write" => val'[t] = c.bits
           /\ \A u \in Threads \ {t} : /\ call'[u] = call[u]
                                       /\ phase'[u] = phase[u]
                                       /\ val'[u] = val[u]
  <1>1. c.bits \in SUBSET Bits
    BY Ep0Assumption DEF Calls
  <1>2. made[t] + 1 \in 0 .. MaxCalls
    BY Ep0Assumption DEF TypeOK, Load
  <1> QED
    BY <1>1, <1>2 DEF TypeOK, Load, FirstPhase

(* The end of a call: io_exit, then unlock or the next call of the chain.  *)
(* Used for an access that succeeded and for one that failed.              *)
LEMMA LeavePreserves ==
    ASSUME IInv, NEW t \in Threads, pc[t] \in Claiming,
           NEW p \in rtw88_usb_io_exit(pc), Leave(t, p),
           reg' = reg, unsealed' \subseteq unsealed \ {t},
           sc_stat_usb_errors' \in 0 .. MaxErrors
    PROVE  IInv'
  <1> USE DEF IInv
  <1>1. pc \in [Threads -> PCs]
    BY DEF TypeOK
  <1>2. /\ p \in [Threads -> PCs]
        /\ \A u \in Threads : \/ p[u] = pc[u]
                              \/ pc[u] = "asleep" /\ p[u] = "woken"
        /\ (\E u \in Threads : pc[u] = "asleep") =>
               \E u \in Threads : p[u] = "woken"
    BY <1>1, WakeupOne
  <1>3. \A u \in Threads \ {t} : pc[u] \notin Claiming /\ p[u] \notin Claiming
    BY <1>2 DEF OneClaimant, Claiming
  <1>4. unsealed' = {}
    BY <1>3 DEF SealPending, TypeOK, Claiming
  <1>5. CASE /\ pc' = [p EXCEPT ![t] = "idle"]
             /\ sc_io_busy' = FALSE
             /\ UNCHANGED <<call, phase, val, made>>
    <2>1. TypeOK'
      BY <1>2, <1>4, <1>5 DEF TypeOK, PCs
    <2>2. OneClaimant'
      BY <1>2, <1>3, <1>5 DEF OneClaimant, Claiming
    <2>3. NoLostWakeup'
      BY <1>2, <1>5 DEF NoLostWakeup, Claiming
    <2>4. UpdateIsCurrent'
      BY <1>2, <1>3, <1>5 DEF UpdateIsCurrent, Claiming
    <2>5. SealPending'
      BY <1>4 DEF SealPending
    <2>6. ReadIsCurrent'
      BY <1>2, <1>3, <1>5 DEF ReadIsCurrent, Claiming
    <2>7. WaitsAtStart'
      BY <1>2, <1>5 DEF WaitsAtStart
    <2>8. WriteIsCallers'
      BY <1>2, <1>5 DEF WriteIsCallers
    <2> QED BY <2>1, <2>2, <2>3, <2>4, <2>5, <2>6, <2>7, <2>8
  <1>6. ASSUME NEW c \in Program, Load(t, c), rtw88_usb_io_enter(t, p, FALSE)
        PROVE  IInv'
    <2>1. pc' = [p EXCEPT ![t] = "wire"] /\ sc_io_busy' = TRUE
      BY <1>6 DEF rtw88_usb_io_enter
    <2>2. /\ call' \in [Threads -> Program]
          /\ phase' \in [Threads -> {"rd", "wr"}]
          /\ val' \in [Threads -> SUBSET Bits]
          /\ made' \in [Threads -> 0 .. MaxCalls]
          /\ call'[t] = c
          /\ phase'[t] = FirstPhase(c)
          /\ c.kind = "write" => val'[t] = c.bits
          /\ \A u \in Threads \ {t} : /\ call'[u] = call[u]
                                      /\ phase'[u] = phase[u]
                                      /\ val'[u] = val[u]
      BY <1>6, LoadType
    <2>3. TypeOK'
      BY <1>2, <1>4, <2>1, <2>2 DEF TypeOK, PCs
    <2>4. OneClaimant'
      BY <1>2, <1>3, <2>1 DEF OneClaimant, Claiming
    <2>5. NoLostWakeup'
      BY <2>1 DEF NoLostWakeup
    <2>6. UpdateIsCurrent'
      BY <1>2, <1>3, <2>1, <2>2 DEF UpdateIsCurrent, Claiming, FirstPhase
    <2>7. SealPending'
      BY <1>4 DEF SealPending
    <2>8. ReadIsCurrent'
      BY <1>2, <1>3, <2>1 DEF ReadIsCurrent, Claiming
    <2>9. WaitsAtStart'
      BY <1>2, <2>1, <2>2 DEF WaitsAtStart
    <2>10. WriteIsCallers'
      BY <1>2, <2>1, <2>2 DEF WriteIsCallers, FirstPhase
    <2> QED BY <2>3, <2>4, <2>5, <2>6, <2>7, <2>8, <2>9, <2>10
  <1> QED BY <1>5, <1>6 DEF Leave

(* A region access that succeeded, its seal (if any) sent.                 *)
LEMMA AccessDonePreserves ==
    ASSUME IInv, NEW t \in Threads, AccessDone(t),
           pc[t] \in {"served", "seal"},
           reg' = reg, unsealed' \subseteq unsealed \ {t},
           sc_stat_usb_errors' = sc_stat_usb_errors
    PROVE  IInv'
  <1> USE DEF IInv
  <1>1. PICK p \in rtw88_usb_io_exit(pc) :
            IF phase[t] = "rd" /\ call[t].kind \in {"setbits", "clrbits"}
            THEN /\ rtw88_usb_io_enter(t, p, FALSE)
                 /\ phase' = [phase EXCEPT ![t] = "wr"]
                 /\ val' = [val EXCEPT ![t] =
                              IF call[t].kind = "setbits"
                              THEN @ \cup call[t].bits
                              ELSE @ \ call[t].bits]
                 /\ UNCHANGED <<call, made>>
            ELSE Leave(t, p)
    BY DEF AccessDone
  <1>2. pc[t] \in Claiming
    BY DEF Claiming
  <1>3. CASE ~(phase[t] = "rd" /\ call[t].kind \in {"setbits", "clrbits"})
    <2>1. Leave(t, p)
      BY <1>1, <1>3
    <2>2. sc_stat_usb_errors' \in 0 .. MaxErrors
      BY DEF TypeOK
    <2> QED BY <1>2, <2>1, <2>2, LeavePreserves
  <1>4. CASE phase[t] = "rd" /\ call[t].kind \in {"setbits", "clrbits"}
    <2>1. /\ pc' = [p EXCEPT ![t] = "wire"] /\ sc_io_busy' = TRUE
          /\ phase' = [phase EXCEPT ![t] = "wr"]
          /\ val' = [val EXCEPT ![t] = IF call[t].kind = "setbits"
                                       THEN val[t] \cup call[t].bits
                                       ELSE val[t] \ call[t].bits]
          /\ UNCHANGED <<call, made>>
      BY <1>1, <1>4 DEF rtw88_usb_io_enter
    <2>2. /\ p \in [Threads -> PCs]
          /\ \A u \in Threads : \/ p[u] = pc[u]
                                \/ pc[u] = "asleep" /\ p[u] = "woken"
      BY WakeupOne DEF TypeOK
    <2>3. \A u \in Threads \ {t} : pc[u] \notin Claiming /\ p[u] \notin Claiming
      BY <1>2, <2>2 DEF OneClaimant, Claiming
    <2>4. unsealed' = {}
      BY <2>3 DEF SealPending, TypeOK, Claiming
    <2>5. call[t].bits \in SUBSET Bits
      BY Ep0Assumption DEF TypeOK, Calls
    <2>6. TypeOK'
      BY <2>1, <2>2, <2>4, <2>5 DEF TypeOK, PCs
    <2>7. OneClaimant'
      BY <2>1, <2>2, <2>3 DEF OneClaimant, Claiming
    <2>8. NoLostWakeup'
      BY <2>1 DEF NoLostWakeup
    <2>9. ReadIsCurrent'
      BY <2>1, <2>2, <2>3 DEF ReadIsCurrent, Claiming, TypeOK
    <2>10. UpdateIsCurrent'
      <3>1. val[t] = reg[call[t].addr]
        BY <1>4 DEF ReadIsCurrent
      <3> QED
        BY <3>1, <1>4, <2>1, <2>2, <2>3 DEF UpdateIsCurrent, Claiming, TypeOK
    <2>11. SealPending'
      BY <2>4 DEF SealPending
    <2>12. WaitsAtStart'
      BY <2>1, <2>2 DEF WaitsAtStart, TypeOK
    <2>13. WriteIsCallers'
      BY <1>4, <2>1, <2>2 DEF WriteIsCallers, TypeOK
    <2> QED BY <2>6, <2>7, <2>8, <2>9, <2>10, <2>11, <2>12, <2>13
  <1> QED BY <1>3, <1>4

----------------------------------------------------------------------------
(* Every step a thread takes between two sleeps preserves the invariant.   *)
LEMMA NextIInv == IInv /\ [Next]_vars => IInv'
  <1> SUFFICES ASSUME IInv, [Next]_vars PROVE IInv'
    OBVIOUS
  <1> USE DEF IInv
  <1>1. CASE UNCHANGED vars
    BY <1>1 DEF vars, TypeOK, OneClaimant, NoLostWakeup, WaitsAtStart,
        WriteIsCallers, ReadIsCurrent, UpdateIsCurrent, SealPending
  <1>2. ASSUME NEW t \in Threads, Begin(t) PROVE IInv'
    <2>1. PICK c \in Program : Load(t, c)
      BY <1>2 DEF Begin
    <2>2. /\ call' \in [Threads -> Program]
          /\ phase' \in [Threads -> {"rd", "wr"}]
          /\ val' \in [Threads -> SUBSET Bits]
          /\ made' \in [Threads -> 0 .. MaxCalls]
          /\ call'[t] = c
          /\ phase'[t] = FirstPhase(c)
          /\ c.kind = "write" => val'[t] = c.bits
          /\ \A u \in Threads \ {t} : /\ call'[u] = call[u]
                                      /\ phase'[u] = phase[u]
                                      /\ val'[u] = val[u]
      BY <2>1, LoadType
    <2>3. /\ pc[t] = "idle"
          /\ pc' = [pc EXCEPT ![t] = IF sc_io_busy THEN "asleep" ELSE "wire"]
          /\ sc_io_busy' = TRUE
          /\ UNCHANGED <<reg, unsealed, sc_stat_usb_errors>>
      BY <1>2 DEF Begin, rtw88_usb_io_enter
    <2>4. TypeOK'
      BY <2>2, <2>3 DEF TypeOK, PCs
    <2>5. OneClaimant'
      BY <2>3 DEF OneClaimant, TypeOK, Claiming
    <2>6. NoLostWakeup'
      BY <2>3 DEF NoLostWakeup
    <2>7. ReadIsCurrent'
      BY <2>2, <2>3 DEF ReadIsCurrent, TypeOK
    <2>8. UpdateIsCurrent'
      BY <2>2, <2>3 DEF UpdateIsCurrent, TypeOK, FirstPhase
    <2>9. SealPending'
      BY <2>2, <2>3 DEF SealPending, TypeOK
    <2>10. WaitsAtStart'
      BY <2>2, <2>3 DEF WaitsAtStart, TypeOK
    <2>11. WriteIsCallers'
      BY <2>2, <2>3 DEF WriteIsCallers, FirstPhase, TypeOK
    <2> QED BY <2>4, <2>5, <2>6, <2>7, <2>8, <2>9, <2>10, <2>11
  <1>3. ASSUME NEW t \in Threads, Recheck(t) PROVE IInv'
    <2>1. /\ pc[t] = "woken"
          /\ pc' = [pc EXCEPT ![t] = IF sc_io_busy THEN "asleep" ELSE "wire"]
          /\ sc_io_busy' = TRUE
          /\ UNCHANGED <<call, phase, val, made, reg, unsealed,
                         sc_stat_usb_errors>>
      BY <1>3 DEF Recheck, rtw88_usb_io_enter
    <2>2. TypeOK'
      BY <2>1 DEF TypeOK, PCs
    <2>3. OneClaimant'
      BY <2>1 DEF OneClaimant, TypeOK, Claiming
    <2>4. NoLostWakeup'
      BY <2>1 DEF NoLostWakeup
    <2>5. WaitsAtStart'
      BY <2>1 DEF WaitsAtStart, TypeOK
    <2>6. ReadIsCurrent'
      BY <2>1 DEF ReadIsCurrent, TypeOK
    <2>7. UpdateIsCurrent'
      BY <2>1 DEF UpdateIsCurrent, WaitsAtStart, FirstPhase, TypeOK
    <2>8. SealPending'
      BY <2>1 DEF SealPending, TypeOK
    <2>9. WriteIsCallers'
      BY <2>1 DEF WriteIsCallers, TypeOK
    <2> QED BY <2>2, <2>3, <2>4, <2>5, <2>6, <2>7, <2>8, <2>9
  <1>4. ASSUME NEW t \in Threads, Serve(t) PROVE IInv'
    <2>1. /\ pc[t] = "wire"
          /\ pc' = [pc EXCEPT ![t] = "served"]
          /\ unsealed' = IF call[t].addr \in OnSection
                         THEN unsealed \cup {t} ELSE unsealed
          /\ UNCHANGED <<call, phase, made, sc_io_busy, sc_stat_usb_errors>>
      BY <1>4 DEF Serve
    <2>2. /\ phase[t] = "rd" => /\ val' = [val EXCEPT ![t] = reg[call[t].addr]]
                               /\ reg' = reg
          /\ phase[t] = "wr" => /\ reg' = [reg EXCEPT ![call[t].addr] = val[t]]
                               /\ val' = val
      BY <1>4 DEF Serve
    <2>3. \A u \in Threads \ {t} : pc[u] \notin Claiming
      BY <2>1 DEF OneClaimant, Claiming
    <2>4. call[t].addr \in Regs /\ phase[t] \in {"rd", "wr"}
      BY Ep0Assumption DEF TypeOK, Calls
    <2>5. TypeOK'
      <3>1. val' \in [Threads -> SUBSET Bits] /\ reg' \in [Regs -> SUBSET Bits]
        BY <2>2, <2>4 DEF TypeOK
      <3> QED BY <2>1, <3>1 DEF TypeOK, PCs
    <2>6. OneClaimant'
      BY <2>1 DEF OneClaimant, TypeOK, Claiming
    <2>7. NoLostWakeup'
      BY <2>1 DEF NoLostWakeup, TypeOK
    <2>8. WaitsAtStart'
      BY <2>1 DEF WaitsAtStart, TypeOK
    <2>9. ReadIsCurrent'
      BY <2>1, <2>2, <2>3, <2>4 DEF ReadIsCurrent, TypeOK, Claiming
    <2>10. UpdateIsCurrent'
      BY <2>1, <2>3 DEF UpdateIsCurrent, TypeOK, Claiming
    <2>11. SealPending'
      BY <2>1 DEF SealPending, TypeOK
    <2>12. WriteIsCallers'
      BY <2>1, <2>2 DEF WriteIsCallers, TypeOK
    <2> QED BY <2>5, <2>6, <2>7, <2>8, <2>9, <2>10, <2>11, <2>12
  <1>5. ASSUME NEW t \in Threads, Return(t) PROVE IInv'
    <2>1. CASE call[t].addr \in OnSection
      <3>1. /\ pc[t] = "served"
            /\ pc' = [pc EXCEPT ![t] = "seal"]
            /\ UNCHANGED <<call, phase, val, made, sc_io_busy, reg, unsealed,
                           sc_stat_usb_errors>>
        BY <1>5, <2>1 DEF Return
      <3>2. TypeOK'
        BY <3>1 DEF TypeOK, PCs
      <3>3. OneClaimant'
        BY <3>1 DEF OneClaimant, TypeOK, Claiming
      <3>4. NoLostWakeup' /\ WaitsAtStart'
        BY <3>1 DEF NoLostWakeup, WaitsAtStart, TypeOK
      <3>5. ReadIsCurrent' /\ UpdateIsCurrent' /\ SealPending'
        BY <3>1 DEF ReadIsCurrent, UpdateIsCurrent, SealPending, TypeOK
      <3>6. WriteIsCallers'
        BY <3>1 DEF WriteIsCallers, TypeOK
      <3> QED BY <3>2, <3>3, <3>4, <3>5, <3>6
    <2>2. CASE call[t].addr \notin OnSection
      <3>1. /\ pc[t] = "served" /\ AccessDone(t)
            /\ reg' = reg /\ unsealed' = unsealed
            /\ sc_stat_usb_errors' = sc_stat_usb_errors
        BY <1>5, <2>2 DEF Return
      <3>2. t \notin unsealed
        BY <2>2 DEF SealPending
      <3> QED BY <3>1, <3>2, AccessDonePreserves
    <2> QED BY <2>1, <2>2
  <1>6. ASSUME NEW t \in Threads, rtw88_usb_reg_sec(t) PROVE IInv'
    BY <1>6, AccessDonePreserves DEF rtw88_usb_reg_sec
  <1>7. ASSUME NEW t \in Threads, Fail(t) PROVE IInv'
    <2>1. PICK p \in rtw88_usb_io_exit(pc) : Leave(t, p)
      BY <1>7 DEF Fail
    <2>2. sc_stat_usb_errors' \in 0 .. MaxErrors
      BY <1>7, Ep0Assumption DEF Fail, TypeOK
    <2>3. /\ pc[t] \in Claiming /\ reg' = reg
          /\ unsealed' \subseteq unsealed \ {t}
      BY <1>7 DEF Fail, Claiming
    <2> QED BY <2>1, <2>2, <2>3, LeavePreserves
  <1> QED
    BY <1>1, <1>2, <1>3, <1>4, <1>5, <1>6, <1>7 DEF Next, Step

(* The inductive invariant of the EP0 layer holds throughout.              *)
THEOREM Invariance == Spec => []IInv
  <1> QED BY InitIInv, NextIInv, PTL DEF Spec

(* sc_io_busy is a lock, for any number of threads: requests of two        *)
(* threads never overlap on EP0.                                           *)
THEOREM ClaimIsExclusive == Spec => []OneClaimant
  <1>1. IInv => OneClaimant
    BY DEF IInv
  <1> QED BY <1>1, Invariance, PTL

(* io_exit's wakeup_one never strands a sleeper.                           *)
THEOREM NobodyStranded == Spec => []NoLostWakeup
  <1>1. IInv => NoLostWakeup
    BY DEF IInv
  <1> QED BY <1>1, Invariance, PTL

(* setbits1/clrbits1 lose no update of another thread.                     *)
THEOREM NoLostUpdate == Spec => []UpdateIsCurrent
  <1>1. IInv => UpdateIsCurrent
    BY DEF IInv
  <1> QED BY <1>1, Invariance, PTL

(* The variables stay in their types.                                      *)
THEOREM TypeCorrect == Spec => []TypeOK
  <1>1. IInv => TypeOK
    BY DEF IInv
  <1> QED BY <1>1, Invariance, PTL

(* The seal of an ON-section access precedes every later access.           *)
THEOREM SealComesFirst == Spec => SealBeforeNext
  <1>1. IInv /\ [Next]_vars =>
          [\A t \in Threads :
              pc[t] = "wire" /\ pc'[t] = "served" => unsealed = {}]_vars
    <2> SUFFICES ASSUME IInv, NEW t \in Threads, pc[t] = "wire"
                 PROVE  unsealed = {}
      OBVIOUS
    <2> QED BY DEF IInv, OneClaimant, SealPending, TypeOK, Claiming
  <1> QED BY <1>1, Invariance, PTL DEF Spec, SealBeforeNext

----------------------------------------------------------------------------
(* The end of a call, in AtomicRegs: an End or the Start of the next call. *)
LEMMA LeaveRefines ==
    ASSUME IInv, NEW t \in Threads, pc[t] \in Claiming,
           NEW p \in rtw88_usb_io_exit(pc), Leave(t, p), reg' = reg
    PROVE  Atomic!Start(t) \/ Atomic!End(t)
  <1>1. /\ p \in [Threads -> PCs]
        /\ \A u \in Threads : \/ p[u] = pc[u]
                              \/ pc[u] = "asleep" /\ p[u] = "woken"
    BY WakeupOne DEF IInv, TypeOK
  <1>2. CallState \in [Threads -> {"idle", "called", "applied"}] /\ CallState[t] # "idle"
    BY DEF CallState, Claiming
  <1>3. CASE /\ pc' = [p EXCEPT ![t] = "idle"]
             /\ UNCHANGED <<call, phase, val, made>>
    <2>1. CallState' = [CallState EXCEPT ![t] = "idle"]
      BY <1>1, <1>3 DEF CallState
    <2> QED BY <1>2, <1>3, <2>1 DEF Atomic!End
  <1>4. ASSUME NEW c \in Program, Load(t, c), rtw88_usb_io_enter(t, p, FALSE)
        PROVE  Atomic!Start(t)
    <2>1. pc' = [p EXCEPT ![t] = "wire"]
      BY <1>4 DEF rtw88_usb_io_enter
    <2>2. call' = [call EXCEPT ![t] = c] /\ phase' = [phase EXCEPT ![t] = FirstPhase(c)]
      BY <1>4 DEF Load
    <2>3. CallState' = [CallState EXCEPT ![t] = "called"]
      BY <1>1, <2>1, <2>2 DEF CallState, IInv, TypeOK
    <2> QED BY <2>2, <2>3 DEF Atomic!Start
  <1> QED BY <1>3, <1>4 DEF Leave

(* The tail of a successful access, in AtomicRegs: stutter, End or Start.  *)
LEMMA AccessDoneRefines ==
    ASSUME IInv, NEW t \in Threads, AccessDone(t),
           pc[t] \in {"served", "seal"}, reg' = reg
    PROVE  Atomic!Start(t) \/ Atomic!End(t) \/ UNCHANGED Atomic!vars
  <1>1. PICK p \in rtw88_usb_io_exit(pc) :
            IF phase[t] = "rd" /\ call[t].kind \in {"setbits", "clrbits"}
            THEN /\ rtw88_usb_io_enter(t, p, FALSE)
                 /\ phase' = [phase EXCEPT ![t] = "wr"]
                 /\ UNCHANGED call
            ELSE Leave(t, p)
    BY DEF AccessDone
  <1>2. CASE ~(phase[t] = "rd" /\ call[t].kind \in {"setbits", "clrbits"})
    BY <1>1, <1>2, LeaveRefines DEF Claiming
  <1>3. CASE phase[t] = "rd" /\ call[t].kind \in {"setbits", "clrbits"}
    <2>1. /\ p \in [Threads -> PCs]
          /\ \A u \in Threads : \/ p[u] = pc[u]
                                \/ pc[u] = "asleep" /\ p[u] = "woken"
      BY WakeupOne DEF IInv, TypeOK
    <2>2. /\ pc' = [p EXCEPT ![t] = "wire"]
          /\ phase' = [phase EXCEPT ![t] = "wr"] /\ call' = call
      BY <1>1, <1>3 DEF rtw88_usb_io_enter
    <2>3. CallState' = CallState
      BY <1>3, <2>1, <2>2 DEF CallState, IInv, TypeOK
    <2> QED BY <2>2, <2>3 DEF Atomic!vars
  <1> QED BY <1>2, <1>3

(* The chip serving a request is where the call takes effect, except for   *)
(* the read half of a read-modify-write, which AtomicRegs does not see.    *)
LEMMA ServeRefines ==
    ASSUME IInv, NEW t \in Threads, Serve(t)
    PROVE  Atomic!Apply(t) \/ UNCHANGED Atomic!vars
  <1>1. /\ pc[t] = "wire"
        /\ pc' = [pc EXCEPT ![t] = "served"]
        /\ UNCHANGED <<call, phase>>
    BY DEF Serve
  <1>2. /\ call[t].addr \in Regs /\ call[t].kind \in Kinds
        /\ phase[t] \in {"rd", "wr"} /\ CallState[t] = "called"
    BY <1>1, Ep0Assumption DEF IInv, TypeOK, Calls, CallState
  <1>3. CASE phase[t] = "rd" /\ call[t].kind # "read"
    <2>1. CallState' = CallState /\ reg' = reg
      BY <1>1, <1>3 DEF CallState, Serve, IInv, TypeOK
    <2> QED BY <1>1, <2>1 DEF Atomic!vars
  <1>4. CASE phase[t] = "wr" \/ call[t].kind = "read"
    <2>1. CallState' = [CallState EXCEPT ![t] = "applied"]
      BY <1>1, <1>4 DEF CallState, IInv, TypeOK
    <2>2. reg' = [reg EXCEPT ![call[t].addr] =
                     Atomic!Effect(call[t], reg[call[t].addr])]
      <3>1. CASE phase[t] = "rd"
        BY <3>1, <1>4 DEF Serve, Atomic!Effect, IInv, TypeOK
      <3>2. CASE phase[t] = "wr"
        <4>1. reg' = [reg EXCEPT ![call[t].addr] = val[t]]
          BY <3>2 DEF Serve
        <4>2. val[t] = Atomic!Effect(call[t], reg[call[t].addr])
          BY <1>1, <1>2, <3>2
          DEF IInv, UpdateIsCurrent, WriteIsCallers, Atomic!Effect, Kinds
        <4> QED BY <4>1, <4>2
      <3> QED BY <1>2, <3>1, <3>2
    <2> QED BY <1>1, <1>2, <2>1, <2>2 DEF Atomic!Apply
  <1> QED BY <1>2, <1>3, <1>4

(* Spec implements AtomicRegs.                                             *)
THEOREM CallsAreAtomic == Spec => AtomicSpec
  <1>1. Init => Atomic!Init
    <2>1. AnyCall \in Program
      BY Ep0Assumption DEF AnyCall
    <2> QED BY <2>1 DEF Init, Atomic!Init, CallState
  <1>2. IInv /\ [Next]_vars => [Atomic!Next]_Atomic!vars
    <2> SUFFICES ASSUME IInv, [Next]_vars
                 PROVE  Atomic!Next \/ UNCHANGED Atomic!vars
      BY DEF Atomic!vars
    <2>1. CASE UNCHANGED vars
      BY <2>1 DEF vars, Atomic!vars, CallState
    <2>2. ASSUME NEW t \in Threads, Begin(t) PROVE Atomic!Start(t)
      <3>1. PICK c \in Program : Load(t, c)
        BY <2>2 DEF Begin
      <3>2. call' = [call EXCEPT ![t] = c] /\ phase' = [phase EXCEPT ![t] = FirstPhase(c)]
        BY <3>1 DEF Load
      <3>3. /\ pc' = [pc EXCEPT ![t] = IF sc_io_busy THEN "asleep" ELSE "wire"]
            /\ reg' = reg
        BY <2>2 DEF Begin, rtw88_usb_io_enter
      <3>4. CallState' = [CallState EXCEPT ![t] = "called"]
        BY <3>2, <3>3 DEF CallState, IInv, TypeOK
      <3> QED BY <3>2, <3>3, <3>4 DEF Atomic!Start
    <2>3. ASSUME NEW t \in Threads, Recheck(t) PROVE UNCHANGED Atomic!vars
      <3>1. /\ pc[t] = "woken"
            /\ pc' = [pc EXCEPT ![t] = IF sc_io_busy THEN "asleep" ELSE "wire"]
            /\ UNCHANGED <<reg, call, phase>>
        BY <2>3 DEF Recheck, rtw88_usb_io_enter
      <3>2. CallState' = CallState
        BY <3>1 DEF CallState, IInv, TypeOK
      <3> QED BY <3>1, <3>2 DEF Atomic!vars
    <2>4. ASSUME NEW t \in Threads, Return(t)
          PROVE  Atomic!Start(t) \/ Atomic!End(t) \/ UNCHANGED Atomic!vars
      <3>1. CASE call[t].addr \in OnSection
        <4>1. /\ pc[t] = "served" /\ pc' = [pc EXCEPT ![t] = "seal"]
              /\ UNCHANGED <<reg, call, phase>>
          BY <2>4, <3>1 DEF Return
        <4>2. CallState' = CallState
          BY <4>1 DEF CallState, IInv, TypeOK
        <4> QED BY <4>1, <4>2 DEF Atomic!vars
      <3>2. CASE call[t].addr \notin OnSection
        BY <2>4, <3>2, AccessDoneRefines DEF Return
      <3> QED BY <3>1, <3>2
    <2>5. ASSUME NEW t \in Threads, rtw88_usb_reg_sec(t)
          PROVE  Atomic!Start(t) \/ Atomic!End(t) \/ UNCHANGED Atomic!vars
      BY <2>5, AccessDoneRefines DEF rtw88_usb_reg_sec
    <2>6. ASSUME NEW t \in Threads, Fail(t)
          PROVE  Atomic!Start(t) \/ Atomic!End(t)
      BY <2>6, LeaveRefines DEF Fail, Claiming
    <2> QED
      BY <2>1, <2>2, <2>3, <2>4, <2>5, <2>6, ServeRefines
      DEF Next, Step, Atomic!Next
  <1> QED
    BY <1>1, <1>2, Invariance, PTL DEF Spec, AtomicSpec, Atomic!Spec

=============================================================================
