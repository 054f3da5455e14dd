--------------------------- MODULE Timers_proofs ---------------------------
(* Proofs about the timers and detach, for any number of associations.     *)
EXTENDS Timers, TLAPS

USE DEF TimerNames, Tasks, NetStates, RunStates, netVars, timerVars, dogVars

(* Once detach has switched a timer off it is off, or was started again.   *)
OffHolds ==
    /\ detach >= 2 => ~active["dig"] \/ "dig" \in late
    /\ detach >= 6 => ~active["fwka"] \/ "fwka" \in late

(* Once detach has drained its callout for the first time, the callout is  *)
(* neither pending nor running, or the timer was started again: a task     *)
(* that is still running finds the timer off and does not arm.             *)
DrainHolds ==
    /\ detach >= 3 /\ "dig" \notin late => "dig" \notin armed \cup firing
    /\ detach >= 7 /\ "fwka" \notin late => "fwka" \notin armed \cup firing

IInv == TypeOK /\ TimerAlive /\ OffHolds /\ DrainHolds /\ QuietAfterDetach

(* What rtw88_usb_detach does at each of its steps.                        *)
LEMMA StepsOfDetach ==
    /\ Len(DetachSteps) = 12
    /\ \A d \in 0 .. 11, t \in {"dig", "fwka"} :
           /\ DetachSteps[d + 1] = <<"off", t>> <=>
                  (d = 1 /\ t = "dig") \/ (d = 5 /\ t = "fwka")
           /\ DetachSteps[d + 1] = <<"callout", t>> <=>
                  (d \in {2, 4} /\ t = "dig") \/ (d \in {6, 8} /\ t = "fwka")
           /\ DetachSteps[d + 1] = <<"ifdetach", "net80211">> <=> d = 0
           /\ DetachSteps[d + 1] = <<"free", "sc_tq">> <=> d = 11
    /\ \A d \in 0 .. 11, t \in Tasks :
           DetachSteps[d + 1] = <<"task", t>> =>
               d \in {3, 7, 9, 10}
  BY DEF DetachSteps

(* When a start counts as late.                                            *)
LEMMA LateStart ==
    ASSUME detach \in 0 .. 12
    PROVE  /\ (\E i \in 1 .. detach : DetachSteps[i] = <<"off", "dig">>)
                  <=> detach >= 2
           /\ (\E i \in 1 .. detach : DetachSteps[i] = <<"off", "fwka">>)
                  <=> detach >= 6
  BY DEF DetachSteps

(* The tasks on the queue, after an enqueue and after a dequeue.           *)
LEMMA EnqueuedTasks ==
    ASSUME NEW qu \in Seq(Tasks), NEW t \in Tasks
    PROVE  /\ Enqueued(qu, t) \in Seq(Tasks)
           /\ ToSet(Enqueued(qu, t)) = ToSet(qu) \cup {t}
  <1>1. CASE t \in ToSet(qu)
    BY <1>1 DEF Enqueued
  <1>2. CASE t \notin ToSet(qu)
    <2> DEFINE ap == Append(qu, t)
    <2>1. ap \in Seq(Tasks) /\ Len(qu) \in Nat /\ DOMAIN qu = 1 .. Len(qu)
          /\ DOMAIN ap = 1 .. (Len(qu) + 1) /\ ap[Len(qu) + 1] = t
          /\ \A i \in 1 .. Len(qu) : ap[i] = qu[i]
      OBVIOUS
    <2>2. ToSet(qu) \cup {t} \subseteq ToSet(ap)
      <3> HIDE DEF ap
      <3> QED BY <2>1 DEF ToSet
    <2>3. ToSet(ap) \subseteq ToSet(qu) \cup {t}
      <3> HIDE DEF ap
      <3> SUFFICES ASSUME NEW i \in 1 .. (Len(qu) + 1), ap[i] # t
                   PROVE  ap[i] \in ToSet(qu)
        BY <2>1 DEF ToSet
      <3>1. i \in 1 .. Len(qu)
        BY <2>1
      <3> QED BY <2>1, <3>1 DEF ToSet
    <2> QED BY <1>2, <2>1, <2>2, <2>3 DEF Enqueued
  <1> QED BY <1>1, <1>2

(* The tasks that are left when the thread takes the first one.            *)
LEMMA DequeuedTasks ==
    ASSUME NEW qu \in Seq(Tasks), qu # <<>>
    PROVE  /\ Tail(qu) \in Seq(Tasks) /\ Head(qu) \in Tasks
           /\ ToSet(qu) = ToSet(Tail(qu)) \cup {Head(qu)}
  <1>1. Tail(qu) \in Seq(Tasks) /\ Head(qu) \in Tasks /\ Head(qu) = qu[1]
        /\ Len(qu) \in Nat /\ Len(qu) >= 1 /\ Len(Tail(qu)) = Len(qu) - 1
        /\ DOMAIN qu = 1 .. Len(qu) /\ DOMAIN Tail(qu) = 1 .. (Len(qu) - 1)
    OBVIOUS
  <1>2. \A i \in 1 .. (Len(qu) - 1) : Tail(qu)[i] = qu[i + 1]
    OBVIOUS
  <1>3. ToSet(qu) \subseteq ToSet(Tail(qu)) \cup {Head(qu)}
    <2> SUFFICES ASSUME NEW i \in 1 .. Len(qu), qu[i] # Head(qu)
                 PROVE  qu[i] \in ToSet(Tail(qu))
      BY <1>1 DEF ToSet
    <2>1. i - 1 \in 1 .. (Len(qu) - 1) /\ (i - 1) + 1 = i
      BY <1>1
    <2> QED BY <1>1, <1>2, <2>1 DEF ToSet
  <1>4. ToSet(Tail(qu)) \cup {Head(qu)} \subseteq ToSet(qu)
    BY <1>1, <1>2 DEF ToSet
  <1> QED BY <1>1, <1>3, <1>4

(* The softc is gone when all twelve steps are done.                       *)
LEMMA GoneAfterTwelve == Gone <=> detach = 12
  BY StepsOfDetach DEF Gone

(* The initial state satisfies the invariant.                              *)
LEMMA InitIInv == Init => IInv
  <1> SUFFICES ASSUME Init PROVE IInv
    OBVIOUS
  <1> USE DEF Init
  <1>1. TypeFlags BY Zenon DEF TypeFlags
  <1>2. TypeNet BY TimersAssumption DEF TypeNet
  <1>3. TypeTq BY DEF TypeTq
  <1>4. TypeTimers
    <2>1. \A t \in TimerNames : (t \in armed) \in BOOLEAN
      OBVIOUS
    <2>2. [t \in TimerNames |-> t \in armed] \in [TimerNames -> BOOLEAN]
      <3> HIDE DEF TimerNames
      <3> QED BY <2>1, Zenon
    <2>3. active = [t \in TimerNames |-> t \in armed]
      BY DEF Init
    <2> QED BY <2>2, <2>3 DEF TypeTimers
  <1>5. TypeCounts BY TimersAssumption, StepsOfDetach DEF TypeCounts
  <1>6. TimerAlive BY DEF TimerAlive
  <1>7. OffHolds /\ DrainHolds /\ QuietAfterDetach
    BY GoneAfterTwelve DEF OffHolds, DrainHolds, QuietAfterDetach
  <1> QED
    BY <1>1, <1>2, <1>3, <1>4, <1>5, <1>6, <1>7 DEF IInv, TypeOK

(* rtw88_newstate only adds prepare_tx_task and post_state_task to sc_tq.  *)
LEMMA PostTasks ==
    ASSUME TypeTq, TypeNet, NEW n \in NetStates, Post(n)
    PROVE  /\ queue' \in Seq(Tasks)
           /\ ToSet(queue) \subseteq ToSet(queue')
           /\ TypeNet' \/ links' # links
           /\ net' \in NetStates /\ sc_post_state_ops' \subseteq {"UP", "DOWN"}
  <1> DEFINE prepared == IF net = "SCAN" /\ n = "AUTH"
                         THEN Enqueued(queue, "prep") ELSE queue
  <1>1. prepared \in Seq(Tasks) /\ ToSet(queue) \subseteq ToSet(prepared)
    BY EnqueuedTasks DEF TypeTq
  <1>2. queue' \in {prepared, Enqueued(prepared, "post")}
    BY DEF Post
  <1>3. /\ Enqueued(prepared, "post") \in Seq(Tasks)
        /\ ToSet(prepared) \subseteq ToSet(Enqueued(prepared, "post"))
    <2> HIDE DEF prepared
    <2> QED BY <1>1, EnqueuedTasks
  <1>4. queue' \in Seq(Tasks) /\ ToSet(queue) \subseteq ToSet(queue')
    <2> HIDE DEF prepared
    <2> QED BY <1>1, <1>2, <1>3
  <1>5. net' \in NetStates /\ sc_post_state_ops' \subseteq {"UP", "DOWN"}
    BY DEF Post, TypeNet
  <1> QED BY <1>4, <1>5 DEF TypeNet

(* A state change before detach.                                           *)
LEMMA NewstateStep ==
    ASSUME IInv, NEW n \in NetStates, newstate(n)
    PROVE  IInv'
  <1> USE DEF IInv, TypeOK
  <1>1. TypeNet' /\ TypeTq' /\ ToSet(queue) \subseteq ToSet(queue')
    BY PostTasks, TimersAssumption DEF newstate, TypeTq, TypeNet
  <1>2. TypeFlags' BY DEF newstate, TypeFlags
  <1>3. TypeTimers' BY DEF newstate, TypeTimers
  <1>4. TypeCounts' BY DEF newstate, TypeCounts
  <1>5. TimerAlive' BY <1>1 DEF newstate, TimerAlive
  <1>6. OffHolds' /\ DrainHolds' BY DEF newstate, OffHolds, DrainHolds
  <1>7. QuietAfterDetach'
    BY StepsOfDetach DEF newstate, QuietAfterDetach, Gone
  <1> QED BY <1>1, <1>2, <1>3, <1>4, <1>5, <1>6, <1>7

(* Softclock starts a handler.                                             *)
LEMMA FireStep ==
    ASSUME IInv, NEW t \in TimerNames, Fire(t)
    PROVE  IInv'
  <1> USE DEF IInv, TypeOK, Fire
  <1>1. TypeFlags' BY DEF TypeFlags
  <1>2. TypeNet' /\ TypeTq' BY DEF TypeNet, TypeTq
  <1>3. TypeTimers' /\ TypeCounts' BY DEF TypeTimers, TypeCounts
  <1>4. TimerAlive' BY DEF TimerAlive
  <1>5. OffHolds' BY DEF OffHolds
  <1>6. DrainHolds' BY DEF DrainHolds
  <1>7. QuietAfterDetach' BY DEF QuietAfterDetach, Gone
  <1> QED BY <1>1, <1>2, <1>3, <1>4, <1>5, <1>6, <1>7

(* A handler enqueues its task.                                            *)
LEMMA CalloutStep ==
    ASSUME IInv, NEW t \in TimerNames, callout(t)
    PROVE  IInv'
  <1> USE DEF IInv, TypeOK, callout
  <1>1. queue' \in Seq(Tasks) /\ ToSet(queue') = ToSet(queue) \cup {t}
    BY EnqueuedTasks DEF TypeTq
  <1>2. TypeFlags' BY DEF TypeFlags
  <1>3. TypeNet' /\ TypeTq' BY <1>1 DEF TypeNet, TypeTq
  <1>4. TypeTimers' /\ TypeCounts' BY DEF TypeTimers, TypeCounts
  <1>5. TimerAlive' BY <1>1 DEF TimerAlive
  <1>6. OffHolds' /\ DrainHolds' BY DEF OffHolds, DrainHolds
  <1>7. QuietAfterDetach' BY <1>1 DEF QuietAfterDetach, Gone
  <1> QED BY <1>2, <1>3, <1>4, <1>5, <1>6, <1>7

(* The thread takes the next task.                                         *)
LEMMA TaskBeginStep ==
    ASSUME IInv, TaskBegin
    PROVE  IInv'
  <1> USE DEF IInv, TypeOK
  <1> DEFINE t == Head(queue)
  <1>1. /\ queue' \in Seq(Tasks) /\ t \in Tasks
        /\ ToSet(queue) = ToSet(queue') \cup {t}
    BY DequeuedTasks DEF TaskBegin, TypeTq
  <1>2. TypeFlags' BY DEF TaskBegin, TypeFlags
  <1>3. /\ run' \in RunStates
        /\ t \in TimerNames /\ active[t] => run' = t
    <2> HIDE DEF t
    <2>1. /\ t = "post" => run' \in {"down", "up", "none"}
          /\ t # "post" => run' = IF t = "prep" \/ active[t] THEN t ELSE "none"
      BY DEF TaskBegin, t
    <2> QED BY <1>1, <2>1
  <1>4. TypeNet' /\ TypeTq'
    BY <1>1, <1>3 DEF TaskBegin, TypeNet, TypeTq
  <1>5. TypeTimers' /\ TypeCounts' BY DEF TaskBegin, TypeTimers, TypeCounts
  <1>6. TimerAlive'
    <2> HIDE DEF t
    <2>1. run = "none" /\ UNCHANGED <<active, armed, firing, late>>
      BY DEF TaskBegin
    <2> QED BY <1>1, <1>3, <2>1 DEF TimerAlive
  <1>7. OffHolds' /\ DrainHolds' BY DEF TaskBegin, OffHolds, DrainHolds
  <1>8. QuietAfterDetach' BY DEF TaskBegin, QuietAfterDetach, Gone
  <1> QED BY <1>2, <1>4, <1>5, <1>6, <1>7, <1>8

(* The end of a tick: it arms only a timer that is on.                     *)
LEMMA TickStep ==
    ASSUME IInv, NEW t \in TimerNames, run = t, run' = "none", Rearm(t),
           TypeFlags', sc_fw_stall_ticks' \in 0 .. StallAfter,
           UNCHANGED <<netVars, queue, active, firing, detach, late>>
    PROVE  IInv'
  <1> USE DEF IInv, TypeOK, Rearm
  <1>1. TypeNet' /\ TypeTq' BY DEF TypeNet, TypeTq
  <1>2. TypeTimers' /\ TypeCounts' BY DEF TypeTimers, TypeCounts
  <1>3. TimerAlive' BY DEF TimerAlive
  <1>4. OffHolds' BY DEF OffHolds
  <1>5. DrainHolds' BY DEF OffHolds, DrainHolds, TypeCounts
  <1>6. QuietAfterDetach' BY DEF QuietAfterDetach, Gone
  <1> QED BY <1>1, <1>2, <1>3, <1>4, <1>5, <1>6

(* DIG's tick, and the keep-alive's with its watchdog.                     *)
LEMMA TicksStep ==
    ASSUME IInv, dig_task \/ fwka_task
    PROVE  IInv'
  <1>1. CASE dig_task
    <2>1. TypeFlags' BY <1>1 DEF dig_task, IInv, TypeOK, TypeFlags
    <2>2. sc_fw_stall_ticks' \in 0 .. StallAfter
      BY <1>1 DEF dig_task, IInv, TypeOK, TypeCounts
    <2> QED BY <1>1, <2>1, <2>2, TickStep DEF dig_task
  <1>2. CASE fwka_task
    <2>1. TypeFlags'
      <3>1. rx' \in BOOLEAN
        BY <1>2 DEF fwka_task, Watchdog, IInv, TypeOK, TypeFlags
      <3>2. sc_fw_stall_logged' \in BOOLEAN
        BY <1>2, Zenon DEF fwka_task, Watchdog, IInv, TypeOK, TypeFlags
      <3>3. sc_ra_tighten_fired' \in BOOLEAN
        BY <1>2 DEF fwka_task, IInv, TypeOK, TypeFlags
      <3> QED BY <3>1, <3>2, <3>3 DEF TypeFlags
    <2>2. sc_fw_stall_ticks' \in 0 .. StallAfter
      BY <1>2, TimersAssumption DEF fwka_task, Watchdog, IInv, TypeOK, TypeCounts
    <2> QED BY <1>2, <2>1, <2>2, TickStep DEF fwka_task
  <1> QED BY <1>1, <1>2

(* Steps that leave the timers alone and end no task of a timer.           *)
LEMMA OtherStep ==
    ASSUME IInv, Receive \/ prepare_tx_task \/ post_state_linked
    PROVE  IInv'
  <1> USE DEF IInv, TypeOK
  <1>0. /\ UNCHANGED <<netVars, queue, timerVars, sc_fw_stall_ticks, detach, late>>
        /\ run' = run \/ (run \in {"prep", "linked"} /\ run' = "none")
    BY DEF Receive, prepare_tx_task, post_state_linked
  <1>1. TypeFlags' BY DEF Receive, prepare_tx_task, post_state_linked, TypeFlags
  <1>2. TypeNet' /\ TypeTq' BY <1>0 DEF TypeNet, TypeTq
  <1>3. TypeTimers' /\ TypeCounts' BY <1>0 DEF TypeTimers, TypeCounts
  <1>4. TimerAlive' BY <1>0 DEF TimerAlive
  <1>5. OffHolds' /\ DrainHolds' BY <1>0 DEF OffHolds, DrainHolds
  <1>6. QuietAfterDetach' BY <1>0 DEF QuietAfterDetach, Gone
  <1> QED BY <1>1, <1>2, <1>3, <1>4, <1>5, <1>6

(* LINK_UP starts the keep-alive, unless it is running.                    *)
LEMMA UpStep ==
    ASSUME IInv, post_state_up
    PROVE  IInv'
  <1> USE DEF IInv, TypeOK
  <1>0. /\ run = "up" /\ run' = "linked"
        /\ UNCHANGED <<netVars, queue, firing, detach>>
    BY DEF post_state_up
  <1>1. \/ UNCHANGED <<active, armed, dogVars, late>>
        \/ /\ active' = [active EXCEPT !["fwka"] = TRUE]
           /\ rx' = FALSE /\ sc_fw_stall_ticks' = 0
           /\ sc_fw_stall_logged' = FALSE /\ sc_ra_tighten_fired' = FALSE
           /\ armed' = armed \cup {"fwka"}
           /\ late' = IF detach >= 6 THEN late \cup {"fwka"} ELSE late
    BY LateStart, StepsOfDetach
       DEF post_state_up, rtw88_fwka_start, Late, TypeCounts
  <1>2. TypeFlags' BY <1>1 DEF TypeFlags
  <1>3. TypeNet' /\ TypeTq' BY <1>0 DEF TypeNet, TypeTq
  <1>4. TypeTimers' BY <1>0, <1>1 DEF TypeTimers
  <1>5. TypeCounts' BY <1>0, <1>1, TimersAssumption DEF TypeCounts
  <1>6. TimerAlive' BY <1>0, <1>1 DEF TimerAlive, TypeTimers
  <1>7. OffHolds' BY <1>0, <1>1 DEF OffHolds, TypeTimers
  <1>8. DrainHolds' BY <1>0, <1>1, StepsOfDetach DEF DrainHolds, TypeCounts
  <1>9. QuietAfterDetach' BY <1>0 DEF QuietAfterDetach, Gone
  <1> QED BY <1>2, <1>3, <1>4, <1>5, <1>6, <1>7, <1>8, <1>9

(* LINK_DOWN stops it.                                                     *)
LEMMA DownStep ==
    ASSUME IInv, post_state_down
    PROVE  IInv'
  <1> USE DEF IInv, TypeOK, post_state_down
  <1>1. TypeFlags' BY DEF TypeFlags
  <1>2. TypeNet' /\ TypeTq' BY DEF TypeNet, TypeTq
  <1>3. TypeTimers' /\ TypeCounts' BY DEF TypeTimers, TypeCounts
  <1>4. TimerAlive' BY DEF TimerAlive, TypeTimers
  <1>5. OffHolds' BY DEF OffHolds, TypeTimers
  <1>6. DrainHolds' BY DEF DrainHolds
  <1>7. QuietAfterDetach' BY DEF QuietAfterDetach, Gone
  <1> QED BY <1>1, <1>2, <1>3, <1>4, <1>5, <1>6, <1>7

(* The sysctl starts DIG, if it is off.                                    *)
LEMMA DigStartStep ==
    ASSUME IInv, rtw88_dig_start
    PROVE  IInv'
  <1> USE DEF IInv, TypeOK
  <1>0. /\ ~Gone
        /\ active' = [active EXCEPT !["dig"] = TRUE]
        /\ armed' = armed \cup {"dig"}
        /\ late' = IF detach >= 2 THEN late \cup {"dig"} ELSE late
        /\ UNCHANGED <<netVars, queue, run, firing, dogVars, detach>>
    BY LateStart, StepsOfDetach DEF rtw88_dig_start, Late, TypeCounts
  <1>1. TypeFlags' BY <1>0 DEF TypeFlags
  <1>2. TypeNet' /\ TypeTq' BY <1>0 DEF TypeNet, TypeTq
  <1>3. TypeTimers' /\ TypeCounts' BY <1>0 DEF TypeTimers, TypeCounts
  <1>4. TimerAlive' BY <1>0 DEF TimerAlive, TypeTimers
  <1>5. OffHolds' BY <1>0 DEF OffHolds, TypeTimers
  <1>6. DrainHolds' BY <1>0, StepsOfDetach DEF DrainHolds, TypeCounts
  <1>7. QuietAfterDetach' BY <1>0 DEF QuietAfterDetach, Gone
  <1> QED BY <1>1, <1>2, <1>3, <1>4, <1>5, <1>6, <1>7

(* A step of rtw88_usb_detach.                                             *)
LEMMA DetachingStep ==
    ASSUME IInv, rtw88_usb_detach
    PROVE  IInv'
  <1> USE DEF IInv, TypeOK
  <1>0. detach \in 0 .. 11 /\ detach' = detach + 1
    BY StepsOfDetach DEF rtw88_usb_detach, TypeCounts, Gone
  <1> USE <1>0, StepsOfDetach, GoneAfterTwelve DEF DetachStep
  <1>a. Gone' <=> detach' = 12
    BY DEF Gone
  <1>1. CASE DetachNet
    <2>1. detach = 0 /\ UNCHANGED <<run, timerVars, dogVars, late>>
      BY <1>1 DEF DetachNet
    <2>2. TypeNet' /\ TypeTq' /\ ToSet(queue) \subseteq ToSet(queue')
      BY <1>1, PostTasks DEF DetachNet, TypeNet, TypeTq
    <2>3. TypeFlags' BY <2>1 DEF TypeFlags
    <2>4. TypeTimers' /\ TypeCounts' BY <2>1 DEF TypeTimers, TypeCounts
    <2>5. TimerAlive' BY <2>1, <2>2 DEF TimerAlive
    <2>6. OffHolds' /\ DrainHolds' BY <2>1 DEF OffHolds, DrainHolds
    <2>7. QuietAfterDetach' BY <1>a, <2>1 DEF QuietAfterDetach
    <2> QED BY <2>2, <2>3, <2>4, <2>5, <2>6, <2>7
  <1>2. ASSUME NEW t \in TimerNames, DetachOff(t)
        PROVE  IInv'
    <2>1. /\ (detach = 1 /\ t = "dig") \/ (detach = 5 /\ t = "fwka")
          /\ active' = [active EXCEPT ![t] = FALSE]
          /\ UNCHANGED <<netVars, queue, run, armed, firing, dogVars, late>>
      BY <1>2 DEF DetachOff
    <2>2. TypeFlags' BY <2>1 DEF TypeFlags
    <2>3. TypeNet' /\ TypeTq' BY <2>1 DEF TypeNet, TypeTq
    <2>4. TypeTimers' /\ TypeCounts' BY <2>1 DEF TypeTimers, TypeCounts
    <2>5. TimerAlive' BY <2>1 DEF TimerAlive, TypeTimers
    <2>6. OffHolds' BY <2>1 DEF OffHolds, TypeTimers
    <2>7. DrainHolds' BY <2>1 DEF DrainHolds
    <2>8. QuietAfterDetach' BY <1>a, <2>1 DEF QuietAfterDetach
    <2> QED BY <2>2, <2>3, <2>4, <2>5, <2>6, <2>7, <2>8
  <1>3. ASSUME NEW t \in TimerNames, DetachCallout(t)
        PROVE  IInv'
    <2>1. /\ \/ detach \in {2, 4} /\ t = "dig"
             \/ detach \in {6, 8} /\ t = "fwka"
          /\ t \notin firing /\ armed' = armed \ {t}
          /\ UNCHANGED <<netVars, queue, run, active, firing, dogVars, late>>
      BY <1>3 DEF DetachCallout
    <2>2. TypeFlags' BY <2>1 DEF TypeFlags
    <2>3. TypeNet' /\ TypeTq' BY <2>1 DEF TypeNet, TypeTq
    <2>4. TypeTimers' /\ TypeCounts' BY <2>1 DEF TypeTimers, TypeCounts
    <2>5. TimerAlive' BY <2>1 DEF TimerAlive, OffHolds
    <2>6. OffHolds' BY <2>1 DEF OffHolds
    <2>7. DrainHolds' BY <2>1 DEF DrainHolds
    <2>8. QuietAfterDetach' BY <1>a, <2>1 DEF QuietAfterDetach
    <2> QED BY <2>2, <2>3, <2>4, <2>5, <2>6, <2>7, <2>8
  <1>4. ASSUME (\E t \in Tasks : DetachTask(t)) \/ DetachFree
        PROVE  IInv'
    <2>1. /\ UNCHANGED <<netVars, queue, run, timerVars, dogVars, late>>
          /\ \/ detach \in {3, 7, 9, 10}
             \/ detach = 11 /\ queue = <<>> /\ run = "none"
      BY <1>4 DEF DetachTask, DetachFree
    <2>2. TypeFlags' BY <2>1 DEF TypeFlags
    <2>3. TypeNet' /\ TypeTq' BY <2>1 DEF TypeNet, TypeTq
    <2>4. TypeTimers' /\ TypeCounts' BY <2>1 DEF TypeTimers, TypeCounts
    <2>5. TimerAlive' BY <2>1 DEF TimerAlive
    <2>6. OffHolds' /\ DrainHolds' BY <2>1 DEF OffHolds, DrainHolds
    <2>7. QuietAfterDetach'
      <3>1. CASE detach = 11
        <4>1. queue' = <<>> /\ run' = "none" /\ ToSet(queue') = {}
          BY <2>1, <3>1 DEF ToSet
        <4>2. \A t \in {"dig", "fwka"} : t \in armed \cup firing => t \in late
          BY <3>1 DEF DrainHolds
        <4>3. armed' \cup firing' \subseteq late'
          BY <2>1, <4>2 DEF TypeTimers
        <4> QED BY <4>1, <4>3 DEF QuietAfterDetach
      <3>2. CASE detach # 11
        BY <1>a, <3>2 DEF QuietAfterDetach
      <3> QED BY <3>1, <3>2
    <2> QED BY <2>2, <2>3, <2>4, <2>5, <2>6, <2>7
  <1> QED BY <1>1, <1>2, <1>3, <1>4 DEF rtw88_usb_detach

(* The invariant holds in every reachable state.                           *)
THEOREM Invariance == Spec => []IInv
  <1>1. IInv /\ [Next]_vars => IInv'
    <2> SUFFICES ASSUME IInv, [Next]_vars PROVE IInv'
      OBVIOUS
    <2>1. ASSUME NEW n \in NetStates, newstate(n) PROVE IInv'
      BY <2>1, NewstateStep
    <2>2. ASSUME NEW t \in TimerNames, Softclock(t) PROVE IInv'
      BY <2>2, FireStep, CalloutStep DEF Softclock
    <2>3. CASE sc_tq
      BY <2>3, TaskBeginStep, TicksStep, OtherStep, UpStep, DownStep DEF sc_tq
    <2>4. CASE Receive BY <2>4, OtherStep
    <2>5. CASE rtw88_dig_start BY <2>5, DigStartStep
    <2>6. CASE rtw88_usb_detach BY <2>6, DetachingStep
    <2>7. CASE UNCHANGED vars
      BY <2>7 DEF vars, IInv, TypeOK, TypeFlags, TypeNet, TypeTq, TypeTimers,
                  TypeCounts, TimerAlive, OffHolds, DrainHolds,
                  QuietAfterDetach, Gone
    <2> QED BY <2>1, <2>2, <2>3, <2>4, <2>5, <2>6, <2>7 DEF Next
  <1> QED BY <1>1, InitIInv, PTL DEF Spec

(* The state of timers, watchdog and taskqueue keeps its types.            *)
THEOREM TypeCorrect == Spec => []TypeOK
  BY Invariance, PTL DEF IInv

(* A timer that is on always has a callout, a handler or a task that will  *)
(* lead to its next tick (rtw88_dig_task, rtw88_fwka_task).                *)
THEOREM TimersStayAlive == Spec => []TimerAlive
  BY Invariance, PTL DEF IInv

(* rtw88_usb_detach leaves no callout, handler or task behind, but for     *)
(* timers started again after it switched them off.                        *)
THEOREM DetachLeavesNothing == Spec => []QuietAfterDetach
  BY Invariance, PTL DEF IInv
=============================================================================
