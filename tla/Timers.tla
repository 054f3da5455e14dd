------------------------------- MODULE Timers -------------------------------
(***************************************************************************)
(* The periodic work of if_rtw88_usb.c and its end in detach.              *)
(*                                                                         *)
(* Two timers, DIG (digital input gain) and fwka (firmware keep-alive and  *)
(* watchdog), have the same shape: a callout in softclock enqueues a task  *)
(* on sc_tq; the task does its USB I/O and arms the callout again while    *)
(* the timer is active.  DIG is started at attach, fwka by LINK_UP; fwka   *)
(* is stopped by LINK_DOWN, both by detach.                                *)
(*                                                                         *)
(* sc_tq has one thread, which also runs prepare_tx_task (calibration) and *)
(* post_state_task.  A task's I/O drops sc_mtx, so detach, callouts and    *)
(* newstate run in the middle of it: each task is two or three actions.    *)
(***************************************************************************)
EXTENDS Naturals, Sequences, SequencesExt

CONSTANTS
    MaxLinks,       \* bound: associations
    StallAfter      \* ticks without RX that mean a stall (3)

ASSUME TimersAssumption == MaxLinks \in Nat /\ StallAfter \in Nat \ {0}

TimerNames == {"dig", "fwka"}
Tasks == TimerNames \cup {"prep", "post"}

VARIABLES
    net, links,             \* net80211: vap state, associations so far
    sc_post_state_ops,      \* subset of {"UP", "DOWN"}
    queue,                  \* tasks pending on sc_tq
    run,                    \* what its thread is doing
    active,                 \* sc_dig_active, sc_fwka_active
    armed,                  \* callouts that are pending
    firing,                 \* callouts whose handler is running
    rx,                     \* RX completions since the watchdog last looked
    sc_fw_stall_ticks, sc_fw_stall_logged, sc_ra_tighten_fired,
    detach,                 \* how many steps of rtw88_usb_detach are done
    late                    \* timers started after detach switched them off

vars == <<net, links, sc_post_state_ops, queue, run, active, armed, firing, rx,
          sc_fw_stall_ticks, sc_fw_stall_logged, sc_ra_tighten_fired, detach,
          late>>
netVars == <<net, links, sc_post_state_ops>>
timerVars == <<active, armed, firing>>
dogVars == <<rx, sc_fw_stall_ticks, sc_fw_stall_logged, sc_ra_tighten_fired>>

(* Between two tasks; in a timer's tick; in prepare_tx_task; in            *)
(* post_state_task: LINK_UP before and after fwka_start, LINK_DOWN.        *)
RunStates == {"none", "dig", "fwka", "prep", "up", "linked", "down"}

(* The task a run state belongs to.                                        *)
TaskOf == [dig |-> "dig", fwka |-> "fwka", prep |-> "prep", up |-> "post",
           linked |-> "post", down |-> "post", none |-> "none"]

(* Mutant: detach forgets to switch DIG off.                               *)
DetachSteps_active ==
    << <<"ifdetach", "net80211">>,
       <<"callout", "dig">>, <<"task", "dig">>, <<"callout", "dig">>,
       <<"off", "fwka">>,
       <<"callout", "fwka">>, <<"task", "fwka">>, <<"callout", "fwka">>,
       <<"task", "prep">>, <<"task", "post">>, <<"free", "sc_tq">> >>

(* rtw88_usb_detach, as far as timers and sc_tq go.                        *)
DetachSteps ==
    << <<"ifdetach", "net80211">>,
       <<"off", "dig">>,
       <<"callout", "dig">>, <<"task", "dig">>, <<"callout", "dig">>,
       <<"off", "fwka">>,
       <<"callout", "fwka">>, <<"task", "fwka">>, <<"callout", "fwka">>,
       <<"task", "prep">>, <<"task", "post">>, <<"free", "sc_tq">> >>

Gone == detach = Len(DetachSteps)

(* At the end of attach: DIG is running, or its first read failed.         *)
Init ==
    /\ net = "SCAN" /\ links = 0 /\ sc_post_state_ops = {}
    /\ queue = <<>> /\ run = "none"
    /\ armed \in {{}, {"dig"}}
    /\ active = [t \in TimerNames |-> t \in armed]
    /\ firing = {}
    /\ rx = FALSE /\ sc_fw_stall_ticks = 0 /\ sc_fw_stall_logged = FALSE
    /\ sc_ra_tighten_fired = FALSE
    /\ detach = 0 /\ late = {}

----------------------------------------------------------------------------
(* taskqueue_enqueue: a task is pending at most once.                      *)
Enqueued(qu, t) == IF t \in ToSet(qu) THEN qu ELSE Append(qu, t)

(* The moves of net80211's state machine for a station (external).         *)
NetStates == {"SCAN", "AUTH", "ASSOC", "RUN"}
NetMoves ==
    {<<"SCAN", "AUTH">>, <<"AUTH", "ASSOC">>, <<"ASSOC", "RUN">>,
     <<"AUTH", "SCAN">>, <<"ASSOC", "SCAN">>, <<"RUN", "SCAN">>,
     <<"RUN", "AUTH">>}

(* rtw88_newstate, what concerns sc_tq.                                    *)
Post(n) ==
    LET start == net = "SCAN" /\ n = "AUTH"
        up == net \in {"AUTH", "ASSOC"} /\ n = "RUN"
        down == net \in {"RUN", "ASSOC"} /\ n = "SCAN"
        prepared == IF start THEN Enqueued(queue, "prep") ELSE queue
    IN  /\ net' = n
        /\ sc_post_state_ops' =
               IF up THEN {"UP"} ELSE IF down THEN {"DOWN"} ELSE sc_post_state_ops
        /\ queue' = IF start \/ up \/ down THEN Enqueued(prepared, "post")
                                           ELSE prepared

newstate(n) ==
    /\ detach = 0
    /\ <<net, n>> \in NetMoves
    /\ IF n = "AUTH" THEN links < MaxLinks /\ links' = links + 1
                     ELSE UNCHANGED links
    /\ Post(n)
    /\ UNCHANGED <<run, timerVars, dogVars, detach, late>>

----------------------------------------------------------------------------
(* Callouts.                                                               *)

(* Softclock takes up a pending callout: its handler starts.               *)
Fire(t) ==
    /\ t \in armed /\ t \notin firing
    /\ armed' = armed \ {t}
    /\ firing' = firing \cup {t}
    /\ UNCHANGED <<netVars, queue, run, active, dogVars, detach, late>>

(* rtw88_dig_callout, rtw88_fwka_callout.                                  *)
callout(t) ==
    /\ t \in firing
    /\ firing' = firing \ {t}
    /\ queue' = Enqueued(queue, t)
    /\ UNCHANGED <<netVars, run, active, armed, dogVars, detach, late>>

----------------------------------------------------------------------------
(* The thread of sc_tq.                                                    *)

(* A task starts, up to its first I/O.  A timer's task that finds its      *)
(* timer switched off returns; post_state_task takes the posted ops.  The  *)
(* thread exits in taskqueue_free.                                         *)
TaskBegin ==
    /\ ~Gone
    /\ run = "none" /\ queue # <<>>
    /\ queue' = Tail(queue)
    /\ LET t == Head(queue)
       IN  IF t = "post"
           THEN /\ sc_post_state_ops' = {}
                /\ run' = IF "DOWN" \in sc_post_state_ops THEN "down"
                          ELSE IF "UP" \in sc_post_state_ops THEN "up" ELSE "none"
           ELSE /\ run' = IF t = "prep" \/ active[t] THEN t ELSE "none"
                /\ UNCHANGED sc_post_state_ops
    /\ UNCHANGED <<net, links, timerVars, dogVars, detach, late>>

(* Mutant: a tick whose register reads fail does not arm the callout.      *)
Rearm_on_success(t) ==
    armed' \in {armed, IF active[t] THEN armed \cup {t} ELSE armed}

(* The end of a tick: arm the callout again unless switched off meanwhile. *)
Rearm(t) == armed' = IF active[t] THEN armed \cup {t} ELSE armed

(* rtw88_dig_task after rtw88_dig_tick, which may have failed.             *)
dig_task ==
    /\ run = "dig"
    /\ run' = "none"
    /\ Rearm("dig")
    /\ UNCHANGED <<netVars, queue, active, firing, dogVars, detach, late>>

(* Mutant: the stall counter does not saturate.                            *)
Watchdog_unbounded ==
    IF rx
    THEN /\ rx' = FALSE
         /\ sc_fw_stall_ticks' = 0
         /\ sc_fw_stall_logged' = FALSE
    ELSE /\ sc_fw_stall_ticks' = sc_fw_stall_ticks + 1
         /\ sc_fw_stall_logged' = (sc_fw_stall_ticks' >= StallAfter)
         /\ UNCHANGED rx

(* The watchdog of a tick.  Above StallAfter the count tells nothing, so   *)
(* it saturates there (at 255 in the code).                                *)
Watchdog ==
    IF rx
    THEN /\ rx' = FALSE
         /\ sc_fw_stall_ticks' = 0
         /\ sc_fw_stall_logged' = FALSE
    ELSE /\ sc_fw_stall_ticks' = IF sc_fw_stall_ticks < StallAfter
                                 THEN sc_fw_stall_ticks + 1 ELSE StallAfter
         /\ sc_fw_stall_logged' =
                (sc_fw_stall_logged \/ sc_fw_stall_ticks' = StallAfter)
         /\ UNCHANGED rx

(* rtw88_fwka_task after its PWR_MODE command: the second RA_INFO once its *)
(* time has come (and the link has a mask for it), the watchdog, the       *)
(* callout.                                                                *)
fwka_task ==
    /\ run = "fwka"
    /\ run' = "none"
    /\ sc_ra_tighten_fired' \in {sc_ra_tighten_fired, TRUE}
    /\ Watchdog
    /\ Rearm("fwka")
    /\ UNCHANGED <<netVars, queue, active, firing, detach, late>>

(* A RX completion is counted (rtw88_bulk_rx_cb).                          *)
Receive ==
    /\ ~Gone
    /\ ~rx
    /\ rx' = TRUE
    /\ UNCHANGED <<netVars, queue, run, timerVars, sc_fw_stall_ticks,
                   sc_fw_stall_logged, sc_ra_tighten_fired, detach, late>>

prepare_tx_task ==
    /\ run = "prep"
    /\ run' = "none"
    /\ UNCHANGED <<netVars, queue, timerVars, dogVars, detach, late>>

(* A start that comes after detach switched the timer off.                 *)
Late(t) ==
    late' = IF \E i \in 1 .. detach : DetachSteps[i] = <<"off", t>>
            THEN late \cup {t} ELSE late

(* Mutant: the callout is not armed.                                       *)
fwka_start_unarmed ==
    IF active["fwka"] THEN UNCHANGED <<active, armed, dogVars, late>>
    ELSE /\ active' = [active EXCEPT !["fwka"] = TRUE]
         /\ rx' = FALSE /\ sc_fw_stall_ticks' = 0
         /\ sc_fw_stall_logged' = FALSE
         /\ sc_ra_tighten_fired' = FALSE
         /\ Late("fwka")
         /\ UNCHANGED armed

rtw88_fwka_start ==
    IF active["fwka"] THEN UNCHANGED <<active, armed, dogVars, late>>
    ELSE /\ active' = [active EXCEPT !["fwka"] = TRUE]
         /\ rx' = FALSE /\ sc_fw_stall_ticks' = 0
         /\ sc_fw_stall_logged' = FALSE
         /\ sc_ra_tighten_fired' = FALSE
         /\ armed' = armed \cup {"fwka"}
         /\ Late("fwka")

(* LINK_UP's I/O up to fwka_start, and fwka_start; reserved pages follow.  *)
post_state_up ==
    /\ run = "up"
    /\ run' = "linked"
    /\ rtw88_fwka_start
    /\ UNCHANGED <<netVars, queue, firing, detach>>

post_state_linked ==
    /\ run = "linked"
    /\ run' = "none"
    /\ UNCHANGED <<netVars, queue, timerVars, dogVars, detach, late>>

(* LINK_DOWN's I/O, then rtw88_fwka_stop.                                  *)
post_state_down ==
    /\ run = "down"
    /\ run' = "none"
    /\ active' = [active EXCEPT !["fwka"] = FALSE]
    /\ armed' = armed \ {"fwka"}
    /\ UNCHANGED <<netVars, queue, firing, dogVars, detach, late>>

(* The reinit_phy sysctl, through phy_set_param: rtw88_dig_start, which    *)
(* does nothing when DIG is active.                                        *)
rtw88_dig_start ==
    /\ ~Gone
    /\ ~active["dig"]
    /\ active' = [active EXCEPT !["dig"] = TRUE]
    /\ armed' = armed \cup {"dig"}
    /\ Late("dig")
    /\ UNCHANGED <<netVars, queue, run, firing, dogVars, detach>>

----------------------------------------------------------------------------
(* rtw88_usb_detach, one step at a time.                                   *)
DetachStep(what, of) == DetachSteps[detach + 1] = <<what, of>>

(* ieee80211_ifdetach takes the vap to INIT; no state change comes after.  *)
DetachNet ==
    /\ DetachStep("ifdetach", "net80211")
    /\ IF net \in {"RUN", "ASSOC"} THEN Post("SCAN")
       ELSE UNCHANGED <<net, sc_post_state_ops, queue>>
    /\ UNCHANGED <<links, run, timerVars, dogVars, late>>

DetachOff(t) ==
    /\ DetachStep("off", t)
    /\ active' = [active EXCEPT ![t] = FALSE]
    /\ UNCHANGED <<netVars, queue, run, armed, firing, dogVars, late>>

(* callout_drain: cancel, and wait for a handler that is running.          *)
DetachCallout(t) ==
    /\ DetachStep("callout", t)
    /\ t \notin firing
    /\ armed' = armed \ {t}
    /\ UNCHANGED <<netVars, queue, run, active, firing, dogVars, late>>

(* taskqueue_drain: wait until the task is neither pending nor running.    *)
DetachTask(t) ==
    /\ DetachStep("task", t)
    /\ t \notin ToSet(queue) /\ TaskOf[run] # t
    /\ UNCHANGED <<netVars, queue, run, timerVars, dogVars, late>>

(* taskqueue_free: the thread finishes what is pending and exits.          *)
DetachFree ==
    /\ DetachStep("free", "sc_tq")
    /\ queue = <<>> /\ run = "none"
    /\ UNCHANGED <<netVars, queue, run, timerVars, dogVars, late>>

rtw88_usb_detach ==
    /\ ~Gone
    /\ detach' = detach + 1
    /\ \/ DetachNet
       \/ \E t \in TimerNames : DetachOff(t) \/ DetachCallout(t)
       \/ \E t \in Tasks : DetachTask(t)
       \/ DetachFree

----------------------------------------------------------------------------
sc_tq == TaskBegin \/ dig_task \/ fwka_task \/ prepare_tx_task
         \/ post_state_up \/ post_state_linked \/ post_state_down
Softclock(t) == Fire(t) \/ callout(t)

Next ==
    \/ \E n \in NetStates : newstate(n)
    \/ \E t \in TimerNames : Softclock(t)
    \/ sc_tq
    \/ Receive
    \/ rtw88_dig_start
    \/ rtw88_usb_detach

(* Callouts expire and the taskqueue thread runs.                          *)
Fairness == WF_vars(sc_tq) /\ \A t \in TimerNames : WF_vars(Softclock(t))

Spec == Init /\ [][Next]_vars
FairSpec == Spec /\ Fairness

----------------------------------------------------------------------------
(* The variables hold what their comments say.                             *)
TypeFlags ==
    /\ rx \in BOOLEAN /\ sc_fw_stall_logged \in BOOLEAN
    /\ sc_ra_tighten_fired \in BOOLEAN
TypeNet ==
    /\ net \in NetStates /\ links \in 0 .. MaxLinks
    /\ sc_post_state_ops \subseteq {"UP", "DOWN"}
TypeTq == queue \in Seq(Tasks) /\ run \in RunStates
TypeTimers ==
    /\ active \in [TimerNames -> BOOLEAN]
    /\ armed \subseteq TimerNames /\ firing \subseteq TimerNames
    /\ late \subseteq TimerNames
TypeCounts ==
    sc_fw_stall_ticks \in 0 .. StallAfter /\ detach \in 0 .. Len(DetachSteps)

TypeOK == TypeFlags /\ TypeNet /\ TypeTq /\ TypeTimers /\ TypeCounts

(* A timer that is on does not die: its callout is pending or running, or  *)
(* its task is - also when LINK_DOWN and LINK_UP stop and start it while a *)
(* handler or a task of before is still on its way.                        *)
TimerAlive ==
    \A t \in TimerNames :
        active[t] /\ t \notin late =>
            t \in armed \cup firing \cup ToSet(queue) \cup {run}

(* When detach is done nothing is left that refers to the softc: no        *)
(* callout, no handler, no task - except through a LINK_UP or a reinit_phy *)
(* that was under way and started a timer again behind detach's back.      *)
QuietAfterDetach ==
    Gone => /\ run = "none"
            /\ armed \cup firing \cup ToSet(queue) \subseteq late

(* "Reset watchdog state so a fresh association starts clean", and the     *)
(* second RA_INFO is "reset at LINK_UP": every LINK_UP leaves both reset.  *)
FreshLink ==
    [][post_state_up => sc_fw_stall_ticks' = 0 /\ ~sc_ra_tighten_fired']_vars

(* The keep-alive keeps coming as long as the link is up.                  *)
KeepAliveTicks == []<>(run = "fwka" \/ ~active["fwka"] \/ detach > 0)
=============================================================================
