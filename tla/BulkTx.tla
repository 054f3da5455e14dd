------------------------------- MODULE BulkTx -------------------------------
(***************************************************************************)
(* The bulk-OUT side of if_rtw88_usb.c: three frame queues, four USB       *)
(* transfers, and the single-slot synchronous path rtw88_bulk_tx_sync      *)
(* that firmware packets and H2C packets take.                             *)
(*                                                                         *)
(*    transfer   callback                  serves                          *)
(*    HI         rtw88_bulk_tx_cb          sync slot, else sc_tx_mgmt_q    *)
(*    H2C        rtw88_bulk_tx_cb          the same slot and queue         *)
(*    NORMAL     rtw88_bulk_tx_data_vo_cb  sc_tx_data_vo_q                 *)
(*    LO         rtw88_bulk_tx_data_be_cb  sc_tx_data_q                    *)
(*                                                                         *)
(* Each callback, enqueue, or stretch of rtw88_bulk_tx_sync between its cv *)
(* waits runs under sc_mtx and is one action.  A frame (mbuf) is a number: *)
(* frames are handed over in increasing order.  What a transfer or         *)
(* sc_tx_buf holds is a frame, or Sync(n) for the data of the n-th         *)
(* synchronous call.                                                       *)
(***************************************************************************)
EXTENDS Naturals, Sequences, SequencesExt

CONSTANTS
    NumFrames,      \* bound: frames handed to the driver in a behaviour
    KindOf,         \* the kind of each frame: "mgmt", "be" or "vo"
    SyncPipes,      \* the transfers rtw88_bulk_tx_sync is called on
    NumSyncs,       \* bound: synchronous calls in a behaviour
    QueueCap,       \* mbufq limit of each queue (64, 256 and 256)
    MaxFaults       \* bound: transfers that fail and calls that time out

Frames == 1 .. NumFrames
Pipes == {"HI", "H2C", "NORMAL", "LO"}
SyncCapable == {"HI", "H2C"}
Queues == {"mgmt", "be", "vo"}

ASSUME BulkTxAssumption ==
    /\ NumFrames \in Nat /\ NumSyncs \in Nat
    /\ MaxFaults \in Nat
    /\ QueueCap \in [Queues -> Nat]
    /\ KindOf \in [Frames -> Queues]
    /\ SyncPipes \subseteq SyncCapable

(* Mutant: the two data pipes are swapped.                                 *)
PipeOf_swapped == [mgmt |-> "HI", be |-> "NORMAL", vo |-> "LO"]

(* The transfer tx_enqueue_locked starts for a queue, and the queue a      *)
(* transfer's callback drains.                                             *)
PipeOf == [mgmt |-> "HI", be |-> "LO", vo |-> "NORMAL"]
QueueOf == [HI |-> "mgmt", H2C |-> "mgmt", NORMAL |-> "vo", LO |-> "be"]

None == 0
Sync(n) == <<"sync", n>>
NoLoad == Sync(0)
SyncLoads == {Sync(n) : n \in 0 .. NumSyncs}
Loads == {<<"frame", m>> : m \in Frames} \cup SyncLoads

VARIABLES
    q,                  \* sc_tx_mgmt_q, sc_tx_data_q, sc_tx_data_vo_q
    inflight,           \* sc_tx_*_inflight, one per queue
    xfer,               \* state of each USB transfer
    load,               \* what each transfer's USB frame was filled with
    ep05,               \* HI and H2C transfers, in the endpoint's order
    sc_tx_buf,          \* the staging buffer shared by all of the above
    sc_tx_pending, sc_tx_done, sc_tx_err,
    caller,             \* the thread in rtw88_bulk_tx_sync
    syncs,              \* synchronous calls made so far
    given,              \* frames handed to the driver so far
    freed,              \* frames m_freem'd by the driver
    rejected,           \* frames the caller got back with an error
    carried,            \* synchronous data the chip has received
    errors, timeouts

vars == <<q, inflight, xfer, load, ep05, sc_tx_buf, sc_tx_pending, sc_tx_done,
          sc_tx_err, caller, syncs, given, freed, rejected, carried, errors,
          timeouts>>
syncVars == <<sc_tx_pending, sc_tx_done, sc_tx_err>>

(* A transfer: off; setup (usbd_transfer_start asked for a callback);      *)
(* flying (submitted); done, failed, cancelled (callback to come);         *)
(* restarted (cancelled, and started again before its callback ran).       *)
XferStates ==
    {"off", "setup", "flying", "done", "failed", "cancelled", "restarted"}

Init ==
    /\ q = [k \in Queues |-> <<>>]
    /\ inflight = [k \in Queues |-> None]
    /\ xfer = [x \in Pipes |-> "off"]
    /\ load = [x \in Pipes |-> NoLoad]
    /\ ep05 = <<>>
    /\ sc_tx_buf = NoLoad
    /\ sc_tx_pending = FALSE /\ sc_tx_done = FALSE /\ sc_tx_err = FALSE
    /\ caller = [st |-> "idle", pipe |-> "HI", ret |-> "none"]
    /\ syncs = 0 /\ given = 0
    /\ freed = {} /\ rejected = {} /\ carried = {}
    /\ errors = 0 /\ timeouts = 0

----------------------------------------------------------------------------
(* The USB framework (external).                                           *)

(* usbd_transfer_start: nothing if the transfer is already under way; one  *)
(* that is being cancelled goes on to setup after its callback.            *)
usbd_transfer_start(xs, x) ==
    [xs EXCEPT ![x] = IF @ = "off" THEN "setup"
                      ELSE IF @ = "cancelled" THEN "restarted" ELSE @]

(* usbd_transfer_stop: a transfer that never got going is just forgotten,  *)
(* one under way gets its callback with USB_ERR_CANCELLED.                 *)
usbd_transfer_stop(xs, x) ==
    [xs EXCEPT ![x] = IF @ \in {"off", "setup"} THEN "off" ELSE "cancelled"]

(* HI and H2C are bound to one endpoint, 0x05: their transfers are served  *)
(* one after the other, in the order they were submitted; the next starts  *)
(* when the callback of the one before is run.                             *)
Resubmitted(x, s) ==
    LET at == CHOOSE i \in DOMAIN ep05 : ep05[i] = x
        others == IF x \in ToSet(ep05) THEN RemoveAt(ep05, at) ELSE ep05
    IN  IF x \in SyncCapable /\ s = "flying" THEN Append(others, x) ELSE others

(* The controller finishes a transfer, well or badly (5 s timeout, stall). *)
Complete(x) ==
    /\ xfer[x] = "flying"
    /\ x \in SyncCapable => x = Head(ep05)
    /\ \/ /\ xfer' = [xfer EXCEPT ![x] = "done"]
          /\ carried' = carried \cup ({load[x]} \cap SyncLoads)
          /\ UNCHANGED errors
       \/ /\ errors + timeouts < MaxFaults
          /\ errors' = errors + 1
          /\ xfer' = [xfer EXCEPT ![x] = "failed"]
          /\ UNCHANGED carried
    /\ UNCHANGED <<q, inflight, load, ep05, sc_tx_buf, syncVars, caller,
                   syncs, given, freed, rejected, timeouts>>

----------------------------------------------------------------------------
(* rtw88_tx_enqueue_locked, from rtw88_transmit / rtw88_raw_xmit: append   *)
(* and start the queue's transfer; a full queue gives the frame back.      *)
rtw88_tx_enqueue_locked ==
    /\ given < NumFrames
    /\ given' = given + 1
    /\ LET m == given + 1
           k == KindOf[m]
       IN  IF Len(q[k]) >= QueueCap[k]
           THEN /\ rejected' = rejected \cup {m}
                /\ UNCHANGED <<q, xfer>>
           ELSE /\ q' = [q EXCEPT ![k] = Append(@, m)]
                /\ xfer' = usbd_transfer_start(xfer, PipeOf[k])
                /\ UNCHANGED rejected
    /\ UNCHANGED <<inflight, load, ep05, sc_tx_buf, syncVars, caller, syncs,
                   freed, carried, errors, timeouts>>

(* Mutant: the drained frame is not remembered as in flight.               *)
drain_q_untracked(x, fl) ==
    LET k == QueueOf[x]
    IN  /\ inflight' = fl
        /\ IF q[k] = <<>>
           THEN /\ xfer' = [xfer EXCEPT ![x] = "off"]
                /\ UNCHANGED <<q, load, sc_tx_buf>>
           ELSE /\ q' = [q EXCEPT ![k] = Tail(@)]
                /\ sc_tx_buf' = <<"frame", Head(q[k])>>
                /\ load' = [load EXCEPT ![x] = <<"frame", Head(q[k])>>]
                /\ xfer' = [xfer EXCEPT ![x] = "flying"]

(* rtw88_bulk_tx_drain_q: descriptor and frame are built in sc_tx_buf,     *)
(* the frame becomes the queue's in-flight one, the transfer is submitted. *)
(* fl is inflight as the callback left it.                                 *)
rtw88_bulk_tx_drain_q(x, fl) ==
    LET k == QueueOf[x]
    IN  IF q[k] = <<>>
        THEN /\ xfer' = [xfer EXCEPT ![x] = "off"]
             /\ inflight' = fl
             /\ load' = [load EXCEPT ![x] = NoLoad]
             /\ UNCHANGED <<q, sc_tx_buf>>
        ELSE /\ q' = [q EXCEPT ![k] = Tail(@)]
             /\ inflight' = [fl EXCEPT ![k] = Head(q[k])]
             /\ sc_tx_buf' = <<"frame", Head(q[k])>>
             /\ load' = [load EXCEPT ![x] = <<"frame", Head(q[k])>>]
             /\ xfer' = [xfer EXCEPT ![x] = "flying"]

(* Mutants: m_freem without looking for NULL; no m_freem at all.           *)
FreeInflight_unchecked(k) == freed' = freed \cup {inflight[k]}
FreeInflight_leaks(k) == UNCHANGED freed

(* m_freem of the in-flight frame, in a callback.                          *)
FreeInflight(k) ==
    freed' = IF inflight[k] = None THEN freed ELSE freed \cup {inflight[k]}

(* USB_ST_TRANSFERRED and USB_ST_SETUP of the two data callbacks.          *)
rtw88_bulk_tx_data_cb(x) ==
    /\ x \in {"NORMAL", "LO"}
    /\ xfer[x] \in {"done", "setup"}
    /\ IF xfer[x] = "done"
       THEN /\ FreeInflight(QueueOf[x])
            /\ rtw88_bulk_tx_drain_q(x, [inflight EXCEPT ![QueueOf[x]] = None])
       ELSE /\ UNCHANGED freed
            /\ rtw88_bulk_tx_drain_q(x, inflight)
    /\ UNCHANGED <<ep05, syncVars, caller, syncs, given, rejected, carried, errors,
                   timeouts>>

(* USB_ST_TRANSFERRED and USB_ST_SETUP of rtw88_bulk_tx_cb.  Whatever has  *)
(* been transferred completes a pending synchronous call.                  *)
rtw88_bulk_tx_cb(x) ==
    /\ x \in SyncCapable
    /\ xfer[x] \in {"done", "setup"}
    /\ LET transferred == xfer[x] = "done"
           fl == IF transferred THEN [inflight EXCEPT !["mgmt"] = None]
                                ELSE inflight
       IN  /\ IF transferred /\ sc_tx_pending
              THEN /\ sc_tx_err' = FALSE
                   /\ sc_tx_pending' = FALSE
                   /\ sc_tx_done' = TRUE
              ELSE UNCHANGED syncVars
           /\ IF transferred THEN FreeInflight("mgmt") ELSE UNCHANGED freed
           /\ IF sc_tx_pending'
              THEN /\ load' = [load EXCEPT ![x] = sc_tx_buf]
                   /\ xfer' = [xfer EXCEPT ![x] = "flying"]
                   /\ inflight' = fl
                   /\ UNCHANGED <<q, sc_tx_buf>>
              ELSE rtw88_bulk_tx_drain_q(x, fl)
           /\ ep05' = Resubmitted(x, xfer'[x])
    /\ UNCHANGED <<caller, syncs, given, rejected, carried, errors, timeouts>>

(* Mutant: a frame that failed goes back to the tail of its queue.        *)
TransferError_requeues(x) ==
    /\ xfer[x] \in {"failed", "cancelled", "restarted"}
    /\ xfer' = [xfer EXCEPT ![x] = IF @ = "restarted" THEN "setup" ELSE "off"]
    /\ load' = [load EXCEPT ![x] = NoLoad]
    /\ ep05' = Resubmitted(x, xfer'[x])
    /\ LET k == QueueOf[x]
       IN  /\ q' = [q EXCEPT ![k] = IF inflight[k] = None THEN @
                                    ELSE Append(@, inflight[k])]
           /\ inflight' = [inflight EXCEPT ![k] = None]
    /\ UNCHANGED <<freed, sc_tx_buf, syncVars, caller, syncs, given, rejected,
                   carried, errors, timeouts>>

(* The error arm of every callback.  USB_ERR_CANCELLED changes nothing;    *)
(* any other error drops the in-flight frame, fails a pending synchronous  *)
(* call, marks the pipe stalled, and submits nothing.                      *)
TransferError(x) ==
    /\ xfer[x] \in {"failed", "cancelled", "restarted"}
    /\ xfer' = [xfer EXCEPT ![x] = IF @ = "restarted" THEN "setup" ELSE "off"]
    /\ load' = [load EXCEPT ![x] = NoLoad]
    /\ ep05' = Resubmitted(x, xfer'[x])
    /\ IF xfer[x] = "failed"
       THEN /\ FreeInflight(QueueOf[x])
            /\ inflight' = [inflight EXCEPT ![QueueOf[x]] = None]
       ELSE UNCHANGED <<freed, inflight>>
    /\ IF xfer[x] = "failed" /\ x \in SyncCapable
       THEN /\ sc_tx_err' = TRUE
            /\ sc_tx_done' = (sc_tx_done \/ sc_tx_pending)
            /\ sc_tx_pending' = FALSE
       ELSE UNCHANGED syncVars
    /\ UNCHANGED <<q, sc_tx_buf, caller, syncs, given, rejected, carried,
                   errors, timeouts>>

----------------------------------------------------------------------------
(* Mutant: sc_tx_done keeps the answer of the call before.                 *)
bulk_tx_sync_stale(x) ==
    /\ caller.st = "idle"
    /\ syncs < NumSyncs
    /\ syncs' = syncs + 1
    /\ sc_tx_buf' = Sync(syncs + 1)
    /\ sc_tx_pending' = TRUE
    /\ sc_tx_err' = FALSE
    /\ xfer' = usbd_transfer_start(xfer, x)
    /\ caller' = [st |-> "waiting", pipe |-> x, ret |-> "none"]
    /\ UNCHANGED <<q, inflight, load, ep05, sc_tx_done, given, freed, rejected,
                   carried, errors, timeouts>>

(* rtw88_bulk_tx_sync up to its cv_timedwait_sig.  After attach its only   *)
(* callers are the tasks of sc_tq, one thread.                             *)
rtw88_bulk_tx_sync(x) ==
    /\ caller.st = "idle"
    /\ syncs < NumSyncs
    /\ syncs' = syncs + 1
    /\ sc_tx_buf' = Sync(syncs + 1)
    /\ sc_tx_pending' = TRUE
    /\ sc_tx_done' = FALSE
    /\ sc_tx_err' = FALSE
    /\ xfer' = usbd_transfer_start(xfer, x)
    /\ caller' = [st |-> "waiting", pipe |-> x, ret |-> "none"]
    /\ UNCHANGED <<q, inflight, load, ep05, given, freed, rejected, carried,
                   errors, timeouts>>

(* What the call returns once sc_tx_done is set: a wait that ended with a  *)
(* timeout or a signal at the same moment keeps its error.                 *)
Answers == IF sc_tx_err THEN {"EIO"} ELSE {"ok", "EWOULDBLOCK"}

(* The waiter runs again after cv_signal.                                  *)
SyncReturn ==
    /\ caller.st = "waiting"
    /\ sc_tx_done
    /\ \E r \in Answers : caller' = [caller EXCEPT !.st = "idle", !.ret = r]
    /\ UNCHANGED <<q, inflight, xfer, load, ep05, sc_tx_buf, syncVars, syncs,
                   given, freed, rejected, carried, errors, timeouts>>

(* Mutant: giving up leaves the slot armed.                                *)
SyncTimeout_armed ==
    /\ caller.st = "waiting"
    /\ ~sc_tx_done
    /\ errors + timeouts < MaxFaults
    /\ timeouts' = timeouts + 1
    /\ xfer' = usbd_transfer_stop(xfer, caller.pipe)
    /\ ep05' = Resubmitted(caller.pipe, "off")
    /\ caller' = [caller EXCEPT !.st = "idle", !.ret = "ETIMEDOUT"]
    /\ UNCHANGED <<q, inflight, load, sc_tx_buf, syncVars, syncs, given, freed,
                   rejected, carried, errors>>

(* cv_timedwait_sig gives up after 6 s.                                    *)
SyncTimeout ==
    /\ caller.st = "waiting"
    /\ ~sc_tx_done
    /\ errors + timeouts < MaxFaults
    /\ timeouts' = timeouts + 1
    /\ xfer' = usbd_transfer_stop(xfer, caller.pipe)
    /\ ep05' = Resubmitted(caller.pipe, "off")
    /\ sc_tx_pending' = FALSE
    /\ caller' = [caller EXCEPT !.st = "idle", !.ret = "ETIMEDOUT"]
    /\ UNCHANGED <<q, inflight, load, sc_tx_buf, sc_tx_done, sc_tx_err, syncs,
                   given, freed, rejected, carried, errors>>

(* rtw88_post_state_task, LINK_DOWN: mbufq_drain of both data queues.      *)
LinkDownDrain ==
    /\ caller.st = "idle"
    /\ q["be"] # <<>> \/ q["vo"] # <<>>
    /\ freed' = freed \cup ToSet(q["be"]) \cup ToSet(q["vo"])
    /\ q' = [q EXCEPT !["be"] = <<>>, !["vo"] = <<>>]
    /\ UNCHANGED <<inflight, xfer, load, ep05, sc_tx_buf, syncVars, caller,
                   syncs, given, rejected, carried, errors, timeouts>>

Callback(x) ==
    \/ rtw88_bulk_tx_cb(x)
    \/ rtw88_bulk_tx_data_cb(x)
    \/ TransferError(x)

Next ==
    \/ rtw88_tx_enqueue_locked
    \/ \E x \in SyncPipes : rtw88_bulk_tx_sync(x)
    \/ SyncReturn
    \/ SyncTimeout
    \/ LinkDownDrain
    \/ \E x \in Pipes : Callback(x) \/ Complete(x)

(* USB transfers complete or time out, callbacks and signalled threads     *)
(* run.  New frames, new calls and link changes are not promised.          *)
Fairness ==
    /\ \A x \in Pipes : WF_vars(Callback(x)) /\ WF_vars(Complete(x))
    /\ WF_vars(SyncReturn)

Spec == Init /\ [][Next]_vars
FairSpec == Spec /\ Fairness

----------------------------------------------------------------------------
(* The variables hold what their comments say.                             *)
TypeOK ==
    /\ q \in [Queues -> Seq(Frames)]
    /\ inflight \in [Queues -> Frames \cup {None}]
    /\ xfer \in [Pipes -> XferStates]
    /\ load \in [Pipes -> Loads]
    /\ ep05 \in Seq(SyncCapable)
    /\ sc_tx_buf \in Loads
    /\ sc_tx_pending \in BOOLEAN /\ sc_tx_done \in BOOLEAN
    /\ sc_tx_err \in BOOLEAN
    /\ caller \in [st : {"idle", "waiting"}, pipe : SyncCapable,
                   ret : {"none", "ok", "EIO", "EWOULDBLOCK", "ETIMEDOUT"}]
    /\ syncs \in 0 .. NumSyncs /\ given \in 0 .. NumFrames
    /\ freed \subseteq Frames /\ rejected \subseteq Frames
    /\ carried \subseteq SyncLoads
    /\ errors \in Nat /\ timeouts \in Nat /\ errors + timeouts <= MaxFaults

(* Frame m has one owner: its queue, the in-flight slot, the allocator     *)
(* (freed), or the caller it was given back to.                            *)
OneOwner(m) ==
    LET queued == \E i \in DOMAIN q[KindOf[m]] : q[KindOf[m]][i] = m
        flying == inflight[KindOf[m]] = m
    IN  /\ queued \/ flying \/ m \in freed \/ m \in rejected
        /\ ~(queued /\ flying)
        /\ m \in freed \cup rejected => ~queued /\ ~flying
        /\ ~(m \in freed /\ m \in rejected)

(* No data frame handed to the driver is leaked, or freed while a queue or *)
(* an in-flight slot still refers to it: through completions, errors, full *)
(* queues and LINK_DOWN's drain.                                           *)
DataFramesOwned ==
    \A m \in 1 .. given : KindOf[m] # "mgmt" => OneOwner(m)

(* The same for management frames, which two transfers serve with one      *)
(* in-flight slot.                                                         *)
MgmtFramesOwned ==
    \A m \in 1 .. given : KindOf[m] = "mgmt" => OneOwner(m)

(* Frames of one queue go to the chip in the order they were handed over:  *)
(* whatever is in flight is older than what is queued.                     *)
QueuesInOrder ==
    \A k \in Queues :
        /\ \A i, j \in DOMAIN q[k] : i < j => q[k][i] < q[k][j]
        /\ \A i \in DOMAIN q[k] : inflight[k] < q[k][i]

(* A data transfer under way carries the frame its callback will free.     *)
DataTransferIsInflight ==
    \A x \in {"NORMAL", "LO"} :
        xfer[x] \in {"flying", "done", "failed"} =>
            /\ inflight[QueueOf[x]] # None
            /\ load[x] = <<"frame", inflight[QueueOf[x]]>>

(* When nobody is in rtw88_bulk_tx_sync the slot is disarmed: no callback  *)
(* will send the stale buffer of a call that returned.                     *)
NoStalePending == caller.st = "idle" => ~sc_tx_pending

(* rtw88_bulk_tx_sync blocks until its data is complete: when it returns 0 *)
(* the chip has received that data.                                        *)
SyncOkMeansCarried ==
    caller.st = "idle" /\ caller.ret = "ok" => Sync(syncs) \in carried

(* The same during attach, when firmware is downloaded and no frame has    *)
(* been handed over yet; and what the callback loads is still the caller's *)
(* data.  Errors and timeouts of earlier calls do not disturb a later one. *)
AttachSyncIsSafe ==
    given = 0 => /\ SyncOkMeansCarried
                 /\ sc_tx_pending => sc_tx_buf = Sync(syncs)

(* Frames keep moving: as long as no transfer fails and no synchronous     *)
(* call times out, every queue becomes empty again and again.  (The error  *)
(* arm of a callback submits nothing, and a timeout stops a transfer that  *)
(* may carry frames: then queued frames wait for the next enqueue.)        *)
QueuesDrain ==
    \A k \in Queues : []<>(q[k] = <<>> \/ errors + timeouts > 0)
=============================================================================
