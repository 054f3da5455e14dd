------------------------------ MODULE KeyGate ------------------------------
(***************************************************************************)
(* Key installation and the transmit gate of if_rtw88_usb.c, across link   *)
(* changes.                                                                *)
(*                                                                         *)
(*   net80211      iv_newstate, iv_key_set, iv_key_delete; may not sleep,  *)
(*                 so each leaves work for a task                          *)
(*   sc_cam_tq     rtw88_cam_task: writes queued keys into the chip's CAM, *)
(*                 then opens the gate                                     *)
(*   sc_tq         rtw88_post_state_task: LINK_UP and LINK_DOWN            *)
(*   senders       rtw88_transmit / rtw88_raw_xmit: frames are encapped,   *)
(*                 then held behind the gate or queued                     *)
(*                                                                         *)
(* An action is what one of them does in one sc_mtx section.  A section    *)
(* that does register I/O lets every section without I/O in at each wire   *)
(* wait, and no section with I/O (Ep0: CallsAreAtomic and the chains): bus *)
(* says whose chain is under way.                                          *)
(*                                                                         *)
(* Frames are <<"m4", n>>, EAPOL message 4 of a handshake, sent by the     *)
(* supplicant, and <<"data", n>>, protected unicast data.                  *)
(***************************************************************************)
EXTENDS Naturals, Sequences, SequencesExt

CONSTANTS
    NumFrames,      \* bound: frames of each kind
    MaxAssocs,      \* bound: associations
    MaxLosses,      \* bound: times the link is lost
    MaxKeyOps,      \* bound: calls of key_set and key_delete
    KeyOps,         \* which ones: "ptk", "gtk", "delete"
    Cipher,         \* the pairwise cipher: "AES" or "TKIP"
    M4First,        \* the supplicant's M4 transmit returns before SET_KEY
    CamDepth,       \* RTW88_CAM_QUEUE_DEPTH (16)
    PendingCap,     \* limit of sc_tx_pending_q
    MaxErrors       \* bound: CAM operations that fail

Kinds == {"m4", "data"}
Slots == {"ptk", "gtk"}

ASSUME KeyGateAssumption ==
    /\ NumFrames \in [Kinds -> Nat]
    /\ {MaxAssocs, MaxLosses, MaxKeyOps, CamDepth, PendingCap, MaxErrors}
           \subseteq Nat
    /\ KeyOps \subseteq {"ptk", "gtk", "delete"}
    /\ Cipher \in {"AES", "TKIP"}
    /\ M4First \in BOOLEAN

Frames == Kinds \X Nat
None == <<"none", 0>>

(* A CAM operation: the id-th one, made in association assoc.              *)
Ops == [kind : {"install", "clear"}, slot : Slots, id : 1 .. MaxKeyOps,
        assoc : 0 .. MaxAssocs]

(* What a CAM slot holds: nothing (0), key id, or a half-written entry.    *)
Torn == MaxKeyOps + 1

VARIABLES
    net, assoc, losses,         \* net80211: vap state, which association
    sc_post_state_ops,          \* subset of {"BSSID", "UP", "DOWN"}
    postTask,                   \* sc_post_state_task is on sc_tq
    post,                       \* what it is doing
    owed,                       \* a posted LINK_DOWN has not been carried out
    sc_cam_q, camTask, cam,     \* queued ops; task is on sc_cam_tq; its ops
    slot,                       \* the chip's CAM
    lastOp,                     \* the last op carried out on each slot
    bus,                        \* whose EP0 chain is under way
    sc_ptk_install_pending, sc_tx_pending_q, sc_m4_needs_encap,
    nikey,                      \* net80211 has a unicast key (ni_ucastkey)
    key,                        \* the supplicant's SET_KEY / DEL_KEY
    keyOps,                     \* how many it has made
    xmit,                       \* the sender of each kind of frame
    given,                      \* frames handed over, by kind
    prot, enc,                  \* frames marked Protected; really encrypted
    sent, freed,                \* frames put on a data queue; m_freem'd
    errors

netVars == <<net, assoc, losses>>
postVars == <<sc_post_state_ops, postTask, post, owed>>
camVars == <<sc_cam_q, camTask, cam, slot, lastOp>>
gateVars == <<sc_ptk_install_pending, sc_tx_pending_q, sc_m4_needs_encap>>
keyVars == <<nikey, key, keyOps>>
xmitVars == <<xmit, given, prot, enc, sent, freed>>
vars == <<netVars, postVars, camVars, bus, gateVars, keyVars, xmitVars, errors>>

Idle == [st |-> "idle", op |-> "none"]

Init ==
    /\ net = "SCAN" /\ assoc = 0 /\ losses = 0
    /\ sc_post_state_ops = {} /\ postTask = FALSE /\ post = "idle"
    /\ owed = FALSE
    /\ sc_cam_q = <<>> /\ camTask = FALSE /\ cam = <<>>
    /\ slot = [s \in Slots |-> 0]
    /\ lastOp = [s \in Slots |-> 0]
    /\ bus = "free"
    /\ sc_ptk_install_pending = FALSE
    /\ sc_tx_pending_q = <<>>
    /\ sc_m4_needs_encap = None
    /\ nikey = FALSE /\ key = Idle /\ keyOps = 0
    /\ xmit = [k \in Kinds |-> "idle"]
    /\ given = [k \in Kinds |-> 0]
    /\ prot = {} /\ enc = {} /\ sent = <<>> /\ freed = {}
    /\ errors = 0

----------------------------------------------------------------------------
(* The moves of net80211's state machine for a station (external).  INIT   *)
(* counts as SCAN: nothing below tells them apart.                         *)
NetStates == {"SCAN", "AUTH", "ASSOC", "RUN"}
NetMoves ==
    {<<"SCAN", "AUTH">>, <<"AUTH", "ASSOC">>, <<"ASSOC", "RUN">>,
     <<"AUTH", "SCAN">>, <<"ASSOC", "SCAN">>, <<"RUN", "SCAN">>,
     <<"RUN", "AUTH">>}

(* rtw88_newstate: post what the move calls for.  Going to RUN takes back  *)
(* a LINK_DOWN still posted, and the other way round.                      *)
newstate(n) ==
    /\ <<net, n>> \in NetMoves
    /\ net' = n
    /\ IF n = "AUTH" THEN assoc < MaxAssocs /\ assoc' = assoc + 1
                     ELSE UNCHANGED assoc
    /\ IF n = "SCAN" THEN losses < MaxLosses /\ losses' = losses + 1
                     ELSE UNCHANGED losses
    /\ LET bssid == net = "SCAN" /\ n = "AUTH"
           up == net \in {"AUTH", "ASSOC"} /\ n = "RUN"
           down == net \in {"RUN", "ASSOC"} /\ n = "SCAN"
       IN  /\ sc_post_state_ops' =
                  IF bssid THEN sc_post_state_ops \cup {"BSSID"}
                  ELSE IF up THEN (sc_post_state_ops \cup {"UP"}) \ {"DOWN"}
                  ELSE IF down THEN (sc_post_state_ops \cup {"DOWN"}) \ {"UP"}
                  ELSE sc_post_state_ops
           /\ postTask' = (postTask \/ bssid \/ up \/ down)
           /\ owed' = (owed \/ down)
    /\ UNCHANGED <<post, camVars, bus, gateVars, keyVars, xmitVars, errors>>

----------------------------------------------------------------------------
(* rtw88_post_state_task.                                                  *)

(* The task starts: take the posted ops.                                   *)
post_state_begin ==
    /\ postTask /\ post = "idle"
    /\ postTask' = FALSE
    /\ sc_post_state_ops' = {}
    /\ post' = IF sc_post_state_ops \cap {"UP", "DOWN"} = {"UP"} THEN "up"
               ELSE IF "DOWN" \in sc_post_state_ops THEN "wipe" ELSE "idle"
    /\ UNCHANGED <<netVars, owed, camVars, bus, gateVars, keyVars, xmitVars,
                   errors>>

(* LINK_UP.  It touches neither keys nor gate; see README for its H2C.     *)
post_state_up ==
    /\ post = "up" /\ bus = "free"
    /\ post' = "idle"
    /\ UNCHANGED <<netVars, sc_post_state_ops, postTask, owed, camVars, bus,
                   gateVars, keyVars, xmitVars, errors>>

(* LINK_DOWN, the I/O: clear every CAM slot; a failed write is ignored.    *)
post_state_wipe ==
    /\ post = "wipe" /\ bus = "free"
    /\ post' = "tail" /\ bus' = "post"
    /\ \/ /\ slot' = [s \in Slots |-> 0]
          /\ UNCHANGED errors
       \/ /\ errors < MaxErrors
          /\ errors' = errors + 1
          /\ \E s \in Slots : slot' = [t \in Slots |-> IF t = s THEN slot[t]
                                                      ELSE 0]
    /\ UNCHANGED <<netVars, sc_post_state_ops, postTask, owed, sc_cam_q,
                   camTask, cam, lastOp, gateVars, keyVars, xmitVars>>

(* Mutant: the gate is opened, the held frames stay.                       *)
post_state_tail_keeps ==
    /\ post = "tail"
    /\ post' = "idle" /\ bus' = "free" /\ owed' = FALSE
    /\ sc_ptk_install_pending' = FALSE
    /\ sc_m4_needs_encap' = None
    /\ sc_cam_q' = <<>>
    /\ UNCHANGED <<netVars, sc_post_state_ops, postTask, camTask, cam, slot,
                   lastOp, sc_tx_pending_q, keyVars, xmitVars, errors>>

(* LINK_DOWN, after the I/O: open the gate, drop what it held, forget the  *)
(* marker and the queued CAM ops.                                          *)
post_state_tail ==
    /\ post = "tail"
    /\ post' = "idle" /\ bus' = "free" /\ owed' = FALSE
    /\ sc_ptk_install_pending' = FALSE
    /\ freed' = freed \cup ToSet(sc_tx_pending_q)
    /\ sc_tx_pending_q' = <<>>
    /\ sc_m4_needs_encap' = None
    /\ sc_cam_q' = <<>>
    /\ UNCHANGED <<netVars, sc_post_state_ops, postTask, camTask, cam, slot,
                   lastOp, keyVars, xmit, given, prot, enc, sent, errors>>

----------------------------------------------------------------------------
(* The supplicant sets or deletes a key.  net80211 attaches the cipher to  *)
(* ni_ucastkey before it calls iv_key_set, and detaches it before          *)
(* iv_key_delete.  The PTK comes first.                                    *)
crypto_newkey(o) ==
    /\ net = "RUN" /\ key.st = "idle" /\ keyOps < MaxKeyOps
    /\ o \in KeyOps
    /\ M4First => xmit["m4"] = "idle"
    /\ o # "ptk" => nikey
    /\ nikey' = (o # "delete")
    /\ key' = [st |-> "call", op |-> o]
    /\ keyOps' = keyOps + 1
    /\ UNCHANGED <<netVars, postVars, camVars, bus, gateVars, xmitVars, errors>>

(* rtw88_vap_key_set / rtw88_vap_key_delete up to RTW88_UNLOCK.  Only AES  *)
(* keys concern the CAM; a full queue drops the op.                        *)
vap_key_op ==
    /\ key.st = "call"
    /\ LET install == key.op # "delete"
           op == [kind |-> IF install THEN "install" ELSE "clear",
                  slot |-> IF key.op = "gtk" THEN "gtk" ELSE "ptk",
                  id |-> keyOps, assoc |-> assoc]
       IN  IF Cipher # "AES" \/ Len(sc_cam_q) >= CamDepth
           THEN /\ key' = Idle
                /\ UNCHANGED <<sc_cam_q, sc_ptk_install_pending>>
           ELSE /\ key' = [key EXCEPT !.st = "enqueue"]
                /\ sc_cam_q' = Append(sc_cam_q, op)
                /\ sc_ptk_install_pending' =
                       (sc_ptk_install_pending \/ key.op = "ptk")
    /\ UNCHANGED <<netVars, postVars, camTask, cam, slot, lastOp, bus,
                   sc_tx_pending_q, sc_m4_needs_encap, nikey, keyOps, xmitVars,
                   errors>>

(* Mutant: the task is not scheduled while it runs.                        *)
vap_key_enqueue_skips ==
    /\ key.st = "enqueue"
    /\ key' = Idle
    /\ camTask' = (camTask \/ cam = <<>>)
    /\ UNCHANGED <<netVars, postVars, sc_cam_q, cam, slot, lastOp, bus,
                   gateVars, nikey, keyOps, xmitVars, errors>>

(* Its taskqueue_enqueue, after the unlock.                                *)
vap_key_enqueue ==
    /\ key.st = "enqueue"
    /\ key' = Idle
    /\ camTask' = TRUE
    /\ UNCHANGED <<netVars, postVars, sc_cam_q, cam, slot, lastOp, bus,
                   gateVars, nikey, keyOps, xmitVars, errors>>

----------------------------------------------------------------------------
(* rtw88_cam_task.                                                         *)

(* Mutant: the snapshot is taken, the queue is not zeroed.                 *)
cam_task_begin_repeats ==
    /\ camTask /\ cam = <<>>
    /\ camTask' = FALSE
    /\ cam' = sc_cam_q
    /\ UNCHANGED <<netVars, postVars, sc_cam_q, slot, lastOp, bus, gateVars,
                   keyVars, xmitVars, errors>>

(* Snapshot the queue and zero it.  The first register write then waits    *)
(* for whatever chain is on the bus.                                       *)
cam_task_begin ==
    /\ camTask /\ cam = <<>>
    /\ camTask' = FALSE
    /\ cam' = sc_cam_q
    /\ sc_cam_q' = <<>>
    /\ UNCHANGED <<netVars, postVars, slot, lastOp, bus, gateVars, keyVars,
                   xmitVars, errors>>

(* Mutants: held frames are released in reverse; the gate stays closed;    *)
(* the marked M4 is released as it is.                                     *)
ReleaseHeld_reversed ==
    /\ sc_ptk_install_pending' = FALSE
    /\ sc_tx_pending_q' = <<>>
    /\ sent' = sent \o Reverse(sc_tx_pending_q)
    /\ UNCHANGED <<sc_m4_needs_encap, enc, prot>>

ReleaseHeld_never == UNCHANGED <<gateVars, sent, enc, prot>>

ReleaseHeld_plain ==
    /\ sc_ptk_install_pending' = FALSE
    /\ sc_tx_pending_q' = <<>>
    /\ sent' = sent \o sc_tx_pending_q
    /\ UNCHANGED <<sc_m4_needs_encap, enc, prot>>

(* A PTK is in: open the gate and release what it held, in order.  The     *)
(* marked M4 is encrypted now, or loses its Protected bit.                 *)
ReleaseHeld ==
    /\ sc_ptk_install_pending' = FALSE
    /\ sc_tx_pending_q' = <<>>
    /\ sent' = sent \o sc_tx_pending_q
    /\ LET deferred == {m \in ToSet(sc_tx_pending_q) : m = sc_m4_needs_encap}
       IN  /\ sc_m4_needs_encap' =
                  IF deferred = {} THEN sc_m4_needs_encap ELSE None
           /\ enc' = IF nikey THEN enc \cup deferred ELSE enc
           /\ prot' = IF nikey THEN prot ELSE prot \ deferred

(* Mutant: the register writes do not wait for the chain on the bus.       *)
cam_task_op_barges ==
    /\ cam # <<>>
    /\ cam' = Tail(cam)
    /\ slot' = [slot EXCEPT ![Head(cam).slot] = Head(cam).id]
    /\ lastOp' = [lastOp EXCEPT ![Head(cam).slot] = Head(cam).id]
    /\ ReleaseHeld
    /\ UNCHANGED <<netVars, postVars, sc_cam_q, camTask, bus, keyVars, xmit,
                   given, freed, errors>>

(* One op of the snapshot; after the last one the task unlocks.  An error  *)
(* may come before, during or after the write to the slot, and leaves the  *)
(* gate as it is.                                                          *)
cam_task_op ==
    /\ cam # <<>>
    /\ bus \in {"free", "cam"}
    /\ cam' = Tail(cam)
    /\ bus' = IF Len(cam) = 1 THEN "free" ELSE "cam"
    /\ LET op == Head(cam)
           done == IF op.kind = "install" THEN op.id ELSE 0
       IN  /\ lastOp' = [lastOp EXCEPT ![op.slot] = op.id]
           /\ \/ /\ slot' = [slot EXCEPT ![op.slot] = done]
                 /\ IF op.kind = "install" /\ op.slot = "ptk"
                    THEN ReleaseHeld
                    ELSE UNCHANGED <<gateVars, sent, enc, prot>>
                 /\ UNCHANGED errors
              \/ /\ errors < MaxErrors
                 /\ errors' = errors + 1
                 /\ \E v \in {slot[op.slot], done} \cup
                           (IF done # 0 /\ slot[op.slot] # 0 THEN {Torn} ELSE {}) :
                        slot' = [slot EXCEPT ![op.slot] = v]
                 /\ UNCHANGED <<gateVars, sent, enc, prot>>
    /\ UNCHANGED <<netVars, postVars, sc_cam_q, camTask, keyVars, xmit, given,
                   freed>>

----------------------------------------------------------------------------
(* The senders.  The frame a sender works on is the last one given.        *)
Cur(k) == <<k, given[k]>>

(* A frame is handed over; rtw88_crypto_encap_if_needed tries to encrypt   *)
(* it.  No key: a data frame is dropped, an M4 goes on to be deferred.     *)
crypto_encap(k) ==
    /\ net = "RUN" /\ xmit[k] = "idle" /\ given[k] < NumFrames[k]
    /\ k = "m4" /\ M4First => key.st = "idle"
    /\ given' = [given EXCEPT ![k] = @ + 1]
    /\ LET m == <<k, given[k] + 1>>
       IN  IF nikey
           THEN /\ prot' = prot \cup {m}
                /\ enc' = enc \cup {m}
                /\ xmit' = [xmit EXCEPT ![k] = "enqueue"]
                /\ UNCHANGED freed
           ELSE IF k = "m4"
           THEN /\ prot' = prot \cup {m}
                /\ xmit' = [xmit EXCEPT ![k] = "defer"]
                /\ UNCHANGED <<enc, freed>>
           ELSE /\ freed' = freed \cup {m}
                /\ UNCHANGED <<prot, enc, xmit>>
    /\ UNCHANGED <<netVars, postVars, camVars, bus, gateVars, keyVars, sent,
                   errors>>

(* The M4 could not be encrypted: mark it and close the gate; if another   *)
(* M4 has the marker this one goes out in plaintext.                       *)
defer_m4 ==
    /\ xmit["m4"] = "defer"
    /\ xmit' = [xmit EXCEPT !["m4"] = "enqueue"]
    /\ IF sc_m4_needs_encap # None
       THEN /\ prot' = prot \ {Cur("m4")}
            /\ UNCHANGED <<sc_m4_needs_encap, sc_ptk_install_pending>>
       ELSE /\ sc_m4_needs_encap' = Cur("m4")
            /\ sc_ptk_install_pending' = TRUE
            /\ UNCHANGED prot
    /\ UNCHANGED <<netVars, postVars, camVars, bus, sc_tx_pending_q, keyVars,
                   given, enc, sent, freed, errors>>

(* Mutants: a frame that does not fit is not freed; the limit is off by    *)
(* one.                                                                    *)
tx_enqueue_leaks(k) ==
    /\ xmit[k] = "enqueue"
    /\ xmit' = [xmit EXCEPT ![k] = "idle"]
    /\ LET held == sc_ptk_install_pending /\ Cur(k) \in prot
       IN  /\ sent' = IF held THEN sent ELSE Append(sent, Cur(k))
           /\ sc_tx_pending_q' =
                  IF held /\ Len(sc_tx_pending_q) < PendingCap
                  THEN Append(sc_tx_pending_q, Cur(k)) ELSE sc_tx_pending_q
    /\ UNCHANGED <<netVars, postVars, camVars, bus, sc_ptk_install_pending,
                   sc_m4_needs_encap, keyVars, given, prot, enc, freed, errors>>

tx_enqueue_overfills(k) ==
    /\ xmit[k] = "enqueue"
    /\ xmit' = [xmit EXCEPT ![k] = "idle"]
    /\ LET held == sc_ptk_install_pending /\ Cur(k) \in prot
       IN  /\ sent' = IF held THEN sent ELSE Append(sent, Cur(k))
           /\ sc_tx_pending_q' =
                  IF held /\ Len(sc_tx_pending_q) <= PendingCap
                  THEN Append(sc_tx_pending_q, Cur(k)) ELSE sc_tx_pending_q
    /\ UNCHANGED <<netVars, postVars, camVars, bus, sc_ptk_install_pending,
                   sc_m4_needs_encap, keyVars, given, prot, enc, freed, errors>>

(* rtw88_tx_enqueue_locked: behind the closed gate if Protected, else on   *)
(* its data queue; the caller frees a frame that does not fit.             *)
tx_enqueue_locked(k) ==
    /\ xmit[k] = "enqueue"
    /\ xmit' = [xmit EXCEPT ![k] = "idle"]
    /\ LET m == Cur(k)
       IN  IF ~(sc_ptk_install_pending /\ m \in prot)
           THEN /\ sent' = Append(sent, m)
                /\ UNCHANGED <<sc_tx_pending_q, freed>>
           ELSE IF Len(sc_tx_pending_q) < PendingCap
           THEN /\ sc_tx_pending_q' = Append(sc_tx_pending_q, m)
                /\ UNCHANGED <<sent, freed>>
           ELSE /\ freed' = freed \cup {m}
                /\ UNCHANGED <<sc_tx_pending_q, sent>>
    /\ UNCHANGED <<netVars, postVars, camVars, bus, sc_ptk_install_pending,
                   sc_m4_needs_encap, keyVars, given, prot, enc, errors>>

----------------------------------------------------------------------------
post_state_task ==
    post_state_begin \/ post_state_up \/ post_state_wipe \/ post_state_tail
vap_key == vap_key_op \/ vap_key_enqueue
cam_task == cam_task_begin \/ cam_task_op
send(k) == (k = "m4" /\ defer_m4) \/ tx_enqueue_locked(k)

Next ==
    \/ \E n \in NetStates : newstate(n)
    \/ post_state_task
    \/ \E o \in KeyOps : crypto_newkey(o)
    \/ vap_key
    \/ cam_task
    \/ \E k \in Kinds : crypto_encap(k) \/ send(k)

(* Tasks that are queued run, calls return.  The supplicant installs a PTK *)
(* once its M4 is out.  Link changes and new frames are not promised.      *)
SupplicantInstalls == given["m4"] > 0 /\ crypto_newkey("ptk")

Fairness ==
    /\ WF_vars(post_state_task) /\ WF_vars(cam_task) /\ WF_vars(vap_key)
    /\ \A k \in Kinds : WF_vars(send(k))
    /\ WF_vars(SupplicantInstalls)

Spec == Init /\ [][Next]_vars
FairSpec == Spec /\ Fairness

----------------------------------------------------------------------------
(* The variables hold what their comments say.                             *)
TypeFlags ==
    {postTask, owed, camTask, sc_ptk_install_pending, nikey} \subseteq BOOLEAN
TypeNet ==
    /\ net \in NetStates
    /\ assoc \in 0 .. MaxAssocs
    /\ losses \in 0 .. MaxLosses
TypePost ==
    /\ sc_post_state_ops \subseteq {"BSSID", "UP", "DOWN"}
    /\ post \in {"idle", "up", "wipe", "tail"}
TypeCam ==
    /\ sc_cam_q \in Seq(Ops) /\ Len(sc_cam_q) <= CamDepth
    /\ cam \in Seq(Ops)
    /\ slot \in [Slots -> 0 .. Torn]
    /\ lastOp \in [Slots -> 0 .. MaxKeyOps]
    /\ bus \in {"free", "cam", "post"}
    /\ errors \in 0 .. MaxErrors
TypeGate ==
    /\ sc_tx_pending_q \in Seq(Frames) /\ Len(sc_tx_pending_q) <= PendingCap
    /\ sc_m4_needs_encap \in Frames \cup {None}
TypeKey ==
    /\ key \in [st : {"idle", "call", "enqueue"}, op : KeyOps \cup {"none"}]
    /\ keyOps \in 0 .. MaxKeyOps
    /\ key.st # "idle" => keyOps > 0
TypeXmit ==
    /\ xmit \in [Kinds -> {"idle", "defer", "enqueue"}]
    /\ given \in [Kinds -> Nat] /\ \A k \in Kinds : given[k] <= NumFrames[k]
    /\ prot \subseteq Frames /\ enc \subseteq Frames /\ freed \subseteq Frames
    /\ sent \in Seq(Frames)
TypeOK ==
    /\ TypeFlags
    /\ TypeNet
    /\ TypePost
    /\ TypeCam
    /\ TypeGate
    /\ TypeKey
    /\ TypeXmit

(* A queued CAM op is never forgotten: as long as one is queued, cam_task  *)
(* is scheduled, or the key_set / key_delete that added an op is about to  *)
(* schedule it - also when cam_task empties the queue at the same time.    *)
NoLostOps == sc_cam_q # <<>> => camTask \/ key.st = "enqueue"

(* CAM ops reach the chip in the order they were made: whatever is in the  *)
(* task's snapshot is newer than what was carried out, and older than what *)
(* is queued.                                                              *)
OpsInOrder ==
    LET todo == cam \o sc_cam_q
    IN  /\ \A i, j \in DOMAIN todo : i < j => todo[i].id < todo[j].id
        /\ \A i \in DOMAIN todo : \A s \in Slots : lastOp[s] < todo[i].id

(* Frames are held only while the gate is closed: whoever opens it, a PTK  *)
(* install or LINK_DOWN, also empties the held queue.                      *)
HeldOnlyBehindGate == sc_tx_pending_q # <<>> => sc_ptk_install_pending

(* Holding frames does not reorder them: data frames, sent or held, are in *)
(* the order they were handed over (CCMP packet numbers rely on it).       *)
DataInOrder ==
    LET out == sent \o sc_tx_pending_q
    IN  \A i, j \in DOMAIN out :
            i < j /\ out[i][1] = "data" /\ out[j][1] = "data" =>
                out[i][2] < out[j][2]

(* A frame is in one place: sent, held, freed, or with its sender.         *)
FramesOwned ==
    \A k \in Kinds : \A n \in 1 .. given[k] :
        LET m == <<k, n>>
            places == <<m \in ToSet(sent), m \in ToSet(sc_tx_pending_q),
                        m \in freed, n = given[k] /\ xmit[k] # "idle">>
        IN  \E i \in 1 .. 4 : /\ places[i]
                              /\ \A j \in 1 .. 4 \ {i} : ~places[j]

(* When LINK_DOWN has wiped the CAM, no key comes back before it also drops *)
(* the queued ops: cam_task cannot get between, although sc_mtx is dropped *)
(* many times there.                                                       *)
TeardownIsComplete ==
    post = "tail" /\ errors = 0 => \A s \in Slots : slot[s] = 0

(* Every key op is carried out (or dropped by LINK_DOWN) in the end.       *)
KeyOpsExecute == []<>(sc_cam_q = <<>> /\ cam = <<>>)

(* The link was lost or left for a re-authentication, or a CAM write       *)
(* failed.                                                                 *)
Disturbed == losses + errors > 0 \/ assoc > 1

(* An M4 that could not be encrypted when it was sent goes out encrypted   *)
(* once the PTK is installed, as long as the link stays up and CAM writes  *)
(* succeed.                                                                *)
M4Encrypted ==
    \A n \in 1 .. NumFrames["m4"] :
        given["m4"] >= n ~> \/ /\ <<"m4", n>> \in ToSet(sent)
                               /\ <<"m4", n>> \in enc
                            \/ Disturbed

----------------------------------------------------------------------------
(* What comments in the code say and the code does not keep; see README.   *)

(* "Hold Protected unicast data frames in sc_tx_pending_q while a PTK      *)
(* install is queued but not yet executed by sc_cam_task": the gate is     *)
(* closed whenever one is.                                                 *)
GateCoversInstalls ==
    (\E i \in DOMAIN (cam \o sc_cam_q) :
        LET op == (cam \o sc_cam_q)[i]
        IN  op.kind = "install" /\ op.slot = "ptk")
    /\ errors = 0 => sc_ptk_install_pending

(* The marked M4 is parked in sc_tx_pending_q, or its sender is about to   *)
(* park it; the marker never names a frame that was sent or freed.         *)
MarkerIsHeld ==
    sc_m4_needs_encap # None =>
        \/ sc_m4_needs_encap \in ToSet(sc_tx_pending_q)
        \/ sc_m4_needs_encap = Cur("m4") /\ xmit["m4"] = "enqueue"

(* "Also drop any cam_q ops queued under the old BSSID so they don't land  *)
(* against the new one": when LINK_DOWN is done none is on its way to the  *)
(* CAM any more, cam_task's snapshot included.                             *)
OldOpsDropped == [][post_state_tail => cam' = <<>>]_vars

(* "Wipe all five CAM slots we touch so the next handshake starts clean":  *)
(* when post_state_task takes up a LINK_UP, no teardown that newstate has  *)
(* posted is still to be carried out.                                      *)
TeardownBeforeUp == [][post_state_begin /\ post' = "up" => ~owed]_vars

(* A frame held behind the gate does not stay there: sc_cam_task drains    *)
(* sc_tx_pending_q "the instant the install completes" - as long as the    *)
(* link stays up and no CAM write fails.                                   *)
HeldFramesReleased ==
    []~Disturbed => []<>(sc_tx_pending_q = <<>>)
=============================================================================
