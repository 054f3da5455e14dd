--------------------------- MODULE KeyGate_proofs ---------------------------
(***************************************************************************)
(* Proofs about KeyGate, for any number of associations, keys, frames and  *)
(* errors and any queue sizes.                                             *)
(***************************************************************************)
EXTENDS KeyGate, SequenceTheorems, TLAPS

(* While LINK_DOWN is between its wipe and its tail, the bus is its own.   *)
TailHasBus == post = "tail" => bus = "post"

IInv ==
    /\ TypeOK
    /\ NoLostOps
    /\ HeldOnlyBehindGate
    /\ TailHasBus
    /\ TeardownIsComplete

USE DEF Kinds, Slots, NetStates, netVars, postVars, camVars, gateVars, keyVars,
        xmitVars

(* The bounds are natural numbers.                                         *)
LEMMA Bounds ==
    /\ MaxAssocs \in Nat /\ MaxLosses \in Nat /\ MaxKeyOps \in Nat
    /\ CamDepth \in Nat /\ PendingCap \in Nat /\ MaxErrors \in Nat
    /\ NumFrames["m4"] \in Nat /\ NumFrames["data"] \in Nat
  BY KeyGateAssumption

(* The initial state satisfies the invariant.                              *)
LEMMA InitIInv == Init => IInv
  <1> SUFFICES ASSUME Init PROVE IInv
    OBVIOUS
  <1> USE Bounds DEF Init
  <1>0. TypeFlags BY Zenon DEF TypeFlags
  <1>1. TypeNet BY DEF TypeNet
  <1>2. TypePost BY DEF TypePost
  <1>3. TypeCam BY DEF TypeCam, Torn
  <1>4. TypeGate BY DEF TypeGate
  <1>5. TypeKey BY DEF TypeKey, Idle
  <1>6. TypeXmit BY DEF TypeXmit
  <1>7. NoLostOps /\ HeldOnlyBehindGate /\ TailHasBus /\ TeardownIsComplete
    BY DEF NoLostOps, HeldOnlyBehindGate, TailHasBus, TeardownIsComplete
  <1> QED
    BY <1>0, <1>1, <1>2, <1>3, <1>4, <1>5, <1>6, <1>7 DEF IInv, TypeOK

(* rtw88_newstate only posts work for sc_tq.                               *)
LEMMA NewstateStep ==
    ASSUME IInv, NEW n \in NetStates, newstate(n)
    PROVE  IInv'
  <1> USE DEF IInv, TypeOK, newstate
  <1>1. TypeFlags'
    BY Bounds DEF TypeFlags
  <1>2. TypeNet'
    BY Bounds DEF TypeNet
  <1>3. TypePost'
    BY Bounds DEF TypePost
  <1>4. TypeCam' /\ TypeGate' /\ TypeKey' /\ TypeXmit'
    BY DEF TypeCam, TypeGate, TypeKey, TypeXmit
  <1>5. NoLostOps'
    BY DEF NoLostOps, TypeFlags
  <1>6. HeldOnlyBehindGate'
    BY DEF HeldOnlyBehindGate, TypeFlags
  <1>7. TailHasBus'
    BY DEF TailHasBus, TypeFlags
  <1>8. TeardownIsComplete'
    BY DEF TeardownIsComplete, TypeFlags
  <1> QED
    BY <1>1, <1>2, <1>3, <1>4, <1>5, <1>6, <1>7, <1>8

(* post_state_task takes the posted ops; nothing is wiped yet.             *)
LEMMA PostBeginStep ==
    ASSUME IInv, post_state_begin
    PROVE  IInv'
  <1> USE DEF IInv, TypeOK, post_state_begin
  <1>1. TypeFlags'
    BY Bounds DEF TypeFlags
  <1>2. TypePost'
    BY Bounds DEF TypePost
  <1>3. TypeNet' /\ TypeCam' /\ TypeGate' /\ TypeKey' /\ TypeXmit'
    BY DEF TypeNet, TypeCam, TypeGate, TypeKey, TypeXmit
  <1>4. NoLostOps'
    BY DEF NoLostOps, TypeFlags
  <1>5. HeldOnlyBehindGate'
    BY DEF HeldOnlyBehindGate, TypeFlags
  <1>6. TailHasBus'
    BY DEF TailHasBus, TypeFlags
  <1>7. TeardownIsComplete'
    BY DEF TeardownIsComplete, TypeFlags
  <1> QED
    BY <1>1, <1>2, <1>3, <1>4, <1>5, <1>6, <1>7

(* LINK_UP leaves keys, gate and queues alone.                             *)
LEMMA PostUpStep ==
    ASSUME IInv, post_state_up
    PROVE  IInv'
  <1> USE DEF IInv, TypeOK, post_state_up
  <1>1. TypePost'
    BY Bounds DEF TypePost
  <1>2. TypeFlags' /\ TypeNet' /\ TypeCam' /\ TypeGate' /\ TypeKey' /\ TypeXmit'
    BY DEF TypeFlags, TypeNet, TypeCam, TypeGate, TypeKey, TypeXmit
  <1>3. NoLostOps'
    BY DEF NoLostOps, TypeFlags
  <1>4. HeldOnlyBehindGate'
    BY DEF HeldOnlyBehindGate, TypeFlags
  <1>5. TailHasBus'
    BY DEF TailHasBus, TypeFlags
  <1>6. TeardownIsComplete'
    BY DEF TeardownIsComplete, TypeFlags
  <1> QED
    BY <1>1, <1>2, <1>3, <1>4, <1>5, <1>6

(* After the CAM wipe every slot is clear and the bus is the task's own.   *)
LEMMA PostWipeStep ==
    ASSUME IInv, post_state_wipe
    PROVE  IInv'
  <1> USE DEF IInv, TypeOK, post_state_wipe
  <1>1. TypePost'
    BY Bounds DEF TypePost
  <1>2. TypeCam'
    <2>1. errors' \in 0 .. MaxErrors
      BY Bounds DEF TypeCam
    <2>2. slot' \in [Slots -> 0 .. Torn]
      <3>1. 0 \in 0 .. Torn
        BY Bounds DEF Torn
      <3>2. \A t \in Slots : slot[t] \in 0 .. Torn
        BY DEF TypeCam
      <3> QED
        BY <3>1, <3>2
    <2> QED
      BY <2>1, <2>2 DEF TypeCam
  <1>3. TypeFlags' /\ TypeNet' /\ TypeGate' /\ TypeKey' /\ TypeXmit'
    BY DEF TypeFlags, TypeNet, TypeGate, TypeKey, TypeXmit
  <1>4. NoLostOps'
    BY DEF NoLostOps, TypeFlags
  <1>5. HeldOnlyBehindGate'
    BY DEF HeldOnlyBehindGate, TypeFlags
  <1>6. TailHasBus'
    BY DEF TailHasBus, TypeFlags
  <1>7. TeardownIsComplete'
    <2>1. CASE errors' = errors + 1
      BY <2>1 DEF TypeCam, TeardownIsComplete
    <2>2. CASE slot' = [s \in Slots |-> 0]
      BY <2>2 DEF TeardownIsComplete
    <2> QED
      BY <2>1, <2>2
  <1> QED
    BY <1>1, <1>2, <1>3, <1>4, <1>5, <1>6, <1>7

(* LINK_DOWN opens the gate and empties the held queue together.           *)
LEMMA PostTailStep ==
    ASSUME IInv, post_state_tail
    PROVE  IInv'
  <1> USE DEF IInv, TypeOK, post_state_tail
  <1>1. TypeFlags'
    BY Bounds DEF TypeFlags
  <1>2. TypePost'
    BY Bounds DEF TypePost
  <1>3. TypeCam'
    BY Bounds DEF TypeCam
  <1>4. TypeGate'
    BY Bounds DEF TypeGate
  <1>5. TypeXmit'
    <2>1. ToSet(sc_tx_pending_q) \subseteq Frames
      BY DEF TypeGate, ToSet
    <2> QED
      BY <2>1 DEF TypeXmit
  <1>6. TypeNet' /\ TypeKey'
    BY DEF TypeNet, TypeKey
  <1>7. NoLostOps'
    BY DEF NoLostOps, TypeFlags
  <1>8. HeldOnlyBehindGate'
    BY DEF HeldOnlyBehindGate, TypeFlags
  <1>9. TailHasBus'
    BY DEF TailHasBus, TypeFlags
  <1>10. TeardownIsComplete'
    BY DEF TeardownIsComplete, TypeFlags
  <1> QED
    BY <1>1, <1>2, <1>3, <1>4, <1>5, <1>6, <1>7, <1>8, <1>9, <1>10

(* net80211 attaches or detaches the cipher before it calls the driver.    *)
LEMMA NewkeyStep ==
    ASSUME IInv, NEW o \in KeyOps, crypto_newkey(o)
    PROVE  IInv'
  <1> USE DEF IInv, TypeOK, crypto_newkey
  <1>1. TypeFlags'
    BY Bounds DEF TypeFlags
  <1>2. TypeKey'
    BY Bounds DEF TypeKey
  <1>3. TypeNet' /\ TypePost' /\ TypeCam' /\ TypeGate' /\ TypeXmit'
    BY DEF TypeNet, TypePost, TypeCam, TypeGate, TypeXmit
  <1>4. NoLostOps'
    BY DEF NoLostOps, TypeFlags
  <1>5. HeldOnlyBehindGate'
    BY DEF HeldOnlyBehindGate, TypeFlags
  <1>6. TailHasBus'
    BY DEF TailHasBus, TypeFlags
  <1>7. TeardownIsComplete'
    BY DEF TeardownIsComplete, TypeFlags
  <1> QED
    BY <1>1, <1>2, <1>3, <1>4, <1>5, <1>6, <1>7

(* key_set and key_delete append within the queue's limit and go on to     *)
(* wake cam_task.                                                          *)
LEMMA KeyOpStep ==
    ASSUME IInv, vap_key_op
    PROVE  IInv'
  <1> USE DEF IInv, TypeOK, vap_key_op
  <1>1. TypeFlags'
    BY Bounds DEF TypeFlags
  <1>2. TypeCam'
    <2>1. CASE UNCHANGED sc_cam_q
      BY <2>1 DEF TypeCam
    <2>2. CASE /\ Len(sc_cam_q) < CamDepth
               /\ \E op \in Ops : sc_cam_q' = Append(sc_cam_q, op)
      BY <2>2, Bounds DEF TypeCam
    <2>3. /\ [kind |-> IF key.op # "delete" THEN "install" ELSE "clear",
              slot |-> IF key.op = "gtk" THEN "gtk" ELSE "ptk",
              id |-> keyOps, assoc |-> assoc] \in Ops
          /\ Len(sc_cam_q) \in Nat
      <3>1. keyOps \in 1 .. MaxKeyOps /\ assoc \in 0 .. MaxAssocs
        BY Bounds DEF TypeKey, TypeNet
      <3>2. Len(sc_cam_q) \in Nat
        BY DEF TypeCam
      <3> QED BY <3>1, <3>2 DEF Ops, Slots
    <2> QED
      BY <2>1, <2>2, <2>3, Bounds
  <1>3. TypeKey'
    <2>1. key' \in [st : {"idle", "call", "enqueue"}, op : KeyOps \cup {"none"}]
      BY DEF TypeKey, Idle
    <2> QED
      BY <2>1, Bounds DEF TypeKey, Idle
  <1>4. TypeNet' /\ TypePost' /\ TypeGate' /\ TypeXmit'
    BY DEF TypeNet, TypePost, TypeGate, TypeXmit
  <1>5. NoLostOps'
    <2>1. CASE UNCHANGED sc_cam_q
      <3>1. key.st = "call"
        OBVIOUS
      <3> QED
        BY <2>1, <3>1 DEF NoLostOps
    <2>2. CASE key' = [key EXCEPT !.st = "enqueue"]
      <3>1. key'.st = "enqueue"
        BY <2>2 DEF TypeKey
      <3> QED
        BY <3>1 DEF NoLostOps
    <2> QED
      BY <2>1, <2>2
  <1>6. HeldOnlyBehindGate'
    BY DEF HeldOnlyBehindGate, TypeFlags
  <1>7. TailHasBus'
    BY DEF TailHasBus, TypeFlags
  <1>8. TeardownIsComplete'
    BY DEF TeardownIsComplete, TypeFlags
  <1> QED
    BY <1>1, <1>2, <1>3, <1>4, <1>5, <1>6, <1>7, <1>8

(* taskqueue_enqueue leaves cam_task scheduled.                            *)
LEMMA KeyEnqueueStep ==
    ASSUME IInv, vap_key_enqueue
    PROVE  IInv'
  <1> USE DEF IInv, TypeOK, vap_key_enqueue
  <1>1. TypeFlags'
    BY Bounds DEF TypeFlags
  <1>2. TypeKey'
    BY Bounds DEF TypeKey, Idle
  <1>3. TypeNet' /\ TypePost' /\ TypeCam' /\ TypeGate' /\ TypeXmit'
    BY DEF TypeNet, TypePost, TypeCam, TypeGate, TypeXmit
  <1>4. NoLostOps'
    BY DEF NoLostOps, TypeFlags
  <1>5. HeldOnlyBehindGate'
    BY DEF HeldOnlyBehindGate, TypeFlags
  <1>6. TailHasBus'
    BY DEF TailHasBus, TypeFlags
  <1>7. TeardownIsComplete'
    BY DEF TeardownIsComplete, TypeFlags
  <1> QED
    BY <1>1, <1>2, <1>3, <1>4, <1>5, <1>6, <1>7

(* cam_task's snapshot empties the queue: no op is left unscheduled.       *)
LEMMA CamBeginStep ==
    ASSUME IInv, cam_task_begin
    PROVE  IInv'
  <1> USE DEF IInv, TypeOK, cam_task_begin
  <1>1. TypeFlags'
    BY Bounds DEF TypeFlags
  <1>2. TypeCam'
    BY Bounds DEF TypeCam
  <1>3. TypeNet' /\ TypePost' /\ TypeGate' /\ TypeKey' /\ TypeXmit'
    BY DEF TypeNet, TypePost, TypeGate, TypeKey, TypeXmit
  <1>4. NoLostOps'
    BY DEF NoLostOps, TypeFlags
  <1>5. HeldOnlyBehindGate'
    BY DEF HeldOnlyBehindGate, TypeFlags
  <1>6. TailHasBus'
    BY DEF TailHasBus, TypeFlags
  <1>7. TeardownIsComplete'
    BY DEF TeardownIsComplete, TypeFlags
  <1> QED
    BY <1>1, <1>2, <1>3, <1>4, <1>5, <1>6, <1>7

(* A CAM op needs the bus, so none falls between wipe and tail.            *)
LEMMA CamOpStep ==
    ASSUME IInv, cam_task_op
    PROVE  IInv'
  <1> USE DEF IInv, TypeOK, cam_task_op
  <1>1. TypeFlags'
    BY DEF TypeFlags, ReleaseHeld
  <1>2. TypeCam'
    <2>1. Head(cam) \in Ops /\ cam' \in Seq(Ops)
      BY DEF TypeCam
    <2>2. /\ Head(cam).slot \in Slots /\ Head(cam).id \in 1 .. MaxKeyOps
          /\ Head(cam).kind \in {"install", "clear"}
      BY <2>1 DEF Ops
    <2>3. lastOp' \in [Slots -> 0 .. MaxKeyOps]
      BY <2>2, Bounds DEF TypeCam
    <2>4. \E v \in 0 .. Torn : slot' = [slot EXCEPT ![Head(cam).slot] = v]
      BY <2>2, Bounds, SMTT(30) DEF TypeCam, Torn
    <2>5. slot' \in [Slots -> 0 .. Torn]
      BY <2>4 DEF TypeCam
    <2>6. errors' \in 0 .. MaxErrors
      BY Bounds DEF TypeCam
    <2> QED
      BY <2>1, <2>3, <2>5, <2>6 DEF TypeCam
  <1>3. TypeGate'
    <2>1. CASE UNCHANGED gateVars
      BY <2>1 DEF TypeGate
    <2>2. CASE ReleaseHeld
      BY <2>2, Bounds DEF TypeGate, ReleaseHeld
    <2> QED
      BY <2>1, <2>2
  <1>4. TypeXmit'
    <2>1. CASE UNCHANGED <<sent, enc, prot>>
      BY <2>1 DEF TypeXmit
    <2>2. CASE ReleaseHeld
      <3>1. ToSet(sc_tx_pending_q) \subseteq Frames
        BY DEF TypeGate, ToSet
      <3>2. sent' \in Seq(Frames)
        BY <2>2 DEF TypeXmit, TypeGate, ReleaseHeld
      <3>3. enc' \subseteq Frames /\ prot' \subseteq Frames
        BY <2>2, <3>1 DEF TypeXmit, ReleaseHeld
      <3> QED
        BY <3>2, <3>3 DEF TypeXmit
    <2> QED
      BY <2>1, <2>2
  <1>5. TypeNet' /\ TypePost' /\ TypeKey'
    BY DEF TypeNet, TypePost, TypeKey
  <1>6. NoLostOps'
    BY DEF NoLostOps, TypeFlags
  <1>7. HeldOnlyBehindGate'
    <2>1. CASE UNCHANGED gateVars
      BY <2>1 DEF HeldOnlyBehindGate
    <2>2. CASE ReleaseHeld
      BY <2>2 DEF HeldOnlyBehindGate, ReleaseHeld
    <2> QED
      BY <2>1, <2>2
  <1>8. TailHasBus'
    BY DEF TailHasBus, TypeFlags
  <1>9. TeardownIsComplete'
    BY DEF TeardownIsComplete, TailHasBus
  <1> QED
    BY <1>1, <1>2, <1>3, <1>4, <1>5, <1>6, <1>7, <1>8, <1>9

(* Encrypting a frame touches neither queue nor gate.                      *)
LEMMA EncapStep ==
    ASSUME IInv, NEW k \in Kinds, crypto_encap(k)
    PROVE  IInv'
  <1> USE DEF IInv, TypeOK, crypto_encap
  <1>1. TypeXmit'
    <2>1. given' \in [Kinds -> Nat] /\ \A j \in Kinds : given'[j] <= NumFrames[j]
      BY Bounds DEF TypeXmit
    <2>2. <<k, given[k] + 1>> \in Frames
      BY DEF TypeXmit, Frames
    <2>3. /\ xmit' \in [Kinds -> {"idle", "defer", "enqueue"}]
          /\ prot' \subseteq Frames /\ enc' \subseteq Frames
          /\ freed' \subseteq Frames
      BY <2>2 DEF TypeXmit
    <2> QED
      BY <2>1, <2>3 DEF TypeXmit
  <1>2. TypeFlags' /\ TypeNet' /\ TypePost' /\ TypeCam' /\ TypeGate' /\ TypeKey'
    BY DEF TypeFlags, TypeNet, TypePost, TypeCam, TypeGate, TypeKey
  <1>3. NoLostOps'
    BY DEF NoLostOps, TypeFlags
  <1>4. HeldOnlyBehindGate'
    BY DEF HeldOnlyBehindGate, TypeFlags
  <1>5. TailHasBus'
    BY DEF TailHasBus, TypeFlags
  <1>6. TeardownIsComplete'
    BY DEF TeardownIsComplete, TypeFlags
  <1> QED
    BY <1>1, <1>2, <1>3, <1>4, <1>5, <1>6

(* Deferring an M4 closes the gate.                                        *)
LEMMA DeferStep ==
    ASSUME IInv, defer_m4
    PROVE  IInv'
  <1> USE DEF IInv, TypeOK, defer_m4
  <1>1. TypeFlags'
    BY Bounds DEF TypeFlags
  <1>2. TypeGate'
    <2>1. Cur("m4") \in Frames
      BY DEF TypeXmit, Frames, Cur
    <2> QED
      BY <2>1 DEF TypeGate
  <1>3. TypeXmit'
    BY Bounds DEF TypeXmit
  <1>4. TypeNet' /\ TypePost' /\ TypeCam' /\ TypeKey'
    BY DEF TypeNet, TypePost, TypeCam, TypeKey
  <1>5. NoLostOps'
    BY DEF NoLostOps, TypeFlags
  <1>6. HeldOnlyBehindGate'
    BY DEF HeldOnlyBehindGate, TypeFlags
  <1>7. TailHasBus'
    BY DEF TailHasBus, TypeFlags
  <1>8. TeardownIsComplete'
    BY DEF TeardownIsComplete, TypeFlags
  <1> QED
    BY <1>1, <1>2, <1>3, <1>4, <1>5, <1>6, <1>7, <1>8

(* A frame is held only while the gate is closed and there is room.        *)
LEMMA EnqueueStep ==
    ASSUME IInv, NEW k \in Kinds, tx_enqueue_locked(k)
    PROVE  IInv'
  <1> USE DEF IInv, TypeOK, tx_enqueue_locked
  <1>1. TypeGate'
    <2>1. Cur(k) \in Frames
      BY DEF TypeXmit, Frames, Cur
    <2>2. CASE UNCHANGED sc_tx_pending_q
      BY <2>2 DEF TypeGate
    <2>3. CASE /\ Len(sc_tx_pending_q) < PendingCap
               /\ sc_tx_pending_q' = Append(sc_tx_pending_q, Cur(k))
      BY <2>1, <2>3, Bounds DEF TypeGate
    <2> QED
      BY <2>2, <2>3
  <1>2. TypeXmit'
    <2>1. Cur(k) \in Frames
      BY DEF TypeXmit, Frames, Cur
    <2>2. sent' \in Seq(Frames)
      BY <2>1, SMTT(30) DEF TypeXmit
    <2> QED
      BY <2>1, <2>2 DEF TypeXmit
  <1>3. TypeFlags' /\ TypeNet' /\ TypePost' /\ TypeCam' /\ TypeKey'
    BY DEF TypeFlags, TypeNet, TypePost, TypeCam, TypeKey
  <1>4. NoLostOps'
    BY DEF NoLostOps, TypeFlags
  <1>5. HeldOnlyBehindGate'
    BY DEF HeldOnlyBehindGate, TypeFlags
  <1>6. TailHasBus'
    BY DEF TailHasBus, TypeFlags
  <1>7. TeardownIsComplete'
    BY DEF TeardownIsComplete, TypeFlags
  <1> QED
    BY <1>1, <1>2, <1>3, <1>4, <1>5, <1>6, <1>7


(* No step breaks the invariant.                                           *)
LEMMA NextIInv == IInv /\ [Next]_vars => IInv'
  <1> SUFFICES ASSUME IInv, [Next]_vars PROVE IInv'
    OBVIOUS
  <1>1. CASE UNCHANGED vars
    BY <1>1 DEF vars, IInv, TypeOK, TypeFlags, TypeNet, TypePost, TypeCam,
       TypeGate, TypeKey, TypeXmit, NoLostOps, HeldOnlyBehindGate, TailHasBus,
       TeardownIsComplete
  <1>2. CASE \E n \in NetStates : newstate(n)
    BY <1>2, NewstateStep
  <1>3. CASE post_state_task
    BY <1>3, PostBeginStep, PostUpStep, PostWipeStep, PostTailStep
       DEF post_state_task
  <1>4. CASE \E o \in KeyOps : crypto_newkey(o)
    BY <1>4, NewkeyStep
  <1>5. CASE vap_key
    BY <1>5, KeyOpStep, KeyEnqueueStep DEF vap_key
  <1>6. CASE cam_task
    BY <1>6, CamBeginStep, CamOpStep DEF cam_task
  <1>7. CASE \E k \in Kinds : crypto_encap(k) \/ send(k)
    BY <1>7, EncapStep, DeferStep, EnqueueStep DEF send
  <1> QED
    BY <1>1, <1>2, <1>3, <1>4, <1>5, <1>6, <1>7 DEF Next

(* The inductive invariant holds in every reachable state.                 *)
THEOREM Invariance == Spec => []IInv
  BY InitIInv, NextIInv, PTL DEF Spec

(* Every variable keeps its type: in particular neither queue outgrows its *)
(* limit and every op on its way to the CAM is well formed.                *)
THEOREM TypeCorrect == Spec => []TypeOK
  <1>1. IInv => TypeOK
    BY DEF IInv
  <1> QED
    BY <1>1, Invariance, PTL

(* "No lost ops": a queued CAM op always has a cam_task run coming.        *)
THEOREM OpsNotLost == Spec => []NoLostOps
  <1>1. IInv => NoLostOps
    BY DEF IInv
  <1> QED
    BY <1>1, Invariance, PTL

(* No frame is left behind an open gate.                                   *)
THEOREM NothingBehindOpenGate == Spec => []HeldOnlyBehindGate
  <1>1. IInv => HeldOnlyBehindGate
    BY DEF IInv
  <1> QED
    BY <1>1, Invariance, PTL

(* cam_task cannot put a key back between LINK_DOWN's wipe and its tail.   *)
THEOREM WipeStaysWiped == Spec => []TeardownIsComplete
  <1>1. IInv => TeardownIsComplete
    BY DEF IInv
  <1> QED
    BY <1>1, Invariance, PTL

----------------------------------------------------------------------------
(* Op ids grow along carried out, snapshot, queue, made.  An op that       *)
(* key_set has not queued yet is newer than all of them.                   *)
Newest == IF key.st = "call" THEN keyOps - 1 ELSE keyOps

Ascending(ops) == \A i, j \in 1 .. Len(ops) : i < j => ops[i].id < ops[j].id
SnapshotOlder ==
    \A i \in 1 .. Len(cam), j \in 1 .. Len(sc_cam_q) : cam[i].id < sc_cam_q[j].id
DoneOlder(ops) == \A s \in Slots, i \in 1 .. Len(ops) : lastOp[s] < ops[i].id
NoneNewer ==
    /\ \A s \in Slots : lastOp[s] <= Newest
    /\ \A i \in 1 .. Len(cam) : cam[i].id <= Newest
    /\ \A j \in 1 .. Len(sc_cam_q) : sc_cam_q[j].id <= Newest

OrderInv ==
    /\ Ascending(cam)
    /\ Ascending(sc_cam_q)
    /\ SnapshotOlder
    /\ DoneOlder(cam)
    /\ DoneOlder(sc_cam_q)
    /\ NoneNewer

(* The order is kept by every step.                                        *)
LEMMA OrderStep == IInv /\ OrderInv /\ [Next]_vars => OrderInv'
  <1> USE DEF Ascending, SnapshotOlder, DoneOlder, NoneNewer
  <1> SUFFICES ASSUME IInv, OrderInv, [Next]_vars PROVE OrderInv'
    OBVIOUS
  <1>t. /\ keyOps \in Nat /\ cam \in Seq(Ops) /\ sc_cam_q \in Seq(Ops)
        /\ lastOp \in [Slots -> Nat] /\ TypeKey
    BY Bounds DEF IInv, TypeOK, TypeKey, TypeCam
  <1>i. \A op \in Ops : op.id \in Nat /\ op.slot \in Slots
    BY Bounds DEF Ops
  <1>1. CASE UNCHANGED <<cam, sc_cam_q, lastOp, key, keyOps>>
    BY <1>1 DEF OrderInv, Newest
  <1>2. ASSUME NEW o \in KeyOps, crypto_newkey(o) PROVE OrderInv'
    <2>1. Newest = keyOps /\ Newest' = Newest
      BY <1>2, <1>t DEF crypto_newkey, Newest
    <2> QED
      BY <1>2, <2>1 DEF crypto_newkey, OrderInv
  <1>3. CASE vap_key_op
    <2>1. Newest = keyOps - 1 /\ Newest' = keyOps
      BY <1>3, <1>t DEF vap_key_op, Newest, Idle, TypeKey
    <2>2. CASE UNCHANGED sc_cam_q
      BY <1>3, <2>1, <2>2, <1>t, <1>i DEF vap_key_op, OrderInv
    <2>3. CASE \E op \in Ops : op.id = keyOps /\ sc_cam_q' = Append(sc_cam_q, op)
      <3>1. PICK op \in Ops : op.id = keyOps /\ sc_cam_q' = Append(sc_cam_q, op)
        BY <2>3
      <3>2. /\ Len(sc_cam_q') = Len(sc_cam_q) + 1
            /\ \A j \in 1 .. Len(sc_cam_q) : sc_cam_q'[j] = sc_cam_q[j]
            /\ sc_cam_q'[Len(sc_cam_q) + 1] = op
        BY <3>1, <1>t
      <3>3. UNCHANGED <<cam, lastOp>>
        BY <1>3 DEF vap_key_op
      <3>4. \A j \in 1 .. Len(sc_cam_q') :
                \/ j \in 1 .. Len(sc_cam_q) /\ sc_cam_q'[j].id = sc_cam_q[j].id
                \/ j = Len(sc_cam_q) + 1 /\ sc_cam_q'[j].id = keyOps
        BY <3>1, <3>2, <1>t
      <3>5. /\ \A i \in 1 .. Len(cam) : cam[i].id \in Nat /\ cam[i].id < keyOps
            /\ \A j \in 1 .. Len(sc_cam_q) :
                   sc_cam_q[j].id \in Nat /\ sc_cam_q[j].id < keyOps
            /\ \A s \in Slots : lastOp[s] \in Nat /\ lastOp[s] < keyOps
        BY <2>1, <1>t, <1>i DEF OrderInv
      <3>6. \A i, j \in 1 .. Len(sc_cam_q') :
                i < j => sc_cam_q'[i].id < sc_cam_q'[j].id
        BY <3>4, <3>5, <1>t, SMTT(30) DEF OrderInv
      <3>7. \A i \in 1 .. Len(cam), j \in 1 .. Len(sc_cam_q') :
                cam[i].id < sc_cam_q'[j].id
        BY <3>4, <3>5 DEF OrderInv
      <3>8. \A s \in Slots, j \in 1 .. Len(sc_cam_q') :
                lastOp[s] < sc_cam_q'[j].id
        BY <3>4, <3>5 DEF OrderInv
      <3>9. \A j \in 1 .. Len(sc_cam_q') : sc_cam_q'[j].id <= keyOps
        BY <3>4, <3>5, <1>t
      <3>10. /\ \A i \in 1 .. Len(cam) : cam[i].id <= keyOps
             /\ \A s \in Slots : lastOp[s] <= keyOps
        BY <3>5, <1>t
      <3> QED
        BY <3>3, <3>6, <3>7, <3>8, <3>9, <3>10, <2>1 DEF OrderInv
    <2>4. [kind |-> IF key.op # "delete" THEN "install" ELSE "clear",
           slot |-> IF key.op = "gtk" THEN "gtk" ELSE "ptk",
           id |-> keyOps, assoc |-> assoc] \in Ops
      BY <1>3, Bounds DEF vap_key_op, IInv, TypeOK, TypeKey, TypeNet, Ops
    <2> QED
      BY <1>3, <2>2, <2>3, <2>4 DEF vap_key_op
  <1>4. CASE vap_key_enqueue
    <2>1. Newest' = Newest
      BY <1>4 DEF vap_key_enqueue, Newest, Idle
    <2> QED
      BY <1>4, <2>1 DEF vap_key_enqueue, OrderInv
  <1>5. CASE cam_task_begin
    <2>1. Newest' = Newest
      BY <1>5 DEF cam_task_begin, Newest
    <2> QED
      BY <1>5, <2>1 DEF cam_task_begin, OrderInv
  <1>6. CASE cam_task_op
    <2>1. Newest' = Newest
      BY <1>6 DEF cam_task_op, Newest
    <2>2. /\ Len(cam') = Len(cam) - 1 /\ Len(cam) \in Nat
          /\ \A i \in 1 .. Len(cam') : cam'[i] = cam[i + 1]
          /\ Head(cam) = cam[1] /\ 1 \in 1 .. Len(cam)
          /\ \A i \in 1 .. Len(cam) : cam[i] \in Ops
      BY <1>6, <1>t DEF cam_task_op
    <2>3. lastOp' = [lastOp EXCEPT ![Head(cam).slot] = Head(cam).id]
      BY <1>6 DEF cam_task_op
    <2>4. UNCHANGED sc_cam_q
      BY <1>6 DEF cam_task_op
    <2>5. \A i \in 1 .. Len(cam') :
              /\ i + 1 \in 1 .. Len(cam) /\ 1 < i + 1
              /\ cam'[i] = cam[i + 1] /\ cam[1].id < cam'[i].id
      BY <2>2 DEF OrderInv
    <2>6. \A s \in Slots : lastOp'[s] = lastOp[s] \/ lastOp'[s] = cam[1].id
      BY <2>2, <2>3, <1>t, <1>i
    <2>7. \A i, j \in 1 .. Len(cam') : i < j => cam'[i].id < cam'[j].id
      BY <2>2, <2>5 DEF OrderInv
    <2>8. \A i \in 1 .. Len(cam'), j \in 1 .. Len(sc_cam_q) :
              cam'[i].id < sc_cam_q[j].id
      BY <2>5 DEF OrderInv
    <2>9. \A s \in Slots :
              /\ lastOp'[s] <= Newest
              /\ \A i \in 1 .. Len(cam') : lastOp'[s] < cam'[i].id
              /\ \A j \in 1 .. Len(sc_cam_q) : lastOp'[s] < sc_cam_q[j].id
      BY <2>2, <2>5, <2>6 DEF OrderInv
    <2>10. \A i \in 1 .. Len(cam') : cam'[i].id <= Newest
      BY <2>5 DEF OrderInv
    <2>11. Ascending(cam') /\ SnapshotOlder'
      BY <2>4, <2>7, <2>8
    <2>12. Ascending(sc_cam_q')
      BY <2>4 DEF OrderInv
    <2>13. (DoneOlder(cam))' /\ (DoneOlder(sc_cam_q))'
      BY <2>4, <2>9
    <2>14. NoneNewer'
      BY <2>1, <2>4, <2>9, <2>10 DEF OrderInv
    <2> HIDE DEF Ascending, SnapshotOlder, DoneOlder, NoneNewer
    <2> QED
      BY <2>11, <2>12, <2>13, <2>14 DEF OrderInv
  <1>7. CASE post_state_tail
    <2>1. Newest' = Newest /\ UNCHANGED <<cam, lastOp>> /\ sc_cam_q' = <<>>
      BY <1>7 DEF post_state_tail, Newest
    <2> QED
      BY <2>1 DEF OrderInv
  <1> QED
    BY <1>1, <1>2, <1>3, <1>4, <1>5, <1>6, <1>7
       DEF Next, vars, newstate, post_state_task, post_state_begin,
           post_state_up, post_state_wipe, vap_key, cam_task, crypto_encap,
           send, defer_m4, tx_enqueue_locked

(* CAM ops reach the chip in the order they were made.                     *)
THEOREM OpsKeepOrder == Spec => []OpsInOrder
  <1>1. Init => OrderInv
    BY Bounds DEF Init, OrderInv, Newest, Idle, Ascending, SnapshotOlder,
       DoneOlder, NoneNewer
  <1>2. IInv /\ OrderInv => OpsInOrder
    <2> SUFFICES ASSUME IInv, OrderInv PROVE OpsInOrder
      OBVIOUS
    <2> DEFINE todo == cam \o sc_cam_q
    <2>1. /\ cam \in Seq(Ops) /\ sc_cam_q \in Seq(Ops)
          /\ Len(cam) \in Nat /\ Len(sc_cam_q) \in Nat
      BY DEF IInv, TypeOK, TypeCam
    <2>2. /\ DOMAIN todo = 1 .. Len(cam) + Len(sc_cam_q)
          /\ \A i \in DOMAIN todo :
                todo[i] = IF i <= Len(cam) THEN cam[i]
                          ELSE sc_cam_q[i - Len(cam)]
      BY <2>1
    <2>3. \A i \in DOMAIN todo :
              \/ i \in 1 .. Len(cam)
              \/ i > Len(cam) /\ i - Len(cam) \in 1 .. Len(sc_cam_q)
      BY <2>1, <2>2
    <2> HIDE DEF todo
    <2>4. \A i, j \in DOMAIN todo : i < j => todo[i].id < todo[j].id
      BY <2>1, <2>2, <2>3 DEF OrderInv, Ascending, SnapshotOlder, DoneOlder
    <2>5. \A i \in DOMAIN todo : \A s \in Slots : lastOp[s] < todo[i].id
      BY <2>1, <2>2, <2>3 DEF OrderInv, Ascending, SnapshotOlder, DoneOlder
    <2> QED
      BY <2>4, <2>5 DEF OpsInOrder, todo
  <1> QED
    BY <1>1, <1>2, Invariance, OrderStep, PTL DEF Spec

----------------------------------------------------------------------------
(* Frames: who has them, and the order of data.                            *)

In(m, s) == \E i \in DOMAIN s : s[i] = m

(* Data frames of a sequence are in the order they were handed over.       *)
DataAscending(s) ==
    \A i, j \in DOMAIN s :
        i < j /\ s[i][1] = "data" /\ s[j][1] = "data" => s[i][2] < s[j][2]

(* The three places a frame may have come to, and the fourth.              *)
Sent(m) == In(m, sent)
Held(m) == In(m, sc_tx_pending_q)
Freed(m) == m \in freed
WithSender(k, n) == n = given[k] /\ xmit[k] # "idle"

(* Only what was handed over is anywhere, and a sender at work has a frame. *)
GivenOnly ==
    \A k \in Kinds, n \in Nat :
        Sent(<<k, n>>) \/ Held(<<k, n>>) \/ Freed(<<k, n>>) => n \in 1 .. given[k]
SenderHasFrame == \A k \in Kinds : xmit[k] # "idle" => given[k] # 0

(* Every frame is somewhere, and in one place only.                        *)
Somewhere ==
    \A k \in Kinds : \A n \in 1 .. given[k] :
        \/ Sent(<<k, n>>) \/ Held(<<k, n>>) \/ Freed(<<k, n>>)
        \/ WithSender(k, n)
OnePlace ==
    \A k \in Kinds, n \in Nat :
        /\ Sent(<<k, n>>) => ~Held(<<k, n>>)
        /\ Freed(<<k, n>>) => ~Sent(<<k, n>>) /\ ~Held(<<k, n>>)
        /\ WithSender(k, n) =>
               ~Sent(<<k, n>>) /\ ~Held(<<k, n>>) /\ ~Freed(<<k, n>>)

FrameInv == GivenOnly /\ SenderHasFrame /\ Somewhere /\ OnePlace

(* What is held comes after what was sent.                                 *)
SentOlder ==
    \A n, p \in Nat : Sent(<<"data", n>>) /\ Held(<<"data", p>>) => n < p

(* A data frame on its way to the queue is Protected, so it cannot pass    *)
(* the closed gate: nothing but the marked M4 loses the bit.               *)
DataIsProtected ==
    xmit["data"] # "idle" => xmit["data"] = "enqueue" /\ Cur("data") \in prot
MarkerIsM4 == sc_m4_needs_encap[1] # "data"

DataInv ==
    /\ DataAscending(sent) /\ DataAscending(sc_tx_pending_q)
    /\ SentOlder /\ DataIsProtected /\ MarkerIsM4

(* What concatenation does to membership and to the order of data.         *)
LEMMA ConcatFacts ==
    ASSUME NEW S, NEW s \in Seq(S), NEW t \in Seq(S)
    PROVE  /\ \A m : In(m, s \o t) <=> In(m, s) \/ In(m, t)
           /\ DataAscending(s \o t) <=>
                  /\ DataAscending(s) /\ DataAscending(t)
                  /\ \A m, l : In(m, s) /\ In(l, t) =>
                         (m[1] = "data" /\ l[1] = "data" => m[2] < l[2])
  <1> DEFINE u == s \o t
             cross == \A m, l : In(m, s) /\ In(l, t) =>
                          (m[1] = "data" /\ l[1] = "data" => m[2] < l[2])
  <1>1. /\ Len(s) \in Nat /\ Len(t) \in Nat
        /\ DOMAIN s = 1 .. Len(s) /\ DOMAIN t = 1 .. Len(t)
        /\ DOMAIN u = 1 .. Len(s) + Len(t)
        /\ \A i \in DOMAIN u : u[i] = IF i <= Len(s) THEN s[i] ELSE t[i - Len(s)]
    BY ConcatProperties, LenProperties
  <1> HIDE DEF u
  <1>2. \A i \in DOMAIN s : i \in DOMAIN u /\ u[i] = s[i] /\ i <= Len(s)
    BY <1>1
  <1>3. \A i \in DOMAIN t : /\ i + Len(s) \in DOMAIN u /\ u[i + Len(s)] = t[i]
                            /\ i + Len(s) > Len(s)
    BY <1>1
  <1>4. \A i \in DOMAIN u :
           \/ i \in DOMAIN s /\ u[i] = s[i] /\ i <= Len(s)
           \/ i > Len(s) /\ i - Len(s) \in DOMAIN t /\ u[i] = t[i - Len(s)]
    BY <1>1
  <1>5. \A m : In(m, u) <=> In(m, s) \/ In(m, t)
    BY <1>2, <1>3, <1>4 DEF In
  <1>6. ASSUME DataAscending(s), DataAscending(t), cross
        PROVE  DataAscending(u)
    <2> SUFFICES ASSUME NEW i \in DOMAIN u, NEW j \in DOMAIN u, i < j,
                        u[i][1] = "data", u[j][1] = "data"
                 PROVE  u[i][2] < u[j][2]
      BY DEF DataAscending
    <2>0. i \in Nat /\ j \in Nat
      BY <1>1
    <2>1. CASE j <= Len(s)
      BY <2>0, <2>1, <1>1, <1>4, <1>6 DEF DataAscending
    <2>2. CASE i > Len(s)
      <3>1. /\ i - Len(s) \in DOMAIN t /\ j - Len(s) \in DOMAIN t
            /\ i - Len(s) < j - Len(s)
            /\ u[i] = t[i - Len(s)] /\ u[j] = t[j - Len(s)]
        BY <2>0, <2>2, <1>1, <1>4
      <3> QED BY <3>1, <1>6 DEF DataAscending
    <2>3. CASE i <= Len(s) /\ j > Len(s)
      <3>1. In(u[i], s) /\ In(u[j], t)
        BY <2>0, <2>3, <1>1, <1>4 DEF In
      <3> QED BY <3>1, <1>6
    <2> QED BY <2>0, <2>1, <2>2, <2>3, <1>1
  <1>7. ASSUME DataAscending(u)
        PROVE  DataAscending(s) /\ DataAscending(t) /\ cross
    <2>1. DataAscending(s)
      BY <1>2, <1>7 DEF DataAscending
    <2>2. DataAscending(t)
      <3> SUFFICES ASSUME NEW i \in DOMAIN t, NEW j \in DOMAIN t, i < j,
                          t[i][1] = "data", t[j][1] = "data"
                   PROVE  t[i][2] < t[j][2]
        BY DEF DataAscending
      <3>1. i + Len(s) < j + Len(s)
        BY <1>1
      <3> QED BY <3>1, <1>3, <1>7 DEF DataAscending
    <2>3. cross
      <3> SUFFICES ASSUME NEW i \in DOMAIN s, NEW j \in DOMAIN t,
                          s[i][1] = "data", t[j][1] = "data"
                   PROVE  s[i][2] < t[j][2]
        BY DEF In
      <3>1. i < j + Len(s)
        BY <1>1
      <3> QED BY <3>1, <1>2, <1>3, <1>7 DEF DataAscending
    <2> QED BY <2>1, <2>2, <2>3
  <1> QED BY <1>5, <1>6, <1>7 DEF u

(* What appending a frame does to them.                                    *)
LEMMA AppendFacts ==
    ASSUME NEW S, NEW s \in Seq(S), NEW e \in S
    PROVE  /\ \A m : In(m, Append(s, e)) <=> In(m, s) \/ m = e
           /\ /\ DataAscending(s)
              /\ \A m : In(m, s) /\ m[1] = "data" /\ e[1] = "data" => m[2] < e[2]
              => DataAscending(Append(s, e))
  <1> DEFINE t == Append(s, e)
  <1>1. /\ Len(s) \in Nat /\ DOMAIN s = 1 .. Len(s)
        /\ DOMAIN t = 1 .. Len(s) + 1
        /\ \A i \in 1 .. Len(s) : t[i] = s[i]
        /\ t[Len(s) + 1] = e
    BY AppendProperties, LenProperties
  <1> HIDE DEF t
  <1>2. \A m : In(m, t) <=> In(m, s) \/ m = e
    <2>1. \A i \in DOMAIN t : i \in DOMAIN s \/ i = Len(s) + 1
      BY <1>1
    <2>2. Len(s) + 1 \in DOMAIN t /\ \A i \in DOMAIN s : i \in DOMAIN t
      BY <1>1
    <2> QED BY <1>1, <2>1, <2>2 DEF In
  <1>3. ASSUME DataAscending(s),
               \A m : In(m, s) /\ m[1] = "data" /\ e[1] = "data" => m[2] < e[2]
        PROVE  DataAscending(t)
    <2> SUFFICES ASSUME NEW i \in DOMAIN t, NEW j \in DOMAIN t, i < j,
                        t[i][1] = "data", t[j][1] = "data"
                 PROVE  t[i][2] < t[j][2]
      BY DEF DataAscending
    <2>1. i \in DOMAIN s /\ (j \in DOMAIN s \/ j = Len(s) + 1)
      BY <1>1
    <2> QED BY <2>1, <1>1, <1>3 DEF DataAscending, In
  <1> QED BY <1>2, <1>3 DEF t

(* Frames as pairs, and what the types say of the two queues.              *)
LEMMA FrameTypes ==
    ASSUME IInv
    PROVE  /\ sent \in Seq(Frames) /\ sc_tx_pending_q \in Seq(Frames)
           /\ given \in [Kinds -> Nat]
           /\ xmit \in [Kinds -> {"idle", "defer", "enqueue"}]
           /\ \A m : In(m, sent) \/ In(m, sc_tx_pending_q) =>
                  \E k \in Kinds, n \in Nat : m = <<k, n>>
  <1>1. /\ sent \in Seq(Frames) /\ sc_tx_pending_q \in Seq(Frames)
        /\ given \in [Kinds -> Nat]
        /\ xmit \in [Kinds -> {"idle", "defer", "enqueue"}]
    BY DEF IInv, TypeOK, TypeXmit, TypeGate
  <1>2. \A m : In(m, sent) \/ In(m, sc_tx_pending_q) => m \in Frames
    BY <1>1, ElementOfSeq, LenProperties DEF In
  <1> QED BY <1>1, <1>2 DEF Frames

(* A step that moves no frame.                                             *)
LEMMA NoFrameMoves ==
    ASSUME FrameInv, DataInv,
           UNCHANGED <<given, sent, sc_tx_pending_q, freed>>,
           \A k \in Kinds : xmit'[k] = "idle" <=> xmit[k] = "idle",
           xmit'["data"] = xmit["data"],
           Cur("data") \in prot => Cur("data") \in prot',
           MarkerIsM4'
    PROVE  FrameInv' /\ DataInv'
  <1>1. GivenOnly' /\ SenderHasFrame' /\ Somewhere' /\ OnePlace'
    BY DEF FrameInv, GivenOnly, SenderHasFrame, Somewhere, OnePlace, Sent, Held,
       Freed, WithSender
  <1>2. (DataAscending(sent) /\ DataAscending(sc_tx_pending_q) /\ SentOlder)'
    BY DEF DataInv, SentOlder, Sent, Held
  <1>3. DataIsProtected'
    BY DEF DataInv, DataIsProtected, Cur
  <1> QED BY <1>1, <1>2, <1>3 DEF FrameInv, DataInv

(* The gate opens: everything held is sent, in order.                      *)
LEMMA ReleaseMoves ==
    ASSUME IInv, FrameInv, DataInv, ReleaseHeld,
           UNCHANGED <<xmit, given, freed>>
    PROVE  FrameInv' /\ DataInv'
  <1>1. sent' = sent \o sc_tx_pending_q /\ sc_tx_pending_q' = <<>>
    BY DEF ReleaseHeld
  <1>2. \A m : /\ Sent(m)' <=> Sent(m) \/ Held(m)
               /\ ~Held(m)'
               /\ Freed(m)' <=> Freed(m)
    <2>1. \A m : In(m, sent \o sc_tx_pending_q) <=> Sent(m) \/ Held(m)
      BY FrameTypes, ConcatFacts DEF Sent, Held
    <2>2. \A m : ~In(m, <<>>)
      BY DEF In
    <2> QED BY <1>1, <2>1, <2>2 DEF Sent, Held, Freed
  <1>3. \A k \in Kinds, n \in Nat : WithSender(k, n)' <=> WithSender(k, n)
    BY DEF WithSender
  <1>4. GivenOnly' /\ SenderHasFrame'
    BY <1>2 DEF FrameInv, GivenOnly, SenderHasFrame
  <1>5. Somewhere' /\ OnePlace'
    BY <1>2, <1>3 DEF FrameInv, Somewhere, OnePlace
  <1>6. DataAscending(sent')
    <2>1. \A m, l : Sent(m) /\ Held(l) =>
              (m[1] = "data" /\ l[1] = "data" => m[2] < l[2])
      <3> SUFFICES ASSUME NEW m, NEW l, Sent(m), Held(l), m[1] = "data",
                          l[1] = "data"
                   PROVE  m[2] < l[2]
        OBVIOUS
      <3>1. PICK j \in Kinds, n \in Nat : m = <<j, n>>
        BY FrameTypes DEF Sent
      <3>2. PICK k \in Kinds, p \in Nat : l = <<k, p>>
        BY FrameTypes DEF Held
      <3> QED BY <3>1, <3>2 DEF DataInv, SentOlder
    <2> QED BY <1>1, <2>1, FrameTypes, ConcatFacts DEF DataInv, Sent, Held
  <1>7. DataAscending(sc_tx_pending_q') /\ SentOlder'
    BY <1>1, <1>2 DEF DataAscending, SentOlder
  <1>8. MarkerIsM4'
    BY DEF ReleaseHeld, DataInv, MarkerIsM4, None
  <1>9. DataIsProtected'
    BY DEF ReleaseHeld, DataInv, DataIsProtected, MarkerIsM4, Cur
  <1> QED BY <1>4, <1>5, <1>6, <1>7, <1>8, <1>9 DEF FrameInv, DataInv

(* LINK_DOWN frees what was held.                                          *)
LEMMA TailMoves ==
    ASSUME IInv, FrameInv, DataInv, post_state_tail
    PROVE  FrameInv' /\ DataInv'
  <1>1. /\ freed' = freed \cup ToSet(sc_tx_pending_q) /\ sc_tx_pending_q' = <<>>
        /\ sc_m4_needs_encap' = None
        /\ UNCHANGED <<xmit, given, prot, sent>>
    BY DEF post_state_tail
  <1>2. \A m : /\ Sent(m)' <=> Sent(m)
               /\ ~Held(m)'
               /\ Freed(m)' <=> Freed(m) \/ Held(m)
    BY <1>1 DEF Sent, Held, Freed, In, ToSet
  <1>3. \A k \in Kinds, n \in Nat : WithSender(k, n)' <=> WithSender(k, n)
    BY <1>1 DEF WithSender
  <1>4. GivenOnly' /\ SenderHasFrame'
    BY <1>1, <1>2 DEF FrameInv, GivenOnly, SenderHasFrame
  <1>5. Somewhere' /\ OnePlace'
    BY <1>1, <1>2, <1>3 DEF FrameInv, Somewhere, OnePlace
  <1>6. (DataAscending(sent) /\ DataAscending(sc_tx_pending_q) /\ SentOlder)'
    BY <1>1, <1>2 DEF DataInv, DataAscending, SentOlder
  <1>7. MarkerIsM4' /\ DataIsProtected'
    BY <1>1 DEF DataInv, MarkerIsM4, None, DataIsProtected, Cur
  <1> QED BY <1>4, <1>5, <1>6, <1>7 DEF FrameInv, DataInv

(* A new frame: with its sender, or freed at once.                         *)
LEMMA EncapMoves ==
    ASSUME IInv, FrameInv, DataInv, NEW k \in Kinds, crypto_encap(k)
    PROVE  FrameInv' /\ DataInv'
  <1> DEFINE g == given[k] + 1
  <1>1. /\ xmit[k] = "idle" /\ UNCHANGED <<sent, sc_tx_pending_q>>
        /\ sc_m4_needs_encap' = sc_m4_needs_encap
        /\ given' = [given EXCEPT ![k] = g]
        /\ prot \subseteq prot'
    BY DEF crypto_encap
  <1>2. \/ /\ freed' = freed /\ <<k, g>> \in prot'
           /\ \/ xmit' = [xmit EXCEPT ![k] = "enqueue"]
              \/ k = "m4" /\ xmit' = [xmit EXCEPT ![k] = "defer"]
        \/ freed' = freed \cup {<<k, g>>} /\ xmit' = xmit
    BY DEF crypto_encap
  <1>3. given[k] \in Nat /\ g \in Nat \ {0} /\ given'[k] = g
    BY <1>1, FrameTypes
  <1>4. \A j \in Kinds : given[j] \in Nat /\ (j # k => given'[j] = given[j])
    BY <1>1, FrameTypes
  <1>5. \A m : (Sent(m)' <=> Sent(m)) /\ (Held(m)' <=> Held(m))
    BY <1>1 DEF Sent, Held
  <1> HIDE DEF g
  <1>6. ~Sent(<<k, g>>) /\ ~Held(<<k, g>>) /\ ~Freed(<<k, g>>)
    <2>1. g \notin 1 .. given[k] /\ g \in Nat
      BY <1>3 DEF g
    <2> QED BY <2>1 DEF FrameInv, GivenOnly
  <1>7. \A j \in Kinds, n \in Nat :
            Freed(<<j, n>>)' <=> Freed(<<j, n>>)
                                 \/ (j = k /\ n = g /\ xmit' = xmit)
    <2>1. CASE xmit' = xmit
      BY <1>1, <1>2, <1>3, <2>1, FrameTypes DEF Freed
    <2>2. CASE xmit' # xmit
      BY <1>1, <1>2, <1>3, <2>2 DEF Freed
    <2> QED BY <2>1, <2>2
  <1>8. /\ xmit'[k] # "idle" <=> xmit' # xmit
        /\ \A j \in Kinds : j # k => xmit'[j] = xmit[j]
    BY <1>1, <1>2, FrameTypes
  <1>9. \A j \in Kinds, n \in Nat :
            WithSender(j, n)' <=> IF j = k THEN n = g /\ xmit' # xmit
                                  ELSE WithSender(j, n)
    BY <1>1, <1>3, <1>4, <1>8 DEF WithSender
  <1>10. /\ \A n \in 1 .. given[k] : n \in 1 .. g
         /\ \A n \in 1 .. g : n \in 1 .. given[k] \/ n = g
         /\ g \in 1 .. g
    BY <1>3 DEF g
  <1>11. GivenOnly'
    BY <1>3, <1>4, <1>5, <1>7, <1>10 DEF FrameInv, GivenOnly
  <1>12. SenderHasFrame'
    BY <1>3, <1>4, <1>8 DEF FrameInv, SenderHasFrame
  <1>13. Somewhere'
    <2> SUFFICES ASSUME NEW j \in Kinds, NEW n \in 1 .. given'[j]
                 PROVE  Sent(<<j, n>>)' \/ Held(<<j, n>>)' \/ Freed(<<j, n>>)'
                        \/ WithSender(j, n)'
      BY DEF Somewhere
    <2>0. n \in Nat
      BY <1>3, <1>4
    <2>1. CASE j # k
      BY <2>0, <2>1, <1>4, <1>5, <1>7, <1>9 DEF FrameInv, Somewhere
    <2>2. CASE j = k /\ n = g
      BY <2>0, <2>2, <1>7, <1>9
    <2>3. CASE j = k /\ n # g
      <3>1. n \in 1 .. given[k]
        BY <2>3, <1>3, <1>10
      <3>2. ~WithSender(k, n)
        BY <1>1 DEF WithSender
      <3> QED BY <2>0, <2>3, <3>1, <3>2, <1>5, <1>7 DEF FrameInv, Somewhere
    <2> QED BY <2>1, <2>2, <2>3
  <1>14. OnePlace'
    <2> SUFFICES ASSUME NEW j \in Kinds, NEW n \in Nat
                 PROVE  /\ Sent(<<j, n>>)' => ~Held(<<j, n>>)'
                        /\ Freed(<<j, n>>)' => ~Sent(<<j, n>>)' /\ ~Held(<<j, n>>)'
                        /\ WithSender(j, n)' =>
                               /\ ~Sent(<<j, n>>)' /\ ~Held(<<j, n>>)'
                               /\ ~Freed(<<j, n>>)'
      BY DEF OnePlace
    <2>1. CASE j = k /\ n = g
      BY <2>1, <1>5, <1>6, <1>7, <1>9
    <2>2. CASE ~(j = k /\ n = g)
      <3>1. WithSender(j, n)' => WithSender(j, n)
        BY <2>2, <1>9
      <3> QED BY <2>2, <3>1, <1>5, <1>7 DEF FrameInv, OnePlace
    <2> QED BY <2>1, <2>2
  <1>15. (DataAscending(sent) /\ DataAscending(sc_tx_pending_q) /\ SentOlder)'
    BY <1>1, <1>5 DEF DataInv, SentOlder
  <1>16. MarkerIsM4'
    BY <1>1 DEF DataInv, MarkerIsM4
  <1>17. DataIsProtected'
    <2>1. CASE k = "data"
      BY <2>1, <1>1, <1>2, <1>3, <1>8, FrameTypes DEF DataIsProtected, Cur
    <2>2. CASE k # "data"
      <3>1. xmit'["data"] = xmit["data"] /\ given'["data"] = given["data"]
        BY <2>2, <1>4, <1>8
      <3> QED BY <3>1, <1>1 DEF DataInv, DataIsProtected, Cur
    <2> QED BY <2>1, <2>2
  <1> QED BY <1>11, <1>12, <1>13, <1>14, <1>15, <1>16, <1>17 DEF FrameInv, DataInv

(* The sender's frame goes on a data queue, behind the gate, or is freed.  *)
LEMMA EnqueueMoves ==
    ASSUME IInv, FrameInv, DataInv, NEW k \in Kinds, tx_enqueue_locked(k)
    PROVE  FrameInv' /\ DataInv'
  <1> DEFINE g == given[k]
  <1>1. /\ xmit[k] = "enqueue" /\ xmit' = [xmit EXCEPT ![k] = "idle"]
        /\ UNCHANGED <<given, prot, sc_m4_needs_encap>>
    BY DEF tx_enqueue_locked
  <1>2. \/ /\ ~(sc_ptk_install_pending /\ Cur(k) \in prot)
           /\ sent' = Append(sent, Cur(k)) /\ UNCHANGED <<sc_tx_pending_q, freed>>
        \/ /\ sc_tx_pending_q' = Append(sc_tx_pending_q, Cur(k))
           /\ UNCHANGED <<sent, freed>>
        \/ freed' = freed \cup {Cur(k)} /\ UNCHANGED <<sc_tx_pending_q, sent>>
    BY DEF tx_enqueue_locked
  <1>3. /\ g \in Nat /\ g \in 1 .. g /\ Cur(k) = <<k, g>> /\ Cur(k) \in Frames
        /\ \A j \in Kinds : given[j] \in Nat
    BY <1>1, FrameTypes DEF Cur, Frames, FrameInv, SenderHasFrame
  <1>4. /\ \A m : In(m, Append(sent, Cur(k))) <=> Sent(m) \/ m = Cur(k)
        /\ \A m : In(m, Append(sc_tx_pending_q, Cur(k))) <=> Held(m) \/ m = Cur(k)
    BY <1>3, FrameTypes, AppendFacts DEF Sent, Held
  <1>5. \/ \A m : /\ Sent(m)' <=> Sent(m) \/ m = Cur(k)
                  /\ Held(m)' <=> Held(m)
                  /\ Freed(m)' <=> Freed(m)
        \/ \A m : /\ Sent(m)' <=> Sent(m)
                  /\ Held(m)' <=> Held(m) \/ m = Cur(k)
                  /\ Freed(m)' <=> Freed(m)
        \/ \A m : /\ Sent(m)' <=> Sent(m)
                  /\ Held(m)' <=> Held(m)
                  /\ Freed(m)' <=> Freed(m) \/ m = Cur(k)
    <2> DEFINE c == Cur(k)
    <2> HIDE DEF g, c
    <2>0. \A m : /\ In(m, Append(sent, c)) <=> Sent(m) \/ m = c
                 /\ In(m, Append(sc_tx_pending_q, c)) <=> Held(m) \/ m = c
      BY <1>4 DEF c
    <2>1. CASE sent' = Append(sent, c) /\ UNCHANGED <<sc_tx_pending_q, freed>>
      <3>1. \A m : /\ Sent(m)' <=> Sent(m) \/ m = c
                   /\ Held(m)' <=> Held(m)
                   /\ Freed(m)' <=> Freed(m)
        BY <2>0, <2>1 DEF Sent, Held, Freed
      <3> QED BY <3>1 DEF c
    <2>2. CASE /\ sc_tx_pending_q' = Append(sc_tx_pending_q, c)
               /\ UNCHANGED <<sent, freed>>
      <3>1. \A m : /\ Sent(m)' <=> Sent(m)
                   /\ Held(m)' <=> Held(m) \/ m = c
                   /\ Freed(m)' <=> Freed(m)
        BY <2>0, <2>2 DEF Sent, Held, Freed
      <3> QED BY <3>1 DEF c
    <2>3. CASE freed' = freed \cup {c} /\ UNCHANGED <<sc_tx_pending_q, sent>>
      <3>1. \A m : /\ Sent(m)' <=> Sent(m)
                   /\ Held(m)' <=> Held(m)
                   /\ Freed(m)' <=> Freed(m) \/ m = c
        BY <2>3 DEF Sent, Held, Freed
      <3> QED BY <3>1 DEF c
    <2> QED BY <1>2, <2>1, <2>2, <2>3 DEF c
  <1>6. \A j \in Kinds, n \in Nat : <<j, n>> = Cur(k) <=> j = k /\ n = g
    BY <1>3
  <1> HIDE DEF g
  <1>7. \A j \in Kinds, n \in Nat :
            WithSender(j, n)' <=> WithSender(j, n) /\ j # k
    BY <1>1, FrameTypes DEF WithSender
  <1>8. WithSender(k, g)
    BY <1>1 DEF WithSender, g
  <1>9. ~Sent(<<k, g>>) /\ ~Held(<<k, g>>) /\ ~Freed(<<k, g>>)
    BY <1>3, <1>8 DEF FrameInv, OnePlace
  <1>10. \A j \in Kinds, n \in Nat :
            /\ Sent(<<j, n>>) => Sent(<<j, n>>)'
            /\ Held(<<j, n>>) => Held(<<j, n>>)'
            /\ Freed(<<j, n>>) => Freed(<<j, n>>)'
            /\ ~(j = k /\ n = g) => /\ Sent(<<j, n>>)' => Sent(<<j, n>>)
                                    /\ Held(<<j, n>>)' => Held(<<j, n>>)
                                    /\ Freed(<<j, n>>)' => Freed(<<j, n>>)
    BY <1>5, <1>6
  <1>11. GivenOnly'
    <2> SUFFICES ASSUME NEW j \in Kinds, NEW n \in Nat,
                        Sent(<<j, n>>)' \/ Held(<<j, n>>)' \/ Freed(<<j, n>>)'
                 PROVE  n \in 1 .. given[j]
      BY <1>1 DEF GivenOnly
    <2>1. CASE j = k /\ n = g
      BY <2>1, <1>3 DEF g
    <2>2. CASE ~(j = k /\ n = g)
      BY <2>2, <1>10 DEF FrameInv, GivenOnly
    <2> QED BY <2>1, <2>2
  <1>12. SenderHasFrame'
    BY <1>1, FrameTypes DEF FrameInv, SenderHasFrame
  <1>13. Somewhere'
    <2> SUFFICES ASSUME NEW j \in Kinds, NEW n \in 1 .. given[j]
                 PROVE  Sent(<<j, n>>)' \/ Held(<<j, n>>)' \/ Freed(<<j, n>>)'
                        \/ WithSender(j, n)'
      BY <1>1 DEF Somewhere
    <2>0. n \in Nat
      BY <1>3
    <2>1. CASE j = k /\ n = g
      BY <2>1, <2>0, <1>5, <1>6
    <2>2. CASE ~(j = k /\ n = g)
      <3>1. WithSender(j, n) => j # k
        BY <2>2 DEF WithSender, g
      <3> QED BY <2>0, <3>1, <1>7, <1>10 DEF FrameInv, Somewhere
    <2> QED BY <2>1, <2>2
  <1>14. OnePlace'
    <2> SUFFICES ASSUME NEW j \in Kinds, NEW n \in Nat
                 PROVE  /\ Sent(<<j, n>>)' => ~Held(<<j, n>>)'
                        /\ Freed(<<j, n>>)' => ~Sent(<<j, n>>)' /\ ~Held(<<j, n>>)'
                        /\ WithSender(j, n)' =>
                               /\ ~Sent(<<j, n>>)' /\ ~Held(<<j, n>>)'
                               /\ ~Freed(<<j, n>>)'
      BY DEF OnePlace
    <2>1. CASE j = k /\ n = g
      <3>1. ~WithSender(j, n)'
        BY <2>1, <1>3, <1>7
      <3> QED BY <2>1, <3>1, <1>5, <1>9
    <2>2. CASE ~(j = k /\ n = g)
      BY <2>2, <1>7, <1>10 DEF FrameInv, OnePlace
    <2> QED BY <2>1, <2>2
  <1>15. CASE k # "data"
    <2>1. Cur(k)[1] # "data" /\ \A n \in Nat : <<"data", n>> # Cur(k)
      BY <1>3, <1>15
    <2>2. DataAscending(sent') /\ DataAscending(sc_tx_pending_q')
      <3>1. DataAscending(Append(sent, Cur(k)))
        BY <1>3, <2>1, FrameTypes, AppendFacts DEF DataInv
      <3>2. DataAscending(Append(sc_tx_pending_q, Cur(k)))
        BY <1>3, <2>1, FrameTypes, AppendFacts DEF DataInv
      <3> QED BY <1>2, <3>1, <3>2 DEF DataInv
    <2>3. SentOlder'
      BY <1>5, <2>1 DEF DataInv, SentOlder
    <2>4. MarkerIsM4' /\ DataIsProtected'
      BY <1>1, <1>15, FrameTypes DEF DataInv, MarkerIsM4, DataIsProtected, Cur
    <2> QED BY <1>11, <1>12, <1>13, <1>14, <2>2, <2>3, <2>4 DEF FrameInv, DataInv
  <1>16. CASE k = "data"
    <2>1. \A n \in Nat : Sent(<<"data", n>>) \/ Held(<<"data", n>>) => n < g
      <3>1. \A n \in Nat : Sent(<<"data", n>>) \/ Held(<<"data", n>>) =>
                n \in 1 .. g /\ n # g
        BY <1>9, <1>16 DEF FrameInv, GivenOnly, g
      <3> QED BY <3>1, <1>3
    <2>2. \A m : Sent(m) \/ Held(m) => (m[1] = "data" => m[2] < g)
      <3> SUFFICES ASSUME NEW m, Sent(m) \/ Held(m), m[1] = "data"
                   PROVE  m[2] < g
        OBVIOUS
      <3>1. PICK j \in Kinds, n \in Nat : m = <<j, n>>
        BY FrameTypes DEF Sent, Held
      <3> QED BY <3>1, <2>1
    <2>3. DataAscending(sent') /\ DataAscending(sc_tx_pending_q')
      <3>1. Cur(k)[2] = g
        BY <1>3
      <3>2. DataAscending(Append(sent, Cur(k)))
        BY <1>3, <2>2, <3>1, FrameTypes, AppendFacts DEF DataInv, Sent
      <3>3. DataAscending(Append(sc_tx_pending_q, Cur(k)))
        BY <1>3, <2>2, <3>1, FrameTypes, AppendFacts DEF DataInv, Held
      <3> QED BY <1>2, <3>2, <3>3 DEF DataInv
    <2>4. SentOlder'
      <3>1. CASE sent' = sent
        <4>1. \A m : (Sent(m)' <=> Sent(m)) /\ (Held(m)' => Held(m) \/ m = Cur(k))
          BY <3>1, <1>5 DEF Sent
        <4> QED BY <4>1, <1>6, <2>1 DEF DataInv, SentOlder
      <3>2. CASE /\ ~(sc_ptk_install_pending /\ Cur(k) \in prot)
                 /\ sc_tx_pending_q' = sc_tx_pending_q
        <4>1. Cur(k) \in prot
          BY <1>1, <1>16 DEF DataInv, DataIsProtected
        <4>2. sc_tx_pending_q = <<>>
          BY <3>2, <4>1 DEF IInv, HeldOnlyBehindGate
        <4>3. \A m : ~Held(m)'
          BY <3>2, <4>2 DEF Held, In
        <4> QED BY <4>3 DEF SentOlder
      <3> QED BY <1>2, <3>1, <3>2
    <2>5. MarkerIsM4' /\ DataIsProtected'
      BY <1>1, <1>16, FrameTypes DEF DataInv, MarkerIsM4, DataIsProtected
    <2> QED BY <1>11, <1>12, <1>13, <1>14, <2>3, <2>4, <2>5 DEF FrameInv, DataInv
  <1> QED BY <1>15, <1>16

(* No step loses, duplicates or reorders a frame.                          *)
LEMMA FrameStep ==
    IInv /\ FrameInv /\ DataInv /\ [Next]_vars => FrameInv' /\ DataInv'
  <1> SUFFICES ASSUME IInv, FrameInv, DataInv, [Next]_vars
               PROVE  FrameInv' /\ DataInv'
    OBVIOUS
  <1>1. CASE UNCHANGED <<xmit, given, prot, sent, freed, sc_tx_pending_q,
                         sc_m4_needs_encap>>
    <2>1. MarkerIsM4'
      BY <1>1 DEF DataInv, MarkerIsM4
    <2> QED BY <1>1, <2>1, NoFrameMoves
  <1>2. CASE post_state_tail
    BY <1>2, TailMoves
  <1>3. CASE cam_task_op
    <2>1. UNCHANGED <<xmit, given, freed>>
      BY <1>3 DEF cam_task_op
    <2>2. CASE ReleaseHeld
      BY <2>1, <2>2, ReleaseMoves
    <2>3. CASE UNCHANGED <<gateVars, sent, enc, prot>>
      BY <2>1, <2>3, <1>1
    <2> QED BY <1>3, <2>2, <2>3 DEF cam_task_op
  <1>4. ASSUME NEW k \in Kinds, crypto_encap(k) PROVE FrameInv' /\ DataInv'
    BY <1>4, EncapMoves
  <1>5. CASE defer_m4
    <2>1. /\ xmit["m4"] = "defer" /\ xmit' = [xmit EXCEPT !["m4"] = "enqueue"]
          /\ UNCHANGED <<given, sent, freed, sc_tx_pending_q>>
          /\ prot' = prot \/ prot' = prot \ {Cur("m4")}
          /\ sc_m4_needs_encap' \in {sc_m4_needs_encap, Cur("m4")}
      BY <1>5 DEF defer_m4
    <2>2. /\ \A k \in Kinds : xmit'[k] = "idle" <=> xmit[k] = "idle"
          /\ xmit'["data"] = xmit["data"]
      BY <2>1, FrameTypes
    <2>3. Cur("data") # Cur("m4") /\ Cur("m4")[1] # "data"
      BY DEF Cur
    <2>4. MarkerIsM4'
      BY <2>1, <2>3 DEF DataInv, MarkerIsM4
    <2> QED BY <2>1, <2>2, <2>3, <2>4, NoFrameMoves
  <1>6. ASSUME NEW k \in Kinds, tx_enqueue_locked(k) PROVE FrameInv' /\ DataInv'
    BY <1>6, EnqueueMoves
  <1> QED
    BY <1>1, <1>2, <1>3, <1>4, <1>5, <1>6
       DEF Next, vars, newstate, post_state_task, post_state_begin,
           post_state_up, post_state_wipe, crypto_newkey, vap_key, vap_key_op,
           vap_key_enqueue, cam_task, cam_task_begin, send

(* Frames stay owned by one and data stays in order, all the time.         *)
LEMMA FrameInvariance == Spec => [](FrameInv /\ DataInv)
  <1>1. Init => FrameInv /\ DataInv
    <2> SUFFICES ASSUME Init PROVE FrameInv /\ DataInv
      OBVIOUS
    <2>1. /\ sent = <<>> /\ sc_tx_pending_q = <<>> /\ freed = {}
          /\ given = [k \in Kinds |-> 0] /\ xmit = [k \in Kinds |-> "idle"]
          /\ sc_m4_needs_encap = None
      BY DEF Init
    <2>2. \A m : ~Sent(m) /\ ~Held(m) /\ ~Freed(m)
      BY <2>1 DEF Sent, Held, Freed, In
    <2>3. FrameInv
      BY <2>1, <2>2 DEF FrameInv, GivenOnly, SenderHasFrame, Somewhere, OnePlace,
         WithSender
    <2>4. DataInv
      BY <2>1, <2>2 DEF DataInv, DataAscending, SentOlder, DataIsProtected,
         MarkerIsM4, None
    <2> QED BY <2>3, <2>4
  <1> QED BY <1>1, Invariance, FrameStep, PTL DEF Spec

(* No frame is lost, sent twice or freed while somebody still has it:      *)
(* whatever the gate, the key installs and link changes do, each frame is  *)
(* in exactly one place.                                                   *)
THEOREM FramesHaveOneOwner == Spec => []FramesOwned
  <1>1. FrameInv => FramesOwned
    <2> SUFFICES ASSUME FrameInv, NEW k \in Kinds, NEW n \in 1 .. given[k]
                 PROVE  LET m == <<k, n>>
                            places == <<m \in ToSet(sent),
                                        m \in ToSet(sc_tx_pending_q),
                                        m \in freed,
                                        n = given[k] /\ xmit[k] # "idle">>
                        IN  \E i \in 1 .. 4 : /\ places[i]
                                              /\ \A j \in 1 .. 4 \ {i} : ~places[j]
      BY DEF FramesOwned
    <2> DEFINE m == <<k, n>>
               places == <<m \in ToSet(sent), m \in ToSet(sc_tx_pending_q),
                           m \in freed, n = given[k] /\ xmit[k] # "idle">>
    <2>1. /\ m \in ToSet(sent) <=> Sent(m)
          /\ m \in ToSet(sc_tx_pending_q) <=> Held(m)
          /\ m \in freed <=> Freed(m)
          /\ (n = given[k] /\ xmit[k] # "idle") <=> WithSender(k, n)
      BY DEF ToSet, Sent, Held, In, Freed, WithSender
    <2>2. /\ places[1] <=> Sent(m)
          /\ places[2] <=> Held(m)
          /\ places[3] <=> Freed(m)
          /\ places[4] <=> WithSender(k, n)
      BY <2>1
    <2>3. n \in Nat
      OBVIOUS
    <2>4. /\ Sent(m) \/ Held(m) \/ Freed(m) \/ WithSender(k, n)
          /\ Sent(m) => ~Held(m)
          /\ Freed(m) => ~Sent(m) /\ ~Held(m)
          /\ WithSender(k, n) => ~Sent(m) /\ ~Held(m) /\ ~Freed(m)
      BY <2>3 DEF FrameInv, Somewhere, OnePlace
    <2> HIDE DEF m, places
    <2>5. \E i \in 1 .. 4 : places[i] /\ \A j \in 1 .. 4 \ {i} : ~places[j]
      BY <2>2, <2>4
    <2> QED BY <2>5 DEF m, places
  <1> QED BY <1>1, FrameInvariance, PTL

(* Holding frames behind the gate does not reorder data, whichever way and *)
(* however often the gate opens and closes.                                *)
THEOREM DataKeepsOrder == Spec => []DataInOrder
  <1>1. IInv /\ DataInv => DataInOrder
    <2> SUFFICES ASSUME IInv, DataInv PROVE DataInOrder
      OBVIOUS
    <2>1. \A m, l : Sent(m) /\ Held(l) =>
              (m[1] = "data" /\ l[1] = "data" => m[2] < l[2])
      <3> SUFFICES ASSUME NEW m, NEW l, Sent(m), Held(l), m[1] = "data",
                          l[1] = "data"
                   PROVE  m[2] < l[2]
        OBVIOUS
      <3>1. PICK j \in Kinds, n \in Nat : m = <<j, n>>
        BY FrameTypes DEF Sent
      <3>2. PICK k \in Kinds, p \in Nat : l = <<k, p>>
        BY FrameTypes DEF Held
      <3> QED BY <3>1, <3>2 DEF DataInv, SentOlder
    <2>2. DataAscending(sent \o sc_tx_pending_q)
      BY <2>1, FrameTypes, ConcatFacts DEF DataInv, Sent, Held
    <2> QED BY <2>2 DEF DataInOrder, DataAscending
  <1> QED BY <1>1, Invariance, FrameInvariance, PTL
=============================================================================
