---------------------------- MODULE BulkTx_proofs ----------------------------
(***************************************************************************)
(* Proofs about BulkTx, for any frames and kinds of frames, queue limits,  *)
(* numbers of synchronous calls and of faults.                             *)
(*                                                                         *)
(* Ownership of data frames, order and "the transfer carries the frame its *)
(* callback will free" are invariants only together: which frame an error  *)
(* or a completion frees rests on what the transfer carries, that it is    *)
(* freed once on the order of the queue.                                   *)
(***************************************************************************)
EXTENDS BulkTx, SequenceTheorems, TLAPS

DataPipes == {"NORMAL", "LO"}

(* Membership and order, for a queue of numbers.                           *)
In(n, s) == \E i \in DOMAIN s : s[i] = n
Increasing(s) == \A i, j \in DOMAIN s : i < j => s[i] < s[j]
Above(s, n) == \A e : In(e, s) => n < e

(* What is queued or in flight was handed over, and is where its kind      *)
(* belongs; nothing else was freed or given back.                          *)
QueuedIsGiven ==
    \A k \in Queues : \A n : In(n, q[k]) => n \in 1 .. given /\ KindOf[n] = k
InflightIsGiven ==
    \A k \in Queues : inflight[k] # None =>
        inflight[k] \in 1 .. given /\ KindOf[inflight[k]] = k
GoneIsGiven == freed \subseteq 1 .. given /\ rejected \subseteq 1 .. given

(* OneOwner and QueuesInOrder in these terms.                              *)
Queued(m) == In(m, q[KindOf[m]])
Flying(m) == inflight[KindOf[m]] = m
Owned(m) ==
    /\ Queued(m) \/ Flying(m) \/ m \in freed \/ m \in rejected
    /\ ~(Queued(m) /\ Flying(m))
    /\ m \in freed \cup rejected => ~Queued(m) /\ ~Flying(m)
    /\ ~(m \in freed /\ m \in rejected)
DataOwned == \A m \in 1 .. given : KindOf[m] # "mgmt" => Owned(m)
Ordered == \A k \in Queues : Increasing(q[k]) /\ Above(q[k], inflight[k])

OwnInv ==
    QueuedIsGiven /\ InflightIsGiven /\ GoneIsGiven /\ DataOwned /\ Ordered

(* Data transfers are never stopped, and one that is not under way has no  *)
(* frame in flight.                                                        *)
DataPipesQuiet ==
    \A x \in DataPipes :
        \/ xfer[x] \in {"flying", "done", "failed"}
        \/ xfer[x] \in {"off", "setup"} /\ inflight[QueueOf[x]] = None
PipeInv == DataPipesQuiet /\ DataTransferIsInflight

(* Before the first frame, a transfer of the synchronous path is under way *)
(* only for the call that waits: it carries that call's data, and what it  *)
(* has transferred has arrived.                                            *)
ActiveIsCallers ==
    \A x \in SyncCapable :
        /\ xfer[x] \in {"setup", "flying", "done", "failed", "restarted"} =>
               sc_tx_pending /\ caller.pipe = x
        /\ xfer[x] \in {"flying", "done"} => load[x] = Sync(syncs)
        /\ xfer[x] = "done" => Sync(syncs) \in carried

(* The armed slot holds the caller's data.                                 *)
PendingIsCallers == sc_tx_pending => sc_tx_buf = Sync(syncs)

(* An answer without error means that the data arrived.                    *)
AnswerIsTrue ==
    caller.st = "waiting" /\ sc_tx_done /\ ~sc_tx_err => Sync(syncs) \in carried

(* An answer disarms the slot.                                             *)
AnsweredNotPending == sc_tx_done => ~sc_tx_pending

AttachInv ==
    given = 0 => /\ ActiveIsCallers /\ PendingIsCallers /\ AnswerIsTrue
                 /\ SyncOkMeansCarried

IInv ==
    /\ TypeOK /\ NoStalePending /\ AnsweredNotPending
    /\ OwnInv /\ PipeInv /\ AttachInv

USE DEF None, Queues, Pipes, SyncCapable, DataPipes

-----------------------------------------------------------------------------
(* Sequences and tables.                                                   *)

(* What the four transfers and three queues are to each other.             *)
LEMMA Tables ==
    /\ \A k \in Queues : PipeOf[k] \in Pipes /\ QueueOf[PipeOf[k]] = k
    /\ \A x \in Pipes : QueueOf[x] \in Queues
    /\ \A x \in SyncCapable : QueueOf[x] = "mgmt" /\ x \notin DataPipes
    /\ \A x \in DataPipes : QueueOf[x] # "mgmt" /\ x \in Pipes \ SyncCapable
    /\ QueueOf["NORMAL"] # QueueOf["LO"]
  BY DEF PipeOf, QueueOf

(* A queue without its head.                                               *)
LEMMA TailFacts ==
    ASSUME NEW S, NEW s \in Seq(S), s # <<>>
    PROVE  /\ Len(s) \in Nat \ {0} /\ DOMAIN s = 1 .. Len(s)
           /\ Head(s) = s[1] /\ Head(s) \in S
           /\ Tail(s) \in Seq(S)
           /\ DOMAIN Tail(s) = 1 .. Len(s) - 1
           /\ \A i \in 1 .. Len(s) - 1 : Tail(s)[i] = s[i + 1]
  BY HeadTailProperties, LenProperties, EmptySeq

(* A queue with one more at its end.                                       *)
LEMMA AppendFacts ==
    ASSUME NEW S, NEW s \in Seq(S), NEW e \in S
    PROVE  /\ Len(s) \in Nat /\ DOMAIN s = 1 .. Len(s)
           /\ Append(s, e) \in Seq(S)
           /\ DOMAIN Append(s, e) = 1 .. Len(s) + 1
           /\ \A i \in 1 .. Len(s) : Append(s, e)[i] = s[i]
           /\ Append(s, e)[Len(s) + 1] = e
  BY AppendProperties, LenProperties

(* Appending a number above all others keeps the order.                    *)
LEMMA AppendOrder ==
    ASSUME NEW s \in Seq(Nat), NEW e \in Nat, Increasing(s),
           \A n : In(n, s) => n < e
    PROVE  Increasing(Append(s, e))
  <1> DEFINE t == Append(s, e)
  <1>1. /\ Len(s) \in Nat /\ DOMAIN s = 1 .. Len(s)
        /\ DOMAIN t = 1 .. Len(s) + 1
        /\ \A i \in 1 .. Len(s) : t[i] = s[i]
        /\ t[Len(s) + 1] = e
    BY AppendFacts
  <1> HIDE DEF t
  <1>2. \A i \in DOMAIN s : s[i] < e
    BY DEF In
  <1>3. \A i, j \in DOMAIN t : i < j => t[i] < t[j]
    BY <1>1, <1>2 DEF Increasing
  <1> QED BY <1>3 DEF Increasing, t

(* It adds that number and nothing else.                                   *)
LEMMA AppendMembers ==
    ASSUME NEW S, NEW s \in Seq(S), NEW e \in S
    PROVE  \A n : In(n, Append(s, e)) <=> In(n, s) \/ n = e
  <1> DEFINE t == Append(s, e)
  <1>1. /\ Len(s) \in Nat /\ DOMAIN s = 1 .. Len(s)
        /\ DOMAIN t = 1 .. Len(s) + 1
        /\ \A i \in 1 .. Len(s) : t[i] = s[i]
        /\ t[Len(s) + 1] = e
    BY AppendFacts
  <1> HIDE DEF t
  <1> QED BY <1>1 DEF In, t

(* Without its head an increasing queue is above the head, and increasing. *)
LEMMA TailOrder ==
    ASSUME NEW s \in Seq(Nat), s # <<>>, Increasing(s)
    PROVE  Increasing(Tail(s)) /\ Above(Tail(s), Head(s))
  <1> DEFINE t == Tail(s)
  <1>1. /\ Len(s) \in Nat \ {0} /\ DOMAIN s = 1 .. Len(s)
        /\ Head(s) = s[1]
        /\ DOMAIN t = 1 .. Len(s) - 1
        /\ \A i \in 1 .. Len(s) - 1 : t[i] = s[i + 1]
    BY TailFacts
  <1> HIDE DEF t
  <1>4. \A i \in DOMAIN t : i \in Nat /\ i + 1 \in DOMAIN s /\ t[i] = s[i + 1]
    BY <1>1
  <1>5. 1 \in DOMAIN s
    BY <1>1
  <1>2. \A i, j \in DOMAIN t : i < j => t[i] < t[j]
    <2> TAKE i, j \in DOMAIN t
    <2>1. i < j => i + 1 < j + 1
      BY <1>4
    <2> QED BY <1>4, <2>1 DEF Increasing
  <1>3. \A i \in DOMAIN t : Head(s) < t[i]
    <2> TAKE i \in DOMAIN t
    <2>1. 1 < i + 1
      BY <1>1
    <2> QED BY <1>1, <1>4, <1>5, <2>1 DEF Increasing
  <1> QED BY <1>2, <1>3 DEF Increasing, Above, In, t

(* The head and the rest make up the queue.                                *)
LEMMA TailMembers ==
    ASSUME NEW S, NEW s \in Seq(S), s # <<>>
    PROVE  \A n : In(n, s) <=> In(n, Tail(s)) \/ n = Head(s)
  <1> DEFINE t == Tail(s)
  <1>1. /\ Len(s) \in Nat \ {0} /\ DOMAIN s = 1 .. Len(s)
        /\ Head(s) = s[1]
        /\ DOMAIN t = 1 .. Len(s) - 1
        /\ \A i \in 1 .. Len(s) - 1 : t[i] = s[i + 1]
    BY TailFacts
  <1> HIDE DEF t
  <1>2. ASSUME NEW n, In(n, s) PROVE In(n, t) \/ n = Head(s)
    <2> PICK i \in DOMAIN s : s[i] = n
      BY <1>2 DEF In
    <2>1. CASE i = 1
      BY <1>1, <2>1
    <2>2. CASE i # 1
      <3>1. i \in 1 .. Len(s) /\ s[i] = n /\ Len(s) \in Nat
        BY <1>1
      <3>2. i - 1 \in 1 .. Len(s) - 1 /\ (i - 1) + 1 = i
        BY <2>2, <3>1
      <3>3. i - 1 \in DOMAIN t /\ t[i - 1] = n
        BY <1>1, <3>1, <3>2
      <3> QED BY <3>3 DEF In
    <2> QED BY <2>1, <2>2
  <1>3. ASSUME NEW n, In(n, t) \/ n = Head(s) PROVE In(n, s)
    BY <1>1, <1>3 DEF In
  <1> QED BY <1>2, <1>3 DEF t

(* The endpoint's order names transfers of the endpoint.                   *)
LEMMA ResubmittedType ==
    ASSUME ep05 \in Seq(SyncCapable), NEW x \in Pipes, NEW s
    PROVE  Resubmitted(x, s) \in Seq(SyncCapable)
  <1> DEFINE at == CHOOSE i \in DOMAIN ep05 : ep05[i] = x
             others == IF x \in ToSet(ep05) THEN RemoveAt(ep05, at) ELSE ep05
  <1>1. others \in Seq(SyncCapable)
    <2>1. CASE x \in ToSet(ep05)
      <3>1. at \in 1 .. Len(ep05)
        BY <2>1, LenProperties DEF ToSet
      <3>2. RemoveAt(ep05, at) =
               SubSeq(ep05, 1, at - 1) \o SubSeq(ep05, at + 1, Len(ep05))
        BY DEF RemoveAt
      <3> HIDE DEF at
      <3>3. /\ SubSeq(ep05, 1, at - 1) \in Seq(SyncCapable)
            /\ SubSeq(ep05, at + 1, Len(ep05)) \in Seq(SyncCapable)
        BY <3>1, SubSeqProperties, ElementOfSeq, LenProperties
      <3> QED BY <2>1, <3>2, <3>3, ConcatProperties
    <2> QED BY <2>1
  <1> HIDE DEF others
  <1>2. Resubmitted(x, s) =
           IF x \in SyncCapable /\ s = "flying" THEN Append(others, x) ELSE others
    BY DEF Resubmitted, others
  <1> QED BY <1>1, <1>2

-----------------------------------------------------------------------------
(* Ownership and order: what the steps do to queues and slots.             *)

(* Queues hold numbers.                                                    *)
LEMMA QueueTypes ==
    ASSUME TypeOK
    PROVE  /\ \A k \in Queues : q[k] \in Seq(Frames) /\ q[k] \in Seq(Nat)
           /\ Frames \subseteq Nat /\ given \in Nat
           /\ \A m \in 1 .. given : m \in Frames /\ KindOf[m] \in Queues
  <1>1. Frames \subseteq Nat /\ given \in 0 .. NumFrames /\ NumFrames \in Nat
    BY BulkTxAssumption DEF TypeOK, Frames
  <1>2. \A m \in 1 .. given : m \in Frames /\ KindOf[m] \in Queues
    BY <1>1, BulkTxAssumption DEF Frames
  <1>3. \A k \in Queues : q[k] \in Seq(Frames) /\ q[k] \in Seq(Nat)
    BY <1>1, SeqMonotonic DEF TypeOK
  <1> QED BY <1>1, <1>2, <1>3

(* A frame is handed over: queued last, or given back.                     *)
LEMMA PushOwn ==
    ASSUME TypeOK, OwnInv, given < NumFrames, NEW k \in Queues,
           k = KindOf[given + 1], given' = given + 1,
           UNCHANGED <<inflight, freed>>,
           \/ rejected' = rejected \cup {given + 1} /\ q' = q
           \/ q' = [q EXCEPT ![k] = Append(@, given + 1)] /\ rejected' = rejected
    PROVE  OwnInv'
  <1> DEFINE m == given + 1
  <1>1. given \in Nat /\ m \in Frames /\ NumFrames \in Nat /\ m \in Nat
    BY BulkTxAssumption DEF TypeOK, Frames
  <1>2. m \notin freed /\ m \notin rejected /\ inflight[k] # m /\ ~In(m, q[k])
    BY <1>1 DEF OwnInv, QueuedIsGiven, InflightIsGiven, GoneIsGiven
  <1>6. 1 .. given \subseteq 1 .. given' /\ m \in 1 .. given'
    BY <1>1
  <1>3. InflightIsGiven' /\ GoneIsGiven'
    <2>1. InflightIsGiven'
      BY <1>6 DEF OwnInv, InflightIsGiven
    <2>2. rejected' \subseteq rejected \cup {m}
      OBVIOUS
    <2>3. GoneIsGiven'
      BY <1>6, <2>2 DEF OwnInv, GoneIsGiven
    <2> QED BY <2>1, <2>3
  <1>4. CASE rejected' = rejected \cup {m} /\ q' = q
    <2>1. QueuedIsGiven' /\ Ordered'
      BY <1>1, <1>4 DEF OwnInv, QueuedIsGiven, Ordered
    <2>2. ASSUME NEW n \in 1 .. given', KindOf[n] # "mgmt" PROVE Owned(n)'
      <3>1. (Queued(n)' <=> Queued(n)) /\ (Flying(n)' <=> Flying(n))
        BY <1>4 DEF Queued, Flying
      <3>2. n # m => Owned(n)
        BY <1>1, <2>2 DEF OwnInv, DataOwned
      <3>3. n = m => ~Queued(n) /\ ~Flying(n)
        BY <1>2 DEF Queued, Flying
      <3> QED BY <1>2, <1>4, <3>1, <3>2, <3>3 DEF Owned
    <2> QED BY <1>3, <2>1, <2>2 DEF OwnInv, DataOwned
  <1>5. CASE q' = [q EXCEPT ![k] = Append(@, m)] /\ rejected' = rejected
    <2>1. /\ \A j \in Queues \ {k} : q'[j] = q[j]
          /\ q'[k] = Append(q[k], m)
      BY <1>5 DEF TypeOK
    <2>2. \A n : In(n, q'[k]) <=> In(n, q[k]) \/ n = m
      BY <1>1, <2>1, QueueTypes, AppendMembers
    <2>3. QueuedIsGiven'
      <3> SUFFICES ASSUME NEW j \in Queues, NEW n, In(n, q'[j])
                   PROVE  n \in 1 .. given' /\ KindOf[n] = j
        BY DEF QueuedIsGiven
      <3>1. In(n, q[j]) \/ (j = k /\ n = m)
        BY <2>1, <2>2
      <3>2. In(n, q[j]) => n \in 1 .. given /\ KindOf[n] = j
        BY DEF OwnInv, QueuedIsGiven
      <3> QED BY <1>6, <3>1, <3>2
    <2>4. Increasing(q'[k])
      <3>1. \A n : In(n, q[k]) => n < m
        BY <1>1 DEF OwnInv, QueuedIsGiven
      <3>2. q[k] \in Seq(Nat) /\ Increasing(q[k])
        BY QueueTypes DEF OwnInv, Ordered
      <3> HIDE DEF m
      <3> QED BY <1>1, <2>1, <3>1, <3>2, AppendOrder
    <2>5. inflight[k] < m
      BY <1>1 DEF OwnInv, InflightIsGiven, TypeOK
    <2>6. Ordered'
      BY <2>1, <2>2, <2>4, <2>5 DEF OwnInv, Ordered, Above
    <2>7. ASSUME NEW n \in 1 .. given', KindOf[n] # "mgmt" PROVE Owned(n)'
      <3>1. Queued(n)' <=> Queued(n) \/ n = m
        <4>1. KindOf[n] \in Queues
          BY <1>1, <2>7, BulkTxAssumption DEF Frames
        <4> QED BY <2>1, <2>2, <4>1 DEF Queued
      <3>2. Flying(n)' <=> Flying(n)
        BY DEF Flying
      <3>3. n # m => Owned(n)
        BY <1>1, <2>7 DEF OwnInv, DataOwned
      <3>4. n = m => ~Queued(n) /\ ~Flying(n)
        BY <1>2 DEF Queued, Flying
      <3> QED BY <1>2, <1>5, <3>1, <3>2, <3>3, <3>4 DEF Owned
    <2> QED BY <1>3, <2>3, <2>6, <2>7 DEF OwnInv, DataOwned
  <1> QED BY <1>4, <1>5

(* A callback: the frame in flight of queue k is freed (always, if it has  *)
(* one and k is a data queue), and the head of k may take its place.       *)
LEMMA MoveOwn ==
    ASSUME TypeOK, OwnInv, NEW k \in Queues,
           UNCHANGED <<given, rejected>>,
           freed' \in {freed, freed \cup ({inflight[k]} \ {None})},
           k # "mgmt" => freed' = freed \cup ({inflight[k]} \ {None}),
           \A j \in Queues \ {k} : q'[j] = q[j] /\ inflight'[j] = inflight[j],
           \/ q'[k] = q[k] /\ inflight'[k] = None
           \/ q'[k] = q[k] /\ inflight'[k] = inflight[k] /\ k = "mgmt"
           \/ /\ q[k] # <<>> /\ q'[k] = Tail(q[k])
              /\ inflight'[k] = Head(q[k])
    PROVE  OwnInv'
  <1>1. /\ q[k] \in Seq(Frames) /\ q[k] \in Seq(Nat) /\ given \in Nat
        /\ inflight[k] \in Nat
    BY QueueTypes DEF TypeOK
  <1>2. ASSUME q[k] # <<>>
        PROVE  /\ \A n : In(n, q[k]) <=> In(n, Tail(q[k])) \/ n = Head(q[k])
               /\ Increasing(Tail(q[k])) /\ Above(Tail(q[k]), Head(q[k]))
               /\ Head(q[k]) \in 1 .. given /\ KindOf[Head(q[k])] = k
               /\ inflight[k] # Head(q[k])
               /\ ~In(Head(q[k]), Tail(q[k]))
    <2>1. \A n : In(n, q[k]) <=> In(n, Tail(q[k])) \/ n = Head(q[k])
      BY <1>1, <1>2, TailMembers
    <2>2. Increasing(q[k]) /\ Above(q[k], inflight[k])
      BY DEF OwnInv, Ordered
    <2>3. Increasing(Tail(q[k])) /\ Above(Tail(q[k]), Head(q[k]))
      BY <1>1, <1>2, <2>2, TailOrder
    <2>4. In(Head(q[k]), q[k])
      BY <2>1
    <2>5. Head(q[k]) \in 1 .. given /\ KindOf[Head(q[k])] = k
      BY <2>4 DEF OwnInv, QueuedIsGiven
    <2>6. inflight[k] < Head(q[k])
      BY <2>2, <2>4 DEF Above
    <2>7. ~In(Head(q[k]), Tail(q[k]))
      <3>1. Head(q[k]) \in Nat
        BY <1>1, <2>5
      <3> QED BY <2>3, <3>1 DEF Above
    <2> QED BY <1>1, <2>1, <2>3, <2>5, <2>6, <2>7
  <1>3. \A n : In(n, q'[k]) => In(n, q[k])
    BY <1>2
  <1>4. QueuedIsGiven'
    <2> SUFFICES ASSUME NEW j \in Queues, NEW n, In(n, q'[j])
                 PROVE  n \in 1 .. given /\ KindOf[n] = j
      BY DEF QueuedIsGiven
    <2>1. In(n, q[j])
      BY <1>3
    <2> QED BY <2>1 DEF OwnInv, QueuedIsGiven
  <1>5. InflightIsGiven'
    <2> SUFFICES ASSUME NEW j \in Queues, inflight'[j] # None
                 PROVE  inflight'[j] \in 1 .. given /\ KindOf[inflight'[j]] = j
      BY DEF InflightIsGiven
    <2>1. CASE inflight'[j] = inflight[j]
      BY <2>1 DEF OwnInv, InflightIsGiven
    <2>2. CASE j = k /\ q[k] # <<>> /\ inflight'[k] = Head(q[k])
      BY <1>2, <2>2
    <2> QED BY <2>1, <2>2
  <1>6. GoneIsGiven'
    BY DEF OwnInv, GoneIsGiven, InflightIsGiven
  <1>7. Ordered'
    <2> SUFFICES ASSUME NEW j \in Queues
                 PROVE  Increasing(q'[j]) /\ Above(q'[j], inflight'[j])
      BY DEF Ordered
    <2>1. Increasing(q[j]) /\ Above(q[j], inflight[j])
      BY DEF OwnInv, Ordered
    <2>2. CASE q'[j] = q[j] /\ inflight'[j] = inflight[j]
      BY <2>1, <2>2
    <2>3. CASE j = k /\ q'[k] = q[k] /\ inflight'[k] = None
      <3>1. Above(q[k], None)
        BY <1>1 DEF OwnInv, QueuedIsGiven, Above
      <3> QED BY <2>1, <2>3, <3>1
    <2>4. CASE j = k /\ q[k] # <<>> /\ q'[k] = Tail(q[k]) /\ inflight'[k] = Head(q[k])
      BY <1>2, <2>4
    <2> QED BY <2>2, <2>3, <2>4
  <1>8. ASSUME NEW m \in 1 .. given, KindOf[m] # "mgmt" PROVE Owned(m)'
    <2>1. KindOf[m] \in Queues /\ m # None /\ Owned(m)
      BY <1>1, <1>8, QueueTypes DEF OwnInv, DataOwned
    <2>2. CASE KindOf[m] # k
      <3>1. (Queued(m)' <=> Queued(m)) /\ (Flying(m)' <=> Flying(m))
        BY <2>1, <2>2 DEF Queued, Flying
      <3>2. m \in freed' <=> m \in freed
        BY <2>2 DEF OwnInv, InflightIsGiven
      <3> QED BY <2>1, <3>1, <3>2 DEF Owned
    <2>3. CASE KindOf[m] = k
      <3>1. freed' = freed \cup ({inflight[k]} \ {None})
        BY <1>8, <2>3
      <3>2. (Queued(m) <=> In(m, q[k])) /\ (Queued(m)' <=> In(m, q'[k]))
        BY <2>3 DEF Queued
      <3>3. (Flying(m) <=> inflight[k] = m) /\ (Flying(m)' <=> inflight'[k] = m)
        BY <2>3 DEF Flying
      <3>4. m \in freed' <=> m \in freed \/ Flying(m)
        BY <2>1, <3>1, <3>3
      <3>5. CASE q'[k] = q[k] /\ inflight'[k] = None
        BY <2>1, <3>2, <3>3, <3>4, <3>5 DEF Owned
      <3>6. CASE q[k] # <<>> /\ q'[k] = Tail(q[k]) /\ inflight'[k] = Head(q[k])
        <4>1. /\ Queued(m) <=> Queued(m)' \/ m = Head(q[k])
              /\ Flying(m)' <=> m = Head(q[k])
              /\ ~(Queued(m)' /\ Flying(m)')
          BY <1>2, <3>2, <3>3, <3>6
        <4> QED BY <2>1, <3>4, <4>1 DEF Owned
      <3> QED BY <1>8, <2>3, <3>5, <3>6
    <2> QED BY <2>2, <2>3
  <1> QED BY <1>4, <1>5, <1>6, <1>7, <1>8 DEF OwnInv, DataOwned

(* LINK_DOWN frees what the data queues hold.                              *)
LEMMA DrainOwn ==
    ASSUME TypeOK, OwnInv,
           UNCHANGED <<given, rejected, inflight>>,
           freed' = freed \cup ToSet(q["be"]) \cup ToSet(q["vo"]),
           q' = [q EXCEPT !["be"] = <<>>, !["vo"] = <<>>]
    PROVE  OwnInv'
  <1>1. q'["be"] = <<>> /\ q'["vo"] = <<>> /\ q'["mgmt"] = q["mgmt"]
    BY DEF TypeOK
  <1>2. \A k \in Queues : \A n : n \in ToSet(q[k]) <=> In(n, q[k])
    BY DEF ToSet, In
  <1>3. \A n : ~In(n, <<>>)
    BY DEF In
  <1>4. QueuedIsGiven' /\ InflightIsGiven'
    BY <1>1, <1>3 DEF OwnInv, QueuedIsGiven, InflightIsGiven
  <1>5. GoneIsGiven'
    BY <1>2 DEF OwnInv, GoneIsGiven, QueuedIsGiven
  <1>6. Ordered'
    <2>1. Increasing(<<>>)
      BY DEF Increasing
    <2> QED BY <1>1, <1>3, <2>1 DEF OwnInv, Ordered, Above
  <1>7. ASSUME NEW m \in 1 .. given, KindOf[m] # "mgmt" PROVE Owned(m)'
    <2>1. KindOf[m] \in {"be", "vo"} /\ Owned(m)
      BY <1>7, QueueTypes DEF OwnInv, DataOwned
    <2>2. ~Queued(m)' /\ (Flying(m)' <=> Flying(m))
      BY <1>1, <1>3, <2>1 DEF Queued, Flying
    <2>3. m \in freed' <=> m \in freed \/ Queued(m)
      BY <1>2, <2>1 DEF OwnInv, QueuedIsGiven, Queued
    <2> QED BY <2>1, <2>2, <2>3 DEF Owned
  <1> QED BY <1>4, <1>5, <1>6, <1>7 DEF OwnInv, DataOwned

(* Before the first frame everything is empty.                             *)
LEMMA NoFramesYet ==
    ASSUME TypeOK, OwnInv, given = 0
    PROVE  \A k \in Queues : q[k] = <<>> /\ inflight[k] = None
  <1> TAKE k \in Queues
  <1>1. q[k] = <<>>
    <2> SUFFICES ASSUME q[k] # <<>> PROVE FALSE
      OBVIOUS
    <2>1. In(Head(q[k]), q[k])
      BY QueueTypes, TailMembers
    <2> QED BY <2>1 DEF OwnInv, QueuedIsGiven
  <1>2. inflight[k] = None
    BY DEF OwnInv, InflightIsGiven
  <1> QED BY <1>1, <1>2

-----------------------------------------------------------------------------
(* Parts of the type invariant, as the steps disturb them.                 *)

TypeTx ==
    /\ q \in [Queues -> Seq(Frames)]
    /\ inflight \in [Queues -> Frames \cup {None}]
    /\ xfer \in [Pipes -> XferStates]
    /\ load \in [Pipes -> Loads]
    /\ sc_tx_buf \in Loads
TypeSync ==
    /\ sc_tx_pending \in BOOLEAN /\ sc_tx_done \in BOOLEAN
    /\ sc_tx_err \in BOOLEAN
    /\ caller \in [st : {"idle", "waiting"}, pipe : SyncCapable,
                   ret : {"none", "ok", "EIO", "EWOULDBLOCK", "ETIMEDOUT"}]
TypeGone ==
    /\ syncs \in 0 .. NumSyncs /\ given \in 0 .. NumFrames
    /\ freed \subseteq Frames /\ rejected \subseteq Frames
    /\ carried \subseteq SyncLoads
TypeFaults == errors \in Nat /\ timeouts \in Nat /\ errors + timeouts <= MaxFaults

(* The parts make up the whole, before a step and after it.                *)
LEMMA TypeParts ==
    /\ TypeOK <=> TypeTx /\ TypeSync /\ TypeGone /\ TypeFaults
                  /\ ep05 \in Seq(SyncCapable)
    /\ TypeOK' <=> TypeTx' /\ TypeSync' /\ TypeGone' /\ TypeFaults'
                   /\ ep05' \in Seq(SyncCapable)
  BY DEF TypeOK, TypeTx, TypeSync, TypeGone, TypeFaults

(* Loads are frames, or data of synchronous calls.                         *)
LEMMA LoadTypes ==
    /\ \A m \in Frames : <<"frame", m>> \in Loads
    /\ \A n \in 0 .. NumSyncs : Sync(n) \in SyncLoads /\ Sync(n) \in Loads
    /\ NoLoad \in Loads
  <1>1. \A m \in Frames : <<"frame", m>> \in Loads
    BY DEF Loads
  <1>2. \A n \in 0 .. NumSyncs : Sync(n) \in SyncLoads /\ Sync(n) \in Loads
    BY DEF SyncLoads, Loads
  <1>3. 0 \in 0 .. NumSyncs
    BY BulkTxAssumption
  <1> QED BY <1>1, <1>2, <1>3 DEF NoLoad

(* usbd_transfer_start and _stop touch one transfer.                       *)
LEMMA StartFacts ==
    ASSUME xfer \in [Pipes -> XferStates], NEW x \in Pipes,
           xfer' = usbd_transfer_start(xfer, x)
    PROVE  /\ xfer' \in [Pipes -> XferStates]
           /\ \A y \in Pipes \ {x} : xfer'[y] = xfer[y]
           /\ xfer'[x] = IF xfer[x] = "off" THEN "setup"
                         ELSE IF xfer[x] = "cancelled" THEN "restarted" ELSE xfer[x]
  BY DEF usbd_transfer_start, XferStates

(* The same for a stop.                                                    *)
LEMMA StopFacts ==
    ASSUME xfer \in [Pipes -> XferStates], NEW x \in Pipes,
           xfer' = usbd_transfer_stop(xfer, x)
    PROVE  /\ xfer' \in [Pipes -> XferStates]
           /\ \A y \in Pipes \ {x} : xfer'[y] = xfer[y]
           /\ xfer'[x] \in {"off", "cancelled"}
  BY DEF usbd_transfer_stop, XferStates

(* rtw88_bulk_tx_drain_q: nothing to send, or the head goes out.           *)
LEMMA DrainFacts ==
    ASSUME TypeTx, NEW x \in Pipes, NEW k \in Queues, k = QueueOf[x],
           NEW fl \in [Queues -> Frames \cup {None}],
           \A j \in Queues \ {k} : fl[j] = inflight[j],
           rtw88_bulk_tx_drain_q(x, fl)
    PROVE  /\ TypeTx'
           /\ \A j \in Queues \ {k} : q'[j] = q[j] /\ inflight'[j] = inflight[j]
           /\ \A y \in Pipes \ {x} : xfer'[y] = xfer[y] /\ load'[y] = load[y]
           /\ \/ /\ q[k] = <<>> /\ q'[k] = q[k] /\ inflight'[k] = fl[k]
                 /\ xfer'[x] = "off" /\ sc_tx_buf' = sc_tx_buf
              \/ /\ q[k] # <<>> /\ q'[k] = Tail(q[k])
                 /\ inflight'[k] = Head(q[k]) /\ Head(q[k]) \in Frames
                 /\ xfer'[x] = "flying" /\ load'[x] = <<"frame", Head(q[k])>>
  <1>1. CASE q[k] = <<>>
    <2>1. /\ xfer' = [xfer EXCEPT ![x] = "off"] /\ inflight' = fl
          /\ load' = [load EXCEPT ![x] = NoLoad]
          /\ q' = q /\ sc_tx_buf' = sc_tx_buf
      BY <1>1 DEF rtw88_bulk_tx_drain_q
    <2>2. TypeTx'
      BY <2>1, LoadTypes DEF TypeTx, XferStates
    <2> QED BY <1>1, <2>1, <2>2 DEF TypeTx
  <1>2. CASE q[k] # <<>>
    <2>1. /\ q' = [q EXCEPT ![k] = Tail(@)]
          /\ inflight' = [fl EXCEPT ![k] = Head(q[k])]
          /\ sc_tx_buf' = <<"frame", Head(q[k])>>
          /\ load' = [load EXCEPT ![x] = <<"frame", Head(q[k])>>]
          /\ xfer' = [xfer EXCEPT ![x] = "flying"]
      BY <1>2 DEF rtw88_bulk_tx_drain_q
    <2>2. Head(q[k]) \in Frames /\ Tail(q[k]) \in Seq(Frames)
      BY <1>2, TailFacts DEF TypeTx
    <2>3. <<"frame", Head(q[k])>> \in Loads
      BY <2>2, LoadTypes
    <2>4. TypeTx'
      BY <2>1, <2>2, <2>3 DEF TypeTx, XferStates
    <2> QED BY <1>2, <2>1, <2>2, <2>4 DEF TypeTx
  <1> QED BY <1>1, <1>2

-----------------------------------------------------------------------------
(* One lemma per action.                                                   *)

(* A step that leaves the data transfers and their frames alone.           *)
LEMMA PipeKept ==
    ASSUME PipeInv,
           \A x \in DataPipes : /\ xfer'[x] = xfer[x] /\ load'[x] = load[x]
                                /\ inflight'[QueueOf[x]] = inflight[QueueOf[x]]
    PROVE  PipeInv'
  BY DEF PipeInv, DataPipesQuiet, DataTransferIsInflight

(* A step that leaves queues, slots and fates of frames alone.             *)
LEMMA OwnKept ==
    ASSUME OwnInv, UNCHANGED <<q, inflight, given, freed, rejected>>
    PROVE  OwnInv'
  BY DEF OwnInv, QueuedIsGiven, InflightIsGiven, GoneIsGiven, DataOwned, Owned,
     Queued, Flying, Ordered

(* A frame is handed over.                                                 *)
LEMMA EnqueueStep ==
    ASSUME IInv, rtw88_tx_enqueue_locked
    PROVE  IInv'
  <1> DEFINE m == given + 1
             k == KindOf[m]
  <1>1. /\ given < NumFrames /\ given' = m
        /\ UNCHANGED <<inflight, load, ep05, sc_tx_buf, sc_tx_pending,
                       sc_tx_done, sc_tx_err, caller, syncs, freed, carried,
                       errors, timeouts>>
        /\ \/ /\ rejected' = rejected \cup {m} /\ q' = q /\ xfer' = xfer
           \/ /\ q' = [q EXCEPT ![k] = Append(@, m)]
              /\ xfer' = usbd_transfer_start(xfer, PipeOf[k])
              /\ rejected' = rejected
    BY DEF rtw88_tx_enqueue_locked, syncVars
  <1>2. m \in Frames /\ k \in Queues /\ given \in Nat /\ m \in 0 .. NumFrames
    BY <1>1, BulkTxAssumption DEF IInv, TypeOK, Frames
  <1>3. PipeOf[k] \in Pipes /\ QueueOf[PipeOf[k]] = k
    BY <1>2, Tables
  <1> HIDE DEF k
  <1>4. OwnInv'
    BY <1>1, <1>2, PushOwn DEF IInv, k
  <1> HIDE DEF m
  <1>5. \/ xfer' = xfer
        \/ /\ xfer' \in [Pipes -> XferStates]
           /\ \A y \in Pipes \ {PipeOf[k]} : xfer'[y] = xfer[y]
           /\ xfer'[PipeOf[k]] = IF xfer[PipeOf[k]] = "off" THEN "setup"
                ELSE IF xfer[PipeOf[k]] = "cancelled" THEN "restarted"
                ELSE xfer[PipeOf[k]]
    BY <1>1, <1>3, StartFacts DEF IInv, TypeOK
  <1>6. PipeInv'
    BY <1>1, <1>5 DEF IInv, PipeInv, DataPipesQuiet, DataTransferIsInflight
  <1>7. TypeOK'
    <2>1. q' \in [Queues -> Seq(Frames)]
      <3>1. Append(q[k], m) \in Seq(Frames)
        BY <1>2, AppendFacts DEF IInv, TypeOK
      <3> QED BY <1>1, <1>2, <3>1 DEF IInv, TypeOK
    <2>2. TypeTx'
      BY <1>1, <1>5, <2>1 DEF IInv, TypeOK, TypeTx
    <2>3. TypeGone'
      BY <1>1, <1>2 DEF IInv, TypeOK, TypeGone
    <2>4. TypeSync' /\ TypeFaults' /\ ep05' \in Seq(SyncCapable)
      BY <1>1 DEF IInv, TypeOK, TypeSync, TypeFaults
    <2> QED BY <2>2, <2>3, <2>4, TypeParts
  <1>8. NoStalePending' /\ AnsweredNotPending'
    BY <1>1 DEF IInv, TypeOK, NoStalePending, AnsweredNotPending
  <1>9. AttachInv'
    BY <1>1, <1>2 DEF AttachInv, m
  <1> QED BY <1>4, <1>6, <1>7, <1>8, <1>9 DEF IInv

(* A transfer ends, well or badly.                                         *)
LEMMA CompleteStep ==
    ASSUME IInv, NEW x \in Pipes, Complete(x)
    PROVE  IInv'
  <1>1. /\ xfer[x] = "flying"
        /\ \/ /\ xfer' = [xfer EXCEPT ![x] = "done"] /\ errors' = errors
              /\ carried' = carried \cup ({load[x]} \cap SyncLoads)
           \/ /\ xfer' = [xfer EXCEPT ![x] = "failed"] /\ carried' = carried
              /\ errors + timeouts < MaxFaults /\ errors' = errors + 1
        /\ UNCHANGED <<q, inflight, load, ep05, sc_tx_buf, sc_tx_pending,
                       sc_tx_done, sc_tx_err, caller, syncs, given, freed,
                       rejected, timeouts>>
    BY DEF Complete, syncVars
  <1>2. /\ xfer' \in [Pipes -> XferStates]
        /\ \A y \in Pipes \ {x} : xfer'[y] = xfer[y]
        /\ xfer'[x] \in {"done", "failed"}
    BY <1>1 DEF IInv, TypeOK, XferStates
  <1>3. OwnInv'
    BY <1>1, OwnKept DEF IInv
  <1>4. PipeInv'
    BY <1>1, <1>2 DEF IInv, PipeInv, DataPipesQuiet, DataTransferIsInflight
  <1>5. TypeOK'
    <2>1. TypeTx' /\ TypeSync' /\ TypeGone' /\ ep05' \in Seq(SyncCapable)
      BY <1>1, <1>2 DEF IInv, TypeOK, TypeTx, TypeSync, TypeGone
    <2>2. TypeFaults'
      BY <1>1, BulkTxAssumption DEF IInv, TypeOK, TypeFaults
    <2> QED BY <2>1, <2>2, TypeParts
  <1>6. NoStalePending' /\ AnsweredNotPending'
    BY <1>1 DEF IInv, TypeOK, NoStalePending, AnsweredNotPending
  <1>7. AttachInv'
    <2> SUFFICES ASSUME given = 0
                 PROVE  (/\ ActiveIsCallers /\ PendingIsCallers /\ AnswerIsTrue
                         /\ SyncOkMeansCarried)'
      BY <1>1 DEF AttachInv
    <2>1. ActiveIsCallers /\ PendingIsCallers /\ AnswerIsTrue /\ SyncOkMeansCarried
      BY DEF IInv, AttachInv
    <2>2. carried \subseteq carried'
      BY <1>1
    <2>3. (PendingIsCallers /\ AnswerIsTrue /\ SyncOkMeansCarried)'
      BY <1>1, <2>1, <2>2
      DEF PendingIsCallers, AnswerIsTrue, SyncOkMeansCarried
    <2>4. x \in SyncCapable =>
             /\ sc_tx_pending /\ caller.pipe = x /\ load[x] = Sync(syncs)
             /\ xfer'[x] = "done" => Sync(syncs) \in carried'
      <3>1. Sync(syncs) \in SyncLoads
        BY LoadTypes DEF IInv, TypeOK
      <3>2. x \in SyncCapable =>
               sc_tx_pending /\ caller.pipe = x /\ load[x] = Sync(syncs)
        BY <1>1, <2>1 DEF ActiveIsCallers
      <3>3. xfer'[x] = "done" => carried' = carried \cup ({load[x]} \cap SyncLoads)
        BY <1>1 DEF IInv, TypeOK
      <3> QED BY <3>1, <3>2, <3>3
    <2>5. ActiveIsCallers'
      BY <1>1, <1>2, <2>1, <2>2, <2>4 DEF ActiveIsCallers
    <2> QED BY <2>3, <2>5
  <1> QED BY <1>3, <1>4, <1>5, <1>6, <1>7 DEF IInv

(* The callbacks of the two data transfers.                                *)
LEMMA DataCbStep ==
    ASSUME IInv, NEW x \in Pipes, rtw88_bulk_tx_data_cb(x)
    PROVE  IInv'
  <1> DEFINE k == QueueOf[x]
             fl == IF xfer[x] = "done" THEN [inflight EXCEPT ![k] = None]
                   ELSE inflight
  <1>1. /\ x \in DataPipes /\ k \in Queues \ {"mgmt"} /\ x \notin SyncCapable
        /\ xfer[x] \in {"done", "setup"}
    BY Tables DEF rtw88_bulk_tx_data_cb
  <1>2. /\ rtw88_bulk_tx_drain_q(x, fl)
        /\ freed' = freed \cup ({inflight[k]} \ {None})
        /\ UNCHANGED <<ep05, sc_tx_pending, sc_tx_done, sc_tx_err, caller, syncs,
                       given, rejected, carried, errors, timeouts>>
    <2>1. xfer[x] = "setup" => inflight[k] = None
      BY <1>1 DEF IInv, PipeInv, DataPipesQuiet
    <2> QED BY <1>1, <2>1 DEF rtw88_bulk_tx_data_cb, FreeInflight, syncVars
  <1>3. /\ fl \in [Queues -> Frames \cup {None}] /\ fl[k] = None
        /\ \A j \in Queues \ {k} : fl[j] = inflight[j]
    BY <1>1 DEF IInv, TypeOK, PipeInv, DataPipesQuiet
  <1> HIDE DEF fl
  <1>4. /\ TypeTx'
        /\ \A j \in Queues \ {k} : q'[j] = q[j] /\ inflight'[j] = inflight[j]
        /\ \A y \in Pipes \ {x} : xfer'[y] = xfer[y] /\ load'[y] = load[y]
        /\ \/ /\ q[k] = <<>> /\ q'[k] = q[k] /\ inflight'[k] = None
              /\ xfer'[x] = "off" /\ sc_tx_buf' = sc_tx_buf
           \/ /\ q[k] # <<>> /\ q'[k] = Tail(q[k])
              /\ inflight'[k] = Head(q[k]) /\ Head(q[k]) \in Frames
              /\ xfer'[x] = "flying" /\ load'[x] = <<"frame", Head(q[k])>>
    BY <1>1, <1>2, <1>3, DrainFacts, TypeParts DEF IInv
  <1>5. OwnInv'
    BY <1>1, <1>2, <1>4, MoveOwn DEF IInv
  <1>6. PipeInv'
    <2> SUFFICES ASSUME NEW y \in DataPipes
                 PROVE  /\ \/ xfer'[y] \in {"flying", "done", "failed"}
                           \/ /\ xfer'[y] \in {"off", "setup"}
                              /\ inflight'[QueueOf[y]] = None
                        /\ xfer'[y] \in {"flying", "done", "failed"} =>
                              /\ inflight'[QueueOf[y]] # None
                              /\ load'[y] = <<"frame", inflight'[QueueOf[y]]>>
      BY DEF PipeInv, DataPipesQuiet, DataTransferIsInflight
    <2>1. CASE y = x
      BY <1>4, <2>1 DEF Frames
    <2>2. CASE y # x
      <3>1. QueueOf[y] \in Queues \ {k}
        BY <1>1, <2>2, Tables
      <3> QED BY <1>4, <2>2, <3>1
              DEF IInv, PipeInv, DataPipesQuiet, DataTransferIsInflight
    <2> QED BY <2>1, <2>2
  <1>7. TypeOK'
    <2>1. freed' \subseteq Frames
      BY <1>1, <1>2 DEF IInv, TypeOK
    <2>2. TypeSync' /\ TypeGone' /\ TypeFaults' /\ ep05' \in Seq(SyncCapable)
      BY <1>2, <2>1 DEF IInv, TypeOK, TypeSync, TypeGone, TypeFaults
    <2> QED BY <1>4, <2>2, TypeParts
  <1>8. NoStalePending' /\ AnsweredNotPending'
    BY <1>2 DEF IInv, TypeOK, NoStalePending, AnsweredNotPending
  <1>9. AttachInv'
    <2> SUFFICES ASSUME given = 0
                 PROVE  (/\ ActiveIsCallers /\ PendingIsCallers /\ AnswerIsTrue
                         /\ SyncOkMeansCarried)'
      BY <1>2 DEF AttachInv
    <2>1. ActiveIsCallers /\ PendingIsCallers /\ AnswerIsTrue /\ SyncOkMeansCarried
      BY DEF IInv, AttachInv
    <2>2. sc_tx_buf' = sc_tx_buf
      BY <1>1, <1>4, NoFramesYet DEF IInv
    <2> QED BY <1>1, <1>2, <1>4, <2>1, <2>2
            DEF ActiveIsCallers, PendingIsCallers, AnswerIsTrue, SyncOkMeansCarried
  <1> QED BY <1>5, <1>6, <1>7, <1>8, <1>9 DEF IInv

(* The callback of HI and H2C.  Before the first frame a transferred one   *)
(* answers the call that waits, and one set up carries its data.           *)
LEMMA TxCbStep ==
    ASSUME IInv, NEW x \in Pipes, rtw88_bulk_tx_cb(x)
    PROVE  IInv'
  <1> DEFINE sent == xfer[x] = "done"
             fl == IF sent THEN [inflight EXCEPT !["mgmt"] = None] ELSE inflight
             again == /\ load' = [load EXCEPT ![x] = sc_tx_buf]
                      /\ xfer' = [xfer EXCEPT ![x] = "flying"]
                      /\ inflight' = fl /\ q' = q /\ sc_tx_buf' = sc_tx_buf
  <1>1. /\ x \in SyncCapable /\ QueueOf[x] = "mgmt" /\ x \notin DataPipes
        /\ xfer[x] \in {"done", "setup"}
    BY Tables DEF rtw88_bulk_tx_cb
  <1>2. /\ ep05' = Resubmitted(x, xfer'[x])
        /\ freed' \in {freed, freed \cup ({inflight["mgmt"]} \ {None})}
        /\ UNCHANGED <<caller, syncs, given, rejected, carried, errors, timeouts>>
    BY DEF rtw88_bulk_tx_cb, FreeInflight
  <1>3. /\ sent /\ sc_tx_pending =>
              sc_tx_err' = FALSE /\ sc_tx_pending' = FALSE /\ sc_tx_done' = TRUE
        /\ ~(sent /\ sc_tx_pending) =>
              UNCHANGED <<sc_tx_pending, sc_tx_done, sc_tx_err>>
    BY DEF rtw88_bulk_tx_cb, syncVars
  <1>4. IF sc_tx_pending' THEN again ELSE rtw88_bulk_tx_drain_q(x, fl)
    BY DEF rtw88_bulk_tx_cb
  <1>5. /\ fl \in [Queues -> Frames \cup {None}]
        /\ \A j \in Queues \ {"mgmt"} : fl[j] = inflight[j]
        /\ fl["mgmt"] \in {inflight["mgmt"], None}
    BY DEF IInv, TypeOK
  <1>6. /\ TypeTx'
        /\ \A j \in Queues \ {"mgmt"} : q'[j] = q[j] /\ inflight'[j] = inflight[j]
        /\ \A y \in Pipes \ {x} : xfer'[y] = xfer[y] /\ load'[y] = load[y]
        /\ \/ /\ q'["mgmt"] = q["mgmt"] /\ inflight'["mgmt"] = fl["mgmt"]
              /\ sc_tx_buf' = sc_tx_buf
              /\ \/ sc_tx_pending' /\ xfer'[x] = "flying" /\ load'[x] = sc_tx_buf
                 \/ ~sc_tx_pending' /\ xfer'[x] = "off"
           \/ /\ ~sc_tx_pending'
              /\ q["mgmt"] # <<>> /\ q'["mgmt"] = Tail(q["mgmt"])
              /\ inflight'["mgmt"] = Head(q["mgmt"])
    <2> HIDE DEF fl
    <2>1. CASE sc_tx_pending'
      <3>1. again
        BY <1>4, <2>1
      <3>2. TypeTx'
        BY <1>5, <3>1 DEF IInv, TypeOK, TypeTx, XferStates
      <3> QED BY <1>5, <2>1, <3>1, <3>2 DEF IInv, TypeOK
    <2>2. CASE ~sc_tx_pending'
      <3>1. rtw88_bulk_tx_drain_q(x, fl)
        BY <1>4, <2>2
      <3>2. TypeTx /\ "mgmt" \in Queues
        BY TypeParts DEF IInv
      <3> HIDE DEF again
      <3>3. /\ TypeTx'
            /\ \A j \in Queues \ {"mgmt"} :
                  q'[j] = q[j] /\ inflight'[j] = inflight[j]
            /\ \A y \in Pipes \ {x} : xfer'[y] = xfer[y] /\ load'[y] = load[y]
            /\ \/ /\ q["mgmt"] = <<>> /\ q'["mgmt"] = q["mgmt"]
                  /\ inflight'["mgmt"] = fl["mgmt"]
                  /\ xfer'[x] = "off" /\ sc_tx_buf' = sc_tx_buf
               \/ /\ q["mgmt"] # <<>> /\ q'["mgmt"] = Tail(q["mgmt"])
                  /\ inflight'["mgmt"] = Head(q["mgmt"])
                  /\ Head(q["mgmt"]) \in Frames
                  /\ xfer'[x] = "flying"
                  /\ load'[x] = <<"frame", Head(q["mgmt"])>>
        BY <1>1, <1>5, <3>1, <3>2, DrainFacts
      <3> QED BY <2>2, <3>3
    <2> QED BY <2>1, <2>2
  <1> HIDE DEF fl, again
  <1>7. OwnInv'
    <2>1. "mgmt" \in Queues
      OBVIOUS
    <2> QED BY <1>2, <1>5, <1>6, <2>1, MoveOwn DEF IInv
  <1>8. PipeInv'
    <2>1. \A y \in DataPipes : y \in Pipes \ {x} /\ QueueOf[y] \in Queues \ {"mgmt"}
      BY <1>1, Tables
    <2> QED BY <1>6, <2>1, PipeKept DEF IInv
  <1>9. TypeOK'
    <2>1. freed' \subseteq Frames
      BY <1>2 DEF IInv, TypeOK
    <2>2. TypeGone' /\ TypeFaults'
      BY <1>2, <2>1 DEF IInv, TypeOK, TypeGone, TypeFaults
    <2>3. TypeSync'
      BY <1>2, <1>3 DEF IInv, TypeOK, TypeSync
    <2>4. ep05' \in Seq(SyncCapable)
      BY <1>2, ResubmittedType DEF IInv, TypeOK
    <2> QED BY <1>6, <2>2, <2>3, <2>4, TypeParts
  <1>10. NoStalePending' /\ AnsweredNotPending'
    BY <1>2, <1>3 DEF IInv, TypeOK, NoStalePending, AnsweredNotPending
  <1>11. AttachInv'
    <2> SUFFICES ASSUME given = 0
                 PROVE  (/\ ActiveIsCallers /\ PendingIsCallers /\ AnswerIsTrue
                         /\ SyncOkMeansCarried)'
      BY <1>2 DEF AttachInv
    <2>1. ActiveIsCallers /\ PendingIsCallers /\ AnswerIsTrue /\ SyncOkMeansCarried
      BY DEF IInv, AttachInv
    <2>2. /\ sc_tx_buf' = sc_tx_buf
          /\ \/ sc_tx_pending' /\ xfer'[x] = "flying" /\ load'[x] = sc_tx_buf
             \/ ~sc_tx_pending' /\ xfer'[x] = "off"
      BY <1>6, NoFramesYet DEF IInv
    <2>3. sc_tx_pending /\ caller.pipe = x
      BY <1>1, <2>1 DEF ActiveIsCallers
    <2>4. SyncOkMeansCarried'
      BY <1>2, <2>1 DEF SyncOkMeansCarried
    <2>5. CASE sent
      <3>1. ~sc_tx_pending' /\ xfer'[x] = "off" /\ Sync(syncs) \in carried
        BY <1>1, <1>3, <2>1, <2>2, <2>3, <2>5 DEF ActiveIsCallers
      <3>2. \A y \in SyncCapable :
               xfer'[y] \notin {"setup", "flying", "done", "failed", "restarted"}
        <4>1. \A y \in SyncCapable \ {x} :
                 xfer[y] \notin {"setup", "flying", "done", "failed", "restarted"}
          BY <2>1, <2>3 DEF ActiveIsCallers
        <4> QED BY <1>6, <3>1, <4>1
      <3> QED BY <1>2, <2>4, <3>1, <3>2
              DEF ActiveIsCallers, PendingIsCallers, AnswerIsTrue
    <2>6. CASE ~sent
      <3>1. UNCHANGED <<sc_tx_pending, sc_tx_done, sc_tx_err>>
        BY <1>3, <2>6
      <3>2. xfer'[x] = "flying" /\ load'[x] = Sync(syncs)
        BY <2>1, <2>2, <2>3, <3>1 DEF PendingIsCallers
      <3>3. ActiveIsCallers'
        BY <1>2, <1>6, <2>1, <2>3, <3>1, <3>2 DEF ActiveIsCallers
      <3> QED BY <1>2, <2>1, <2>2, <2>4, <3>1, <3>3
              DEF PendingIsCallers, AnswerIsTrue
    <2> QED BY <2>5, <2>6
  <1> QED BY <1>7, <1>8, <1>9, <1>10, <1>11 DEF IInv

(* The error arm of the callbacks.                                         *)
LEMMA ErrorStep ==
    ASSUME IInv, NEW x \in Pipes, TransferError(x)
    PROVE  IInv'
  <1> DEFINE k == QueueOf[x]
             failed == xfer[x] = "failed"
  <1>1. /\ k \in Queues /\ xfer[x] \in {"failed", "cancelled", "restarted"}
        /\ x \in SyncCapable <=> k = "mgmt"
        /\ x \in DataPipes => failed
    BY Tables DEF TransferError, IInv, PipeInv, DataPipesQuiet
  <1>2. /\ xfer' = [xfer EXCEPT ![x] = IF @ = "restarted" THEN "setup" ELSE "off"]
        /\ load' = [load EXCEPT ![x] = NoLoad]
        /\ ep05' = Resubmitted(x, xfer'[x])
        /\ UNCHANGED <<q, sc_tx_buf, caller, syncs, given, rejected, carried,
                       errors, timeouts>>
    BY DEF TransferError
  <1>3. /\ failed => /\ freed' = freed \cup ({inflight[k]} \ {None})
                     /\ inflight' = [inflight EXCEPT ![k] = None]
        /\ ~failed => freed' = freed /\ inflight' = inflight
    BY DEF TransferError, FreeInflight
  <1>4. /\ failed /\ x \in SyncCapable =>
              /\ sc_tx_err' = TRUE /\ sc_tx_pending' = FALSE
              /\ sc_tx_done' = (sc_tx_done \/ sc_tx_pending)
        /\ ~(failed /\ x \in SyncCapable) =>
              UNCHANGED <<sc_tx_pending, sc_tx_done, sc_tx_err>>
    BY DEF TransferError, syncVars
  <1>5. /\ xfer' \in [Pipes -> XferStates] /\ load' \in [Pipes -> Loads]
        /\ \A y \in Pipes \ {x} : xfer'[y] = xfer[y] /\ load'[y] = load[y]
        /\ xfer'[x] = IF xfer[x] = "restarted" THEN "setup" ELSE "off"
    BY <1>2, LoadTypes DEF IInv, TypeOK, XferStates
  <1>6. /\ inflight' \in [Queues -> Frames \cup {None}]
        /\ \A j \in Queues \ {k} : inflight'[j] = inflight[j]
        /\ inflight'[k] = IF failed THEN None ELSE inflight[k]
    BY <1>1, <1>3, ZenonT(60) DEF IInv, TypeOK
  <1>7. OwnInv'
    <2>1. k # "mgmt" => failed
      BY <1>1
    <2>2. /\ freed' \in {freed, freed \cup ({inflight[k]} \ {None})}
          /\ k # "mgmt" => freed' = freed \cup ({inflight[k]} \ {None})
          /\ \/ q'[k] = q[k] /\ inflight'[k] = None
             \/ q'[k] = q[k] /\ inflight'[k] = inflight[k] /\ k = "mgmt"
      BY <1>2, <1>3, <1>6, <2>1
    <2> HIDE DEF k, failed
    <2> QED BY <1>1, <1>2, <1>6, <2>2, MoveOwn DEF IInv
  <1>8. PipeInv'
    <2> SUFFICES ASSUME NEW y \in DataPipes
                 PROVE  /\ \/ xfer'[y] \in {"flying", "done", "failed"}
                           \/ /\ xfer'[y] \in {"off", "setup"}
                              /\ inflight'[QueueOf[y]] = None
                        /\ xfer'[y] \in {"flying", "done", "failed"} =>
                              /\ inflight'[QueueOf[y]] # None
                              /\ load'[y] = <<"frame", inflight'[QueueOf[y]]>>
      BY DEF PipeInv, DataPipesQuiet, DataTransferIsInflight
    <2>1. CASE y = x
      BY <1>1, <1>5, <1>6, <2>1
    <2>2. CASE y # x
      <3>1. QueueOf[y] \in Queues \ {k}
        BY <2>2, Tables
      <3> QED BY <1>5, <1>6, <2>2, <3>1
              DEF IInv, PipeInv, DataPipesQuiet, DataTransferIsInflight
    <2> QED BY <2>1, <2>2
  <1>9. TypeOK'
    <2>1. freed' \subseteq Frames
      BY <1>1, <1>3 DEF IInv, TypeOK
    <2>2. TypeTx' /\ TypeGone' /\ TypeFaults'
      BY <1>2, <1>5, <1>6, <2>1 DEF IInv, TypeOK, TypeTx, TypeGone, TypeFaults
    <2>3. TypeSync'
      BY <1>2, <1>4 DEF IInv, TypeOK, TypeSync
    <2>4. ep05' \in Seq(SyncCapable)
      BY <1>2, ResubmittedType DEF IInv, TypeOK
    <2> QED BY <2>2, <2>3, <2>4, TypeParts
  <1>10. NoStalePending' /\ AnsweredNotPending'
    BY <1>2, <1>4 DEF IInv, TypeOK, NoStalePending, AnsweredNotPending
  <1>11. AttachInv'
    <2> SUFFICES ASSUME given = 0
                 PROVE  (/\ ActiveIsCallers /\ PendingIsCallers /\ AnswerIsTrue
                         /\ SyncOkMeansCarried)'
      BY <1>2 DEF AttachInv
    <2>1. ActiveIsCallers /\ PendingIsCallers /\ AnswerIsTrue /\ SyncOkMeansCarried
      BY DEF IInv, AttachInv
    <2>2. SyncOkMeansCarried'
      BY <1>2, <2>1 DEF SyncOkMeansCarried
    <2>3. CASE failed /\ x \in SyncCapable
      <3>1. \A y \in SyncCapable :
               xfer'[y] \notin {"setup", "flying", "done", "failed", "restarted"}
        <4>1. \A y \in SyncCapable \ {x} :
                 xfer[y] \notin {"setup", "flying", "done", "failed", "restarted"}
          BY <2>1, <2>3 DEF ActiveIsCallers
        <4> QED BY <1>5, <2>3, <4>1
      <3> QED BY <1>4, <2>2, <2>3, <3>1
              DEF ActiveIsCallers, PendingIsCallers, AnswerIsTrue
    <2>4. CASE ~(failed /\ x \in SyncCapable)
      <3>1. UNCHANGED <<sc_tx_pending, sc_tx_done, sc_tx_err>>
        BY <1>4, <2>4
      <3>2. ActiveIsCallers'
        BY <1>1, <1>2, <1>5, <2>1, <2>4, <3>1 DEF ActiveIsCallers
      <3> QED BY <1>2, <2>1, <2>2, <3>1, <3>2
              DEF PendingIsCallers, AnswerIsTrue
    <2> QED BY <2>3, <2>4
  <1> QED BY <1>7, <1>8, <1>9, <1>10, <1>11 DEF IInv

(* A synchronous call begins.  Nothing of an earlier call is under way.    *)
LEMMA SyncStep ==
    ASSUME IInv, NEW x \in SyncPipes, rtw88_bulk_tx_sync(x)
    PROVE  IInv'
  <1>1. /\ caller.st = "idle" /\ syncs < NumSyncs /\ syncs' = syncs + 1
        /\ sc_tx_buf' = Sync(syncs + 1)
        /\ sc_tx_pending' = TRUE /\ sc_tx_done' = FALSE /\ sc_tx_err' = FALSE
        /\ xfer' = usbd_transfer_start(xfer, x)
        /\ caller' = [st |-> "waiting", pipe |-> x, ret |-> "none"]
        /\ UNCHANGED <<q, inflight, load, ep05, given, freed, rejected, carried,
                       errors, timeouts>>
    BY DEF rtw88_bulk_tx_sync
  <1>2. x \in SyncCapable /\ x \in Pipes /\ x \notin DataPipes
    BY BulkTxAssumption
  <1>3. /\ xfer' \in [Pipes -> XferStates]
        /\ \A y \in Pipes \ {x} : xfer'[y] = xfer[y]
        /\ xfer'[x] = IF xfer[x] = "off" THEN "setup"
                      ELSE IF xfer[x] = "cancelled" THEN "restarted" ELSE xfer[x]
    BY <1>1, <1>2, StartFacts DEF IInv, TypeOK
  <1>4. OwnInv'
    BY <1>1, OwnKept DEF IInv
  <1>5. PipeInv'
    BY <1>1, <1>2, <1>3, PipeKept DEF IInv
  <1>6. syncs' \in 0 .. NumSyncs
    BY <1>1, BulkTxAssumption DEF IInv, TypeOK
  <1>7. TypeOK'
    <2>1. sc_tx_buf' \in Loads
      BY <1>1, <1>6, LoadTypes
    <2>2. TypeTx' /\ TypeGone' /\ TypeFaults' /\ ep05' \in Seq(SyncCapable)
      BY <1>1, <1>3, <1>6, <2>1 DEF IInv, TypeOK, TypeTx, TypeGone, TypeFaults
    <2>3. TypeSync'
      BY <1>1, <1>2 DEF TypeSync
    <2> QED BY <2>2, <2>3, TypeParts
  <1>8. NoStalePending' /\ AnsweredNotPending'
    BY <1>1 DEF NoStalePending, AnsweredNotPending
  <1>9. AttachInv'
    <2> SUFFICES ASSUME given = 0
                 PROVE  (/\ ActiveIsCallers /\ PendingIsCallers /\ AnswerIsTrue
                         /\ SyncOkMeansCarried)'
      BY <1>1 DEF AttachInv
    <2>1. ~sc_tx_pending /\ ActiveIsCallers
      BY <1>1 DEF IInv, NoStalePending, AttachInv
    <2>2. \A y \in SyncCapable : xfer[y] \in {"off", "cancelled"}
      BY <2>1 DEF ActiveIsCallers, IInv, TypeOK, XferStates
    <2>3. ActiveIsCallers'
      BY <1>1, <1>2, <1>3, <2>2 DEF ActiveIsCallers
    <2>4. (PendingIsCallers /\ AnswerIsTrue /\ SyncOkMeansCarried)'
      BY <1>1 DEF PendingIsCallers, AnswerIsTrue, SyncOkMeansCarried
    <2> QED BY <2>3, <2>4
  <1> QED BY <1>4, <1>5, <1>7, <1>8, <1>9 DEF IInv

(* The signalled caller returns.                                           *)
LEMMA ReturnStep ==
    ASSUME IInv, SyncReturn
    PROVE  IInv'
  <1> PICK r \in Answers : caller' = [caller EXCEPT !.st = "idle", !.ret = r]
    BY DEF SyncReturn
  <1>0. r \in {"EIO", "ok", "EWOULDBLOCK"} /\ (r = "ok" => ~sc_tx_err)
    BY DEF Answers
  <1>1. /\ caller.st = "waiting" /\ sc_tx_done
        /\ caller' = [caller EXCEPT !.st = "idle", !.ret = r]
        /\ UNCHANGED <<q, inflight, xfer, load, ep05, sc_tx_buf, sc_tx_pending,
                       sc_tx_done, sc_tx_err, syncs, given, freed, rejected,
                       carried, errors, timeouts>>
    BY DEF SyncReturn, syncVars
  <1>2. OwnInv' /\ PipeInv'
    BY <1>1, OwnKept, PipeKept DEF IInv
  <1>3. /\ caller' \in [st : {"idle", "waiting"}, pipe : SyncCapable,
                        ret : {"none", "ok", "EIO", "EWOULDBLOCK", "ETIMEDOUT"}]
        /\ caller'.pipe = caller.pipe /\ caller'.st = "idle"
        /\ caller'.ret = r
    BY <1>0, <1>1 DEF IInv, TypeOK
  <1>4. TypeOK'
    BY <1>1, <1>3 DEF IInv, TypeOK
  <1>5. NoStalePending' /\ AnsweredNotPending'
    BY <1>1, <1>3 DEF IInv, AnsweredNotPending, NoStalePending
  <1>6. AttachInv'
    BY <1>0, <1>1, <1>3 DEF IInv, AttachInv, ActiveIsCallers, PendingIsCallers,
       AnswerIsTrue, SyncOkMeansCarried
  <1> QED BY <1>2, <1>4, <1>5, <1>6 DEF IInv

(* The caller gives up: its transfer is stopped, the slot disarmed.        *)
LEMMA TimeoutStep ==
    ASSUME IInv, SyncTimeout
    PROVE  IInv'
  <1> DEFINE x == caller.pipe
  <1>1. /\ caller.st = "waiting" /\ errors + timeouts < MaxFaults
        /\ timeouts' = timeouts + 1
        /\ xfer' = usbd_transfer_stop(xfer, x)
        /\ ep05' = Resubmitted(x, "off")
        /\ sc_tx_pending' = FALSE
        /\ caller' = [caller EXCEPT !.st = "idle", !.ret = "ETIMEDOUT"]
        /\ UNCHANGED <<q, inflight, load, sc_tx_buf, sc_tx_done, sc_tx_err,
                       syncs, given, freed, rejected, carried, errors>>
    BY DEF SyncTimeout
  <1>2. x \in SyncCapable /\ x \in Pipes /\ x \notin DataPipes
    BY DEF IInv, TypeOK
  <1>3. /\ caller' \in [st : {"idle", "waiting"}, pipe : SyncCapable,
                        ret : {"none", "ok", "EIO", "EWOULDBLOCK", "ETIMEDOUT"}]
        /\ caller'.st = "idle" /\ caller'.ret = "ETIMEDOUT"
    BY <1>1 DEF IInv, TypeOK
  <1> HIDE DEF x
  <1>4. /\ xfer' \in [Pipes -> XferStates]
        /\ \A y \in Pipes \ {x} : xfer'[y] = xfer[y]
        /\ xfer'[x] \in {"off", "cancelled"}
    BY <1>1, <1>2, StopFacts DEF IInv, TypeOK
  <1>5. OwnInv'
    BY <1>1, OwnKept DEF IInv
  <1>6. PipeInv'
    BY <1>1, <1>2, <1>4, PipeKept DEF IInv
  <1>7. TypeOK'
    <2>1. TypeTx' /\ TypeGone'
      BY <1>1, <1>4 DEF IInv, TypeOK, TypeTx, TypeGone
    <2>2. TypeSync'
      BY <1>1, <1>3 DEF IInv, TypeOK, TypeSync
    <2>3. TypeFaults'
      BY <1>1, BulkTxAssumption, SMTT(30) DEF IInv, TypeOK, TypeFaults
    <2>4. ep05' \in Seq(SyncCapable)
      BY <1>1, <1>2, ResubmittedType DEF IInv, TypeOK
    <2> QED BY <2>1, <2>2, <2>3, <2>4, TypeParts
  <1>8. NoStalePending' /\ AnsweredNotPending'
    BY <1>1 DEF NoStalePending, AnsweredNotPending
  <1>9. AttachInv'
    <2> SUFFICES ASSUME given = 0
                 PROVE  (/\ ActiveIsCallers /\ PendingIsCallers /\ AnswerIsTrue
                         /\ SyncOkMeansCarried)'
      BY <1>1 DEF AttachInv
    <2>1. \A y \in SyncCapable :
             xfer'[y] \notin {"setup", "flying", "done", "failed", "restarted"}
      BY <1>2, <1>4 DEF IInv, AttachInv, ActiveIsCallers, x
    <2> QED BY <1>1, <1>3, <2>1
            DEF ActiveIsCallers, PendingIsCallers, AnswerIsTrue, SyncOkMeansCarried
  <1> QED BY <1>5, <1>6, <1>7, <1>8, <1>9 DEF IInv

(* LINK_DOWN empties the data queues.                                      *)
LEMMA DrainStep ==
    ASSUME IInv, LinkDownDrain
    PROVE  IInv'
  <1>1. /\ freed' = freed \cup ToSet(q["be"]) \cup ToSet(q["vo"])
        /\ q' = [q EXCEPT !["be"] = <<>>, !["vo"] = <<>>]
        /\ UNCHANGED <<inflight, xfer, load, ep05, sc_tx_buf, sc_tx_pending,
                       sc_tx_done, sc_tx_err, caller, syncs, given, rejected,
                       carried, errors, timeouts>>
    BY DEF LinkDownDrain, syncVars
  <1>2. OwnInv'
    BY <1>1, DrainOwn DEF IInv
  <1>3. PipeInv'
    BY <1>1, PipeKept DEF IInv
  <1>4. TypeOK'
    <2>1. freed' \subseteq Frames
      <3>1. \A k \in Queues : ToSet(q[k]) \subseteq Frames
        BY LenProperties DEF ToSet, IInv, TypeOK
      <3> QED BY <1>1, <3>1 DEF IInv, TypeOK
    <2>2. q' \in [Queues -> Seq(Frames)]
      BY <1>1, EmptySeq DEF IInv, TypeOK
    <2> QED BY <1>1, <2>1, <2>2 DEF IInv, TypeOK
  <1>5. NoStalePending' /\ AnsweredNotPending'
    BY <1>1 DEF IInv, NoStalePending, AnsweredNotPending
  <1>6. AttachInv'
    BY <1>1 DEF IInv, AttachInv, ActiveIsCallers, PendingIsCallers,
       AnswerIsTrue, SyncOkMeansCarried
  <1> QED BY <1>2, <1>3, <1>4, <1>5, <1>6 DEF IInv

-----------------------------------------------------------------------------

(* The invariant holds initially.                                          *)
LEMMA InitIInv == Init => IInv
  <1> SUFFICES ASSUME Init PROVE IInv
    OBVIOUS
  <1> USE DEF Init
  <1>1. TypeOK
    <2>1. TypeTx
      BY LoadTypes, EmptySeq DEF TypeTx, XferStates
    <2>2. TypeSync
      BY Zenon DEF TypeSync
    <2>3. TypeGone /\ TypeFaults /\ ep05 \in Seq(SyncCapable)
      BY BulkTxAssumption, EmptySeq DEF TypeGone, TypeFaults
    <2> QED BY <2>1, <2>2, <2>3, TypeParts
  <1>2. \A k \in Queues : q[k] = <<>> /\ inflight[k] = None
    OBVIOUS
  <1>3. OwnInv
    <2>1. \A n : ~In(n, <<>>)
      BY DEF In
    <2>2. Increasing(<<>>)
      BY DEF Increasing
    <2> QED BY <1>2, <2>1, <2>2 DEF OwnInv, QueuedIsGiven, InflightIsGiven,
            GoneIsGiven, DataOwned, Ordered, Above
  <1>4. PipeInv
    BY <1>2, Tables DEF PipeInv, DataPipesQuiet, DataTransferIsInflight
  <1>5. NoStalePending /\ AnsweredNotPending /\ AttachInv
    BY DEF NoStalePending, AnsweredNotPending, AttachInv, ActiveIsCallers,
       PendingIsCallers, AnswerIsTrue, SyncOkMeansCarried
  <1> QED BY <1>1, <1>3, <1>4, <1>5 DEF IInv

(* Every step keeps it.                                                    *)
LEMMA NextIInv == IInv /\ [Next]_vars => IInv'
  <1> SUFFICES ASSUME IInv, [Next]_vars PROVE IInv'
    OBVIOUS
  <1>1. CASE UNCHANGED vars
    <2>1. TypeOK'
      BY <1>1 DEF vars, IInv, TypeOK
    <2>2. OwnInv' /\ PipeInv'
      BY <1>1, OwnKept, PipeKept DEF vars, IInv
    <2>3. NoStalePending' /\ AnsweredNotPending' /\ AttachInv'
      BY <1>1 DEF vars, IInv, NoStalePending, AnsweredNotPending, AttachInv,
         ActiveIsCallers, PendingIsCallers, AnswerIsTrue, SyncOkMeansCarried
    <2> QED BY <2>1, <2>2, <2>3 DEF IInv
  <1>2. ASSUME NEW x \in Pipes, Callback(x) PROVE IInv'
    BY <1>2, TxCbStep, DataCbStep, ErrorStep DEF Callback
  <1> QED BY <1>1, <1>2, EnqueueStep, SyncStep, ReturnStep, TimeoutStep,
          DrainStep, CompleteStep DEF Next

(* IInv is an inductive invariant of the bulk-OUT side.                    *)
THEOREM Invariance == Spec => []IInv
  BY InitIInv, NextIInv, PTL DEF Spec

(* The state of the bulk-OUT side keeps its types; in particular counters  *)
(* and fault budget stay in their bounds.                                  *)
THEOREM TypeCorrect == Spec => []TypeOK
  <1>1. IInv => TypeOK
    BY DEF IInv
  <1> QED BY <1>1, Invariance, PTL

(* For any frames, limits and faults: a data frame handed over is in one   *)
(* place, and neither leaked nor freed twice, by the callbacks, their      *)
(* error arms, a full queue or LINK_DOWN's drain.                          *)
THEOREM DataFramesAreOwned == Spec => []DataFramesOwned
  <1>1. IInv => DataFramesOwned
    BY DEF IInv, OwnInv, DataOwned, DataFramesOwned, OneOwner, Owned, Queued,
       Flying, In
  <1> QED BY <1>1, Invariance, PTL

(* No queue is ever reordered, and what is in flight was handed over       *)
(* before what is queued.                                                  *)
THEOREM OrderIsKept == Spec => []QueuesInOrder
  <1>1. IInv => QueuesInOrder
    <2> SUFFICES ASSUME Ordered, NEW k \in Queues
                 PROVE  /\ \A i, j \in DOMAIN q[k] : i < j => q[k][i] < q[k][j]
                        /\ \A i \in DOMAIN q[k] : inflight[k] < q[k][i]
      BY DEF IInv, OwnInv, QueuesInOrder
    <2>1. Increasing(q[k]) /\ \A i \in DOMAIN q[k] : In(q[k][i], q[k])
      BY DEF Ordered, In
    <2>2. \A i \in DOMAIN q[k] : inflight[k] < q[k][i]
      BY <2>1 DEF Ordered, Above
    <2> QED BY <2>1, <2>2 DEF Increasing
  <1> QED BY <1>1, Invariance, PTL

(* A data transfer carries the frame that its callback frees.              *)
THEOREM CallbackFreesWhatWasSent == Spec => []DataTransferIsInflight
  <1>1. IInv => DataTransferIsInflight
    BY DEF IInv, PipeInv
  <1> QED BY <1>1, Invariance, PTL

(* No callback sends the buffer of a synchronous call that has returned.   *)
THEOREM SlotDisarmed == Spec => []NoStalePending
  <1>1. IInv => NoStalePending
    BY DEF IInv
  <1> QED BY <1>1, Invariance, PTL

(* Until the first frame is handed over rtw88_bulk_tx_sync returns 0 only  *)
(* for data the chip has received, whatever earlier calls failed or timed  *)
(* out on either transfer: the firmware download relies on it.             *)
THEOREM DownloadCanTrustSync == Spec => []AttachSyncIsSafe
  <1>1. IInv => AttachSyncIsSafe
    BY DEF IInv, AttachInv, PendingIsCallers, AttachSyncIsSafe
  <1> QED BY <1>1, Invariance, PTL
=============================================================================
