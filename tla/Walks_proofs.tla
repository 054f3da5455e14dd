---------------------------- MODULE Walks_proofs ----------------------------
(***************************************************************************)
(* The three loops over data from outside: packets of a bulk-IN transfer,  *)
(* entries of a PHY table and records of the eFuse, for inputs of any      *)
(* length.  Each loop is a recursive function of the number of turns; that *)
(* it exists, and what every turn keeps, follows by induction over sets of *)
(* numbers (SetInduction, from a least counterexample).                    *)
(***************************************************************************)
EXTENDS RxPath, Efuse, PhyTable, WellFoundedInduction, FiniteSetTheorems,
        SequenceTheorems, TLAPS

(* Induction: a set that has 0 and every successor has every number.       *)
LEMMA SetInduction ==
    ASSUME NEW T, 0 \in T, \A n \in Nat : n \in T => n + 1 \in T
    PROVE  Nat \subseteq T
  <1> DEFINE R == {ss \in Nat \X Nat : ss[1] < ss[2]}
             U == Nat \ T
  <1>1. IsWellFoundedOn(R, Nat)
    BY NatLessThanWellFounded, Zenon DEF OpToRel
  <1> SUFFICES ASSUME U # {} PROVE FALSE
    OBVIOUS
  <1>2. \E x \in U : \A y \in U : ~ (<<y, x>> \in R)
    <2> HIDE DEF R, U
    <2>1. U \subseteq Nat
      BY DEF U
    <2> QED BY <1>1, <2>1, WFMin
  <1>3. PICK x \in U : \A y \in U : ~(<<y, x>> \in R)
    BY <1>2
  <1>4. x \in Nat /\ x # 0 /\ x - 1 \in Nat
    BY <1>3
  <1>5. <<x - 1, x>> \in R
    BY <1>4
  <1>6. x - 1 \in T
    BY <1>3, <1>4, <1>5
  <1>7. x - 1 + 1 \in T
    BY <1>4, <1>6
  <1> QED BY <1>3, <1>4, <1>7

(* The same up to a bound: what holds before the first turn of a loop and  *)
(* is kept by each turn holds after every turn.                            *)
LEMMA TurnInduction ==
    ASSUME NEW N \in Nat, NEW T, 0 \in T,
           \A n \in 1 .. N : n - 1 \in T => n \in T
    PROVE  0 .. N \subseteq T
  <1> DEFINE U == {n \in Nat : n <= N => n \in T}
  <1>1. 0 \in U
    OBVIOUS
  <1>2. \A n \in Nat : n \in U => n + 1 \in U
    <2> TAKE n \in Nat
    <2>1. n + 1 <= N => n + 1 \in 1 .. N /\ n + 1 - 1 = n /\ n <= N
      OBVIOUS
    <2> QED BY <2>1
  <1>3. Nat \subseteq U
    <2> HIDE DEF U
    <2> QED BY <1>1, <1>2, SetInduction
  <1> QED BY <1>3

(* A loop of N turns over states in S, and its states after each turn.     *)
Turning(S, N, step) == step \in [1 .. N -> [S -> S]]
Run(S, N, s0, step, w) ==
    /\ w \in [0 .. N -> S]
    /\ \A n \in 0 .. N : w[n] = IF n = 0 THEN s0 ELSE step[n][w[n-1]]

(* A loop of N turns over states in S has a function from the number of    *)
(* turns done to the state: a definition by recursion means something.     *)
LEMMA Recursion ==
    ASSUME NEW S, NEW N \in Nat, NEW s0 \in S, NEW step, Turning(S, N, step)
    PROVE  \E w : Run(S, N, s0, step, w)
  <1> USE DEF Turning
  <1> DEFINE G(M, w) == \A n \in 0 .. M : w[n] = IF n = 0 THEN s0 ELSE step[n][w[n-1]]
             T == {M \in 0 .. N : \E w \in [0 .. M -> S] : G(M, w)}
  <1>1. 0 \in T
    <2>1. [n \in 0 .. 0 |-> s0] \in [0 .. 0 -> S] /\ G(0, [n \in 0 .. 0 |-> s0])
      OBVIOUS
    <2> HIDE DEF G
    <2> QED BY <2>1
  <1>2. ASSUME NEW M \in 1 .. N, M - 1 \in T PROVE M \in T
    <2>1. PICK w \in [0 .. M - 1 -> S] : G(M - 1, w)
      BY <1>2
    <2> DEFINE v == [n \in 0 .. M |-> IF n = M THEN step[M][w[M-1]] ELSE w[n]]
    <2>2. v \in [0 .. M -> S]
      <3>1. w[M-1] \in S /\ step[M] \in [S -> S]
        OBVIOUS
      <3>2. step[M][w[M-1]] \in S
        BY <3>1
      <3>3. \A n \in 0 .. M : n # M => n \in 0 .. M - 1
        OBVIOUS
      <3> QED BY <3>2, <3>3
    <2>3. ASSUME NEW n \in 0 .. M
          PROVE  v[n] = IF n = 0 THEN s0 ELSE step[n][v[n-1]]
      <3>1. CASE n = M
        <4>1. v[n] = step[n][w[n-1]] /\ v[n-1] = w[n-1] /\ n # 0
          BY <3>1
        <4> QED BY <4>1
      <3>2. CASE n # M
        <4>1. n \in 0 .. M - 1 /\ v[n] = w[n]
          BY <3>2
        <4>2. n # 0 => v[n-1] = w[n-1]
          BY <4>1
        <4>3. w[n] = IF n = 0 THEN s0 ELSE step[n][w[n-1]]
          BY <4>1, <2>1
        <4> QED BY <4>1, <4>2, <4>3
      <3> QED BY <3>1, <3>2
    <2>4. G(M, v)
      BY <2>3
    <2> HIDE DEF v, G
    <2> QED BY <2>2, <2>4
  <1>3. N \in T
    <2> HIDE DEF T
    <2>1. 0 .. N \subseteq T
      BY <1>1, <1>2, TurnInduction
    <2> QED BY <2>1
  <1> HIDE DEF G
  <1>4. PICK w \in [0 .. N -> S] : G(N, w)
    BY <1>3
  <1> QED BY <1>4 DEF G, Run

-----------------------------------------------------------------------------
(* The aggregate walk                                                      *)

RxPacket == [consumed : Nat, is : {"stop", "c2h", "frame", "drop"},
             from : Nat, len : Nat]
RxState == [off : Nat, stop : BOOLEAN, out : Seq(RxPacket)]
RxStart == [off |-> 0, stop |-> FALSE, out |-> <<>>]

(* Rounding up to a multiple of ALIGN adds bytes and never takes any.      *)
LEMMA UpGrows ==
    ASSUME NEW n \in Nat
    PROVE  Up(n) \in Nat /\ Up(n) >= n
  <1> DEFINE m == n + ALIGN - 1
             q == m \div ALIGN
  <1>1. ALIGN \in Nat /\ ALIGN > 0 /\ m \in Nat
    BY RxAssumption
  <1>2. q \in Nat /\ m < (q + 1) * ALIGN
    BY <1>1
  <1>3. (q + 1) * ALIGN = q * ALIGN + ALIGN /\ q * ALIGN \in Nat
    BY <1>1, <1>2
  <1>4. Up(n) = q * ALIGN
    BY DEF Up
  <1> QED BY <1>1, <1>2, <1>3, <1>4

(* What rtw88_rx_one consumes and hands on for a packet at `off'.          *)
LEMMA RxOneFacts ==
    ASSUME NEW d \in RxDescs, NEW actlen \in Nat, NEW off \in Nat,
           NEW r, r = rx_one(d, actlen, off)
    PROVE  /\ r \in RxPacket /\ Size(d) \in Nat \ {0}
           /\ Size(d) > actlen - off => r.consumed = 0
           /\ Size(d) <= actlen - off =>
                 /\ r.consumed = Up(Size(d)) /\ r.consumed # 0
                 /\ r.from >= off + DESC
                 /\ r.from + r.len <= off + Size(d)
  <1>1. /\ d.drv_info_sz \in Nat /\ d.shift \in Nat /\ d.pkt_len \in Nat
        /\ DESC \in Nat \ {0} /\ FCS \in Nat /\ ALIGN \in Nat \ {0}
    BY RxAssumption
  <1> DEFINE at == DESC + d.drv_info_sz + d.shift
             up == /\ ~d.is_c2h /\ ~d.crc_err
                   /\ d.pkt_len > FCS /\ d.pkt_len - FCS <= MCLBYTES
             len == IF up THEN d.pkt_len - FCS ELSE d.pkt_len
             is == IF d.is_c2h THEN "c2h" ELSE IF up THEN "frame" ELSE "drop"
  <1>2. /\ at \in Nat /\ at >= DESC /\ Size(d) = at + d.pkt_len
        /\ Size(d) \in Nat \ {0} /\ Size(d) >= DESC
    BY <1>1 DEF Size
  <1>3. len \in Nat /\ len <= d.pkt_len /\ is \in {"stop", "c2h", "frame", "drop"}
    BY <1>1
  <1>4. Up(Size(d)) \in Nat /\ Up(Size(d)) # 0
    BY <1>2, UpGrows
  <1>5. r = IF Size(d) > actlen - off
            THEN [consumed |-> 0, is |-> "stop", from |-> 0, len |-> 0]
            ELSE [consumed |-> Up(Size(d)), from |-> off + at, is |-> is, len |-> len]
    <2>1. (actlen - off < DESC \/ Size(d) > actlen - off) <=> Size(d) > actlen - off
      BY <1>1, <1>2
    <2> QED BY <2>1 DEF rx_one, Size
  <1> HIDE DEF at, len, is
  <1>6. CASE Size(d) > actlen - off
    BY <1>2, <1>5, <1>6 DEF RxPacket
  <1>7. CASE ~(Size(d) > actlen - off)
    <2>1. r = [consumed |-> Up(Size(d)), from |-> off + at, is |-> is, len |-> len]
      BY <1>5, <1>7
    <2>2. off + at \in Nat
      BY <1>2
    <2>3. r \in RxPacket
      BY <1>3, <1>4, <2>1, <2>2 DEF RxPacket
    <2>4. r.consumed = Up(Size(d)) /\ r.from = off + at /\ r.len = len
      BY <2>1
    <2> QED BY <1>1, <1>2, <1>3, <1>4, <1>7, <2>3, <2>4
  <1> QED BY <1>6, <1>7

(* A turn of the loop keeps the types of its state.                        *)
LEMMA RxTurnType ==
    ASSUME NEW w \in RxState, NEW d \in RxDescs, NEW actlen \in Nat
    PROVE  RxTurn(w, d, actlen) \in RxState
  <1> DEFINE r == rx_one(d, actlen, w.off)
  <1>1. w.off \in Nat /\ w.stop \in BOOLEAN /\ w.out \in Seq(RxPacket)
    BY DEF RxState
  <1>2. r \in RxPacket /\ r.consumed \in Nat
    BY <1>1, RxOneFacts DEF RxPacket
  <1> HIDE DEF r
  <1>3. [w EXCEPT !.stop = TRUE] \in RxState
    BY <1>1 DEF RxState
  <1>4. [w EXCEPT !.off = @ + r.consumed, !.out = Append(@, r)] \in RxState
    <2>1. w.off + r.consumed \in Nat /\ Append(w.out, r) \in Seq(RxPacket)
      BY <1>1, <1>2
    <2> QED BY <1>1, <2>1 DEF RxState
  <1> QED BY <1>3, <1>4 DEF RxTurn, r

(* The loop of rtw88_bulk_rx_cb, turn by turn.                             *)
LEMMA RxWalkDef ==
    ASSUME NEW ds \in Seq(RxDescs), NEW actlen \in Nat
    PROVE  /\ RxWalk(ds, actlen)[0] = RxStart
           /\ \A n \in 0 .. Len(ds) : RxWalk(ds, actlen)[n] \in RxState
           /\ \A n \in 1 .. Len(ds) :
                 RxWalk(ds, actlen)[n] = RxTurn(RxWalk(ds, actlen)[n-1], ds[n], actlen)
  <1> DEFINE N == Len(ds)
             W == RxWalk(ds, actlen)
             G(w) == w = [n \in 0 .. N |-> IF n = 0 THEN RxStart
                                           ELSE RxTurn(w[n-1], ds[n], actlen)]
             step == [n \in 1 .. N |-> [x \in RxState |-> RxTurn(x, ds[n], actlen)]]
  <1>1. N \in Nat /\ RxStart \in RxState /\ \A n \in 1 .. N : ds[n] \in RxDescs
    BY DEF RxStart, RxState
  <1>2. Turning(RxState, N, step)
    BY <1>1, RxTurnType DEF Turning
  <1>3. PICK w : Run(RxState, N, RxStart, step, w)
    <2> HIDE DEF step, N
    <2> QED BY <1>1, <1>2, Recursion
  <1>4. G(w)
    <2>1. \A n \in 0 .. N : n # 0 => n \in 1 .. N /\ w[n-1] \in RxState
      BY <1>1, <1>3 DEF Run
    <2>2. \A n \in 0 .. N : w[n] = IF n = 0 THEN RxStart
                                   ELSE RxTurn(w[n-1], ds[n], actlen)
      BY <1>3, <2>1 DEF Run
    <2> QED BY <1>3, <2>2 DEF Run
  <1>5. W = CHOOSE x : G(x)
    BY DEF RxWalk, RxStart
  <1>6. G(W)
    <2> HIDE DEF G, W
    <2> QED BY <1>4, <1>5
  <1> HIDE DEF W, N
  <1>7. W[0] = RxStart /\ \A n \in 1 .. N : W[n] = RxTurn(W[n-1], ds[n], actlen)
    BY <1>1, <1>6
  <1> DEFINE T == {n \in 0 .. N : W[n] \in RxState}
  <1>8. 0 \in T
    BY <1>1, <1>7
  <1>9. ASSUME NEW n \in 1 .. N, n - 1 \in T PROVE n \in T
    <2>1. W[n-1] \in RxState /\ W[n] = RxTurn(W[n-1], ds[n], actlen) /\ ds[n] \in RxDescs
      BY <1>1, <1>7, <1>9
    <2>2. W[n] \in RxState
      BY <2>1, RxTurnType
    <2> QED BY <1>1, <2>2
  <1>10. 0 .. N \subseteq T
    <2> HIDE DEF T
    <2> QED BY <1>1, <1>8, <1>9, TurnInduction
  <1> QED BY <1>7, <1>10 DEF N, W

(* Where the packets of an aggregate end, one after the other.             *)
LEMMA AfterDef ==
    ASSUME NEW ds \in Seq(RxDescs)
    PROVE  /\ After(ds)[0] = 0
           /\ \A n \in 0 .. Len(ds) : After(ds)[n] \in Nat
           /\ \A n \in 1 .. Len(ds) :
                 /\ Size(ds[n]) \in Nat \ {0}
                 /\ After(ds)[n] = After(ds)[n-1] + Up(Size(ds[n]))
  <1> DEFINE N == Len(ds)
             W == After(ds)
             G(w) == w = [n \in 0 .. N |-> IF n = 0 THEN 0
                                           ELSE w[n-1] + Up(Size(ds[n]))]
             step == [n \in 1 .. N |-> [x \in Nat |-> x + Up(Size(ds[n]))]]
  <1>1. N \in Nat /\ \A n \in 1 .. N : ds[n] \in RxDescs
    OBVIOUS
  <1>2. \A n \in 1 .. N : Size(ds[n]) \in Nat \ {0} /\ Up(Size(ds[n])) \in Nat
    <2>1. \A d \in RxDescs : Size(d) \in Nat \ {0}
      BY RxAssumption DEF Size
    <2> QED BY <1>1, <2>1, UpGrows
  <1>3. Turning(Nat, N, step)
    BY <1>2 DEF Turning
  <1>4. PICK w : Run(Nat, N, 0, step, w)
    <2> HIDE DEF step, N
    <2> QED BY <1>1, <1>3, Recursion
  <1>5. G(w)
    <2>1. \A n \in 0 .. N : n # 0 => n \in 1 .. N /\ w[n-1] \in Nat
      BY <1>1, <1>4 DEF Run
    <2>2. \A n \in 0 .. N : w[n] = IF n = 0 THEN 0 ELSE w[n-1] + Up(Size(ds[n]))
      BY <1>4, <2>1 DEF Run
    <2> QED BY <1>4, <2>2 DEF Run
  <1>6. W = CHOOSE x : G(x)
    BY DEF After
  <1>7. G(W)
    <2> HIDE DEF G, W
    <2> QED BY <1>5, <1>6
  <1> HIDE DEF W, N
  <1>8. W[0] = 0 /\ \A n \in 1 .. N : W[n] = W[n-1] + Up(Size(ds[n]))
    BY <1>1, <1>7
  <1> DEFINE T == {n \in 0 .. N : W[n] \in Nat}
  <1>9. 0 \in T
    BY <1>1, <1>8
  <1>10. \A n \in 1 .. N : n - 1 \in T => n \in T
    BY <1>1, <1>2, <1>8
  <1>11. 0 .. N \subseteq T
    <2> HIDE DEF T
    <2> QED BY <1>1, <1>9, <1>10, TurnInduction
  <1> QED BY <1>2, <1>8, <1>11 DEF N, W

(* After n turns: the packets found are the first ones of the aggregate,   *)
(* each inside its own bytes; the walk has stopped only at one that does   *)
(* not fit.                                                                *)
RxInv(ds, actlen, n, w) ==
    /\ Len(w.out) <= n
    /\ ~w.stop => Len(w.out) = n
    /\ w.stop => Len(w.out) < n /\ Ends(ds, Len(w.out) + 1) > actlen
    /\ w.off = After(ds)[Len(w.out)]
    /\ \A k \in 1 .. Len(w.out) :
          /\ Ends(ds, k) <= actlen
          /\ w.out[k].from >= After(ds)[k-1] + DESC
          /\ w.out[k].from + w.out[k].len <= Ends(ds, k)

(* One turn of rtw88_bulk_rx_cb's loop keeps it.                           *)
LEMMA RxTurnKeeps ==
    ASSUME NEW ds \in Seq(RxDescs), NEW actlen \in Nat, NEW n \in 1 .. Len(ds),
           NEW w \in RxState, RxInv(ds, actlen, n - 1, w)
    PROVE  RxInv(ds, actlen, n, RxTurn(w, ds[n], actlen))
  <1> DEFINE r == rx_one(ds[n], actlen, w.off)
             m == Len(w.out)
             v == RxTurn(w, ds[n], actlen)
  <1>1. /\ w.off \in Nat /\ w.stop \in BOOLEAN /\ w.out \in Seq(RxPacket)
        /\ m \in Nat /\ ds[n] \in RxDescs /\ n \in Nat
    BY DEF RxState
  <1>2. CASE w.stop
    <2>1. v = [w EXCEPT !.stop = TRUE]
      BY <1>2 DEF RxTurn
    <2>2. v.stop /\ v.out = w.out /\ v.off = w.off
      BY <2>1 DEF RxState
    <2> HIDE DEF v, m
    <2>3. Len(w.out) < n /\ Len(w.out) <= n /\ Ends(ds, Len(w.out) + 1) > actlen
      BY <1>1, <1>2 DEF RxInv, m
    <2>4. /\ w.off = After(ds)[Len(w.out)]
          /\ \A k \in 1 .. Len(w.out) :
                /\ Ends(ds, k) <= actlen
                /\ w.out[k].from >= After(ds)[k-1] + DESC
                /\ w.out[k].from + w.out[k].len <= Ends(ds, k)
      BY DEF RxInv
    <2> QED BY <2>2, <2>3, <2>4 DEF RxInv, v
  <1>3. CASE ~w.stop
    <2>1. m = n - 1 /\ w.off = After(ds)[n-1] /\ m + 1 = n /\ Len(w.out) = n - 1
      BY <1>1, <1>3 DEF RxInv
    <2>2. /\ Size(ds[n]) \in Nat \ {0} /\ Ends(ds, n) = w.off + Size(ds[n])
          /\ After(ds)[n] = w.off + Up(Size(ds[n]))
      BY <2>1, AfterDef DEF Ends
    <2>3. /\ r \in RxPacket
          /\ Size(ds[n]) > actlen - w.off => r.consumed = 0
          /\ Size(ds[n]) <= actlen - w.off =>
                /\ r.consumed = Up(Size(ds[n])) /\ r.consumed # 0
                /\ r.from >= w.off + DESC
                /\ r.from + r.len <= w.off + Size(ds[n])
      BY <1>1, RxOneFacts
    <2>4. \A k \in 1 .. n - 1 :
                /\ Ends(ds, k) <= actlen
                /\ w.out[k].from >= After(ds)[k-1] + DESC
                /\ w.out[k].from + w.out[k].len <= Ends(ds, k)
      BY <2>1 DEF RxInv
    <2> HIDE DEF r, m
    <2>5. CASE w.off >= actlen \/ r.consumed = 0
      <3>1. v = [w EXCEPT !.stop = TRUE]
        BY <2>5 DEF RxTurn, r
      <3>2. v.stop /\ v.out = w.out /\ v.off = w.off
        BY <3>1 DEF RxState
      <3>3. Ends(ds, n) > actlen
        BY <1>1, <2>2, <2>3, <2>5
      <3> HIDE DEF v
      <3>4. Len(v.out) = n - 1 /\ n - 1 < n /\ n - 1 <= n /\ n - 1 + 1 = n
        BY <1>1, <2>1, <3>2
      <3> QED BY <2>1, <2>4, <3>2, <3>3, <3>4 DEF RxInv, v
    <2>6. CASE ~(w.off >= actlen \/ r.consumed = 0)
      <3>1. v = [w EXCEPT !.off = @ + r.consumed, !.out = Append(@, r)]
        BY <1>3, <2>6 DEF RxTurn, r
      <3>2. v.stop = w.stop /\ v.out = Append(w.out, r) /\ v.off = w.off + r.consumed
        BY <3>1 DEF RxState
      <3>3. Size(ds[n]) <= actlen - w.off
        BY <1>1, <2>2, <2>3, <2>6
      <3>4. /\ Ends(ds, n) <= actlen /\ v.off = After(ds)[n]
            /\ r.from >= After(ds)[n-1] + DESC /\ r.from + r.len <= Ends(ds, n)
        BY <1>1, <2>1, <2>2, <2>3, <3>2, <3>3
      <3>5. Len(v.out) = n /\ v.out[n] = r /\ \A k \in 1 .. n - 1 : v.out[k] = w.out[k]
        BY <1>1, <2>1, <2>3, <3>2
      <3> HIDE DEF v
      <3>6. ASSUME NEW k \in 1 .. n
            PROVE  /\ Ends(ds, k) <= actlen
                   /\ v.out[k].from >= After(ds)[k-1] + DESC
                   /\ v.out[k].from + v.out[k].len <= Ends(ds, k)
        <4>1. CASE k = n
          BY <3>4, <3>5, <4>1
        <4>2. CASE k \in 1 .. n - 1
          BY <2>4, <3>5, <4>2
        <4> QED BY <1>1, <4>1, <4>2
      <3>7. ~v.stop /\ n <= n
        BY <1>1, <1>3, <3>2
      <3> QED BY <3>4, <3>5, <3>6, <3>7 DEF RxInv, v
    <2> QED BY <2>5, <2>6
  <1> QED BY <1>1, <1>2, <1>3

(* For every aggregate, of any number of packets and whatever lengths      *)
(* their descriptors claim, and every transfer length, the loop of         *)
(* rtw88_bulk_rx_cb hands on exactly the packets that fit, inside the      *)
(* transfer and apart from each other.                                     *)
THEOREM AggregateWalk ==
    \A ds \in Seq(RxDescs), actlen \in Nat : AggregateRight(ds, actlen)
  <1> SUFFICES ASSUME NEW ds \in Seq(RxDescs), NEW actlen \in Nat
               PROVE  AggregateRight(ds, actlen)
    OBVIOUS
  <1> DEFINE N == Len(ds)
             W == RxWalk(ds, actlen)
             T == {n \in 0 .. N : RxInv(ds, actlen, n, W[n])}
             ps == W[N].out
             m == Len(ps)
  <1>1. N \in Nat /\ DOMAIN ds = 1 .. N
    OBVIOUS
  <1>2. /\ W[0] = RxStart /\ \A n \in 0 .. N : W[n] \in RxState
        /\ \A n \in 1 .. N : W[n] = RxTurn(W[n-1], ds[n], actlen)
    BY RxWalkDef
  <1>3. 0 \in T
    <2>1. RxInv(ds, actlen, 0, RxStart)
      BY AfterDef DEF RxInv, RxStart
    <2> QED BY <1>1, <1>2, <2>1
  <1>4. ASSUME NEW n \in 1 .. N, n - 1 \in T PROVE n \in T
    <2>1. RxInv(ds, actlen, n - 1, W[n-1]) /\ W[n-1] \in RxState /\ n \in 0 .. N
      BY <1>1, <1>2, <1>4
    <2> HIDE DEF W
    <2>2. RxInv(ds, actlen, n, RxTurn(W[n-1], ds[n], actlen))
      BY <2>1, RxTurnKeeps
    <2> QED BY <1>2, <2>1, <2>2
  <1>5. RxInv(ds, actlen, N, W[N]) /\ W[N] \in RxState
    <2>1. 0 .. N \subseteq T
      <3> HIDE DEF T, N
      <3> QED BY <1>1, <1>3, <1>4, TurnInduction
    <2> QED BY <1>1, <1>2, <2>1
  <1>6. ps \in Seq(RxPacket) /\ m \in Nat /\ DOMAIN ps = 1 .. m /\ m <= N
    BY <1>5 DEF RxInv, RxState
  <1>7. \A k \in 1 .. m : /\ Ends(ds, k) <= actlen
                          /\ ps[k].from >= After(ds)[k-1] + DESC
                          /\ ps[k].from + ps[k].len <= Ends(ds, k)
    BY <1>5 DEF RxInv
  <1>8. m < N => Ends(ds, m + 1) > actlen
    BY <1>1, <1>5, <1>6 DEF RxInv, RxState
  <1> HIDE DEF ps, m, N, W
  <1>9. \A k \in 1 .. m : ps[k].from \in Nat /\ ps[k].len \in Nat /\ Ends(ds, k) \in Nat
    <2>1. \A k \in 1 .. m : ps[k] \in RxPacket
      BY <1>6
    <2>2. \A k \in 1 .. m : Ends(ds, k) \in Nat
      <3> TAKE k \in 1 .. m
      <3>1. k \in 1 .. N /\ k - 1 \in 0 .. N
        BY <1>1, <1>6
      <3>2. After(ds)[k-1] \in Nat /\ Size(ds[k]) \in Nat
        BY <3>1, AfterDef DEF N
      <3> QED BY <3>2 DEF Ends
    <2> QED BY <2>1, <2>2 DEF RxPacket
  <1>10. ASSUME NEW n \in 1 .. m
         PROVE  /\ ps[n].from + ps[n].len <= actlen
                /\ n > 1 => ps[n].from >= ps[n-1].from + ps[n-1].len + DESC
    <2>1. ps[n].from + ps[n].len <= actlen
      BY <1>7, <1>9
    <2>2. ASSUME n > 1 PROVE ps[n].from >= ps[n-1].from + ps[n-1].len + DESC
      <3>1. n - 1 \in 1 .. m /\ n - 1 \in 1 .. N /\ n - 1 - 1 \in 0 .. N /\ n - 1 \in 0 .. N
        BY <1>1, <1>6, <2>2
      <3>2. /\ Size(ds[n-1]) \in Nat /\ After(ds)[n-1-1] \in Nat
            /\ After(ds)[n-1] = After(ds)[n-1-1] + Up(Size(ds[n-1]))
        BY <3>1, AfterDef DEF N
      <3>3. Up(Size(ds[n-1])) \in Nat /\ Up(Size(ds[n-1])) >= Size(ds[n-1])
        BY <3>2, UpGrows
      <3>4. Ends(ds, n - 1) <= After(ds)[n-1] /\ After(ds)[n-1] \in Nat
        BY <3>2, <3>3 DEF Ends
      <3>5. ps[n-1].from + ps[n-1].len <= Ends(ds, n - 1)
        BY <1>7, <3>1
      <3>6. ps[n].from >= After(ds)[n-1] + DESC
        BY <1>7
      <3>7. DESC \in Nat
        BY RxAssumption
      <3>8. PICK f \in Nat, g \in Nat, l \in Nat, e \in Nat, b \in Nat :
              /\ f = ps[n].from /\ g = ps[n-1].from /\ l = ps[n-1].len
              /\ e = Ends(ds, n - 1) /\ b = After(ds)[n-1]
        BY <1>9, <3>1, <3>4
      <3>9. f >= b + DESC /\ g + l <= e /\ e <= b
        BY <3>4, <3>5, <3>6, <3>8
      <3>10. f >= g + l + DESC
        BY <3>7, <3>9
      <3> QED BY <3>8, <3>10
    <2> QED BY <2>1, <2>2
  <1>11. {n \in 1 .. N : \A k \in 1 .. n : Ends(ds, k) <= actlen} = 1 .. m
    <2>1. ASSUME NEW n \in 1 .. m
          PROVE  n \in 1 .. N /\ \A k \in 1 .. n : Ends(ds, k) <= actlen
      BY <1>1, <1>6, <1>7
    <2>2. ASSUME NEW n \in 1 .. N, \A k \in 1 .. n : Ends(ds, k) <= actlen
          PROVE  n \in 1 .. m
      <3> SUFFICES ASSUME n > m PROVE FALSE
        BY <1>1, <1>6
      <3>1. m < N /\ m + 1 \in 1 .. n
        BY <1>1, <1>6
      <3>2. Ends(ds, m + 1) > actlen /\ Ends(ds, m + 1) <= actlen
        BY <1>8, <2>2, <3>1
      <3>3. m + 1 \in 1 .. N /\ m \in 0 .. N /\ m + 1 - 1 = m
        BY <1>1, <1>6, <3>1
      <3>4. Ends(ds, m + 1) \in Nat
        BY <3>3, AfterDef DEF Ends, N
      <3> QED BY <3>2, <3>4
    <2> QED BY <2>1, <2>2
  <1>12. m = Cardinality(1 .. m)
    BY <1>6, FS_Interval
  <1> QED
    <2>1. Packets(ds, actlen) = ps
      BY DEF Packets, ps, W, N
    <2> QED BY <1>1, <1>6, <1>10, <1>11, <1>12, <2>1 DEF AggregateRight, m

(* The property the runs check over bounded inputs: whatever lengths the   *)
(* descriptors claim, the loop of rtw88_bulk_rx_cb stays in the transfer   *)
(* and finds what is there.                                                *)
THEOREM AggregateWalkHolds == AggregateWalkRight
  <1>1. ASSUME NEW ds \in Aggregates PROVE ds \in Seq(RxDescs)
    <2>1. PICK n \in 0 .. 3 : ds \in [1 .. n -> RxDescs]
      BY DEF Aggregates
    <2>2. n \in Nat
      OBVIOUS
    <2> QED BY <2>1, <2>2
  <1>2. 0 .. MaxActlen \subseteq Nat
    OBVIOUS
  <1> QED BY <1>1, <1>2, AggregateWalk DEF AggregateWalkRight

-----------------------------------------------------------------------------
(* The table walk                                                          *)

Conds == TableConds \cup {<<>>}
Kinds == {"IF", "ELIF", "ELSE", "ENDIF", "NEG", "plain"}
Entries == [is : Kinds, cond : Conds, addr : Nat]
WalkState == [cond : Conds, matched : BOOLEAN, skipped : BOOLEAN, applied : Seq(Nat)]

(* An entry keeps the types of rtw88_phy_walk_table's state.               *)
LEMMA Walk1Type ==
    ASSUME NEW w \in WalkState, NEW e \in Entries
    PROVE  Walk1(w, e) \in WalkState
  <1>1. /\ w.cond \in Conds /\ w.matched \in BOOLEAN /\ w.skipped \in BOOLEAN
        /\ w.applied \in Seq(Nat)
    BY DEF WalkState
  <1>2. e.is \in Kinds /\ e.cond \in Conds /\ e.addr \in Nat
    BY DEF Entries
  <1>3. CASE e.is = "ENDIF"
    <2>1. Walk1(w, e) = [w EXCEPT !.matched = TRUE, !.skipped = FALSE]
      BY <1>3 DEF Walk1
    <2> QED BY <1>1, <2>1 DEF WalkState
  <1>4. CASE e.is = "ELSE"
    <2>1. Walk1(w, e) = [w EXCEPT !.matched = ~w.skipped]
      BY <1>4 DEF Walk1
    <2>2. (~w.skipped) \in BOOLEAN
      BY Zenon
    <2> DEFINE x == ~w.skipped
    <2> HIDE DEF x
    <2> QED BY <1>1, <2>1, <2>2 DEF WalkState, x
  <1>5. CASE e.is \in {"IF", "ELIF"}
    <2>1. Walk1(w, e) = [w EXCEPT !.cond = e.cond]
      BY <1>5 DEF Walk1
    <2> QED BY <1>1, <1>2, <2>1 DEF WalkState
  <1>6. CASE e.is = "NEG"
    <2> DEFINE ok == phy_cond_check(w.cond)
    <2>1. Walk1(w, e) = IF w.skipped THEN [w EXCEPT !.matched = FALSE]
                        ELSE [w EXCEPT !.matched = ok, !.skipped = ok]
      BY <1>6 DEF Walk1
    <2>2. ok = TRUE \/ ok = FALSE
      BY Zenon DEF phy_cond_check
    <2> HIDE DEF ok
    <2> QED BY <1>1, <2>1, <2>2 DEF WalkState
  <1>7. CASE e.is = "plain"
    <2>1. Walk1(w, e) = IF w.matched THEN [w EXCEPT !.applied = Append(@, e.addr)] ELSE w
      BY <1>7 DEF Walk1
    <2>2. Append(w.applied, e.addr) \in Seq(Nat)
      BY <1>1, <1>2
    <2> QED BY <1>1, <2>1, <2>2 DEF WalkState
  <1> QED BY <1>2, <1>3, <1>4, <1>5, <1>6, <1>7 DEF Kinds

PhyRun(w, es, f) ==
    /\ f[0] = w /\ phy_walk(w, es) = f[Len(es)]
    /\ \A n \in 0 .. Len(es) : f[n] \in WalkState
    /\ \A n \in 1 .. Len(es) : f[n] = Walk1(f[n-1], es[n])

(* The loop of rtw88_phy_walk_table, entry by entry.                       *)
LEMMA PhyWalkDef ==
    ASSUME NEW w \in WalkState, NEW es \in Seq(Entries)
    PROVE  \E f : PhyRun(w, es, f)
  <1> DEFINE N == Len(es)
             G(f) == f = [n \in 0 .. N |-> IF n = 0 THEN w ELSE Walk1(f[n-1], es[n])]
             F == CHOOSE f : G(f)
             step == [n \in 1 .. N |-> [x \in WalkState |-> Walk1(x, es[n])]]
  <1>1. N \in Nat /\ \A n \in 1 .. N : es[n] \in Entries
    OBVIOUS
  <1>2. Turning(WalkState, N, step)
    BY <1>1, Walk1Type DEF Turning
  <1>3. PICK f : Run(WalkState, N, w, step, f)
    <2> HIDE DEF step, N
    <2> QED BY <1>1, <1>2, Recursion
  <1>4. G(f)
    <2>1. \A n \in 0 .. N : n # 0 => n \in 1 .. N /\ f[n-1] \in WalkState
      BY <1>1, <1>3 DEF Run
    <2>2. \A n \in 0 .. N : f[n] = IF n = 0 THEN w ELSE Walk1(f[n-1], es[n])
      BY <1>3, <2>1 DEF Run
    <2> QED BY <1>3, <2>2 DEF Run
  <1>5. phy_walk(w, es) = F[N]
    BY DEF phy_walk
  <1>6. G(F)
    <2> HIDE DEF G
    <2> QED BY <1>4
  <1> HIDE DEF F, N
  <1>7. F[0] = w /\ \A n \in 1 .. N : F[n] = Walk1(F[n-1], es[n])
    BY <1>1, <1>6
  <1> DEFINE T == {n \in 0 .. N : F[n] \in WalkState}
  <1>8. 0 \in T
    BY <1>1, <1>7
  <1>9. ASSUME NEW n \in 1 .. N, n - 1 \in T PROVE n \in T
    <2>1. F[n-1] \in WalkState /\ F[n] = Walk1(F[n-1], es[n]) /\ es[n] \in Entries
      BY <1>1, <1>7, <1>9
    <2>2. F[n] \in WalkState
      BY <2>1, Walk1Type
    <2> QED BY <1>1, <2>2
  <1>10. 0 .. N \subseteq T
    <2> HIDE DEF T
    <2> QED BY <1>1, <1>8, <1>9, TurnInduction
  <1>11. \A n \in 0 .. N : F[n] \in WalkState
    BY <1>10
  <1>12. PhyRun(w, es, F)
    BY <1>5, <1>7, <1>11 DEF N, PhyRun
  <1> QED BY <1>12

(* The walk keeps its types, and over one entry it is that entry's step.   *)
LEMMA PhyWalkOne ==
    ASSUME NEW w \in WalkState
    PROVE  /\ \A es \in Seq(Entries) : phy_walk(w, es) \in WalkState
           /\ \A e \in Entries : phy_walk(w, <<e>>) = Walk1(w, e)
           /\ phy_walk(w, <<>>) = w
  <1>1. ASSUME NEW es \in Seq(Entries) PROVE phy_walk(w, es) \in WalkState
    <2>1. Len(es) \in 0 .. Len(es)
      OBVIOUS
    <2> QED BY <2>1, PhyWalkDef DEF PhyRun
  <1>2. ASSUME NEW e \in Entries PROVE phy_walk(w, <<e>>) = Walk1(w, e)
    <2>1. <<e>> \in Seq(Entries) /\ Len(<<e>>) = 1 /\ <<e>>[1] = e
      OBVIOUS
    <2>2. PICK f : PhyRun(w, <<e>>, f)
      BY <2>1, PhyWalkDef
    <2>3. f[1] = Walk1(f[1-1], <<e>>[1])
      BY <2>1, <2>2 DEF PhyRun
    <2> QED BY <2>1, <2>2, <2>3 DEF PhyRun
  <1>3. phy_walk(w, <<>>) = w
    <2>1. <<>> \in Seq(Entries) /\ Len(<<>>) = 0
      OBVIOUS
    <2>2. PICK f : PhyRun(w, <<>>, f)
      BY <2>1, PhyWalkDef
    <2> QED BY <2>1, <2>2 DEF PhyRun
  <1> QED BY <1>1, <1>2, <1>3

(* The walk of two runs of entries is the walk of the second from where    *)
(* the first one ends.                                                     *)
LEMMA PhyWalkCat ==
    ASSUME NEW w \in WalkState, NEW s \in Seq(Entries), NEW t \in Seq(Entries)
    PROVE  phy_walk(w, s \o t) = phy_walk(phy_walk(w, s), t)
  <1> DEFINE u == s \o t
             x == phy_walk(w, s)
             N == Len(s)
             M == Len(t)
  <1>1. /\ u \in Seq(Entries) /\ N \in Nat /\ M \in Nat /\ Len(u) = N + M
        /\ \A n \in 1 .. N : u[n] = s[n]
        /\ \A n \in 1 .. M : u[N + n] = t[n]
    <2>1. u \in Seq(Entries) /\ N \in Nat /\ M \in Nat /\ Len(u) = N + M
      OBVIOUS
    <2>2. \A n \in 1 .. N : u[n] = s[n]
      OBVIOUS
    <2>3. ASSUME NEW n \in 1 .. M PROVE u[N + n] = t[n]
      <3>1. N + n \in 1 .. N + M /\ ~(N + n <= N) /\ N + n - N = n
        BY <2>1
      <3> QED BY <2>1, <3>1, ConcatProperties
    <2> QED BY <2>1, <2>2, <2>3
  <1> HIDE DEF u, x
  <1>r. PICK a : PhyRun(w, u, a)
    BY <1>1, PhyWalkDef
  <1>s. PICK b : PhyRun(w, s, b)
    BY PhyWalkDef
  <1>x. x \in WalkState
    BY PhyWalkOne DEF x
  <1>t. PICK c : PhyRun(x, t, c)
    BY <1>x, PhyWalkDef
  <1>2. /\ a[0] = w /\ phy_walk(w, u) = a[N + M]
        /\ \A n \in 1 .. N + M : a[n] = Walk1(a[n-1], u[n])
    BY <1>1, <1>r DEF PhyRun
  <1>3. b[0] = w /\ x = b[N] /\ \A n \in 1 .. N : b[n] = Walk1(b[n-1], s[n])
    BY <1>s DEF PhyRun, x
  <1>4. c[0] = x /\ phy_walk(x, t) = c[M] /\ \A n \in 1 .. M : c[n] = Walk1(c[n-1], t[n])
    BY <1>t DEF PhyRun
  <1> HIDE DEF N, M
  <1>5. a[N] = b[N]
    <2> DEFINE T == {n \in 0 .. N : a[n] = b[n]}
    <2>1. 0 \in T
      BY <1>1, <1>2, <1>3
    <2>2. ASSUME NEW n \in 1 .. N, n - 1 \in T PROVE n \in T
      <3>1. n \in 1 .. N + M /\ n \in 0 .. N /\ a[n-1] = b[n-1]
        BY <1>1, <2>2
      <3>2. a[n] = Walk1(a[n-1], u[n]) /\ u[n] = s[n] /\ b[n] = Walk1(b[n-1], s[n])
        BY <1>1, <1>2, <1>3, <3>1
      <3>3. a[n] = b[n]
        BY <3>1, <3>2
      <3> QED BY <3>1, <3>3
    <2>3. 0 .. N \subseteq T
      <3> HIDE DEF T
      <3> QED BY <1>1, <2>1, <2>2, TurnInduction
    <2> QED BY <1>1, <2>3
  <1>6. a[N + M] = c[M]
    <2> DEFINE T == {n \in 0 .. M : a[N + n] = c[n]}
    <2>1. 0 \in T
      BY <1>1, <1>3, <1>4, <1>5
    <2>2. ASSUME NEW n \in 1 .. M, n - 1 \in T PROVE n \in T
      <3>1. PICK k \in 1 .. N + M : k = N + n
        BY <1>1
      <3>2. n \in 0 .. M /\ k - 1 = N + (n - 1)
        BY <1>1, <3>1
      <3>3. a[k-1] = c[n-1]
        BY <2>2, <3>2
      <3>4. a[k] = Walk1(a[k-1], u[k])
        BY <1>2
      <3>5. u[k] = t[n] /\ c[n] = Walk1(c[n-1], t[n])
        BY <1>1, <1>4, <3>1
      <3>6. a[k] = c[n]
        BY <3>3, <3>4, <3>5
      <3> QED BY <3>1, <3>2, <3>6
    <2>3. 0 .. M \subseteq T
      <3> HIDE DEF T
      <3> QED BY <1>1, <2>1, <2>2, TurnInduction
    <2> QED BY <1>1, <2>3
  <1> QED BY <1>2, <1>4, <1>6 DEF u, x

(* An element after two sequences is an element after the second one.      *)
LEMMA AppendCat ==
    ASSUME NEW p \in Seq(Nat), NEW q \in Seq(Nat), NEW e \in Nat
    PROVE  Append(p \o q, e) = p \o Append(q, e)
  <1> DEFINE S == Nat
  <1>1. p \in Seq(S) /\ q \in Seq(S) /\ e \in S /\ p \o q \in Seq(S) /\ <<e>> \in Seq(S)
    OBVIOUS
  <1> HIDE DEF S
  <1>2. Append(p \o q, e) = (p \o q) \o <<e>>
    BY <1>1, AppendIsConcat
  <1>3. Append(q, e) = q \o <<e>>
    BY <1>1, AppendIsConcat
  <1>4. (p \o q) \o <<e>> = p \o (q \o <<e>>)
    BY <1>1, ConcatAssociative
  <1> QED BY <1>2, <1>3, <1>4

(* Plain entries are all applied, or none of them.                         *)
LEMMA PlainWalk ==
    ASSUME NEW w \in WalkState, NEW body \in Seq(Nat)
    PROVE  /\ PlainRun(body) \in Seq(Entries)
           /\ ~w.matched => phy_walk(w, PlainRun(body)) = w
           /\ w.matched =>
                 phy_walk(w, PlainRun(body)) = [w EXCEPT !.applied = w.applied \o body]
  <1> DEFINE es == PlainRun(body)
             N == Len(body)
  <1>1. /\ N \in Nat /\ w.applied \in Seq(Nat) /\ DOMAIN body = 1 .. N
        /\ \A n \in 1 .. N : body[n] \in Nat
    BY DEF WalkState
  <1>2. \A a \in Nat : /\ Plain(a) \in Entries /\ Plain(a).is = "plain"
                       /\ Plain(a).addr = a
    BY DEF Plain, Entry, Entries, Kinds, Conds
  <1>3. /\ es \in Seq(Entries) /\ Len(es) = N
        /\ \A n \in 1 .. N : es[n].is = "plain" /\ es[n].addr = body[n]
    BY <1>1, <1>2 DEF PlainRun
  <1> HIDE DEF es
  <1>r. PICK f : PhyRun(w, es, f)
    BY <1>3, PhyWalkDef
  <1>4. /\ f[0] = w /\ phy_walk(w, es) = f[N]
        /\ \A n \in 0 .. N : f[n] \in WalkState
        /\ \A n \in 1 .. N : f[n] = Walk1(f[n-1], es[n])
    BY <1>3, <1>r DEF PhyRun
  <1> HIDE DEF N
  <1>5. \A n \in 1 .. N :
           f[n] = IF f[n-1].matched THEN [f[n-1] EXCEPT !.applied = Append(@, body[n])]
                  ELSE f[n-1]
    BY <1>3, <1>4 DEF Walk1
  <1>6. ASSUME ~w.matched PROVE f[N] = w
    <2> DEFINE T == {n \in 0 .. N : f[n] = w}
    <2>1. 0 \in T
      BY <1>1, <1>4
    <2>2. ASSUME NEW n \in 1 .. N, n - 1 \in T PROVE n \in T
      <3>1. f[n-1] = w /\ n \in 0 .. N
        BY <1>1, <2>2
      <3>2. f[n] = w
        BY <1>5, <1>6, <3>1
      <3> QED BY <3>1, <3>2
    <2>3. 0 .. N \subseteq T
      <3> HIDE DEF T
      <3> QED BY <1>1, <2>1, <2>2, TurnInduction
    <2> QED BY <1>1, <2>3
  <1>7. ASSUME w.matched PROVE f[N] = [w EXCEPT !.applied = w.applied \o body]
    <2> DEFINE to(n) == SubSeq(body, 1, n)
               T == {n \in 0 .. N : f[n] = [w EXCEPT !.applied = w.applied \o to(n)]}
    <2>1. 0 \in T
      <3>1. w.applied \o to(0) = w.applied
        BY <1>1
      <3>2. w = [w EXCEPT !.applied = w.applied]
        BY DEF WalkState
      <3> QED BY <1>1, <1>4, <3>1, <3>2, SMTT(30)
    <2>2. ASSUME NEW n \in 1 .. N, n - 1 \in T PROVE n \in T
      <3> DEFINE p == w.applied \o to(n-1)
      <3>1. f[n-1] = [w EXCEPT !.applied = p]
        BY <2>2
      <3>2. Append(p, body[n]) = w.applied \o to(n)
        <4>1. to(n-1) \in Seq(Nat) /\ Len(to(n-1)) = n - 1
          BY <1>1 DEF N
        <4>2. to(n) \in Seq(Nat) /\ Len(to(n)) = n
          BY <1>1 DEF N
        <4>3. to(n) = Append(to(n-1), body[n])
          BY <1>1 DEF N
        <4> HIDE DEF to
        <4>4. Append(w.applied \o to(n-1), body[n]) = w.applied \o Append(to(n-1), body[n])
          <5>1. body[n] \in Nat
            BY <1>1
          <5>2. PICK p0, q0 \in Seq(Nat) : p0 = w.applied /\ q0 = to(n-1)
            BY <1>1, <4>1
          <5>3. Append(p0 \o q0, body[n]) = p0 \o Append(q0, body[n])
            BY <5>1, AppendCat
          <5> QED BY <5>2, <5>3
        <4> QED BY <4>3, <4>4
      <3> HIDE DEF p, to
      <3>3. f[n-1].matched /\ f[n-1].applied = p
        BY <1>7, <3>1 DEF WalkState
      <3>4. f[n] = [f[n-1] EXCEPT !.applied = Append(@, body[n])]
        BY <1>5, <3>3
      <3>5. f[n] = [w EXCEPT !.applied = Append(p, body[n])]
        BY <3>1, <3>3, <3>4 DEF WalkState
      <3>6. n \in 0 .. N
        BY <1>1
      <3> QED BY <3>2, <3>5, <3>6
    <2>3. 0 .. N \subseteq T
      <3> HIDE DEF T
      <3> QED BY <1>1, <2>1, <2>2, TurnInduction
    <2>4. to(N) = body
      BY <1>1 DEF N
    <2>5. N \in T
      <3> HIDE DEF T
      <3> QED BY <1>1, <2>3
    <2> HIDE DEF to
    <2> QED BY <2>4, <2>5
  <1> QED BY <1>3, <1>4, <1>6, <1>7 DEF es

(* What a branch of a block leaves behind: nothing is applied after one    *)
(* that was taken or when its condition does not hold.                     *)
BranchDoes(w, c, body, x) ==
    /\ x \in WalkState
    /\ w.skipped => x.skipped = TRUE /\ x.applied = w.applied
    /\ ~w.skipped /\ phy_cond_check(c) =>
          x.skipped = TRUE /\ x.applied = w.applied \o body
    /\ ~w.skipped /\ ~phy_cond_check(c) =>
          x.skipped = FALSE /\ x.applied = w.applied

(* A condition is read at its positive entry and tested at the negative    *)
(* one; the plain entries behind it follow the test.                       *)
LEMMA BranchWalk ==
    ASSUME NEW w \in WalkState, NEW t \in {"IF", "ELIF"}, NEW c \in TableConds,
           NEW body \in Seq(Nat), NEW es,
           es = <<Pos(t, c)>> \o <<Entry("NEG")>> \o PlainRun(body)
    PROVE  es \in Seq(Entries) /\ BranchDoes(w, c, body, phy_walk(w, es))
  <1> DEFINE p == Pos(t, c)
             q == Entry("NEG")
             run == PlainRun(body)
  <1>1. p \in Entries /\ p.is = t /\ p.cond = c /\ q \in Entries /\ q.is = "NEG"
    BY DEF Pos, Entry, Entries, Kinds, Conds
  <1>2. run \in Seq(Entries)
    BY PlainWalk
  <1> HIDE DEF p, q, run
  <1>3. /\ <<p>> \in Seq(Entries) /\ <<q>> \in Seq(Entries)
        /\ <<p>> \o <<q>> \in Seq(Entries)
    BY <1>1
  <1>4. es = (<<p>> \o <<q>>) \o run /\ es \in Seq(Entries)
    BY <1>2, <1>3 DEF p, q, run
  <1> DEFINE y == Walk1(w, p)
             z == Walk1(y, q)
  <1>5. /\ y \in WalkState /\ y = [w EXCEPT !.cond = c]
        /\ z \in WalkState
    <2>1. y = [w EXCEPT !.cond = c]
      BY <1>1 DEF Walk1
    <2>2. y \in WalkState
      BY <1>1, Walk1Type
    <2> HIDE DEF y
    <2>3. z \in WalkState
      BY <1>1, <2>2, Walk1Type
    <2> QED BY <2>1, <2>2, <2>3
  <1>6. phy_walk(w, es) = phy_walk(z, run)
    <2>1. phy_walk(w, <<p>>) = y
      BY <1>1, PhyWalkOne
    <2> HIDE DEF y
    <2>2. phy_walk(y, <<q>>) = z
      BY <1>1, <1>5, PhyWalkOne
    <2> HIDE DEF z
    <2>3. phy_walk(w, <<p>> \o <<q>>) = z
      BY <1>3, <2>1, <2>2, PhyWalkCat
    <2>4. PICK pq \in Seq(Entries) : pq = <<p>> \o <<q>>
      BY <1>3
    <2>5. phy_walk(w, pq \o run) = phy_walk(phy_walk(w, pq), run)
      BY <1>2, PhyWalkCat
    <2> QED BY <1>4, <2>3, <2>4, <2>5
  <1>7. /\ y.cond = c /\ y.applied = w.applied /\ y.skipped = w.skipped
        /\ w.applied \in Seq(Nat) /\ w.skipped \in BOOLEAN
    BY <1>5 DEF WalkState
  <1> DEFINE ok == phy_cond_check(c)
  <1> HIDE DEF y
  <1>8. z = IF y.skipped THEN [y EXCEPT !.matched = FALSE]
            ELSE [y EXCEPT !.matched = ok, !.skipped = ok]
    BY <1>1, <1>7 DEF Walk1
  <1>9. ok = TRUE \/ ok = FALSE
    BY Zenon DEF phy_cond_check
  <1> HIDE DEF ok, z
  <1>10. CASE w.skipped
    <2>1. z = [y EXCEPT !.matched = FALSE]
      BY <1>7, <1>8, <1>10
    <2>2. z.matched = FALSE /\ z.skipped = y.skipped /\ z.applied = y.applied
      BY <1>5, <2>1 DEF WalkState
    <2>3. phy_walk(z, run) = z
      BY <1>5, <2>2, PlainWalk DEF run
    <2>4. y.skipped = TRUE
      BY <1>7, <1>10
    <2> QED BY <1>4, <1>5, <1>6, <1>7, <1>10, <2>2, <2>3, <2>4 DEF BranchDoes
  <1>11. CASE ~w.skipped /\ ok = TRUE
    <2>1. z = [y EXCEPT !.matched = TRUE, !.skipped = TRUE]
      BY <1>7, <1>8, <1>11
    <2>2. z.matched = TRUE /\ z.skipped = TRUE /\ z.applied = y.applied
      BY <1>5, <2>1 DEF WalkState
    <2>3. phy_walk(z, run) = [z EXCEPT !.applied = z.applied \o body]
      BY <1>5, <2>2, PlainWalk DEF run
    <2>4. /\ phy_walk(z, run).skipped = TRUE
          /\ phy_walk(z, run).applied = w.applied \o body
      BY <1>5, <1>7, <2>2, <2>3 DEF WalkState
    <2>5. phy_walk(z, run) \in WalkState
      BY <1>2, <1>5, PhyWalkOne
    <2> QED BY <1>4, <1>6, <1>11, <2>4, <2>5 DEF BranchDoes, ok
  <1>12. CASE ~w.skipped /\ ok = FALSE
    <2>1. z = [y EXCEPT !.matched = FALSE, !.skipped = FALSE]
      BY <1>7, <1>8, <1>12
    <2>2. z.matched = FALSE /\ z.skipped = FALSE /\ z.applied = y.applied
      BY <1>5, <2>1 DEF WalkState
    <2>3. phy_walk(z, run) = z
      BY <1>5, <2>2, PlainWalk DEF run
    <2> QED BY <1>4, <1>5, <1>6, <1>7, <1>12, <2>2, <2>3 DEF BranchDoes, ok
  <1> QED BY <1>7, <1>9, <1>10, <1>11, <1>12

AnyBranch == [cond : TableConds, body : Seq(Nat)]
AnyBranches == Seq(AnyBranch)

(* The entries of a block's branches, branch by branch.                    *)
LEMMA BranchEntriesDef ==
    ASSUME NEW bs \in AnyBranches
    PROVE  /\ BranchEntries(bs)[0] = <<>>
           /\ \A n \in 0 .. Len(bs) : BranchEntries(bs)[n] \in Seq(Entries)
           /\ \A n \in 1 .. Len(bs) :
                 /\ Branch(bs, n) \in Seq(Entries)
                 /\ BranchEntries(bs)[n] = BranchEntries(bs)[n-1] \o Branch(bs, n)
  <1> DEFINE S == Seq(Entries)
             N == Len(bs)
             W == BranchEntries(bs)
             G(w) == w = [n \in 0 .. N |-> IF n = 0 THEN <<>> ELSE w[n-1] \o Branch(bs, n)]
             step == [n \in 1 .. N |-> [x \in S |-> x \o Branch(bs, n)]]
  <1>1. N \in Nat /\ \A n \in 1 .. N : bs[n].cond \in TableConds /\ bs[n].body \in Seq(Nat)
    <2>1. N \in Nat /\ \A n \in 1 .. N : bs[n] \in AnyBranch
      BY DEF AnyBranches
    <2> QED BY <2>1 DEF AnyBranch
  <1>2. ASSUME NEW n \in 1 .. N PROVE Branch(bs, n) \in S
    <2>1. \A t \in {"IF", "ELIF"}, c \in TableConds :
             Pos(t, c) \in Entries /\ Entry("NEG") \in Entries
      BY DEF Pos, Entry, Entries, Kinds, Conds
    <2>2. PICK t \in {"IF", "ELIF"} : t = IF n = 1 THEN "IF" ELSE "ELIF"
      OBVIOUS
    <2>3. PICK p \in Entries, q \in Entries, r \in S :
             p = Pos(t, bs[n].cond) /\ q = Entry("NEG") /\ r = PlainRun(bs[n].body)
      <3>1. \E w : w \in WalkState
        <4>1. [cond |-> <<>>, matched |-> TRUE, skipped |-> TRUE, applied |-> <<>>] \in WalkState
          BY DEF WalkState, Conds
        <4> QED BY <4>1
      <3>2. PlainRun(bs[n].body) \in S
        BY <1>1, <3>1, PlainWalk
      <3> QED BY <1>1, <2>1, <3>2
    <2>4. <<p>> \o <<q>> \o r \in S
      OBVIOUS
    <2> QED BY <2>2, <2>3, <2>4 DEF Branch
  <1>3. Turning(S, N, step)
    <2> HIDE DEF N
    <2>1. \A n \in 1 .. N : \A x \in S : x \o Branch(bs, n) \in S
      BY <1>2
    <2> QED BY <2>1 DEF Turning
  <1>4. PICK w : Run(S, N, <<>>, step, w)
    <2>1. <<>> \in S
      OBVIOUS
    <2> HIDE DEF step, N, S
    <2> QED BY <1>1, <1>3, <2>1, Recursion
  <1>5. G(w)
    <2>1. \A n \in 0 .. N : n # 0 => n \in 1 .. N /\ w[n-1] \in S
      BY <1>1, <1>4 DEF Run
    <2> HIDE DEF S
    <2>2. \A n \in 0 .. N : w[n] = IF n = 0 THEN <<>> ELSE w[n-1] \o Branch(bs, n)
      BY <1>4, <2>1 DEF Run
    <2> QED BY <1>4, <2>2 DEF Run
  <1>6. W = CHOOSE x : G(x)
    BY DEF BranchEntries
  <1>7. G(W)
    <2> HIDE DEF G, W
    <2> QED BY <1>5, <1>6
  <1>c. <<>> \in S /\ \A x, y \in S : x \o y \in S
    OBVIOUS
  <1> HIDE DEF W, N, S
  <1>8. W[0] = <<>> /\ \A n \in 1 .. N : W[n] = W[n-1] \o Branch(bs, n)
    BY <1>1, <1>7
  <1> DEFINE T == {n \in 0 .. N : W[n] \in S}
  <1>9. 0 \in T
    BY <1>1, <1>8, <1>c
  <1>10. ASSUME NEW n \in 1 .. N, n - 1 \in T PROVE n \in T
    <2>1. n \in 0 .. N /\ W[n-1] \in S /\ Branch(bs, n) \in S
      BY <1>1, <1>2, <1>10
    <2>2. W[n] \in S
      BY <1>8, <1>c, <2>1
    <2> QED BY <2>1, <2>2
  <1>11. 0 .. N \subseteq T
    <2> HIDE DEF T
    <2> QED BY <1>1, <1>9, <1>10, TurnInduction
  <1>12. \A n \in 0 .. N : W[n] \in S
    BY <1>11
  <1> QED BY <1>2, <1>8, <1>12 DEF N, W, S

(* The first branch whose condition holds, among the first n.              *)
First(bs, n, k) ==
    /\ k \in 1 .. n /\ phy_cond_check(bs[k].cond)
    /\ \A j \in 1 .. k - 1 : ~phy_cond_check(bs[j].cond)

(* After n branches: no condition held yet and nothing is applied, or the  *)
(* first one that held decided and only its entries are.                   *)
BranchesDo(bs, w, n, x) ==
    /\ x \in WalkState
    /\ \/ /\ \A j \in 1 .. n : ~phy_cond_check(bs[j].cond)
          /\ x.skipped = FALSE /\ x.applied = w.applied
       \/ \E k : /\ First(bs, n, k)
                 /\ x.skipped = TRUE /\ x.applied = w.applied \o bs[k].body

(* The branches of a block of any length, walked.                          *)
LEMMA BranchesWalk ==
    ASSUME NEW bs \in AnyBranches, NEW w \in WalkState, w.skipped = FALSE
    PROVE  \A n \in 0 .. Len(bs) :
              BranchesDo(bs, w, n, phy_walk(w, BranchEntries(bs)[n]))
  <1> DEFINE N == Len(bs)
             W == BranchEntries(bs)
             T == {n \in 0 .. N : BranchesDo(bs, w, n, phy_walk(w, W[n]))}
  <1>1. N \in Nat /\ \A n \in 1 .. N : bs[n].cond \in TableConds /\ bs[n].body \in Seq(Nat)
    <2>1. N \in Nat /\ \A n \in 1 .. N : bs[n] \in AnyBranch
      BY DEF AnyBranches
    <2> QED BY <2>1 DEF AnyBranch
  <1>2. 0 \in T
    <2>1. phy_walk(w, W[0]) = w
      BY BranchEntriesDef, PhyWalkOne
    <2>2. BranchesDo(bs, w, 0, w)
      <3>1. \A j \in 1 .. 0 : ~phy_cond_check(bs[j].cond)
        OBVIOUS
      <3> QED BY <3>1, Zenon DEF BranchesDo
    <2> QED BY <1>1, <2>1, <2>2
  <1>3. ASSUME NEW n \in 1 .. N, n - 1 \in T PROVE n \in T
    <2> DEFINE x == phy_walk(w, W[n-1])
               y == phy_walk(w, W[n])
               c == bs[n].cond
    <2>1. BranchesDo(bs, w, n - 1, x) /\ n \in 0 .. N /\ n - 1 \in 0 .. N
      BY <1>1, <1>3
    <2>2. x \in WalkState
      BY <2>1 DEF BranchesDo
    <2>3. BranchDoes(x, c, bs[n].body, phy_walk(x, Branch(bs, n)))
      <3>1. PICK t \in {"IF", "ELIF"} : t = IF n = 1 THEN "IF" ELSE "ELIF"
        OBVIOUS
      <3>2. Branch(bs, n) = <<Pos(t, c)>> \o <<Entry("NEG")>> \o PlainRun(bs[n].body)
        BY <3>1 DEF Branch
      <3> HIDE DEF x, c
      <3>3. c \in TableConds /\ bs[n].body \in Seq(Nat)
        BY <1>1 DEF c
      <3> QED BY <2>2, <3>2, <3>3, BranchWalk
    <2>4. y = phy_walk(x, Branch(bs, n))
      <3>1. /\ W[n-1] \in Seq(Entries) /\ Branch(bs, n) \in Seq(Entries)
            /\ W[n] = W[n-1] \o Branch(bs, n)
        BY <2>1, BranchEntriesDef
      <3> HIDE DEF W
      <3> QED BY <3>1, PhyWalkCat
    <2> HIDE DEF x, y, W
    <2>5. BranchDoes(x, c, bs[n].body, y)
      BY <2>3, <2>4
    <2>6. BranchesDo(bs, w, n, y)
      <3>1. CASE /\ \A j \in 1 .. n - 1 : ~phy_cond_check(bs[j].cond)
                 /\ x.skipped = FALSE /\ x.applied = w.applied
        <4>1. CASE phy_cond_check(c)
          <5>1. y \in WalkState /\ y.skipped = TRUE /\ y.applied = w.applied \o bs[n].body
            BY <2>5, <3>1, <4>1 DEF BranchDoes
          <5>2. First(bs, n, n)
            BY <1>1, <3>1, <4>1 DEF First
          <5> QED BY <5>1, <5>2 DEF BranchesDo
        <4>2. CASE ~phy_cond_check(c)
          <5>1. y \in WalkState /\ y.skipped = FALSE /\ y.applied = w.applied
            BY <2>5, <3>1, <4>2 DEF BranchDoes
          <5>2. \A j \in 1 .. n : j = n \/ j \in 1 .. n - 1
            BY <1>1
          <5>3. \A j \in 1 .. n : ~phy_cond_check(bs[j].cond)
            BY <3>1, <4>2, <5>2
          <5> QED BY <5>1, <5>3 DEF BranchesDo
        <4> QED BY <4>1, <4>2
      <3>2. ASSUME NEW k, First(bs, n - 1, k), x.skipped = TRUE,
                   x.applied = w.applied \o bs[k].body
            PROVE  BranchesDo(bs, w, n, y)
        <4>1. y \in WalkState /\ y.skipped = TRUE /\ y.applied = w.applied \o bs[k].body
          BY <2>5, <3>2 DEF BranchDoes
        <4>2. k \in 1 .. n
          BY <1>1, <3>2 DEF First
        <4>3. First(bs, n, k)
          BY <3>2, <4>2 DEF First
        <4> QED BY <4>1, <4>3 DEF BranchesDo
      <3> QED BY <2>1, <3>1, <3>2 DEF BranchesDo
    <2> QED BY <2>1, <2>6 DEF y
  <1>4. 0 .. N \subseteq T
    <2> HIDE DEF T, N
    <2> QED BY <1>1, <1>2, <1>3, TurnInduction
  <1> QED BY <1>4

AnyBlocks == [branches : AnyBranches, else : BOOLEAN, body : Seq(Nat)]

(* What a block means: the first branch that holds, else its last resort.  *)
LEMMA MeaningIs ==
    ASSUME NEW b \in AnyBlocks, NEW N, N = Len(b.branches)
    PROVE  /\ \A k : First(b.branches, N, k) => Meaning(b) = b.branches[k].body
           /\ (\A j \in 1 .. N : ~phy_cond_check(b.branches[j].cond)) =>
                 Meaning(b) = IF b.else THEN b.body ELSE <<>>
           /\ Meaning(b) \in Seq(Nat)
  <1> DEFINE true == {n \in DOMAIN b.branches : phy_cond_check(b.branches[n].cond)}
  <1>1. b.branches \in AnyBranches /\ b.body \in Seq(Nat)
    BY DEF AnyBlocks
  <1>2. N \in Nat /\ DOMAIN b.branches = 1 .. N /\ \A n \in 1 .. N : b.branches[n] \in AnyBranch
    BY <1>1 DEF AnyBranches
  <1>3. ASSUME NEW k, First(b.branches, N, k)
        PROVE  Meaning(b) = b.branches[k].body /\ Meaning(b) \in Seq(Nat)
    <2>1. k \in true /\ \A j \in true : k <= j
      BY <1>2, <1>3 DEF First
    <2>2. true \subseteq Nat
      BY <1>2
    <2> HIDE DEF true
    <2>3. Min(true) \in true /\ \A j \in true : Min(true) <= j
      BY <2>1 DEF Min
    <2>4. Min(true) = k
      <3>1. PICK m \in Nat : m = Min(true) /\ m <= k /\ k <= m /\ k \in Nat
        BY <2>1, <2>2, <2>3
      <3> QED BY <3>1
    <2>5. Meaning(b) = b.branches[k].body
      BY <2>1, <2>4 DEF Meaning, true
    <2>6. k \in 1 .. N
      BY <1>3 DEF First
    <2> QED BY <1>2, <2>5, <2>6 DEF AnyBranch
  <1>4. ASSUME \A j \in 1 .. N : ~phy_cond_check(b.branches[j].cond)
        PROVE  Meaning(b) = (IF b.else THEN b.body ELSE <<>>) /\ Meaning(b) \in Seq(Nat)
    <2>1. true = {}
      BY <1>2, <1>4
    <2>2. Meaning(b) = IF b.else THEN b.body ELSE <<>>
      BY <2>1 DEF Meaning
    <2>3. <<>> \in Seq(Nat)
      OBVIOUS
    <2> QED BY <1>1, <2>2, <2>3
  <1>5. (\E k : First(b.branches, N, k)) \/ \A j \in 1 .. N : ~phy_cond_check(b.branches[j].cond)
    <2>1. \E w : w \in WalkState /\ w.skipped = FALSE
      <3>1. [cond |-> <<>>, matched |-> TRUE, skipped |-> FALSE, applied |-> <<>>] \in WalkState
        BY DEF WalkState, Conds
      <3> QED BY <3>1
    <2>2. N \in 0 .. N
      BY <1>2
    <2> QED BY <1>1, <2>1, <2>2, BranchesWalk DEF BranchesDo
  <1> QED BY <1>3, <1>4, <1>5

(* A block is carried out as an IF is read, and leaves the state as it     *)
(* was before: plain entries behind it are applied again.                  *)
LEMMA BlockWalk ==
    ASSUME NEW b \in AnyBlocks, NEW w \in WalkState, w.skipped = FALSE
    PROVE  /\ Table(b) \in Seq(Entries)
           /\ phy_walk(w, Table(b)) \in WalkState
           /\ phy_walk(w, Table(b)).matched = TRUE
           /\ phy_walk(w, Table(b)).skipped = FALSE
           /\ phy_walk(w, Table(b)).applied = w.applied \o Meaning(b)
  <1> DEFINE bs == b.branches
             N == Len(bs)
             be == BranchEntries(bs)[N]
             run == PlainRun(b.body)
             el == IF b.else THEN <<Entry("ELSE")>> \o run ELSE <<>>
             x == phy_walk(w, be)
             y == phy_walk(x, el)
             z == Walk1(y, Entry("ENDIF"))
  <1>1. bs \in AnyBranches /\ b.body \in Seq(Nat) /\ b.else \in BOOLEAN
    BY DEF AnyBlocks
  <1>2. N \in Nat /\ N \in 0 .. N
    BY <1>1 DEF AnyBranches
  <1>3. be \in Seq(Entries) /\ BranchesDo(bs, w, N, x)
    <2> HIDE DEF bs
    <2> QED BY <1>1, <1>2, BranchEntriesDef, BranchesWalk
  <1>4. /\ Entry("ELSE") \in Entries /\ Entry("ELSE").is = "ELSE"
        /\ Entry("ENDIF") \in Entries /\ Entry("ENDIF").is = "ENDIF"
    BY DEF Entry, Entries, Kinds, Conds
  <1>5. run \in Seq(Entries)
    BY <1>1, PlainWalk
  <1>6. el \in Seq(Entries)
    <2> HIDE DEF run
    <2>1. <<Entry("ELSE")>> \o run \in Seq(Entries) /\ <<>> \in Seq(Entries)
      BY <1>4, <1>5
    <2> QED BY <2>1
  <1>7. x \in WalkState
    BY <1>3 DEF BranchesDo
  <1> HIDE DEF be, x, run
  <1>8. y \in WalkState
    <2> HIDE DEF el
    <2> QED BY <1>6, <1>7, PhyWalkOne
  <1>9. /\ Table(b) \in Seq(Entries)
        /\ phy_walk(w, Table(b)) = z
    <2> HIDE DEF el
    <2>1. Table(b) = (be \o el) \o <<Entry("ENDIF")>>
      BY DEF Table, be, el, run
    <2>2. PICK p \in Seq(Entries), q \in Seq(Entries) :
             p = be \o el /\ q = <<Entry("ENDIF")>>
      <3>1. be \o el \in Seq(Entries) /\ <<Entry("ENDIF")>> \in Seq(Entries)
        BY <1>3, <1>4, <1>6
      <3> QED BY <3>1
    <2>3. phy_walk(w, p) = y
      BY <1>3, <1>6, <2>2, PhyWalkCat DEF x
    <2>4. phy_walk(w, p \o q) = phy_walk(y, q)
      BY <2>3, PhyWalkCat
    <2>5. phy_walk(y, q) = z
      BY <1>4, <1>8, <2>2, PhyWalkOne
    <2>6. p \o q \in Seq(Entries)
      OBVIOUS
    <2> QED BY <2>1, <2>2, <2>4, <2>5, <2>6
  <1>10. y.applied = w.applied \o Meaning(b)
    <2>0. w.applied \in Seq(Nat) /\ w.applied \o <<>> = w.applied
      BY DEF WalkState
    <2>1. b.else => y = phy_walk(Walk1(x, Entry("ELSE")), run)
      <3> SUFFICES ASSUME b.else PROVE y = phy_walk(Walk1(x, Entry("ELSE")), run)
        OBVIOUS
      <3>1. PICK p \in Seq(Entries) : p = <<Entry("ELSE")>> /\ el = p \o run
        <4>1. <<Entry("ELSE")>> \in Seq(Entries)
          BY <1>4
        <4>2. el = <<Entry("ELSE")>> \o run
          OBVIOUS
        <4> QED BY <4>1, <4>2
      <3> HIDE DEF el
      <3>2. phy_walk(x, p) = Walk1(x, Entry("ELSE"))
        BY <1>4, <1>7, <3>1, PhyWalkOne
      <3> QED BY <1>5, <1>7, <3>1, <3>2, PhyWalkCat, ZenonT(60)
    <2>2. ~b.else => y = x
      BY <1>7, PhyWalkOne
    <2> DEFINE v == Walk1(x, Entry("ELSE"))
    <2>3. v \in WalkState
      BY <1>4, <1>7, Walk1Type
    <2>4. v = [x EXCEPT !.matched = ~x.skipped]
      BY <1>4 DEF Walk1
    <2>5. v.applied = x.applied /\ (x.skipped = TRUE => v.matched = FALSE)
          /\ (x.skipped = FALSE => v.matched = TRUE)
      <3>1. x.skipped = TRUE => v = [x EXCEPT !.matched = FALSE]
        BY <2>4
      <3>2. x.skipped = FALSE => v = [x EXCEPT !.matched = TRUE]
        BY <2>4
      <3> HIDE DEF v
      <3> QED BY <1>7, <2>4, <3>1, <3>2 DEF WalkState
    <2> HIDE DEF v, y, N
    <2>6. v.matched = FALSE => phy_walk(v, run) = v
      BY <1>1, <2>3, PlainWalk DEF run
    <2>7. v.matched = TRUE => phy_walk(v, run).applied = v.applied \o b.body
      <3>1. v.matched = TRUE => phy_walk(v, run) = [v EXCEPT !.applied = v.applied \o b.body]
        BY <1>1, <2>3, PlainWalk DEF run
      <3> QED BY <2>3, <3>1 DEF WalkState
    <2>8. CASE /\ \A j \in 1 .. N : ~phy_cond_check(bs[j].cond)
               /\ x.skipped = FALSE /\ x.applied = w.applied
      <3>1. Meaning(b) = IF b.else THEN b.body ELSE <<>>
        BY <2>8, MeaningIs DEF N
      <3>2. CASE b.else
        BY <2>1, <2>5, <2>7, <2>8, <3>1, <3>2 DEF v
      <3>3. CASE ~b.else
        BY <2>0, <2>2, <2>8, <3>1, <3>3
      <3> QED BY <3>2, <3>3
    <2>9. ASSUME NEW k, First(bs, N, k), x.skipped = TRUE,
                 x.applied = w.applied \o bs[k].body
          PROVE  y.applied = w.applied \o Meaning(b)
      <3>1. Meaning(b) = bs[k].body
        BY <2>9, MeaningIs DEF N
      <3>2. CASE b.else
        BY <2>1, <2>5, <2>6, <2>9, <3>1, <3>2 DEF v
      <3>3. CASE ~b.else
        BY <2>2, <2>9, <3>1, <3>3
      <3> QED BY <3>2, <3>3
    <2> QED BY <1>3, <2>8, <2>9 DEF BranchesDo
  <1> HIDE DEF y
  <1>11. z = [y EXCEPT !.matched = TRUE, !.skipped = FALSE]
    BY <1>4 DEF Walk1
  <1>12. z.matched = TRUE /\ z.skipped = FALSE /\ z.applied = y.applied
    BY <1>8, <1>11 DEF WalkState
  <1>13. z \in WalkState
    BY <1>4, <1>8, Walk1Type
  <1> QED BY <1>9, <1>10, <1>12, <1>13

(* Two blocks of any number of branches with plain entries around them     *)
(* are carried out by rtw88_phy_walk_table as two IFs are read, whatever   *)
(* the conditions and the device.                                          *)
THEOREM TableWalk == \A b, c \in AnyBlocks : TablesAgree(b, c)
  <1> SUFFICES ASSUME NEW b \in AnyBlocks, NEW c \in AnyBlocks PROVE TablesAgree(b, c)
    OBVIOUS
  <1> DEFINE s == [cond |-> <<>>, matched |-> TRUE, skipped |-> FALSE, applied |-> <<>>]
             tb == Table(b)
             tc == Table(c)
             mb == Meaning(b)
             mc == Meaning(c)
             s1 == phy_walk(s, <<Plain(1)>>)
             s2 == phy_walk(s1, tb)
             s3 == phy_walk(s2, <<Plain(2)>>)
             s4 == phy_walk(s3, tc)
             s5 == phy_walk(s4, <<Plain(3)>>)
  <1>1. /\ s \in WalkState /\ s.matched = TRUE /\ s.skipped = FALSE /\ s.applied = <<>>
        /\ mb \in Seq(Nat) /\ mc \in Seq(Nat)
    <2>1. mb \in Seq(Nat) /\ mc \in Seq(Nat)
      BY MeaningIs
    <2> QED BY <2>1 DEF WalkState, Conds
  <1>2. \A a \in Nat : Plain(a) \in Entries /\ <<Plain(a)>> \in Seq(Entries)
    <2>1. \A a \in Nat : Plain(a) \in Entries
      BY DEF Plain, Entry, Entries, Kinds, Conds
    <2> QED BY <2>1
  <1>3. ASSUME NEW w \in WalkState, NEW a \in Nat, w.matched = TRUE
        PROVE  /\ phy_walk(w, <<Plain(a)>>) \in WalkState
               /\ phy_walk(w, <<Plain(a)>>).skipped = w.skipped
               /\ phy_walk(w, <<Plain(a)>>).applied = w.applied \o <<a>>
    <2>1. phy_walk(w, <<Plain(a)>>) = Walk1(w, Plain(a))
      BY <1>2, PhyWalkOne
    <2>2. Plain(a).is = "plain" /\ Plain(a).addr = a
      BY DEF Plain, Entry
    <2>3. Walk1(w, Plain(a)) = [w EXCEPT !.applied = Append(@, a)]
      BY <1>3, <2>2 DEF Walk1
    <2>4. w.applied \in Seq(Nat) /\ Append(w.applied, a) = w.applied \o <<a>>
      BY DEF WalkState
    <2>5. Walk1(w, Plain(a)) \in WalkState
      BY <1>2, Walk1Type
    <2>6. /\ Walk1(w, Plain(a)).skipped = w.skipped
          /\ Walk1(w, Plain(a)).applied = Append(w.applied, a)
      BY <2>3 DEF WalkState
    <2> QED BY <2>1, <2>4, <2>5, <2>6
  <1> HIDE DEF s, tb, tc, mb, mc
  <1>4. s1 \in WalkState /\ s1.skipped = FALSE /\ s1.applied = <<>> \o <<1>>
    BY <1>1, <1>3
  <1> HIDE DEF s1
  <1>5. /\ tb \in Seq(Entries) /\ s2 \in WalkState
        /\ s2.matched = TRUE /\ s2.skipped = FALSE /\ s2.applied = s1.applied \o mb
    BY <1>4, BlockWalk DEF tb, mb
  <1> HIDE DEF s2
  <1>6. s3 \in WalkState /\ s3.skipped = FALSE /\ s3.applied = s2.applied \o <<2>>
    BY <1>3, <1>5
  <1> HIDE DEF s3
  <1>7. /\ tc \in Seq(Entries) /\ s4 \in WalkState
        /\ s4.matched = TRUE /\ s4.skipped = FALSE /\ s4.applied = s3.applied \o mc
    BY <1>6, BlockWalk DEF tc, mc
  <1> HIDE DEF s4
  <1>8. s5.applied = s4.applied \o <<3>>
    BY <1>3, <1>7
  <1> HIDE DEF s5
  <1> DEFINE all == <<Plain(1)>> \o tb \o <<Plain(2)>> \o tc \o <<Plain(3)>>
  <1>9. phy_walk(s, all) = s5
    <2>1. PICK p1, p2, p3 \in Seq(Entries) :
             p1 = <<Plain(1)>> /\ p2 = <<Plain(2)>> /\ p3 = <<Plain(3)>>
      BY <1>2
    <2>c. \A x, y \in Seq(Entries) : \E z \in Seq(Entries) : z = x \o y
      <3>1. \A x, y \in Seq(Entries) : x \o y \in Seq(Entries)
        OBVIOUS
      <3> QED BY <3>1
    <2>2. PICK q1 \in Seq(Entries) : q1 = p1 \o tb
      BY <1>5, <2>c
    <2>3. PICK q2 \in Seq(Entries) : q2 = q1 \o p2
      BY <2>c
    <2>4. PICK q3 \in Seq(Entries) : q3 = q2 \o tc
      BY <1>7, <2>c
    <2>5. phy_walk(s, q1) = s2
      BY <1>1, <1>5, <2>1, <2>2, PhyWalkCat, ZenonT(60) DEF s1, s2
    <2>6. phy_walk(s, q2) = s3
      BY <1>1, <2>1, <2>3, <2>5, PhyWalkCat, ZenonT(60) DEF s3
    <2>7. phy_walk(s, q3) = s4
      BY <1>1, <1>7, <2>4, <2>6, PhyWalkCat DEF s4
    <2>8. phy_walk(s, q3 \o p3) = s5
      BY <1>1, <2>1, <2>7, PhyWalkCat DEF s5
    <2>9. all = q3 \o p3
      BY <2>1, <2>2, <2>3, <2>4
    <2> QED BY <2>8, <2>9
  <1>10. phy_walk_table(all) = s5.applied
    BY <1>9 DEF phy_walk_table, s
  <1>11. s5.applied = <<1>> \o mb \o <<2>> \o mc \o <<3>>
    <2>1. <<>> \o <<1>> = <<1>>
      OBVIOUS
    <2> QED BY <1>4, <1>5, <1>6, <1>7, <1>8, <2>1
  <1> QED BY <1>10, <1>11 DEF TablesAgree, tb, tc, mb, mc

(* The property the runs check over bounded inputs: every block of         *)
(* conditional entries is carried out by rtw88_phy_walk_table as an IF is  *)
(* read.                                                                   *)
THEOREM TableWalkHolds == TableWalkRight
  <1>1. ASSUME NEW b \in Blocks PROVE b \in AnyBlocks
    <2>1. PICK bb \in UNION {[1 .. n -> Branches] : n \in 1 .. 2},
               e \in BOOLEAN, body \in TableBodies :
             b = [branches |-> bb, else |-> e, body |-> body]
      BY DEF Blocks
    <2>2. PICK n \in 1 .. 2 : bb \in [1 .. n -> Branches]
      OBVIOUS
    <2>3. Branches \subseteq AnyBranch /\ body \in Seq(Nat) /\ n \in Nat
      BY TableAssumption DEF Branches, AnyBranch
    <2>4. bb \in Seq(AnyBranch)
      <3>1. bb \in [1 .. n -> AnyBranch]
        BY <2>2, <2>3
      <3> QED BY <2>3, <3>1
    <2> QED BY <2>1, <2>3, <2>4 DEF AnyBlocks, AnyBranches
  <1> QED BY <1>1, TableWalk DEF TableWalkRight

-----------------------------------------------------------------------------
(* The eFuse walk                                                          *)

PhysMaps == [0 .. size - 1 -> 0 .. 255]
EfuseState == [idx : Nat, log : PhysMaps, error : BOOLEAN, done : BOOLEAN,
               top : Nat, read : Nat]
EfuseStart == [idx |-> 0, log |-> [k \in 0 .. size - 1 |-> 255],
               error |-> FALSE, done |-> FALSE, top |-> 0, read |-> 0]

(* The dimensions of a map: the header byte behind the last one the loop   *)
(* looks at is still inside.                                               *)
LEMMA DimFacts ==
    /\ size \in Nat /\ limit \in Nat /\ limit < size /\ size % 8 = 0
  BY EfuseAssumption DEF size, limit

(* The larger of two numbers.                                              *)
LEMMA MaxOfTwo ==
    ASSUME NEW a \in Nat, NEW b \in Nat
    PROVE  Max({a, b}) \in Nat /\ (Max({a, b}) = a \/ Max({a, b}) = b)
  <1> DEFINE S == {a, b}
  <1>1. \E x \in S : \A y \in S : x >= y
    <2>1. CASE a >= b
      BY <2>1
    <2>2. CASE b >= a
      BY <2>2
    <2> QED BY <2>1, <2>2
  <1> HIDE DEF S
  <1>2. Max(S) \in S
    BY <1>1 DEF Max
  <1> QED BY <1>2 DEF S

(* Storing a word fails when it is not before the protected tail or its    *)
(* place is not in the map.                                                *)
WordBad(idx, blk, i) == idx + 1 >= limit \/ blk * 8 + i * 2 + 1 >= size

(* One word: refused, or two bytes copied to the place of block and word.  *)
WordDoes(w, phy, blk, i, v) ==
    /\ v \in EfuseState
    /\ w.error \/ WordBad(w.idx, blk, i) => v = [w EXCEPT !.error = TRUE]
    /\ ~w.error /\ ~WordBad(w.idx, blk, i) =>
          /\ v.error = w.error /\ v.done = w.done /\ v.idx = w.idx + 2
          /\ v.top = w.top \/ v.top < size
          /\ v.read = w.read \/ v.read < size
          /\ \A k \in 0 .. size - 1 :
                v.log[k] = IF k = blk * 8 + i * 2 THEN phy[w.idx]
                           ELSE IF k = blk * 8 + i * 2 + 1 THEN phy[w.idx + 1]
                           ELSE w.log[k]

(* That is what the body of rtw88_efuse_logical_walk's inner loop does.    *)
LEMMA WordFacts ==
    ASSUME NEW w \in EfuseState, NEW phy \in PhysMaps, NEW blk \in Nat,
           NEW i \in 0 .. 3, NEW v, v = Word(w, phy, blk, i)
    PROVE  WordDoes(w, phy, blk, i, v)
  <1> DEFINE at == blk * 8 + i * 2
             log == [k \in DOMAIN w.log |-> IF k \in {at, at + 1}
                                            THEN phy[w.idx + (k - at)] ELSE w.log[k]]
             top == Max({w.top, at + 1})
             read == Max({w.read, w.idx + 1})
  <1>1. /\ w.idx \in Nat /\ w.log \in PhysMaps /\ w.error \in BOOLEAN
        /\ w.done \in BOOLEAN /\ w.top \in Nat /\ w.read \in Nat
    BY DEF EfuseState
  <1>2. at \in Nat
    OBVIOUS
  <1>3. CASE w.error \/ WordBad(w.idx, blk, i)
    <2>1. v = [w EXCEPT !.error = TRUE]
      BY <1>3 DEF Word, WordBad
    <2>2. v \in EfuseState
      BY <1>1, <2>1 DEF EfuseState
    <2> QED BY <1>3, <2>1, <2>2 DEF WordDoes
  <1>4. CASE ~(w.error \/ WordBad(w.idx, blk, i))
    <2>1. v = [w EXCEPT !.log = log, !.idx = w.idx + 2, !.top = top, !.read = read]
      <3>1. ~(w.error \/ w.idx + 1 >= limit \/ at + 1 >= size)
        BY <1>4 DEF WordBad
      <3> QED BY <3>1 DEF Word
    <2>2. w.idx + 1 < limit /\ at + 1 < size
      BY <1>1, <1>2, <1>4, DimFacts DEF WordBad
    <2>3. DOMAIN w.log = 0 .. size - 1
      BY <1>1 DEF PhysMaps
    <2>4. ASSUME NEW k \in 0 .. size - 1
          PROVE  /\ log[k] = IF k = at THEN phy[w.idx]
                             ELSE IF k = at + 1 THEN phy[w.idx + 1] ELSE w.log[k]
                 /\ log[k] \in 0 .. 255
      <3>1. /\ w.idx \in 0 .. size - 1 /\ w.idx + 1 \in 0 .. size - 1
        BY <1>1, <2>2, DimFacts
      <3>2. /\ phy[w.idx] \in 0 .. 255 /\ phy[w.idx + 1] \in 0 .. 255
            /\ w.log[k] \in 0 .. 255
        BY <1>1, <3>1 DEF PhysMaps
      <3>3. CASE k = at
        <4>1. w.idx + (k - at) = w.idx
          BY <1>1, <1>2, <3>3
        <4> QED BY <2>3, <3>2, <3>3, <4>1
      <3>4. CASE k = at + 1
        <4>1. w.idx + (k - at) = w.idx + 1 /\ k # at
          BY <1>1, <1>2, <3>4
        <4> QED BY <2>3, <3>2, <3>4, <4>1
      <3>5. CASE k \notin {at, at + 1}
        BY <2>3, <3>2, <3>5
      <3> QED BY <3>3, <3>4, <3>5
    <2>5. log \in PhysMaps
      BY <2>3, <2>4 DEF PhysMaps
    <2>6. /\ top \in Nat /\ (top = w.top \/ top < size)
          /\ read \in Nat /\ (read = w.read \/ read < size)
      <3>1. top \in Nat /\ (top = w.top \/ top = at + 1)
        BY <1>1, <1>2, MaxOfTwo
      <3>2. read \in Nat /\ (read = w.read \/ read = w.idx + 1)
        BY <1>1, MaxOfTwo
      <3> HIDE DEF top, read, at
      <3> QED BY <1>1, <1>2, <2>2, <3>1, <3>2, DimFacts
    <2>7. w.idx + 2 \in Nat
      BY <1>1
    <2> HIDE DEF log, top, read, at
    <2>8. v \in EfuseState
      BY <1>1, <2>1, <2>5, <2>6, <2>7 DEF EfuseState
    <2>9. /\ v.error = w.error /\ v.done = w.done /\ v.idx = w.idx + 2
          /\ v.top = top /\ v.read = read /\ v.log = log
      BY <2>1 DEF EfuseState
    <2> QED BY <1>4, <2>4, <2>6, <2>8, <2>9 DEF at, WordDoes
  <1> QED BY <1>3, <1>4

(* What four words may not do: go back, leave the arrays, end the walk.    *)
Proceeds(w, v) ==
    /\ v \in EfuseState /\ v.done = w.done
    /\ v.idx >= w.idx
    /\ w.top < size => v.top < size
    /\ w.read < size => v.read < size

(* A word, announced or not, behaves so.                                   *)
LEMMA WordGoes ==
    ASSUME NEW w \in EfuseState, NEW phy \in PhysMaps, NEW blk \in Nat, NEW i \in 0 .. 3
    PROVE  Proceeds(w, Word(w, phy, blk, i)) /\ Proceeds(w, w)
  <1> DEFINE v == Word(w, phy, blk, i)
  <1>1. w.idx \in Nat /\ w.top \in Nat /\ w.read \in Nat
    BY DEF EfuseState
  <1>2. Proceeds(w, w)
    BY <1>1 DEF Proceeds
  <1>3. CASE w.error \/ WordBad(w.idx, blk, i)
    <2>1. v \in EfuseState /\ v = [w EXCEPT !.error = TRUE]
      BY <1>3, WordFacts DEF WordDoes
    <2> HIDE DEF v
    <2>2. v.done = w.done /\ v.idx = w.idx /\ v.top = w.top /\ v.read = w.read
      BY <2>1 DEF EfuseState
    <2>3. Proceeds(w, v)
      BY <1>1, <2>1, <2>2 DEF Proceeds
    <2> QED BY <1>2, <2>3 DEF v
  <1>4. CASE ~w.error /\ ~WordBad(w.idx, blk, i)
    <2>1. /\ v \in EfuseState /\ v.done = w.done /\ v.idx = w.idx + 2
          /\ v.top = w.top \/ v.top < size
          /\ v.read = w.read \/ v.read < size
      BY <1>4, WordFacts DEF WordDoes
    <2> HIDE DEF v
    <2>2. v.idx >= w.idx
      BY <1>1, <2>1
    <2>3. Proceeds(w, v)
      BY <2>1, <2>2 DEF Proceeds
    <2> QED BY <1>2, <2>3 DEF v
  <1> QED BY <1>3, <1>4

(* All four words of a record.                                             *)
LEMMA WordsGo ==
    ASSUME NEW w \in EfuseState, NEW phy \in PhysMaps, NEW blk \in Nat, NEW en
    PROVE  Proceeds(w, Words(w, phy, blk, en))
  <1> DEFINE Turn(v, i) == IF Bit(en, i) = 0 THEN Word(v, phy, blk, i) ELSE v
  <1>1. \A v \in EfuseState, i \in 0 .. 3 : Proceeds(v, Turn(v, i))
    BY WordGoes
  <1>2. ASSUME NEW a, NEW b, NEW c, Proceeds(a, b), Proceeds(b, c), a \in EfuseState
        PROVE  Proceeds(a, c) /\ c \in EfuseState
    <2>1. a.idx \in Nat /\ b.idx \in Nat /\ c.idx \in Nat
      BY <1>2 DEF Proceeds, EfuseState
    <2>2. c.idx >= a.idx
      BY <1>2, <2>1 DEF Proceeds
    <2> QED BY <1>2, <2>2 DEF Proceeds
  <1>3. Words(w, phy, blk, en) = Turn(Turn(Turn(Turn(w, 0), 1), 2), 3)
    BY DEF Words
  <1> HIDE DEF Turn
  <1> DEFINE a == Turn(w, 0)
             b == Turn(a, 1)
             c == Turn(b, 2)
             d == Turn(c, 3)
  <1>4. Proceeds(w, a) /\ a \in EfuseState
    BY <1>1 DEF Proceeds
  <1> HIDE DEF a
  <1>5. Proceeds(w, b) /\ b \in EfuseState
    <2>1. Proceeds(a, b)
      BY <1>1, <1>4
    <2> HIDE DEF b
    <2> QED BY <1>2, <1>4, <2>1
  <1> HIDE DEF b
  <1>6. Proceeds(w, c) /\ c \in EfuseState
    <2>1. Proceeds(b, c)
      BY <1>1, <1>5
    <2> HIDE DEF c
    <2> QED BY <1>2, <1>5, <2>1
  <1> HIDE DEF c
  <1>7. Proceeds(w, d)
    <2>1. Proceeds(c, d)
      BY <1>1, <1>6
    <2> HIDE DEF d
    <2> QED BY <1>2, <1>6, <2>1
  <1> QED BY <1>3, <1>7 DEF a, b, c, d

EndMark(hdr1, hdr2) == hdr1 = 255 \/ (hdr1 % 32 = 15 /\ hdr2 = 255)

(* One turn of the loop: an end, or a header and its words.                *)
LEMMA RecordFacts ==
    ASSUME NEW w \in EfuseState, NEW phy \in PhysMaps,
           NEW v, v = Record(w, phy)
    PROVE  /\ v \in EfuseState
           /\ w.error => v.error
           /\ w.done \/ w.error \/ w.idx >= limit => v = [w EXCEPT !.done = TRUE]
           /\ ~(w.done \/ w.error \/ w.idx >= limit) =>
                 \E u \in EfuseState :
                    /\ u.error = w.error /\ u.done = w.done /\ u.log = w.log
                    /\ u.top = w.top
                    /\ u.read = w.read \/ u.read < size
                    /\ EndMark(phy[w.idx], phy[w.idx + 1]) =>
                          u.idx = w.idx /\ v = [u EXCEPT !.done = TRUE]
                    /\ ~EndMark(phy[w.idx], phy[w.idx + 1]) =>
                          IF phy[w.idx] % 32 = 15
                          THEN /\ u.idx = w.idx + 2
                               /\ v = Words(u, phy,
                                            (phy[w.idx + 1] \div 16) * 8 + phy[w.idx] \div 32,
                                            phy[w.idx + 1] % 16)
                          ELSE /\ u.idx = w.idx + 1
                               /\ v = Words(u, phy, phy[w.idx] \div 16, phy[w.idx] % 16)
  <1> DEFINE hdr1 == phy[w.idx]
             hdr2 == phy[w.idx + 1]
             ext == hdr1 % 32 = 15
             seen == Max({w.read, w.idx + 1})
  <1>1. /\ w.idx \in Nat /\ w.log \in PhysMaps /\ w.error \in BOOLEAN
        /\ w.done \in BOOLEAN /\ w.top \in Nat /\ w.read \in Nat
    BY DEF EfuseState
  <1>2. CASE w.done \/ w.error \/ w.idx >= limit
    <2>1. v = [w EXCEPT !.done = TRUE]
      BY <1>2 DEF Record
    <2>2. v \in EfuseState /\ v.error = w.error
      BY <1>1, <2>1 DEF EfuseState
    <2> QED BY <1>2, <2>1, <2>2
  <1>3. CASE ~(w.done \/ w.error \/ w.idx >= limit)
    <2>1. w.idx < limit /\ w.idx \in 0 .. size - 1 /\ w.idx + 1 \in 0 .. size - 1
      BY <1>1, <1>3, DimFacts
    <2>2. hdr1 \in 0 .. 255 /\ hdr2 \in 0 .. 255
      BY <2>1 DEF PhysMaps
    <2>3. seen \in Nat /\ (seen = w.read \/ seen < size)
      <3>1. seen \in Nat /\ (seen = w.read \/ seen = w.idx + 1)
        BY <1>1, MaxOfTwo
      <3> HIDE DEF seen
      <3> QED BY <2>1, <3>1, DimFacts
    <2>4. v = IF EndMark(hdr1, hdr2) THEN [w EXCEPT !.done = TRUE, !.read = seen]
              ELSE IF ext
              THEN Words([w EXCEPT !.idx = w.idx + 2, !.read = seen], phy,
                         (hdr2 \div 16) * 8 + hdr1 \div 32, hdr2 % 16)
              ELSE Words([w EXCEPT !.idx = w.idx + 1, !.read = seen], phy,
                         hdr1 \div 16, hdr1 % 16)
      BY <1>3 DEF Record, EndMark
    <2> HIDE DEF seen, hdr1, hdr2
    <2>5. ASSUME NEW j \in Nat, NEW u, u = [w EXCEPT !.idx = j, !.read = seen]
          PROVE  /\ u \in EfuseState
                 /\ u.error = w.error /\ u.done = w.done /\ u.log = w.log
                 /\ u.top = w.top /\ u.idx = j
                 /\ u.read = w.read \/ u.read < size
      <3>1. u \in EfuseState
        BY <1>1, <2>3, <2>5 DEF EfuseState
      <3>2. /\ u.error = w.error /\ u.done = w.done /\ u.log = w.log
            /\ u.top = w.top /\ u.idx = j /\ u.read = seen
        BY <2>5 DEF EfuseState
      <3> QED BY <2>3, <3>1, <3>2
    <2>6. CASE EndMark(hdr1, hdr2)
      <3>1. PICK u : u = [w EXCEPT !.idx = w.idx, !.read = seen]
        OBVIOUS
      <3>2. /\ u \in EfuseState
            /\ u.error = w.error /\ u.done = w.done /\ u.log = w.log
            /\ u.top = w.top /\ u.idx = w.idx
            /\ u.read = w.read \/ u.read < size
        BY <1>1, <2>5, <3>1, ZenonT(60)
      <3>3. v = [w EXCEPT !.done = TRUE, !.read = seen]
        BY <2>4, <2>6
      <3>4. v = [u EXCEPT !.done = TRUE]
        BY <3>1, <3>3 DEF EfuseState
      <3>5. v \in EfuseState
        BY <3>2, <3>4 DEF EfuseState
      <3> QED BY <1>3, <2>6, <3>2, <3>4, <3>5 DEF hdr1, hdr2
    <2>7. CASE ~EndMark(hdr1, hdr2) /\ ext
      <3>0. PICK j \in Nat : j = w.idx + 2
        BY <1>1
      <3>1. PICK u : u = [w EXCEPT !.idx = j, !.read = seen]
        OBVIOUS
      <3>2. /\ u \in EfuseState
            /\ u.error = w.error /\ u.done = w.done /\ u.log = w.log
            /\ u.top = w.top /\ u.idx = j
            /\ u.read = w.read \/ u.read < size
        BY <2>5, <3>1
      <3>3. v = Words(u, phy, (hdr2 \div 16) * 8 + hdr1 \div 32, hdr2 % 16)
        BY <2>4, <2>7, <3>0, <3>1
      <3>4. (hdr2 \div 16) * 8 + hdr1 \div 32 \in Nat
        BY <2>2
      <3>5. v \in EfuseState
        BY <3>2, <3>3, <3>4, WordsGo DEF Proceeds
      <3> QED BY <1>3, <2>7, <3>0, <3>2, <3>3, <3>5 DEF hdr1, hdr2
    <2>8. CASE ~EndMark(hdr1, hdr2) /\ ~ext
      <3>0. PICK j \in Nat : j = w.idx + 1
        BY <1>1
      <3>1. PICK u : u = [w EXCEPT !.idx = j, !.read = seen]
        OBVIOUS
      <3>2. /\ u \in EfuseState
            /\ u.error = w.error /\ u.done = w.done /\ u.log = w.log
            /\ u.top = w.top /\ u.idx = j
            /\ u.read = w.read \/ u.read < size
        BY <2>5, <3>1
      <3>3. v = Words(u, phy, hdr1 \div 16, hdr1 % 16)
        BY <2>4, <2>8, <3>0, <3>1
      <3>4. hdr1 \div 16 \in Nat
        BY <2>2
      <3>5. v \in EfuseState
        BY <3>2, <3>3, <3>4, WordsGo DEF Proceeds
      <3> QED BY <1>3, <2>8, <3>0, <3>2, <3>3, <3>5 DEF hdr1, hdr2
    <2> QED BY <2>6, <2>7, <2>8
  <1> QED BY <1>2, <1>3

(* A turn ends the walk or takes at least a byte, inside the arrays.       *)
LEMMA RecordGoes ==
    ASSUME NEW w \in EfuseState, NEW phy \in PhysMaps, w.top < size, w.read < size,
           NEW v, v = Record(w, phy)
    PROVE  /\ v \in EfuseState /\ v.top < size /\ v.read < size
           /\ w.done \/ w.error \/ w.idx >= limit => v.done
           /\ v.done \/ v.error \/ v.idx >= w.idx + 1
  <1>1. w.idx \in Nat /\ w.error \in BOOLEAN /\ w.done \in BOOLEAN
    BY DEF EfuseState
  <1>2. CASE w.done \/ w.error \/ w.idx >= limit
    <2>1. v \in EfuseState /\ v = [w EXCEPT !.done = TRUE]
      BY <1>2, RecordFacts
    <2>2. v.done = TRUE /\ v.top = w.top /\ v.read = w.read
      BY <2>1 DEF EfuseState
    <2> QED BY <2>1, <2>2
  <1>3. CASE ~(w.done \/ w.error \/ w.idx >= limit)
    <2> DEFINE hdr1 == phy[w.idx]
               hdr2 == phy[w.idx + 1]
    <2>1. PICK u \in EfuseState :
             /\ u.top = w.top
             /\ u.read = w.read \/ u.read < size
             /\ EndMark(hdr1, hdr2) => u.idx = w.idx /\ v = [u EXCEPT !.done = TRUE]
             /\ ~EndMark(hdr1, hdr2) =>
                   IF hdr1 % 32 = 15
                   THEN /\ u.idx = w.idx + 2
                        /\ v = Words(u, phy, (hdr2 \div 16) * 8 + hdr1 \div 32, hdr2 % 16)
                   ELSE /\ u.idx = w.idx + 1
                        /\ v = Words(u, phy, hdr1 \div 16, hdr1 % 16)
      BY <1>3, RecordFacts
    <2>2. v \in EfuseState
      BY RecordFacts
    <2>3. hdr1 \in 0 .. 255 /\ hdr2 \in 0 .. 255
      <3>1. w.idx \in 0 .. size - 1 /\ w.idx + 1 \in 0 .. size - 1
        BY <1>1, <1>3, DimFacts
      <3> QED BY <3>1 DEF PhysMaps
    <2> HIDE DEF hdr1, hdr2
    <2>4. u.top < size /\ u.read < size
      BY <2>1
    <2>5. CASE EndMark(hdr1, hdr2)
      <3>1. v = [u EXCEPT !.done = TRUE]
        BY <2>1, <2>5
      <3>2. v.done = TRUE /\ v.top = u.top /\ v.read = u.read
        BY <3>1 DEF EfuseState
      <3> QED BY <1>3, <2>2, <2>4, <3>2
    <2>6. CASE ~EndMark(hdr1, hdr2)
      <3>1. Proceeds(u, v) /\ u.idx >= w.idx + 1
        <4>1. CASE hdr1 % 32 = 15
          <5>1. (hdr2 \div 16) * 8 + hdr1 \div 32 \in Nat
            BY <2>3
          <5>2. u.idx = w.idx + 2 /\
                v = Words(u, phy, (hdr2 \div 16) * 8 + hdr1 \div 32, hdr2 % 16)
            BY <2>1, <2>6, <4>1
          <5>3. Proceeds(u, v)
            BY <5>1, <5>2, WordsGo
          <5> QED BY <1>1, <5>2, <5>3
        <4>2. CASE hdr1 % 32 # 15
          <5>1. hdr1 \div 16 \in Nat
            BY <2>3
          <5>2. u.idx = w.idx + 1 /\ v = Words(u, phy, hdr1 \div 16, hdr1 % 16)
            BY <2>1, <2>6, <4>2
          <5>3. Proceeds(u, v)
            BY <5>1, <5>2, WordsGo
          <5> QED BY <1>1, <5>2, <5>3
        <4> QED BY <4>1, <4>2
      <3>2. u.idx \in Nat /\ v.idx \in Nat /\ v.idx >= u.idx
        BY <2>2, <3>1 DEF EfuseState, Proceeds
      <3>3. v.idx >= w.idx + 1
        BY <1>1, <3>1, <3>2
      <3> QED BY <1>3, <2>2, <2>4, <3>1, <3>3 DEF Proceeds
    <2> QED BY <2>5, <2>6
  <1> QED BY <1>2, <1>3

(* The loop of rtw88_efuse_logical_walk, turn by turn.                     *)
LEMMA TurnsDef ==
    ASSUME NEW phy \in PhysMaps
    PROVE  /\ efuse_logical_walk(phy)[0] = EfuseStart /\ EfuseStart \in EfuseState
           /\ \A n \in 0 .. limit + 1 : efuse_logical_walk(phy)[n] \in EfuseState
           /\ \A n \in 1 .. limit + 1 :
                 efuse_logical_walk(phy)[n] = Record(efuse_logical_walk(phy)[n-1], phy)
  <1> DEFINE N == limit + 1
             W == efuse_logical_walk(phy)
             G(w) == w = [n \in 0 .. N |-> IF n = 0 THEN EfuseStart ELSE Record(w[n-1], phy)]
             step == [n \in 1 .. N |-> [x \in EfuseState |-> Record(x, phy)]]
  <1>1. N \in Nat /\ EfuseStart \in EfuseState
    <2>1. [k \in 0 .. size - 1 |-> 255] \in PhysMaps
      BY DEF PhysMaps
    <2> QED BY <2>1, DimFacts DEF EfuseStart, EfuseState
  <1>2. \A x \in EfuseState : Record(x, phy) \in EfuseState
    BY RecordFacts
  <1>3. Turning(EfuseState, N, step)
    BY <1>2 DEF Turning
  <1>4. PICK w : Run(EfuseState, N, EfuseStart, step, w)
    <2> HIDE DEF step, N
    <2> QED BY <1>1, <1>3, Recursion
  <1>5. G(w)
    <2>1. \A n \in 0 .. N : n # 0 => n \in 1 .. N /\ w[n-1] \in EfuseState
      BY <1>1, <1>4 DEF Run
    <2>2. \A n \in 0 .. N : w[n] = IF n = 0 THEN EfuseStart ELSE Record(w[n-1], phy)
      BY <1>4, <2>1 DEF Run
    <2> QED BY <1>4, <2>2 DEF Run
  <1>6. W = CHOOSE x : G(x)
    BY DEF efuse_logical_walk, EfuseStart
  <1>7. G(W)
    <2> HIDE DEF G, W
    <2> QED BY <1>5, <1>6
  <1> HIDE DEF W, N
  <1>8. W[0] = EfuseStart /\ \A n \in 1 .. N : W[n] = Record(W[n-1], phy)
    BY <1>1, <1>7
  <1> DEFINE T == {n \in 0 .. N : W[n] \in EfuseState}
  <1>9. 0 \in T
    BY <1>1, <1>8
  <1>10. ASSUME NEW n \in 1 .. N, n - 1 \in T PROVE n \in T
    <2>1. n \in 0 .. N /\ W[n-1] \in EfuseState
      BY <1>1, <1>10
    <2> QED BY <1>2, <1>8, <2>1
  <1>11. 0 .. N \subseteq T
    <2> HIDE DEF T
    <2> QED BY <1>1, <1>9, <1>10, TurnInduction
  <1>12. \A n \in 0 .. N : W[n] \in EfuseState
    BY <1>11
  <1> QED BY <1>1, <1>8, <1>12 DEF N, W

(* Whatever bytes the eFuse holds, rtw88_efuse_logical_walk comes to an    *)
(* end and never reads or writes past its arrays.                          *)
THEOREM EfuseStaysInside == \A phy \in PhysMaps : StaysInside(phy)
  <1> SUFFICES ASSUME NEW phy \in PhysMaps PROVE StaysInside(phy)
    OBVIOUS
  <1> DEFINE W == efuse_logical_walk(phy)
             P(n) == /\ W[n].top < size /\ W[n].read < size
                     /\ W[n].done \/ W[n].error \/ W[n].idx >= n
             T == {n \in 0 .. limit + 1 : P(n)}
  <1>1. limit \in Nat /\ limit + 1 \in Nat /\ size \in Nat /\ 0 < size
    BY DimFacts
  <1>2. /\ W[0] = EfuseStart
        /\ \A n \in 0 .. limit + 1 : W[n] \in EfuseState
        /\ \A n \in 1 .. limit + 1 : W[n] = Record(W[n-1], phy)
    BY TurnsDef
  <1> HIDE DEF W
  <1>3. 0 \in T
    <2>1. P(0)
      BY <1>1, <1>2 DEF EfuseStart
    <2> QED BY <1>1, <2>1
  <1>4. ASSUME NEW n \in 1 .. limit + 1, n - 1 \in T PROVE n \in T
    <2>1. P(n - 1) /\ W[n-1] \in EfuseState /\ W[n] = Record(W[n-1], phy) /\ n \in 0 .. limit + 1
      BY <1>1, <1>2, <1>4
    <2>2. /\ W[n].top < size /\ W[n].read < size
          /\ W[n-1].done \/ W[n-1].error \/ W[n-1].idx >= limit => W[n].done
          /\ W[n].done \/ W[n].error \/ W[n].idx >= W[n-1].idx + 1
      BY <2>1, RecordGoes
    <2>3. W[n-1].idx \in Nat /\ W[n].idx \in Nat
      BY <1>2, <2>1 DEF EfuseState
    <2>4. W[n].done \/ W[n].error \/ W[n].idx >= n
      <3>1. CASE W[n-1].done \/ W[n-1].error
        BY <2>2, <3>1
      <3>2. CASE W[n-1].idx >= n - 1
        BY <2>2, <2>3, <3>2
      <3> QED BY <2>1, <3>1, <3>2
    <2>5. P(n)
      BY <2>2, <2>4
    <2> QED BY <2>1, <2>5
  <1>5. 0 .. limit + 1 \subseteq T
    <2> HIDE DEF T
    <2> QED BY <1>1, <1>3, <1>4, TurnInduction
  <1>6. P(limit) /\ P(limit + 1)
    BY <1>1, <1>5
  <1>7. W[limit+1].done
    <2>1. /\ limit + 1 \in 1 .. limit + 1 /\ limit + 1 - 1 = limit /\ limit \in 0 .. limit + 1
      BY <1>1
    <2>2. W[limit+1] = Record(W[limit], phy) /\ W[limit] \in EfuseState
      BY <1>2, <2>1
    <2>3. W[limit].done \/ W[limit].error \/ W[limit].idx >= limit
      BY <1>6
    <2> QED BY <1>6, <2>2, <2>3, RecordGoes
  <1> QED BY <1>6, <1>7 DEF StaysInside, WalkEnd, W

IsRecord(r) ==
    /\ r.blk \in 0 .. 127 /\ r.long \in BOOLEAN
    /\ DOMAIN r.words \subseteq 0 .. 3
    /\ \A i \in DOMAIN r.words : r.words[i] \in (0 .. 255) \X (0 .. 255)
    /\ r.blk >= 120 => DOMAIN r.words # {}

(* A record has a block and some of four words.                            *)
LEMMA RecordType ==
    ASSUME NEW r, IsRecord(r)
    PROVE  r.blk \in Nat /\ DOMAIN r.words \subseteq 0 .. 3
  <1>1. r.blk \in 0 .. 127 /\ DOMAIN r.words \subseteq 0 .. 3
    BY Zenon DEF IsRecord
  <1> QED BY <1>1

(* The bit of a word is clear in word_en exactly if the record has it.     *)
LEMMA WordEnBits ==
    ASSUME NEW r
    PROVE  /\ WordEn(r) \in 0 .. 15
           /\ \A i \in 0 .. 3 : Bit(WordEn(r), i) = 0 <=> i \in DOMAIN r.words
           /\ DOMAIN r.words \cap (0 .. 3) # {} => WordEn(r) # 15
  <1>1. PICK b0, b1, b2, b3 \in {0, 1} :
           b0 = Off(r, 0) /\ b1 = Off(r, 1) /\ b2 = Off(r, 2) /\ b3 = Off(r, 3)
    BY DEF Off
  <1>2. WordEn(r) = b0 + 2 * b1 + 4 * b2 + 8 * b3
    BY <1>1 DEF WordEn
  <1> DEFINE e == b0 + 2 * b1 + 4 * b2 + 8 * b3
  <1>3. e \in 0 .. 15
    OBVIOUS
  <1>4. /\ Bit(e, 0) = (e \div 1) % 2 /\ Bit(e, 1) = (e \div 2) % 2
        /\ Bit(e, 2) = (e \div 4) % 2 /\ Bit(e, 3) = (e \div 8) % 2
    BY DEF Bit
  <1>5. /\ (e \div 1) % 2 = b0 /\ (e \div 2) % 2 = b1
        /\ (e \div 4) % 2 = b2 /\ (e \div 8) % 2 = b3
    OBVIOUS
  <1>6. \A i \in 0 .. 3 : i = 0 \/ i = 1 \/ i = 2 \/ i = 3
    OBVIOUS
  <1>7. \A i \in 0 .. 3 : Off(r, i) = 0 <=> i \in DOMAIN r.words
    BY DEF Off
  <1>8. \A i \in 0 .. 3 : Bit(WordEn(r), i) = Off(r, i)
    <2> HIDE DEF e
    <2> QED BY <1>1, <1>2, <1>4, <1>5, <1>6 DEF e
  <1>9. e = 15 => b0 = 1 /\ b1 = 1 /\ b2 = 1 /\ b3 = 1
    OBVIOUS
  <1>10. e = 15 => \A i \in 0 .. 3 : i \notin DOMAIN r.words
    BY <1>1, <1>6, <1>7, <1>9
  <1> HIDE DEF e
  <1> QED BY <1>2, <1>3, <1>7, <1>8, <1>10 DEF e

(* A sequence begins with another one.                                     *)
Begins(t, s) == Len(s) <= Len(t) /\ \A j \in 1 .. Len(s) : t[j] = s[j]
ByteSeqs == Seq(0 .. 255)

(* A sequence of bytes has a length and bytes.                             *)
LEMMA ByteFacts ==
    \A s \in ByteSeqs : Len(s) \in Nat /\ \A j \in 1 .. Len(s) : s[j] \in 0 .. 255
  <1> SUFFICES ASSUME NEW s \in ByteSeqs
               PROVE  Len(s) \in Nat /\ \A j \in 1 .. Len(s) : s[j] \in 0 .. 255
    OBVIOUS
  <1>1. Len(s) \in Nat /\ s \in [1 .. Len(s) -> 0 .. 255]
    <2> DEFINE S == 0 .. 255
    <2>1. s \in Seq(S)
      BY DEF ByteSeqs
    <2> HIDE DEF S
    <2>2. Len(s) \in Nat /\ s \in [1 .. Len(s) -> S]
      BY <2>1, LenProperties
    <2> QED BY <2>2 DEF S
  <1>2. \A j \in 1 .. Len(s) : s[j] \in 0 .. 255
    BY <1>1, Zenon
  <1> QED BY <1>1, <1>2

(* Concatenation of bytes, and what its parts are.                         *)
LEMMA CatBytes ==
    ASSUME NEW s \in ByteSeqs, NEW t \in ByteSeqs
    PROVE  /\ s \o t \in ByteSeqs /\ Len(s \o t) = Len(s) + Len(t)
           /\ Len(s) \in Nat /\ Len(t) \in Nat
           /\ Begins(s \o t, s)
           /\ \A j \in 1 .. Len(t) : (s \o t)[Len(s) + j] = t[j]
  <1>1. Len(s) \in Nat /\ Len(t) \in Nat /\ s \o t \in ByteSeqs /\ Len(s \o t) = Len(s) + Len(t)
    BY DEF ByteSeqs
  <1>2. \A i \in 1 .. Len(s) + Len(t) :
           (s \o t)[i] = IF i <= Len(s) THEN s[i] ELSE t[i - Len(s)]
    BY ConcatProperties DEF ByteSeqs
  <1>3. \A j \in 1 .. Len(s) : (s \o t)[j] = s[j]
    BY <1>1, <1>2
  <1>4. ASSUME NEW j \in 1 .. Len(t) PROVE (s \o t)[Len(s) + j] = t[j]
    <2>1. PICK i \in 1 .. Len(s) + Len(t) : i = Len(s) + j /\ ~(i <= Len(s)) /\ i - Len(s) = j
      BY <1>1
    <2> QED BY <1>2, <2>1
  <1> QED BY <1>1, <1>3, <1>4 DEF Begins

(* Beginnings of beginnings.                                               *)
LEMMA BeginsTransitive ==
    ASSUME NEW a \in ByteSeqs, NEW b \in ByteSeqs, NEW c \in ByteSeqs,
           Begins(b, a), Begins(c, b)
    PROVE  Begins(c, a)
  <1>1. Len(a) \in Nat /\ Len(b) \in Nat /\ Len(c) \in Nat
    BY DEF ByteSeqs
  <1>2. Len(a) <= Len(c) /\ \A j \in 1 .. Len(a) : j \in 1 .. Len(b)
    BY <1>1 DEF Begins
  <1> QED BY <1>2 DEF Begins

(* The bytes of a record and of its beginnings.                            *)
Enc(r) == [i \in 0 .. 4 |->
             IF i = 0 THEN Header(r)
             ELSE IF i = 1 THEN Header(r) \o WordBytes(r, 0)
             ELSE IF i = 2 THEN Header(r) \o WordBytes(r, 0) \o WordBytes(r, 1)
             ELSE IF i = 3 THEN Header(r) \o WordBytes(r, 0) \o WordBytes(r, 1)
                                \o WordBytes(r, 2)
             ELSE Encode(r)]

(* A header has one or two bytes, each announced word two more.            *)
LEMMA EncodeFacts ==
    ASSUME NEW r, IsRecord(r)
    PROVE  /\ Enc(r)[0] = Header(r) /\ Enc(r)[4] = Encode(r)
           /\ Header(r) # <<>> /\ Len(Header(r)) \in 1 .. 2
           /\ \A i \in 0 .. 4 : Enc(r)[i] \in ByteSeqs /\ Begins(Encode(r), Enc(r)[i])
           /\ \A i \in 0 .. 3 :
                 /\ i \in DOMAIN r.words =>
                       /\ Len(Enc(r)[i+1]) = Len(Enc(r)[i]) + 2
                       /\ Enc(r)[i+1][Len(Enc(r)[i]) + 1] = r.words[i][1]
                       /\ Enc(r)[i+1][Len(Enc(r)[i]) + 2] = r.words[i][2]
                 /\ i \notin DOMAIN r.words => Len(Enc(r)[i+1]) = Len(Enc(r)[i])
  <1> DEFINE E == Enc(r)
  <1>1. /\ E[0] = Header(r) /\ E[4] = Encode(r)
        /\ E[1] = E[0] \o WordBytes(r, 0) /\ E[2] = E[1] \o WordBytes(r, 1)
        /\ E[3] = E[2] \o WordBytes(r, 2) /\ E[4] = E[3] \o WordBytes(r, 3)
    <2>1. E[0] = Header(r) /\ E[4] = Encode(r)
      BY DEF Enc
    <2>2. E[1] = E[0] \o WordBytes(r, 0) /\ E[2] = E[1] \o WordBytes(r, 1)
      BY DEF Enc
    <2>3. E[3] = E[2] \o WordBytes(r, 2)
      BY DEF Enc
    <2>4. E[4] = E[3] \o WordBytes(r, 3)
      BY DEF Enc, Encode
    <2> QED BY <2>1, <2>2, <2>3, <2>4
  <1>2. Header(r) \in ByteSeqs /\ Len(Header(r)) \in 1 .. 2 /\ Header(r) # <<>>
    <2>1. r.blk \in 0 .. 127 /\ WordEn(r) \in 0 .. 15
      BY WordEnBits DEF IsRecord
    <2>2. /\ (r.blk % 8) * 32 + 15 \in 0 .. 255
          /\ (r.blk \div 8) * 16 + WordEn(r) \in 0 .. 255
          /\ r.blk < 16 => r.blk * 16 + WordEn(r) \in 0 .. 255
      BY <2>1
    <2>3. CASE r.long \/ r.blk >= 16 \/ (WordEn(r) = 15 /\ (r.blk % 2 = 0 \/ r.blk = 15))
      <3>1. Header(r) = <<(r.blk % 8) * 32 + 15, (r.blk \div 8) * 16 + WordEn(r)>>
        BY <2>3 DEF Header
      <3> QED BY <2>2, <3>1 DEF ByteSeqs
    <2>4. CASE ~(r.long \/ r.blk >= 16 \/ (WordEn(r) = 15 /\ (r.blk % 2 = 0 \/ r.blk = 15)))
      <3>1. Header(r) = <<r.blk * 16 + WordEn(r)>>
        BY <2>4 DEF Header
      <3>2. r.blk < 16
        BY <2>1, <2>4
      <3> QED BY <2>2, <3>1, <3>2 DEF ByteSeqs
    <2> QED BY <2>3, <2>4
  <1>3. ASSUME NEW i \in 0 .. 3
        PROVE  /\ WordBytes(r, i) \in ByteSeqs
               /\ i \in DOMAIN r.words => /\ Len(WordBytes(r, i)) = 2
                                          /\ WordBytes(r, i)[1] = r.words[i][1]
                                          /\ WordBytes(r, i)[2] = r.words[i][2]
               /\ i \notin DOMAIN r.words => Len(WordBytes(r, i)) = 0
    <2>1. CASE i \in DOMAIN r.words
      <3>1. r.words[i] \in (0 .. 255) \X (0 .. 255) /\ WordBytes(r, i) = r.words[i]
        BY <2>1 DEF IsRecord, WordBytes
      <3>2. PICK a, b \in 0 .. 255 : r.words[i] = <<a, b>>
        <4>1. /\ r.words[i][1] \in 0 .. 255 /\ r.words[i][2] \in 0 .. 255
              /\ r.words[i] = <<r.words[i][1], r.words[i][2]>>
          BY <3>1
        <4> QED BY <4>1, Zenon
      <3>3. <<a, b>> \in ByteSeqs /\ Len(<<a, b>>) = 2
        BY DEF ByteSeqs
      <3> QED BY <2>1, <3>1, <3>2, <3>3
    <2>2. CASE i \notin DOMAIN r.words
      <3>1. WordBytes(r, i) = <<>>
        BY <2>2 DEF WordBytes
      <3> QED BY <2>2, <3>1 DEF ByteSeqs
    <2> QED BY <2>1, <2>2
  <1> HIDE DEF E
  <1>4. ASSUME NEW i \in 0 .. 3, E[i] \in ByteSeqs, E[i+1] = E[i] \o WordBytes(r, i)
        PROVE  /\ E[i+1] \in ByteSeqs /\ Begins(E[i+1], E[i])
               /\ i \in DOMAIN r.words =>
                     /\ Len(E[i+1]) = Len(E[i]) + 2
                     /\ E[i+1][Len(E[i]) + 1] = r.words[i][1]
                     /\ E[i+1][Len(E[i]) + 2] = r.words[i][2]
               /\ i \notin DOMAIN r.words => Len(E[i+1]) = Len(E[i])
    <2>1. PICK s \in ByteSeqs, t \in ByteSeqs : s = E[i] /\ t = WordBytes(r, i)
      BY <1>3, <1>4
    <2>2. /\ s \o t \in ByteSeqs /\ Len(s \o t) = Len(s) + Len(t)
          /\ Len(s) \in Nat /\ Len(t) \in Nat /\ Begins(s \o t, s)
          /\ \A j \in 1 .. Len(t) : (s \o t)[Len(s) + j] = t[j]
      BY CatBytes
    <2>3. E[i+1] = s \o t
      BY <1>4, <2>1
    <2>4. CASE i \in DOMAIN r.words
      <3>1. Len(t) = 2 /\ t[1] = r.words[i][1] /\ t[2] = r.words[i][2]
        BY <1>3, <2>1, <2>4
      <3>2. 1 \in 1 .. Len(t) /\ 2 \in 1 .. Len(t)
        BY <3>1
      <3>3. (s \o t)[Len(s) + 1] = t[1] /\ (s \o t)[Len(s) + 2] = t[2]
        BY <2>2, <3>2
      <3> QED BY <2>1, <2>2, <2>3, <2>4, <3>1, <3>3
    <2>5. CASE i \notin DOMAIN r.words
      <3>1. Len(t) = 0
        BY <1>3, <2>1, <2>5
      <3> QED BY <2>1, <2>2, <2>3, <2>5, <3>1
    <2> QED BY <2>4, <2>5
  <1> DEFINE Step(i) == /\ E[i+1] \in ByteSeqs /\ Begins(E[i+1], E[i])
                        /\ i \in DOMAIN r.words =>
                              /\ Len(E[i+1]) = Len(E[i]) + 2
                              /\ E[i+1][Len(E[i]) + 1] = r.words[i][1]
                              /\ E[i+1][Len(E[i]) + 2] = r.words[i][2]
                        /\ i \notin DOMAIN r.words => Len(E[i+1]) = Len(E[i])
  <1>5. \A i \in 0 .. 3 : E[i] \in ByteSeqs /\ E[i+1] = E[i] \o WordBytes(r, i) => Step(i)
    BY <1>4
  <1>6. /\ 0 + 1 = 1 /\ 1 + 1 = 2 /\ 2 + 1 = 3 /\ 3 + 1 = 4
        /\ 0 \in 0 .. 3 /\ 1 \in 0 .. 3 /\ 2 \in 0 .. 3 /\ 3 \in 0 .. 3
        /\ \A i \in 0 .. 3 : i = 0 \/ i = 1 \/ i = 2 \/ i = 3
        /\ \A i \in 0 .. 4 : i = 0 \/ i = 1 \/ i = 2 \/ i = 3 \/ i = 4
    OBVIOUS
  <1>7. Step(0) /\ E[1] \in ByteSeqs
    <2>1. E[0] \in ByteSeqs /\ E[0+1] = E[0] \o WordBytes(r, 0)
      BY <1>1, <1>2, <1>6
    <2>2. Step(0)
      BY <1>5, <1>6, <2>1
    <2> QED BY <1>6, <2>2
  <1>8. Step(1) /\ E[2] \in ByteSeqs
    <2>1. E[1+1] = E[1] \o WordBytes(r, 1)
      BY <1>1, <1>6
    <2>2. Step(1)
      BY <1>5, <1>6, <1>7, <2>1
    <2> QED BY <1>6, <2>2
  <1>9. Step(2) /\ E[3] \in ByteSeqs
    <2>1. E[2+1] = E[2] \o WordBytes(r, 2)
      BY <1>1, <1>6
    <2>2. Step(2)
      BY <1>5, <1>6, <1>8, <2>1
    <2> QED BY <1>6, <2>2
  <1>10. Step(3) /\ E[4] \in ByteSeqs
    <2>1. E[3+1] = E[3] \o WordBytes(r, 3)
      BY <1>1, <1>6
    <2>2. Step(3)
      BY <1>5, <1>6, <1>9, <2>1
    <2> QED BY <1>6, <2>2
  <1>11. \A i \in 0 .. 4 : E[i] \in ByteSeqs /\ Begins(E[4], E[i])
    <2>1. E[0] \in ByteSeqs
      BY <1>1, <1>2
    <2>2. Begins(E[4], E[4])
      BY <1>10 DEF Begins, ByteSeqs
    <2>3. Begins(E[4], E[3]) /\ Begins(E[3], E[2]) /\ Begins(E[2], E[1]) /\ Begins(E[1], E[0])
      BY <1>6, <1>7, <1>8, <1>9, <1>10
    <2>4. Begins(E[4], E[2])
      BY <1>8, <1>9, <1>10, <2>3, BeginsTransitive
    <2>5. Begins(E[4], E[1])
      BY <1>7, <1>8, <1>10, <2>3, <2>4, BeginsTransitive
    <2>6. Begins(E[4], E[0])
      BY <1>7, <1>10, <2>1, <2>3, <2>5, BeginsTransitive
    <2> QED BY <1>6, <1>7, <1>8, <1>9, <1>10, <2>1, <2>2, <2>3, <2>4, <2>5, <2>6
  <1>12. \A i \in 0 .. 3 : Step(i)
    <2> HIDE DEF Step
    <2> QED BY <1>6, <1>7, <1>8, <1>9, <1>10
  <1> QED BY <1>1, <1>2, <1>11, <1>12 DEF E

(* Where byte k of the logical map is: block, word and half.               *)
LEMMA Place ==
    ASSUME NEW k \in Nat, NEW blk \in Nat, NEW i \in 0 .. 3
    PROVE  /\ k \div 8 \in Nat /\ (k % 8) \div 2 \in 0 .. 3 /\ k % 2 \in 0 .. 1
           /\ k = blk * 8 + i * 2 <=> k \div 8 = blk /\ (k % 8) \div 2 = i /\ k % 2 = 0
           /\ k = blk * 8 + i * 2 + 1 <=> k \div 8 = blk /\ (k % 8) \div 2 = i /\ k % 2 = 1
           /\ blk * 8 + i * 2 + 1 >= size <=> blk >= size \div 8
  <1>1. /\ k \div 8 \in Nat /\ (k % 8) \div 2 \in 0 .. 3 /\ k % 2 \in 0 .. 1
    OBVIOUS
  <1>2. k = blk * 8 + i * 2 <=> k \div 8 = blk /\ (k % 8) \div 2 = i /\ k % 2 = 0
    OBVIOUS
  <1>3. k = blk * 8 + i * 2 + 1 <=> k \div 8 = blk /\ (k % 8) \div 2 = i /\ k % 2 = 1
    OBVIOUS
  <1>4. blk * 8 + i * 2 + 1 >= size <=> blk >= size \div 8
    BY DimFacts
  <1> QED BY <1>1, <1>2, <1>3, <1>4

(* The bytes of record r are in the physical map from `base' on.           *)
Holds(phy, base, r) ==
    \A j \in 1 .. Len(Encode(r)) :
        base + j - 1 < size => phy[base + j - 1] = Encode(r)[j]

(* A record that is refused.                                               *)
Refused(r, base) ==
    /\ DOMAIN r.words # {}
    /\ r.blk >= size \div 8 \/ base + Len(Encode(r)) > limit

Wrote(r, i, k) ==
    k \div 8 = r.blk /\ (k % 8) \div 2 \in DOMAIN r.words /\ (k % 8) \div 2 < i

(* After i of the four words: refused, or all before are where they        *)
(* belong and nothing else has changed.                                    *)
Laid(r, base, u, i, v) ==
    \/ v.error /\ Refused(r, base)
    \/ /\ ~v.error /\ v.done = u.done /\ v.idx = base + Len(Enc(r)[i])
       /\ \A k \in 0 .. size - 1 :
             v.log[k] = IF Wrote(r, i, k) THEN r.words[(k % 8) \div 2][(k % 2) + 1]
                        ELSE u.log[k]
       /\ (\E j \in DOMAIN r.words : j < i) =>
             r.blk < size \div 8 /\ base + Len(Enc(r)[i]) <= limit

(* One more word.                                                          *)
LEMMA WordLays ==
    ASSUME NEW r, IsRecord(r), NEW base \in Nat, NEW phy \in PhysMaps,
           Holds(phy, base, r), NEW u \in EfuseState, NEW v \in EfuseState,
           NEW i \in 0 .. 3, Laid(r, base, u, i, v), NEW x,
           x = IF Bit(WordEn(r), i) = 0 THEN Word(v, phy, r.blk, i) ELSE v
    PROVE  x \in EfuseState /\ Laid(r, base, u, i + 1, x)
  <1> DEFINE D == DOMAIN r.words
             e0 == Len(Enc(r)[i])
             e1 == Len(Enc(r)[i+1])
             e == Len(Encode(r))
             blk == r.blk
  <1>1. blk \in Nat /\ D \subseteq 0 .. 3 /\ i \in Nat
    BY DEF IsRecord
  <1>2. Bit(WordEn(r), i) = 0 <=> i \in D
    BY WordEnBits
  <1>3. /\ e0 \in Nat /\ e1 \in Nat /\ e \in Nat /\ e0 <= e /\ e1 <= e
        /\ Begins(Encode(r), Enc(r)[i+1])
    <2>1. i \in 0 .. 4 /\ i + 1 \in 0 .. 4
      OBVIOUS
    <2>2. /\ Enc(r)[i] \in ByteSeqs /\ Begins(Encode(r), Enc(r)[i])
          /\ Enc(r)[i+1] \in ByteSeqs /\ Begins(Encode(r), Enc(r)[i+1])
      BY <2>1, EncodeFacts
    <2>3. Enc(r)[4] \in ByteSeqs /\ Enc(r)[4] = Encode(r)
      BY EncodeFacts
    <2> QED BY <2>2, <2>3 DEF Begins, ByteSeqs
  <1>4. CASE i \notin D
    <2>1. x = v /\ e1 = e0
      BY <1>2, <1>4, EncodeFacts
    <2>2. \A k : Wrote(r, i + 1, k) <=> Wrote(r, i, k)
      <3>1. \A j \in D : j < i + 1 <=> j < i
        BY <1>1, <1>4
      <3> QED BY <3>1 DEF Wrote
    <2>3. (\E j \in D : j < i + 1) => (\E j \in D : j < i)
      BY <1>1, <1>4
    <2> QED BY <2>1, <2>2, <2>3 DEF Laid
  <1>5. CASE i \in D
    <2>1. x = Word(v, phy, blk, i)
      BY <1>2, <1>5
    <2>2. /\ e1 = e0 + 2
          /\ Enc(r)[i+1][e0 + 1] = r.words[i][1] /\ Enc(r)[i+1][e0 + 2] = r.words[i][2]
      BY <1>5, EncodeFacts
    <2>w. WordDoes(v, phy, blk, i, x)
      <3> HIDE DEF blk
      <3> QED BY <1>1, <2>1, WordFacts
    <2>3. x \in EfuseState
      BY <2>w DEF WordDoes
    <2> HIDE DEF e0, e1, e, blk, D
    <2>4. CASE v.error /\ Refused(r, base)
      <3>1. x = [v EXCEPT !.error = TRUE]
        BY <2>4, <2>w DEF WordDoes
      <3>2. x.error
        BY <3>1 DEF EfuseState
      <3> QED BY <2>3, <2>4, <3>2 DEF Laid
    <2>5. ASSUME ~v.error, v.done = u.done, v.idx = base + e0,
                 \A k \in 0 .. size - 1 :
                    v.log[k] = IF Wrote(r, i, k) THEN r.words[(k % 8) \div 2][(k % 2) + 1]
                               ELSE u.log[k]
          PROVE  Laid(r, base, u, i + 1, x)
      <3>1. WordBad(v.idx, blk, i) <=> base + e1 > limit \/ blk >= size \div 8
        <4>1. blk * 8 + i * 2 + 1 >= size <=> blk >= size \div 8
          BY <1>1, Place
        <4>2. v.idx + 1 >= limit <=> base + e1 > limit
          BY <1>3, <2>2, <2>5, DimFacts
        <4> QED BY <4>1, <4>2 DEF WordBad
      <3>2. CASE WordBad(v.idx, blk, i)
        <4>1. x = [v EXCEPT !.error = TRUE]
          BY <3>2, <2>w DEF WordDoes
        <4>2. x.error
          BY <4>1 DEF EfuseState
        <4>3. base + e1 > limit => base + e > limit
          BY <1>3, DimFacts
        <4>4. Refused(r, base)
          BY <1>5, <3>1, <3>2, <4>3 DEF Refused, D, e, blk
        <4> QED BY <4>2, <4>4 DEF Laid
      <3>3. CASE ~WordBad(v.idx, blk, i)
        <4>1. /\ x.error = v.error /\ x.done = v.done /\ x.idx = v.idx + 2
              /\ \A k \in 0 .. size - 1 :
                       x.log[k] = IF k = blk * 8 + i * 2 THEN phy[v.idx]
                                  ELSE IF k = blk * 8 + i * 2 + 1 THEN phy[v.idx + 1]
                                  ELSE v.log[k]
          BY <2>5, <3>3, <2>w DEF WordDoes
        <4>2. base + e1 <= limit /\ blk < size \div 8
          <5>1. size \div 8 \in Nat
            BY DimFacts
          <5> QED BY <1>1, <1>3, <3>1, <3>3, <5>1, DimFacts
        <4>3. phy[v.idx] = r.words[i][1] /\ phy[v.idx + 1] = r.words[i][2]
          <5>1. /\ e0 + 1 \in 1 .. e1 /\ e0 + 2 \in 1 .. e1
                /\ e0 + 1 \in 1 .. e /\ e0 + 2 \in 1 .. e
            BY <1>3, <2>2
          <5>2. /\ Encode(r)[e0 + 1] = Enc(r)[i+1][e0 + 1]
                /\ Encode(r)[e0 + 2] = Enc(r)[i+1][e0 + 2]
            BY <1>3, <5>1 DEF Begins, e1
          <5>3. PICK j1 \in 1 .. e, j2 \in 1 .. e : j1 = e0 + 1 /\ j2 = e0 + 2
            BY <5>1
          <5>4. /\ base + j1 - 1 = v.idx /\ base + j1 - 1 < size
                /\ base + j2 - 1 = v.idx + 1 /\ base + j2 - 1 < size
            BY <1>3, <2>2, <2>5, <4>2, <5>3, DimFacts
          <5>5. phy[base + j1 - 1] = Encode(r)[j1] /\ phy[base + j2 - 1] = Encode(r)[j2]
            BY <5>4 DEF Holds, e
          <5> QED BY <2>2, <5>2, <5>3, <5>4, <5>5
        <4>4. ASSUME NEW k \in 0 .. size - 1
              PROVE  x.log[k] = IF Wrote(r, i + 1, k)
                                THEN r.words[(k % 8) \div 2][(k % 2) + 1] ELSE u.log[k]
          <5> DEFINE j == (k % 8) \div 2
                     h == k % 2
          <5>1. /\ j \in 0 .. 3 /\ h \in 0 .. 1
                /\ k = blk * 8 + i * 2 <=> k \div 8 = blk /\ j = i /\ h = 0
                /\ k = blk * 8 + i * 2 + 1 <=> k \div 8 = blk /\ j = i /\ h = 1
            <6>1. k \in Nat
              BY DimFacts
            <6> QED BY <1>1, <6>1, Place
          <5>2. x.log[k] = IF k = blk * 8 + i * 2 THEN phy[v.idx]
                           ELSE IF k = blk * 8 + i * 2 + 1 THEN phy[v.idx + 1]
                           ELSE v.log[k]
            BY <4>1
          <5>3. v.log[k] = IF Wrote(r, i, k) THEN r.words[j][h + 1] ELSE u.log[k]
            BY <2>5
          <5>4. /\ Wrote(r, i, k) <=> k \div 8 = blk /\ j \in D /\ j < i
                /\ Wrote(r, i + 1, k) <=> k \div 8 = blk /\ j \in D /\ j < i + 1
            BY DEF Wrote, D, blk
          <5> HIDE DEF j, h
          <5>5. CASE k \div 8 = blk /\ j = i
            <6>1. Wrote(r, i + 1, k)
              BY <1>1, <1>5, <5>4, <5>5
            <6>2. CASE h = 0
              <7>1. h + 1 = 1
                BY <6>2
              <7>2. x.log[k] = phy[v.idx]
                BY <5>1, <5>2, <5>5, <6>2
              <7> QED BY <4>3, <5>5, <6>1, <7>1, <7>2 DEF j, h
            <6>3. CASE h = 1
              <7>1. h + 1 = 2
                BY <6>3
              <7>2. x.log[k] = phy[v.idx + 1]
                BY <5>1, <5>2, <5>5, <6>3
              <7> QED BY <4>3, <5>5, <6>1, <7>1, <7>2 DEF j, h
            <6> QED BY <5>1, <6>2, <6>3
          <5>6. CASE ~(k \div 8 = blk /\ j = i)
            <6>1. Wrote(r, i + 1, k) <=> Wrote(r, i, k)
              BY <1>1, <5>1, <5>4, <5>6
            <6>2. x.log[k] = v.log[k]
              BY <5>1, <5>2, <5>6
            <6> QED BY <5>3, <6>1, <6>2 DEF j, h
          <5> QED BY <5>5, <5>6
        <4>5. x.idx = base + e1
          BY <1>3, <2>2, <2>5, <4>1
        <4>6. ~x.error /\ x.done = u.done
          BY <2>5, <4>1
        <4> QED BY <4>2, <4>4, <4>5, <4>6 DEF Laid, e1, blk
      <3> QED BY <3>2, <3>3
    <2> QED BY <2>3, <2>4, <2>5 DEF Laid, e0
  <1> QED BY <1>4, <1>5

(* All four words.                                                         *)
LEMMA WordsLay ==
    ASSUME NEW r, IsRecord(r), NEW base \in Nat, NEW phy \in PhysMaps,
           Holds(phy, base, r), NEW u \in EfuseState, ~u.error,
           u.idx = base + Len(Header(r))
    PROVE  Laid(r, base, u, 4, Words(u, phy, r.blk, WordEn(r)))
  <1> DEFINE Turn(v, i) == IF Bit(WordEn(r), i) = 0 THEN Word(v, phy, r.blk, i) ELSE v
  <1>1. Words(u, phy, r.blk, WordEn(r)) = Turn(Turn(Turn(Turn(u, 0), 1), 2), 3)
    BY DEF Words
  <1>2. ASSUME NEW v \in EfuseState, NEW i \in 0 .. 3, Laid(r, base, u, i, v)
        PROVE  Turn(v, i) \in EfuseState /\ Laid(r, base, u, i + 1, Turn(v, i))
    BY <1>2, WordLays
  <1>3. Laid(r, base, u, 0, u)
    <2>1. Enc(r)[0] = Header(r)
      BY EncodeFacts
    <2>2. ~(\E j \in DOMAIN r.words : j < 0)
      BY DEF IsRecord
    <2>3. \A k \in 0 .. size - 1 : ~Wrote(r, 0, k)
      <3>1. \A j \in DOMAIN r.words : ~(j < 0)
        BY <2>2
      <3> QED BY <3>1 DEF Wrote
    <2> QED BY <2>1, <2>2, <2>3 DEF Laid
  <1> HIDE DEF Turn
  <1> DEFINE a == Turn(u, 0)
             b == Turn(a, 1)
             c == Turn(b, 2)
             d == Turn(c, 3)
  <1>4. a \in EfuseState /\ Laid(r, base, u, 1, a)
    <2>1. 0 \in 0 .. 3 /\ 0 + 1 = 1
      OBVIOUS
    <2>2. Turn(u, 0) \in EfuseState /\ Laid(r, base, u, 0 + 1, Turn(u, 0))
      BY <1>2, <1>3, <2>1
    <2> QED BY <2>1, <2>2
  <1> HIDE DEF a
  <1>5. b \in EfuseState /\ Laid(r, base, u, 2, b)
    <2>1. 1 \in 0 .. 3 /\ 1 + 1 = 2
      OBVIOUS
    <2>2. Turn(a, 1) \in EfuseState /\ Laid(r, base, u, 1 + 1, Turn(a, 1))
      BY <1>2, <1>4, <2>1
    <2> QED BY <2>1, <2>2
  <1> HIDE DEF b
  <1>6. c \in EfuseState /\ Laid(r, base, u, 3, c)
    <2>1. 2 \in 0 .. 3 /\ 2 + 1 = 3
      OBVIOUS
    <2>2. Turn(b, 2) \in EfuseState /\ Laid(r, base, u, 2 + 1, Turn(b, 2))
      BY <1>2, <1>5, <2>1
    <2> QED BY <2>1, <2>2
  <1> HIDE DEF c
  <1>7. Laid(r, base, u, 4, d)
    <2>1. 3 \in 0 .. 3 /\ 3 + 1 = 4
      OBVIOUS
    <2>2. Laid(r, base, u, 3 + 1, Turn(c, 3))
      BY <1>2, <1>6, <2>1
    <2> QED BY <2>1, <2>2
  <1> QED BY <1>1, <1>7 DEF a, b, c, d

(* The two forms of a header are told apart, are not taken for the end,    *)
(* and give back block and word_en.                                        *)
LEMMA HeaderReads ==
    ASSUME NEW r, IsRecord(r), NEW h1, NEW h2, h1 = Header(r)[1],
           Len(Header(r)) = 2 => h2 = Header(r)[2]
    PROVE  /\ ~EndMark(h1, h2)
           /\ h1 % 32 = 15 =>
                 /\ Len(Header(r)) = 2
                 /\ (h2 \div 16) * 8 + h1 \div 32 = r.blk /\ h2 % 16 = WordEn(r)
           /\ h1 % 32 # 15 =>
                 /\ Len(Header(r)) = 1
                 /\ h1 \div 16 = r.blk /\ h1 % 16 = WordEn(r)
  <1> DEFINE b == r.blk
             e == WordEn(r)
  <1>1. b \in 0 .. 127 /\ e \in 0 .. 15 /\ ~(b >= 120 /\ e = 15)
    <2>1. b >= 120 => DOMAIN r.words \cap (0 .. 3) # {}
      BY DEF IsRecord
    <2> QED BY <2>1, WordEnBits DEF IsRecord
  <1>2. CASE r.long \/ b >= 16 \/ (e = 15 /\ (b % 2 = 0 \/ b = 15))
    <2>1. Header(r) = <<(b % 8) * 32 + 15, (b \div 8) * 16 + e>>
      BY <1>2 DEF Header
    <2>2. h1 = (b % 8) * 32 + 15 /\ h2 = (b \div 8) * 16 + e /\ Len(Header(r)) = 2
      BY <2>1
    <2> HIDE DEF b, e
    <2>3. /\ h1 % 32 = 15 /\ h1 # 255 /\ h2 # 255
      BY <1>1, <2>2
    <2>4. h1 \div 32 = b % 8 /\ h2 \div 16 = b \div 8 /\ h2 % 16 = e
      BY <1>1, <2>2
    <2>5. (b \div 8) * 8 + (b % 8) = b
      BY <1>1
    <2> QED BY <2>2, <2>3, <2>4, <2>5 DEF EndMark, b, e
  <1>3. CASE ~(r.long \/ b >= 16 \/ (e = 15 /\ (b % 2 = 0 \/ b = 15)))
    <2>1. Header(r) = <<b * 16 + e>>
      BY <1>3 DEF Header
    <2>2. h1 = b * 16 + e /\ Len(Header(r)) = 1
      BY <2>1
    <2>3. b < 16 /\ ~(e = 15 /\ (b % 2 = 0 \/ b = 15))
      BY <1>1, <1>3
    <2> HIDE DEF b, e
    <2>4. h1 % 32 # 15 /\ h1 # 255 /\ h1 \div 16 = b /\ h1 % 16 = e
      BY <1>1, <2>2, <2>3
    <2> QED BY <2>2, <2>4 DEF EndMark, b, e
  <1> QED BY <1>2, <1>3

(* A turn at a record reads it whole.                                      *)
LEMMA RecordLays ==
    ASSUME NEW r, IsRecord(r), NEW w \in EfuseState, NEW phy \in PhysMaps,
           ~w.error, ~w.done, w.idx < limit, Holds(phy, w.idx, r),
           NEW v, v = Record(w, phy)
    PROVE  Laid(r, w.idx, w, 4, v)
  <1> DEFINE h1 == phy[w.idx]
             h2 == phy[w.idx + 1]
  <1>1. w.idx \in Nat /\ w.idx < size /\ w.idx + 1 < size
    BY DimFacts DEF EfuseState
  <1>2. h1 = Header(r)[1] /\ (Len(Header(r)) = 2 => h2 = Header(r)[2])
    <2>1. /\ Enc(r)[0] = Header(r) /\ Begins(Encode(r), Header(r))
          /\ Len(Header(r)) \in 1 .. 2 /\ Enc(r)[4] = Encode(r) /\ Encode(r) \in ByteSeqs
      <3>1. 0 \in 0 .. 4 /\ 4 \in 0 .. 4
        OBVIOUS
      <3> QED BY <3>1, EncodeFacts
    <2>2. Len(Encode(r)) \in Nat /\ Len(Encode(r)) >= Len(Header(r))
      BY <2>1 DEF Begins, ByteSeqs
    <2>3. 1 \in 1 .. Len(Header(r)) /\ 1 \in 1 .. Len(Encode(r)) /\ w.idx + 1 - 1 = w.idx
      <3>1. \A m, n \in Nat : m \in 1 .. 2 /\ n >= m => 1 \in 1 .. m /\ 1 \in 1 .. n
        OBVIOUS
      <3>2. Len(Header(r)) \in Nat
        BY <2>1
      <3>3. w.idx + 1 - 1 = w.idx
        BY <1>1
      <3> QED BY <2>1, <2>2, <3>1, <3>2, <3>3
    <2>4. h1 = Header(r)[1]
      <3>1. Encode(r)[1] = Header(r)[1]
        BY <2>1, <2>3 DEF Begins
      <3>2. phy[w.idx + 1 - 1] = Encode(r)[1]
        BY <1>1, <2>3 DEF Holds
      <3> QED BY <2>3, <3>1, <3>2
    <2>5. ASSUME Len(Header(r)) = 2 PROVE h2 = Header(r)[2]
      <3>1. 2 \in 1 .. Len(Header(r)) /\ 2 \in 1 .. Len(Encode(r)) /\ w.idx + 2 - 1 = w.idx + 1
        BY <1>1, <2>2, <2>5
      <3>2. Encode(r)[2] = Header(r)[2]
        BY <2>1, <3>1 DEF Begins
      <3>3. phy[w.idx + 2 - 1] = Encode(r)[2]
        BY <1>1, <3>1 DEF Holds
      <3> QED BY <3>1, <3>2, <3>3
    <2> QED BY <2>4, <2>5
  <1>3. ~(w.done \/ w.error \/ w.idx >= limit)
    BY <1>1, DimFacts
  <1>4. PICK u \in EfuseState :
          /\ u.error = w.error /\ u.done = w.done /\ u.log = w.log
          /\ ~EndMark(h1, h2) =>
                IF h1 % 32 = 15
                THEN /\ u.idx = w.idx + 2
                     /\ v = Words(u, phy, (h2 \div 16) * 8 + h1 \div 32, h2 % 16)
                ELSE /\ u.idx = w.idx + 1
                     /\ v = Words(u, phy, h1 \div 16, h1 % 16)
    BY <1>3, RecordFacts
  <1> HIDE DEF h1, h2
  <1>5. u.idx = w.idx + Len(Header(r)) /\ v = Words(u, phy, r.blk, WordEn(r))
    <2>1. ~EndMark(h1, h2)
      BY <1>2, HeaderReads
    <2>2. CASE h1 % 32 = 15
      <3>1. /\ Len(Header(r)) = 2
            /\ (h2 \div 16) * 8 + h1 \div 32 = r.blk /\ h2 % 16 = WordEn(r)
        BY <1>2, <2>2, HeaderReads
      <3> QED BY <1>4, <2>1, <2>2, <3>1
    <2>3. CASE h1 % 32 # 15
      <3>1. Len(Header(r)) = 1 /\ h1 \div 16 = r.blk /\ h1 % 16 = WordEn(r)
        BY <1>2, <2>3, HeaderReads
      <3> QED BY <1>4, <2>1, <2>3, <3>1
    <2> QED BY <2>2, <2>3
  <1>6. ~u.error
    BY <1>4
  <1>7. Laid(r, w.idx, u, 4, v)
    BY <1>1, <1>5, <1>6, WordsLay
  <1> QED BY <1>4, <1>7 DEF Laid

AnyRecords == Seq(EfuseRecords)

(* The bytes of a map, record by record.                                   *)
LEMMA BytesDef ==
    ASSUME NEW rs \in AnyRecords
    PROVE  /\ Len(rs) \in Nat /\ DOMAIN rs = 1 .. Len(rs)
           /\ Bytes(rs)[0] = <<>>
           /\ \A n \in 0 .. Len(rs) : Bytes(rs)[n] \in ByteSeqs
           /\ \A n \in 1 .. Len(rs) :
                 /\ IsRecord(rs[n]) /\ Encode(rs[n]) \in ByteSeqs
                 /\ Bytes(rs)[n] = Bytes(rs)[n-1] \o Encode(rs[n])
  <1> DEFINE S == ByteSeqs
             N == Len(rs)
             W == Bytes(rs)
             G(w) == w = [n \in 0 .. N |-> IF n = 0 THEN <<>> ELSE w[n-1] \o Encode(rs[n])]
             step == [n \in 1 .. N |-> [x \in S |-> x \o Encode(rs[n])]]
  <1>1. N \in Nat /\ DOMAIN rs = 1 .. N /\ \A n \in 1 .. N : rs[n] \in EfuseRecords
    BY DEF AnyRecords
  <1>2. ASSUME NEW n \in 1 .. N PROVE IsRecord(rs[n]) /\ Encode(rs[n]) \in S
    <2>1. IsRecord(rs[n])
      BY <1>1, EfuseAssumption DEF IsRecord
    <2>2. 4 \in 0 .. 4
      OBVIOUS
    <2>3. Enc(rs[n])[4] = Encode(rs[n]) /\ Enc(rs[n])[4] \in ByteSeqs
      BY <2>1, <2>2, EncodeFacts
    <2> QED BY <2>1, <2>3
  <1>c. <<>> \in S /\ \A x, y \in S : x \o y \in S
    BY DEF ByteSeqs
  <1>3. Turning(S, N, step)
    <2> HIDE DEF N, S
    <2>1. \A n \in 1 .. N : \A x \in S : x \o Encode(rs[n]) \in S
      BY <1>2, <1>c
    <2> QED BY <2>1 DEF Turning
  <1>4. PICK w : Run(S, N, <<>>, step, w)
    <2> HIDE DEF step, N, S
    <2> QED BY <1>1, <1>3, <1>c, Recursion
  <1>5. G(w)
    <2>1. \A n \in 0 .. N : n # 0 => n \in 1 .. N /\ w[n-1] \in S
      BY <1>1, <1>4 DEF Run
    <2> HIDE DEF S
    <2>2. \A n \in 0 .. N : w[n] = IF n = 0 THEN <<>> ELSE w[n-1] \o Encode(rs[n])
      BY <1>4, <2>1 DEF Run
    <2> QED BY <1>4, <2>2 DEF Run
  <1>6. W = CHOOSE x : G(x)
    BY DEF Bytes
  <1>7. G(W)
    <2> HIDE DEF G, W
    <2> QED BY <1>5, <1>6
  <1> HIDE DEF W, N, S
  <1>8. W[0] = <<>> /\ \A n \in 1 .. N : W[n] = W[n-1] \o Encode(rs[n])
    BY <1>1, <1>7
  <1> DEFINE T == {n \in 0 .. N : W[n] \in S}
  <1>9. 0 \in T
    BY <1>1, <1>8, <1>c
  <1>10. ASSUME NEW n \in 1 .. N, n - 1 \in T PROVE n \in T
    <2>1. n \in 0 .. N /\ W[n-1] \in S /\ Encode(rs[n]) \in S
      BY <1>1, <1>2, <1>10
    <2>2. W[n] \in S
      BY <1>8, <1>c, <2>1
    <2> QED BY <2>1, <2>2
  <1>11. 0 .. N \subseteq T
    <2> HIDE DEF T
    <2> QED BY <1>1, <1>9, <1>10, TurnInduction
  <1>12. \A n \in 0 .. N : W[n] \in S
    BY <1>11
  <1> QED BY <1>1, <1>2, <1>8, <1>12 DEF N, W, S

(* Every record adds a byte at least, behind the ones there are.           *)
LEMMA BytesGrow ==
    ASSUME NEW rs \in AnyRecords, NEW n \in 1 .. Len(rs)
    PROVE  /\ n \in 0 .. Len(rs) /\ n - 1 \in 0 .. Len(rs)
           /\ Len(Bytes(rs)[n-1]) \in Nat /\ Len(Bytes(rs)[n]) \in Nat
           /\ Len(Encode(rs[n])) \in Nat
           /\ Len(Bytes(rs)[n]) = Len(Bytes(rs)[n-1]) + Len(Encode(rs[n]))
           /\ Len(Bytes(rs)[n]) >= Len(Bytes(rs)[n-1]) + 1
           /\ Begins(Bytes(rs)[n], Bytes(rs)[n-1])
           /\ \A j \in 1 .. Len(Encode(rs[n])) :
                 Bytes(rs)[n][Len(Bytes(rs)[n-1]) + j] = Encode(rs[n])[j]
  <1>1. n \in 0 .. Len(rs) /\ n - 1 \in 0 .. Len(rs)
    BY BytesDef
  <1>2. PICK s \in ByteSeqs, t \in ByteSeqs :
          s = Bytes(rs)[n-1] /\ t = Encode(rs[n]) /\ Bytes(rs)[n] = s \o t
    BY <1>1, BytesDef
  <1>3. Len(t) >= 1
    <2>1. IsRecord(rs[n])
      BY BytesDef
    <2>2. 0 \in 0 .. 4
      OBVIOUS
    <2>3. /\ Len(Header(rs[n])) \in 1 .. 2 /\ Begins(t, Header(rs[n]))
      BY <1>2, <2>1, <2>2, EncodeFacts
    <2>4. Len(t) \in Nat /\ Len(Header(rs[n])) <= Len(t)
      BY <1>2, <2>3, ByteFacts DEF Begins
    <2>5. \A x, y \in Nat : x \in 1 .. 2 /\ x <= y => y >= 1
      OBVIOUS
    <2>6. Len(Header(rs[n])) \in Nat
      BY <2>3
    <2> QED BY <2>3, <2>4, <2>5, <2>6
  <1>4. /\ Len(s \o t) = Len(s) + Len(t)
        /\ Len(s) \in Nat /\ Len(t) \in Nat
        /\ Begins(s \o t, s)
        /\ \A j \in 1 .. Len(t) : (s \o t)[Len(s) + j] = t[j]
    BY CatBytes
  <1>5. Len(s) + Len(t) \in Nat /\ Len(s) + Len(t) >= Len(s) + 1
    BY <1>3, <1>4
  <1> QED BY <1>1, <1>2, <1>4, <1>5

(* The bytes of the first m records begin those of the first n.            *)
LEMMA BytesBegin ==
    ASSUME NEW rs \in AnyRecords, NEW m \in 0 .. Len(rs)
    PROVE  \A n \in m .. Len(rs) :
              /\ Begins(Bytes(rs)[n], Bytes(rs)[m])
              /\ Len(Bytes(rs)[n]) >= Len(Bytes(rs)[m]) + (n - m)
  <1> DEFINE N == Len(rs)
             B == Bytes(rs)
             P(n) == Begins(B[n], B[m]) /\ Len(B[n]) >= Len(B[m]) + (n - m)
             T == {n \in 0 .. N : n >= m => P(n)}
  <1>1. N \in Nat /\ \A n \in 0 .. N : B[n] \in ByteSeqs /\ Len(B[n]) \in Nat
    <2>1. N \in Nat /\ \A n \in 0 .. N : B[n] \in ByteSeqs
      BY BytesDef
    <2> HIDE DEF N, B
    <2> QED BY <2>1, ByteFacts
  <1>2. \A n \in 1 .. N : Begins(B[n], B[n-1]) /\ Len(B[n]) >= Len(B[n-1]) + 1
    BY BytesGrow
  <1> HIDE DEF N, B
  <1>3. m \in 0 .. N
    BY DEF N
  <1>4. P(m)
    <2>1. Len(B[m]) \in Nat
      BY <1>1, <1>3
    <2>2. Begins(B[m], B[m])
      BY <2>1 DEF Begins
    <2>3. Len(B[m]) >= Len(B[m]) + (m - m)
      BY <1>1, <1>3, <2>1
    <2> QED BY <2>2, <2>3
  <1>5. 0 \in T
    <2>1. 0 >= m => m = 0
      BY <1>1, <1>3
    <2> HIDE DEF P
    <2> QED BY <1>1, <1>4, <2>1
  <1>6. ASSUME NEW n \in 1 .. N, n - 1 \in T PROVE n \in T
    <2>1. n \in 0 .. N /\ n - 1 \in 0 .. N
      BY <1>1
    <2>2. CASE n < m
      BY <1>3, <2>1, <2>2
    <2>3. CASE n = m
      <3> HIDE DEF P
      <3> QED BY <1>4, <2>1, <2>3
    <2>4. CASE n > m
      <3>1. P(n - 1)
        BY <1>3, <1>6, <2>4
      <3>2. Begins(B[n], B[m])
        <4>1. B[n] \in ByteSeqs /\ B[n-1] \in ByteSeqs /\ B[m] \in ByteSeqs
          BY <1>1, <1>3, <2>1
        <4> QED BY <1>2, <3>1, <4>1, BeginsTransitive
      <3>3. PICK x, y, z \in Nat : x = Len(B[m]) /\ y = Len(B[n-1]) /\ z = Len(B[n])
        BY <1>1, <1>3, <2>1
      <3>4. z >= y + 1 /\ y >= x + (n - 1 - m)
        BY <1>2, <3>1, <3>3
      <3>5. z >= x + (n - m)
        BY <1>1, <1>3, <3>3, <3>4
      <3> QED BY <2>1, <3>2, <3>3, <3>5
    <2> QED BY <1>1, <1>3, <2>2, <2>3, <2>4
  <1>7. 0 .. N \subseteq T
    <2> HIDE DEF T
    <2> QED BY <1>1, <1>5, <1>6, TurnInduction
  <1>8. ASSUME NEW n \in m .. N PROVE P(n)
    <2>1. n \in 0 .. N /\ n >= m
      BY <1>1, <1>3
    <2> HIDE DEF P
    <2> QED BY <1>7, <2>1
  <1> QED BY <1>8 DEF N, B

(* The physical map holds every record at its place, and 255 behind the    *)
(* last one.                                                               *)
LEMMA PhysMapHolds ==
    ASSUME NEW rs \in AnyRecords
    PROVE  /\ PhysMap(rs) \in PhysMaps
           /\ \A n \in 1 .. Len(rs) : Holds(PhysMap(rs), Len(Bytes(rs)[n-1]), rs[n])
           /\ \A k \in 0 .. size - 1 :
                 k >= Len(Bytes(rs)[Len(rs)]) => PhysMap(rs)[k] = 255
  <1> DEFINE N == Len(rs)
             all == Bytes(rs)[N]
  <1>1. N \in Nat /\ N \in 0 .. N /\ all \in ByteSeqs /\ Len(all) \in Nat
    <2>1. N \in Nat /\ N \in 0 .. N
      BY BytesDef
    <2>2. all \in ByteSeqs
      BY <2>1, BytesDef
    <2> HIDE DEF all
    <2> QED BY <2>1, <2>2 DEF ByteSeqs
  <1>2. PhysMap(rs) = [k \in 0 .. size - 1 |-> IF k < Len(all) THEN all[k + 1] ELSE 255]
    BY DEF PhysMap
  <1>3. PhysMap(rs) \in PhysMaps
    <2> HIDE DEF all, N
    <2>1. \A k \in 0 .. size - 1 : k < Len(all) => all[k + 1] \in 0 .. 255
      <3> TAKE k \in 0 .. size - 1
      <3>1. k < Len(all) => k + 1 \in 1 .. Len(all)
        BY <1>1, DimFacts
      <3> QED BY <1>1, <3>1, ByteFacts
    <2>2. \A k \in 0 .. size - 1 : (IF k < Len(all) THEN all[k + 1] ELSE 255) \in 0 .. 255
      BY <2>1
    <2> DEFINE f == [k \in 0 .. size - 1 |-> IF k < Len(all) THEN all[k + 1] ELSE 255]
    <2>3. f \in [0 .. size - 1 -> 0 .. 255]
      BY <2>2, Zenon
    <2> HIDE DEF f
    <2> QED BY <1>2, <2>3 DEF PhysMaps, f
  <1>4. ASSUME NEW n \in 1 .. N PROVE Holds(PhysMap(rs), Len(Bytes(rs)[n-1]), rs[n])
    <2>0. /\ Len(Bytes(rs)[n-1]) \in Nat /\ Len(Encode(rs[n])) \in Nat
          /\ Len(Bytes(rs)[n]) \in Nat
          /\ Len(Bytes(rs)[n]) = Len(Bytes(rs)[n-1]) + Len(Encode(rs[n]))
          /\ \A j \in 1 .. Len(Encode(rs[n])) :
                Bytes(rs)[n][Len(Bytes(rs)[n-1]) + j] = Encode(rs[n])[j]
      BY BytesGrow
    <2>1. PICK b \in Nat, e \in Nat, m \in Nat :
             /\ b = Len(Bytes(rs)[n-1]) /\ e = Len(Encode(rs[n]))
             /\ m = Len(Bytes(rs)[n]) /\ m = b + e
      BY <2>0
    <2>2. n \in 0 .. N /\ N \in n .. N
      BY <1>1
    <2>3. Begins(all, Bytes(rs)[n])
      BY <2>2, BytesBegin
    <2> HIDE DEF all, N
    <2>4. ASSUME NEW j \in 1 .. e, b + j - 1 < size
          PROVE  PhysMap(rs)[b + j - 1] = Encode(rs[n])[j]
      <3>1. PICK k \in Nat : k = b + j - 1 /\ k + 1 = b + j
        OBVIOUS
      <3>2. k \in 0 .. size - 1 /\ k + 1 \in 1 .. m
        <4>1. m = b + e
          BY <2>1
        <4> QED BY <2>4, <3>1, <4>1, DimFacts
      <3>3. m <= Len(all) /\ all[k + 1] = Bytes(rs)[n][k + 1]
        BY <2>1, <2>3, <3>2 DEF Begins
      <3>4. k < Len(all)
        <4>1. k + 1 <= m
          BY <3>2
        <4> QED BY <1>1, <3>3, <4>1
      <3>5. PhysMap(rs)[k] = all[k + 1]
        BY <1>2, <3>2, <3>4
      <3> QED BY <2>0, <2>1, <3>1, <3>3, <3>5
    <2> QED BY <2>1, <2>4 DEF Holds
  <1>5. \A k \in 0 .. size - 1 : k >= Len(all) => PhysMap(rs)[k] = 255
    <2> HIDE DEF all
    <2>1. \A k \in 0 .. size - 1 : k >= Len(all) => ~(k < Len(all))
      BY <1>1, DimFacts
    <2> QED BY <1>2, <2>1
  <1> QED BY <1>3, <1>4, <1>5

(* Record r has byte k of the logical map, and its value.                  *)
Has(r, k) == r.blk = k \div 8 /\ (k % 8) \div 2 \in DOMAIN r.words
Value(r, k) == r.words[(k % 8) \div 2][(k % 2) + 1]

(* v is byte k after the first n records: the last one that has it decides. *)
Says(rs, n, k, v) ==
    \/ v = 255 /\ \A m \in 1 .. n : ~Has(rs[m], k)
    \/ \E m \in 1 .. n : /\ Has(rs[m], k) /\ v = Value(rs[m], k)
                         /\ \A j \in m + 1 .. n : ~Has(rs[j], k)

(* The walk has n records behind it and none was refused.                  *)
Reading(rs, n, w) ==
    /\ n \in 0 .. Len(rs) /\ ~w.error /\ ~w.done /\ w.idx = Len(Bytes(rs)[n])
    /\ \A m \in 1 .. n : /\ Len(Bytes(rs)[m-1]) < limit
                         /\ ~Refused(rs[m], Len(Bytes(rs)[m-1]))
    /\ \A k \in 0 .. size - 1 : Says(rs, n, k, w.log[k])

(* The records that have a byte.                                           *)
Having(rs, n, k, has) == has = {m \in 1 .. n : Has(rs[m], k)}

(* What is said of a byte is what the records left in a set of them say.   *)
LEMMA SaysLast ==
    ASSUME NEW rs, NEW n \in Nat, NEW k, NEW v, Says(rs, n, k, v), NEW has,
           Having(rs, n, k, has)
    PROVE  v = IF has = {} THEN 255 ELSE Value(rs[Max(has)], k)
  <1> USE DEF Having
  <1>1. CASE v = 255 /\ \A m \in 1 .. n : ~Has(rs[m], k)
    <2>1. has = {}
      BY <1>1
    <2> QED BY <1>1, <2>1
  <1>2. CASE \E m \in 1 .. n : /\ Has(rs[m], k) /\ v = Value(rs[m], k)
                               /\ \A j \in m + 1 .. n : ~Has(rs[j], k)
    <2>1. PICK m \in 1 .. n : /\ Has(rs[m], k) /\ v = Value(rs[m], k)
                              /\ \A j \in m + 1 .. n : ~Has(rs[j], k)
      BY <1>2
    <2>2. m \in has /\ has \subseteq Nat
      BY <2>1
    <2>3. \A j \in has : m >= j
      <3> TAKE j \in has
      <3>1. j \in 1 .. n /\ Has(rs[j], k)
        OBVIOUS
      <3>2. j \notin m + 1 .. n
        BY <2>1, <3>1
      <3> QED BY <3>1, <3>2
    <2>4. Max(has) \in has /\ \A j \in has : Max(has) >= j
      BY <2>2, <2>3 DEF Max
    <2>5. PICK x \in Nat : x = Max(has) /\ x >= m /\ m >= x
      BY <2>2, <2>3, <2>4
    <2>6. x = m
      BY <2>5
    <2> QED BY <2>1, <2>2, <2>5, <2>6
  <1> QED BY <1>1, <1>2 DEF Says

(* Where reading comes to the end, the map fits and has been laid out.     *)
LEMMA ReadingEnds ==
    ASSUME NEW rs \in AnyRecords, NEW n, NEW w \in EfuseState, Reading(rs, n, w),
           n = Len(rs) \/ Len(Bytes(rs)[n]) >= limit
    PROVE  Fits(rs) /\ w.log = Logical(rs)
  <1> DEFINE N == Len(rs)
             B == Bytes(rs)
  <1>1. /\ N \in Nat /\ DOMAIN rs = 1 .. N /\ n \in 0 .. N /\ n \in Nat
        /\ \A m \in 0 .. N : Len(B[m]) \in Nat
        /\ limit \in Nat
    <2>1. N \in Nat /\ DOMAIN rs = 1 .. N /\ \A m \in 0 .. N : B[m] \in ByteSeqs
      BY BytesDef
    <2>2. n \in 0 .. N
      BY DEF Reading
    <2> HIDE DEF N, B
    <2> QED BY <2>1, <2>2, ByteFacts, DimFacts
  <1>2. \A m \in 1 .. n : Len(B[m-1]) < limit /\ ~Refused(rs[m], Len(B[m-1]))
    BY DEF Reading
  <1>3. \A m \in n .. N : Len(B[m]) >= Len(B[n]) + (m - n)
    BY <1>1, BytesBegin
  <1>4. Seen(rs) = {m \in DOMAIN rs : Len(B[m-1]) < limit}
    BY DEF Seen
  <1>5. n = N \/ Len(B[n]) >= limit
    OBVIOUS
  <1>6. \A m \in 1 .. n : Len(B[m]) = Len(B[m-1]) + Len(Encode(rs[m]))
    <2> TAKE m \in 1 .. n
    <2>1. m \in 1 .. N
      <3> HIDE DEF N, B
      <3> QED BY <1>1
    <2> QED BY <2>1, BytesGrow
  <1> HIDE DEF N, B
  <1>7. Seen(rs) = 1 .. n
    <2>1. ASSUME NEW m \in 1 .. n PROVE m \in Seen(rs)
      <3>1. m \in 1 .. N
        BY <1>1
      <3> QED BY <1>1, <1>2, <1>4, <3>1
    <2>2. ASSUME NEW m \in Seen(rs) PROVE m \in 1 .. n
      <3>1. m \in 1 .. N /\ Len(B[m-1]) < limit
        BY <1>1, <1>4
      <3>2. SUFFICES ASSUME m > n PROVE FALSE
        BY <1>1, <3>1
      <3>3. PICK j \in n .. N : j = m - 1 /\ n # N
        BY <1>1, <3>1, <3>2
      <3>4. j \in 0 .. N
        BY <1>1
      <3>5. PICK x \in Nat, y \in Nat : x = Len(B[n]) /\ y = Len(B[j])
        BY <1>1, <3>4
      <3>6. x >= limit /\ y >= x + (j - n) /\ y < limit
        BY <1>3, <1>5, <3>1, <3>3, <3>5
      <3> QED BY <1>1, <3>3, <3>6
    <2> QED BY <2>1, <2>2
  <1>8. Fits(rs)
    <2>1. ASSUME NEW m \in 1 .. n, DOMAIN rs[m].words # {}
          PROVE  rs[m].blk < size \div 8 /\ Len(B[m]) <= limit
      <3>1. m \in 1 .. N /\ m \in 0 .. N
        BY <1>1
      <3>2. IsRecord(rs[m])
        BY <3>1, BytesDef DEF N
      <3>3. rs[m].blk \in Nat /\ size \div 8 \in Nat
        <4>1. rs[m].blk \in Nat
          BY <3>2, RecordType
        <4> QED BY <4>1, DimFacts
      <3>4. ~(rs[m].blk >= size \div 8) /\ ~(Len(B[m]) > limit)
        BY <1>2, <1>6, <2>1 DEF Refused
      <3>5. Len(B[m]) \in Nat
        BY <1>1, <3>1
      <3> QED BY <1>1, <3>3, <3>4, <3>5
    <2> QED BY <1>7, <2>1 DEF Fits, B
  <1>9. ASSUME NEW k \in 0 .. size - 1 PROVE w.log[k] = Logical(rs)[k]
    <2>1. PICK has : has = {m \in 1 .. n : Has(rs[m], k)}
      OBVIOUS
    <2>2. w.log[k] = IF has = {} THEN 255 ELSE Value(rs[Max(has)], k)
      <3>1. PICK x : x = w.log[k]
        OBVIOUS
      <3>2. Says(rs, n, k, x) /\ n \in Nat
        BY <1>1, <3>1 DEF Reading
      <3>3. Having(rs, n, k, has)
        BY <2>1 DEF Having
      <3> QED BY <3>1, <3>2, <3>3, SaysLast
    <2>3. Logical(rs)[k] = IF has = {} THEN 255 ELSE Value(rs[Max(has)], k)
      BY <1>7, <2>1 DEF Logical, Has, Value
    <2> QED BY <2>2, <2>3
  <1>10. w.log = Logical(rs)
    <2>1. w.log \in PhysMaps
      BY DEF EfuseState
    <2>2. /\ w.log = [k \in 0 .. size - 1 |-> w.log[k]]
          /\ Logical(rs) = [k \in 0 .. size - 1 |-> Logical(rs)[k]]
      BY <2>1 DEF PhysMaps, Logical
    <2> QED BY <1>9, <2>2
  <1> QED BY <1>8, <1>10

(* A turn at a record: refused for a reason, or one more record is read.   *)
LEMMA ReadingGoes ==
    ASSUME NEW rs \in AnyRecords, NEW n \in 1 .. Len(rs), NEW w \in EfuseState,
           Reading(rs, n - 1, w), Len(Bytes(rs)[n-1]) < limit,
           NEW v, v = Record(w, PhysMap(rs))
    PROVE  Reading(rs, n, v) \/ (v.error /\ ~Fits(rs))
  <1> DEFINE r == rs[n]
             base == Len(Bytes(rs)[n-1])
             phy == PhysMap(rs)
  <1>1. w.idx = base /\ ~w.error /\ ~w.done
    BY DEF Reading
  <1>2. /\ base \in Nat /\ Len(Encode(r)) \in Nat /\ n \in 0 .. Len(rs) /\ n \in Nat
        /\ Len(Bytes(rs)[n]) = base + Len(Encode(r))
    <2>1. /\ base \in Nat /\ Len(Encode(r)) \in Nat /\ n \in 0 .. Len(rs)
          /\ Len(Bytes(rs)[n]) = base + Len(Encode(r))
      BY BytesGrow
    <2>2. n \in Nat
      OBVIOUS
    <2> QED BY <2>1, <2>2
  <1>3. IsRecord(r) /\ phy \in PhysMaps /\ Holds(phy, base, r) /\ DOMAIN rs = 1 .. Len(rs)
    <2>1. IsRecord(r) /\ DOMAIN rs = 1 .. Len(rs)
      BY BytesDef
    <2>2. phy \in PhysMaps /\ Holds(phy, base, r)
      BY PhysMapHolds
    <2> QED BY <2>1, <2>2
  <1>4. Enc(r)[4] = Encode(r)
    BY <1>3, EncodeFacts
  <1>5. \A m \in 1 .. n - 1 : /\ Len(Bytes(rs)[m-1]) < limit
                              /\ ~Refused(rs[m], Len(Bytes(rs)[m-1]))
    BY DEF Reading
  <1>6. \A k \in 0 .. size - 1 : Says(rs, n - 1, k, w.log[k])
    BY DEF Reading
  <1>7. base < limit
    OBVIOUS
  <1>d. size \div 8 \in Nat /\ limit \in Nat /\ r.blk \in Nat /\ DOMAIN r.words \subseteq 0 .. 3
    <2>1. r.blk \in Nat /\ DOMAIN r.words \subseteq 0 .. 3
      BY <1>3, RecordType
    <2>2. size \div 8 \in Nat /\ limit \in Nat
      BY DimFacts
    <2> QED BY <2>1, <2>2
  <1> HIDE DEF r, base, phy
  <1>8. Laid(r, base, w, 4, v)
    BY <1>1, <1>3, <1>7, RecordLays DEF phy
  <1>9. CASE v.error /\ Refused(r, base)
    <2>1. n \in Seen(rs)
      BY <1>3, <1>7 DEF Seen, base
    <2>2. ~Fits(rs)
      <3>1. DOMAIN r.words # {} /\ ~(r.blk < size \div 8 /\ base + Len(Encode(r)) <= limit)
        BY <1>2, <1>9, <1>d DEF Refused
      <3> QED BY <1>2, <2>1, <3>1 DEF Fits, r
    <2> QED BY <1>9, <2>2
  <1>10. CASE ~(v.error /\ Refused(r, base))
    <2>1. /\ ~v.error /\ v.done = w.done /\ v.idx = base + Len(Encode(r))
          /\ \A k \in 0 .. size - 1 :
                v.log[k] = IF Wrote(r, 4, k) THEN Value(r, k) ELSE w.log[k]
          /\ (\E j \in DOMAIN r.words : j < 4) =>
                r.blk < size \div 8 /\ base + Len(Encode(r)) <= limit
      BY <1>4, <1>8, <1>10 DEF Laid, Value
    <2>2. ~Refused(r, base)
      <3>1. SUFFICES ASSUME Refused(r, base) PROVE FALSE
        OBVIOUS
      <3>2. \E j \in DOMAIN r.words : j < 4
        BY <1>d, <3>1 DEF Refused
      <3> QED BY <1>2, <1>d, <2>1, <3>1, <3>2 DEF Refused
    <2>3. ASSUME NEW m \in 1 .. n
          PROVE  Len(Bytes(rs)[m-1]) < limit /\ ~Refused(rs[m], Len(Bytes(rs)[m-1]))
      <3>1. m = n \/ m \in 1 .. n - 1
        BY <1>2
      <3> QED BY <1>5, <1>7, <2>2, <3>1 DEF r, base
    <2>4. ASSUME NEW k \in 0 .. size - 1 PROVE Says(rs, n, k, v.log[k])
      <3>1. Wrote(r, 4, k) <=> Has(r, k)
        <4>1. (k % 8) \div 2 < 4
          BY DimFacts
        <4> QED BY <4>1 DEF Wrote, Has
      <3>2. CASE Has(r, k)
        <4>1. v.log[k] = Value(r, k)
          BY <2>1, <3>1, <3>2
        <4>2. n \in 1 .. n /\ \A j \in n + 1 .. n : FALSE
          BY <1>2
        <4> QED BY <3>2, <4>1, <4>2 DEF Says, r
      <3>3. CASE ~Has(r, k)
        <4>1. v.log[k] = w.log[k]
          BY <2>1, <3>1, <3>3
        <4>2. \A m \in 1 .. n : m = n \/ m \in 1 .. n - 1
          BY <1>2
        <4>3. CASE w.log[k] = 255 /\ \A m \in 1 .. n - 1 : ~Has(rs[m], k)
          BY <3>3, <4>1, <4>2, <4>3 DEF Says, r
        <4>4. CASE \E m \in 1 .. n - 1 : /\ Has(rs[m], k) /\ w.log[k] = Value(rs[m], k)
                                         /\ \A j \in m + 1 .. n - 1 : ~Has(rs[j], k)
          <5>1. PICK m \in 1 .. n - 1 : /\ Has(rs[m], k) /\ w.log[k] = Value(rs[m], k)
                                        /\ \A j \in m + 1 .. n - 1 : ~Has(rs[j], k)
            BY <4>4
          <5>2. m \in 1 .. n /\ \A j \in m + 1 .. n : j = n \/ j \in m + 1 .. n - 1
            BY <1>2
          <5>3. \A j \in m + 1 .. n : ~Has(rs[j], k)
            BY <3>3, <5>1, <5>2 DEF r
          <5> QED BY <4>1, <5>1, <5>2, <5>3 DEF Says
        <4> QED BY <1>6, <4>3, <4>4 DEF Says
      <3> QED BY <3>2, <3>3
    <2>5. v.idx = Len(Bytes(rs)[n]) /\ ~v.done
      BY <1>1, <1>2, <2>1
    <2> QED BY <1>2, <2>1, <2>3, <2>4, <2>5 DEF Reading
  <1> QED BY <1>9, <1>10

(* The walk over the map of any list of records: reading them one by one,  *)
(* refused for a reason, or at the end with the logical map laid out.      *)
Walked(rs, n, w) ==
    \/ Reading(rs, n, w)
    \/ w.error /\ ~Fits(rs)
    \/ w.done /\ ~w.error /\ Fits(rs) /\ w.log = Logical(rs)

(* A turn keeps that.                                                      *)
LEMMA WalkedGoes ==
    ASSUME NEW rs \in AnyRecords, NEW n \in Nat \ {0}, NEW w \in EfuseState,
           Walked(rs, n - 1, w), NEW v, v = Record(w, PhysMap(rs))
    PROVE  Walked(rs, n, v)
  <1> DEFINE phy == PhysMap(rs)
  <1>1. phy \in PhysMaps /\ Len(rs) \in Nat
    BY PhysMapHolds, BytesDef
  <1>2. w.idx \in Nat /\ w.error \in BOOLEAN /\ w.done \in BOOLEAN
    BY DEF EfuseState
  <1>3. /\ w.done \/ w.error \/ w.idx >= limit => v = [w EXCEPT !.done = TRUE]
        /\ w.error => v.error
    BY <1>1, RecordFacts
  <1>4. v = [w EXCEPT !.done = TRUE] => v.done /\ v.error = w.error /\ v.log = w.log
    BY DEF EfuseState
  <1>5. CASE w.error /\ ~Fits(rs)
    BY <1>3, <1>5 DEF Walked
  <1>6. CASE w.done /\ ~w.error /\ Fits(rs) /\ w.log = Logical(rs)
    BY <1>3, <1>4, <1>6 DEF Walked
  <1>7. CASE Reading(rs, n - 1, w)
    <2>1. n - 1 \in 0 .. Len(rs) /\ ~w.error /\ ~w.done /\ w.idx = Len(Bytes(rs)[n-1])
      BY <1>7 DEF Reading
    <2>2. CASE w.idx >= limit
      <3>1. Fits(rs) /\ w.log = Logical(rs)
        BY <1>7, <2>1, <2>2, ReadingEnds
      <3> QED BY <1>3, <1>4, <2>1, <2>2, <3>1 DEF Walked
    <2>3. CASE ~(w.idx >= limit) /\ n - 1 = Len(rs)
      <3>1. Fits(rs) /\ w.log = Logical(rs)
        BY <1>7, <2>3, ReadingEnds
      <3>2. w.idx \in 0 .. size - 1 /\ w.idx >= Len(Bytes(rs)[Len(rs)])
        BY <1>2, <2>1, <2>3, DimFacts
      <3>3. phy[w.idx] = 255
        BY <3>2, PhysMapHolds
      <3>4. EndMark(phy[w.idx], phy[w.idx + 1])
        BY <3>3 DEF EndMark
      <3>5. PICK u \in EfuseState : /\ u.error = w.error /\ u.done = w.done /\ u.log = w.log
                                    /\ v = [u EXCEPT !.done = TRUE]
        <4> HIDE DEF phy
        <4> QED BY <1>1, <2>1, <2>3, <3>4, RecordFacts DEF phy
      <3>6. v.done /\ v.error = u.error /\ v.log = u.log
        BY <3>5 DEF EfuseState
      <3> QED BY <2>1, <3>1, <3>5, <3>6 DEF Walked
    <2>4. CASE ~(w.idx >= limit) /\ n - 1 # Len(rs)
      <3>1. n \in 1 .. Len(rs)
        BY <1>1, <2>1, <2>4
      <3>2. Len(Bytes(rs)[n-1]) < limit
        BY <1>2, <2>1, <2>4, DimFacts
      <3> QED BY <1>7, <3>1, <3>2, ReadingGoes DEF Walked
    <2> QED BY <2>2, <2>3, <2>4
  <1> QED BY <1>5, <1>6, <1>7 DEF Walked

(* rtw88_efuse_logical_walk lays out the map of every list of records, of  *)
(* any length, as the records say, or refuses it exactly if it has words   *)
(* that reach into the protected tail or belong to no block of the map.    *)
THEOREM EfuseLayout == \A rs \in AnyRecords : LayoutRight(rs)
  <1> SUFFICES ASSUME NEW rs \in AnyRecords PROVE LayoutRight(rs)
    OBVIOUS
  <1> DEFINE phy == PhysMap(rs)
             W == efuse_logical_walk(phy)
             T == {n \in 0 .. limit + 1 : Walked(rs, n, W[n])}
  <1>1. limit \in Nat /\ limit + 1 \in Nat /\ phy \in PhysMaps /\ Len(rs) \in Nat
    BY DimFacts, PhysMapHolds, BytesDef
  <1>2. /\ W[0] = EfuseStart
        /\ \A n \in 0 .. limit + 1 : W[n] \in EfuseState
        /\ \A n \in 1 .. limit + 1 : W[n] = Record(W[n-1], phy)
    BY <1>1, TurnsDef
  <1> HIDE DEF W, phy
  <1>3. 0 \in T
    <2>1. \A k \in 0 .. size - 1 : Says(rs, 0, k, EfuseStart.log[k])
      BY DEF Says, EfuseStart
    <2>2. Bytes(rs)[0] = <<>>
      BY BytesDef
    <2>3. /\ ~EfuseStart.error /\ ~EfuseStart.done /\ EfuseStart.idx = Len(Bytes(rs)[0])
      BY <2>2 DEF EfuseStart
    <2>4. 0 \in 0 .. Len(rs) /\ 1 .. 0 = {} /\ 0 \in 0 .. limit + 1
      BY <1>1
    <2>5. Reading(rs, 0, EfuseStart)
      BY <2>1, <2>3, <2>4 DEF Reading
    <2> QED BY <1>2, <2>4, <2>5 DEF Walked
  <1>4. ASSUME NEW n \in 1 .. limit + 1, n - 1 \in T PROVE n \in T
    <2>1. /\ n \in 0 .. limit + 1 /\ n - 1 \in 0 .. limit + 1 /\ n \in Nat \ {0}
      BY <1>1
    <2>2. W[n-1] \in EfuseState /\ W[n] = Record(W[n-1], phy) /\ Walked(rs, n - 1, W[n-1])
      BY <1>2, <1>4, <2>1
    <2>3. Walked(rs, n, W[n])
      BY <2>1, <2>2, WalkedGoes DEF phy
    <2> QED BY <2>1, <2>3
  <1>5. 0 .. limit + 1 \subseteq T
    <2> HIDE DEF T
    <2> QED BY <1>1, <1>3, <1>4, TurnInduction
  <1>6. limit + 1 \in 0 .. limit + 1 /\ Walked(rs, limit + 1, W[limit + 1])
    BY <1>1, <1>5
  <1>7. ~Reading(rs, limit + 1, W[limit + 1])
    <2> SUFFICES ASSUME Reading(rs, limit + 1, W[limit + 1]) PROVE FALSE
      OBVIOUS
    <2>1. limit + 1 \in 0 .. Len(rs) /\ \A m \in 1 .. limit + 1 : Len(Bytes(rs)[m-1]) < limit
      BY DEF Reading
    <2>2. limit + 1 \in 1 .. limit + 1 /\ limit + 1 - 1 = limit /\ limit \in 0 .. Len(rs)
          /\ 0 \in 0 .. Len(rs)
      BY <1>1, <2>1
    <2>3. Len(Bytes(rs)[limit]) < limit
      BY <2>1, <2>2
    <2>4. Len(Bytes(rs)[limit]) >= Len(Bytes(rs)[0]) + (limit - 0)
      BY <2>2, BytesBegin
    <2>5. Len(Bytes(rs)[0]) = 0 /\ Len(Bytes(rs)[limit]) \in Nat
      <3>1. Bytes(rs)[0] = <<>> /\ Bytes(rs)[limit] \in ByteSeqs
        BY <2>2, BytesDef
      <3> QED BY <3>1, ByteFacts
    <2> QED BY <1>1, <2>3, <2>4, <2>5
  <1> QED BY <1>6, <1>7 DEF Walked, LayoutRight, WalkEnd, W, phy

(* EfuseWalkRight, for every assignment of the constants.                  *)
THEOREM EfuseWalkHolds == EfuseWalkRight
  <1>1. ASSUME NEW n \in 0 .. 3, NEW rs \in [1 .. n -> EfuseRecords]
        PROVE  LayoutRight(rs)
    <2>1. rs \in AnyRecords
      BY DEF AnyRecords
    <2> QED BY <2>1, EfuseLayout
  <1>2. ASSUME NEW phy \in [0 .. size - 1 -> EfuseBytes] PROVE StaysInside(phy)
    <2>1. phy \in PhysMaps
      <3>1. EfuseBytes \subseteq 0 .. 255
        BY EfuseAssumption
      <3> QED BY <3>1, ZenonT(60) DEF PhysMaps
    <2> QED BY <2>1, EfuseStaysInside
  <1> QED BY <1>1, <1>2 DEF EfuseWalkRight
=============================================================================
