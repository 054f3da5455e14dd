------------------------------- MODULE RxPath -------------------------------
(***************************************************************************)
(* Bulk-IN receive: one transfer at a time brings an aggregate of chip     *)
(* packets, rtw88_bulk_rx_cb copies it to the staging buffer and hands     *)
(* rtw88_rx_one one packet after the other; frames go up to net80211 with  *)
(* sc_mtx released.  Lengths are in small units: DESC stands for the 24    *)
(* bytes of a descriptor, ALIGN for 8, FCS for 4.                          *)
(***************************************************************************)
EXTENDS Naturals, Sequences, SequencesExt, FiniteSetsExt

CONSTANTS
    DESC, ALIGN, FCS,
    MCLBYTES,       \* longest frame an mbuf takes
    RxDescs,        \* bounded input: descriptors the chip may write
    MaxActlen       \* bounded input: length of a transfer

ASSUME RxAssumption ==
    /\ DESC \in Nat \ {0} /\ ALIGN \in Nat \ {0}
    /\ FCS \in Nat /\ MCLBYTES \in Nat /\ MaxActlen \in Nat
    /\ RxDescs \subseteq [drv_info_sz : Nat, shift : Nat, pkt_len : Nat,
                          is_c2h : BOOLEAN, crc_err : BOOLEAN]

Up(n) == ((n + ALIGN - 1) \div ALIGN) * ALIGN

(* Mutant: the bytes already consumed count as available.                  *)
rx_one_total(d, actlen, off) ==
    LET at == DESC + d.drv_info_sz + d.shift
        total == at + d.pkt_len
        avail == actlen
        up == /\ ~d.is_c2h /\ ~d.crc_err
              /\ d.pkt_len > FCS /\ d.pkt_len - FCS <= MCLBYTES
    IN  IF avail < DESC \/ total > avail
        THEN [consumed |-> 0, is |-> "stop", from |-> 0, len |-> 0]
        ELSE [consumed |-> Up(total), from |-> off + at,
              is |-> IF d.is_c2h THEN "c2h" ELSE IF up THEN "frame" ELSE "drop",
              len |-> IF up THEN d.pkt_len - FCS ELSE d.pkt_len]

(* rtw88_rx_one: what it does with the packet at `off' and how far the     *)
(* next one is; 0 stops the walk.  Empty, CRC-failed, too short and too    *)
(* long frames are dropped, C2H events dispatched, frames lose their FCS.  *)
rx_one(d, actlen, off) ==
    LET at == DESC + d.drv_info_sz + d.shift
        total == at + d.pkt_len
        avail == actlen - off
        up == /\ ~d.is_c2h /\ ~d.crc_err
              /\ d.pkt_len > FCS /\ d.pkt_len - FCS <= MCLBYTES
    IN  IF avail < DESC \/ total > avail
        THEN [consumed |-> 0, is |-> "stop", from |-> 0, len |-> 0]
        ELSE [consumed |-> Up(total), from |-> off + at,
              is |-> IF d.is_c2h THEN "c2h" ELSE IF up THEN "frame" ELSE "drop",
              len |-> IF up THEN d.pkt_len - FCS ELSE d.pkt_len]

(* One turn of the loop of rtw88_bulk_rx_cb, at the packet `d'.            *)
RxTurn(w, d, actlen) ==
    LET r == rx_one(d, actlen, w.off)
    IN  IF w.stop \/ w.off >= actlen \/ r.consumed = 0
        THEN [w EXCEPT !.stop = TRUE]
        ELSE [w EXCEPT !.off = @ + r.consumed, !.out = Append(@, r)]

(* The loop over what the chip wrote: the state after n turns.             *)
RxWalk(ds, actlen) ==
    LET walk[n \in 0 .. Len(ds)] ==
            IF n = 0 THEN [off |-> 0, stop |-> FALSE, out |-> <<>>]
            ELSE RxTurn(walk[n-1], ds[n], actlen)
    IN  walk

Packets(ds, actlen) == RxWalk(ds, actlen)[Len(ds)].out
Frames(ds, actlen) ==
    Len(SelectSeq(Packets(ds, actlen), LAMBDA r : r.is = "frame"))

(* What may be in the air: up to three packets, and any length.            *)
Aggregates == UNION {[1 .. n -> RxDescs] : n \in 0 .. 3}
FrameCounts == UNION {0 .. Frames(ds, a) : ds \in Aggregates, a \in 0 .. MaxActlen}

(* The bytes a packet takes, and the place where the n-th one ends if all  *)
(* before it are there.                                                    *)
Size(d) == DESC + d.drv_info_sz + d.shift + d.pkt_len
After(ds) ==
    LET after[n \in 0 .. Len(ds)] ==
            IF n = 0 THEN 0 ELSE after[n-1] + Up(Size(ds[n]))
    IN  after
Ends(ds, n) == After(ds)[n-1] + Size(ds[n])

(* Packets handed on lie inside the bytes of the transfer, in order and    *)
(* apart from each other (their descriptors too), and every packet that    *)
(* fits with all those before it is found.                                 *)
AggregateRight(ds, actlen) ==
    LET ps == Packets(ds, actlen)
    IN  /\ \A n \in DOMAIN ps :
              /\ ps[n].from + ps[n].len <= actlen
              /\ n > 1 => ps[n].from >= ps[n-1].from + ps[n-1].len + DESC
        /\ Len(ps) = Cardinality({n \in DOMAIN ds :
                         \A k \in 1 .. n : Ends(ds, k) <= actlen})

(* Whatever lengths the chip's descriptors claim, the loop of              *)
(* rtw88_bulk_rx_cb finds the packets that are in the transfer and never   *)
(* reads past its end.                                                     *)
AggregateWalkRight ==
    \A ds \in Aggregates : \A actlen \in 0 .. MaxActlen : AggregateRight(ds, actlen)

-----------------------------------------------------------------------------

VARIABLE rx     \* the transfer: "none" (not set up), "armed", or in its
                \* callback with a frame in net80211 ("input"), `left' of
                \* them still to hand up, this one included

RxTypeOK == rx \in [at : {"none", "armed", "input"}, left : Nat]

RxInit == rx = [at |-> "none", left |-> 0]

InCallback == rx.at = "input"

(* usbd_transfer_start in rtw88_xfers_setup.                               *)
RxArm == rx.at = "none" /\ rx' = [at |-> "armed", left |-> 0]

(* USB_ST_TRANSFERRED.  The transfer is never longer than the buffer, so   *)
(* the early exit that would leave it unarmed is not taken.  A frame for   *)
(* which there is no mbuf is dropped.  The callback keeps sc_mtx but for   *)
(* the time a frame is in ieee80211_input_mimo_all: without frames it is   *)
(* one step, at the end of which the transfer is submitted again.          *)
RxTransferred(n) ==
    /\ rx.at = "armed" /\ n \in FrameCounts
    /\ rx' = [at |-> IF n = 0 THEN "armed" ELSE "input", left |-> n]

(* An error other than USB_ERR_CANCELLED: clear the stall, submit again.   *)
RxError == rx.at = "armed" /\ UNCHANGED rx

(* sc_mtx is taken again and the walk goes on: to the next frame, or to    *)
(* the end of the buffer.                                                  *)
RxInputDone ==
    /\ rx.at = "input"
    /\ rx' = [at |-> IF rx.left = 1 THEN "armed" ELSE "input", left |-> rx.left - 1]

(* usbd_transfer_unsetup: cancels the transfer and waits for its callback. *)
RxUnsetup == ~InCallback /\ rx' = [rx EXCEPT !.at = "none"]
=============================================================================
