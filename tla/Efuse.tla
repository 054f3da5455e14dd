-------------------------------- MODULE Efuse --------------------------------
(***************************************************************************)
(* rtw88_efuse_logical_walk: the physical eFuse bytes, a list of records   *)
(* (header, then the words it announces), laid out as the logical map.     *)
(* Bytes are numbers; indices start at 0 as in the code.                   *)
(***************************************************************************)
EXTENDS Naturals, Sequences, FiniteSetsExt

CONSTANTS
    EfuseDim,       \* size and protected tail of the map (512 and 96)
    EfuseBytes,     \* bounded input: bytes an arbitrary map is made of
    EfuseRecords    \* bounded input: records a well-formed map is made of

(* A block has four words of two bytes.  A second header byte of 255 ends  *)
(* the map, so a record of the last eight blocks has a word.               *)
ASSUME EfuseAssumption ==
    /\ EfuseDim.size \in Nat /\ EfuseDim.size % 8 = 0
    /\ EfuseDim.protect \in 1 .. EfuseDim.size
    /\ EfuseBytes \subseteq 0 .. 255
    /\ \A r \in EfuseRecords :
          /\ r.blk \in 0 .. 127 /\ r.long \in BOOLEAN
          /\ DOMAIN r.words \subseteq 0 .. 3
          /\ \A i \in DOMAIN r.words : r.words[i] \in (0 .. 255) \X (0 .. 255)
          /\ r.blk >= 120 => DOMAIN r.words # {}

size == EfuseDim.size
limit == EfuseDim.size - EfuseDim.protect

(* Bit i of a number of four bits.                                         *)
Bit(n, i) == (n \div <<1, 2, 4, 8>>[i + 1]) % 2

(* Mutant: the first of the two bytes decides.                             *)
Word_past(w, phy, blk, i) ==
    LET at == blk * 8 + i * 2
    IN  IF w.error \/ w.idx >= limit \/ at + 1 >= size
        THEN [w EXCEPT !.error = TRUE]
        ELSE [w EXCEPT !.log = [k \in DOMAIN @ |->
                                  IF k \in {at, at + 1}
                                  THEN phy[w.idx + (k - at)] ELSE @[k]],
                       !.idx = @ + 2, !.top = Max({@, at + 1}),
                       !.read = Max({@, w.idx + 1})]

(* One word; `top' and `read' note the highest indices touched.            *)
Word(w, phy, blk, i) ==
    LET at == blk * 8 + i * 2
    IN  IF w.error \/ w.idx + 1 >= limit \/ at + 1 >= size
        THEN [w EXCEPT !.error = TRUE]
        ELSE [w EXCEPT !.log = [k \in DOMAIN @ |->
                                  IF k \in {at, at + 1}
                                  THEN phy[w.idx + (k - at)] ELSE @[k]],
                       !.idx = @ + 2, !.top = Max({@, at + 1}),
                       !.read = Max({@, w.idx + 1})]

(* The words a header announces: those whose bit of word_en is clear.      *)
Words(w, phy, blk, word_en) ==
    LET Turn(v, i) == IF Bit(word_en, i) = 0 THEN Word(v, phy, blk, i) ELSE v
    IN  Turn(Turn(Turn(Turn(w, 0), 1), 2), 3)

(* One turn of the loop: a header of one or two bytes and its words.       *)
Record(w, phy) ==
    LET hdr1 == phy[w.idx]
        hdr2 == phy[w.idx + 1]
        seen == Max({w.read, w.idx + 1})
        ext == hdr1 % 32 = 15
    IN  IF w.done \/ w.error \/ w.idx >= limit THEN [w EXCEPT !.done = TRUE]
        ELSE IF hdr1 = 255 \/ (ext /\ hdr2 = 255)
        THEN [w EXCEPT !.done = TRUE, !.read = seen]
        ELSE IF ext
        THEN Words([w EXCEPT !.idx = @ + 2, !.read = seen], phy,
                   (hdr2 \div 16) * 8 + hdr1 \div 32, hdr2 % 16)
        ELSE Words([w EXCEPT !.idx = @ + 1, !.read = seen], phy,
                   hdr1 \div 16, hdr1 % 16)

(* The loop: the state after n turns.  Each turn consumes a byte, so       *)
(* `limit' of them are enough, and one more to see the end.                *)
efuse_logical_walk(phy) ==
    LET walk[n \in 0 .. limit + 1] ==
            IF n = 0
            THEN [idx |-> 0, log |-> [k \in 0 .. size - 1 |-> 255],
                  error |-> FALSE, done |-> FALSE, top |-> 0, read |-> 0]
            ELSE Record(walk[n-1], phy)
    IN  walk

WalkEnd(phy) == efuse_logical_walk(phy)[limit + 1]

-----------------------------------------------------------------------------
(* Reference: a map is a list of records; the last one that has a word     *)
(* decides it.                                                             *)

(* A record's bytes.  Two-byte headers exist because one byte has room for *)
(* 16 blocks only, and none for "no word of an even block".                *)
WordBytes(r, i) == IF i \in DOMAIN r.words THEN r.words[i] ELSE <<>>
Off(r, i) == IF i \in DOMAIN r.words THEN 0 ELSE 1
WordEn(r) == Off(r, 0) + 2 * Off(r, 1) + 4 * Off(r, 2) + 8 * Off(r, 3)
Header(r) ==
    IF r.long \/ r.blk >= 16 \/ (WordEn(r) = 15 /\ (r.blk % 2 = 0 \/ r.blk = 15))
    THEN <<(r.blk % 8) * 32 + 15, (r.blk \div 8) * 16 + WordEn(r)>>
    ELSE <<r.blk * 16 + WordEn(r)>>
Encode(r) == Header(r) \o WordBytes(r, 0) \o WordBytes(r, 1)
                       \o WordBytes(r, 2) \o WordBytes(r, 3)

(* The bytes of the first n records.                                       *)
Bytes(rs) ==
    LET upto[n \in 0 .. Len(rs)] ==
            IF n = 0 THEN <<>> ELSE upto[n-1] \o Encode(rs[n])
    IN  upto

PhysMap(rs) ==
    LET all == Bytes(rs)[Len(rs)]
    IN  [k \in 0 .. size - 1 |-> IF k < Len(all) THEN all[k + 1] ELSE 255]

(* Records that begin before the protected tail: the rest is not theirs.   *)
Seen(rs) == {n \in DOMAIN rs : Len(Bytes(rs)[n-1]) < limit}

Logical(rs) ==
    [k \in 0 .. size - 1 |->
        LET has == {n \in Seen(rs) : /\ rs[n].blk = k \div 8
                                      /\ (k % 8) \div 2 \in DOMAIN rs[n].words}
        IN  IF has = {} THEN 255
            ELSE rs[Max(has)].words[(k % 8) \div 2][(k % 2) + 1]]

Fits(rs) ==
    \A n \in Seen(rs) :
        DOMAIN rs[n].words # {} => /\ rs[n].blk < size \div 8
                                   /\ Len(Bytes(rs)[n]) <= limit

(* A well-formed map is laid out, or refused when it has words that reach  *)
(* into the protected tail or belong to a block that does not exist.       *)
LayoutRight(rs) ==
    LET w == WalkEnd(PhysMap(rs))
    IN  IF Fits(rs) THEN ~w.error /\ w.log = Logical(rs) ELSE w.error

(* Whatever the bytes are, the walk comes to an end and stays inside.      *)
StaysInside(phy) ==
    LET w == WalkEnd(phy)
    IN  (w.done \/ w.error) /\ w.top < size /\ w.read < size

(* The eFuse walk returns the logical map of every well-formed physical    *)
(* map, refuses one with words that reach into the protected tail or of a  *)
(* block that does not exist, and whatever the bytes are it comes to an    *)
(* end and never reads or writes past the arrays.                          *)
EfuseWalkRight ==
    /\ \A rs \in UNION {[1 .. n -> EfuseRecords] : n \in 0 .. 3} : LayoutRight(rs)
    /\ \A phy \in [0 .. size - 1 -> EfuseBytes] : StaysInside(phy)
=============================================================================
