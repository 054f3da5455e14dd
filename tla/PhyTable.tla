------------------------------ MODULE PhyTable ------------------------------
(***************************************************************************)
(* rtw88_phy_walk_table: BB, AGC and RF tables are lists of (address,      *)
(* value) pairs with conditional sentinels among them.  A condition takes  *)
(* two entries, a positive one that carries it (IF, ELIF) and a negative   *)
(* one at which it is tested; ELSE and ENDIF are positive entries alone.   *)
(***************************************************************************)
EXTENDS Naturals, Sequences, FiniteSetsExt

CONSTANTS
    Device,         \* sc_cut_version, sc_pkg_type, sc_rfe_option
    TableConds,     \* bounded input: conditions
    TableBodies     \* bounded input: runs of plain entries

ASSUME TableAssumption == TableBodies \subseteq Seq(Nat)

INTF_USB == 2

(* rtw88_phy_cond_check: zero matches anything, but for rfe.               *)
phy_cond_check(c) ==
    /\ c.cut \in {0, Device.cut}
    /\ c.pkg \in {0, Device.pkg}
    /\ c.intf \in {0, INTF_USB}
    /\ c.rfe = Device.rfe

Entry(t) == [is |-> t, cond |-> <<>>, addr |-> 0]
Pos(t, c) == [Entry(t) EXCEPT !.cond = c]
Plain(a) == [Entry("plain") EXCEPT !.addr = a]

(* Mutant: ELIF is tested although a branch was taken.                     *)
Walk1_elif(w, e) ==
    CASE e.is = "ENDIF" -> [w EXCEPT !.matched = TRUE, !.skipped = FALSE]
      [] e.is = "ELSE" -> [w EXCEPT !.matched = ~w.skipped]
      [] e.is \in {"IF", "ELIF"} -> [w EXCEPT !.cond = e.cond]
      [] e.is = "NEG" -> LET ok == phy_cond_check(w.cond)
                         IN  [w EXCEPT !.matched = ok, !.skipped = ok]
      [] OTHER -> IF w.matched THEN [w EXCEPT !.applied = Append(@, e.addr)]
                  ELSE w

(* One entry: `matched' applies plain entries, `skipped' remembers that a  *)
(* branch was taken.                                                       *)
Walk1(w, e) ==
    CASE e.is = "ENDIF" -> [w EXCEPT !.matched = TRUE, !.skipped = FALSE]
      [] e.is = "ELSE" -> [w EXCEPT !.matched = ~w.skipped]
      [] e.is \in {"IF", "ELIF"} -> [w EXCEPT !.cond = e.cond]
      [] e.is = "NEG" -> IF w.skipped THEN [w EXCEPT !.matched = FALSE]
                         ELSE LET ok == phy_cond_check(w.cond)
                              IN  [w EXCEPT !.matched = ok, !.skipped = ok]
      [] OTHER -> IF w.matched THEN [w EXCEPT !.applied = Append(@, e.addr)]
                  ELSE w

(* The loop, from a state of it to the one behind the entries.             *)
phy_walk(start, entries) ==
    LET walk[n \in 0 .. Len(entries)] ==
            IF n = 0 THEN start ELSE Walk1(walk[n-1], entries[n])
    IN  walk[Len(entries)]

phy_walk_table(entries) ==
    phy_walk([cond |-> <<>>, matched |-> TRUE, skipped |-> FALSE,
              applied |-> <<>>], entries).applied

-----------------------------------------------------------------------------
(* Reference: a block is a list of branches, the first of which that holds *)
(* is carried out, and an optional last resort.                            *)

Branches == [cond : TableConds, body : TableBodies]
Blocks == [branches : UNION {[1 .. n -> Branches] : n \in 1 .. 2},
           else : BOOLEAN, body : TableBodies]

PlainRun(body) == [k \in DOMAIN body |-> Plain(body[k])]

(* The entries of the n-th branch, of the first n, and of the whole block. *)
Branch(branches, n) ==
    <<Pos(IF n = 1 THEN "IF" ELSE "ELIF", branches[n].cond)>>
    \o <<Entry("NEG")>> \o PlainRun(branches[n].body)

BranchEntries(branches) ==
    LET upto[n \in 0 .. Len(branches)] ==
            IF n = 0 THEN <<>> ELSE upto[n-1] \o Branch(branches, n)
    IN  upto

Table(b) ==
    BranchEntries(b.branches)[Len(b.branches)]
    \o (IF b.else THEN <<Entry("ELSE")>> \o PlainRun(b.body) ELSE <<>>)
    \o <<Entry("ENDIF")>>

Meaning(b) ==
    LET true == {n \in DOMAIN b.branches : phy_cond_check(b.branches[n].cond)}
    IN  IF true # {} THEN b.branches[Min(true)].body
        ELSE IF b.else THEN b.body ELSE <<>>

(* Two blocks with plain entries around them.                             *)
TablesAgree(b, c) ==
    phy_walk_table(<<Plain(1)>> \o Table(b) \o <<Plain(2)>> \o Table(c)
                   \o <<Plain(3)>>)
      = <<1>> \o Meaning(b) \o <<2>> \o Meaning(c) \o <<3>>

(* Every block of conditional entries is carried out as an IF is read: the *)
(* first branch that holds, else ELSE, and nothing leaks from one block    *)
(* into the entries before it, after it or into the next block.            *)
TableWalkRight ==
    \A b \in Blocks, c \in {d \in Blocks : Len(d.branches) = 1} : TablesAgree(b, c)
=============================================================================
