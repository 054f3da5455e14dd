------------------------------- MODULE Mailbox -------------------------------
(***************************************************************************)
(* The H2C mailbox: rtw88_h2c_mailbox, the commands sent through it and    *)
(* the firmware that takes them.                                           *)
(*                                                                         *)
(* A command is two register writes, the extension and then the message,   *)
(* into one of four boxes used in turn.  The caller holds sc_mtx, but      *)
(* every register access gives it up for the time on the wire: another     *)
(* thread may then enter the function and choose its box.  It cannot get   *)
(* at a register before the first one leaves its sc_mtx section (see Ep0), *)
(* which is what `bus' stands for.                                         *)
(***************************************************************************)
EXTENDS Naturals, Access

CONSTANTS
    Senders,        \* threads that send commands
    NumBoxes,       \* 4
    MaxPolls        \* reads of a busy REG_HMETFR before EBUSY (30)

Boxes == 0 .. NumBoxes - 1

(* The extension word of each command: 0, or what it carries.              *)
ExtOf ==
    [BT_WIFI_CONTROL |-> "0", COEX_TDMA_TYPE |-> "0", WL_CH_INFO |-> "0",
     MEDIA_STATUS |-> "0", DEFAULT_PORT |-> "0", RA_INFO |-> "mask",
     RSVD_PAGE |-> "page", PWR_ACTIVE |-> "ALL_ON", PWR_LPS |-> "RF_OFF"]

Commands == DOMAIN ExtOf
Extensions == {ExtOf[c] : c \in Commands}
None == "none"

ASSUME MailboxAssumption ==
    NumBoxes \in Nat \ {0} /\ MaxPolls \in Nat \ {0} /\ None \notin Senders

VARIABLES
    sc_h2c_box_next,
    hmebox,     \* per box: the command waiting in it (if any, its bit of
                \* REG_HMETFR is set) and the extension register
    send,       \* per thread: where it is in rtw88_h2c_mailbox
    bus         \* the thread whose sc_mtx section is doing register I/O

mbVars == <<sc_h2c_box_next, hmebox, send, bus>>

Busy(b) == hmebox[b].cmd # None

MbTypeOK ==
    /\ sc_h2c_box_next \in Boxes
    /\ hmebox \in [Boxes -> [cmd : Commands \cup {None}, ext : Extensions]]
    /\ send \in [Senders -> [pc : {"idle", "poll", "ext", "msg", "next"},
                             cmd : Commands \cup {None}, box : Boxes,
                             try : 0 .. MaxPolls - 1]]
    /\ bus \in Senders \cup {None}

Idle == [pc |-> "idle", cmd |-> None, box |-> 0, try |-> 0]

EmptyBox == [cmd |-> None, ext |-> "0"]

MbInit ==
    /\ sc_h2c_box_next = 0
    /\ hmebox = [b \in Boxes |-> EmptyBox]
    /\ send = [s \in Senders |-> Idle]
    /\ bus = None

Sending(s) == send[s].pc # "idle"

(* The section of s goes on to its next access, or ends.                   *)
Leave(s, more) == bus' = IF more THEN s ELSE None

(* The function returns; `more': its caller has accesses left to make.     *)
Return(s, more) == send' = [send EXCEPT ![s] = Idle] /\ Leave(s, more)

(* Inside the function, on to step p.                                      *)
Goes(s, p) == send' = [send EXCEPT ![s].pc = p] /\ bus' = s

(* Entry.  The box is chosen here, before the first access.                *)
Enter(s, c) ==
    /\ ~Sending(s)
    /\ send' = [send EXCEPT ![s] = [pc |-> "poll", cmd |-> c,
                                   box |-> sc_h2c_box_next, try |-> 0]]
    /\ UNCHANGED <<sc_h2c_box_next, hmebox>>

Call(s, c) == Enter(s, c) /\ UNCHANGED bus

(* The same, as part of a section that has begun with other registers.     *)
CallInside(s, c) == bus = None /\ bus' = s /\ Enter(s, c)

(* Mutant: the bit of the next box is tested.                              *)
Poll_other(s, out, more) ==
    /\ send[s].pc = "poll" /\ bus \in {s, None}
    /\ IF out # "ok" THEN Return(s, more)
       ELSE IF ~Busy((send[s].box + 1) % NumBoxes) THEN Goes(s, "ext")
       ELSE IF send[s].try + 1 < MaxPolls
            THEN send' = [send EXCEPT ![s].try = @ + 1] /\ bus' = s
       ELSE Return(s, more)
    /\ UNCHANGED <<sc_h2c_box_next, hmebox>>

(* Mutant: turns of the loop are not counted.                              *)
Poll_forever(s, out, more) ==
    /\ send[s].pc = "poll" /\ bus \in {s, None}
    /\ IF out # "ok" THEN Return(s, more)
       ELSE IF ~Busy(send[s].box) THEN Goes(s, "ext")
       ELSE bus' = s /\ UNCHANGED send
    /\ UNCHANGED <<sc_h2c_box_next, hmebox>>

(* One turn of the loop that reads REG_HMETFR.  The first read is also the *)
(* wait for the claim on EP0; DELAY between reads keeps sc_mtx.            *)
Poll(s, out, more) ==
    /\ send[s].pc = "poll" /\ bus \in {s, None}
    /\ IF out # "ok" THEN Return(s, more)
       ELSE IF ~Busy(send[s].box) THEN Goes(s, "ext")
       ELSE IF send[s].try + 1 < MaxPolls
            THEN send' = [send EXCEPT ![s].try = @ + 1] /\ bus' = s
       ELSE Return(s, more)
    /\ UNCHANGED <<sc_h2c_box_next, hmebox>>

(* HMEBOXn_EX.                                                             *)
WriteExt(s, out, more) ==
    /\ send[s].pc = "ext"
    /\ IF Landed(out)
       THEN hmebox' = [hmebox EXCEPT ![send[s].box].ext = ExtOf[send[s].cmd]]
       ELSE UNCHANGED hmebox
    /\ IF out = "ok" THEN Goes(s, "msg") ELSE Return(s, more)
    /\ UNCHANGED sc_h2c_box_next

(* HMEBOXn: the write that arms the box.                                   *)
WriteMsg(s, out, more) ==
    /\ send[s].pc = "msg"
    /\ IF Landed(out)
       THEN hmebox' = [hmebox EXCEPT ![send[s].box].cmd = send[s].cmd]
       ELSE UNCHANGED hmebox
    /\ IF out = "ok" THEN Goes(s, "next") ELSE Return(s, more)
    /\ UNCHANGED sc_h2c_box_next

(* Mutant: the index does not wrap.                                        *)
Advance_nowrap(s, more) ==
    /\ send[s].pc = "next"
    /\ sc_h2c_box_next' = sc_h2c_box_next + 1
    /\ Return(s, more)
    /\ UNCHANGED hmebox

(* The index moves on only now, and from what it is by now.                *)
Advance(s, more) ==
    /\ send[s].pc = "next"
    /\ sc_h2c_box_next' = (sc_h2c_box_next + 1) % NumBoxes
    /\ Return(s, more)
    /\ UNCHANGED hmebox

(* The firmware takes what is in a busy box and clears its bit.            *)
FwTake(b) ==
    /\ Busy(b)
    /\ hmebox' = [hmebox EXCEPT ![b].cmd = None]
    /\ UNCHANGED <<sc_h2c_box_next, send, bus>>

(* A new softc counts from zero; a chip without power forgets its boxes.   *)
NewSoftc == sc_h2c_box_next' = 0 /\ UNCHANGED <<hmebox, send, bus>>
Forget ==
    /\ hmebox' = [b \in Boxes |-> EmptyBox]
    /\ UNCHANGED <<sc_h2c_box_next, send, bus>>

Step(s, out, more) ==
    Poll(s, out, more) \/ WriteExt(s, out, more) \/ WriteMsg(s, out, more)

(* The end of a section that went on after its last command, as            *)
(* rtw88_phy_set_channel's does and no other.                              *)
Unlock(s) ==
    /\ bus = s /\ ~Sending(s) /\ bus' = None
    /\ UNCHANGED <<sc_h2c_box_next, hmebox, send>>

(* Attach and power loss come when nobody is in the function.              *)
MbNext ==
    \/ \E s \in Senders, c \in Commands : Call(s, c) \/ CallInside(s, c)
    \/ \E s \in Senders, out \in Outcomes, more \in BOOLEAN : Step(s, out, more)
    \/ \E s \in Senders, more \in BOOLEAN : Advance(s, more)
    \/ \E s \in Senders : Unlock(s)
    \/ \E b \in Boxes : FwTake(b)
    \/ (\A s \in Senders : ~Sending(s)) /\ (NewSoftc \/ Forget)

MbSpec == MbInit /\ [][MbNext]_mbVars

-----------------------------------------------------------------------------

(* A command that waits in a box has its own extension with it, whatever   *)
(* calls overlapped, chose the same box, failed halfway or failed after    *)
(* their write had landed.                                                 *)
CommandsWhole == \A b \in Boxes : Busy(b) => hmebox[b].ext = ExtOf[hmebox[b].cmd]

(* A box is not written while a command waits in it: only the firmware     *)
(* takes it out.                                                           *)
BoxesKept ==
    [][\A b \in Boxes : Busy(b) => hmebox'[b] = hmebox[b] \/ ~Busy(b)']_mbVars
=============================================================================
