---------------------------- MODULE Chip_proofs -----------------------------
(***************************************************************************)
(* The driver and the running chip, for every value of the constants:      *)
(* first the mailbox, for any number of threads, boxes and polls, then     *)
(* channel switches and calibrations, for any channels, widths and number  *)
(* of polls, and any number of switches, calibrations and attaches.        *)
(***************************************************************************)
EXTENDS Radio, TLAPS

-----------------------------------------------------------------------------
(* The mailbox.  CommandsWhole is not inductive: that a message meets its  *)
(* own extension rests on what a call found and wrote before it, and on    *)
(* nobody else having been at the registers in between.                    *)

(* Past its first access a call owns the bus.                              *)
OnTheBus == \A s \in Senders : send[s].pc \in {"ext", "msg", "next"} => bus = s

(* The box a call is about to write is empty, as it found it ...           *)
FoundEmpty == \A s \in Senders : send[s].pc \in {"ext", "msg"} => ~Busy(send[s].box)

(* ... and when its message is next, its extension is in place.            *)
ExtensionThere ==
    \A s \in Senders :
        send[s].pc = "msg" => hmebox[send[s].box].ext = ExtOf[send[s].cmd]

(* A call has a command.                                                   *)
HasCommand == \A s \in Senders : Sending(s) => send[s].cmd \in Commands

MbInv == /\ MbTypeOK /\ OnTheBus /\ FoundEmpty /\ ExtensionThere /\ HasCommand
        /\ CommandsWhole

-----------------------------------------------------------------------------
(* Facts about the table of commands.                                      *)

(* Every command's extension is one of Extensions.                         *)
LEMMA ExtensionTypes == \A c \in Commands : ExtOf[c] \in Extensions
  BY DEF Extensions

(* The empty extension register is a legal value.                          *)
LEMMA ZeroIsExtension == "0" \in Extensions
  <1>1. "MEDIA_STATUS" \in Commands /\ ExtOf["MEDIA_STATUS"] = "0"
    BY DEF Commands, ExtOf
  <1> QED BY <1>1 DEF Extensions

-----------------------------------------------------------------------------
(* One lemma per step.                                                     *)

(* Entering the function chooses a box; the bus stays with whom it is, or  *)
(* is free and becomes the caller's.                                       *)
LEMMA CallPreserves ==
    ASSUME MbInv, NEW s \in Senders, NEW c \in Commands,
           Call(s, c) \/ CallInside(s, c)
    PROVE  MbInv'
  <1> DEFINE new == [pc |-> "poll", cmd |-> c, box |-> sc_h2c_box_next, try |-> 0]
  <1>1. /\ send' = [send EXCEPT ![s] = new]
        /\ UNCHANGED <<sc_h2c_box_next, hmebox>>
        /\ bus' = bus \/ (bus = None /\ bus' = s)
    BY DEF Call, CallInside, Enter
  <1>2. \A t \in Senders : send'[t] = IF t = s THEN new ELSE send[t]
    BY <1>1 DEF MbInv, MbTypeOK
  <1>3. MbTypeOK'
    BY <1>1, MailboxAssumption DEF MbInv, MbTypeOK
  <1>4. (OnTheBus /\ FoundEmpty /\ ExtensionThere /\ HasCommand)'
    BY <1>1, <1>2, MailboxAssumption DEF MbInv, OnTheBus, FoundEmpty,
       ExtensionThere, HasCommand, Busy, Sending
  <1>5. CommandsWhole'
    BY <1>1 DEF MbInv, CommandsWhole, Busy
  <1> QED BY <1>3, <1>4, <1>5 DEF MbInv

(* The function returns, having left the boxes and the index alone.        *)
LEMMA ReturnPreserves ==
    ASSUME MbInv, NEW s \in Senders, NEW more \in BOOLEAN,
           Return(s, more), UNCHANGED <<sc_h2c_box_next, hmebox>>,
           bus \in {s, None}
    PROVE  MbInv'
  <1>1. send' = [send EXCEPT ![s] = Idle] /\ bus' \in {s, None}
    BY DEF Return, Leave
  <1>2. \A t \in Senders : send'[t] = IF t = s THEN Idle ELSE send[t]
    BY <1>1 DEF MbInv, MbTypeOK
  <1>3. MbTypeOK'
    BY <1>1, MailboxAssumption DEF MbInv, MbTypeOK, Idle, Boxes
  <1>4. OnTheBus'
    BY <1>1, <1>2, MailboxAssumption DEF MbInv, OnTheBus, Idle
  <1>5. (FoundEmpty /\ ExtensionThere /\ HasCommand)'
    BY <1>2 DEF MbInv, FoundEmpty, ExtensionThere, HasCommand, Busy, Sending, Idle
  <1>6. CommandsWhole'
    BY DEF MbInv, CommandsWhole, Busy
  <1> QED BY <1>3, <1>4, <1>5, <1>6 DEF MbInv

(* A look at REG_HMETFR.                                                   *)
LEMMA PollPreserves ==
    ASSUME MbInv, NEW s \in Senders, NEW out \in Outcomes, NEW more \in BOOLEAN,
           Poll(s, out, more)
    PROVE  MbInv'
  <1>1. /\ send[s].pc = "poll" /\ bus \in {s, None}
        /\ UNCHANGED <<sc_h2c_box_next, hmebox>>
    BY DEF Poll
  <1>2. CASE Return(s, more)
    BY <1>1, <1>2, ReturnPreserves
  <1>3. CASE ~Busy(send[s].box) /\ Goes(s, "ext")
    <2>1. send' = [send EXCEPT ![s].pc = "ext"] /\ bus' = s
      BY <1>3 DEF Goes
    <2>2. \A t \in Senders : send'[t] = IF t = s THEN [send[s] EXCEPT !.pc = "ext"]
                                         ELSE send[t]
      BY <2>1 DEF MbInv, MbTypeOK
    <2>3. MbTypeOK'
      BY <1>1, <2>1 DEF MbInv, MbTypeOK
    <2>4. OnTheBus'
      BY <1>1, <2>1, <2>2, MailboxAssumption DEF MbInv, OnTheBus
    <2>5. (FoundEmpty /\ ExtensionThere /\ HasCommand)'
      BY <1>1, <1>3, <2>2
      DEF MbInv, MbTypeOK, FoundEmpty, ExtensionThere, HasCommand, Busy, Sending
    <2>6. CommandsWhole'
      BY <1>1 DEF MbInv, CommandsWhole, Busy
    <2> QED BY <2>3, <2>4, <2>5, <2>6 DEF MbInv
  <1>4. CASE /\ send[s].try + 1 < MaxPolls
             /\ send' = [send EXCEPT ![s].try = @ + 1] /\ bus' = s
    <2>1. \A t \in Senders :
             send'[t] = IF t = s THEN [send[s] EXCEPT !.try = @ + 1] ELSE send[t]
      BY <1>4 DEF MbInv, MbTypeOK
    <2>2. send[s].try + 1 \in 0 .. MaxPolls - 1
      BY <1>4, MailboxAssumption DEF MbInv, MbTypeOK
    <2>3. MbTypeOK'
      BY <1>1, <1>4, <2>2 DEF MbInv, MbTypeOK
    <2>4. OnTheBus'
      BY <1>1, <1>4, <2>1, MailboxAssumption DEF MbInv, MbTypeOK, OnTheBus
    <2>5. (FoundEmpty /\ ExtensionThere /\ HasCommand)'
      BY <1>1, <2>1
      DEF MbInv, MbTypeOK, FoundEmpty, ExtensionThere, HasCommand, Busy, Sending
    <2>6. CommandsWhole'
      BY <1>1 DEF MbInv, CommandsWhole, Busy
    <2> QED BY <2>3, <2>4, <2>5, <2>6 DEF MbInv
  <1> QED BY <1>2, <1>3, <1>4 DEF Poll

(* The step after a write: another one of the same call, or the return.    *)
LEMMA AfterWrite ==
    ASSUME MbInv, NEW s \in Senders, NEW out \in Outcomes, NEW more \in BOOLEAN,
           NEW p \in {"msg", "next"},
           (out = "ok" /\ Goes(s, p)) \/ Return(s, more)
    PROVE  /\ send' \in [Senders -> [pc : {"idle", "poll", "ext", "msg", "next"},
                                     cmd : Commands \cup {None}, box : Boxes,
                                     try : 0 .. MaxPolls - 1]]
           /\ bus' \in {s, None}
           /\ \A t \in Senders \ {s} : send'[t] = send[t]
           /\ \/ send'[s] = Idle
              \/ out = "ok" /\ bus' = s /\ send'[s] = [send[s] EXCEPT !.pc = p]
  <1>1. CASE Goes(s, p) /\ out = "ok"
    <2>1. send' = [send EXCEPT ![s].pc = p] /\ bus' = s
      BY <1>1 DEF Goes
    <2> QED BY <1>1, <2>1 DEF MbInv, MbTypeOK
  <1>2. CASE Return(s, more)
    <2>1. send' = [send EXCEPT ![s] = Idle] /\ bus' \in {s, None}
      BY <1>2 DEF Return, Leave
    <2>2. Idle \in [pc : {"idle", "poll", "ext", "msg", "next"},
                    cmd : Commands \cup {None}, box : Boxes,
                    try : 0 .. MaxPolls - 1]
      BY MailboxAssumption DEF Idle, Boxes
    <2> QED BY <2>1, <2>2 DEF MbInv, MbTypeOK
  <1> QED BY <1>1, <1>2

(* The extension is written into a box found empty.                        *)
LEMMA WriteExtPreserves ==
    ASSUME MbInv, NEW s \in Senders, NEW out \in Outcomes, NEW more \in BOOLEAN,
           WriteExt(s, out, more)
    PROVE  MbInv'
  <1> DEFINE b == send[s].box
             e == ExtOf[send[s].cmd]
  <1>1. /\ send[s].pc = "ext" /\ bus = s /\ ~Busy(b) /\ b \in Boxes
        /\ send[s].cmd \in Commands /\ e \in Extensions
        /\ sc_h2c_box_next' = sc_h2c_box_next
    BY ExtensionTypes
    DEF WriteExt, MbInv, MbTypeOK, OnTheBus, FoundEmpty, HasCommand, Sending
  <1>2. /\ \/ hmebox' = [hmebox EXCEPT ![b].ext = e]
           \/ hmebox' = hmebox /\ out # "ok"
        /\ (out = "ok" /\ Goes(s, "msg")) \/ Return(s, more)
    BY DEF WriteExt, Landed
  <1>3. /\ send' \in [Senders -> [pc : {"idle", "poll", "ext", "msg", "next"},
                                  cmd : Commands \cup {None}, box : Boxes,
                                  try : 0 .. MaxPolls - 1]]
        /\ bus' \in {s, None}
        /\ \A t \in Senders \ {s} : send'[t] = send[t]
        /\ \/ send'[s] = Idle
           \/ out = "ok" /\ bus' = s /\ send'[s] = [send[s] EXCEPT !.pc = "msg"]
    <2>1. "msg" \in {"msg", "next"}
      OBVIOUS
    <2> QED BY <1>2, <2>1, AfterWrite
  <1>4. \A t \in Senders \ {s} : send[t].pc \notin {"ext", "msg", "next"}
    BY <1>1 DEF MbInv, OnTheBus
  <1>5. \A c \in Boxes : hmebox'[c].cmd = hmebox[c].cmd
                        /\ (c # b => hmebox'[c].ext = hmebox[c].ext)
                        /\ (out = "ok" => hmebox'[b].ext = e)
    BY <1>1, <1>2 DEF MbInv, MbTypeOK
  <1>6. MbTypeOK'
    <2>1. hmebox' \in [Boxes -> [cmd : Commands \cup {None}, ext : Extensions]]
      BY <1>1, <1>2 DEF MbInv, MbTypeOK
    <2> QED BY <1>1, <1>3, <2>1 DEF MbInv, MbTypeOK
  <1>7. OnTheBus'
    BY <1>3, <1>4 DEF OnTheBus, Idle
  <1>8. FoundEmpty'
    <2>1. \A t \in Senders : send'[t].pc \in {"ext", "msg"} =>
                              t = s /\ send'[t].box = b
      BY <1>1, <1>3, <1>4 DEF Idle, MbInv, MbTypeOK
    <2> QED BY <1>1, <1>5, <2>1 DEF FoundEmpty, Busy
  <1>9. ExtensionThere'
    BY <1>1, <1>3, <1>4, <1>5, SMTT(30) DEF ExtensionThere, Idle, MbInv, MbTypeOK
  <1>10. HasCommand'
    <2>1. Sending(s)' => send'[s].cmd \in Commands
      BY <1>1, <1>3 DEF MbInv, MbTypeOK, Sending, Idle
    <2>2. \A t \in Senders \ {s} : Sending(t)' => send'[t].cmd \in Commands
      BY <1>3 DEF MbInv, HasCommand, Sending
    <2> QED BY <2>1, <2>2 DEF HasCommand
  <1>11. CommandsWhole'
    BY <1>1, <1>5 DEF MbInv, CommandsWhole, Busy
  <1> QED BY <1>6, <1>7, <1>8, <1>9, <1>10, <1>11 DEF MbInv

(* The message joins the extension of its own call.                        *)
LEMMA WriteMsgPreserves ==
    ASSUME MbInv, NEW s \in Senders, NEW out \in Outcomes, NEW more \in BOOLEAN,
           WriteMsg(s, out, more)
    PROVE  MbInv'
  <1> DEFINE b == send[s].box
             c == send[s].cmd
  <1>1. /\ send[s].pc = "msg" /\ bus = s /\ ~Busy(b) /\ b \in Boxes
        /\ c \in Commands /\ hmebox[b].ext = ExtOf[c]
        /\ sc_h2c_box_next' = sc_h2c_box_next
    BY DEF WriteMsg, MbInv, MbTypeOK, OnTheBus, FoundEmpty, HasCommand, Sending,
       ExtensionThere
  <1>2. /\ \/ hmebox' = [hmebox EXCEPT ![b].cmd = c]
           \/ hmebox' = hmebox
        /\ (out = "ok" /\ Goes(s, "next")) \/ Return(s, more)
    BY DEF WriteMsg
  <1>3. /\ send' \in [Senders -> [pc : {"idle", "poll", "ext", "msg", "next"},
                                  cmd : Commands \cup {None}, box : Boxes,
                                  try : 0 .. MaxPolls - 1]]
        /\ bus' \in {s, None}
        /\ \A t \in Senders \ {s} : send'[t] = send[t]
        /\ \/ send'[s] = Idle
           \/ out = "ok" /\ bus' = s /\ send'[s] = [send[s] EXCEPT !.pc = "next"]
    <2>1. "next" \in {"msg", "next"}
      OBVIOUS
    <2> QED BY <1>2, <2>1, AfterWrite
  <1>4. \A t \in Senders \ {s} : send[t].pc \notin {"ext", "msg", "next"}
    BY <1>1 DEF MbInv, OnTheBus
  <1>5. \A d \in Boxes :
           \/ hmebox'[d] = hmebox[d]
           \/ d = b /\ hmebox'[d].cmd = c /\ hmebox'[d].ext = hmebox[d].ext
    <2>1. CASE hmebox' = hmebox
      BY <2>1
    <2>2. CASE hmebox' = [hmebox EXCEPT ![b].cmd = c]
      <3>1. /\ hmebox'[b] = [hmebox[b] EXCEPT !.cmd = c]
            /\ \A d \in Boxes : d # b => hmebox'[d] = hmebox[d]
        BY <1>1, <2>2 DEF MbInv, MbTypeOK
      <3>2. hmebox[b] \in [cmd : Commands \cup {None}, ext : Extensions]
        BY <1>1 DEF MbInv, MbTypeOK
      <3>3. hmebox'[b].cmd = c /\ hmebox'[b].ext = hmebox[b].ext
        BY <3>1, <3>2
      <3> HIDE DEF b, c
      <3> QED BY <3>1, <3>3
    <2> QED BY <1>2, <2>1, <2>2
  <1>6. MbTypeOK'
    <2>1. hmebox' \in [Boxes -> [cmd : Commands \cup {None}, ext : Extensions]]
      BY <1>1, <1>2 DEF MbInv, MbTypeOK
    <2> QED BY <1>1, <1>3, <2>1 DEF MbInv, MbTypeOK
  <1>7. OnTheBus'
    BY <1>3, <1>4 DEF OnTheBus, Idle
  <1>8. (FoundEmpty /\ ExtensionThere)'
    <2>1. \A t \in Senders : send'[t].pc \notin {"ext", "msg"}
      BY <1>3, <1>4 DEF Idle, MbInv, MbTypeOK
    <2> QED BY <2>1 DEF FoundEmpty, ExtensionThere
  <1>9. HasCommand'
    <2>1. Sending(s)' => send'[s].cmd \in Commands
      BY <1>1, <1>3 DEF MbInv, MbTypeOK, Sending, Idle
    <2>2. \A t \in Senders \ {s} : Sending(t)' => send'[t].cmd \in Commands
      BY <1>3 DEF MbInv, HasCommand, Sending
    <2> QED BY <2>1, <2>2 DEF HasCommand
  <1>10. CommandsWhole'
    BY <1>1, <1>5 DEF MbInv, CommandsWhole, Busy
  <1> QED BY <1>6, <1>7, <1>8, <1>9, <1>10 DEF MbInv

(* The index moves on, within the boxes, and the function returns.         *)
LEMMA AdvancePreserves ==
    ASSUME MbInv, NEW s \in Senders, NEW more \in BOOLEAN, Advance(s, more)
    PROVE  MbInv'
  <1>1. /\ send[s].pc = "next" /\ bus = s
        /\ sc_h2c_box_next' = (sc_h2c_box_next + 1) % NumBoxes
        /\ send' = [send EXCEPT ![s] = Idle] /\ bus' \in {s, None}
        /\ hmebox' = hmebox
    BY DEF Advance, Return, Leave, MbInv, OnTheBus
  <1>2. \A t \in Senders : send'[t] = IF t = s THEN Idle ELSE send[t]
    BY <1>1 DEF MbInv, MbTypeOK
  <1>3. MbTypeOK'
    <2>1. sc_h2c_box_next' \in Boxes
      BY <1>1, MailboxAssumption DEF MbInv, MbTypeOK, Boxes
    <2>2. Idle \in [pc : {"idle", "poll", "ext", "msg", "next"},
                    cmd : Commands \cup {None}, box : Boxes,
                    try : 0 .. MaxPolls - 1]
      BY MailboxAssumption DEF Idle, Boxes
    <2> QED BY <1>1, <2>1, <2>2 DEF MbInv, MbTypeOK
  <1>4. OnTheBus'
    BY <1>1, <1>2 DEF MbInv, OnTheBus, Idle
  <1>5. (FoundEmpty /\ ExtensionThere /\ HasCommand)'
    BY <1>1, <1>2 DEF MbInv, FoundEmpty, ExtensionThere, HasCommand, Busy,
       Sending, Idle
  <1>6. CommandsWhole'
    BY <1>1 DEF MbInv, CommandsWhole, Busy
  <1> QED BY <1>3, <1>4, <1>5, <1>6 DEF MbInv

(* The firmware only empties boxes.                                        *)
LEMMA FwTakePreserves ==
    ASSUME MbInv, NEW b \in Boxes, FwTake(b)
    PROVE  MbInv'
  <1>1. /\ hmebox' = [hmebox EXCEPT ![b].cmd = None]
        /\ UNCHANGED <<sc_h2c_box_next, send, bus>>
    BY DEF FwTake
  <1>2. \A d \in Boxes : /\ hmebox'[d].ext = hmebox[d].ext
                         /\ hmebox'[d].cmd \in {hmebox[d].cmd, None}
    BY <1>1 DEF MbInv, MbTypeOK
  <1>3. MbTypeOK'
    BY <1>1 DEF MbInv, MbTypeOK
  <1>4. (OnTheBus /\ HasCommand)'
    BY <1>1 DEF MbInv, OnTheBus, HasCommand, Sending
  <1>5. \A t \in Senders : send[t].box \in Boxes
    BY DEF MbInv, MbTypeOK
  <1>6. (FoundEmpty /\ ExtensionThere)'
    BY <1>1, <1>2, <1>5 DEF MbInv, FoundEmpty, ExtensionThere, Busy
  <1>7. CommandsWhole'
    BY <1>2 DEF MbInv, CommandsWhole, Busy
  <1> QED BY <1>3, <1>4, <1>6, <1>7 DEF MbInv

(* A thread leaves its section outside of any call.                        *)
LEMMA UnlockPreserves ==
    ASSUME MbInv, NEW s \in Senders, Unlock(s)
    PROVE  MbInv'
  <1>1. /\ bus = s /\ ~Sending(s) /\ bus' = None
        /\ UNCHANGED <<sc_h2c_box_next, hmebox, send>>
    BY DEF Unlock
  <1>2. MbTypeOK'
    BY <1>1 DEF MbInv, MbTypeOK
  <1>3. OnTheBus'
    BY <1>1 DEF MbInv, OnTheBus, Sending
  <1>4. (FoundEmpty /\ ExtensionThere /\ HasCommand /\ CommandsWhole)'
    BY <1>1 DEF MbInv, FoundEmpty, ExtensionThere, HasCommand, CommandsWhole,
       Busy, Sending
  <1> QED BY <1>2, <1>3, <1>4 DEF MbInv

(* A new softc, and a chip that lost its power.                            *)
LEMMA ResetPreserves ==
    ASSUME MbInv, \A s \in Senders : ~Sending(s), NewSoftc \/ Forget
    PROVE  MbInv'
  <1>1. /\ send' = send /\ bus' = bus /\ sc_h2c_box_next' \in {0, sc_h2c_box_next}
        /\ hmebox' = hmebox \/ hmebox' = [b \in Boxes |-> EmptyBox]
    BY DEF NewSoftc, Forget
  <1>2. MbTypeOK'
    <2>1. 0 \in Boxes
      BY MailboxAssumption DEF Boxes
    <2>2. EmptyBox \in [cmd : Commands \cup {None}, ext : Extensions]
      BY ZeroIsExtension DEF EmptyBox
    <2> QED BY <1>1, <2>1, <2>2 DEF MbInv, MbTypeOK
  <1>3. (OnTheBus /\ FoundEmpty /\ ExtensionThere /\ HasCommand)'
    BY <1>1 DEF OnTheBus, FoundEmpty, ExtensionThere, HasCommand, Sending
  <1>4. CommandsWhole'
    BY <1>1 DEF MbInv, CommandsWhole, Busy, EmptyBox
  <1> QED BY <1>2, <1>3, <1>4 DEF MbInv

-----------------------------------------------------------------------------

(* Nobody is in the function and the boxes are empty.                      *)
LEMMA InitMbInv == ASSUME MbInit PROVE MbInv
  <1>1. /\ sc_h2c_box_next = 0 /\ bus = None
        /\ hmebox = [b \in Boxes |-> EmptyBox]
        /\ send = [s \in Senders |-> Idle]
    BY DEF MbInit
  <1>2. 0 \in Boxes /\ 0 \in 0 .. MaxPolls - 1
    BY MailboxAssumption DEF Boxes
  <1>3. MbTypeOK
    BY <1>1, <1>2, ZeroIsExtension DEF MbTypeOK, EmptyBox, Idle
  <1>4. OnTheBus /\ FoundEmpty /\ ExtensionThere /\ HasCommand
    BY <1>1 DEF OnTheBus, FoundEmpty, ExtensionThere, HasCommand, Sending, Idle
  <1>5. CommandsWhole
    BY <1>1 DEF CommandsWhole, Busy, EmptyBox
  <1> QED BY <1>3, <1>4, <1>5 DEF MbInv

(* Every step keeps MbInv.                                                 *)
LEMMA NextKeepsMb == ASSUME MbInv, [MbNext]_mbVars PROVE MbInv'
  <1>1. CASE UNCHANGED mbVars
    BY <1>1 DEF mbVars, MbInv, MbTypeOK, OnTheBus, FoundEmpty, ExtensionThere,
       HasCommand, CommandsWhole, Busy, Sending
  <1>2. ASSUME NEW s \in Senders, NEW c \in Commands,
               Call(s, c) \/ CallInside(s, c)
        PROVE  MbInv'
    BY <1>2, CallPreserves
  <1>3. ASSUME NEW s \in Senders, NEW out \in Outcomes, NEW more \in BOOLEAN,
               Step(s, out, more)
        PROVE  MbInv'
    BY <1>3, PollPreserves, WriteExtPreserves, WriteMsgPreserves DEF Step
  <1>4. ASSUME NEW s \in Senders, NEW more \in BOOLEAN, Advance(s, more)
        PROVE  MbInv'
    BY <1>4, AdvancePreserves
  <1>5. ASSUME NEW s \in Senders, Unlock(s) PROVE MbInv'
    BY <1>5, UnlockPreserves
  <1>6. ASSUME NEW b \in Boxes, FwTake(b) PROVE MbInv'
    BY <1>6, FwTakePreserves
  <1>7. CASE (\A s \in Senders : ~Sending(s)) /\ (NewSoftc \/ Forget)
    BY <1>7, ResetPreserves
  <1> QED BY <1>1, <1>2, <1>3, <1>4, <1>5, <1>6, <1>7 DEF MbNext

(* MbInv is an inductive invariant of the mailbox.                         *)
THEOREM MbInvariance == MbSpec => []MbInv
  <1>1. MbInit => MbInv
    BY InitMbInv
  <1>2. MbInv /\ [MbNext]_mbVars => MbInv'
    BY NextKeepsMb
  <1> QED BY <1>1, <1>2, PTL DEF MbSpec

(* The mailbox state keeps its types, the box index its range.             *)
THEOREM MailboxTypeCorrect == MbSpec => []MbTypeOK
  <1>1. MbInv => MbTypeOK
    BY DEF MbInv
  <1> QED BY <1>1, MbInvariance, PTL

(* The two halves of a command never part: for any number of threads that  *)
(* overlap in rtw88_h2c_mailbox and any failed or late access.             *)
THEOREM HalvesStayTogether == MbSpec => []CommandsWhole
  <1>1. MbInv => CommandsWhole
    BY DEF MbInv
  <1> QED BY <1>1, MbInvariance, PTL

(* A waiting command is not overwritten by another call that chose the     *)
(* same box: it polls until the firmware has taken the first.              *)
THEOREM WaitingCommandsKept == MbSpec => BoxesKept
  <1> DEFINE Kept == \A b \in Boxes : Busy(b) => hmebox'[b] = hmebox[b] \/ ~Busy(b)'
  <1>1. MbInv /\ [MbNext]_mbVars => [Kept]_mbVars
    <2> SUFFICES ASSUME MbInv, MbNext, NEW b \in Boxes, Busy(b)
                 PROVE  hmebox'[b] = hmebox[b] \/ ~Busy(b)'
      OBVIOUS
    <2>1. CASE hmebox' = hmebox
      BY <2>1
    <2>2. ASSUME NEW s \in Senders, NEW out \in Outcomes, NEW more \in BOOLEAN,
                 WriteExt(s, out, more) \/ WriteMsg(s, out, more)
          PROVE  hmebox'[b] = hmebox[b]
      <3>1. send[s].pc \in {"ext", "msg"}
        BY <2>2 DEF WriteExt, WriteMsg
      <3>2. send[s].box \in Boxes /\ b # send[s].box
        BY <3>1 DEF MbInv, MbTypeOK, FoundEmpty
      <3> QED BY <2>2, <3>2 DEF WriteExt, WriteMsg, MbInv, MbTypeOK
    <2>3. ASSUME NEW d \in Boxes, FwTake(d)
          PROVE  hmebox'[b] = hmebox[b] \/ ~Busy(b)'
      BY <2>3 DEF FwTake, Busy, MbInv, MbTypeOK
    <2>4. CASE Forget
      BY <2>4 DEF Forget, Busy, EmptyBox
    <2> QED BY <2>1, <2>2, <2>3, <2>4
            DEF MbNext, Step, Call, CallInside, Enter, Poll, Advance, Unlock,
                NewSoftc
  <1> QED BY <1>1, MbInvariance, PTL DEF MbSpec, BoxesKept

-----------------------------------------------------------------------------
(* Channel switches and calibrations                                       *)

(* What the rest of the driver does to this part: attach brings a new      *)
(* softc and power may be lost, both before there is a thread that         *)
(* switches or calibrates (see Bringup).                                   *)
NewSoftcRadio ==
    /\ ~Switching /\ ~Calibrating
    /\ sc_cur_channel' = 0 /\ sc_cur_bw' = "20" /\ asked' = Unset
    /\ failed' = FALSE /\ cal' = [pc |-> "no", try |-> 0, ok |-> FALSE]
    /\ UNCHANGED <<tuned, switch, iqk, dtxlok, unclean>>
RadioOff ==
    /\ ~Switching /\ ~Calibrating /\ asked = Unset
    /\ tuned' = [g \in DOMAIN tuned |-> Unset]
    /\ iqk' = 0 /\ dtxlok' = FALSE /\ unclean' = FALSE
    /\ UNCHANGED <<sc_cur_channel, sc_cur_bw, switch, asked, failed, cal>>

RadioSwitch ==
    /\ \/ \E c \in Channels, w \in Widths : set_channel(c, w)
       \/ SwitchRegisters
       \/ \E n \in DOMAIN Groups : SwitchFails(n)
       \/ SwitchDone
    /\ UNCHANGED calVars
RadioCalibrate ==
    /\ \/ \E out \in Outcomes : calibration(out) \/ CalPoll(out) \/ CalReset(out)
       \/ CalReturn \/ FwCalibrate
    /\ UNCHANGED switchVars

RadioNext == NewSoftcRadio \/ RadioOff \/ RadioSwitch \/ RadioCalibrate
RadioSpec == RadioInit /\ [][RadioNext]_radioVars

-----------------------------------------------------------------------------

(* Only widths the chip has become current, which is why comparing with    *)
(* the width asked for is enough.                                          *)
WidthIsChips == sc_cur_bw \in ChipWidths

(* While a switch is under way it is the one asked for; its registers are  *)
(* written before the mailbox is used.                                     *)
SwitchIsAsked ==
    /\ Switching => switch.to = asked /\ asked[2] \in ChipWidths
    /\ switch.at = 2 => /\ sc_cur_bw = asked[2]
                        /\ \A g \in DOMAIN tuned : tuned[g] = asked

(* Between switches the current setting is the one asked for, "unset" too. *)
SettingIsAsked ==
    ~Switching /\ ~failed => <<sc_cur_channel, sc_cur_bw>> = asked

(* As long as every calibration was answered and cleaned up, there is one  *)
(* request or one sentinel while the driver polls, and neither before and  *)
(* after.                                                                  *)
OneSentinel ==
    ~unclean =>
        /\ cal.pc \in {"no", "done"} => iqk = 0 /\ ~dtxlok
        /\ cal.pc = "poll" => \/ iqk = 1 /\ ~dtxlok
                              \/ iqk = 0 /\ dtxlok
        /\ cal.pc = "reset" /\ cal.ok => iqk = 0
        /\ cal.pc # "timeout"
NotYetSeen == cal.pc = "poll" => ~cal.ok

RadioInv ==
    /\ RadioTypeOK /\ WidthIsChips /\ SwitchIsAsked /\ SettingIsAsked
    /\ TunedAsAsked /\ OneSentinel /\ NotYetSeen

(* The types of the two halves.                                            *)
SwitchTypes ==
    /\ sc_cur_channel \in Channels \cup {0} /\ sc_cur_bw \in Widths
    /\ tuned \in [{"bb", "mac", "rf", "rxdfir"} -> Settings \cup {Unset, Torn}]
    /\ switch \in [at : 0 .. 2, to : Settings \cup {Unset}]
    /\ asked \in Settings \cup {Unset} /\ failed \in BOOLEAN
CalTypes ==
    /\ cal \in [pc : {"no", "poll", "reset", "done", "timeout"},
                try : 0 .. MaxIqkPolls - 1, ok : BOOLEAN]
    /\ iqk \in Nat /\ dtxlok \in BOOLEAN /\ unclean \in BOOLEAN

SwitchInv == /\ SwitchTypes /\ WidthIsChips /\ SwitchIsAsked /\ SettingIsAsked
             /\ TunedAsAsked
CalInv == CalTypes /\ OneSentinel /\ NotYetSeen

-----------------------------------------------------------------------------
(* The invariant is one of the switch and one of the calibration.          *)
LEMMA RadioInvParts == RadioInv <=> SwitchInv /\ CalInv
  BY DEF RadioInv, SwitchInv, CalInv, RadioTypeOK, SwitchTypes, CalTypes

(* A setting is a pair of a channel and a width.                           *)
LEMMA SettingParts ==
    ASSUME NEW x \in Settings \cup {Unset}
    PROVE  x = <<x[1], x[2]>> /\ x[1] \in Channels \cup {0} /\ x[2] \in Widths
  BY RadioAssumption DEF Settings, Unset

(* The width a switch is made for is one the chip and net80211 know.       *)
LEMMA SupportedWidth ==
    ASSUME NEW w \in Widths
    PROVE  /\ Supported(w) \in ChipWidths /\ Supported(w) \in Widths
           /\ w \in ChipWidths => Supported(w) = w
  BY RadioAssumption DEF Supported

(* Power-up: nothing asked, nothing tuned.                                 *)
LEMMA InitSwitchInv == RadioInit => SwitchInv
  <1> SUFFICES ASSUME RadioInit PROVE SwitchInv
    OBVIOUS
  <1>1. failed \in BOOLEAN
    BY Zenon DEF RadioInit
  <1>2. SwitchTypes
    BY <1>1, RadioAssumption DEF RadioInit, SwitchTypes
  <1>3. WidthIsChips /\ SwitchIsAsked /\ SettingIsAsked /\ TunedAsAsked
    BY RadioAssumption DEF RadioInit, WidthIsChips, SwitchIsAsked, SettingIsAsked,
       TunedAsAsked, Switching, Unset
  <1> QED BY <1>2, <1>3 DEF SwitchInv

(* No request, no sentinel.                                                *)
LEMMA InitCalInv == RadioInit => CalInv
  <1> SUFFICES ASSUME RadioInit PROVE CalInv
    OBVIOUS
  <1>1. FALSE \in BOOLEAN /\ 0 \in 0 .. MaxIqkPolls - 1
    BY RadioAssumption
  <1>2. CalTypes
    BY <1>1 DEF RadioInit, CalTypes
  <1>3. OneSentinel /\ NotYetSeen
    BY DEF RadioInit, OneSentinel, NotYetSeen
  <1> QED BY <1>2, <1>3 DEF CalInv

(* rtw88_set_channel: the early return is taken only where the setting     *)
(* asked for is the current one.                                           *)
LEMMA SetChannelKeeps ==
    ASSUME SwitchInv, NEW c \in Channels, NEW w \in Widths, set_channel(c, w)
    PROVE  SwitchInv'
  <1> DEFINE s == <<c, Supported(w)>>
  <1>t. SwitchTypes /\ WidthIsChips /\ SettingIsAsked /\ TunedAsAsked
    BY DEF SwitchInv
  <1>1. ~Switching /\ UNCHANGED <<sc_cur_channel, sc_cur_bw, tuned>>
    BY DEF set_channel
  <1>2. s \in Settings /\ s[2] \in ChipWidths
    BY SupportedWidth DEF Settings
  <1>3. CASE c \notin ChipChannels
    <2>1. UNCHANGED <<asked, switch, failed>>
      BY <1>3 DEF set_channel
    <2> QED BY <1>1, <2>1 DEF SwitchInv, SwitchTypes, WidthIsChips, SwitchIsAsked,
            SettingIsAsked, TunedAsAsked, Switching
  <1>4. CASE c \in ChipChannels /\ SameSetting(c, w)
    <2>1. UNCHANGED <<switch, failed>> /\ asked' = s
      BY <1>4 DEF set_channel
    <2>2. s = <<sc_cur_channel, sc_cur_bw>>
      BY <1>4, <1>t, SupportedWidth DEF SameSetting, WidthIsChips
    <2>3. ~failed => asked' = asked
      BY <2>1, <2>2, <1>1, <1>t DEF SettingIsAsked
    <2>4. SwitchTypes'
      BY <1>1, <1>2, <1>t, <2>1 DEF SwitchTypes
    <2>5. (WidthIsChips /\ SwitchIsAsked)' /\ ~Switching'
      BY <1>1, <1>t, <2>1 DEF WidthIsChips, SwitchIsAsked, Switching, SwitchTypes
    <2>6. (SettingIsAsked /\ TunedAsAsked)'
      BY <1>1, <1>t, <2>1, <2>3 DEF SettingIsAsked, TunedAsAsked, Switching
    <2> QED BY <2>4, <2>5, <2>6 DEF SwitchInv
  <1>5. CASE c \in ChipChannels /\ ~SameSetting(c, w)
    <2>1. switch' = [at |-> 1, to |-> s] /\ failed' = FALSE /\ asked' = s
      BY <1>5 DEF set_channel
    <2>2. failed' \in BOOLEAN
      BY <2>1, Zenon
    <2>3. SwitchTypes'
      BY <1>1, <1>2, <1>t, <2>1, <2>2 DEF SwitchTypes
    <2>4. Switching' /\ switch'.at = 1 /\ switch'.to = asked'
          /\ asked'[2] \in ChipWidths
      BY <2>1, <1>2 DEF Switching
    <2>5. (WidthIsChips /\ SwitchIsAsked /\ SettingIsAsked /\ TunedAsAsked)'
      BY <1>1, <1>t, <2>4
      DEF WidthIsChips, SwitchIsAsked, SettingIsAsked, TunedAsAsked
    <2> QED BY <2>3, <2>5 DEF SwitchInv
  <1> QED BY <1>3, <1>4, <1>5

(* The registers are written for what was asked.                           *)
LEMMA RegistersKeep == ASSUME SwitchInv, SwitchRegisters PROVE SwitchInv'
  <1>t. SwitchTypes /\ SwitchIsAsked
    BY DEF SwitchInv
  <1>1. /\ switch.at = 1 /\ tuned' = [g \in DOMAIN tuned |-> switch.to]
        /\ sc_cur_bw' = switch.to[2] /\ switch' = [switch EXCEPT !.at = 2]
        /\ UNCHANGED <<sc_cur_channel, asked, failed>>
    BY DEF SwitchRegisters
  <1>2. /\ switch.to = asked /\ asked[2] \in ChipWidths
        /\ switch.to \in Settings \cup {Unset}
    BY <1>1, <1>t DEF SwitchTypes, SwitchIsAsked, Switching
  <1>3. switch' = [at |-> 2, to |-> switch.to]
    BY <1>1, <1>t DEF SwitchTypes
  <1>4. sc_cur_bw' \in Widths
    BY <1>1, <1>2, SettingParts
  <1>5. tuned' \in [{"bb", "mac", "rf", "rxdfir"} -> Settings \cup {Unset, Torn}]
        /\ \A g \in DOMAIN tuned' : tuned'[g] = asked
    BY <1>1, <1>2, <1>t DEF SwitchTypes
  <1>6. SwitchTypes'
    BY <1>1, <1>2, <1>3, <1>4, <1>5, <1>t DEF SwitchTypes
  <1>7. (WidthIsChips /\ SwitchIsAsked)' /\ Switching'
    BY <1>1, <1>2, <1>3, <1>5 DEF WidthIsChips, SwitchIsAsked, Switching
  <1> QED BY <1>6, <1>7 DEF SwitchInv, SettingIsAsked, TunedAsAsked

(* A switch that fails says so.                                            *)
LEMMA FailsKeep ==
    ASSUME SwitchInv, NEW n \in DOMAIN Groups, SwitchFails(n)
    PROVE  SwitchInv'
  <1>t. SwitchTypes /\ WidthIsChips
    BY DEF SwitchInv
  <1>1. /\ switch' = [at |-> 0, to |-> Unset] /\ failed' = TRUE
        /\ UNCHANGED <<sc_cur_channel, sc_cur_bw, asked>>
    BY DEF SwitchFails
  <1>2. tuned' \in [{"bb", "mac", "rf", "rxdfir"} -> Settings \cup {Unset, Torn}]
    <2>1. switch.to \in Settings \cup {Unset, Torn}
      BY <1>t DEF SwitchTypes
    <2>2. /\ tuned' = [g \in DOMAIN tuned |-> tuned'[g]]
          /\ \A g \in DOMAIN tuned : tuned'[g] \in {switch.to, Torn, tuned[g]}
      BY DEF SwitchFails
    <2> QED BY <2>1, <2>2, <1>t DEF SwitchTypes
  <1>3. failed' \in BOOLEAN
    BY <1>1, Zenon
  <1>4. SwitchTypes'
    BY <1>1, <1>2, <1>3, <1>t DEF SwitchTypes
  <1>5. ~Switching' /\ switch'.at = 0
    BY <1>1 DEF Switching
  <1>6. (WidthIsChips /\ SwitchIsAsked)'
    BY <1>1, <1>5, <1>t DEF WidthIsChips, SwitchIsAsked
  <1> QED BY <1>1, <1>4, <1>6 DEF SwitchInv, SettingIsAsked, TunedAsAsked

(* The end of a switch: sc_cur_channel follows.                            *)
LEMMA DoneKeeps == ASSUME SwitchInv, SwitchDone PROVE SwitchInv'
  <1>t. SwitchTypes /\ WidthIsChips /\ SwitchIsAsked
    BY DEF SwitchInv
  <1>1. /\ switch.at = 2 /\ sc_cur_channel' = switch.to[1]
        /\ switch' = [at |-> 0, to |-> Unset]
        /\ UNCHANGED <<sc_cur_bw, tuned, asked, failed>>
    BY DEF SwitchDone
  <1>2. /\ switch.to = asked /\ sc_cur_bw = asked[2]
        /\ \A g \in DOMAIN tuned : tuned[g] = asked
        /\ asked \in Settings \cup {Unset}
    BY <1>1, <1>t DEF SwitchTypes, SwitchIsAsked, Switching
  <1>3. sc_cur_channel' \in Channels \cup {0}
        /\ <<sc_cur_channel', sc_cur_bw'>> = asked
    BY <1>1, <1>2, SettingParts
  <1>4. SwitchTypes'
    BY <1>1, <1>3, <1>t DEF SwitchTypes
  <1>5. ~Switching' /\ switch'.at = 0
    BY <1>1 DEF Switching
  <1>6. (WidthIsChips /\ SwitchIsAsked)'
    BY <1>1, <1>5, <1>t DEF WidthIsChips, SwitchIsAsked
  <1>7. (SettingIsAsked /\ TunedAsAsked)'
    BY <1>1, <1>2, <1>3 DEF SettingIsAsked, TunedAsAsked
  <1> QED BY <1>4, <1>6, <1>7 DEF SwitchInv

(* The softc is new, or the chip forgets what it was tuned to.             *)
LEMMA AnewKeepsSwitch ==
    ASSUME SwitchInv, NewSoftcRadio \/ RadioOff
    PROVE  SwitchInv'
  <1>t. SwitchTypes /\ WidthIsChips /\ SettingIsAsked
    BY DEF SwitchInv
  <1>1. CASE NewSoftcRadio
    <2>1. /\ ~Switching /\ sc_cur_channel' = 0 /\ sc_cur_bw' = "20"
          /\ asked' = Unset /\ failed' = FALSE /\ UNCHANGED <<tuned, switch>>
      BY <1>1 DEF NewSoftcRadio
    <2>2. failed' \in BOOLEAN
      BY <2>1, Zenon
    <2>3. SwitchTypes'
      BY <2>1, <2>2, <1>t, RadioAssumption DEF SwitchTypes
    <2>4. ~Switching' /\ switch'.at = 0
      BY <2>1, <1>t DEF Switching, SwitchTypes
    <2> QED BY <2>1, <2>3, <2>4, RadioAssumption
            DEF SwitchInv, WidthIsChips, SwitchIsAsked, SettingIsAsked, TunedAsAsked,
            Unset
  <1>2. CASE RadioOff
    <2>1. /\ ~Switching /\ asked = Unset
          /\ tuned' = [g \in DOMAIN tuned |-> Unset]
          /\ UNCHANGED <<sc_cur_channel, sc_cur_bw, switch, asked, failed>>
      BY <1>2 DEF RadioOff
    <2>2. SwitchTypes'
      BY <2>1, <1>t DEF SwitchTypes
    <2>3. ~Switching' /\ switch'.at = 0
      BY <2>1, <1>t DEF Switching, SwitchTypes
    <2> QED BY <2>1, <2>2, <2>3, <1>t
            DEF SwitchInv, WidthIsChips, SwitchIsAsked, SettingIsAsked, TunedAsAsked
  <1> QED BY <1>1, <1>2

(* A request where none is open.                                           *)
LEMMA RequestKeeps ==
    ASSUME CalInv, NEW out \in Outcomes, calibration(out)
    PROVE  CalInv'
  <1>t. CalTypes /\ OneSentinel
    BY DEF CalInv
  <1>1. /\ cal.pc = "no" /\ dtxlok' = dtxlok
        /\ unclean' = (unclean \/ out = "late")
    BY DEF calibration, Calibrating
  <1>2. \/ out = "ok" /\ iqk' = iqk + 1
           /\ cal' = [pc |-> "poll", try |-> 0, ok |-> FALSE]
        \/ out # "ok" /\ iqk' \in {iqk, iqk + 1}
           /\ cal' = [pc |-> "no", try |-> 0, ok |-> FALSE]
           /\ (out # "late" => iqk' = iqk)
    BY DEF calibration, Landed, Outcomes
  <1>3. unclean' \in BOOLEAN /\ dtxlok' \in BOOLEAN
    BY <1>1, <1>t, Zenon DEF CalTypes
  <1>4. ~unclean' => ~unclean /\ out # "late"
    BY <1>1
  <1>5. FALSE \in BOOLEAN /\ 0 \in 0 .. MaxIqkPolls - 1
    BY RadioAssumption
  <1>6. CalTypes'
    <2>1. iqk' \in Nat
      BY <1>2, <1>t DEF CalTypes
    <2>2. PICK p \in {"poll", "no"} : cal' = [pc |-> p, try |-> 0, ok |-> FALSE]
      BY <1>2
    <2>3. cal' \in [pc : {"no", "poll", "reset", "done", "timeout"},
                   try : 0 .. MaxIqkPolls - 1, ok : BOOLEAN]
      BY <2>2, <1>5
    <2> QED BY <1>3, <2>1, <2>3 DEF CalTypes
  <1>7. ~unclean => iqk = 0 /\ ~dtxlok
    BY <1>1, <1>t DEF OneSentinel
  <1>8. OneSentinel' /\ NotYetSeen'
    BY <1>1, <1>2, <1>4, <1>7 DEF OneSentinel, NotYetSeen
  <1> QED BY <1>6, <1>8 DEF CalInv

(* A poll that finds the sentinel has used up the request.                 *)
LEMMA PollKeeps ==
    ASSUME CalInv, NEW out \in Outcomes, CalPoll(out)
    PROVE  CalInv'
  <1>t. CalTypes /\ OneSentinel /\ NotYetSeen
    BY DEF CalInv
  <1>1. cal.pc = "poll" /\ ~cal.ok /\ UNCHANGED <<iqk, dtxlok, unclean>>
    BY <1>t DEF CalPoll, NotYetSeen
  <1>2. \/ dtxlok /\ cal' = [pc |-> "reset", try |-> cal.try, ok |-> TRUE]
        \/ cal.try + 1 < MaxIqkPolls
           /\ cal' = [pc |-> "poll", try |-> cal.try + 1, ok |-> cal.ok]
        \/ cal' = [pc |-> "reset", try |-> cal.try, ok |-> cal.ok]
    BY <1>1, <1>t DEF CalPoll, CalTypes
  <1>3. CalTypes'
    <2>1. cal.try \in 0 .. MaxIqkPolls - 1 /\ cal.ok \in BOOLEAN
      BY <1>t DEF CalTypes
    <2>2. cal.try + 1 < MaxIqkPolls => cal.try + 1 \in 0 .. MaxIqkPolls - 1
      BY <2>1, RadioAssumption
    <2>3. cal' \in [pc : {"no", "poll", "reset", "done", "timeout"},
                   try : 0 .. MaxIqkPolls - 1, ok : BOOLEAN]
      <3>1. TRUE \in BOOLEAN
        OBVIOUS
      <3>2. PICK p \in {"poll", "reset"}, t \in 0 .. MaxIqkPolls - 1, b \in BOOLEAN :
              cal' = [pc |-> p, try |-> t, ok |-> b]
        BY <1>2, <2>1, <2>2, <3>1
      <3> QED BY <3>2
    <2> QED BY <1>1, <1>t, <2>3 DEF CalTypes
  <1>4. ~unclean => (iqk = 1 /\ ~dtxlok) \/ (iqk = 0 /\ dtxlok)
    BY <1>1, <1>t DEF OneSentinel
  <1>5. OneSentinel'
    BY <1>1, <1>2, <1>4 DEF OneSentinel
  <1>6. NotYetSeen'
    BY <1>1, <1>2 DEF NotYetSeen
  <1> QED BY <1>3, <1>5, <1>6 DEF CalInv

(* The sentinel is cleared, or the calibration counts as unclean.          *)
LEMMA ResetKeeps ==
    ASSUME CalInv, NEW out \in Outcomes, CalReset(out)
    PROVE  CalInv'
  <1>t. CalTypes /\ OneSentinel
    BY DEF CalInv
  <1>1. /\ cal.pc = "reset" /\ iqk' = iqk
        /\ dtxlok' = (dtxlok /\ ~Landed(out))
        /\ unclean' = (unclean \/ ~cal.ok \/ out # "ok")
    BY DEF CalReset
  <1>2. \/ cal.ok /\ cal' = [pc |-> "done", try |-> 0, ok |-> cal.ok]
        \/ ~cal.ok /\ cal' = [pc |-> "timeout", try |-> 0, ok |-> cal.ok]
    BY <1>t DEF CalReset, CalTypes
  <1>3. unclean' \in BOOLEAN /\ dtxlok' \in BOOLEAN
    BY <1>1, Zenon
  <1>4. ~unclean' => ~unclean /\ cal.ok /\ ~dtxlok'
    BY <1>1 DEF Landed
  <1>5. CalTypes'
    <2>1. cal.ok \in BOOLEAN /\ 0 \in 0 .. MaxIqkPolls - 1
      BY <1>t, RadioAssumption DEF CalTypes
    <2>2. cal' \in [pc : {"no", "poll", "reset", "done", "timeout"},
                   try : 0 .. MaxIqkPolls - 1, ok : BOOLEAN]
      BY <1>2, <2>1
    <2>3. iqk' \in Nat
      BY <1>1, <1>t DEF CalTypes
    <2> QED BY <1>3, <2>2, <2>3 DEF CalTypes
  <1>6. ~unclean /\ cal.ok => iqk' = 0
    BY <1>1, <1>t DEF OneSentinel
  <1>7. OneSentinel' /\ NotYetSeen'
    BY <1>2, <1>4, <1>6 DEF OneSentinel, NotYetSeen
  <1> QED BY <1>5, <1>7 DEF CalInv

(* The result is dropped.                                                  *)
LEMMA CalReturnKeeps == ASSUME CalInv, CalReturn PROVE CalInv'
  <1>t. CalTypes /\ OneSentinel
    BY DEF CalInv
  <1>1. /\ cal.pc \in {"done", "timeout"} /\ UNCHANGED <<iqk, dtxlok, unclean>>
        /\ cal' = [pc |-> "no", try |-> 0, ok |-> FALSE]
    BY DEF CalReturn
  <1>2. FALSE \in BOOLEAN /\ 0 \in 0 .. MaxIqkPolls - 1
    BY RadioAssumption
  <1>3. CalTypes'
    BY <1>1, <1>2, <1>t DEF CalTypes
  <1>4. OneSentinel' /\ NotYetSeen'
    BY <1>1, <1>t DEF OneSentinel, NotYetSeen
  <1> QED BY <1>3, <1>4 DEF CalInv

(* The firmware answers a request.                                         *)
LEMMA AnswerKeeps == ASSUME CalInv, FwCalibrate PROVE CalInv'
  <1>t. CalTypes /\ OneSentinel /\ NotYetSeen
    BY DEF CalInv
  <1>1. /\ iqk > 0 /\ iqk' = iqk - 1 /\ UNCHANGED <<cal, unclean>>
        /\ dtxlok' = TRUE
    BY DEF FwCalibrate
  <1>2. dtxlok' \in BOOLEAN /\ dtxlok'
    BY <1>1, Zenon
  <1>3. CalTypes'
    BY <1>1, <1>2, <1>t DEF CalTypes
  <1>4. OneSentinel' /\ NotYetSeen'
    BY <1>1, <1>2, <1>t DEF OneSentinel, NotYetSeen, CalTypes
  <1> QED BY <1>3, <1>4 DEF CalInv

(* A new softc calibrates nothing; an earlier one's answer is unclean.     *)
LEMMA AnewKeepsCal ==
    ASSUME CalInv, NewSoftcRadio \/ RadioOff
    PROVE  CalInv'
  <1>t. CalTypes /\ OneSentinel
    BY DEF CalInv
  <1>0. FALSE \in BOOLEAN /\ 0 \in 0 .. MaxIqkPolls - 1
    BY RadioAssumption
  <1>1. CASE NewSoftcRadio
    <2>1. /\ cal.pc = "no" /\ cal' = [pc |-> "no", try |-> 0, ok |-> FALSE]
          /\ UNCHANGED <<iqk, dtxlok, unclean>>
      BY <1>1 DEF NewSoftcRadio, Calibrating
    <2> QED BY <2>1, <1>0, <1>t DEF CalInv, CalTypes, OneSentinel, NotYetSeen
  <1>2. CASE RadioOff
    <2>1. /\ cal.pc = "no" /\ cal' = cal /\ iqk' = 0
          /\ dtxlok' = FALSE /\ unclean' = FALSE
      BY <1>2 DEF RadioOff, Calibrating
    <2>2. dtxlok' \in BOOLEAN /\ unclean' \in BOOLEAN
      BY <2>1, Zenon
    <2>3. CalTypes'
      BY <2>1, <2>2, <1>t DEF CalTypes
    <2> QED BY <2>1, <2>3 DEF CalInv, OneSentinel, NotYetSeen
  <1> QED BY <1>1, <1>2

(* Every step of the radio keeps both.                                     *)
LEMMA NextKeepsRadio == ASSUME RadioInv, [RadioNext]_radioVars PROVE RadioInv'
  <1>0. SwitchInv /\ CalInv
    BY RadioInvParts
  <1>p. SwitchInv' /\ CalInv' => RadioInv'
    BY DEF RadioInv, SwitchInv, CalInv, RadioTypeOK, SwitchTypes, CalTypes
  <1>1. SwitchInv /\ UNCHANGED switchVars => SwitchInv'
    BY DEF SwitchInv, switchVars, SwitchTypes, WidthIsChips, SwitchIsAsked,
       SettingIsAsked, TunedAsAsked, Switching
  <1>2. CalInv /\ UNCHANGED calVars => CalInv'
    BY DEF CalInv, calVars, CalTypes, OneSentinel, NotYetSeen
  <1>3. CASE NewSoftcRadio \/ RadioOff
    BY <1>0, <1>3, AnewKeepsSwitch, AnewKeepsCal, <1>p
  <1>4. CASE RadioSwitch
    <2>1. SwitchInv'
      BY <1>0, <1>4, SetChannelKeeps, RegistersKeep, FailsKeep, DoneKeeps
      DEF RadioSwitch
    <2>2. CalInv'
      BY <1>0, <1>2, <1>4 DEF RadioSwitch
    <2> QED BY <2>1, <2>2, <1>p
  <1>5. CASE RadioCalibrate
    <2>1. CalInv'
      BY <1>0, <1>5, RequestKeeps, PollKeeps, ResetKeeps, CalReturnKeeps, AnswerKeeps
      DEF RadioCalibrate
    <2>2. SwitchInv'
      BY <1>0, <1>1, <1>5 DEF RadioCalibrate
    <2> QED BY <2>1, <2>2, <1>p
  <1>6. CASE UNCHANGED radioVars
    BY <1>0, <1>1, <1>2, <1>6, <1>p DEF radioVars, switchVars, calVars
  <1> QED BY <1>3, <1>4, <1>5, <1>6 DEF RadioNext

(* The invariant of the radio.                                             *)
THEOREM RadioInvariance == RadioSpec => []RadioInv
  <1>1. RadioInit => RadioInv
    BY InitSwitchInv, InitCalInv, RadioInvParts
  <1>2. RadioInv /\ [RadioNext]_radioVars => RadioInv'
    BY NextKeepsRadio
  <1> QED BY <1>1, <1>2, PTL DEF RadioSpec

(* A switch that did not fail leaves the registers and the cached setting  *)
(* as net80211 asked last, whatever channels and widths there are.         *)
THEOREM SwitchesAreNotSkipped == RadioSpec => []TunedAsAsked
  <1>1. RadioInv => TunedAsAsked
    BY DEF RadioInv
  <1> QED BY RadioInvariance, <1>1, PTL

(* A calibration reported done has no request open.                        *)
THEOREM SentinelIsOwn == RadioSpec => []CalibrationIsFresh
  <1>1. RadioInv => CalibrationIsFresh
    BY DEF RadioInv, OneSentinel, CalibrationIsFresh
  <1> QED BY RadioInvariance, <1>1, PTL
=============================================================================
