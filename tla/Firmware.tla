------------------------------ MODULE Firmware ------------------------------
(***************************************************************************)
(* rtw88_download_firmware: power cycle, reset of the CPU, the segments    *)
(* chunk by chunk through the FIFO page and the chip's DDMA, checksum,     *)
(* release of the CPU and the wait for it to report.                       *)
(*                                                                         *)
(* One thread runs it, against a chip that works on its own: it announces  *)
(* a received page, ends a DDMA copy and boots whenever it likes, while    *)
(* the driver polls with sleeps and a limit.  What the chip holds outlives *)
(* the driver: the next attach meets the state the last one left.          *)
(***************************************************************************)
EXTENDS Naturals, Sequences, Access

CONSTANTS
    Layout,     \* the segment each chunk of the image belongs to
    MaxLives    \* bound: attaches of the driver

ASSUME FirmwareAssumption ==
    /\ Layout \in Seq({"DMEM", "IMEM", "EMEM"}) /\ Len(Layout) > 0
    /\ MaxLives \in Nat

Chunks == 1 .. Len(Layout)

(* Chunk c of the image that attach number l downloads; 0 of 0 is junk.    *)
Content == (0 .. MaxLives) \X (0 .. Len(Layout))
Junk == <<0, 0>>

VARIABLES
    life,       \* number of this attach
    dl,         \* where rtw88_download_firmware is
    chunk,      \* the chunk it is at
    error,      \* its result
    depth,      \* how often the thread owns sc_mtx
    power,      \* MAC power: "off", "act", "stuck" (PFM flag set), or part way
    cpu,        \* BIT_FEN_CPUEN
    mcufw,      \* bits of REG_MCUFW_CTRL
    page,       \* FIFO page 0: what it holds, and BIT_BCN_VALID_V1
    wire,       \* a packet the chip has been sent and not yet stored
    ddma,       \* BIT_DDMACH0_OWN, CH0DA as a chunk number, CHKSUM_STS
    mem,        \* IMEM, DMEM and EMEM, per chunk
    booted      \* the attach whose complete image the CPU has started

dlVars == <<dl, chunk, error, depth>>
chipVars == <<power, cpu, mcufw, page, wire, ddma, mem, booted>>
fwVars == <<life, dl, chunk, error, depth, power, cpu, mcufw, page, wire,
            ddma, mem, booted>>

Bits == {"MCUFWDL_EN", "IMEM_DW_OK", "IMEM_CHKSUM_OK", "DMEM_DW_OK",
         "DMEM_CHKSUM_OK", "FW_DW_RDY", "FW_INIT_RDY"}
Ready == Bits \ {"MCUFWDL_EN"}

FwSteps ==
    {"no", "power?", "off", "up", "coex", "coex regs", "coex bt",
     "coex tdma", "coex end", "cpu off", "prep", "reset", "arm",
     "segment", "stage", "packet", "staged?", "idle?", "ddma", "copied?",
     "ack", "sums", "close", "cpu on", "ready?", "out"}

FwTypeOK ==
    /\ life \in 0 .. MaxLives
    /\ dl \in FwSteps /\ chunk \in Chunks /\ error \in BOOLEAN
    /\ depth \in 0 .. 2
    /\ power \in {"off", "act", "stuck", "part"} /\ cpu \in BOOLEAN
    /\ mcufw \subseteq Bits
    /\ page \in [holds : Content, valid : BOOLEAN]
    /\ wire \in Content
    /\ ddma \in [own : BOOLEAN, dst : Chunks, bad : BOOLEAN]
    /\ mem \in [Chunks -> Content] /\ booted \in 0 .. MaxLives

(* Plugged in: the boot ROM idles, or has left its flag set.               *)
FwInit ==
    /\ life = 0
    /\ dl = "no" /\ chunk = 1 /\ error = FALSE /\ depth = 0
    /\ power \in {"off", "stuck"} /\ cpu = FALSE /\ mcufw = {}
    /\ page = [holds |-> Junk, valid |-> FALSE] /\ wire = Junk
    /\ ddma = [own |-> FALSE, dst |-> 1, bad |-> FALSE]
    /\ mem = [c \in Chunks |-> Junk] /\ booted = 0

-----------------------------------------------------------------------------
(* Ways a step of the driver may end.                                      *)

Goto(s) == dl' = s /\ UNCHANGED <<chunk, error>>

(* goto out, or the error return of a function that leads there.           *)
Fail == dl' = "out" /\ error' = TRUE /\ UNCHANGED chunk

(* Register writes that end in step s: an error leaves the function.       *)
Then(out, s) == IF out = "ok" THEN Goto(s) ELSE Fail

(* rtw88_check_hw_ready, which takes a failed read as "not yet".  What it  *)
(* waits for is there, or its 50 looks have missed it: it comes later, or  *)
(* it is there and the reads failed.                                       *)
Await(there, s) == (there /\ Goto(s)) \/ Fail

SegStart(c) == c > 1 => Layout[c] # Layout[c - 1]
SegEnd(c) == c < Len(Layout) => Layout[c] # Layout[c + 1]

(* IMEM and EMEM share their two bits.                                     *)
OkBits(seg) == IF seg = "DMEM" THEN <<"DMEM_DW_OK", "DMEM_CHKSUM_OK">>
               ELSE <<"IMEM_DW_OK", "IMEM_CHKSUM_OK">>

-----------------------------------------------------------------------------
(* Power.                                                                  *)

(* rtw88_mac_currently_on: a failed read, 0xEA in REG_CR and the PFM flag  *)
(* mean "off"; a chip part way may answer either.                          *)
mac_currently_on(out, on) ==
    /\ dl = "power?"
    /\ out # "ok" \/ power \in {"off", "stuck"} => ~on
    /\ out = "ok" /\ power = "act" => on
    /\ Goto(IF on THEN "off" ELSE "up")
    /\ UNCHANGED <<depth, chipVars>>

(* What the chip forgets without power: everything.                        *)
PowerLost ==
    /\ cpu' = FALSE /\ mcufw' = {} /\ booted' = 0
    /\ mem' = [c \in Chunks |-> Junk]
    /\ page' = [holds |-> Junk, valid |-> FALSE] /\ wire' = Junk
    /\ ddma' = [own |-> FALSE, dst |-> 1, bad |-> FALSE]

(* card_disable_flow_8821c; a failed write or a poll that never ends stops *)
(* it part way.                                                            *)
mac_power_off(out) ==
    /\ dl = "off"
    /\ \/ out # "lost" /\ power' = "off" /\ PowerLost
       \/ /\ out = "lost" /\ power' = "part"
          /\ UNCHANGED <<cpu, mcufw, page, wire, ddma, mem, booted>>
    /\ Then(out, "up")
    /\ UNCHANGED depth

(* rtw88_mac_pre_system_cfg, card_enable_flow_8821c, the PFM flag and      *)
(* rtw88_mac_init_system_cfg.                                              *)
mac_power_up_once(out) ==
    /\ dl = "up"
    /\ power' = CASE out = "ok" -> "act"
                  [] out = "late" -> "part"
                  [] OTHER -> power
    /\ Then(out, "coex")
    /\ UNCHANGED <<depth, cpu, mcufw, page, wire, ddma, mem, booted>>

-----------------------------------------------------------------------------
(* The download.                                                           *)

(* sc_fw is there and its sizes add up, or there is nothing to do.         *)
download_firmware(usable) ==
    /\ dl = "no"
    /\ IF usable
       THEN dl' = "power?" /\ error' = FALSE /\ chunk' = 1 /\ depth' = depth + 1
       ELSE dl' = "no" /\ error' = TRUE /\ UNCHANGED <<chunk, depth>>
    /\ UNCHANGED chipVars

(* rtw88_coex_init takes sc_mtx around its registers, the errors of which  *)
(* it ignores.  Its caller owns the mutex already.  The two H2Cs that      *)
(* follow are sent without a lock of its own (see Bringup).                *)
CoexLock ==
    /\ dl = "coex" /\ Goto("coex regs") /\ depth' = depth + 1
    /\ UNCHANGED chipVars
CoexUnlock ==
    /\ dl = "coex regs" /\ Goto("coex bt") /\ depth' = depth - 1
    /\ UNCHANGED chipVars

(* Mutant: the CPU is left running.                                        *)
wcpu_disable_not(out) ==
    /\ dl = "cpu off" /\ Then(out, "prep") /\ UNCHANGED <<depth, chipVars>>

(* rtw88_wcpu_enable(false): whatever the CPU ran stops.                   *)
wcpu_disable(out) ==
    /\ dl = "cpu off"
    /\ cpu' = (cpu /\ ~Landed(out))
    /\ booted' = IF Landed(out) THEN 0 ELSE booted
    /\ Then(out, "prep")
    /\ UNCHANGED <<depth, power, mcufw, page, wire, ddma, mem>>

(* TX DMA, FIFO and beacon engine; then platform reset.                    *)
dlfw_prep_chip(out) ==
    /\ dl = "prep" /\ Then(out, "reset") /\ UNCHANGED <<depth, chipVars>>
reset_platform(out) ==
    /\ dl = "reset" /\ Then(out, "arm") /\ UNCHANGED <<depth, chipVars>>

(* (val32 & 0x3800) | BIT_MCUFWDL_EN, 16 bits wide: OK and READY bits of   *)
(* an earlier download go.                                                 *)
Arm(out) ==
    /\ dl = "arm"
    /\ mcufw' = IF Landed(out) THEN {"MCUFWDL_EN"} ELSE mcufw
    /\ Then(out, "segment")
    /\ UNCHANGED <<depth, power, cpu, page, wire, ddma, mem, booted>>

(* BIT_DDMACH0_RESET_CHKSUM_STS, once per segment.                         *)
SegmentBegin(out) ==
    /\ dl = "segment"
    /\ ddma' = IF Landed(out) THEN [ddma EXCEPT !.bad = FALSE] ELSE ddma
    /\ Then(out, "stage")
    /\ UNCHANGED <<depth, power, cpu, mcufw, page, wire, mem, booted>>

(* rtw88_send_firmware_pkt: BIT_BCN_VALID_V1 is written to clear it ...    *)
StagePage(out) ==
    /\ dl = "stage"
    /\ page' = IF Landed(out) THEN [page EXCEPT !.valid = FALSE] ELSE page
    /\ Then(out, "packet")
    /\ UNCHANGED <<depth, power, cpu, mcufw, wire, ddma, mem, booted>>

(* ... the packet goes out (rtw88_bulk_tx_sync) ...                        *)
SendPacket(out) ==
    /\ dl = "packet"
    /\ wire' = IF Landed(out) THEN <<life, chunk>> ELSE wire
    /\ Then(out, "staged?")
    /\ UNCHANGED <<depth, power, cpu, mcufw, page, ddma, mem, booted>>

(* ... and the chip must raise the bit again.                              *)
AwaitPage ==
    /\ dl = "staged?" /\ Await(page.valid, "idle?")
    /\ UNCHANGED <<depth, chipVars>>

(* rtw88_iddma_chunk: wait for the channel, start it, wait for its end.    *)
AwaitIdle ==
    /\ dl = "idle?" /\ Await(~ddma.own, "ddma")
    /\ UNCHANGED <<depth, chipVars>>

StartDdma(out) ==
    /\ dl = "ddma"
    /\ ddma' = IF Landed(out)
               THEN [own |-> TRUE, dst |-> chunk,
                     bad |-> ~SegStart(chunk) /\ ddma.bad]
               ELSE ddma
    /\ Then(out, "copied?")
    /\ UNCHANGED <<depth, power, cpu, mcufw, page, wire, mem, booted>>

AwaitCopy ==
    /\ dl = "copied?"
    /\ \/ ~ddma.own /\ SegEnd(chunk) /\ Goto("ack")
       \/ ~ddma.own /\ ~SegEnd(chunk)
          /\ dl' = "stage" /\ chunk' = chunk + 1 /\ UNCHANGED error
       \/ Fail
    /\ UNCHANGED <<depth, chipVars>>

(* Mutant: CHKSUM_STS is not looked at.                                    *)
segment_checksum_ack_blind(out) ==
    /\ dl = "ack"
    /\ mcufw' = IF Landed(out)
                THEN mcufw \cup {OkBits(Layout[chunk])[i] : i \in 1 .. 2}
                ELSE mcufw
    /\ IF chunk < Len(Layout)
       THEN dl' = "segment" /\ chunk' = chunk + 1 /\ UNCHANGED error
       ELSE Goto("sums")
    /\ UNCHANGED <<depth, power, cpu, page, wire, ddma, mem, booted>>

(* rtw88_segment_checksum_ack.  The error of its last write is ignored;    *)
(* one of its reads (`lost') or a bad sum ends the download.               *)
segment_checksum_ack(out) ==
    /\ dl = "ack"
    /\ LET ok == OkBits(Layout[chunk])
       IN  mcufw' = CASE ~Landed(out) -> mcufw
                      [] ddma.bad -> (mcufw \cup {ok[1]}) \ {ok[2]}
                      [] OTHER -> mcufw \cup {ok[1], ok[2]}
    /\ \/ ddma.bad /\ Fail
       \/ out = "lost" /\ Fail
       \/ ~ddma.bad /\ chunk < Len(Layout)
          /\ dl' = "segment" /\ chunk' = chunk + 1 /\ UNCHANGED error
       \/ ~ddma.bad /\ chunk = Len(Layout) /\ Goto("sums")
    /\ UNCHANGED <<depth, power, cpu, page, wire, ddma, mem, booted>>

(* BIT_CHECK_SUM_OK as read back.                                          *)
CheckSums(out) ==
    /\ dl = "sums"
    /\ IF out = "ok" /\ {"IMEM_CHKSUM_OK", "DMEM_CHKSUM_OK"} \subseteq mcufw
       THEN Goto("close") ELSE Fail
    /\ UNCHANGED <<depth, chipVars>>

CloseWindow(out) ==
    /\ dl = "close"
    /\ mcufw' = IF Landed(out)
                THEN (mcufw \cup {"FW_DW_RDY"}) \ {"MCUFWDL_EN"} ELSE mcufw
    /\ Then(out, "cpu on")
    /\ UNCHANGED <<depth, power, cpu, page, wire, ddma, mem, booted>>

(* rtw88_wcpu_enable(true).                                                *)
wcpu_enable(out) ==
    /\ dl = "cpu on"
    /\ cpu' = (cpu \/ Landed(out))
    /\ Then(out, "ready?")
    /\ UNCHANGED <<depth, power, mcufw, page, wire, ddma, mem, booted>>

(* FW_READY under FW_READY_MASK.                                           *)
AwaitReady ==
    /\ dl = "ready?" /\ Await(mcufw = Ready, "out")
    /\ UNCHANGED <<depth, chipVars>>

(* out: the mutex is released, whatever happened.                          *)
DownloadReturns(next) ==
    /\ dl = "out"
    /\ dl' = next /\ depth' = depth - 1
    /\ UNCHANGED <<chunk, error, chipVars>>

-----------------------------------------------------------------------------
(* The chip.                                                               *)

(* It stores the packet, perhaps garbled, and raises BIT_BCN_VALID_V1.     *)
ChipStores(garbled) ==
    /\ wire # Junk
    /\ page' = [holds |-> IF garbled THEN Junk ELSE wire, valid |-> TRUE]
    /\ wire' = Junk
    /\ UNCHANGED <<dlVars, power, cpu, mcufw, ddma, mem, booted>>

(* DDMA ends: the page is copied to its place, and the running checksum    *)
(* covers it.                                                              *)
ChipCopies ==
    /\ ddma.own
    /\ mem' = [mem EXCEPT ![ddma.dst] = page.holds]
    /\ ddma' = [ddma EXCEPT !.own = FALSE,
                            !.bad = @ \/ page.holds # <<life, ddma.dst>>]
    /\ UNCHANGED <<dlVars, power, cpu, mcufw, page, wire, booted>>

(* A running CPU starts what is in memory and reports it.                  *)
ChipBoots ==
    /\ cpu /\ "FW_DW_RDY" \in mcufw /\ "FW_INIT_RDY" \notin mcufw
    /\ mcufw' = mcufw \cup {"FW_INIT_RDY"}
    /\ booted' = IF \A c \in Chunks : mem[c] = <<life, c>> THEN life ELSE 0
    /\ UNCHANGED <<dlVars, power, cpu, page, wire, ddma, mem>>

-----------------------------------------------------------------------------

(* A download that ends without error has booted: the CPU runs, and it     *)
(* started the complete image of this very attach.  Neither a status bit   *)
(* of an earlier life, nor a stale page or a garbled chunk passes for it.  *)
ReadyMeansImage == dl = "out" /\ ~error => cpu /\ booted = life

(* Chip memory is written only while the CPU is held in reset, also when   *)
(* the chip still ran the firmware of an earlier life and its power state  *)
(* was misread.                                                            *)
WrittenInReset == [][mem' # mem => ~cpu \/ power' = "off"]_fwVars
=============================================================================
