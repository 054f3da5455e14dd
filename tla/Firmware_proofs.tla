-------------------------- MODULE Firmware_proofs --------------------------
(***************************************************************************)
(* The download for any image layout and any number of attaches.           *)
(*                                                                         *)
(* That a chip which reports ready runs the image of this attach rests on  *)
(* a chain: memory is complete because every segment's sum was good and    *)
(* nothing was copied behind the driver's back; nothing was, because the   *)
(* DMA channel was idle between chunks; and READY is news because the CPU  *)
(* was in reset when the bits of an earlier life were cleared.             *)
(***************************************************************************)
EXTENDS Firmware, TLAPS

(* What the rest of the driver does to this part: attach starts a new      *)
(* life, rtw88_coex_init's two commands come and go (see Bringup).         *)
NewLife ==
    /\ dl = "no" /\ life < MaxLives /\ life' = life + 1
    /\ dl' = "no" /\ error' = FALSE /\ UNCHANGED <<chunk, chipVars>>
CoexSends ==
    /\ \/ dl = "coex bt" /\ Goto("coex tdma")
       \/ dl = "coex tdma" /\ Goto("coex end")
       \/ dl = "coex end" /\ Goto("cpu off")
    /\ UNCHANGED <<depth, chipVars>>

Prepare(out) ==
    \/ \E on \in BOOLEAN : mac_currently_on(out, on)
    \/ mac_power_off(out) \/ mac_power_up_once(out) \/ wcpu_disable(out)
    \/ dlfw_prep_chip(out) \/ reset_platform(out) \/ Arm(out)
Load(out) ==
    \/ SegmentBegin(out) \/ StagePage(out) \/ SendPacket(out) \/ StartDdma(out)
    \/ segment_checksum_ack(out)
Release(out) == CheckSums(out) \/ CloseWindow(out) \/ wcpu_enable(out)
Wait ==
    \/ CoexLock \/ CoexUnlock \/ CoexSends
    \/ AwaitPage \/ AwaitIdle \/ AwaitCopy \/ AwaitReady
ChipActs == (\E garbled \in BOOLEAN : ChipStores(garbled)) \/ ChipCopies \/ ChipBoots

FwNext ==
    \/ NewLife
    \/ /\ UNCHANGED life
       /\ \/ \E usable \in BOOLEAN : download_firmware(usable)
          \/ \E out \in Outcomes : Prepare(out) \/ Load(out) \/ Release(out)
          \/ Wait \/ DownloadReturns("no")
          \/ ChipActs

(* All but the mutex, which others take too.                               *)
fwState == <<life, dl, chunk, error, power, cpu, mcufw, page, wire, ddma, mem,
             booted>>
FwSpec == FwInit /\ [][FwNext]_fwState

-----------------------------------------------------------------------------

Preparing == {"power?", "off", "up", "coex", "coex regs", "coex bt",
              "coex tdma", "coex end", "cpu off", "prep", "reset", "arm"}
Staging == {"stage", "packet", "staged?", "idle?", "ddma"}
Loading == Staging \cup {"segment", "copied?", "ack"}
Loaded == {"sums", "close", "cpu on"}

DlTypes == life \in 0 .. MaxLives /\ dl \in FwSteps /\ chunk \in Chunks
FlagTypes == error \in BOOLEAN /\ cpu \in BOOLEAN
RegTypes ==
    /\ power \in {"off", "act", "stuck", "part"} /\ mcufw \subseteq Bits
    /\ booted \in 0 .. MaxLives
MemTypes ==
    /\ page \in [holds : Content, valid : BOOLEAN]
    /\ wire \in Content
    /\ ddma \in [own : BOOLEAN, dst : Chunks, bad : BOOLEAN]
    /\ mem \in [Chunks -> Content]
FwTypes == DlTypes /\ FlagTypes /\ RegTypes /\ MemTypes

(* From wcpu_disable to wcpu_enable the CPU is in reset, and it is         *)
(* whenever a copy is under way.                                           *)
HeldInReset == dl \in {"prep", "reset", "arm"} \cup Loading \cup Loaded => ~cpu
CopyNeedsReset == ddma.own => ~cpu

(* A copy left by an earlier life is over when the first chunk starts its  *)
(* own; from then on the channel is busy only while the driver waits.      *)
ChannelIdle ==
    \/ dl \in {"ddma", "ack", "ready?"} \cup Loaded
    \/ dl \in Staging \cup {"segment"} /\ chunk > 1
    => ~ddma.own
CopyIsChunk == dl = "copied?" /\ ddma.own => ddma.dst = chunk

(* Chunks up to n are in memory, those of this life.                       *)
Right(n) == \A c \in Chunks : c <= n => mem[c] = <<life, c>>

(* What was copied is right, or the running checksum of the segment says   *)
(* it is not.                                                              *)
FromTheStart == dl \in Preparing => chunk = 1
RightSoFar ==
    /\ dl = "segment" => Right(chunk - 1)
    /\ dl \in Staging => Right(chunk - 1) \/ (ddma.bad /\ ~SegStart(chunk))
    /\ dl = "copied?" /\ ddma.own => Right(chunk - 1) \/ ddma.bad
    /\ dl = "copied?" /\ ~ddma.own => Right(chunk) \/ ddma.bad
    /\ dl = "ack" => Right(chunk) \/ ddma.bad
    /\ dl \in Loaded \cup {"ready?"} => Right(Len(Layout))

(* READY is not there before the CPU runs, and then it means this life.    *)
NotBootedYet == dl \in Loading \cup Loaded => "FW_INIT_RDY" \notin mcufw
BootIsNew ==
    /\ dl = "ready?" => cpu /\ ("FW_INIT_RDY" \in mcufw => booted = life)
    /\ dl = "out" /\ ~error => cpu /\ "FW_INIT_RDY" \in mcufw /\ booted = life

FwInv ==
    /\ FwTypes /\ HeldInReset /\ CopyNeedsReset /\ ChannelIdle /\ CopyIsChunk
    /\ FromTheStart /\ RightSoFar /\ NotBootedYet /\ BootIsNew

-----------------------------------------------------------------------------
(* The layout has a first chunk; chunks are numbers.                       *)
LEMMA LayoutFacts ==
    /\ Len(Layout) \in Nat \ {0} /\ MaxLives \in Nat /\ 1 \in Chunks
    /\ Chunks \subseteq Nat /\ \A c \in Chunks : c - 1 \in Nat /\ c <= Len(Layout)
    /\ Junk \in Content
  BY FirmwareAssumption DEF Chunks, Content, Junk

(* The steps named below are steps.                                        *)
LEMMA StepNames ==
    /\ Preparing \subseteq FwSteps /\ Loading \subseteq FwSteps
    /\ Loaded \subseteq FwSteps /\ {"no", "ready?", "out"} \subseteq FwSteps
  BY DEF Preparing, Loading, Staging, Loaded, FwSteps

(* Before the download, after it and where it failed there is no promise   *)
(* about memory.                                                           *)
LEMMA NoPromise ==
    ASSUME FwTypes', CopyNeedsReset',
           dl' = "no" \/ (dl' = "out" /\ error')
    PROVE  FwInv'
  <1> USE DEF Preparing, Loading, Staging, Loaded
  <1>1. (HeldInReset /\ ChannelIdle /\ CopyIsChunk)'
    BY DEF HeldInReset, ChannelIdle, CopyIsChunk
  <1>2. (FromTheStart /\ RightSoFar /\ NotBootedYet /\ BootIsNew)'
    BY DEF FromTheStart, RightSoFar, NotBootedYet, BootIsNew
  <1> QED BY <1>1, <1>2 DEF FwInv

(* While the chip is prepared there is little: the first chunk is next,    *)
(* the CPU comes to reset.                                                 *)
LEMMA PreparingPromise ==
    ASSUME FwTypes', CopyNeedsReset', dl' \in Preparing, chunk' = 1,
           dl' \in {"prep", "reset", "arm"} => ~cpu'
    PROVE  FwInv'
  <1> USE DEF Preparing, Loading, Staging, Loaded
  <1>1. (HeldInReset /\ CopyIsChunk)'
    BY DEF HeldInReset, CopyIsChunk
  <1>2. ChannelIdle'
    BY DEF ChannelIdle
  <1>3. (FromTheStart /\ RightSoFar)'
    BY DEF FromTheStart, RightSoFar
  <1>4. (NotBootedYet /\ BootIsNew)'
    BY DEF NotBootedYet, BootIsNew
  <1> QED BY <1>1, <1>2, <1>3, <1>4 DEF FwInv

(* Power off, up to now, and a chip that forgets.                          *)
LEMMA InitFwInv == FwInit => FwInv
  <1> SUFFICES ASSUME FwInit PROVE FwInv
    OBVIOUS
  <1>1. FwTypes
    <2>1. FlagTypes
      BY Zenon DEF FwInit, FlagTypes
    <2>2. DlTypes /\ RegTypes
      BY LayoutFacts, StepNames DEF FwInit, DlTypes, RegTypes, Bits
    <2>3. MemTypes
      BY LayoutFacts DEF FwInit, MemTypes
    <2> QED BY <2>1, <2>2, <2>3 DEF FwTypes
  <1> USE DEF Preparing, Loading, Staging, Loaded
  <1>2. HeldInReset /\ CopyNeedsReset /\ ChannelIdle /\ CopyIsChunk
    BY DEF FwInit, HeldInReset, CopyNeedsReset, ChannelIdle, CopyIsChunk
  <1>3. FromTheStart /\ RightSoFar /\ NotBootedYet /\ BootIsNew
    BY DEF FwInit, FromTheStart, RightSoFar, NotBootedYet, BootIsNew
  <1> QED BY <1>1, <1>2, <1>3 DEF FwInv

(* A step that leaves the chip alone and keeps the types.                  *)
LEMMA DriverTypes ==
    ASSUME FwInv, UNCHANGED chipVars, life' \in 0 .. MaxLives, dl' \in FwSteps,
           chunk' \in Chunks, error' \in BOOLEAN
    PROVE  FwTypes' /\ CopyNeedsReset'
  <1>1. UNCHANGED <<power, cpu, mcufw, page, wire, ddma, mem, booted>>
    BY DEF chipVars
  <1>2. FlagTypes'
    BY <1>1 DEF FwInv, FwTypes, FlagTypes
  <1>3. DlTypes' /\ RegTypes'
    BY <1>1 DEF FwInv, FwTypes, DlTypes, RegTypes
  <1>4. MemTypes'
    BY <1>1 DEF FwInv, FwTypes, MemTypes
  <1>5. CopyNeedsReset'
    BY <1>1 DEF FwInv, CopyNeedsReset
  <1> QED BY <1>2, <1>3, <1>4, <1>5 DEF FwTypes

(* Attach starts a new life where nothing has been said about memory yet.  *)
LEMMA NewLifeKeeps == ASSUME FwInv, NewLife PROVE FwInv'
  <1>1. life' \in 0 .. MaxLives
    BY LayoutFacts DEF NewLife, FwInv, FwTypes, DlTypes
  <1>2. error' \in BOOLEAN
    BY Zenon DEF NewLife
  <1>3. dl' = "no" /\ dl' \in FwSteps /\ chunk' \in Chunks
    BY StepNames DEF NewLife, FwInv, FwTypes, DlTypes
  <1>4. UNCHANGED chipVars
    BY DEF NewLife
  <1> QED BY <1>1, <1>2, <1>3, <1>4, DriverTypes, NoPromise

(* The call: a download begins at the first chunk, or is refused.          *)
LEMMA CallKeeps ==
    ASSUME FwInv, NEW usable \in BOOLEAN, download_firmware(usable), life' = life
    PROVE  FwInv'
  <1>1. life' \in 0 .. MaxLives /\ UNCHANGED chipVars
    BY DEF download_firmware, FwInv, FwTypes, DlTypes
  <1>2. error' \in BOOLEAN
    BY Zenon DEF download_firmware
  <1>3. CASE dl' = "power?" /\ chunk' = 1
    <2>1. dl' \in Preparing /\ ~(dl' \in {"prep", "reset", "arm"})
      BY <1>3 DEF Preparing
    <2>2. dl' \in FwSteps /\ chunk' \in Chunks
      BY <1>3, <2>1, StepNames, LayoutFacts
    <2> QED BY <1>1, <1>2, <1>3, <2>1, <2>2, DriverTypes, PreparingPromise
  <1>4. CASE dl' = "no" /\ chunk' = chunk
    <2>1. dl' \in FwSteps /\ chunk' \in Chunks
      BY <1>4, StepNames DEF FwInv, FwTypes, DlTypes
    <2> QED BY <1>1, <1>2, <1>4, <2>1, DriverTypes, NoPromise
  <1> QED BY <1>3, <1>4 DEF download_firmware

(* The end of a register access: on to step s, or out.                     *)
LEMMA ThenEnds ==
    ASSUME FwInv, NEW out, NEW s \in FwSteps, Then(out, s), life' = life
    PROVE  /\ DlTypes' /\ error' \in BOOLEAN /\ chunk' = chunk
           /\ \/ out = "ok" /\ dl' = s
              \/ out # "ok" /\ dl' = "out" /\ error'
  <1>1. DlTypes'
    BY StepNames DEF Then, Goto, Fail, FwInv, FwTypes, DlTypes
  <1>2. error' \in BOOLEAN
    <2>1. error' = error \/ error' = TRUE
      BY DEF Then, Goto, Fail
    <2>2. error \in BOOLEAN
      BY DEF FwInv, FwTypes, FlagTypes
    <2> QED BY <2>1, <2>2, Zenon
  <1>3. /\ chunk' = chunk
        /\ \/ out = "ok" /\ dl' = s
           \/ out # "ok" /\ dl' = "out" /\ error'
    BY DEF Then, Goto, Fail
  <1> QED BY <1>1, <1>2, <1>3

(* Steps of the preparation that do not touch the CPU or the channel.      *)
LEMMA PrepareOn ==
    ASSUME FwInv, NEW s \in Preparing, DlTypes', error' \in BOOLEAN,
           chunk' = chunk, dl \in Preparing,
           dl' = s \/ (dl' = "out" /\ error'), CopyNeedsReset',
           cpu' \in BOOLEAN, RegTypes', MemTypes',
           s \in {"prep", "reset", "arm"} /\ dl' = s => ~cpu'
    PROVE  FwInv'
  <1>1. FwTypes'
    BY DEF FwTypes, FlagTypes
  <1>2. chunk' = 1
    BY DEF FwInv, FromTheStart
  <1> QED BY <1>1, <1>2, NoPromise, PreparingPromise

(* Steps up to Arm: the CPU comes to reset and the status bits to zero.    *)
LEMMA PrepareKeeps ==
    ASSUME FwInv, NEW out \in Outcomes, Prepare(out), life' = life
    PROVE  FwInv'
  <1>s. /\ {"off", "up", "coex", "prep", "reset", "arm"} \subseteq Preparing
        /\ {"power?", "cpu off"} \subseteq Preparing
        /\ \A s \in Preparing \cup {"segment"} : s \in FwSteps
    BY StepNames DEF Preparing, Loading
  <1>t. RegTypes /\ MemTypes /\ cpu \in BOOLEAN /\ CopyNeedsReset /\ HeldInReset
    BY DEF FwInv, FwTypes, FlagTypes
  <1>r. dl \in {"prep", "reset", "arm"} => ~cpu
    BY DEF FwInv, HeldInReset
  <1>1. ASSUME NEW on \in BOOLEAN, mac_currently_on(out, on) PROVE FwInv'
    <2>1. dl = "power?" /\ Goto(IF on THEN "off" ELSE "up") /\ UNCHANGED chipVars
      BY <1>1 DEF mac_currently_on
    <2>2. /\ dl' \in {"off", "up"} /\ error' = error /\ chunk' = chunk
      BY <2>1 DEF Goto
    <2>3. /\ dl' \in Preparing /\ dl' \in FwSteps /\ dl \in Preparing
          /\ dl' \notin {"prep", "reset", "arm"}
      BY <2>1, <2>2, <1>s
    <2>4. FwTypes' /\ CopyNeedsReset'
      BY <2>1, <2>2, <2>3, DriverTypes DEF FwInv, FwTypes, DlTypes, FlagTypes
    <2> QED BY <2>2, <2>3, <2>4, PreparingPromise DEF FwInv, FromTheStart
  <1>2. CASE mac_power_off(out)
    <2>1. dl = "off" /\ Then(out, "up")
      BY <1>2 DEF mac_power_off
    <2>2. /\ DlTypes' /\ error' \in BOOLEAN /\ chunk' = chunk
          /\ dl' = "up" \/ (dl' = "out" /\ error')
      BY <2>1, <1>s, ThenEnds
    <2>3. CASE PowerLost /\ power' = "off"
      <3>1. cpu' = FALSE /\ mcufw' = {} /\ booted' = 0
        BY <2>3 DEF PowerLost
      <3>2. RegTypes'
        BY <2>3, <3>1, LayoutFacts DEF RegTypes
      <3>3. MemTypes'
        BY <2>3, LayoutFacts DEF PowerLost, MemTypes
      <3>4. cpu' \in BOOLEAN
        BY <3>1, Zenon
      <3>5. CopyNeedsReset'
        BY <3>1 DEF CopyNeedsReset
      <3> QED BY <2>1, <2>2, <3>1, <3>2, <3>3, <3>4, <3>5, <1>s, PrepareOn
    <2>4. CASE /\ power' = "part"
               /\ UNCHANGED <<cpu, mcufw, page, wire, ddma, mem, booted>>
      <3>1. RegTypes' /\ MemTypes' /\ CopyNeedsReset' /\ cpu' \in BOOLEAN
        BY <2>4, <1>t DEF RegTypes, MemTypes, CopyNeedsReset
      <3> QED BY <2>1, <2>2, <3>1, <1>s, PrepareOn
    <2> QED BY <1>2, <2>3, <2>4 DEF mac_power_off
  <1>3. CASE mac_power_up_once(out)
    <2>1. /\ dl = "up" /\ Then(out, "coex") /\ power' \in {"act", "part", power}
          /\ UNCHANGED <<cpu, mcufw, page, wire, ddma, mem, booted>>
      BY <1>3 DEF mac_power_up_once
    <2>2. /\ DlTypes' /\ error' \in BOOLEAN /\ chunk' = chunk
          /\ dl' = "coex" \/ (dl' = "out" /\ error')
      BY <2>1, <1>s, ThenEnds
    <2>3. RegTypes' /\ MemTypes' /\ CopyNeedsReset' /\ cpu' \in BOOLEAN
      BY <2>1, <1>t DEF RegTypes, MemTypes, CopyNeedsReset
    <2> QED BY <2>1, <2>2, <2>3, <1>s, PrepareOn
  <1>4. CASE wcpu_disable(out)
    <2>1. /\ dl = "cpu off" /\ Then(out, "prep")
          /\ cpu' = (cpu /\ ~Landed(out)) /\ booted' \in {0, booted}
          /\ UNCHANGED <<power, mcufw, page, wire, ddma, mem>>
      BY <1>4 DEF wcpu_disable
    <2>2. /\ DlTypes' /\ error' \in BOOLEAN /\ chunk' = chunk
          /\ \/ dl' = "prep" /\ out = "ok"
             \/ dl' = "out" /\ error'
      <3>1. "prep" \in FwSteps /\ Then(out, "prep")
        BY <2>1, <1>s
      <3> QED BY <3>1, ThenEnds
    <2>3. cpu' \in BOOLEAN /\ (cpu' => cpu)
      BY <2>1, <1>t, Zenon
    <2>4. RegTypes' /\ MemTypes' /\ CopyNeedsReset'
      <3>0. /\ booted' \in {0, booted}
            /\ UNCHANGED <<power, mcufw, page, wire, ddma, mem>>
        BY <2>1
      <3>1. RegTypes' /\ MemTypes'
        BY <3>0, <1>t, LayoutFacts DEF RegTypes, MemTypes
      <3>2. ddma' = ddma /\ (cpu' => cpu) /\ (ddma.own => ~cpu)
        BY <2>1, <2>3, <1>t DEF CopyNeedsReset
      <3>3. CopyNeedsReset'
        BY <3>2 DEF CopyNeedsReset
      <3> QED BY <3>1, <3>3
    <2>5. dl' = "prep" => ~cpu'
      BY <2>1, <2>2 DEF Landed
    <2> QED BY <2>1, <2>2, <2>3, <2>4, <2>5, <1>s, PrepareOn
  <1>5. ASSUME NEW s \in {"reset", "arm"}, dl \in {"prep", "reset"},
               Then(out, s), UNCHANGED chipVars
        PROVE  FwInv'
    <2>1. /\ DlTypes' /\ error' \in BOOLEAN /\ chunk' = chunk
          /\ dl' = s \/ (dl' = "out" /\ error')
      BY <1>5, <1>s, ThenEnds
    <2>2. RegTypes' /\ MemTypes' /\ CopyNeedsReset' /\ cpu' = cpu
      BY <1>5, <1>t DEF RegTypes, MemTypes, CopyNeedsReset, chipVars
    <2> QED BY <1>5, <2>1, <2>2, <1>s, <1>t, <1>r, PrepareOn
  <1>6. CASE Arm(out)
    <2>1. /\ dl = "arm" /\ Then(out, "segment")
          /\ UNCHANGED <<cpu, power, page, wire, ddma, mem, booted>>
          /\ mcufw' \in {{"MCUFWDL_EN"}, mcufw}
          /\ Landed(out) => mcufw' = {"MCUFWDL_EN"}
      BY <1>6 DEF Arm
    <2>2. /\ DlTypes' /\ error' \in BOOLEAN /\ chunk' = chunk /\ chunk = 1
          /\ \/ dl' = "segment" /\ out = "ok"
             \/ dl' = "out" /\ error'
      <3>1. "segment" \in FwSteps /\ Then(out, "segment")
        BY <2>1, <1>s
      <3>2. chunk = 1
        BY <2>1, <1>s DEF FwInv, FromTheStart
      <3> QED BY <3>1, <3>2, ThenEnds
    <2>3. RegTypes' /\ MemTypes' /\ CopyNeedsReset' /\ cpu' = cpu
      BY <2>1, <1>t DEF RegTypes, MemTypes, CopyNeedsReset, Bits
    <2>4. FwTypes'
      BY <2>2, <2>3, <1>t DEF FwTypes, FlagTypes
    <2>5. CASE dl' = "out"
      BY <2>2, <2>3, <2>4, <2>5, NoPromise
    <2>6. CASE dl' = "segment"
      <3>1. ~cpu' /\ mcufw' = {"MCUFWDL_EN"} /\ chunk' = 1
        BY <2>1, <2>2, <2>6, <1>r DEF Landed
      <3>2. (HeldInReset /\ CopyIsChunk /\ FromTheStart)'
        BY <2>6, <3>1 DEF HeldInReset, CopyIsChunk, FromTheStart, Preparing
      <3>3. ChannelIdle'
        BY <2>6, <3>1 DEF ChannelIdle, Staging, Loaded
      <3>4. Right(0)'
        BY LayoutFacts DEF Right, Chunks
      <3>5. RightSoFar'
        BY <2>6, <3>1, <3>4 DEF RightSoFar, Staging, Loaded
      <3>6. (NotBootedYet /\ BootIsNew)'
        BY <2>6, <3>1 DEF NotBootedYet, BootIsNew
      <3> QED BY <2>3, <2>4, <3>2, <3>3, <3>5, <3>6 DEF FwInv
    <2> QED BY <2>2, <2>5, <2>6
  <1> QED
    BY <1>1, <1>2, <1>3, <1>4, <1>5, <1>6 DEF Prepare, dlfw_prep_chip, reset_platform

(* While chunks are loaded the CPU rests, so READY cannot appear.          *)
LEMMA LoadingPromise ==
    ASSUME FwTypes', dl' \in Loading \cup Loaded, ~cpu',
           "FW_INIT_RDY" \notin mcufw', ChannelIdle', CopyIsChunk', RightSoFar'
    PROVE  FwInv'
  <1>1. (HeldInReset /\ CopyNeedsReset)'
    BY DEF HeldInReset, CopyNeedsReset
  <1>2. (FromTheStart /\ NotBootedYet /\ BootIsNew)'
    BY DEF FromTheStart, NotBootedYet, BootIsNew, Preparing, Loading, Staging,
       Loaded
  <1> QED BY <1>1, <1>2 DEF FwInv

(* What the steps of the loop start from.                                  *)
LEMMA LoadingHas ==
    ASSUME FwInv, dl \in Loading \cup Loaded
    PROVE  /\ ~cpu /\ cpu \in BOOLEAN /\ "FW_INIT_RDY" \notin mcufw
           /\ life \in 0 .. MaxLives /\ chunk \in Chunks /\ chunk \in Nat
           /\ RegTypes /\ MemTypes /\ ddma.own \in BOOLEAN /\ ddma.bad \in BOOLEAN
           /\ <<life, chunk>> \in Content
  <1>1. /\ ~cpu /\ cpu \in BOOLEAN /\ "FW_INIT_RDY" \notin mcufw
        /\ RegTypes /\ MemTypes
    BY DEF FwInv, FwTypes, FlagTypes, HeldInReset, NotBootedYet
  <1>2. life \in 0 .. MaxLives /\ chunk \in Chunks /\ chunk \in Nat
    BY LayoutFacts DEF FwInv, FwTypes, DlTypes
  <1>3. ddma.own \in BOOLEAN /\ ddma.bad \in BOOLEAN
    BY <1>1 DEF MemTypes
  <1>4. <<life, chunk>> \in Content
    BY <1>2, LayoutFacts DEF Content, Chunks
  <1> QED BY <1>1, <1>2, <1>3, <1>4

(* The checksum starts anew; what is in memory so far is right.            *)
LEMMA SegmentKeeps ==
    ASSUME FwInv, NEW out \in Outcomes, SegmentBegin(out), life' = life
    PROVE  FwInv'
  <1>1. /\ dl = "segment" /\ Then(out, "stage")
        /\ ddma' = ddma \/ ddma' = [ddma EXCEPT !.bad = FALSE]
        /\ UNCHANGED <<power, cpu, mcufw, page, wire, mem, booted>>
    BY DEF SegmentBegin
  <1>2. dl \in Loading /\ "stage" \in FwSteps /\ "stage" \in Loading
    BY <1>1, StepNames DEF Loading, Staging
  <1>3. /\ DlTypes' /\ error' \in BOOLEAN /\ chunk' = chunk
        /\ dl' = "stage" \/ (dl' = "out" /\ error')
    BY <1>1, <1>2, ThenEnds
  <1>4. /\ ddma' \in [own : BOOLEAN, dst : Chunks, bad : BOOLEAN]
        /\ ddma'.own = ddma.own
    BY <1>1, <1>2, LoadingHas DEF MemTypes
  <1>5. FwTypes' /\ ~cpu'
    BY <1>1, <1>2, <1>3, <1>4, LoadingHas
    DEF FwTypes, FlagTypes, RegTypes, MemTypes
  <1>6. CopyNeedsReset'
    BY <1>5 DEF CopyNeedsReset
  <1>7. CASE dl' = "stage"
    <2>1. Right(chunk - 1) /\ (chunk > 1 => ~ddma.own)
      BY <1>1 DEF FwInv, RightSoFar, ChannelIdle
    <2>2. Right(chunk - 1)'
      BY <2>1, <1>1, <1>3 DEF Right
    <2>3. RightSoFar'
      BY <2>2, <1>7 DEF RightSoFar, Loaded
    <2>4. ChannelIdle' /\ CopyIsChunk'
      BY <2>1, <1>3, <1>4, <1>7 DEF ChannelIdle, CopyIsChunk, Loaded
    <2> QED BY <1>1, <1>2, <1>5, <1>7, <2>3, <2>4, LoadingHas, LoadingPromise
  <1> QED BY <1>3, <1>5, <1>6, <1>7, NoPromise

(* Staging a page touches neither memory nor the channel.                  *)
LEMMA StagingKeeps ==
    ASSUME FwInv, NEW s \in {"packet", "staged?", "idle?", "ddma"},
           dl \in {"stage", "packet", "staged?", "idle?"}, life' = life,
           chunk' = chunk, DlTypes', error' \in BOOLEAN,
           dl' = s \/ (dl' = "out" /\ error'), dl' = "ddma" => ~ddma.own,
           page' \in [holds : Content, valid : BOOLEAN], wire' \in Content,
           UNCHANGED <<power, cpu, mcufw, ddma, mem, booted>>
    PROVE  FwInv'
  <1>1. dl \in Loading /\ dl \in Staging /\ s \in Loading /\ s \in Staging
    BY DEF Loading, Staging
  <1>2. FwTypes' /\ ~cpu'
    BY <1>1, LoadingHas DEF FwTypes, FlagTypes, RegTypes, MemTypes
  <1>3. CopyNeedsReset'
    BY <1>2 DEF CopyNeedsReset
  <1>4. CASE dl' = s
    <2>1. /\ Right(chunk - 1) \/ (ddma.bad /\ ~SegStart(chunk))
          /\ chunk > 1 => ~ddma.own
      BY <1>1 DEF FwInv, RightSoFar, ChannelIdle
    <2>2. Right(chunk - 1)' <=> Right(chunk - 1)
      BY DEF Right
    <2>3. SegStart(chunk)' <=> SegStart(chunk)
      BY DEF SegStart
    <2>4. RightSoFar'
      BY <2>1, <2>2, <2>3, <1>4 DEF RightSoFar, Loaded
    <2>5. ChannelIdle' /\ CopyIsChunk'
      BY <2>1, <1>4 DEF ChannelIdle, CopyIsChunk, Loaded
    <2> QED BY <1>1, <1>2, <1>4, <2>4, <2>5, LoadingHas, LoadingPromise
  <1> QED BY <1>2, <1>3, <1>4, NoPromise

(* Clearing BIT_BCN_VALID_V1, and the packet.                              *)
LEMMA PacketKeeps ==
    ASSUME FwInv, NEW out \in Outcomes, StagePage(out) \/ SendPacket(out),
           life' = life
    PROVE  FwInv'
  <1>1. dl \in Loading
    BY DEF StagePage, SendPacket, Loading, Staging
  <1>2. CASE StagePage(out)
    <2>1. /\ dl = "stage" /\ Then(out, "packet")
          /\ page' = page \/ page' = [page EXCEPT !.valid = FALSE]
          /\ UNCHANGED <<power, cpu, mcufw, wire, ddma, mem, booted>>
      BY <1>2 DEF StagePage
    <2>2. "packet" \in FwSteps
      BY StepNames DEF Loading, Staging
    <2>3. /\ DlTypes' /\ error' \in BOOLEAN /\ chunk' = chunk
          /\ dl' = "packet" \/ (dl' = "out" /\ error')
      BY <2>1, <2>2, ThenEnds
    <2>4. page' \in [holds : Content, valid : BOOLEAN] /\ wire' \in Content
      BY <2>1, <1>1, LoadingHas DEF MemTypes
    <2> QED BY <2>1, <2>3, <2>4, StagingKeeps
  <1>3. CASE SendPacket(out)
    <2>1. /\ dl = "packet" /\ Then(out, "staged?")
          /\ wire' \in {wire, <<life, chunk>>}
          /\ UNCHANGED <<power, cpu, mcufw, page, ddma, mem, booted>>
      BY <1>3 DEF SendPacket
    <2>2. "staged?" \in FwSteps
      BY StepNames DEF Loading, Staging
    <2>3. /\ DlTypes' /\ error' \in BOOLEAN /\ chunk' = chunk
          /\ dl' = "staged?" \/ (dl' = "out" /\ error')
      BY <2>1, <2>2, ThenEnds
    <2>4. page' \in [holds : Content, valid : BOOLEAN] /\ wire' \in Content
      BY <2>1, <1>1, LoadingHas DEF MemTypes
    <2> QED BY <2>1, <2>3, <2>4, StagingKeeps
  <1> QED BY <1>2, <1>3

(* A poll: the bit is there, or the download fails.                        *)
LEMMA PollStagingKeeps ==
    ASSUME FwInv, AwaitPage \/ AwaitIdle, life' = life
    PROVE  FwInv'
  <1>1. /\ \/ dl = "staged?" /\ (Goto("idle?") \/ Fail)
           \/ dl = "idle?" /\ ((~ddma.own /\ Goto("ddma")) \/ Fail)
        /\ UNCHANGED <<power, cpu, mcufw, page, wire, ddma, mem, booted>>
    BY DEF AwaitPage, AwaitIdle, Await, chipVars
  <1>2. dl \in Loading /\ {"idle?", "ddma", "out"} \subseteq FwSteps
    BY <1>1, StepNames DEF Loading, Staging
  <1>3. error' \in BOOLEAN
    <2>1. error' = error \/ error' = TRUE
      BY <1>1 DEF Goto, Fail
    <2>2. error \in BOOLEAN
      BY DEF FwInv, FwTypes, FlagTypes
    <2> QED BY <2>1, <2>2, Zenon
  <1>4. /\ chunk' = chunk /\ dl' \in {"idle?", "ddma", "out"}
        /\ dl' = "out" => error'
        /\ dl' = "ddma" => ~ddma.own
    BY <1>1 DEF Goto, Fail
  <1>5. DlTypes'
    BY <1>2, <1>4, LoadingHas DEF DlTypes
  <1>6. page' \in [holds : Content, valid : BOOLEAN] /\ wire' \in Content
    BY <1>1, <1>2, LoadingHas DEF MemTypes
  <1> QED BY <1>1, <1>3, <1>4, <1>5, <1>6, StagingKeeps

(* The channel is started on this chunk; the sum goes on, or starts anew   *)
(* with the segment.                                                       *)
LEMMA StartDdmaKeeps ==
    ASSUME FwInv, NEW out \in Outcomes, StartDdma(out), life' = life
    PROVE  FwInv'
  <1> DEFINE sum == ~SegStart(chunk) /\ ddma.bad
             started == [own |-> TRUE, dst |-> chunk, bad |-> sum]
  <1>1. /\ dl = "ddma" /\ Then(out, "copied?")
        /\ ddma' = ddma \/ ddma' = started
        /\ out = "ok" => ddma' = started
        /\ UNCHANGED <<power, cpu, mcufw, page, wire, mem, booted>>
    BY DEF StartDdma, Landed
  <1>2. /\ dl \in Loading /\ dl \in Staging /\ "copied?" \in FwSteps
        /\ "copied?" \in Loading
    BY <1>1, StepNames DEF Loading, Staging
  <1>3. /\ DlTypes' /\ error' \in BOOLEAN /\ chunk' = chunk
        /\ \/ out = "ok" /\ dl' = "copied?"
           \/ dl' = "out" /\ error'
    <2>1. Then(out, "copied?") /\ "copied?" \in FwSteps
      BY <1>1, <1>2
    <2> QED BY <2>1, ThenEnds
  <1>4. sum \in BOOLEAN
    BY Zenon
  <1>5. Right(chunk - 1) \/ sum
    BY <1>2 DEF FwInv, RightSoFar
  <1> HIDE DEF sum
  <1>6. ddma' \in [own : BOOLEAN, dst : Chunks, bad : BOOLEAN]
    <2>1. /\ chunk \in Chunks
          /\ ddma \in [own : BOOLEAN, dst : Chunks, bad : BOOLEAN]
      BY <1>2, LoadingHas DEF MemTypes
    <2>2. started \in [own : BOOLEAN, dst : Chunks, bad : BOOLEAN]
      BY <2>1, <1>4
    <2> QED BY <1>1, <2>1, <2>2
  <1>7. FwTypes' /\ ~cpu'
    BY <1>1, <1>2, <1>3, <1>6, LoadingHas
    DEF FwTypes, FlagTypes, RegTypes, MemTypes
  <1>8. CopyNeedsReset'
    BY <1>7 DEF CopyNeedsReset
  <1>9. CASE dl' = "copied?"
    <2>1. ddma' = started
      BY <1>1, <1>3, <1>9
    <2>2. ddma'.own /\ ddma'.dst = chunk /\ (sum => ddma'.bad)
      BY <2>1
    <2>3. Right(chunk - 1)' <=> Right(chunk - 1)
      BY <1>1, <1>3 DEF Right
    <2>4. RightSoFar'
      BY <2>2, <2>3, <1>5, <1>9 DEF RightSoFar, Staging, Loaded
    <2>5. ChannelIdle' /\ CopyIsChunk'
      BY <2>2, <1>3, <1>9 DEF ChannelIdle, CopyIsChunk, Staging, Loaded
    <2> QED BY <1>1, <1>2, <1>7, <1>9, <2>4, <2>5, LoadingHas, LoadingPromise
  <1> QED BY <1>3, <1>7, <1>8, <1>9, NoPromise

(* What the driver reads of the chip after a chunk: nothing of it changes. *)
LEMMA ChunkDone ==
    ASSUME FwInv, dl \in {"copied?", "ack"}, life' = life,
           UNCHANGED <<power, cpu, page, wire, ddma, mem, booted>>,
           mcufw' \subseteq Bits, "FW_INIT_RDY" \notin mcufw',
           error' \in BOOLEAN,
           \/ dl' = "out" /\ error' /\ chunk' = chunk
           \/ dl' = "ack" /\ chunk' = chunk /\ ~ddma.own
           \/ dl' = "stage" /\ chunk' = chunk + 1 /\ chunk < Len(Layout)
              /\ ~ddma.own /\ ~SegStart(chunk + 1)
           \/ dl' = "segment" /\ chunk' = chunk + 1 /\ chunk < Len(Layout)
              /\ ~ddma.own /\ ~ddma.bad
           \/ dl' = "sums" /\ chunk' = chunk /\ chunk = Len(Layout)
              /\ ~ddma.own /\ ~ddma.bad
    PROVE  FwInv'
  <1>1. dl \in Loading
    BY DEF Loading
  <1>2. chunk' \in Chunks /\ chunk' \in Nat
    BY <1>1, LoadingHas, LayoutFacts DEF Chunks
  <1>3. DlTypes'
    <2>1. dl' \in FwSteps
      BY StepNames DEF Loading, Staging, Loaded
    <2> QED BY <1>1, <1>2, <2>1, LoadingHas DEF DlTypes
  <1>4. FwTypes' /\ ~cpu'
    BY <1>1, <1>3, LoadingHas DEF FwTypes, FlagTypes, RegTypes, MemTypes
  <1>5. CopyNeedsReset'
    BY <1>4 DEF CopyNeedsReset
  <1>6. CASE dl' # "out"
    <2>1. Right(chunk) \/ ddma.bad
      BY <1>6 DEF FwInv, RightSoFar
    <2>2. /\ dl' \in Loading \cup Loaded /\ ~ddma.own
          /\ dl' \in {"ack", "stage", "segment", "sums"}
      BY <1>6 DEF Loading, Staging, Loaded
    <2>3. \A n : Right(n)' <=> Right(n)
      BY DEF Right
    <2>4. ChannelIdle' /\ CopyIsChunk'
      BY <2>2 DEF ChannelIdle, CopyIsChunk
    <2>5. RightSoFar'
      <3>1. CASE dl' = "ack"
        BY <2>1, <2>3, <3>1 DEF RightSoFar, Staging, Loaded
      <3>2. CASE dl' = "stage"
        <4>1. chunk' - 1 = chunk /\ ~SegStart(chunk')
          BY <1>1, <3>2, LoadingHas
        <4>2. Right(chunk' - 1) \/ ddma.bad
          BY <2>1, <4>1
        <4>3. Right(chunk - 1)' \/ (ddma'.bad /\ ~SegStart(chunk)')
          BY <2>3, <4>1, <4>2 DEF SegStart, Right
        <4> QED BY <3>2, <4>3 DEF RightSoFar, Loaded
      <3>3. CASE dl' = "segment"
        <4>1. chunk' - 1 = chunk /\ Right(chunk)
          BY <1>1, <3>3, <2>1, LoadingHas
        <4>2. Right(chunk - 1)'
          BY <4>1 DEF Right
        <4> QED BY <3>3, <4>2 DEF RightSoFar, Staging, Loaded
      <3>4. CASE dl' = "sums"
        <4>1. Right(Len(Layout))'
          BY <3>4, <2>1, <2>3
        <4> QED BY <3>4, <4>1 DEF RightSoFar, Staging, Loaded
      <3> QED BY <2>2, <3>1, <3>2, <3>3, <3>4
    <2> QED BY <1>4, <2>2, <2>4, <2>5, LoadingPromise
  <1> QED BY <1>4, <1>5, <1>6, NoPromise

(* The copy is over, or took too long.                                     *)
LEMMA AwaitCopyKeeps == ASSUME FwInv, AwaitCopy, life' = life PROVE FwInv'
  <1>1. /\ dl = "copied?"
        /\ UNCHANGED <<power, cpu, mcufw, page, wire, ddma, mem, booted>>
        /\ \/ ~ddma.own /\ dl' = "ack" /\ chunk' = chunk /\ error' = error
           \/ ~ddma.own /\ ~SegEnd(chunk) /\ dl' = "stage" /\ chunk' = chunk + 1
              /\ error' = error
           \/ dl' = "out" /\ error' = TRUE /\ chunk' = chunk
    BY DEF AwaitCopy, Goto, Fail, chipVars
  <1>2. dl \in Loading
    BY <1>1 DEF Loading
  <1>3. error' \in BOOLEAN
    <2>1. error' = error \/ error' = TRUE
      BY <1>1
    <2>2. error \in BOOLEAN
      BY DEF FwInv, FwTypes, FlagTypes
    <2> QED BY <2>1, <2>2, Zenon
  <1>4. mcufw' \subseteq Bits /\ "FW_INIT_RDY" \notin mcufw'
    BY <1>1, <1>2, LoadingHas DEF RegTypes
  <1>5. ~SegEnd(chunk) => chunk < Len(Layout) /\ ~SegStart(chunk + 1)
    <2>1. chunk \in Nat /\ (chunk + 1) - 1 = chunk
      BY <1>2, LoadingHas
    <2>2. chunk + 1 > 1
      BY <1>2, LoadingHas, LayoutFacts DEF Chunks
    <2> QED BY <2>1, <2>2, LayoutFacts DEF SegEnd, SegStart
  <1>6. \/ dl' = "out" /\ error' /\ chunk' = chunk
        \/ dl' = "ack" /\ chunk' = chunk /\ ~ddma.own
        \/ dl' = "stage" /\ chunk' = chunk + 1 /\ chunk < Len(Layout)
           /\ ~ddma.own /\ ~SegStart(chunk + 1)
    BY <1>1, <1>5
  <1> QED BY <1>1, <1>3, <1>4, <1>6, ChunkDone

(* A bad sum ends the download here; a good one means the segment is in.   *)
LEMMA AckKeeps ==
    ASSUME FwInv, NEW out \in Outcomes, segment_checksum_ack(out), life' = life
    PROVE  FwInv'
  <1>1. /\ dl = "ack"
        /\ UNCHANGED <<power, cpu, page, wire, ddma, mem, booted>>
        /\ \/ dl' = "out" /\ error' = TRUE /\ chunk' = chunk
           \/ ~ddma.bad /\ chunk < Len(Layout) /\ dl' = "segment"
              /\ chunk' = chunk + 1 /\ error' = error
           \/ ~ddma.bad /\ chunk = Len(Layout) /\ dl' = "sums"
              /\ chunk' = chunk /\ error' = error
    BY DEF segment_checksum_ack, Goto, Fail
  <1>2. dl \in Loading
    BY <1>1 DEF Loading
  <1>3. error' \in BOOLEAN
    <2>1. error' = error \/ error' = TRUE
      BY <1>1
    <2>2. error \in BOOLEAN
      BY DEF FwInv, FwTypes, FlagTypes
    <2> QED BY <2>1, <2>2, Zenon
  <1>4. mcufw' \subseteq Bits /\ "FW_INIT_RDY" \notin mcufw'
    <2>1. PICK ok \in {OkBits("DMEM"), OkBits("IMEM")} :
            mcufw' \in {mcufw, (mcufw \cup {ok[1]}) \ {ok[2]},
                       mcufw \cup {ok[1], ok[2]}}
      BY DEF segment_checksum_ack, OkBits
    <2>2. ok[1] \in Bits \ {"FW_INIT_RDY"} /\ ok[2] \in Bits \ {"FW_INIT_RDY"}
      BY DEF OkBits, Bits
    <2>3. mcufw \subseteq Bits /\ "FW_INIT_RDY" \notin mcufw
      BY <1>2, LoadingHas DEF RegTypes
    <2> HIDE DEF Bits
    <2> QED BY <2>1, <2>2, <2>3
  <1>5. ~ddma.own
    BY <1>1 DEF FwInv, ChannelIdle
  <1>6. \/ dl' = "out" /\ error' /\ chunk' = chunk
        \/ dl' = "segment" /\ chunk' = chunk + 1 /\ chunk < Len(Layout)
           /\ ~ddma.own /\ ~ddma.bad
        \/ dl' = "sums" /\ chunk' = chunk /\ chunk = Len(Layout)
           /\ ~ddma.own /\ ~ddma.bad
    BY <1>1, <1>5
  <1> QED BY <1>1, <1>3, <1>4, <1>6, ChunkDone

(* Between the last sum and the release memory is complete.                *)
LEMMA LoadedKeeps ==
    ASSUME FwInv, dl \in Loaded, life' = life, chunk' = chunk,
           UNCHANGED <<power, cpu, page, wire, ddma, mem, booted>>,
           mcufw' \subseteq Bits, "FW_INIT_RDY" \notin mcufw',
           DlTypes', error' \in BOOLEAN,
           dl' \in {"close", "cpu on"} \/ (dl' = "out" /\ error')
    PROVE  FwInv'
  <1>1. FwTypes' /\ ~cpu'
    BY LoadingHas DEF FwTypes, FlagTypes, RegTypes, MemTypes
  <1>2. CopyNeedsReset'
    BY <1>1 DEF CopyNeedsReset
  <1>3. CASE dl' # "out"
    <2>1. Right(Len(Layout)) /\ ~ddma.own
      BY DEF FwInv, RightSoFar, ChannelIdle
    <2>2. Right(Len(Layout))'
      BY <2>1 DEF Right
    <2>3. dl' \in Loaded /\ dl' \in {"close", "cpu on"}
      BY <1>3 DEF Loaded
    <2>4. RightSoFar'
      BY <2>2, <2>3 DEF RightSoFar, Staging
    <2>5. ChannelIdle' /\ CopyIsChunk'
      BY <2>1, <2>3 DEF ChannelIdle, CopyIsChunk
    <2> QED BY <1>1, <2>3, <2>4, <2>5, LoadingPromise
  <1> QED BY <1>1, <1>2, <1>3, NoPromise

(* The sums as the chip keeps them; the window closes.                     *)
LEMMA CloseKeeps ==
    ASSUME FwInv, NEW out \in Outcomes, CheckSums(out) \/ CloseWindow(out),
           life' = life
    PROVE  FwInv'
  <1>1. dl \in Loaded /\ {"close", "cpu on", "out"} \subseteq FwSteps
    BY StepNames DEF CheckSums, CloseWindow, Loaded
  <1>2. /\ chunk' = chunk /\ (error' = error \/ error' = TRUE)
        /\ dl' \in {"close", "cpu on"} \/ (dl' = "out" /\ error')
    BY DEF CheckSums, CloseWindow, Then, Goto, Fail
  <1>3. /\ UNCHANGED <<power, cpu, page, wire, ddma, mem, booted>>
        /\ mcufw' \in {mcufw, (mcufw \cup {"FW_DW_RDY"}) \ {"MCUFWDL_EN"}}
    BY DEF CheckSums, CloseWindow, chipVars
  <1>4. mcufw' \subseteq Bits /\ "FW_INIT_RDY" \notin mcufw'
    <2>1. mcufw \subseteq Bits /\ "FW_INIT_RDY" \notin mcufw
      BY <1>1, LoadingHas DEF RegTypes
    <2>2. "FW_DW_RDY" \in Bits
      BY DEF Bits
    <2> QED BY <1>3, <2>1, <2>2
  <1>5. error' \in BOOLEAN
    <2>1. error \in BOOLEAN
      BY DEF FwInv, FwTypes, FlagTypes
    <2> QED BY <1>2, <2>1, Zenon
  <1>6. DlTypes'
    BY <1>1, <1>2, LoadingHas DEF DlTypes
  <1> QED BY <1>1, <1>2, <1>3, <1>4, <1>5, <1>6, LoadedKeeps

(* Once the CPU runs, only READY is awaited.                               *)
LEMMA ReleasedPromise ==
    ASSUME FwTypes', dl' \in {"ready?", "out"}, ~ddma'.own,
           dl' = "ready?" => Right(Len(Layout))', BootIsNew'
    PROVE  FwInv'
  <1> USE DEF Preparing, Loading, Staging, Loaded
  <1>1. (HeldInReset /\ CopyNeedsReset /\ ChannelIdle /\ CopyIsChunk)'
    BY DEF HeldInReset, CopyNeedsReset, ChannelIdle, CopyIsChunk
  <1>2. (FromTheStart /\ RightSoFar /\ NotBootedYet)'
    BY DEF FromTheStart, RightSoFar, NotBootedYet
  <1> QED BY <1>1, <1>2 DEF FwInv

(* The CPU is let go.                                                      *)
LEMMA EnableKeeps ==
    ASSUME FwInv, NEW out \in Outcomes, wcpu_enable(out), life' = life
    PROVE  FwInv'
  <1>1. /\ dl = "cpu on" /\ Then(out, "ready?")
        /\ cpu' = (cpu \/ Landed(out))
        /\ UNCHANGED <<power, mcufw, page, wire, ddma, mem, booted>>
    BY DEF wcpu_enable
  <1>2. dl \in Loaded /\ "ready?" \in FwSteps
    BY <1>1, StepNames DEF Loaded
  <1>3. /\ DlTypes' /\ error' \in BOOLEAN /\ chunk' = chunk
        /\ \/ out = "ok" /\ dl' = "ready?"
           \/ dl' = "out" /\ error'
    <2>1. Then(out, "ready?") /\ "ready?" \in FwSteps
      BY <1>1, <1>2
    <2> QED BY <2>1, ThenEnds
  <1>4. cpu' \in BOOLEAN
    BY <1>1, Zenon
  <1>5. FwTypes'
    <2>1. UNCHANGED <<power, mcufw, page, wire, ddma, mem, booted>>
      BY <1>1
    <2>2. RegTypes' /\ MemTypes'
      BY <2>1, <1>2, LoadingHas DEF RegTypes, MemTypes
    <2> QED BY <2>2, <1>3, <1>4 DEF FwTypes, FlagTypes
  <1>6. /\ Right(Len(Layout)) /\ ~ddma.own /\ "FW_INIT_RDY" \notin mcufw
    BY <1>2 DEF FwInv, RightSoFar, ChannelIdle, NotBootedYet
  <1>7. /\ Right(Len(Layout))' /\ ~ddma'.own /\ "FW_INIT_RDY" \notin mcufw'
    <2>1. UNCHANGED <<mcufw, ddma, mem>>
      BY <1>1
    <2> QED BY <2>1, <1>6 DEF Right
  <1>8. dl' = "ready?" => cpu'
    BY <1>1, <1>3 DEF Landed
  <1>9. BootIsNew'
    BY <1>3, <1>7, <1>8 DEF BootIsNew
  <1> QED BY <1>3, <1>5, <1>7, <1>9, ReleasedPromise

(* READY, or the time is up.                                               *)
LEMMA ReadyKeeps == ASSUME FwInv, AwaitReady, life' = life PROVE FwInv'
  <1>1. /\ dl = "ready?" /\ dl' = "out" /\ chunk' = chunk
        /\ (error' = error /\ mcufw = Ready) \/ error' = TRUE
        /\ UNCHANGED chipVars
    BY DEF AwaitReady, Await, Goto, Fail
  <1>2. error' \in BOOLEAN
    <2>1. error \in BOOLEAN
      BY DEF FwInv, FwTypes, FlagTypes
    <2> QED BY <1>1, <2>1, Zenon
  <1>3. FwTypes' /\ CopyNeedsReset'
    <2>1. life' \in 0 .. MaxLives /\ dl' \in FwSteps /\ chunk' \in Chunks
      BY <1>1, StepNames DEF FwInv, FwTypes, DlTypes
    <2> QED BY <1>1, <1>2, <2>1, DriverTypes
  <1>4. /\ ~ddma.own /\ cpu /\ ("FW_INIT_RDY" \in mcufw => booted = life)
    BY <1>1 DEF FwInv, ChannelIdle, BootIsNew
  <1>5. mcufw = Ready => "FW_INIT_RDY" \in mcufw
    BY DEF Ready, Bits
  <1>6. BootIsNew' /\ ~ddma'.own
    BY <1>1, <1>4, <1>5 DEF BootIsNew, chipVars
  <1> QED BY <1>1, <1>3, <1>6, ReleasedPromise

(* rtw88_coex_init, between power-up and the CPU's reset.                  *)
LEMMA CoexKeeps ==
    ASSUME FwInv, CoexLock \/ CoexUnlock \/ CoexSends, life' = life
    PROVE  FwInv'
  <1>1. /\ dl \in {"coex", "coex regs", "coex bt", "coex tdma", "coex end"}
        /\ dl' \in {"coex regs", "coex bt", "coex tdma", "coex end", "cpu off"}
        /\ error' = error /\ chunk' = chunk /\ UNCHANGED chipVars
    BY DEF CoexLock, CoexUnlock, CoexSends, Goto
  <1>2. /\ dl \in Preparing /\ dl' \in Preparing
        /\ dl' \notin {"prep", "reset", "arm"}
    BY <1>1 DEF Preparing
  <1>3. FwTypes' /\ CopyNeedsReset'
    BY <1>1, <1>2, StepNames, DriverTypes DEF FwInv, FwTypes, DlTypes, FlagTypes
  <1>4. chunk' = 1
    BY <1>1, <1>2 DEF FwInv, FromTheStart
  <1> QED BY <1>2, <1>3, <1>4, PreparingPromise

(* The function returns.                                                   *)
LEMMA ReturnKeeps ==
    ASSUME FwInv, DownloadReturns("no"), life' = life
    PROVE  FwInv'
  <1>1. dl' = "no" /\ error' = error /\ chunk' = chunk /\ UNCHANGED chipVars
    BY DEF DownloadReturns
  <1>2. FwTypes' /\ CopyNeedsReset'
    BY <1>1, StepNames, DriverTypes DEF FwInv, FwTypes, DlTypes, FlagTypes
  <1> QED BY <1>1, <1>2, NoPromise

(* The chip stores a page: no promise is about the page.                   *)
LEMMA StoresKeeps ==
    ASSUME FwInv, NEW garbled \in BOOLEAN, ChipStores(garbled), life' = life
    PROVE  FwInv'
  <1>1. /\ UNCHANGED <<life, dl, chunk, error, power, cpu, mcufw, ddma, mem, booted>>
        /\ wire' = Junk
        /\ page' = [holds |-> Junk, valid |-> TRUE]
           \/ page' = [holds |-> wire, valid |-> TRUE]
    BY DEF ChipStores, dlVars
  <1>2. MemTypes'
    <2>1. MemTypes
      BY DEF FwInv, FwTypes
    <2>2. PICK w \in Content : page' = [holds |-> w, valid |-> TRUE]
      BY <1>1, <2>1, LayoutFacts DEF MemTypes
    <2>3. page' \in [holds : Content, valid : BOOLEAN]
      BY <2>2
    <2> QED BY <1>1, <2>1, <2>3, LayoutFacts DEF MemTypes
  <1>3. FwTypes'
    BY <1>1, <1>2 DEF FwInv, FwTypes, DlTypes, FlagTypes, RegTypes
  <1>4. (HeldInReset /\ CopyNeedsReset /\ ChannelIdle /\ CopyIsChunk)'
    BY <1>1 DEF FwInv, HeldInReset, CopyNeedsReset, ChannelIdle, CopyIsChunk
  <1>5. (FromTheStart /\ NotBootedYet /\ BootIsNew)'
    BY <1>1 DEF FwInv, FromTheStart, NotBootedYet, BootIsNew
  <1>6. \A n : Right(n)' <=> Right(n)
    BY <1>1 DEF Right
  <1>7. RightSoFar'
    BY <1>1, <1>6 DEF FwInv, RightSoFar, SegStart, Right
  <1> QED BY <1>3, <1>4, <1>5, <1>7 DEF FwInv

(* A copy ends.  Where the driver waits for it, the chunk is right now or  *)
(* the sum is bad; elsewhere it is one that an earlier life left, and      *)
(* nothing has been promised yet.                                          *)
LEMMA CopiesKeeps == ASSUME FwInv, ChipCopies, life' = life PROVE FwInv'
  <1> DEFINE sum == ddma.bad \/ page.holds # <<life, ddma.dst>>
             ended == [own |-> FALSE, dst |-> ddma.dst, bad |-> sum]
  <1>t. DlTypes /\ FlagTypes /\ RegTypes /\ MemTypes
    BY DEF FwInv, FwTypes
  <1>1. /\ UNCHANGED <<life, dl, chunk, error, power, cpu, mcufw, page, wire, booted>>
        /\ ddma.own /\ mem' = [mem EXCEPT ![ddma.dst] = page.holds]
    BY DEF ChipCopies, dlVars
  <1>2. sum \in BOOLEAN
    BY Zenon
  <1>3. ddma' = ended
    BY <1>t DEF ChipCopies, MemTypes
  <1>4. ~sum => page.holds = <<life, ddma.dst>>
    OBVIOUS
  <1>5. ddma.bad => sum
    OBVIOUS
  <1> HIDE DEF sum
  <1>6. /\ ddma' \in [own : BOOLEAN, dst : Chunks, bad : BOOLEAN]
        /\ ~ddma'.own /\ (sum <=> ddma'.bad) /\ ddma.dst \in Chunks
    BY <1>2, <1>3, <1>t DEF MemTypes
  <1>7. MemTypes'
    BY <1>1, <1>6, <1>t DEF MemTypes
  <1>8. FwTypes'
    BY <1>1, <1>7, <1>t DEF FwTypes, DlTypes, FlagTypes, RegTypes
  <1>9. ~cpu /\ ~cpu'
    BY <1>1 DEF FwInv, CopyNeedsReset
  <1>10. (HeldInReset /\ CopyNeedsReset /\ ChannelIdle /\ CopyIsChunk)'
    BY <1>6, <1>9 DEF HeldInReset, CopyNeedsReset, ChannelIdle, CopyIsChunk
  <1>11. (FromTheStart /\ NotBootedYet /\ BootIsNew)'
    BY <1>1 DEF FwInv, FromTheStart, NotBootedYet, BootIsNew
  <1>12. RightSoFar'
    <2>1. CASE dl \in Staging \cup {"segment"}
      <3>1. chunk = 1
        BY <2>1, <1>1, <1>t, LayoutFacts DEF FwInv, ChannelIdle, DlTypes, Chunks
      <3>2. Right(chunk - 1)'
        BY <3>1, <1>1, LayoutFacts DEF Right, Chunks
      <3> QED BY <2>1, <3>2, <1>1 DEF RightSoFar, Staging, Loaded
    <2>2. CASE dl = "copied?"
      <3>1. ddma.dst = chunk /\ (Right(chunk - 1) \/ ddma.bad)
        BY <2>2, <1>1 DEF FwInv, CopyIsChunk, RightSoFar
      <3>2. CASE sum
        BY <3>2, <2>2, <1>1, <1>6 DEF RightSoFar, Staging, Loaded
      <3>3. CASE ~sum
        <4>1. page.holds = <<life, chunk>> /\ Right(chunk - 1)
          BY <3>1, <3>3, <1>4, <1>5
        <4>2. mem \in [Chunks -> Content] /\ chunk \in Chunks
          BY <1>t DEF MemTypes, DlTypes
        <4>3. \A c \in Chunks : c <= chunk => mem'[c] = <<life, c>>
          BY <4>1, <4>2, <3>1, <1>1, LayoutFacts DEF Right
        <4>4. Right(chunk)'
          BY <4>3, <1>1 DEF Right
        <4> QED BY <2>2, <4>4, <1>1, <1>6 DEF RightSoFar, Staging, Loaded
      <3> QED BY <3>2, <3>3
    <2>3. dl \notin {"ack", "ready?"} \cup Loaded
      BY <1>1 DEF FwInv, ChannelIdle
    <2> QED BY <2>1, <2>2, <2>3, <1>1 DEF RightSoFar
  <1> QED BY <1>8, <1>10, <1>11, <1>12 DEF FwInv

(* The CPU starts: while the driver waits for it memory is complete, and   *)
(* before the download it is an earlier life's boot, which the reset ends. *)
LEMMA BootsKeeps == ASSUME FwInv, ChipBoots, life' = life PROVE FwInv'
  <1>1. /\ UNCHANGED <<life, dl, chunk, error, power, cpu, page, wire, ddma, mem>>
        /\ cpu /\ "FW_INIT_RDY" \notin mcufw
        /\ mcufw' = mcufw \cup {"FW_INIT_RDY"}
        /\ booted' = IF \A c \in Chunks : mem[c] = <<life, c>> THEN life ELSE 0
    BY DEF ChipBoots, dlVars
  <1>t. DlTypes /\ FlagTypes /\ RegTypes /\ MemTypes
    BY DEF FwInv, FwTypes
  <1>2. RegTypes'
    <2>1. "FW_INIT_RDY" \in Bits
      BY DEF Bits
    <2>2. booted' \in 0 .. MaxLives
      BY <1>1, <1>t, LayoutFacts DEF DlTypes
    <2> QED BY <1>1, <1>t, <2>1, <2>2 DEF RegTypes
  <1>3. FwTypes'
    BY <1>1, <1>2, <1>t DEF FwTypes, DlTypes, FlagTypes, MemTypes
  <1>4. ~ddma'.own /\ CopyNeedsReset'
    BY <1>1 DEF FwInv, CopyNeedsReset
  <1>5. dl \notin {"prep", "reset", "arm"} \cup Loading \cup Loaded
    BY <1>1 DEF FwInv, HeldInReset
  <1>6. CASE dl \in Preparing
    BY <1>1, <1>3, <1>4, <1>5, <1>6, PreparingPromise DEF FwInv, FromTheStart
  <1>7. CASE dl = "no"
    BY <1>1, <1>3, <1>4, <1>7, NoPromise
  <1>8. CASE dl = "out"
    BY <1>1, <1>3, <1>4, <1>8, NoPromise DEF FwInv, BootIsNew
  <1>9. CASE dl = "ready?"
    <2>1. Right(Len(Layout))
      BY <1>9 DEF FwInv, RightSoFar
    <2>2. \A c \in Chunks : mem[c] = <<life, c>>
      BY <2>1, LayoutFacts DEF Right
    <2>3. booted' = life
      BY <1>1, <2>2
    <2>4. BootIsNew'
      BY <1>1, <1>9, <2>3 DEF BootIsNew
    <2>5. Right(Len(Layout))'
      BY <2>1, <1>1 DEF Right
    <2> QED BY <1>1, <1>3, <1>4, <1>9, <2>4, <2>5, ReleasedPromise
  <1>10. dl \in Preparing \cup {"no", "out", "ready?"}
    BY <1>5, <1>t DEF DlTypes, FwSteps, Preparing, Loading, Staging, Loaded
  <1> QED BY <1>6, <1>7, <1>8, <1>9, <1>10

(* A step elsewhere.                                                       *)
LEMMA ElsewhereKeepsFw == ASSUME FwInv, UNCHANGED fwState PROVE FwInv'
  <1>1. UNCHANGED <<life, dl, chunk, error, power, cpu, mcufw, page, wire, ddma,
                    mem, booted>>
    BY DEF fwState
  <1>2. FwTypes'
    BY <1>1 DEF FwInv, FwTypes, DlTypes, FlagTypes, RegTypes, MemTypes
  <1>3. (HeldInReset /\ CopyNeedsReset /\ ChannelIdle /\ CopyIsChunk)'
    BY <1>1 DEF FwInv, HeldInReset, CopyNeedsReset, ChannelIdle, CopyIsChunk
  <1>4. (FromTheStart /\ NotBootedYet /\ BootIsNew)'
    BY <1>1 DEF FwInv, FromTheStart, NotBootedYet, BootIsNew
  <1>5. RightSoFar'
    BY <1>1 DEF FwInv, RightSoFar, SegStart, Right
  <1> QED BY <1>2, <1>3, <1>4, <1>5 DEF FwInv

(* Every step keeps the chain.                                             *)
LEMMA NextKeepsFw == ASSUME FwInv, [FwNext]_fwState PROVE FwInv'
  <1>1. CASE NewLife
    BY <1>1, NewLifeKeeps
  <1>2. ASSUME NEW usable \in BOOLEAN, download_firmware(usable), life' = life
        PROVE  FwInv'
    BY <1>2, CallKeeps
  <1>3. ASSUME NEW out \in Outcomes, Prepare(out) \/ Load(out) \/ Release(out),
               life' = life
        PROVE  FwInv'
    <2>1. CASE Prepare(out)
      BY <2>1, <1>3, PrepareKeeps
    <2>2. CASE Load(out)
      BY <2>2, <1>3, SegmentKeeps, PacketKeeps, StartDdmaKeeps, AckKeeps DEF Load
    <2>3. CASE Release(out)
      BY <2>3, <1>3, CloseKeeps, EnableKeeps DEF Release
    <2> QED BY <1>3, <2>1, <2>2, <2>3
  <1>4. ASSUME Wait \/ DownloadReturns("no"), life' = life PROVE FwInv'
    BY <1>4, CoexKeeps, PollStagingKeeps, AwaitCopyKeeps, ReadyKeeps, ReturnKeeps
    DEF Wait
  <1>5. ASSUME ChipActs, life' = life PROVE FwInv'
    BY <1>5, StoresKeeps, CopiesKeeps, BootsKeeps DEF ChipActs
  <1>6. CASE UNCHANGED fwState
    BY <1>6, ElsewhereKeepsFw
  <1> QED BY <1>1, <1>2, <1>3, <1>4, <1>5, <1>6 DEF FwNext

(* The chain holds in every state of the download, whatever the layout.    *)
THEOREM FwInvariance == FwSpec => []FwInv
  <1>1. FwInv /\ [FwNext]_fwState => FwInv'
    BY NextKeepsFw
  <1> QED BY InitFwInv, <1>1, PTL DEF FwSpec

(* A download that ends without error has booted this life's image.        *)
THEOREM ImageIsThisLifes == FwSpec => []ReadyMeansImage
  <1>1. FwInv => ReadyMeansImage
    BY DEF FwInv, BootIsNew, ReadyMeansImage
  <1> QED BY FwInvariance, <1>1, PTL

(* A step that writes chip memory finds the CPU in reset, or is the loss   *)
(* of power.                                                               *)
LEMMA MemoryStep ==
    ASSUME FwInv, [FwNext]_fwState
    PROVE  mem' # mem => ~cpu \/ power' = "off"
  <1>1. \/ mem' = mem
        \/ ChipCopies
        \/ power' = "off"
    BY DEF FwNext, NewLife, download_firmware, Prepare, mac_currently_on,
       mac_power_off, mac_power_up_once, wcpu_disable, dlfw_prep_chip,
       reset_platform, Arm, Load, SegmentBegin, StagePage, SendPacket, StartDdma,
       segment_checksum_ack, Release, CheckSums, CloseWindow, wcpu_enable, Wait,
       CoexLock, CoexUnlock, CoexSends, AwaitPage, AwaitIdle, AwaitCopy,
       AwaitReady, DownloadReturns, ChipActs, ChipStores, ChipBoots, chipVars,
       fwState
  <1>2. ChipCopies => ~cpu
    BY DEF ChipCopies, FwInv, CopyNeedsReset
  <1> QED BY <1>1, <1>2

(* Memory is written only under reset, also what an earlier life left to   *)
(* copy.                                                                   *)
THEOREM MemoryIsWrittenInReset == FwSpec => WrittenInReset
  <1>1. FwInv /\ [FwNext]_fwState => [mem' # mem => ~cpu \/ power' = "off"]_fwVars
    BY MemoryStep
  <1> QED BY FwInvariance, <1>1, PTL DEF FwSpec, WrittenInReset
=============================================================================
