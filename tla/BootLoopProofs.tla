--------------------------- MODULE BootLoopProofs ---------------------------
(***************************************************************************)
(* Proofs about the loop of the timed interpreter, for every geometry of   *)
(* the frame, every set of register writes and every cost of an access     *)
(* under which no instruction is as long as a frame: its types, that a     *)
(* barrier stops the clock, and that an NMI is served before the next      *)
(* instruction and the next VBlank.                                        *)
(***************************************************************************)
EXTENDS MCBootLoop, SnesTimingProofs

-----------------------------------------------------------------------------
(* Types. *)

(* An instruction in progress has fetched its opcode. *)
BootInv == BootTypeOK /\ (phase = "instruction" => accesses # 0)

LEMMA CostIsPositive ==
  ASSUME NEW n \in Nat, n # 0
  PROVE  n * AccessDots \in Nat /\ n * AccessDots # 0
  BY CpuAssumption

(* Paying leaves the loop in the advance call exactly if time is left. *)
LEMMA PayType ==
  ASSUME TimingTypeOK, NEW dots \in Nat, dots # 0, Pay(dots)
  PROVE  /\ credit' \in Nat /\ phase' \in Phases /\ UNCHANGED <<h, v, barrier>>
         /\ phase' # "instruction"
         /\ credit' # 0 => phase' = "advance"
         /\ phase' = "advance" => credit' # 0 /\ barrier' = "none"
         /\ credit' <= dots
  BY DEF Pay, Phases

LEMMA LoopKeepsInv ==
  ASSUME BootInv, Loop
  PROVE  BootInv'
  <1> USE CpuAssumption DEF BootInv, BootTypeOK
  <1>1. CASE LeaveLoop \/ WaitForever \/ Breakpoint
    <2>1. /\ UNCHANGED <<timingVars, leaving, accesses, waiting, irqDisable>>
          /\ phase = "loop" /\ phase' \in {"done", "asleep"}
      BY <1>1 DEF LeaveLoop, WaitForever, Breakpoint, AtTop
    <2> QED
      BY <2>1 DEF timingVars, beamVars, irqVars, joyVars, mathVars, TimingTypeOK, Phases
  <1>2. CASE Fetch
    <2>1. /\ UNCHANGED <<timingVars, waiting, irqDisable>> /\ accesses' = 1
          /\ phase = "loop" /\ phase' = "instruction" /\ leaving' \in BOOLEAN
      BY <1>2, Zenon DEF Fetch, AtTop
    <2> QED
      BY <2>1 DEF timingVars, beamVars, irqVars, joyVars, mathVars, TimingTypeOK, Phases
  <1>3. CASE ServiceInterrupt
    <2>1. EntryAccesses * AccessDots \in Nat /\ EntryAccesses * AccessDots # 0
      BY CostIsPositive
    <2>2. Pay(EntryAccesses * AccessDots)
      BY <1>3 DEF ServiceInterrupt
    <2>3. /\ waiting' \in BOOLEAN /\ irqDisable' \in BOOLEAN /\ nmiPending' \in BOOLEAN
          /\ UNCHANGED <<nmiEnable, irqMode, hTime, vTime, nmiFlag, timeup>>
          /\ UNCHANGED <<joyVars, mathVars, leaving, accesses>>
      BY <1>3, Zenon DEF ServiceInterrupt, TakeNmi, irqVars, TimingTypeOK
    <2> QED
      BY <2>1, <2>2, <2>3, PayType DEF joyVars, mathVars, TimingTypeOK
  <1>4. CASE WaitLine
    <2>1. LineDots \in Nat /\ LineDots # 0
      BY GeometryAssumption
    <2>2. Pay(LineDots) /\ UNCHANGED <<irqVars, joyVars, mathVars, leaving, accesses, waiting,
                                      irqDisable>>
      BY <1>4 DEF WaitLine
    <2> QED
      BY <2>1, <2>2, PayType DEF irqVars, joyVars, mathVars, TimingTypeOK
  <1> QED
    BY <1>1, <1>2, <1>3, <1>4 DEF Loop

LEMMA InstructionKeepsInv ==
  ASSUME BootInv, Instruction
  PROVE  BootInv'
  <1> USE CpuAssumption DEF BootInv, BootTypeOK
  <1>1. CASE RegisterAccess
    <2>1. Register /\ phase = "instruction" /\ phase' = phase /\ accesses' = accesses + 1
          /\ accesses < MaxAccesses /\ UNCHANGED <<leaving, waiting, irqDisable>>
      BY <1>1 DEF RegisterAccess, InInstruction
    <2>2. credit' = credit
      BY <2>1
      DEF Register, beamVars, WriteNmitimen, WriteHTime, WriteVTime, ReadNmiFlag, ReadTimeup,
          WriteStrobe, ReadPad, WriteMultiplicand, WriteDividend, WriteMultiplier, WriteDivisor,
          StartMath, UnsupportedAccess
    <2>3. TimingTypeOK'
      BY <2>1, RegisterTypeOK
    <2> QED
      BY <2>1, <2>2, <2>3
  <1>2. CASE MemoryAccess
    BY <1>2
    DEF MemoryAccess, InInstruction, timingVars, beamVars, irqVars, joyVars, mathVars, TimingTypeOK
  <1>3. CASE Retire \/ RetireWai \/ RetireStop
    <2>1. accesses * AccessDots \in Nat /\ accesses * AccessDots # 0
      <3>1. accesses \in Nat /\ accesses # 0
        BY <1>3 DEF Retire, RetireWai, RetireStop
      <3> QED
        BY <3>1, CostIsPositive
    <2>2. Pay(accesses * AccessDots) /\ accesses' = 0 /\ UNCHANGED <<irqVars, joyVars, mathVars>>
      BY <1>3 DEF Retire, RetireWai, RetireStop, Settle
    <2>3. waiting' \in BOOLEAN /\ irqDisable' \in BOOLEAN /\ leaving' \in BOOLEAN
      BY <1>3, Zenon DEF Retire, RetireWai, RetireStop
    <2> QED
      BY <2>1, <2>2, <2>3, PayType DEF irqVars, joyVars, mathVars, TimingTypeOK
  <1> QED
    BY <1>1, <1>2, <1>3 DEF Instruction

LEMMA BootStepInv ==
  ASSUME BootInv, [BootNext]_bootVars
  PROVE  BootInv'
  <1>1. CASE AdvanceSegment
    <2>1. PICK hdmaStops \in BOOLEAN : Segment(hdmaStops)
      BY <1>1 DEF AdvanceSegment
    <2>2. TimingTypeOK'
      BY <2>1, SegmentTypeOK DEF BootInv, BootTypeOK
    <2>3. credit' # 0 => barrier' = "none"
      BY <2>1 DEF Segment, CreditLeft
    <2> QED
      BY <1>1, <2>2, <2>3 DEF AdvanceSegment, BootInv, BootTypeOK, Phases
  <1>2. CASE UNCHANGED bootVars
    BY <1>2
    DEF bootVars, cpuVars, timingVars, beamVars, irqVars, joyVars, mathVars, BootInv, BootTypeOK,
        TimingTypeOK
  <1> QED
    BY <1>1, <1>2, LoopKeepsInv, InstructionKeepsInv DEF BootNext

LEMMA BootInitInv == BootInit => BootInv
  <1> SUFFICES ASSUME BootInit PROVE BootInv
    OBVIOUS
  <1>1. leaving \in BOOLEAN /\ waiting \in BOOLEAN /\ irqDisable \in BOOLEAN
    BY Zenon DEF BootInit
  <1>2. credit = 0 /\ phase = "loop" /\ accesses = 0
    BY DEF BootInit, TimingInit
  <1> QED
    BY <1>1, <1>2, InitTypeOK, CpuAssumption DEF BootInit, BootInv, BootTypeOK, Phases

(* The loop's state is well formed, and it is inside an advance call       *)
(* exactly while that call has time left and has met no barrier.           *)
THEOREM BootTypeInvariant == BootSpec => []BootTypeOK
  <1>1. BootInv /\ [BootNext]_bootVars => BootInv'
    BY BootStepInv
  <1>2. BootInv => BootTypeOK
    BY DEF BootInv
  <1> QED
    BY <1>1, <1>2, BootInitInv, PTL DEF BootSpec

(* From the access that meets a barrier on, no dot is run. *)
THEOREM BarrierStopsClock == BootSpec => BarrierFreezesTime
  <1>1. BootInv /\ [BootNext]_bootVars
          => [barrier # "none" => UNCHANGED <<h, v, autojoy>>]_bootVars
    <2> SUFFICES ASSUME BootInv, BootNext, barrier # "none"
                 PROVE  UNCHANGED <<h, v, autojoy>>
      OBVIOUS
    <2>1. ~AdvanceSegment
      BY DEF AdvanceSegment, BootInv, BootTypeOK
    <2>2. CASE RegisterAccess
      BY <2>2, PollUntouched DEF RegisterAccess
    <2>3. CASE ~RegisterAccess
      BY <2>1, <2>3
      DEF BootNext, Loop, Instruction, LeaveLoop, ServiceInterrupt, WaitLine, WaitForever, Fetch,
          Breakpoint, MemoryAccess, Retire, RetireWai, RetireStop, Settle, Pay, timingVars,
          beamVars, joyVars
    <2> QED
      BY <2>2, <2>3
  <1>2. BootInv /\ [BootNext]_bootVars => BootInv'
    BY BootStepInv
  <1> QED
    BY <1>1, <1>2, BootInitInv, PTL DEF BootSpec, BarrierFreezesTime

-----------------------------------------------------------------------------
(* NMI. *)

(* The dots since the VBlank line began. *)
LinesSinceVBlank == IF v >= VBlankLine THEN v - VBlankLine ELSE v + FrameLines - VBlankLine
SinceVBlank == LinesSinceVBlank * LineDots + h

(* No call has a frame left to run, and while an NMI is owed it is         *)
(* pending, and what is left of the call ends before the next VBlank.      *)
NmiOnTime ==
  /\ credit < FrameLength
  /\ nmiOwed => /\ nmiPending /\ phase # "instruction"
                /\ SinceVBlank + credit < FrameLength

LEMMA FrameFacts ==
  /\ FrameLength \in Nat /\ LineDots < FrameLength /\ EntryAccesses * AccessDots < FrameLength
  /\ \A n \in 0 .. MaxAccesses : n * AccessDots < FrameLength
  <1> USE GeometryAssumption, CpuAssumption
  <1>1. /\ FrameLines * LineDots \in Nat /\ 2 * LineDots <= FrameLines * LineDots
    BY TimesOrder
  <1>2. ASSUME NEW n \in 0 .. MaxAccesses PROVE n * AccessDots < FrameLength
    <2>1. n * AccessDots <= MaxAccesses * AccessDots /\ n * AccessDots \in Nat
          /\ MaxAccesses * AccessDots \in Nat
      BY TimesOrder
    <2> QED
      BY <1>1, <2>1, ShortInstructionsAssumption DEF ShortInstructions, FrameLength
  <1> QED
    BY <1>1, <1>2, ShortInstructionsAssumption DEF ShortInstructions, FrameLength

(* A step that ends no line, or any line but the one before VBlank, moves  *)
(* the beam on by its dots; the one before VBlank ends the frame.          *)
LEMMA SegmentRunsOn ==
  ASSUME TimingTypeOK, credit # 0, AdvanceBeam
  PROVE  /\ SinceVBlank \in Nat /\ SinceVBlank' \in Nat
         /\ VBlankBegins => SinceVBlank' = 0 /\ SinceVBlank + StepDots = FrameLength
         /\ ~VBlankBegins => SinceVBlank' = SinceVBlank + StepDots
  <1>1. /\ LineDots \in Nat \ {0} /\ FrameLines \in Nat \ {0} /\ VBlankLine \in 1 .. FrameLines - 1
        /\ h \in 0 .. LineDots - 1 /\ v \in 0 .. FrameLines - 1 /\ StepDots \in 1 .. LineDots
        /\ NewH = h + StepDots /\ NewH \in 1 .. LineDots
    BY StepBounds, GeometryAssumption DEF TimingTypeOK, NewH
  <1> DEFINE lines == LinesSinceVBlank
  <1>2. lines \in 0 .. FrameLines - 1
    BY <1>1 DEF LinesSinceVBlank
  <1>3. lines * LineDots \in Nat /\ (lines + 1) * LineDots = lines * LineDots + LineDots
    BY <1>1, <1>2
  <1>4. CASE ~LineEnds
    <2>1. h' = h + StepDots /\ v' = v /\ ~VBlankBegins
      BY <1>1, <1>4 DEF AdvanceBeam, VBlankBegins
    <2>2. LinesSinceVBlank' = lines
      BY <2>1 DEF LinesSinceVBlank
    <2> HIDE DEF lines
    <2>3. SinceVBlank = lines * LineDots + h /\ SinceVBlank' = lines * LineDots + h'
      BY <2>2 DEF SinceVBlank, lines
    <2> QED
      BY <1>1, <1>3, <2>1, <2>3
  <1>5. CASE LineEnds
    <2>1. h' = 0 /\ v' = NextLine /\ h + StepDots = LineDots
      BY <1>1, <1>5 DEF AdvanceBeam, LineEnds
    <2>2. VBlankBegins => lines = FrameLines - 1 /\ LinesSinceVBlank' = 0
      BY <1>1, <2>1 DEF VBlankBegins, NextLine, LinesSinceVBlank
    <2>3. ~VBlankBegins => LinesSinceVBlank' = lines + 1
      BY <1>1, <1>5, <2>1 DEF VBlankBegins, NextLine, LinesSinceVBlank
    <2> HIDE DEF lines
    <2>4. SinceVBlank = lines * LineDots + h /\ SinceVBlank' = LinesSinceVBlank' * LineDots + h'
      BY DEF SinceVBlank, lines
    <2>5. VBlankBegins => (lines + 1) * LineDots = FrameLength
      <3>1. VBlankBegins => lines + 1 = FrameLines
        BY <1>1, <1>2, <2>2
      <3> QED
        BY <3>1 DEF FrameLength
    <2>6. CASE VBlankBegins
      <3>1. SinceVBlank' = 0
        BY <1>1, <2>1, <2>2, <2>4, <2>6
      <3>2. SinceVBlank + StepDots = FrameLength
        BY <1>1, <1>3, <2>1, <2>4, <2>5, <2>6
      <3> QED
        BY <1>1, <1>3, <2>4, <2>6, <3>1, <3>2
    <2>7. CASE ~VBlankBegins
      <3>1. SinceVBlank' = lines * LineDots + LineDots
        BY <1>1, <1>3, <2>1, <2>3, <2>4, <2>7
      <3> QED
        BY <1>1, <1>3, <2>1, <2>4, <2>7, <3>1
    <2> QED
      BY <2>6, <2>7
  <1> QED
    BY <1>4, <1>5

LEMMA RunsOutInTime ==
  ASSUME NEW since \in Nat, NEW left \in Nat, NEW step \in Nat, NEW rest \in Nat,
         NEW frame \in Nat, rest <= left - step
  PROVE  /\ since + left < frame => (since + step) + rest < frame
         /\ rest < frame => 0 + rest < frame
  OBVIOUS

LEMMA SegmentOnTime ==
  ASSUME BootInv, NmiOnTime, MCNext, AdvanceSegment
  PROVE  NmiOnTime' /\ (VBlankBegins => ~nmiOwed)
  <1>1. PICK hdmaStops \in BOOLEAN : Segment(hdmaStops)
    BY DEF AdvanceSegment
  <1>2. /\ TimingTypeOK /\ credit # 0 /\ credit \in Nat /\ AdvanceBeam /\ StepDots \in 1 .. LineDots
        /\ StepDots <= credit /\ LineDots \in Nat /\ FrameLength \in Nat
        /\ phase' # "instruction"
    BY <1>1, StepBounds, FrameFacts, GeometryAssumption
    DEF Segment, BootInv, BootTypeOK, TimingTypeOK, AdvanceSegment
  <1>3. /\ credit' \in 0 .. credit - StepDots /\ credit < FrameLength
        /\ nmiOwed => SinceVBlank + credit < FrameLength
    BY <1>1, <1>2 DEF Segment, CreditLeft, NmiOnTime
  <1>4. /\ SinceVBlank \in Nat /\ SinceVBlank' \in Nat
        /\ VBlankBegins => SinceVBlank' = 0 /\ SinceVBlank + StepDots = FrameLength
        /\ ~VBlankBegins => SinceVBlank' = SinceVBlank + StepDots
    BY <1>2, SegmentRunsOn
  <1>5. VBlankBegins => ~nmiOwed
    BY <1>2, <1>4 DEF NmiOnTime
  <1>6. nmiOwed' => nmiPending'
    <2>1. CASE VBlankBegins
      BY <1>1, <2>1 DEF MCNext, VBlankStep, Segment, AdvanceInterrupts
    <2>2. CASE ~VBlankBegins
      BY <1>1, <2>2 DEF MCNext, VBlankStep, Segment, AdvanceInterrupts, NmiOnTime
    <2> QED
      BY <2>1, <2>2
  <1>7. nmiOwed' => SinceVBlank' + credit' < FrameLength
    <2>0. /\ credit' \in Nat /\ credit' < FrameLength /\ credit' <= credit - StepDots
          /\ credit \in Nat /\ StepDots \in Nat /\ FrameLength \in Nat
      BY <1>2, <1>3
    <2>1. CASE VBlankBegins
      <3>1. SinceVBlank' = 0
        BY <1>4, <2>1
      <3> QED
        BY <2>0, <3>1, RunsOutInTime, Zenon
    <2>2. CASE ~VBlankBegins
      <3> SUFFICES ASSUME nmiOwed' PROVE SinceVBlank' + credit' < FrameLength
        OBVIOUS
      <3>1. nmiOwed
        BY <2>2 DEF MCNext, VBlankStep
      <3>2. SinceVBlank' = SinceVBlank + StepDots /\ SinceVBlank + credit < FrameLength
        BY <1>3, <1>4, <2>2, <3>1
      <3>3. SinceVBlank \in Nat
        BY <1>4
      <3> QED
        BY <2>0, <3>2, <3>3, RunsOutInTime, Zenon
    <2> QED
      BY <2>1, <2>2
  <1>8. credit' < FrameLength
    BY <1>2, <1>3 DEF NmiOnTime
  <1>9. FrameLength' = FrameLength
    BY DEF FrameLength
  <1> QED
    BY <1>2, <1>5, <1>6, <1>7, <1>8, <1>9 DEF NmiOnTime

(* A step that runs no dot: it takes the NMI, pays for what takes no frame *)
(* while none is owed, or leaves credit and beam alone.                    *)
LEMMA PaidOnTime ==
  ASSUME BootInv, NmiOnTime, NEW dots \in Nat, dots < FrameLength, Pay(dots), ~nmiOwed'
  PROVE  NmiOnTime'
  <1>1. credit' < FrameLength
    BY FrameFacts DEF Pay
  <1> QED
    BY <1>1 DEF NmiOnTime, FrameLength

LEMMA StillOnTime ==
  ASSUME NmiOnTime, UNCHANGED <<h, v, credit>>, nmiOwed' => nmiOwed /\ nmiPending',
         nmiOwed' => phase' # "instruction"
  PROVE  NmiOnTime'
  BY DEF NmiOnTime, FrameLength, SinceVBlank, LinesSinceVBlank

LEMMA OthersOnTime ==
  ASSUME BootInv, NmiOnTime, MCNext, ~AdvanceSegment
  PROVE  NmiOnTime'
  <1>0. /\ nmiOwed' = (nmiOwed /\ ~(ServiceInterrupt /\ nmiPending))
        /\ nmiOwed => nmiPending /\ phase # "instruction"
    BY DEF MCNext, VBlankStep, NmiOnTime
  <1>1. CASE ServiceInterrupt
    <2>1. Pay(EntryAccesses * AccessDots) /\ EntryAccesses * AccessDots \in Nat
      BY <1>1, CpuAssumption DEF ServiceInterrupt
    <2> QED
      BY <1>0, <1>1, <2>1, FrameFacts, PaidOnTime
  <1>2. CASE WaitLine
    <2>1. Pay(LineDots) /\ ~nmiPending /\ LineDots \in Nat
      BY <1>2, GeometryAssumption DEF WaitLine, InterruptReady
    <2> QED
      BY <1>0, <2>1, FrameFacts, PaidOnTime
  <1>3. CASE Retire \/ RetireWai \/ RetireStop
    <2>1. phase = "instruction" /\ Pay(accesses * AccessDots)
      BY <1>3 DEF Retire, RetireWai, RetireStop, Settle
    <2>2. accesses \in 0 .. MaxAccesses /\ accesses * AccessDots \in Nat
      BY CpuAssumption DEF BootInv, BootTypeOK
    <2> QED
      BY <1>0, <2>1, <2>2, FrameFacts, PaidOnTime
  <1>4. CASE Fetch
    <2>1. UNCHANGED <<h, v, credit>> /\ ~nmiPending
      BY <1>4 DEF Fetch, InterruptReady, timingVars, beamVars
    <2> QED
      BY <1>0, <2>1, StillOnTime
  <1>5. CASE LeaveLoop \/ WaitForever \/ Breakpoint
    <2>1. UNCHANGED <<h, v, credit, nmiPending>> /\ phase' # "instruction"
      BY <1>5 DEF LeaveLoop, WaitForever, Breakpoint, timingVars, beamVars, irqVars
    <2> QED
      BY <1>0, <2>1, StillOnTime
  <1>6. CASE RegisterAccess \/ MemoryAccess
    <2>1. phase = "instruction" /\ UNCHANGED <<h, v, credit>>
      BY <1>6
      DEF RegisterAccess, MemoryAccess, InInstruction, timingVars, beamVars, Register,
          WriteNmitimen, WriteHTime, WriteVTime, ReadNmiFlag, ReadTimeup, WriteStrobe, ReadPad,
          WriteMultiplicand, WriteDividend, WriteMultiplier, WriteDivisor, StartMath,
          UnsupportedAccess
    <2> QED
      BY <1>0, <2>1, StillOnTime
  <1> QED
    BY <1>1, <1>2, <1>3, <1>4, <1>5, <1>6 DEF MCNext, BootNext, Loop, Instruction

(* An NMI raised by a VBlank is entered before any instruction starts and  *)
(* before another VBlank, however interrupts, waits and instructions fall. *)
THEOREM NmiIsServedInTime == MCSpec => NmiServedInTime
  <1>1. MCInit => BootInv /\ NmiOnTime
    <2>1. MCInit => credit = 0 /\ ~nmiOwed
      BY DEF MCInit, BootInit, TimingInit
    <2>2. 0 < FrameLength
      BY FrameFacts, GeometryAssumption
    <2> QED
      BY <2>1, <2>2, BootInitInv DEF MCInit, NmiOnTime
  <1>2. BootInv /\ [MCNext]_mcVars => BootInv'
    BY BootStepInv DEF MCNext, mcVars
  <1>3. BootInv /\ NmiOnTime /\ [MCNext]_mcVars => NmiOnTime'
    <2>1. NmiOnTime /\ UNCHANGED mcVars => NmiOnTime'
      BY StillOnTime DEF mcVars, bootVars, cpuVars, timingVars, beamVars, irqVars, NmiOnTime
    <2> QED
      BY <2>1, SegmentOnTime, OthersOnTime
  <1>4. BootInv /\ NmiOnTime /\ [MCNext]_mcVars
          => [NmiBeforeNextInstruction' /\ (VBlankStep => ~nmiOwed)]_mcVars
    <2> SUFFICES ASSUME BootInv, NmiOnTime, MCNext
                 PROVE  NmiBeforeNextInstruction' /\ (VBlankStep => ~nmiOwed)
      OBVIOUS
    <2>1. NmiBeforeNextInstruction'
      BY SegmentOnTime, OthersOnTime DEF NmiOnTime, NmiBeforeNextInstruction
    <2> QED
      BY <2>1, SegmentOnTime DEF VBlankStep
  <1> QED
    BY <1>1, <1>2, <1>3, <1>4, PTL DEF MCSpec, NmiServedInTime
=============================================================================
