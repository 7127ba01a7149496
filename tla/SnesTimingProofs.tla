-------------------------- MODULE SnesTimingProofs --------------------------
(***************************************************************************)
(* Proofs about SnesTiming for every geometry of the frame, every delay,   *)
(* every set of ports, buttons and operands: the type invariant, and from  *)
(* it that the automatic poll keeps step with the beam, that a high strobe *)
(* keeps the shift registers on the controllers, and that an idle          *)
(* arithmetic unit shows the result of the operation last started; and     *)
(* that the scheduler implements the frame clock.                          *)
(***************************************************************************)
EXTENDS SnesTiming, TLAPS

-----------------------------------------------------------------------------
(* One turn of the advance loop. *)

(* A turn never runs past the line's end nor past what the call asked for, *)
(* it always makes progress, and it uses the call up or ends the line.     *)
LEMMA StepBounds ==
  ASSUME TimingTypeOK, credit # 0
  PROVE  /\ StepDots \in 1 .. LineDots
         /\ StepDots <= credit
         /\ NewH \in 1 .. LineDots
         /\ LineEnds \/ StepDots = credit
  BY GeometryAssumption DEF TimingTypeOK, StepDots, NewH, LineEnds

(* The line after a line of the frame is a line of the frame. *)
LEMMA NextLineInFrame ==
  ASSUME TimingTypeOK
  PROVE  NextLine \in 0 .. FrameLines - 1
  BY GeometryAssumption DEF TimingTypeOK, NextLine

(* The results of an operation on naturals are naturals. *)
LEMMA ResultsAreNatural ==
  ASSUME NEW op \in MathOps
  PROVE  ResultOf(op) \in Nat /\ Quotient(op) \in Nat
  <1>1. op.a \in Nat /\ op.b \in Nat
    BY DEF MathOps
  <1>2. op.a * op.b \in Nat
    BY <1>1
  <1>3. CASE op.b = 0
    BY <1>1, <1>2, <1>3, InputAssumption DEF ResultOf, Quotient, Remainder
  <1>4. CASE op.b # 0
    <2>1. op.a \div op.b \in Nat /\ op.a % op.b \in Nat
      BY <1>1, <1>4
    <2> QED
      BY <1>2, <1>4, <2>1 DEF ResultOf, Quotient, Remainder
  <1> QED
    BY <1>3, <1>4

-----------------------------------------------------------------------------
(* The type invariant. *)

LEMMA InitTypeOK == TimingInit => TimingTypeOK
  <1> SUFFICES ASSUME TimingInit PROVE TimingTypeOK
    OBVIOUS
  <1>1. Latch(NoButtons) \in [held : Words, shifted : 0 .. PadBits]
    BY InputAssumption DEF Latch, Words
  <1>2. /\ controllers \in [Ports -> Words]
        /\ joyResult \in [Ports -> Words]
        /\ shift \in [Ports -> [held : Words, shifted : 0 .. PadBits]]
    BY <1>1 DEF TimingInit, Words
  <1>3. mathOp \in MathOps
    BY DEF TimingInit, MathOps
  <1>4. /\ h \in 0 .. LineDots - 1 /\ v \in 0 .. FrameLines - 1
        /\ autojoy \in 0 .. AutojoyDots
    BY GeometryAssumption, DelayAssumption DEF TimingInit
  <1> QED
    BY <1>2, <1>3, <1>4 DEF TimingInit, TimingTypeOK, Barriers, IrqModes

LEMMA SegmentTypeOK ==
  ASSUME TimingTypeOK, NEW hdmaStops \in BOOLEAN, Segment(hdmaStops)
  PROVE  TimingTypeOK'
  <1>1. credit # 0
    BY DEF Segment
  <1>2. h' \in 0 .. LineDots - 1 /\ v' \in 0 .. FrameLines - 1
    <2>1. NewH \in 1 .. LineDots /\ NextLine \in 0 .. FrameLines - 1
      BY <1>1, StepBounds, NextLineInFrame
    <2>2. LineDots \in Nat \ {0} /\ v \in 0 .. FrameLines - 1
      BY GeometryAssumption DEF TimingTypeOK
    <2> QED
      BY <2>1, <2>2 DEF Segment, AdvanceBeam, LineEnds
  <1>3. credit' \in Nat /\ barrier' \in Barriers
    BY <1>1, StepBounds DEF Segment, CreditLeft, TimingTypeOK, Barriers
  <1>4. /\ nmiEnable' \in BOOLEAN /\ irqMode' \in IrqModes
        /\ hTime' \in Nat /\ vTime' \in Nat
        /\ nmiFlag' \in BOOLEAN /\ nmiPending' \in BOOLEAN
        /\ timeup' \in BOOLEAN
    BY DEF Segment, AdvanceInterrupts, TimingTypeOK
  <1>5. /\ joyEnable' \in BOOLEAN /\ strobe' \in BOOLEAN
        /\ controllers' \in [Ports -> Words]
        /\ joyResult' \in [Ports -> Words]
    BY DEF Segment, AdvanceAutojoy, TimingTypeOK
  <1>6. shift' \in [Ports -> [held : Words, shifted : 0 .. PadBits]]
    BY InputAssumption DEF Segment, AdvanceAutojoy, TimingTypeOK, Latch
  <1>7. autojoy' \in 0 .. AutojoyDots
    BY <1>1, StepBounds, DelayAssumption
    DEF Segment, AdvanceAutojoy, AutojoyLeft, TimingTypeOK
  <1>8. mathLeft' \in Nat
    BY <1>1, StepBounds DEF Segment, AdvanceMath, TimingTypeOK
  <1>9. /\ multiplicand' \in Nat /\ dividend' \in Nat /\ mathOp' \in MathOps
        /\ quotient' \in Nat /\ product' \in Nat
    BY ResultsAreNatural DEF Segment, AdvanceMath, TimingTypeOK
  <1> QED
    BY <1>2, <1>3, <1>4, <1>5, <1>6, <1>7, <1>8, <1>9 DEF TimingTypeOK

LEMMA RegisterTypeOK ==
  ASSUME TimingTypeOK, Register
  PROVE  TimingTypeOK'
  <1> USE InputAssumption
  <1>1. ASSUME NEW w \in NmitimenWrites, WriteNmitimen(w.nmi, w.mode, w.joy)
        PROVE  TimingTypeOK'
    <2>1. w.nmi \in BOOLEAN /\ w.mode \in IrqModes /\ w.joy \in BOOLEAN
      BY DEF Nmitimens
    <2> QED
      BY <1>1, <2>1
      DEF TimingTypeOK, WriteNmitimen, beamVars, mathVars
  <1>2. ASSUME NEW t \in HTimes, WriteHTime(t) PROVE TimingTypeOK'
    BY <1>2 DEF TimingTypeOK, WriteHTime, beamVars, joyVars, mathVars
  <1>3. ASSUME NEW t \in VTimes, WriteVTime(t) PROVE TimingTypeOK'
    BY <1>3 DEF TimingTypeOK, WriteVTime, beamVars, joyVars, mathVars
  <1>4. CASE ReadNmiFlag
    BY <1>4 DEF TimingTypeOK, ReadNmiFlag, beamVars, joyVars, mathVars
  <1>5. CASE ReadTimeup
    BY <1>5 DEF TimingTypeOK, ReadTimeup, beamVars, joyVars, mathVars
  <1>6. ASSUME NEW high \in BOOLEAN, WriteStrobe(high) PROVE TimingTypeOK'
    <2>1. shift' \in [Ports -> [held : Words, shifted : 0 .. PadBits]]
      BY <1>6 DEF TimingTypeOK, WriteStrobe, Latch
    <2> QED
      BY <1>6, <2>1 DEF TimingTypeOK, WriteStrobe, beamVars, irqVars, mathVars
  <1>7. ASSUME NEW p \in Ports, ReadPad(p) PROVE TimingTypeOK'
    <2>1. shift' \in [Ports -> [held : Words, shifted : 0 .. PadBits]]
      BY <1>7 DEF TimingTypeOK, ReadPad
    <2> QED
      BY <1>7, <2>1 DEF TimingTypeOK, ReadPad, beamVars, irqVars, mathVars
  <1>8. ASSUME NEW x \in Operands, WriteMultiplicand(x) PROVE TimingTypeOK'
    BY <1>8 DEF TimingTypeOK, WriteMultiplicand, beamVars, irqVars, joyVars
  <1>9. ASSUME NEW x \in Operands, WriteDividend(x) PROVE TimingTypeOK'
    BY <1>9 DEF TimingTypeOK, WriteDividend, beamVars, irqVars, joyVars
  <1>10. ASSUME NEW op \in MathOps, NEW dots \in Nat, StartMath(op, dots)
         PROVE  TimingTypeOK'
    BY <1>10 DEF TimingTypeOK, StartMath, beamVars, irqVars, joyVars
  <1>11. ASSUME NEW x \in Operands, WriteMultiplier(x) \/ WriteDivisor(x)
         PROVE  TimingTypeOK'
    <2>1. /\ [division |-> FALSE, a |-> multiplicand, b |-> x] \in MathOps
          /\ [division |-> TRUE, a |-> dividend, b |-> x] \in MathOps
      BY DEF MathOps, TimingTypeOK
    <2> QED
      BY <1>10, <1>11, <2>1, DelayAssumption DEF WriteMultiplier, WriteDivisor
  <1>12. CASE UnsupportedAccess
    BY <1>12
    DEF TimingTypeOK, UnsupportedAccess, Barriers, irqVars, joyVars, mathVars
  <1> QED
    BY <1>1, <1>2, <1>3, <1>4, <1>5, <1>6, <1>7, <1>8, <1>9, <1>11, <1>12
    DEF Register

LEMMA HostTypeOK ==
  ASSUME TimingTypeOK, Host
  PROVE  TimingTypeOK'
  <1>1. ASSUME NEW dots \in AdvanceAmounts, Advance(dots) PROVE TimingTypeOK'
    BY <1>1, InputAssumption
    DEF TimingTypeOK, Advance, irqVars, joyVars, mathVars
  <1>2. ASSUME NEW p \in Ports, NEW buttons \in Buttons,
               SetController(p, buttons)
        PROVE  TimingTypeOK'
    <2>1. controllers' \in [Ports -> Words]
      BY <1>2 DEF TimingTypeOK, SetController, Words
    <2>2. shift' \in [Ports -> [held : Words, shifted : 0 .. PadBits]]
      BY <1>2, InputAssumption DEF TimingTypeOK, SetController, Latch, Words
    <2> QED
      BY <1>2, <2>1, <2>2
      DEF TimingTypeOK, SetController, beamVars, irqVars, mathVars
  <1>3. CASE TakeNmi /\ UNCHANGED <<beamVars, joyVars, mathVars>>
    BY <1>3 DEF TimingTypeOK, TakeNmi, beamVars, joyVars, mathVars
  <1> QED
    BY <1>1, <1>2, <1>3 DEF Host

(* Every reachable state is well formed: the beam stays inside the frame,  *)
(* the delays inside their range, whatever the program writes and the host *)
(* asks for.                                                               *)
THEOREM TimingTypeInvariant == TimingSpec => []TimingTypeOK
  <1>1. TimingTypeOK /\ [TimingNext]_timingVars => TimingTypeOK'
    <2> SUFFICES ASSUME TimingTypeOK, [TimingNext]_timingVars
                 PROVE  TimingTypeOK'
      OBVIOUS
    <2>1. CASE UNCHANGED timingVars
      BY <2>1
      DEF TimingTypeOK, timingVars, beamVars, irqVars, joyVars, mathVars
    <2> QED
      BY <2>1, SegmentTypeOK, RegisterTypeOK, HostTypeOK DEF TimingNext
  <1> QED
    BY <1>1, InitTypeOK, PTL DEF TimingSpec

-----------------------------------------------------------------------------
(* The automatic poll and the beam. *)

LEMMA NextMultiple ==
  ASSUME NEW x \in Int, NEW n \in Int
  PROVE  (x + 1) * n = x * n + n
  OBVIOUS

(* Only a turn of the advance loop moves the beam or the poll. *)
LEMMA PollUntouched ==
  ASSUME Register \/ Host \/ UNCHANGED timingVars
  PROVE  UNCHANGED <<h, v, autojoy>>
  BY DEF Register, Host, timingVars, beamVars, joyVars, WriteNmitimen,
         WriteHTime, WriteVTime, ReadNmiFlag, ReadTimeup, WriteStrobe, ReadPad,
         SetController, WriteMultiplicand, WriteDividend, WriteMultiplier,
         WriteDivisor, StartMath, UnsupportedAccess, Advance

LEMMA SegmentTracksBeam ==
  ASSUME TimingTypeOK, AutojoyTracksBeam,
         NEW hdmaStops \in BOOLEAN, Segment(hdmaStops)
  PROVE  AutojoyTracksBeam'
  <1>1. /\ AdvanceBeam /\ AdvanceAutojoy
        /\ StepDots \in 1 .. LineDots
        /\ h \in Nat /\ v \in Nat /\ autojoy \in Nat
        /\ LineDots \in Nat /\ FrameLines \in Nat /\ VBlankLine \in Nat
        /\ AutojoyDots \in Nat
    BY StepBounds, GeometryAssumption, DelayAssumption
    DEF Segment, TimingTypeOK
  <1>2. CASE VBlankBegins /\ joyEnable
    <2>1. autojoy' = AutojoyDots /\ v' = VBlankLine /\ h' = 0
      BY <1>1, <1>2 DEF VBlankBegins, AdvanceBeam, AdvanceAutojoy
    <2>2. (v' - VBlankLine) * LineDots = 0
      BY <1>1, <2>1
    <2> QED
      BY <1>1, <2>1, <2>2 DEF AutojoyTracksBeam
  <1>3. CASE ~(VBlankBegins /\ joyEnable)
    <2> SUFFICES ASSUME autojoy' # 0
                 PROVE  /\ v' >= VBlankLine
                        /\ autojoy' = AutojoyDots
                             - ((v' - VBlankLine) * LineDots + h')
      BY DEF AutojoyTracksBeam
    <2> DEFINE run == (v - VBlankLine) * LineDots
    <2>1. /\ autojoy > StepDots
          /\ autojoy' = autojoy - StepDots
      BY <1>1, <1>3 DEF AdvanceAutojoy, AutojoyLeft
    <2>2. /\ v >= VBlankLine
          /\ run \in Int
          /\ autojoy = AutojoyDots - (run + h)
      BY <1>1, <2>1 DEF AutojoyTracksBeam
    <2>3. CASE ~LineEnds
      <3>1. v' = v /\ h' = h + StepDots
        BY <1>1, <2>3 DEF AdvanceBeam, NewH
      <3> HIDE DEF run
      <3>2. autojoy' = AutojoyDots - (run + h')
        BY <1>1, <2>1, <2>2, <3>1
      <3> QED
        BY <2>2, <3>1, <3>2 DEF run
    <2>4. CASE LineEnds
      <3>1. v' = NextLine /\ h' = 0 /\ h + StepDots = LineDots
        BY <1>1, <2>4 DEF AdvanceBeam, LineEnds, NewH
      <3>2. (v + 1 - VBlankLine) * LineDots = run + LineDots
        BY <1>1, NextMultiple
      <3> HIDE DEF run
      <3>3. autojoy' = AutojoyDots - (run + LineDots)
        BY <1>1, <2>1, <2>2, <3>1
      <3>4. v + 1 # FrameLines
        <4> SUFFICES ASSUME v + 1 = FrameLines PROVE FALSE
          OBVIOUS
        <4> DEFINE lines == v + 1 - VBlankLine
        <4>1. /\ lines = FrameLines - VBlankLine
              /\ lines * LineDots = run + LineDots
          BY <1>1, <3>2
        <4> HIDE DEF lines
        <4>2. AutojoyDots <= run + LineDots
          BY <4>1, AutojoyFitsVBlank, Zenon
        <4> QED
          BY <1>1, <2>1, <2>2, <3>3, <4>2
      <3>5. v' = v + 1
        BY <3>1, <3>4 DEF NextLine
      <3> QED
        BY <1>1, <2>2, <3>1, <3>2, <3>3, <3>5
    <2> QED
      BY <2>3, <2>4
  <1> QED
    BY <1>2, <1>3

(* A poll in progress started at the VBlank line and has been charged      *)
(* exactly the dots the beam has run since, however the calls were cut.    *)
THEOREM AutojoyFollowsBeam == TimingSpec => []AutojoyTracksBeam
  <1>1. TimingInit => AutojoyTracksBeam
    BY DEF TimingInit, AutojoyTracksBeam
  <1>2. TimingTypeOK /\ AutojoyTracksBeam /\ [TimingNext]_timingVars
          => AutojoyTracksBeam'
    <2> SUFFICES ASSUME TimingTypeOK, AutojoyTracksBeam,
                        [TimingNext]_timingVars
                 PROVE  AutojoyTracksBeam'
      OBVIOUS
    <2>1. CASE Register \/ Host \/ UNCHANGED timingVars
      BY <2>1, PollUntouched DEF AutojoyTracksBeam
    <2> QED
      BY <2>1, SegmentTracksBeam DEF TimingNext
  <1> QED
    BY <1>1, <1>2, TimingTypeInvariant, PTL DEF TimingSpec

-----------------------------------------------------------------------------
(* The controller ports. *)

(* While the strobe is high the shift registers are the controllers,       *)
(* whichever of the host, the program and the VBlank poll touched them.    *)
THEOREM StrobeFollowsControllers == TimingSpec => []StrobeTracksControllers
  <1>1. TimingInit => StrobeTracksControllers
    BY DEF TimingInit, StrobeTracksControllers
  <1>2. TimingTypeOK /\ StrobeTracksControllers /\ [TimingNext]_timingVars
          => StrobeTracksControllers'
    <2> SUFFICES ASSUME TimingTypeOK, StrobeTracksControllers,
                        [TimingNext]_timingVars
                 PROVE  StrobeTracksControllers'
      OBVIOUS
    <2>1. ASSUME UNCHANGED <<shift, strobe, controllers>>
          PROVE  StrobeTracksControllers'
      BY <2>1 DEF StrobeTracksControllers
    <2>2. ASSUME NEW hdmaStops \in BOOLEAN, Segment(hdmaStops)
          PROVE  StrobeTracksControllers'
      BY <2>2
      DEF Segment, AdvanceAutojoy, StrobeTracksControllers, Latch
    <2>3. ASSUME NEW high \in BOOLEAN, WriteStrobe(high)
          PROVE  StrobeTracksControllers'
      BY <2>3 DEF WriteStrobe, StrobeTracksControllers, Latch
    <2>4. ASSUME NEW p \in Ports, ReadPad(p)
          PROVE  StrobeTracksControllers'
      BY <2>4 DEF ReadPad, StrobeTracksControllers
    <2>5. ASSUME NEW p \in Ports, NEW buttons \in Buttons,
                 SetController(p, buttons)
          PROVE  StrobeTracksControllers'
      BY <2>5
      DEF SetController, StrobeTracksControllers, TimingTypeOK, Latch
    <2>6. CASE UNCHANGED timingVars
      BY <2>1, <2>6 DEF timingVars, joyVars
    <2>7. CASE Register
      BY <2>1, <2>3, <2>4, <2>7
      DEF Register, joyVars, WriteNmitimen, WriteHTime, WriteVTime,
          ReadNmiFlag, ReadTimeup, WriteMultiplicand, WriteDividend,
          WriteMultiplier, WriteDivisor, StartMath, UnsupportedAccess
    <2>8. CASE Host
      BY <2>1, <2>5, <2>8 DEF Host, Advance, joyVars
    <2> QED
      BY <2>2, <2>6, <2>7, <2>8 DEF TimingNext
  <1> QED
    BY <1>1, <1>2, TimingTypeInvariant, PTL DEF TimingSpec

-----------------------------------------------------------------------------
(* The multiply/divide unit. *)

(* A step that leaves the unit alone, or only its operand registers. *)
LEMMA MathUntouched ==
  ASSUME MathResultsMatch, UNCHANGED <<mathOp, mathLeft, quotient, product>>
  PROVE  MathResultsMatch'
  BY DEF MathResultsMatch, ResultOf, Quotient, Remainder

LEMMA StartKeepsResults ==
  ASSUME NEW op, NEW dots \in Nat \ {0}, StartMath(op, dots)
  PROVE  /\ MathResultsMatch'
         /\ UNCHANGED <<quotient, product>>
  BY DEF StartMath, MathResultsMatch

LEMMA SegmentFinishesMath ==
  ASSUME TimingTypeOK, MathResultsMatch,
         NEW hdmaStops \in BOOLEAN, Segment(hdmaStops)
  PROVE  MathResultsMatch'
  <1>1. /\ AdvanceMath /\ StepDots \in 1 .. LineDots
        /\ LineDots \in Nat /\ mathLeft \in Nat
    BY StepBounds, GeometryAssumption DEF Segment, TimingTypeOK
  <1>2. ResultOf(mathOp)' = ResultOf(mathOp) /\ Quotient(mathOp)' = Quotient(mathOp)
    BY <1>1 DEF AdvanceMath, ResultOf, Quotient, Remainder
  <1>3. CASE MathEnds
    BY <1>1, <1>2, <1>3 DEF AdvanceMath, MathResultsMatch
  <1>4. CASE ~MathEnds
    BY <1>1, <1>2, <1>4 DEF AdvanceMath, MathEnds, MathResultsMatch
  <1> QED
    BY <1>3, <1>4

(* An idle unit shows the result of the operation last started, on the     *)
(* operands captured when it was started.                                  *)
THEOREM MathResultsCorrect == TimingSpec => []MathResultsMatch
  <1>1. TimingInit => MathResultsMatch
    BY DEF TimingInit, MathResultsMatch, ResultOf
  <1>2. TimingTypeOK /\ MathResultsMatch /\ [TimingNext]_timingVars
          => MathResultsMatch'
    <2> SUFFICES ASSUME TimingTypeOK, MathResultsMatch,
                        [TimingNext]_timingVars
                 PROVE  MathResultsMatch'
      OBVIOUS
    <2>1. CASE UNCHANGED timingVars
      BY <2>1, MathUntouched DEF timingVars, mathVars
    <2>2. CASE Register
      BY <2>2, MathUntouched, StartKeepsResults, DelayAssumption
      DEF Register, mathVars, WriteNmitimen, WriteHTime, WriteVTime,
          ReadNmiFlag, ReadTimeup, WriteStrobe, ReadPad, WriteMultiplicand,
          WriteDividend, WriteMultiplier, WriteDivisor, UnsupportedAccess
    <2>3. CASE Host
      BY <2>3, MathUntouched DEF Host, Advance, SetController, mathVars
    <2> QED
      BY <2>1, <2>2, <2>3, SegmentFinishesMath DEF TimingNext
  <1> QED
    BY <1>1, <1>2, TimingTypeInvariant, PTL DEF TimingSpec

(* The result registers change only in the turn that ends the operation.   *)
THEOREM MathIsAtomic == TimingSpec => MathStableWhileBusy
  <1>1. TimingTypeOK /\ [TimingNext]_timingVars
          => [<<quotient, product>>' # <<quotient, product>> =>
                mathLeft # 0 /\ mathLeft' = 0]_timingVars
    <2> SUFFICES ASSUME TimingTypeOK, TimingNext,
                        <<quotient, product>>' # <<quotient, product>>
                 PROVE  mathLeft # 0 /\ mathLeft' = 0
      OBVIOUS
    <2>1. ASSUME NEW hdmaStops \in BOOLEAN, Segment(hdmaStops)
          PROVE  mathLeft # 0 /\ mathLeft' = 0
      BY <2>1 DEF Segment, AdvanceMath, MathEnds
    <2>2. CASE Register
      BY <2>2
      DEF Register, mathVars, WriteNmitimen, WriteHTime, WriteVTime,
          ReadNmiFlag, ReadTimeup, WriteStrobe, ReadPad, WriteMultiplicand,
          WriteDividend, WriteMultiplier, WriteDivisor, StartMath,
          UnsupportedAccess
    <2>3. CASE Host
      BY <2>3 DEF Host, Advance, SetController, mathVars
    <2> QED
      BY <2>1, <2>2, <2>3 DEF TimingNext
  <1> QED
    BY <1>1, TimingTypeInvariant, PTL DEF TimingSpec, MathStableWhileBusy

-----------------------------------------------------------------------------
(* The frame clock: positions in the frame. *)

LEMMA TimesOrder ==
  ASSUME NEW a \in Nat, NEW b \in Nat, NEW n \in Nat, a <= b
  PROVE  a * n \in Nat /\ b * n \in Nat /\ a * n <= b * n
  <1>1. (b - a) \in Nat /\ (b - a) * n \in Nat
    OBVIOUS
  <1>2. (b - a) * n = b * n - a * n
    OBVIOUS
  <1>3. a * n \in Nat /\ b * n \in Nat
    OBVIOUS
  <1> QED
    BY <1>1, <1>2, <1>3

(* A position has one line and one dot. *)
LEMMA OnePosition ==
  ASSUME NEW l \in Nat, NEW m \in Nat, NEW r \in 0 .. LineDots - 1, NEW s \in 0 .. LineDots - 1,
         l * LineDots + r = m * LineDots + s
  PROVE  l = m /\ r = s
  <1>0. /\ LineDots \in Nat \ {0} /\ l * LineDots \in Nat /\ m * LineDots \in Nat
        /\ (l + 1) * LineDots = l * LineDots + LineDots
        /\ (m + 1) * LineDots = m * LineDots + LineDots
    BY GeometryAssumption
  <1>1. ~(l < m)
    <2>1. l < m => (l + 1) * LineDots <= m * LineDots
      BY <1>0, TimesOrder
    <2> QED
      BY <1>0, <2>1
  <1>2. ~(m < l)
    <2>1. m < l => (m + 1) * LineDots <= l * LineDots
      BY <1>0, TimesOrder
    <2> QED
      BY <1>0, <2>1
  <1>3. l = m
    BY <1>1, <1>2
  <1> QED
    BY <1>0, <1>3

LEMMA DotOfPosition ==
  ASSUME NEW p \in Nat, NEW n \in Nat \ {0}, NEW q \in Nat, NEW r \in 0 .. n - 1, p = q * n + r
  PROVE  p % n = r
  OBVIOUS

Position(l, r) == l * LineDots + r

(* A dot of a line of the frame is a position of the frame, and its dot is *)
(* what is left of it modulo a line.                                       *)
LEMMA PositionInFrame ==
  ASSUME NEW l \in 0 .. FrameLines - 1, NEW r \in 0 .. LineDots - 1
  PROVE  Position(l, r) \in 0 .. FrameLines * LineDots - 1 /\ Position(l, r) % LineDots = r
  <1>0. LineDots \in Nat \ {0} /\ FrameLines \in Nat \ {0} /\ l \in Nat /\ l * LineDots \in Nat
    BY GeometryAssumption
  <1>1. (l + 1) * LineDots = l * LineDots + LineDots
    BY <1>0
  <1>2. (l + 1) * LineDots <= FrameLines * LineDots
    BY <1>0, TimesOrder
  <1> DEFINE p == Position(l, r)
  <1>3. p \in Nat /\ p = l * LineDots + r
    BY <1>0 DEF Position
  <1>4. FrameLines * LineDots \in Nat
    BY <1>0
  <1>5. p \in 0 .. FrameLines * LineDots - 1
    BY <1>0, <1>1, <1>2, <1>3, <1>4
  <1> HIDE DEF p
  <1>6. p % LineDots = r
    BY <1>0, <1>3, DotOfPosition
  <1> QED
    BY <1>5, <1>6 DEF p

(* The timer's test at a dot of a line. *)
TimerAt(l, r) ==
  \/ irqMode = "h" /\ r = hTime
  \/ irqMode = "v" /\ l = vTime /\ r = 0
  \/ irqMode = "hv" /\ l = vTime /\ r = hTime

LEMMA ArmedPositions ==
  ASSUME TimingTypeOK, NEW l \in 0 .. FrameLines - 1, NEW r \in 0 .. LineDots - 1
  PROVE  Position(l, r) \in TimerPositions <=> TimerAt(l, r)
  <1>0. /\ LineDots \in Nat \ {0} /\ FrameLines \in Nat \ {0} /\ l \in Nat
        /\ hTime \in Nat /\ vTime \in Nat /\ irqMode \in {"off", "h", "v", "hv"}
    BY GeometryAssumption DEF TimingTypeOK, IrqModes
  <1>1. Position(l, r) \in 0 .. FrameLines * LineDots - 1 /\ Position(l, r) % LineDots = r
    BY PositionInFrame
  <1>2. Position(l, r) = vTime * LineDots <=> l = vTime /\ r = 0
    <2>1. vTime * LineDots = vTime * LineDots + 0 /\ 0 \in 0 .. LineDots - 1
      BY <1>0
    <2>2. l * LineDots + r = vTime * LineDots + 0 => l = vTime /\ r = 0
      BY <1>0, <2>1, OnePosition
    <2>3. vTime * LineDots \in Nat /\ l * LineDots \in Nat
      BY <1>0
    <2> QED
      BY <1>0, <2>1, <2>2, <2>3 DEF Position
  <1>3. hTime < LineDots /\ Position(l, r) = vTime * LineDots + hTime <=> l = vTime /\ r = hTime
    <2>1. ASSUME hTime < LineDots, Position(l, r) = vTime * LineDots + hTime
          PROVE  l = vTime /\ r = hTime
      <3>1. hTime \in 0 .. LineDots - 1
        BY <1>0, <2>1
      <3> QED
        BY <1>0, <2>1, <3>1, OnePosition DEF Position
    <2>2. ASSUME l = vTime, r = hTime
          PROVE  hTime < LineDots /\ Position(l, r) = vTime * LineDots + hTime
      BY <1>0, <2>2 DEF Position
    <2> QED
      BY <2>1, <2>2
  <1> DEFINE p == Position(l, r)
             Armed(q) == CASE irqMode = "off" -> FALSE
                           [] irqMode = "h"   -> q % LineDots = hTime
                           [] irqMode = "v"   -> q = vTime * LineDots
                           [] irqMode = "hv"  -> hTime < LineDots /\ q = vTime * LineDots + hTime
  <1>4. p \in TimerPositions <=> Armed(p)
    BY <1>1, Zenon DEF TimerPositions
  <1>5. CASE irqMode = "off"
    BY <1>4, <1>5 DEF TimerAt
  <1>6. CASE irqMode = "h"
    BY <1>1, <1>4, <1>6 DEF TimerAt
  <1>7. CASE irqMode = "v"
    BY <1>2, <1>4, <1>7 DEF TimerAt
  <1>8. CASE irqMode = "hv"
    BY <1>3, <1>4, <1>8 DEF TimerAt
  <1> QED
    BY <1>0, <1>5, <1>6, <1>7, <1>8

-----------------------------------------------------------------------------
(* The frame clock: steps. *)

FrameLength == FrameLines * LineDots

(* The i-th dot of a step: in this line, or the first of the next. *)
LEMMA DotReached ==
  ASSUME TimingTypeOK, credit # 0, NEW i \in 1 .. StepDots
  PROVE  (v * LineDots + h + i) % FrameLength
           = IF h + i < LineDots THEN Position(v, h + i) ELSE Position(NextLine, 0)
  <1>1. /\ LineDots \in Nat \ {0} /\ FrameLines \in Nat \ {0} /\ v \in 0 .. FrameLines - 1
        /\ h \in 0 .. LineDots - 1 /\ v \in Nat /\ v * LineDots \in Nat
        /\ StepDots \in 1 .. LineDots - h /\ i \in Nat /\ i <= LineDots - h
    BY StepBounds, GeometryAssumption DEF TimingTypeOK, NewH
  <1>2. FrameLength \in Nat \ {0}
    BY <1>1 DEF FrameLength
  <1>3. ASSUME NEW x \in 0 .. FrameLength - 1 PROVE x % FrameLength = x
    BY <1>2
  <1>4. CASE h + i < LineDots
    <2>1. h + i \in 0 .. LineDots - 1
      BY <1>1, <1>4
    <2>2. Position(v, h + i) \in 0 .. FrameLength - 1
      BY <1>1, <2>1, PositionInFrame DEF FrameLength
    <2>3. v * LineDots + h + i = Position(v, h + i)
      BY <1>1 DEF Position
    <2> QED
      BY <1>3, <1>4, <2>2, <2>3
  <1>5. CASE ~(h + i < LineDots)
    <2>1. h + i = LineDots /\ (v + 1) * LineDots = v * LineDots + LineDots
      BY <1>1, <1>5
    <2>2. v * LineDots + h + i = (v + 1) * LineDots
      BY <1>1, <2>1
    <2>3. CASE v + 1 = FrameLines
      <3>1. v * LineDots + h + i = FrameLength
        BY <2>2, <2>3 DEF FrameLength
      <3>2. FrameLength % FrameLength = 0
        BY <1>2, DotOfPosition
      <3>3. Position(NextLine, 0) = 0
        BY <1>1, <2>3 DEF Position, NextLine
      <3> QED
        BY <1>5, <3>1, <3>2, <3>3
    <2>4. CASE v + 1 # FrameLines
      <3>1. NextLine = v + 1 /\ v + 1 \in 0 .. FrameLines - 1 /\ 0 \in 0 .. LineDots - 1
        BY <1>1, <2>4 DEF NextLine
      <3>2. Position(v + 1, 0) \in 0 .. FrameLength - 1
        BY <3>1, PositionInFrame DEF FrameLength
      <3>3. Position(v + 1, 0) = (v + 1) * LineDots
        BY <1>1, <2>1 DEF Position
      <3> QED
        BY <1>3, <1>5, <2>2, <3>1, <3>2, <3>3
    <2> QED
      BY <2>3, <2>4
  <1> QED
    BY <1>4, <1>5

(* What a step passes: dots of this line, and the next line's first.       *)
LEMMA PassedPositions ==
  ASSUME TimingTypeOK, credit # 0, NEW q
  PROVE  q \in Clock!Passed(StepDots) <=>
           \/ \E r \in h + 1 .. NewH : r < LineDots /\ q = Position(v, r)
           \/ LineEnds /\ q = Position(NextLine, 0)
  <1>1. /\ LineDots \in Nat \ {0} /\ h \in 0 .. LineDots - 1 /\ StepDots \in 1 .. LineDots - h
        /\ NewH = h + StepDots
    BY StepBounds, GeometryAssumption DEF TimingTypeOK, NewH
  <1>2. q \in Clock!Passed(StepDots)
          <=> \E i \in 1 .. StepDots : q = (v * LineDots + h + i) % FrameLength
    BY Zenon DEF Clock!Passed, FrameLength
  <1>3. ASSUME NEW i \in 1 .. StepDots, q = (v * LineDots + h + i) % FrameLength
        PROVE  \/ \E r \in h + 1 .. NewH : r < LineDots /\ q = Position(v, r)
               \/ LineEnds /\ q = Position(NextLine, 0)
    <2>1. CASE h + i < LineDots
      <3>1. h + i \in h + 1 .. NewH
        BY <1>1
      <3> QED
        BY <1>3, <2>1, <3>1, DotReached
    <2>2. CASE ~(h + i < LineDots)
      <3>1. LineEnds
        BY <1>1, <2>2 DEF LineEnds
      <3> QED
        BY <1>3, <2>2, <3>1, DotReached
    <2> QED
      BY <2>1, <2>2
  <1>4. ASSUME NEW r \in h + 1 .. NewH, r < LineDots, q = Position(v, r)
        PROVE  \E i \in 1 .. StepDots : q = (v * LineDots + h + i) % FrameLength
    <2>1. r - h \in 1 .. StepDots /\ h + (r - h) = r
      BY <1>1
    <2>2. (v * LineDots + h + (r - h)) % FrameLength = Position(v, h + (r - h))
      BY <1>4, <2>1, DotReached
    <2> QED
      BY <1>4, <2>1, <2>2
  <1>5. ASSUME LineEnds, q = Position(NextLine, 0)
        PROVE  \E i \in 1 .. StepDots : q = (v * LineDots + h + i) % FrameLength
    <2>1. StepDots \in 1 .. StepDots /\ ~(h + StepDots < LineDots)
      BY <1>1, <1>5 DEF LineEnds
    <2> QED
      BY <1>5, <2>1, DotReached
  <1> QED
    BY <1>2, <1>3, <1>4, <1>5

(* VBlank is passed when it begins: no dot inside a line is its position.  *)
LEMMA VBlankPassed ==
  ASSUME TimingTypeOK, credit # 0
  PROVE  VBlankLine * LineDots \in Clock!Passed(StepDots) <=> VBlankBegins
  <1>1. /\ LineDots \in Nat \ {0} /\ VBlankLine \in Nat /\ v \in Nat /\ h \in Nat /\ NextLine \in Nat
        /\ VBlankLine * LineDots = Position(VBlankLine, 0) /\ 0 \in 0 .. LineDots - 1
        /\ NewH \in Nat
    BY StepBounds, NextLineInFrame, GeometryAssumption DEF TimingTypeOK, Position
  <1>2. ASSUME NEW r \in h + 1 .. NewH, r < LineDots PROVE Position(VBlankLine, 0) # Position(v, r)
    <2>1. r \in 0 .. LineDots - 1 /\ r # 0
      BY <1>1, <1>2
    <2> QED
      BY <1>1, <2>1, OnePosition DEF Position
  <1>3. Position(VBlankLine, 0) = Position(NextLine, 0) <=> NextLine = VBlankLine
    BY <1>1, OnePosition DEF Position
  <1> QED
    BY <1>1, <1>2, <1>3, PassedPositions DEF VBlankBegins

(* A timer is passed inside a line or at the start of the next.            *)
LEMMA TimerPassed ==
  ASSUME TimingTypeOK, credit # 0
  PROVE  TimerPositions \cap Clock!Passed(StepDots) # {}
           <=> HTimerPassed \/ (LineEnds /\ TimerAtLineStart(NextLine))
  <1>1. /\ LineDots \in Nat \ {0} /\ v \in 0 .. FrameLines - 1 /\ h \in Nat /\ NewH \in 1 .. LineDots
        /\ NextLine \in 0 .. FrameLines - 1 /\ 0 \in 0 .. LineDots - 1 /\ hTime \in Nat
    BY StepBounds, NextLineInFrame, GeometryAssumption DEF TimingTypeOK
  <1>2. LineEnds /\ TimerAtLineStart(NextLine)
          <=> LineEnds /\ Position(NextLine, 0) \in TimerPositions
    <2>1. TimerAtLineStart(NextLine) <=> TimerAt(NextLine, 0)
      BY DEF TimerAtLineStart, TimerAt
    <2> QED
      BY <1>1, <2>1, ArmedPositions
  <1>3. HTimerPassed <=> \E r \in h + 1 .. NewH : r < LineDots /\ Position(v, r) \in TimerPositions
    <2>1. ASSUME NEW r \in h + 1 .. NewH, r < LineDots
          PROVE  Position(v, r) \in TimerPositions
                   <=> (irqMode = "h" \/ (irqMode = "hv" /\ v = vTime)) /\ r = hTime
      <3>1. r \in 0 .. LineDots - 1 /\ r # 0
        BY <1>1, <2>1
      <3>2. Position(v, r) \in TimerPositions <=> TimerAt(v, r)
        BY <1>1, <3>1, ArmedPositions
      <3> QED
        BY <3>1, <3>2 DEF TimerAt
    <2>2. HTimerPassed => hTime \in h + 1 .. NewH /\ hTime < LineDots
      BY <1>1 DEF HTimerPassed
    <2>3. ASSUME NEW r \in h + 1 .. NewH, r < LineDots, r = hTime
          PROVE  hTime # 0 /\ hTime < LineDots /\ h < hTime /\ hTime <= NewH
      BY <1>1, <2>3
    <2> QED
      BY <2>1, <2>2, <2>3 DEF HTimerPassed
  <1>4. TimerPositions \cap Clock!Passed(StepDots) # {}
          <=> \/ \E r \in h + 1 .. NewH : r < LineDots /\ Position(v, r) \in TimerPositions
              \/ LineEnds /\ Position(NextLine, 0) \in TimerPositions
    <2>1. TimerPositions \cap Clock!Passed(StepDots) # {}
            <=> \E q : q \in TimerPositions /\ q \in Clock!Passed(StepDots)
      BY Zenon
    <2> QED
      BY <2>1, PassedPositions, Zenon
  <1> QED
    BY <1>2, <1>3, <1>4

LEMMA SegmentTicks ==
  ASSUME TimingTypeOK, NEW hdmaStops \in BOOLEAN, Segment(hdmaStops)
  PROVE  Clock!Tick(StepDots) /\ StepDots \in 1 .. LineDots
  <1>1. /\ credit # 0 /\ AdvanceBeam /\ AdvanceInterrupts /\ StepDots \in 1 .. LineDots
        /\ h \in Nat /\ LineDots \in Nat
    BY StepBounds, GeometryAssumption DEF Segment, TimingTypeOK
  <1>2. (v * LineDots + h)' = (v * LineDots + h + StepDots) % FrameLength
    <2>1. StepDots \in 1 .. StepDots
      BY <1>1
    <2>2. (v * LineDots + h + StepDots) % FrameLength
            = IF NewH < LineDots THEN Position(v, NewH) ELSE Position(NextLine, 0)
      BY <1>1, <2>1, DotReached DEF NewH
    <2>3. (NewH < LineDots) = ~LineEnds
      BY <1>1, StepBounds DEF LineEnds
    <2>4. (v * LineDots + h)' = Position(v', h')
      BY DEF Position
    <2> QED
      BY <1>1, <2>2, <2>3, <2>4 DEF AdvanceBeam
  <1>3. nmiFlag' = (nmiFlag \/ VBlankLine * LineDots \in Clock!Passed(StepDots))
    BY <1>1, VBlankPassed, Zenon DEF AdvanceInterrupts
  <1>4. timeup' = (timeup \/ TimerPositions \cap Clock!Passed(StepDots) # {})
    <2>1. timeup' = (timeup \/ HTimerPassed \/ (LineEnds /\ TimerAtLineStart(NextLine)))
      BY <1>1, Zenon DEF AdvanceInterrupts
    <2> QED
      BY <1>1, <2>1, TimerPassed, Zenon
  <1>5. UNCHANGED TimerPositions
    BY <1>1 DEF AdvanceInterrupts, TimerPositions
  <1> QED
    BY <1>1, <1>2, <1>3, <1>4, <1>5, Zenon DEF Clock!Tick, FrameLength

(* Whatever leaves beam and timer alone leaves the clock alone, or takes   *)
(* back a flag.                                                            *)
LEMMA BeamKept ==
  ASSUME UNCHANGED <<h, v, irqMode, hTime, vTime>>
  PROVE  UNCHANGED (v * LineDots + h) /\ UNCHANGED TimerPositions
  BY DEF TimerPositions

LEMMA RegisterOfClock ==
  ASSUME TimingTypeOK, Register
  PROVE  Clock!Next \/ UNCHANGED Clock!clockVars
  <1>1. ASSUME UNCHANGED <<h, v, nmiFlag, timeup>> PROVE Clock!Arm
    <2>1. TimerPositions' \in SUBSET (0 .. FrameLines * LineDots - 1)
      BY DEF TimerPositions
    <2> QED
      BY <1>1, <2>1 DEF Clock!Arm
  <1>2. CASE ReadNmiFlag
    <2>1. UNCHANGED <<h, v, irqMode, hTime, vTime, timeup>> /\ nmiFlag' = FALSE
      BY <1>2 DEF ReadNmiFlag, beamVars
    <2> QED
      BY <2>1, BeamKept DEF Clock!Next, Clock!AckVBlank
  <1>3. CASE ReadTimeup
    <2>1. UNCHANGED <<h, v, irqMode, hTime, vTime, nmiFlag>> /\ timeup' = FALSE
      BY <1>3 DEF ReadTimeup, beamVars
    <2> QED
      BY <2>1, BeamKept DEF Clock!Next, Clock!AckTimeup
  <1>4. CASE ~(ReadNmiFlag \/ ReadTimeup)
    <2>1. UNCHANGED <<h, v, nmiFlag, timeup>>
      BY <1>4
      DEF Register, beamVars, irqVars, WriteNmitimen, WriteHTime, WriteVTime, WriteStrobe, ReadPad,
          WriteMultiplicand, WriteDividend, WriteMultiplier, WriteDivisor, StartMath,
          UnsupportedAccess
    <2> QED
      BY <1>1, <2>1 DEF Clock!Next
  <1> QED
    BY <1>2, <1>3, <1>4

(* However the calls are cut at line ends, and whatever the program writes *)
(* between them, each turn of the loop is a tick of the clock that raises  *)
(* what it passes, and nothing else raises or takes back a flag but a read.*)
THEOREM TimingImplementsClock == TimingSpec => ImplementsFrameClock
  <1>1. TimingInit => Clock!Init
    <2> SUFFICES ASSUME TimingInit PROVE Clock!Init
      OBVIOUS
    <2>1. v * LineDots + h = 0
      BY GeometryAssumption DEF TimingInit
    <2>2. TimerPositions = {}
      BY DEF TimingInit, TimerPositions
    <2> QED
      BY <2>1, <2>2 DEF Clock!Init, TimingInit
  <1>2. TimingTypeOK /\ [TimingNext]_timingVars => [Clock!Next]_Clock!clockVars
    <2> SUFFICES ASSUME TimingTypeOK, [TimingNext]_timingVars
                 PROVE  Clock!Next \/ UNCHANGED Clock!clockVars
      OBVIOUS
    <2>1. ASSUME NEW hdmaStops \in BOOLEAN, Segment(hdmaStops) PROVE Clock!Next
      BY <2>1, SegmentTicks DEF Clock!Next
    <2>2. CASE Host \/ UNCHANGED timingVars
      <3>1. UNCHANGED <<h, v, irqMode, hTime, vTime, nmiFlag, timeup>>
        BY <2>2 DEF Host, Advance, SetController, TakeNmi, timingVars, beamVars, irqVars
      <3> QED
        BY <3>1, BeamKept DEF Clock!clockVars
    <2> QED
      BY <2>1, <2>2, RegisterOfClock DEF TimingNext
  <1> QED
    BY <1>1, <1>2, TimingTypeInvariant, PTL DEF TimingSpec, ImplementsFrameClock, Clock!Spec
=============================================================================
