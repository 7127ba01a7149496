----------------------------- MODULE SnesTiming -----------------------------
(***************************************************************************)
(* The timing half of src/src/snes_io.c: the master-cycle scheduler with   *)
(* the beam position, the NMI and TIMEUP latches, automatic controller     *)
(* polling and the serial controller ports, and the multiply/divide unit,  *)
(* together with the registers the program drives them by.                 *)
(*                                                                         *)
(* Time is counted in dots of four master cycles.  Every amount the boot   *)
(* loop advances by is a whole number of dots: 8 cycles for an access and  *)
(* 1364 for a waited line; so are all of the scheduler's constants.        *)
(*                                                                         *)
(* dkc2_snes_io_advance_master_cycles is a loop that cuts its argument at  *)
(* line ends.  `credit' is its local variable master_cycles: Advance is    *)
(* the call, and each Segment is one turn of the loop.  The registers are  *)
(* touched only while no such call is running (credit = 0).                *)
(***************************************************************************)
EXTENDS Integers

CONSTANTS
  LineDots,      (* DKC2_NTSC_MASTER_CYCLES_PER_SCANLINE                   *)
  FrameLines,    (* DKC2_NTSC_SCANLINES_PER_FRAME                          *)
  HBlankDot,     (* DKC2_NTSC_HBLANK_START                                 *)
  VBlankLine,    (* DKC2_NTSC_VBLANK_START                                 *)
  AutojoyDots,   (* DKC2_AUTOJOY_MASTER_CYCLES                             *)
  MultiplyDots,  (* DKC2_MULTIPLY_MASTER_CYCLES                            *)
  DivideDots,    (* DKC2_DIVIDE_MASTER_CYCLES                              *)
  AdvanceAmounts,(* The amounts a caller advances by.                      *)
  NmitimenWrites,(* Values written to $4200, decoded.                      *)
  HTimes,        (* Values $4207/$4208 may be given; 0 after reset.        *)
  VTimes,        (* Values $4209/$420A may be given; 0 after reset.        *)
  Ports,         (* The controller ports.                                  *)
  Buttons,       (* Button words the host installs.                        *)
  NoButtons,     (* The word of an untouched controller.                   *)
  PadBits,       (* Length of a controller's shift register.               *)
  Operands,      (* Values written to the arithmetic registers.            *)
  DivideByZero   (* The quotient of a division by zero, 0xFFFF.            *)

ASSUME GeometryAssumption ==
  /\ LineDots \in Nat \ {0}
  /\ FrameLines \in Nat \ {0}
  /\ HBlankDot \in 1 .. LineDots - 1
  /\ VBlankLine \in 1 .. FrameLines - 1

ASSUME DelayAssumption ==
  /\ AutojoyDots \in Nat \ {0}
  /\ MultiplyDots \in Nat \ {0}
  /\ DivideDots \in Nat \ {0}

(* A poll is over before the next frame: 1056 dots against 37 lines of 341. *)
ASSUME AutojoyFitsVBlank ==
  AutojoyDots <= (FrameLines - VBlankLine) * LineDots

IrqModes == {"off", "h", "v", "hv"}
Barriers == {"none", "unsupported", "dma"}
Nmitimens == [nmi : BOOLEAN, mode : IrqModes, joy : BOOLEAN]

ASSUME InputAssumption ==
  /\ NmitimenWrites \subseteq Nmitimens
  /\ AdvanceAmounts \subseteq Nat
  /\ HTimes \subseteq Nat
  /\ VTimes \subseteq Nat
  /\ Operands \subseteq Nat
  /\ PadBits \in Nat
  /\ DivideByZero \in Nat

VARIABLES
  h,             (* h_counter, in dots.                                    *)
  v,             (* v_counter.                                             *)
  credit,        (* What is left of the running advance call.              *)
  barrier,       (* The hardware boundary that stopped the run, if any.    *)
  nmiEnable,     (* $4200 bit 7.                                           *)
  irqMode,       (* $4200 bits 4 and 5.                                    *)
  joyEnable,     (* $4200 bit 0.                                           *)
  hTime,         (* $4207/$4208.                                           *)
  vTime,         (* $4209/$420A.                                           *)
  nmiFlag,       (* nmi_flag, read at $4210.                               *)
  nmiPending,    (* nmi_pending, taken by the CPU loop.                    *)
  timeup,        (* timeup_flag, read at $4211.                            *)
  controllers,   (* Buttons held, as the host last set them.               *)
  shift,         (* controller_shift: word latched and bits shifted out.   *)
  strobe,        (* joy_strobe.                                            *)
  autojoy,       (* autojoy_cycles_remaining.                              *)
  joyResult,     (* $4218-$421B.                                           *)
  multiplicand,  (* $4202.                                                 *)
  dividend,      (* $4204/$4205.                                           *)
  mathOp,        (* The captured operation and its operands.               *)
  mathLeft,      (* cpu_math_cycles_remaining.                             *)
  quotient,      (* $4214/$4215.                                           *)
  product        (* $4216/$4217, also the remainder.                       *)

beamVars == <<h, v, credit, barrier>>
irqVars  == <<nmiEnable, irqMode, hTime, vTime, nmiFlag, nmiPending, timeup>>
joyVars  == <<joyEnable, controllers, shift, strobe, autojoy, joyResult>>
mathVars == <<multiplicand, dividend, mathOp, mathLeft, quotient, product>>
timingVars == <<beamVars, irqVars, joyVars, mathVars>>

Latch(buttons) == [held |-> buttons, shifted |-> 0]

TimingInit ==
  /\ h = 0 /\ v = 0 /\ credit = 0 /\ barrier = "none"
  /\ nmiEnable = FALSE /\ irqMode = "off" /\ joyEnable = FALSE
  /\ hTime = 0 /\ vTime = 0
  /\ nmiFlag = FALSE /\ nmiPending = FALSE /\ timeup = FALSE
  /\ controllers = [p \in Ports |-> NoButtons]
  /\ shift = [p \in Ports |-> Latch(NoButtons)]
  /\ strobe = FALSE
  /\ autojoy = 0
  /\ joyResult = [p \in Ports |-> NoButtons]
  /\ multiplicand = 0 /\ dividend = 0
  /\ mathOp = [division |-> FALSE, a |-> 0, b |-> 0]
  /\ mathLeft = 0
  /\ quotient = 0 /\ product = 0

-----------------------------------------------------------------------------
(* One turn of the loop of dkc2_snes_io_advance_master_cycles. *)

StepDots == IF credit < LineDots - h THEN credit ELSE LineDots - h
NewH     == h + StepDots
LineEnds == NewH = LineDots
(* Mutant: the test for the last line is made before the increment. *)
NextLineLate == IF v = FrameLines THEN 0 ELSE v + 1

NextLine == IF v + 1 = FrameLines THEN 0 ELSE v + 1

(* Mutant: a timer at the very end of the step is missed. *)
HTimerPassedShort ==
  /\ irqMode = "h" \/ (irqMode = "hv" /\ v = vTime)
  /\ hTime # 0
  /\ hTime < LineDots
  /\ h < hTime /\ hTime < NewH

(* The H timer fires inside a line when the step passes its dot. *)
HTimerPassed ==
  /\ irqMode = "h" \/ (irqMode = "hv" /\ v = vTime)
  /\ hTime # 0
  /\ hTime < LineDots
  /\ h < hTime /\ hTime <= NewH

(* check_irq_at_scanline_start, for the line that begins. *)
TimerAtLineStart(line) ==
  \/ irqMode = "h" /\ hTime = 0
  \/ irqMode = "v" /\ line = vTime
  \/ irqMode = "hv" /\ hTime = 0 /\ line = vTime

(* The step enters horizontal blanking of a visible line: the line is      *)
(* rendered, then its HDMA transfers are run.                              *)
VisibleHBlank == v < VBlankLine /\ h < HBlankDot /\ HBlankDot <= NewH

VBlankBegins == LineEnds /\ NextLine = VBlankLine

AdvanceBeam ==
  /\ h' = IF LineEnds THEN 0 ELSE NewH
  /\ v' = IF LineEnds THEN NextLine ELSE v

AdvanceInterrupts ==
  /\ nmiFlag' = (nmiFlag \/ VBlankBegins)
  /\ nmiPending' = (nmiPending \/ (VBlankBegins /\ nmiEnable))
  /\ timeup' = (\/ timeup
                \/ HTimerPassed
                \/ LineEnds /\ TimerAtLineStart(NextLine))
  /\ UNCHANGED <<nmiEnable, irqMode, hTime, vTime>>

(* Mutant: the poll is charged for the whole call, not for its step. *)
AutojoyLeftWholeCall == IF autojoy <= credit THEN 0 ELSE autojoy - credit

(* advance_autojoy. *)
AutojoyLeft == IF autojoy <= StepDots THEN 0 ELSE autojoy - StepDots

(* A poll that ends in this step publishes before a new one may start. *)
AdvanceAutojoy ==
  /\ joyResult' = IF autojoy # 0 /\ AutojoyLeft = 0
                    THEN controllers ELSE joyResult
  /\ IF VBlankBegins /\ joyEnable
       THEN /\ autojoy' = AutojoyDots
            /\ shift' = [p \in Ports |-> Latch(controllers[p])]
       ELSE /\ autojoy' = AutojoyLeft
            /\ UNCHANGED shift
  /\ UNCHANGED <<joyEnable, controllers, strobe>>

Quotient(op)  == IF op.b = 0 THEN DivideByZero ELSE op.a \div op.b
Remainder(op) == IF op.b = 0 THEN op.a ELSE op.a % op.b
ResultOf(op)  == IF op.division THEN Remainder(op) ELSE op.a * op.b

(* Mutant: an operation that ends with the step is not finished. *)
MathEndsLate == mathLeft # 0 /\ mathLeft < StepDots

(* Mutant: the operation is charged for the whole call. *)
MathEndsWholeCall == mathLeft # 0 /\ mathLeft <= credit

MathEnds == mathLeft # 0 /\ mathLeft <= StepDots

AdvanceMath ==
  /\ mathLeft' = IF mathLeft <= StepDots THEN 0 ELSE mathLeft - StepDots
  /\ product' = IF MathEnds THEN ResultOf(mathOp) ELSE product
  /\ quotient' = IF MathEnds /\ mathOp.division
                   THEN Quotient(mathOp) ELSE quotient
  /\ UNCHANGED <<multiplicand, dividend, mathOp>>

(* Mutant: the loop runs on after a barrier was set. *)
CreditLeftRegardless(stop) == credit - StepDots

CreditLeft(stop) == IF stop = "none" THEN credit - StepDots ELSE 0

(* hdmaStops says that run_hdma_scanline met an unsupported transfer. The  *)
(* turn is completed; the loop test then drops what is left of the call.   *)
Segment(hdmaStops) ==
  /\ credit # 0
  /\ AdvanceBeam
  /\ AdvanceInterrupts
  /\ AdvanceAutojoy
  /\ AdvanceMath
  /\ barrier' = IF VisibleHBlank /\ hdmaStops THEN "dma" ELSE barrier
  /\ credit' = CreditLeft(barrier')

(* The call: nothing is left to do once a barrier is set. *)
Advance(dots) ==
  /\ credit = 0
  /\ barrier = "none"
  /\ credit' = dots
  /\ UNCHANGED <<h, v, barrier, irqVars, joyVars, mathVars>>

-----------------------------------------------------------------------------
(* Registers.  Bytes of a 16-bit register are written one by one: a write  *)
(* leaves some value of the register's set.                                *)

(* $4200.  Enabling NMI while the VBlank flag is up raises NMI. *)
WriteNmitimen(nmi, mode, joy) ==
  /\ credit = 0
  /\ nmiEnable' = nmi /\ irqMode' = mode /\ joyEnable' = joy
  /\ nmiPending' = (nmiPending \/ (nmi /\ nmiFlag))
  /\ UNCHANGED <<beamVars, hTime, vTime, nmiFlag, timeup, controllers, shift,
                 strobe, autojoy, joyResult, mathVars>>

WriteHTime(t) ==
  /\ credit = 0
  /\ hTime' = t
  /\ UNCHANGED <<beamVars, nmiEnable, irqMode, vTime, nmiFlag, nmiPending,
                 timeup, joyVars, mathVars>>

WriteVTime(t) ==
  /\ credit = 0
  /\ vTime' = t
  /\ UNCHANGED <<beamVars, nmiEnable, irqMode, hTime, nmiFlag, nmiPending,
                 timeup, joyVars, mathVars>>

(* $4210: the flag is cleared, a pending NMI is not. *)
ReadNmiFlag ==
  /\ credit = 0
  /\ nmiFlag' = FALSE
  /\ UNCHANGED <<beamVars, nmiEnable, irqMode, hTime, vTime, nmiPending,
                 timeup, joyVars, mathVars>>

(* $4211. *)
ReadTimeup ==
  /\ credit = 0
  /\ timeup' = FALSE
  /\ UNCHANGED <<beamVars, nmiEnable, irqMode, hTime, vTime, nmiFlag,
                 nmiPending, joyVars, mathVars>>

(* dkc2_snes_io_take_nmi. *)
TakeNmi ==
  /\ nmiPending' = FALSE
  /\ UNCHANGED <<nmiEnable, irqMode, hTime, vTime, nmiFlag, timeup>>

(* $4016 write: a high strobe, and each change of it, latches both ports. *)
WriteStrobe(high) ==
  /\ credit = 0
  /\ strobe' = high
  /\ shift' = IF high \/ strobe
                THEN [p \in Ports |-> Latch(controllers[p])] ELSE shift
  /\ UNCHANGED <<beamVars, irqVars, joyEnable, controllers, autojoy, joyResult,
                 mathVars>>

(* $4016/$4017 read: one bit is shifted out while the strobe is low; ones  *)
(* are shifted in, so nothing changes after the last of the word's bits.   *)
ReadPad(p) ==
  /\ credit = 0
  /\ ~strobe
  /\ shift[p].shifted < PadBits
  /\ shift' = [shift EXCEPT ![p].shifted = @ + 1]
  /\ UNCHANGED <<beamVars, irqVars, joyEnable, controllers, strobe, autojoy,
                 joyResult, mathVars>>

(* Mutant: a high strobe does not follow the host. *)
SetControllerNoLatch(p, buttons) ==
  /\ credit = 0
  /\ controllers' = [controllers EXCEPT ![p] = buttons]
  /\ UNCHANGED <<beamVars, irqVars, joyEnable, shift, strobe, autojoy,
                 joyResult, mathVars>>

(* dkc2_snes_io_set_controller. *)
SetController(p, buttons) ==
  /\ credit = 0
  /\ controllers' = [controllers EXCEPT ![p] = buttons]
  /\ shift' = IF strobe THEN [shift EXCEPT ![p] = Latch(buttons)] ELSE shift
  /\ UNCHANGED <<beamVars, irqVars, joyEnable, strobe, autojoy, joyResult,
                 mathVars>>

WriteMultiplicand(x) ==
  /\ credit = 0
  /\ multiplicand' = x
  /\ UNCHANGED <<beamVars, irqVars, joyVars, dividend, mathOp, mathLeft,
                 quotient, product>>

WriteDividend(x) ==
  /\ credit = 0
  /\ dividend' = x
  /\ UNCHANGED <<beamVars, irqVars, joyVars, multiplicand, mathOp, mathLeft,
                 quotient, product>>

StartMath(op, dots) ==
  /\ credit = 0
  /\ mathOp' = op
  /\ mathLeft' = dots
  /\ UNCHANGED <<beamVars, irqVars, joyVars, multiplicand, dividend, quotient,
                 product>>

(* $4203 and $4206 start an operation over the one that may be running. *)
WriteMultiplier(x) ==
  StartMath([division |-> FALSE, a |-> multiplicand, b |-> x], MultiplyDots)

WriteDivisor(x) ==
  StartMath([division |-> TRUE, a |-> dividend, b |-> x], DivideDots)

(* An access to a register outside the supported subset; the first wins. *)
UnsupportedAccess ==
  /\ credit = 0
  /\ barrier = "none"
  /\ barrier' = "unsupported"
  /\ UNCHANGED <<h, v, credit, irqVars, joyVars, mathVars>>

Register ==
  \/ \E w \in NmitimenWrites : WriteNmitimen(w.nmi, w.mode, w.joy)
  \/ \E t \in HTimes : WriteHTime(t)
  \/ \E t \in VTimes : WriteVTime(t)
  \/ ReadNmiFlag
  \/ ReadTimeup
  \/ \E high \in BOOLEAN : WriteStrobe(high)
  \/ \E p \in Ports : ReadPad(p)
  \/ \E x \in Operands : \/ WriteMultiplicand(x)
                         \/ WriteMultiplier(x)
                         \/ WriteDividend(x)
                         \/ WriteDivisor(x)
  \/ UnsupportedAccess

(* The host's own calls, between two advances. *)
Host ==
  \/ \E dots \in AdvanceAmounts : Advance(dots)
  \/ \E p \in Ports, buttons \in Buttons : SetController(p, buttons)
  \/ credit = 0 /\ TakeNmi /\ UNCHANGED <<beamVars, joyVars, mathVars>>

TimingNext ==
  \/ \E hdmaStops \in BOOLEAN : Segment(hdmaStops)
  \/ Register
  \/ Host

TimingSpec == TimingInit /\ [][TimingNext]_timingVars

-----------------------------------------------------------------------------
(* Properties. *)

Words == Buttons \cup {NoButtons}
MathOps == [division : BOOLEAN, a : Nat, b : Nat]

(* Every piece of the scheduler's state keeps its range; h_counter is      *)
(* always inside a line and v_counter inside a frame.                      *)
TimingTypeOK ==
  /\ h \in 0 .. LineDots - 1
  /\ v \in 0 .. FrameLines - 1
  /\ credit \in Nat
  /\ barrier \in Barriers
  /\ nmiEnable \in BOOLEAN /\ irqMode \in IrqModes /\ joyEnable \in BOOLEAN
  /\ hTime \in Nat /\ vTime \in Nat
  /\ nmiFlag \in BOOLEAN /\ nmiPending \in BOOLEAN /\ timeup \in BOOLEAN
  /\ controllers \in [Ports -> Words]
  /\ shift \in [Ports -> [held : Words, shifted : 0 .. PadBits]]
  /\ strobe \in BOOLEAN
  /\ autojoy \in 0 .. AutojoyDots
  /\ joyResult \in [Ports -> Words]
  /\ multiplicand \in Nat /\ dividend \in Nat
  /\ mathOp \in MathOps
  /\ mathLeft \in Nat
  /\ quotient \in Nat /\ product \in Nat

(* The busy bit of $4212 and the beam agree: a poll in progress started at *)
(* the VBlank line, and what is left of it is its length less the dots the *)
(* beam has run since.  A poll cut short, run twice over a line end or     *)
(* restarted outside VBlank breaks it.                                     *)
AutojoyTracksBeam ==
  autojoy # 0 =>
    /\ v >= VBlankLine
    /\ autojoy = AutojoyDots - ((v - VBlankLine) * LineDots + h)

(* While the strobe is high the shift registers follow the controllers,    *)
(* whoever touched what last: the host, a read, a write or the VBlank poll.*)
StrobeTracksControllers ==
  strobe => \A p \in Ports : shift[p] = Latch(controllers[p])

(* Once the unit is idle the result registers hold the result of the last  *)
(* operation started, on the operands as they were when it was started,    *)
(* whatever was written to the operand registers or restarted meanwhile.   *)
MathResultsMatch ==
  mathLeft = 0 => /\ product = ResultOf(mathOp)
                  /\ mathOp.division => quotient = Quotient(mathOp)

(* The program sees no partial result: the result registers change only in *)
(* the step in which the running operation ends.                           *)
MathStableWhileBusy ==
  [][<<quotient, product>>' # <<quotient, product>> =>
       mathLeft # 0 /\ mathLeft' = 0]_timingVars

(* "NMI is edge-latched" (include/dkc2/snes_io.h): NMI becomes pending     *)
(* only when a VBlank starts or when the enable bit of $4200 goes from 0   *)
(* to 1.                                                                   *)
NmiEdgeLatched ==
  [][nmiPending' /\ ~nmiPending =>
       (VBlankBegins /\ credit # 0) \/ (nmiEnable' /\ ~nmiEnable)]_timingVars

(* The frame positions at which the programmed timer raises TIMEUP. *)
TimerPositions ==
  { p \in 0 .. FrameLines * LineDots - 1 :
      CASE irqMode = "off" -> FALSE
        [] irqMode = "h"   -> p % LineDots = hTime
        [] irqMode = "v"   -> p = vTime * LineDots
        [] irqMode = "hv"  -> hTime < LineDots /\ p = vTime * LineDots + hTime }

Clock == INSTANCE FrameClock WITH
  FrameDots  <- FrameLines * LineDots,
  VBlankPos  <- VBlankLine * LineDots,
  MaxTick    <- LineDots,
  pos        <- v * LineDots + h,
  armed      <- TimerPositions,
  vblankFlag <- nmiFlag,
  timeupFlag <- timeup

(* The scheduler implements the frame clock: however calls are cut at line *)
(* ends, VBlank and TIMEUP are raised exactly when the beam passes their   *)
(* positions, at the line start as inside a line, never twice and never    *)
(* missed, and only a read of $4210 or $4211 takes them back.              *)
ImplementsFrameClock == Clock!Spec
=============================================================================
