------------------------------ MODULE BootLoop ------------------------------
(***************************************************************************)
(* The loop of src/app/boot_main.c (--with-timing) that runs the 65C816    *)
(* interpreter against the scheduler of SnesTiming: before an instruction  *)
(* it serves one interrupt, a CPU stopped in WAI lets a line go by, and an *)
(* instruction is paid for afterwards, eight master cycles an access.      *)
(*                                                                         *)
(* Of the CPU (src/src/execute.c) the model keeps what the loop depends    *)
(* on: WAI, the I flag, and how many accesses an instruction made.  What   *)
(* an instruction computes is a choice: it reads and writes any registers  *)
(* in any order, and may leave I set or clear.                             *)
(***************************************************************************)
EXTENDS SnesTiming

CONSTANTS
  AccessDots,     (* DKC2_PROVISIONAL_MASTER_CYCLES_PER_CPU_ACCESS.        *)
  EntryAccesses,  (* Accesses of an interrupt entry: stack and vector.     *)
  MaxAccesses     (* Bound: the most accesses one instruction makes.       *)

ASSUME CpuAssumption ==
  /\ AccessDots \in Nat \ {0}
  /\ EntryAccesses \in Nat \ {0}
  /\ MaxAccesses \in Nat \ {0}

(* No instruction, entry or waited line is as long as a frame.  A block    *)
(* move or a DMA of 32 KiB and more breaks this on the real constants.     *)
ShortInstructions ==
  /\ MaxAccesses * AccessDots < FrameLines * LineDots
  /\ EntryAccesses * AccessDots < FrameLines * LineDots

VARIABLES
  phase,          (* Where the loop is: see Phases.                        *)
  leaving,        (* The loop leaves at its next test: limit, STP, error.  *)
  accesses,       (* bus.accesses - accesses_before.                       *)
  waiting,        (* cpu.waiting.                                          *)
  irqDisable      (* DKC2_P_IRQ_DISABLE.                                   *)

cpuVars == <<phase, leaving, accesses, waiting, irqDisable>>
bootVars == <<timingVars, cpuVars>>

(* "loop": at the loop's test.  "instruction": inside dkc2_cpu_step.       *)
(* "advance": inside dkc2_snes_io_advance_*.  "done": the loop was left.   *)
(* "asleep": it was left with DKC2_STEP_WAITING.                           *)
Phases == {"loop", "instruction", "advance", "done", "asleep"}

BootInit ==
  /\ TimingInit
  /\ phase = "loop"
  /\ leaving = FALSE
  /\ accesses = 0
  /\ waiting = FALSE
  /\ irqDisable = TRUE

-----------------------------------------------------------------------------
(* The top of the loop. *)

(* Mutant: the I flag masks NMI too. *)
InterruptReadyMasked == (nmiPending \/ timeup) /\ ~irqDisable

InterruptReady == nmiPending \/ (timeup /\ ~irqDisable)

(* Mutant: the mask 0xB0 loses its V bit. *)
SourceEnabledNoV == nmiEnable \/ irqMode \in {"h", "hv"}

(* dkc2_snes_io_interrupt_source_enabled. *)
SourceEnabled == nmiEnable \/ irqMode # "off"

(* Mutant: the call does not look at the barrier before its first line. *)
PayRegardless(dots) ==
  /\ credit' = dots /\ phase' = "advance"
  /\ UNCHANGED <<h, v, barrier>>

(* Pay for what was done.  After a barrier the call does nothing. *)
Pay(dots) ==
  /\ IF barrier = "none"
       THEN credit' = dots /\ phase' = "advance"
       ELSE credit' = 0 /\ phase' = "loop"
  /\ UNCHANGED <<h, v, barrier>>

AtTop == phase = "loop" /\ ~leaving /\ barrier = "none"

(* Mutant: the loop's test does not look at the barrier. *)
LeaveLoopAtLimit ==
  /\ phase = "loop"
  /\ leaving
  /\ phase' = "done"
  /\ UNCHANGED <<timingVars, leaving, accesses, waiting, irqDisable>>

LeaveLoop ==
  /\ phase = "loop"
  /\ leaving \/ barrier # "none"
  /\ phase' = "done"
  /\ UNCHANGED <<timingVars, leaving, accesses, waiting, irqDisable>>

(* service_timing_interrupt: NMI before TIMEUP; the I flag masks TIMEUP.   *)
(* enter_interrupt ends WAI and sets I.                                    *)
ServiceInterrupt ==
  /\ AtTop
  /\ InterruptReady
  /\ IF nmiPending THEN TakeNmi ELSE UNCHANGED irqVars
  /\ waiting' = FALSE
  /\ irqDisable' = TRUE
  /\ Pay(EntryAccesses * AccessDots)
  /\ UNCHANGED <<joyVars, mathVars, leaving, accesses>>

(* A waiting CPU lets one whole line go by ... *)
WaitLine ==
  /\ AtTop
  /\ ~InterruptReady
  /\ waiting
  /\ SourceEnabled
  /\ Pay(LineDots)
  /\ UNCHANGED <<irqVars, joyVars, mathVars, leaving, accesses, waiting,
                 irqDisable>>

(* ... unless nothing is enabled that could ever wake it. *)
WaitForever ==
  /\ AtTop
  /\ ~InterruptReady
  /\ waiting
  /\ ~SourceEnabled
  /\ phase' = "asleep"
  /\ UNCHANGED <<timingVars, leaving, accesses, waiting, irqDisable>>

(* dkc2_cpu_step fetches its opcode; this may be the limit's last one. *)
Fetch ==
  /\ AtTop
  /\ ~InterruptReady
  /\ ~waiting
  /\ phase' = "instruction"
  /\ accesses' = 1
  /\ leaving' \in BOOLEAN
  /\ UNCHANGED <<timingVars, waiting, irqDisable>>

(* The breakpoint test comes before the interrupts are served. *)
Breakpoint ==
  /\ AtTop
  /\ phase' = "done"
  /\ UNCHANGED <<timingVars, leaving, accesses, waiting, irqDisable>>

-----------------------------------------------------------------------------
(* Inside an instruction. *)

InInstruction == phase = "instruction" /\ accesses < MaxAccesses

RegisterAccess ==
  /\ InInstruction
  /\ Register
  /\ accesses' = accesses + 1
  /\ UNCHANGED <<phase, leaving, waiting, irqDisable>>

MemoryAccess ==
  /\ InInstruction
  /\ accesses' = accesses + 1
  /\ UNCHANGED <<timingVars, phase, leaving, waiting, irqDisable>>

(* The accesses the instruction made are turned into time. *)
Settle == Pay(accesses * AccessDots) /\ accesses' = 0

(* The instruction ends; SEI, CLI, PLP, RTI and their kind change I. *)
Retire ==
  /\ phase = "instruction"
  /\ irqDisable' \in BOOLEAN
  /\ Settle
  /\ UNCHANGED <<irqVars, joyVars, mathVars, leaving, waiting>>

(* WAI is its opcode only. *)
RetireWai ==
  /\ phase = "instruction"
  /\ accesses = 1
  /\ waiting' = TRUE
  /\ Settle
  /\ UNCHANGED <<irqVars, joyVars, mathVars, leaving, irqDisable>>

(* STP and an opcode that is not implemented leave the loop once paid for. *)
RetireStop ==
  /\ phase = "instruction"
  /\ leaving' = TRUE
  /\ Settle
  /\ UNCHANGED <<irqVars, joyVars, mathVars, waiting, irqDisable>>

-----------------------------------------------------------------------------
(* Inside dkc2_snes_io_advance_master_cycles. *)

AdvanceSegment ==
  /\ phase = "advance"
  /\ \E hdmaStops \in BOOLEAN : Segment(hdmaStops)
  /\ phase' = IF credit' = 0 THEN "loop" ELSE "advance"
  /\ UNCHANGED <<leaving, accesses, waiting, irqDisable>>

Loop == LeaveLoop \/ ServiceInterrupt \/ WaitLine \/ WaitForever \/ Fetch
          \/ Breakpoint
Instruction == RegisterAccess \/ MemoryAccess \/ Retire \/ RetireWai
                 \/ RetireStop

BootNext == Loop \/ Instruction \/ AdvanceSegment

BootSpec == BootInit /\ [][BootNext]_bootVars

(* The loop is one thread that nothing blocks: a step that can be taken is *)
(* taken.  What the program does is not constrained.                       *)
FairBootSpec == BootSpec /\ WF_bootVars(BootNext)

-----------------------------------------------------------------------------
(* Properties. *)

BootTypeOK ==
  /\ TimingTypeOK
  /\ phase \in Phases
  /\ leaving \in BOOLEAN
  /\ accesses \in 0 .. MaxAccesses
  /\ waiting \in BOOLEAN
  /\ irqDisable \in BOOLEAN
  /\ credit # 0 => phase = "advance"
  /\ phase = "advance" => credit # 0 /\ barrier = "none"

(* Once a barrier is set the machine stands still where it was set: what   *)
(* the run reports as beam position, poll and interrupt state is what was  *)
(* there, however much of the instruction's time was left to pay.          *)
BarrierFreezesTime ==
  [][barrier # "none" => UNCHANGED <<h, v, autojoy>>]_bootVars

(* A run that meets a barrier ends. *)
BarrierEndsRun == barrier # "none" ~> phase = "done"

(* An interrupt can still reach a waiting CPU: NMI is enabled, or TIMEUP   *)
(* is not masked and either is up already or is set to a real position.    *)
CanWake ==
  \/ nmiEnable
  \/ ~irqDisable /\ (timeup \/ TimerPositions # {})

(* "A CPU stopped in WAI advances one scanline at a time until an enabled  *)
(* source can wake it" (docs/TIMING_AND_INTERRUPTS.md): it never sleeps    *)
(* through the source, whatever dot or line the timer is set to.           *)
WaiResumes == waiting /\ CanWake ~> ~waiting \/ phase = "done"
=============================================================================
