----------------------------- MODULE MCBootLoop -----------------------------
(***************************************************************************)
(* BootLoop with values for its constants and a history variable that      *)
(* remembers whether the NMI of the last VBlank has been served.           *)
(***************************************************************************)
EXTENDS BootLoop

VARIABLE nmiOwed   (* The last VBlank raised an NMI nobody has entered yet. *)

mcVars == <<bootVars, nmiOwed>>

VBlankStep == AdvanceSegment /\ VBlankBegins

MCInit == BootInit /\ nmiOwed = FALSE

MCNext ==
  /\ BootNext
  /\ nmiOwed' = IF VBlankStep THEN nmiEnable
                ELSE nmiOwed /\ ~(ServiceInterrupt /\ nmiPending)

MCSpec == MCInit /\ [][MCNext]_mcVars

(* FairBootSpec's fairness, for the loop with its history variable. *)
FairMCSpec == MCSpec /\ WF_mcVars(MCNext)

BootWrites == { w \in Nmitimens : ~w.joy }
BootHTimes == {0, 1, 5}
BootVTimes == {0, 2, 3}
NoAdvances == {}

ASSUME ShortInstructionsAssumption == ShortInstructions

NmiBeforeNextInstruction == nmiOwed => phase # "instruction"

(* No instruction starts between a VBlank with NMI enabled and the entry   *)
(* of its NMI: the handler sees the frame as VBlank left it.  And no NMI   *)
(* is overrun: each is served before the next VBlank starts, though the    *)
(* latch can hold only one.                                                *)
NmiServedInTime ==
  [][NmiBeforeNextInstruction' /\ (VBlankStep => ~nmiOwed)]_mcVars
=============================================================================
