----------------------------- MODULE FrameClock -----------------------------
(***************************************************************************)
(* What the video clock promises to the program, with no scanlines in it:  *)
(* one position that runs round a frame, a VBlank flag raised when the     *)
(* position passes the VBlank position, and a TIMEUP flag raised when it   *)
(* passes a position the program armed.  Nothing is said of how a call is  *)
(* cut at line ends, nor of where in a line a comparison is made.          *)
(* SnesTiming, the translation of the scheduler, implements this module.   *)
(***************************************************************************)
EXTENDS Integers

CONSTANTS
  FrameDots,    (* Length of a frame.                                      *)
  VBlankPos,    (* The position at which vertical blanking starts.         *)
  MaxTick       (* The most one step may advance the position.             *)

VARIABLES
  pos,          (* Position in the frame.                                  *)
  armed,        (* The positions at which TIMEUP is raised.                *)
  vblankFlag,   (* Raised at VBlankPos until it is acknowledged.           *)
  timeupFlag    (* Raised at an armed position until it is acknowledged.   *)

clockVars == <<pos, armed, vblankFlag, timeupFlag>>

(* The positions reached by d dots of running, the last one included. *)
Passed(d) == { (pos + i) % FrameDots : i \in 1 .. d }

Init ==
  /\ pos = 0
  /\ armed = {}
  /\ vblankFlag = FALSE
  /\ timeupFlag = FALSE

Tick(d) ==
  /\ pos' = (pos + d) % FrameDots
  /\ vblankFlag' = (vblankFlag \/ VBlankPos \in Passed(d))
  /\ timeupFlag' = (timeupFlag \/ armed \cap Passed(d) # {})
  /\ UNCHANGED armed

Arm ==
  /\ armed' \in SUBSET (0 .. FrameDots - 1)
  /\ UNCHANGED <<pos, vblankFlag, timeupFlag>>

AckVBlank ==
  /\ vblankFlag' = FALSE
  /\ UNCHANGED <<pos, armed, timeupFlag>>

AckTimeup ==
  /\ timeupFlag' = FALSE
  /\ UNCHANGED <<pos, armed, vblankFlag>>

Next ==
  \/ \E d \in 1 .. MaxTick : Tick(d)
  \/ Arm
  \/ AckVBlank
  \/ AckTimeup

Spec == Init /\ [][Next]_clockVars
=============================================================================
