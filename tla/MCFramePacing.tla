--------------------------- MODULE MCFramePacing ---------------------------
(***************************************************************************)
(* FramePacing with history variables, and its properties.                 *)
(***************************************************************************)
EXTENDS FramePacing

VARIABLES
  sinceShown,   (* Time since a wait last let a frame go, up to a frame.   *)
  onThisTick,   (* Frames shown on the tick they waited for, since the     *)
                (* last tick.                                              *)
  tickedInWait  (* A tick has come since the wait began.                   *)

pacingHistory == <<sinceShown, onThisTick, tickedInWait>>

Shows == phase \in {"waiting", "pacing", "work"} /\ phase' \in {"top", "unpaced"}

RememberPacing ==
  /\ sinceShown' = IF Shows THEN 0
                   ELSE IF Elapse /\ sinceShown < FramePeriod THEN sinceShown + 1
                   ELSE sinceShown
  /\ onThisTick' = IF Tick THEN 0
                   ELSE IF FindTick \/ TickArrives THEN onThisTick + 1
                   ELSE onThisTick
  /\ tickedInWait' = (~AwaitTick /\ (tickedInWait \/ Tick))

MCPacingInit ==
  PacingInit /\ sinceShown = FramePeriod /\ onThisTick = 0 /\ tickedInWait = FALSE

MCPacingNext == PacingNext /\ RememberPacing

MCPacingVars == <<pacingVars, pacingHistory>>

MCPacingSpec == MCPacingInit /\ [][MCPacingNext]_MCPacingVars

-----------------------------------------------------------------------------
(* Properties. *)

(* The pacer's state is well formed: a lock rests on measurements made     *)
(* since the last reset, and no frame is on a tick that has not come.      *)
PacingTypeOK ==
  /\ sequence \in 0 .. MaxTicks /\ interval \in {"none", "period", "stall"}
  /\ link \in BOOLEAN /\ running \in BOOLEAN
  /\ seen \in 0 .. sequence /\ presented \in 0 .. sequence
  /\ observations \in 0 .. LockObservations
  /\ ticksPerFrame \in {0} \cup Locks
  /\ Locked => link /\ observations = LockObservations
  /\ due \in -Latest .. FramePeriod
  /\ phase \in Phases
  /\ wanted \in 0 .. MaxTicks + 4 /\ woken \in BOOLEAN
  /\ waitLeft \in 0 .. TickTimeout

(* "Do not repay a visible host stall with a short catch-up frame"         *)
(* (runner/sdl_main.c): after any stall, loss of the lock or unpaced frame *)
(* the clock lets a frame go no sooner than a frame, less the slack, after *)
(* the last one.                                                           *)
NoCatchUpFrame ==
  [][DeadlineComes => sinceShown >= FramePeriod - Slack]_MCPacingVars

(* "A frame that misses its tick presents on the next one without catching *)
(* up" (docs/ARCHITECTURE.md): however late the loop is, one tick never    *)
(* brings two frames.                                                      *)
OneFramePerTick == onThisTick <= 1

(* The host does not sleep on a tick that is there: none comes between the *)
(* look at the count and the wait, or unnoticed during it.                 *)
NoLostTick == phase = "waiting" /\ ~woken => ~Arrived(wanted)

(* "waits for the tick that is `ticks_per_frame' after the one the         *)
(* previous frame followed" and "ticks that stop for 50 ms release the     *)
(* lock" (docs/ARCHITECTURE.md): a wait that a tick came in does not       *)
(* release it.                                                             *)
LockHeldWhileTicking == [][ReleaseLock => ~tickedInWait]_MCPacingVars

(* Whether the display ticks on or not, and whatever is asked meanwhile,   *)
(* every wait ends.                                                        *)
WaitsEnd == phase \in {"unpaced", "waiting", "pacing"} ~> phase \in {"top", "over"}
=============================================================================
