----------------------------- MODULE FramePacing -----------------------------
(***************************************************************************)
(* How the macOS host waits before it shows a frame: on the display's own  *)
(* refresh ticks, which a thread of their own delivers and counts          *)
(* (runner/macos_display_link.m), when the pacer has locked to them        *)
(* (runner/desktop_pacer.c), and else on a deadline of the host's clock    *)
(* (PaceFrame and WaitForDisplayTick of runner/sdl_main.c).                *)
(*                                                                         *)
(* Ticks come when they come, and how the pacer's average of their         *)
(* intervals turns out is left open: what is measured may allow a lock or  *)
(* not.  The sub-tick fraction of the deadline is left out, and so is a    *)
(* condition wait that returns for no reason.                              *)
(***************************************************************************)
EXTENDS Integers

CONSTANTS
  FramePeriod,      (* A frame of 1 / kVideoRate seconds, in units of time.*)
  Slack,            (* The two milliseconds of PaceFrame.                  *)
  TickTimeout,      (* kDisplayTickTimeoutSeconds.                         *)
  LockObservations, (* kDkc2PacerLockObservations.                         *)
  Locks,            (* The ticks per frame the display's rate allows.      *)
  MaxTicks          (* Bound: the display ticks no more after this.        *)

ASSUME PacingAssumption ==
  /\ FramePeriod \in Nat /\ Slack \in Nat /\ Slack < FramePeriod
  /\ TickTimeout \in Nat \ {0}
  /\ LockObservations \in Nat \ {0}
  /\ Locks \subseteq 1 .. 4
  /\ MaxTicks \in Nat

VARIABLES
  sequence,      (* s_latest.sequence.                                     *)
  interval,      (* s_latest.interval: none yet, a period, or a stall.     *)
  link,          (* display_link && display_lock.                          *)
  running,       (* host.running.                                          *)
  presented,     (* presented_tick.                                        *)
  seen,          (* seen_tick.                                             *)
  observations,  (* pacer.observations.                                    *)
  ticksPerFrame, (* pacer.ticks_per_frame, zero while unlocked.            *)
  due,           (* The deadline, counted from now.                        *)
  phase,         (* Where the host's loop is.                              *)
  wanted,        (* The tick a wait is for.                                *)
  woken,         (* s_changed has been signalled since the wait began.     *)
  waitLeft       (* What is left of the wait's timeout.                    *)

tickVars  == <<sequence, interval>>
pacerVars == <<observations, ticksPerFrame>>
waitVars  == <<wanted, woken, waitLeft>>
pacingVars == <<tickVars, link, running, presented, seen, pacerVars, due, phase, waitVars>>

Phases == {"top", "work", "unpaced", "waiting", "pacing", "over"}

(* A deadline is missed by no more than this: beyond it all is the same.   *)
Latest == FramePeriod + Slack + 1

PacingInit ==
  /\ sequence = 0 /\ interval = "none"
  /\ link \in BOOLEAN /\ running = TRUE
  /\ presented = 0 /\ seen = 0
  /\ observations = 0 /\ ticksPerFrame = 0
  /\ due = 0
  /\ phase = "top"
  /\ wanted = 0 /\ woken = FALSE /\ waitLeft = 0

-----------------------------------------------------------------------------
(* The display's thread, and time. *)

(* Mutant: the tick is counted and nobody told. *)
BroadcastNothing == UNCHANGED woken

Broadcast == woken' = TRUE

Tick ==
  /\ link /\ phase # "over" /\ sequence < MaxTicks
  /\ sequence' = sequence + 1
  /\ interval' \in IF sequence = 0 THEN {"none"} ELSE {"period", "stall"}
  /\ Broadcast
  /\ UNCHANGED <<link, running, presented, seen, pacerVars, due, phase, wanted, waitLeft>>

Elapse ==
  /\ due' = IF due > -Latest THEN due - 1 ELSE due
  /\ waitLeft' = IF waitLeft > 0 THEN waitLeft - 1 ELSE 0
  /\ UNCHANGED <<tickVars, link, running, presented, seen, pacerVars, phase, wanted, woken>>

-----------------------------------------------------------------------------
(* Dkc2DesktopPacerObserve and Reset. *)

(* Mutant: the lock outlives the measurements it came from. *)
ResetMeasurements == observations' = 0 /\ UNCHANGED ticksPerFrame

Reset == observations' = 0 /\ ticksPerFrame' = 0

Enough == IF observations < LockObservations THEN observations + 1 ELSE observations

Observe ==
  CASE interval = "none"   -> UNCHANGED pacerVars
    [] interval = "stall"  -> Reset
    [] interval = "period" ->
         /\ observations' = Enough
         /\ IF Enough < LockObservations THEN UNCHANGED ticksPerFrame
            ELSE ticksPerFrame' \in {0} \cup Locks

-----------------------------------------------------------------------------
(* The host's loop. *)

Locked == ticksPerFrame # 0

(* PaceFrame begins: the next deadline. *)
StartPacing == phase' = "pacing" /\ due' = due + FramePeriod

(* The audio queue is not primed yet: the frame is shown at once, and the  *)
(* clock starts again from there.                                          *)
ShowUnpaced ==
  /\ phase = "work"
  /\ phase' = "unpaced"
  /\ UNCHANGED <<tickVars, link, running, presented, seen, pacerVars, due, waitVars>>

AnchorUnpaced ==
  /\ phase = "unpaced"
  /\ due' = 0 /\ phase' = "top"
  /\ UNCHANGED <<tickVars, link, running, presented, seen, pacerVars, waitVars>>

(* A turn without a frame, or without the display's ticks. *)
PaceByClock ==
  /\ phase = "work"
  /\ StartPacing
  /\ UNCHANGED <<tickVars, link, running, presented, seen, pacerVars, waitVars>>

(* WaitForDisplayTick while unlocked: a tick is observed once. *)
ObserveTick ==
  /\ phase = "work" /\ link /\ ~Locked
  /\ IF sequence > seen THEN Observe ELSE UNCHANGED pacerVars
  /\ seen' = sequence /\ presented' = sequence
  /\ StartPacing
  /\ UNCHANGED <<tickVars, link, running, waitVars>>

(* Mutant: the tick waited for is not enough. *)
ArrivedBeyond(tick) == sequence > tick

Arrived(tick) == sequence >= tick

(* Mutant: the next frame is due on the tick after the one that was missed.*)
WantedTick(tick) == tick

FollowedTick(tick) == sequence

(* The tick is there: the frame is shown, and the clock is set by it. *)
ShowOnTick(tick) ==
  /\ Arrived(tick)
  /\ Observe
  /\ presented' = FollowedTick(tick) /\ seen' = sequence
  /\ due' = 0 /\ phase' = "top"

NextTick == presented + ticksPerFrame

FindTick ==
  /\ phase = "work" /\ link /\ Locked
  /\ ShowOnTick(NextTick)
  /\ UNCHANGED <<tickVars, link, running, waitVars>>

AwaitTick ==
  /\ phase = "work" /\ link /\ Locked
  /\ ~Arrived(NextTick)
  /\ phase' = "waiting" /\ wanted' = NextTick
  /\ woken' = FALSE /\ waitLeft' = TickTimeout
  /\ UNCHANGED <<tickVars, link, running, presented, seen, pacerVars, due>>

(* Mutant: the wait has no timeout. *)
WaitOverByTick == woken

WaitOver == woken \/ waitLeft = 0

(* The condition wait returns once, whatever it was that ended it. *)
TickArrives ==
  /\ phase = "waiting" /\ WaitOver
  /\ ShowOnTick(wanted)
  /\ UNCHANGED <<tickVars, link, running, waitVars>>

ReleaseLock ==
  /\ phase = "waiting" /\ WaitOver
  /\ ~Arrived(wanted)
  /\ Reset
  /\ presented' = sequence /\ seen' = sequence
  /\ StartPacing
  /\ UNCHANGED <<tickVars, link, running, waitVars>>

(* Mutant: a miss is made up for by the frames after it. *)
DeadlineKept == due

Reanchored == IF due < -Slack THEN 0 ELSE due

(* PaceFrame's loop sees the deadline passed, or the host asked to quit. *)
DeadlineComes ==
  /\ phase = "pacing" /\ running /\ due <= 0
  /\ due' = Reanchored
  /\ phase' = "top"
  /\ UNCHANGED <<tickVars, link, running, presented, seen, pacerVars, waitVars>>

PacingEnds ==
  /\ phase = "pacing" /\ ~running
  /\ phase' = "top"
  /\ UNCHANGED <<tickVars, link, running, presented, seen, pacerVars, due, waitVars>>

(* PumpEvents sees the request to quit. *)
QuitWhilePacing ==
  /\ phase = "pacing" /\ running
  /\ running' = FALSE
  /\ UNCHANGED <<tickVars, link, presented, seen, pacerVars, due, phase, waitVars>>

(* The loop's test, and a turn up to its wait: the frame is made, and the  *)
(* host may have been asked to quit, or the run has ended.                 *)
BeginTurn ==
  /\ phase = "top" /\ running
  /\ phase' = "work" /\ running' \in BOOLEAN
  /\ UNCHANGED <<tickVars, link, presented, seen, pacerVars, due, waitVars>>

(* The loop is left and the link stopped. *)
StopLink ==
  /\ phase = "top" /\ ~running
  /\ phase' = "over" /\ woken' = TRUE
  /\ UNCHANGED <<tickVars, link, running, presented, seen, pacerVars, due, wanted, waitLeft>>

(* What the host does once it waits. *)
Proceed == AnchorUnpaced \/ TickArrives \/ ReleaseLock \/ DeadlineComes \/ PacingEnds

Host ==
  \/ BeginTurn \/ ShowUnpaced \/ PaceByClock \/ ObserveTick \/ FindTick \/ AwaitTick
  \/ QuitWhilePacing \/ StopLink \/ Proceed

PacingNext == Tick \/ Elapse \/ Host

PacingFairness == WF_pacingVars(Elapse) /\ WF_pacingVars(Proceed)
=============================================================================
