------------------------------ MODULE HostLoop ------------------------------
(***************************************************************************)
(* The loop of src/runner/sdl_main.c, the host that the game is shipped    *)
(* in: one turn takes the user's actions, saves and loads states, chooses  *)
(* between normal speed, fast forward and rewinding, runs frames or        *)
(* restores one, feeds the audio queue, and waits or does not.             *)
(*                                                                         *)
(* The emulated machine is deterministic, so its state is the inputs it    *)
(* was given since it was started.  The history of snapshots is the        *)
(* bounded stack that the ring of desktop_rewind.c implements (RewindRing);*)
(* a pop gives back the state the machine goes on from.  Audio is counted  *)
(* in chunks, one for a frame; a chunk is the state it was played in.      *)
(***************************************************************************)
EXTENDS Naturals, Sequences, SequencesExt

CONSTANTS
  Inputs,            (* Controller words.                                  *)
  Slots,             (* Save slots.                                        *)
  Capacity,          (* kRewindSnapshotCapacity.                           *)
  SnapshotInterval,  (* kRewindSnapshotInterval.                           *)
  HostSpeed,         (* kHostSpeedMultiplier.                              *)
  TargetChunks,      (* AudioTargetFrames, in chunks.                      *)
  LowChunks,         (* kMaximumFrameAudio, in chunks: 1.                  *)
  Empty,             (* What a slot without a usable file holds.           *)
  MaxFrames          (* Bound: the longest play.                           *)

ASSUME HostAssumption ==
  /\ Capacity \in Nat \ {0}
  /\ SnapshotInterval \in Nat \ {0}
  /\ HostSpeed \in Nat \ {0}
  /\ TargetChunks \in Nat \ {0}
  /\ LowChunks \in 1 .. TargetChunks
  /\ MaxFrames \in Nat

StateActions == {"save", "load"}
Actions == StateActions \cup {"rewind", "fast"}
Modes == {"normal", "rewind", "fast"}
Phases == {"top", "load", "mode", "rewind", "run", "pace", "done"}

VARIABLES
  phase,             (* Where in its turn the loop is.                     *)
  running,           (* host.running.                                      *)
  failure,           (* runtime_failure.                                   *)
  overlayOpen,       (* The overlay, as the loop last saw it.              *)
  actions,           (* controls.host_actions of this turn.                *)
  previousActions,   (* previous_state_actions.                            *)
  mode,              (* mode.                                              *)
  previousMode,      (* previous_mode.                                     *)
  framesLeft,        (* Frames this turn has still to run.                 *)
  frameReady,        (* frame_ready.                                       *)
  machine,           (* The state of the emulated machine.                 *)
  slots,             (* The save files.                                    *)
  stack,             (* rewind_history, oldest first.                      *)
  captureCounter,    (* rewind_capture_counter.                            *)
  rewindAvailable,   (* rewind_available.                                  *)
  audioAvailable,    (* host.audio_available.                              *)
  audioPaused,       (* The loop's last order to the device: pause.         *)
  audioPrimed,       (* host.audio_primed.                                 *)
  queued             (* The device's queue, oldest chunk first.            *)

controlVars == <<phase, running, failure>>
inputVars == <<overlayOpen, actions, previousActions>>
modeVars == <<mode, previousMode, framesLeft, frameReady>>
rewindVars == <<stack, captureCounter, rewindAvailable>>
audioVars == <<audioAvailable, audioPaused, audioPrimed, queued>>
hostVars == <<controlVars, inputVars, modeVars, machine, slots, rewindVars,
              audioVars>>

Plays == Seq(Inputs)

History == INSTANCE RewindStack WITH
  Snapshots <- Plays, Nothing <- <<>>, popped <- machine

HostInit ==
  /\ phase = "top" /\ running = TRUE /\ failure = FALSE
  /\ overlayOpen = FALSE /\ actions = {} /\ previousActions = {}
  /\ mode = "normal" /\ previousMode = "normal"
  /\ framesLeft = 0 /\ frameReady = FALSE
  /\ machine = <<>>
  /\ slots = [s \in Slots |-> Empty]
  /\ rewindAvailable \in BOOLEAN
  /\ stack = IF rewindAvailable THEN <<machine>> ELSE <<>>
  /\ captureCounter = 0
  /\ audioAvailable \in BOOLEAN
  /\ audioPaused = FALSE /\ audioPrimed = FALSE
  /\ queued = <<>>

-----------------------------------------------------------------------------
(* The device. *)

(* SDL's audio thread takes what is queued, between any two steps. *)
DevicePull ==
  /\ ~audioPaused
  /\ queued # <<>>
  /\ queued' = Tail(queued)
  /\ UNCHANGED <<controlVars, inputVars, modeVars, machine, slots, rewindVars,
                 audioAvailable, audioPaused, audioPrimed>>

(* ResetAudio. *)
ResetAudio == queued' = <<>> /\ audioPrimed' = FALSE

KeepAudio == UNCHANGED <<queued, audioPrimed>>

-----------------------------------------------------------------------------
(* The first part of a turn: what the user asks for. *)

Leave ==
  /\ phase = "top"
  /\ ~running
  /\ phase' = "done"
  /\ UNCHANGED <<running, failure, inputVars, modeVars, machine, slots,
                 rewindVars, audioVars>>

(* pressed_state_actions: an action held since the last turn is not new. *)
New(asked) == (asked \cap StateActions) \ previousActions

(* A save that fails may have left the file as it was or spoilt it. *)
Save(s) == \E file \in {machine, Empty, slots[s]} :
             slots' = [slots EXCEPT ![s] = file]

(* Events, controls, overlay, and a save if one is asked for.  An open     *)
(* overlay takes the controls for itself, but has a save and a load of its *)
(* own; so has the platform's menu.                                        *)
BeginTurn ==
  /\ phase = "top"
  /\ running
  /\ running' \in BOOLEAN
  /\ overlayOpen' \in BOOLEAN
  /\ actions' \in SUBSET (IF overlayOpen' THEN StateActions ELSE Actions)
  /\ IF overlayOpen' # overlayOpen
       THEN ResetAudio /\ audioPaused' = overlayOpen'
       ELSE KeepAudio /\ UNCHANGED audioPaused
  /\ IF "save" \in New(actions')
       THEN \E s \in Slots : Save(s) ELSE UNCHANGED slots
  /\ phase' = "load"
  /\ UNCHANGED <<failure, previousActions, modeVars, machine, rewindVars,
                 audioAvailable>>

(* Quit chosen in the overlay leaves the loop in the middle of the turn. *)
QuitFromOverlay ==
  /\ phase = "top"
  /\ running
  /\ running' = FALSE
  /\ phase' = "done"
  /\ UNCHANGED <<failure, inputVars, modeVars, machine, slots, rewindVars,
                 audioVars>>

(* Mutant: the history of the play that is left is kept. *)
LoadKeepHistory(s) ==
  /\ slots[s] # Empty
  /\ machine' = slots[s]
  /\ ResetAudio
  /\ UNCHANGED <<stack, captureCounter>>

(* Mutant: the queue still plays what was before. *)
LoadKeepAudio(s) ==
  /\ slots[s] # Empty
  /\ machine' = slots[s]
  /\ KeepAudio
  /\ stack' \in {<<>>} \cup (IF rewindAvailable THEN {<<machine'>>} ELSE {})
  /\ captureCounter' = 0

(* A state loaded starts a history of its own. *)
Load(s) ==
  /\ slots[s] # Empty
  /\ machine' = slots[s]
  /\ ResetAudio
  /\ stack' \in {<<>>} \cup (IF rewindAvailable THEN {<<machine'>>} ELSE {})
  /\ captureCounter' = 0

NothingLoaded == KeepAudio /\ UNCHANGED <<machine, stack, captureCounter>>

LoadState ==
  /\ phase = "load"
  /\ IF "load" \in New(actions)
       THEN NothingLoaded \/ \E s \in Slots : Load(s)
       ELSE NothingLoaded
  /\ previousActions' = actions \cap StateActions
  /\ actions' = actions \ StateActions
  /\ phase' = "mode"
  /\ UNCHANGED <<running, failure, overlayOpen, modeVars, slots,
                 rewindAvailable, audioAvailable, audioPaused>>

-----------------------------------------------------------------------------
(* The second part: frames. *)

ModeAsked == IF "rewind" \in actions THEN "rewind"
             ELSE IF "fast" \in actions THEN "fast" ELSE "normal"

(* With the overlay open nothing is run, and the last frame is shown.  The *)
(* turn's actions are not looked at again.                                 *)
ChooseMode ==
  /\ phase = "mode"
  /\ actions' = {}
  /\ IF ModeAsked # previousMode THEN ResetAudio ELSE KeepAudio
  /\ previousMode' = ModeAsked
  /\ mode' = IF overlayOpen THEN "normal" ELSE ModeAsked
  /\ frameReady' = overlayOpen
  /\ framesLeft' = CASE ModeAsked = "fast" -> HostSpeed
                     [] ModeAsked = "normal" -> 1
                     [] OTHER -> 0
  /\ phase' = IF overlayOpen THEN "pace"
              ELSE IF ModeAsked = "rewind" THEN "rewind" ELSE "run"
  /\ UNCHANGED <<running, failure, overlayOpen, previousActions, machine,
                 slots, rewindVars, audioAvailable, audioPaused>>

(* The newest snapshot is taken out and the machine put into its state. *)
RewindFrame ==
  /\ phase = "rewind"
  /\ rewindAvailable
  /\ History!Pop
  /\ frameReady' = TRUE
  /\ phase' = "pace"
  /\ UNCHANGED <<running, failure, inputVars, mode, previousMode, framesLeft,
                 slots, captureCounter, rewindAvailable, audioVars>>

RewindFails ==
  /\ phase = "rewind"
  /\ rewindAvailable
  /\ stack # <<>>
  /\ stack' = SubSeq(stack, 1, Len(stack) - 1)
  /\ failure' = TRUE
  /\ phase' = "done"
  /\ UNCHANGED <<running, inputVars, modeVars, machine, slots, captureCounter,
                 rewindAvailable, audioVars>>

NothingToRewind ==
  /\ phase = "rewind"
  /\ ~rewindAvailable \/ stack = <<>>
  /\ phase' = "pace"
  /\ UNCHANGED <<running, failure, inputVars, modeVars, machine, slots,
                 rewindVars, audioVars>>

(* Mutant: a frame late. *)
CaptureDueLate == captureCounter >= SnapshotInterval

CaptureDue == captureCounter + 1 >= SnapshotInterval

(* Every SnapshotInterval-th frame is kept; a snapshot that cannot be taken *)
(* ends rewinding for good.  Nobody reads the counter from then on.        *)
Capture ==
  IF ~rewindAvailable
    THEN UNCHANGED rewindVars
    ELSE IF CaptureDue
      THEN /\ captureCounter' = 0
           /\ \/ stack' = History!Keep(machine') /\ UNCHANGED rewindAvailable
              \/ rewindAvailable' = FALSE /\ UNCHANGED stack
      ELSE /\ captureCounter' = captureCounter + 1
           /\ UNCHANGED <<stack, rewindAvailable>>

(* QueueAudio: a queue that takes no more is emptied and tried again. *)
QueueAudio ==
  \/ queued' = Append(queued, machine') /\ UNCHANGED audioAvailable
  \/ queued' = <<machine'>> /\ UNCHANGED audioAvailable
  \/ queued' = <<>> /\ audioAvailable' = FALSE

(* Mutant: fast forward is heard too. *)
HeardAlways == audioAvailable

(* Only play at its own speed is heard. *)
Heard == mode = "normal" /\ audioAvailable

RunFrame ==
  /\ phase = "run"
  /\ running
  /\ framesLeft > 0
  /\ Len(machine) < MaxFrames
  /\ \E input \in Inputs : machine' = Append(machine, input)
  /\ Capture
  /\ IF Heard THEN QueueAudio ELSE UNCHANGED <<queued, audioAvailable>>
  /\ frameReady' = TRUE
  /\ framesLeft' = framesLeft - 1
  /\ UNCHANGED <<controlVars, inputVars, mode, previousMode, slots,
                 audioPaused, audioPrimed>>

(* The recorder or the runtime stops. *)
RunFails ==
  /\ phase = "run"
  /\ running
  /\ framesLeft > 0
  /\ failure' = TRUE
  /\ phase' = "done"
  /\ UNCHANGED <<running, inputVars, modeVars, machine, slots, rewindVars,
                 audioVars>>

RunEnds ==
  /\ phase = "run"
  /\ framesLeft = 0 \/ ~running
  /\ phase' = "pace"
  /\ UNCHANGED <<running, failure, inputVars, modeVars, machine, slots,
                 rewindVars, audioVars>>

-----------------------------------------------------------------------------
(* The last part: presenting and waiting. *)

PrimedNow == audioPrimed \/ Len(queued) >= TargetChunks

(* Mutant: only the queue says whether to wait. *)
ShouldPaceByQueue ==
  \/ ~audioAvailable
  \/ Len(queued) >= (IF PrimedNow THEN LowChunks ELSE TargetChunks)

(* should_pace: the turn waits for its time. *)
ShouldPace ==
  \/ overlayOpen
  \/ mode # "normal"
  \/ ~audioAvailable
  \/ Len(queued) >= (IF PrimedNow THEN LowChunks ELSE TargetChunks)

(* While it waits the loop takes events, a quit among them.  The variables *)
(* of the turn end with it.                                                *)
EndTurn ==
  /\ phase = "pace"
  /\ audioPrimed' = PrimedNow
  /\ running' \in IF ShouldPace /\ running THEN BOOLEAN ELSE {running}
  /\ mode' = "normal" /\ framesLeft' = 0 /\ frameReady' = FALSE
  /\ phase' = "top"
  /\ UNCHANGED <<failure, inputVars, previousMode, machine, slots, rewindVars,
                 audioAvailable, audioPaused, queued>>

PresentFails ==
  /\ phase = "pace"
  /\ frameReady
  /\ failure' = TRUE
  /\ phase' = "done"
  /\ audioPrimed' = PrimedNow
  /\ UNCHANGED <<running, inputVars, modeVars, machine, slots, rewindVars,
                 audioAvailable, audioPaused, queued>>

Turn == Leave \/ BeginTurn \/ QuitFromOverlay \/ LoadState
          \/ ChooseMode \/ RewindFrame \/ RewindFails \/ NothingToRewind
          \/ RunFrame \/ RunFails \/ RunEnds \/ EndTurn \/ PresentFails

HostNext == Turn \/ DevicePull

HostSpec == HostInit /\ [][HostNext]_hostVars

-----------------------------------------------------------------------------
(* Properties. *)

HostTypeOK ==
  /\ phase \in Phases
  /\ running \in BOOLEAN /\ failure \in BOOLEAN
  /\ overlayOpen \in BOOLEAN
  /\ actions \subseteq Actions /\ previousActions \subseteq StateActions
  /\ mode \in Modes /\ previousMode \in Modes
  /\ framesLeft \in 0 .. HostSpeed /\ frameReady \in BOOLEAN
  /\ machine \in Plays
  /\ slots \in [Slots -> Plays \cup {Empty}]
  /\ stack \in Seq(Plays) /\ Len(stack) <= Capacity
  /\ captureCounter \in 0 .. SnapshotInterval - 1
  /\ rewindAvailable \in BOOLEAN
  /\ audioAvailable \in BOOLEAN /\ audioPaused \in BOOLEAN
  /\ audioPrimed \in BOOLEAN
  /\ queued \in Seq(Plays)

(* Rewinding only ever goes back along the play that led to where the      *)
(* machine is: through any saves, loads, rewinds and new play, the history *)
(* holds earlier and earlier moments of this play and of no other.         *)
RewindGoesBack ==
  /\ \A i \in 1 .. Len(stack) - 1 : IsStrictPrefix(stack[i], stack[i + 1])
  /\ stack # <<>> => IsPrefix(stack[Len(stack)], machine)

(* What is still to be heard is the sound of the last frames of this play, *)
(* in order and without a gap: none of a play that was rewound or left by  *)
(* loading a state, and none of what fast forward skipped.                 *)
AudioIsLatestPlay ==
  /\ Len(queued) <= Len(machine)
  /\ \A i \in 1 .. Len(queued) :
       queued[i] = SubSeq(machine, 1, Len(machine) - Len(queued) + i)

(* While time is not running at its own speed nothing is heard, and the    *)
(* device has orders to pause exactly while the overlay is open.           *)
SilentUnlessPlaying ==
  /\ phase \in {"rewind", "run", "pace"} /\ (overlayOpen \/ mode # "normal") =>
       queued = <<>>
  /\ audioPaused = overlayOpen

(* The loop never spins: a turn that does not wait has run a frame.        *)
NeverSpins == phase = "pace" /\ running /\ ~ShouldPace => frameReady

=============================================================================
