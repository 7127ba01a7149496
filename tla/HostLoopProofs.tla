--------------------------- MODULE HostLoopProofs ---------------------------
(***************************************************************************)
(* Theorems about HostLoop, for all inputs, slots, capacities and speeds.  *)
(***************************************************************************)
EXTENDS HostLoop, TLAPS

-----------------------------------------------------------------------------
(* Prefixes. *)

LEMMA PrefixPointwise ==
  ASSUME NEW S, NEW s \in Seq(S), NEW t \in Seq(S)
  PROVE  IsPrefix(s, t) <=>
           Len(s) <= Len(t) /\ \A i \in 1 .. Len(s) : s[i] = t[i]
<1>1. ASSUME Len(s) <= Len(t)
      PROVE  /\ SubSeq(s, 1, Len(s)) \in Seq(S)
             /\ Len(SubSeq(s, 1, Len(s))) = Len(s)
             /\ \A i \in 1 .. Len(s) : SubSeq(s, 1, Len(s))[i] = s[i]
             /\ SubSeq(t, 1, Len(s)) \in Seq(S)
             /\ Len(SubSeq(t, 1, Len(s))) = Len(s)
             /\ \A i \in 1 .. Len(s) : SubSeq(t, 1, Len(s))[i] = t[i]
  BY <1>1
<1>2. ASSUME IsPrefix(s, t)
      PROVE  Len(s) <= Len(t) /\ \A i \in 1 .. Len(s) : s[i] = t[i]
  BY <1>1, <1>2 DEF IsPrefix
<1>3. ASSUME Len(s) <= Len(t), \A i \in 1 .. Len(s) : s[i] = t[i]
      PROVE  IsPrefix(s, t)
  BY <1>1, <1>3 DEF IsPrefix
<1> QED
  BY <1>2, <1>3

LEMMA PrefixReflexive ==
  ASSUME NEW S, NEW s \in Seq(S)
  PROVE  IsPrefix(s, s)
BY PrefixPointwise

LEMMA PrefixTransitive ==
  ASSUME NEW S, NEW s \in Seq(S), NEW t \in Seq(S), NEW u \in Seq(S),
         IsPrefix(s, t), IsPrefix(t, u)
  PROVE  IsPrefix(s, u)
BY PrefixPointwise

(* A frame more: every prefix of the play before is a strict one now. *)
LEMMA PrefixOfMore ==
  ASSUME NEW S, NEW s \in Seq(S), NEW t \in Seq(S), NEW x \in S,
         IsPrefix(s, t)
  PROVE  IsStrictPrefix(s, Append(t, x))
<1>1. /\ Len(s) <= Len(t)
      /\ \A i \in 1 .. Len(s) : s[i] = t[i]
  BY PrefixPointwise
<1>2. /\ Append(t, x) \in Seq(S)
      /\ Len(Append(t, x)) = Len(t) + 1
      /\ \A i \in 1 .. Len(t) : Append(t, x)[i] = t[i]
  OBVIOUS
<1>3. IsPrefix(s, Append(t, x))
  <2>1. \A i \in 1 .. Len(s) : s[i] = Append(t, x)[i]
    BY <1>1, <1>2
  <2>2. \A u \in Seq(S) :
          Len(s) <= Len(u) /\ (\A i \in 1 .. Len(s) : s[i] = u[i])
            => IsPrefix(s, u)
    BY PrefixPointwise
  <2>3. Len(s) <= Len(Append(t, x))
    BY <1>1, <1>2
  <2> QED
    BY <1>2, <2>1, <2>2, <2>3
<1>4. s # Append(t, x)
  BY <1>1, <1>2
<1> QED
  BY <1>3, <1>4 DEF IsStrictPrefix

(* The moments of a play do not change when the play goes on. *)
LEMMA MomentsStay ==
  ASSUME NEW S, NEW t \in Seq(S), NEW x \in S, NEW k \in 0 .. Len(t)
  PROVE  SubSeq(Append(t, x), 1, k) = SubSeq(t, 1, k)
<1>1. /\ SubSeq(t, 1, k) \in Seq(S)
      /\ Len(SubSeq(t, 1, k)) = k
      /\ \A i \in 1 .. k : SubSeq(t, 1, k)[i] = t[i]
  OBVIOUS
<1>2. /\ Append(t, x) \in Seq(S)
      /\ Len(Append(t, x)) = Len(t) + 1
      /\ \A i \in 1 .. Len(t) : Append(t, x)[i] = t[i]
  OBVIOUS
<1>3. /\ SubSeq(Append(t, x), 1, k) \in Seq(S)
      /\ Len(SubSeq(Append(t, x), 1, k)) = k
      /\ \A i \in 1 .. k : SubSeq(Append(t, x), 1, k)[i] = Append(t, x)[i]
  BY <1>2
<1> QED
  BY <1>1, <1>2, <1>3

LEMMA WholeMoment ==
  ASSUME NEW S, NEW t \in Seq(S)
  PROVE  SubSeq(t, 1, Len(t)) = t
OBVIOUS

LEMMA FrontOfSeq ==
  ASSUME NEW S, NEW t \in Seq(S), t # <<>>
  PROVE  /\ SubSeq(t, 1, Len(t) - 1) \in Seq(S)
         /\ Len(SubSeq(t, 1, Len(t) - 1)) = Len(t) - 1
         /\ \A i \in 1 .. Len(t) - 1 : SubSeq(t, 1, Len(t) - 1)[i] = t[i]
<1>1. Len(t) \in Nat /\ Len(t) # 0
  OBVIOUS
<1>2. \A i \in 1 .. Len(t) - 1 : t[i] \in S
  BY <1>1
<1>3. SubSeq(t, 1, Len(t) - 1) \in Seq(S)
  BY <1>1, <1>2
<1>4. Len(SubSeq(t, 1, Len(t) - 1)) = Len(t) - 1
  <2>1. \A k \in 0 .. Len(t) : Len(SubSeq(t, 1, k)) = k
    OBVIOUS
  <2>2. Len(t) - 1 \in 0 .. Len(t)
    BY <1>1
  <2> QED
    BY <2>1, <2>2, Zenon
<1>5. \A i \in 1 .. Len(t) - 1 : SubSeq(t, 1, Len(t) - 1)[i] = t[i]
  BY <1>1
<1> QED
  BY <1>3, <1>4, <1>5

-----------------------------------------------------------------------------
(* Types. *)

LEMMA KeepType ==
  ASSUME HostAssumption, stack \in Seq(Plays), Len(stack) <= Capacity,
         NEW s \in Plays
  PROVE  /\ History!Keep(s) \in Seq(Plays)
         /\ Len(History!Keep(s)) <= Capacity
<1>1. CASE Len(stack) = Capacity
  <2>1. stack # <<>>
    BY <1>1 DEF HostAssumption
  <2>2. Tail(stack) \in Seq(Plays) /\ Len(Tail(stack)) = Len(stack) - 1
    BY <2>1
  <2> QED
    BY <1>1, <2>2 DEF History!Keep, HostAssumption
<1>2. CASE Len(stack) # Capacity
  BY <1>2 DEF History!Keep, HostAssumption
<1> QED
  BY <1>1, <1>2

LEMMA InitHostTypeOK ==
  HostInit => HostTypeOK
<1> SUFFICES ASSUME HostInit PROVE HostTypeOK
  OBVIOUS
<1>1. machine \in Plays /\ queued \in Seq(Plays)
  BY DEF HostInit, Plays
<1>2. stack \in Seq(Plays) /\ Len(stack) <= Capacity
  BY <1>1, HostAssumption DEF HostInit, HostAssumption
<1>3. framesLeft \in 0 .. HostSpeed
      /\ captureCounter \in 0 .. SnapshotInterval - 1
  BY HostAssumption DEF HostInit, HostAssumption
<1>4. slots \in [Slots -> Plays \cup {Empty}]
  BY DEF HostInit
<1> QED
  BY <1>1, <1>2, <1>3, <1>4
  DEF HostInit, HostTypeOK, Phases, Modes

LEMMA AudioType ==
  ASSUME queued \in Seq(Plays), audioPrimed \in BOOLEAN,
         ResetAudio \/ KeepAudio
  PROVE  queued' \in Seq(Plays) /\ audioPrimed' \in BOOLEAN
<1>1. CASE ResetAudio
  <2>1. queued' = <<>>
    BY <1>1 DEF ResetAudio
  <2>2. queued' \in Seq(Plays)
    BY <2>1
  <2>3. audioPrimed' \in BOOLEAN
    BY <1>1 DEF ResetAudio
  <2> QED
    BY <2>2, <2>3
<1>2. CASE KeepAudio
  BY <1>2 DEF KeepAudio
<1> QED
  BY <1>1, <1>2

LEMMA DeviceTypeOK ==
  ASSUME HostTypeOK, DevicePull
  PROVE  HostTypeOK'
<1>1. queued' \in Seq(Plays)
  BY DEF HostTypeOK, DevicePull
<1> QED
  BY <1>1 DEF HostTypeOK, DevicePull, controlVars, inputVars, modeVars,
     rewindVars

(* The steps that change neither the machine nor what is kept of it. *)
LEMMA QuietTypeOK ==
  ASSUME HostTypeOK,
         Leave \/ QuitFromOverlay \/ NothingToRewind \/ RunFails \/ RunEnds
           \/ EndTurn \/ PresentFails
  PROVE  HostTypeOK'
<1> USE HostAssumption DEF HostAssumption, HostTypeOK, Phases, Modes,
    controlVars, inputVars, modeVars, rewindVars, audioVars
<1>1. CASE Leave
  BY <1>1 DEF Leave
<1>2. CASE QuitFromOverlay
  BY <1>2 DEF QuitFromOverlay
<1>3. CASE NothingToRewind
  BY <1>3 DEF NothingToRewind
<1>4. CASE RunFails
  BY <1>4 DEF RunFails
<1>5. CASE RunEnds
  BY <1>5 DEF RunEnds
<1>6. CASE EndTurn
  <2>1. audioPrimed' \in BOOLEAN
    BY <1>6 DEF EndTurn, PrimedNow
  <2>2. running' \in BOOLEAN
    BY <1>6, Zenon DEF EndTurn
  <2>3. framesLeft' \in 0 .. HostSpeed
    BY <1>6 DEF EndTurn
  <2> QED
    BY <1>6, <2>1, <2>2, <2>3 DEF EndTurn
<1>7. CASE PresentFails
  <2>1. audioPrimed' \in BOOLEAN
    BY <1>7 DEF PresentFails, PrimedNow
  <2> QED
    BY <1>7, <2>1 DEF PresentFails
<1> QED
  BY <1>1, <1>2, <1>3, <1>4, <1>5, <1>6, <1>7

LEMMA BeginTypeOK ==
  ASSUME HostTypeOK, BeginTurn
  PROVE  HostTypeOK'
<1>1. slots' \in [Slots -> Plays \cup {Empty}]
  BY DEF HostTypeOK, BeginTurn, Save
<1>2. actions' \subseteq Actions
  BY DEF BeginTurn, Actions
<1>3. queued' \in Seq(Plays) /\ audioPrimed' \in BOOLEAN
  <2>1. ResetAudio \/ KeepAudio
    BY DEF BeginTurn
  <2> QED
    BY <2>1, AudioType DEF HostTypeOK
<1>4. audioPaused' \in BOOLEAN
  BY Zenon DEF HostTypeOK, BeginTurn
<1> QED
  BY <1>1, <1>2, <1>3, <1>4 DEF HostTypeOK, BeginTurn, modeVars, rewindVars, Phases

LEMMA LoadTypeOK ==
  ASSUME HostTypeOK, LoadState
  PROVE  HostTypeOK'
<1> DEFINE Parts ==
      /\ queued' \in Seq(Plays) /\ audioPrimed' \in BOOLEAN
      /\ machine' \in Plays
      /\ stack' \in Seq(Plays) /\ Len(stack') <= Capacity
      /\ captureCounter' \in 0 .. SnapshotInterval - 1
<1>1. Parts
  <2>1. CASE NothingLoaded
    BY <2>1, AudioType DEF HostTypeOK, NothingLoaded
  <2>2. ASSUME NEW s \in Slots, Load(s)
        PROVE  Parts
    <3>1. machine' \in Plays
      BY <2>2 DEF HostTypeOK, Load
    <3>2. stack' \in Seq(Plays) /\ Len(stack') <= Capacity
      <4>1. stack' = <<>> \/ stack' = <<machine'>>
        BY <2>2 DEF Load
      <4>2. <<machine'>> \in Seq(Plays) /\ Len(<<machine'>>) = 1
        BY <3>1
      <4>3. <<>> \in Seq(Plays) /\ Len(<<>>) = 0
        OBVIOUS
      <4>4. 1 <= Capacity
        BY HostAssumption DEF HostAssumption
      <4>5. CASE stack' = <<>>
        BY <4>3, <4>4, <4>5, HostAssumption DEF HostAssumption
      <4>6. CASE stack' = <<machine'>>
        BY <4>2, <4>4, <4>6
      <4> QED
        BY <4>1, <4>5, <4>6
    <3>3. captureCounter' \in 0 .. SnapshotInterval - 1
      BY <2>2, HostAssumption DEF Load, HostAssumption
    <3>4. queued' \in Seq(Plays) /\ audioPrimed' \in BOOLEAN
      BY <2>2, AudioType DEF HostTypeOK, Load
    <3> QED
      BY <3>1, <3>2, <3>3, <3>4
  <2>3. NothingLoaded \/ \E s \in Slots : Load(s)
    BY DEF LoadState
  <2> QED
    BY <2>1, <2>2, <2>3
<1>2. actions' \subseteq Actions /\ previousActions' \subseteq StateActions
  BY DEF HostTypeOK, LoadState
<1> QED
  BY <1>1, <1>2 DEF HostTypeOK, LoadState, modeVars, Phases

LEMMA ModeTypeOK ==
  ASSUME HostTypeOK, ChooseMode
  PROVE  HostTypeOK'
<1>1. queued' \in Seq(Plays) /\ audioPrimed' \in BOOLEAN
  <2>1. ResetAudio \/ KeepAudio
    BY DEF ChooseMode
  <2> QED
    BY <2>1, AudioType DEF HostTypeOK
<1>2. mode' \in Modes /\ previousMode' \in Modes
  BY DEF ChooseMode, ModeAsked, Modes
<1>3. framesLeft' \in 0 .. HostSpeed
  BY HostAssumption DEF ChooseMode, ModeAsked, HostAssumption
<1> QED
  BY <1>1, <1>2, <1>3 DEF HostTypeOK, ChooseMode, rewindVars, Phases

LEMMA RewindTypeOK ==
  ASSUME HostTypeOK, RewindFrame \/ RewindFails
  PROVE  HostTypeOK'
<1>1. stack # <<>>
  BY DEF RewindFrame, RewindFails, History!Pop
<1>2. stack' = SubSeq(stack, 1, Len(stack) - 1)
  BY DEF RewindFrame, RewindFails, History!Pop
<1>3. stack' \in Seq(Plays) /\ Len(stack') = Len(stack) - 1
      /\ stack[Len(stack)] \in Plays
  <2>1. stack \in Seq(Plays)
    BY DEF HostTypeOK
  <2>2. Len(stack) \in Nat /\ Len(stack) > 0
    BY <1>1, <2>1
  <2>3. /\ SubSeq(stack, 1, Len(stack) - 1) \in Seq(Plays)
        /\ Len(SubSeq(stack, 1, Len(stack) - 1)) = Len(stack) - 1
    BY <1>1, <2>1, FrontOfSeq
  <2>4. stack[Len(stack)] \in Plays
    BY <2>1, <2>2
  <2> QED
    BY <1>2, <2>3, <2>4
<1>4. CASE RewindFrame
  BY <1>3, <1>4, HostAssumption DEF HostTypeOK, RewindFrame, History!Pop,
     inputVars, audioVars, Phases, HostAssumption
<1>5. CASE RewindFails
  BY <1>3, <1>5, HostAssumption DEF HostTypeOK, RewindFails, inputVars,
     modeVars, audioVars, Phases, HostAssumption
<1> QED
  BY <1>4, <1>5

LEMMA RunTypeOK ==
  ASSUME HostTypeOK, RunFrame
  PROVE  HostTypeOK'
<1>1. machine' \in Plays
  BY DEF HostTypeOK, RunFrame, Plays
<1>2. /\ stack' \in Seq(Plays) /\ Len(stack') <= Capacity
      /\ captureCounter' \in 0 .. SnapshotInterval - 1
      /\ rewindAvailable' \in BOOLEAN
  <2>1. CASE ~rewindAvailable
    BY <2>1 DEF HostTypeOK, RunFrame, Capture, rewindVars
  <2>2. CASE rewindAvailable /\ CaptureDue
    <3>1. \/ stack' = History!Keep(machine') /\ rewindAvailable' = rewindAvailable
          \/ stack' = stack /\ rewindAvailable' = FALSE
      BY <2>2 DEF RunFrame, Capture
    <3>2. captureCounter' = 0
      BY <2>2 DEF RunFrame, Capture
    <3>3. stack' \in Seq(Plays) /\ Len(stack') <= Capacity
      BY <1>1, <3>1, KeepType, HostAssumption DEF HostTypeOK
    <3>4. rewindAvailable' \in BOOLEAN
      BY <3>1 DEF HostTypeOK
    <3>5. captureCounter' \in 0 .. SnapshotInterval - 1
      BY <3>2, HostAssumption DEF HostAssumption
    <3> QED
      BY <3>3, <3>4, <3>5
  <2>3. CASE rewindAvailable /\ ~CaptureDue
    BY <2>3, HostAssumption
    DEF HostTypeOK, RunFrame, Capture, CaptureDue, HostAssumption
  <2> QED
    BY <2>1, <2>2, <2>3
<1>3. queued' \in Seq(Plays) /\ audioAvailable' \in BOOLEAN
  <2>1. CASE QueueAudio
    <3>1. queued \in Seq(Plays) /\ audioAvailable \in BOOLEAN
      BY DEF HostTypeOK
    <3>2. /\ Append(queued, machine') \in Seq(Plays)
          /\ <<machine'>> \in Seq(Plays)
          /\ <<>> \in Seq(Plays)
      BY <1>1, <3>1
    <3>3. queued' \in {Append(queued, machine'), <<machine'>>, <<>>}
      BY <2>1 DEF QueueAudio
    <3>4. audioAvailable' \in BOOLEAN
      BY <2>1, <3>1 DEF QueueAudio
    <3> QED
      BY <3>2, <3>3, <3>4
  <2>2. CASE UNCHANGED <<queued, audioAvailable>>
    BY <2>2 DEF HostTypeOK
  <2> QED
    BY <2>1, <2>2 DEF RunFrame
<1>4. framesLeft' \in 0 .. HostSpeed
  BY HostAssumption DEF HostTypeOK, RunFrame, HostAssumption
<1> QED
  BY <1>1, <1>2, <1>3, <1>4 DEF HostTypeOK, RunFrame, controlVars, inputVars

LEMMA NextHostTypeOK ==
  ASSUME HostTypeOK, [HostNext]_hostVars
  PROVE  HostTypeOK'
<1>1. CASE UNCHANGED hostVars
  BY <1>1 DEF HostTypeOK, hostVars, controlVars, inputVars, modeVars,
     rewindVars, audioVars
<1> QED
  BY <1>1, DeviceTypeOK, QuietTypeOK, BeginTypeOK, LoadTypeOK, ModeTypeOK,
     RewindTypeOK, RunTypeOK DEF HostNext, Turn

(* Through any turns the loop's state keeps its shape: the history never   *)
(* holds more than its capacity, the capture counter never reaches the     *)
(* interval, and no turn runs more frames than its speed.                  *)
THEOREM HostTypeInvariant == HostSpec => []HostTypeOK
BY InitHostTypeOK, NextHostTypeOK, PTL DEF HostSpec

-----------------------------------------------------------------------------
(* Sound and modes. *)

(* What holds between the modes, the overlay and the queue at every step.  *)
TurnInv ==
  /\ overlayOpen => queued = <<>>
  /\ previousMode # "normal" => queued = <<>>
  /\ ~audioAvailable => queued = <<>>
  /\ audioPaused = overlayOpen
  /\ phase \in {"rewind", "run"} => ~overlayOpen /\ mode = previousMode
  /\ phase = "rewind" => mode = "rewind"
  /\ phase = "pace" => overlayOpen \/ mode = previousMode
  /\ phase = "run" /\ mode = "normal" => framesLeft = 1 \/ frameReady
  /\ phase = "pace" /\ running /\ ~overlayOpen /\ mode = "normal" => frameReady

LEMMA InitTurnInv ==
  HostInit => TurnInv
BY DEF HostInit, TurnInv

LEMMA NextTurnInv ==
  ASSUME HostTypeOK, TurnInv, [HostNext]_hostVars
  PROVE  TurnInv'
<1> USE DEF TurnInv, controlVars, inputVars, modeVars, rewindVars, audioVars
<1>1. CASE UNCHANGED hostVars
  BY <1>1 DEF hostVars
<1>2. CASE DevicePull
  BY <1>2 DEF DevicePull
<1>3. CASE Leave
  BY <1>3 DEF Leave
<1>4. CASE BeginTurn
  <2>1. CASE overlayOpen' # overlayOpen
    BY <1>4, <2>1 DEF BeginTurn, ResetAudio
  <2>2. CASE overlayOpen' = overlayOpen
    BY <1>4, <2>2 DEF BeginTurn, KeepAudio
  <2> QED
    BY <2>1, <2>2
<1>5. CASE QuitFromOverlay
  BY <1>5 DEF QuitFromOverlay
<1>6. CASE LoadState
  <2>1. CASE NothingLoaded
    BY <1>6, <2>1 DEF LoadState, NothingLoaded, KeepAudio
  <2>2. ASSUME NEW s \in Slots, Load(s)
        PROVE  TurnInv'
    BY <1>6, <2>2 DEF LoadState, Load, ResetAudio
  <2>3. NothingLoaded \/ \E s \in Slots : Load(s)
    BY <1>6 DEF LoadState
  <2> QED
    BY <2>1, <2>2, <2>3
<1>7. CASE ChooseMode
  <2>1. /\ overlayOpen' = overlayOpen /\ audioPaused' = audioPaused
        /\ audioAvailable' = audioAvailable
        /\ previousMode' = ModeAsked
    BY <1>7 DEF ChooseMode
  <2>2. queued' = <<>> \/ (queued' = queued /\ ModeAsked = previousMode)
    BY <1>7 DEF ChooseMode, ResetAudio, KeepAudio
  <2>3. CASE overlayOpen
    <3>1. phase' = "pace"
      BY <1>7, <2>3 DEF ChooseMode
    <3> QED
      BY <2>1, <2>2, <2>3, <3>1
  <2>4. CASE ~overlayOpen
    <3>1. mode' = ModeAsked
      BY <1>7, <2>4 DEF ChooseMode
    <3>2. phase' = IF ModeAsked = "rewind" THEN "rewind" ELSE "run"
      BY <1>7, <2>4 DEF ChooseMode
    <3>3. ModeAsked = "normal" => framesLeft' = 1
      BY <1>7 DEF ChooseMode
    <3> QED
      BY <2>1, <2>2, <2>4, <3>1, <3>2, <3>3
  <2> QED
    BY <2>3, <2>4
<1>8. CASE RewindFrame
  BY <1>8 DEF RewindFrame
<1>9. CASE RewindFails
  BY <1>9 DEF RewindFails
<1>10. CASE NothingToRewind
  BY <1>10 DEF NothingToRewind
<1>11. CASE RunFrame
  <2>1. queued' = <<>> \/ audioAvailable'
    BY <1>11 DEF RunFrame, QueueAudio, Heard
  <2>2. queued' = queued \/ mode = "normal"
    BY <1>11 DEF RunFrame, Heard
  <2>3. /\ phase = "run" /\ phase' = "run" /\ frameReady'
        /\ UNCHANGED <<overlayOpen, audioPaused, mode, previousMode, running>>
    BY <1>11 DEF RunFrame
  <2> QED
    BY <2>1, <2>2, <2>3
<1>12. CASE RunFails
  BY <1>12 DEF RunFails
<1>13. CASE RunEnds
  BY <1>13 DEF RunEnds
<1>14. CASE EndTurn
  BY <1>14 DEF EndTurn
<1>15. CASE PresentFails
  BY <1>15 DEF PresentFails
<1> QED
  BY <1>1, <1>2, <1>3, <1>4, <1>5, <1>6, <1>7, <1>8, <1>9, <1>10, <1>11,
     <1>12, <1>13, <1>14, <1>15 DEF HostNext, Turn

LEMMA TurnInvariant == HostSpec => [](HostTypeOK /\ TurnInv)
<1>1. HostInit => HostTypeOK /\ TurnInv
  BY InitHostTypeOK, InitTurnInv
<1>2. HostTypeOK /\ TurnInv /\ [HostNext]_hostVars => (HostTypeOK /\ TurnInv)'
  BY NextHostTypeOK, NextTurnInv
<1> QED
  BY <1>1, <1>2, PTL DEF HostSpec

(* While the overlay is open, while rewinding and in fast forward nothing  *)
(* is heard; the device is paused exactly while the overlay is open.       *)
THEOREM SilenceUnlessPlaying == HostSpec => []SilentUnlessPlaying
<1>1. TurnInv => SilentUnlessPlaying
  BY DEF TurnInv, SilentUnlessPlaying
<1> QED
  BY <1>1, TurnInvariant, PTL

(* Every turn that does not wait has run a frame. *)
THEOREM LoopNeverSpins == HostSpec => []NeverSpins
<1>1. TurnInv => NeverSpins
  BY DEF TurnInv, NeverSpins, ShouldPace
<1> QED
  BY <1>1, TurnInvariant, PTL

-----------------------------------------------------------------------------
(* The sound of the play. *)

LEMMA NextAudio ==
  ASSUME HostTypeOK, TurnInv, AudioIsLatestPlay, [HostNext]_hostVars
  PROVE  AudioIsLatestPlay'
<1> USE DEF AudioIsLatestPlay, controlVars, inputVars, modeVars, rewindVars,
        audioVars
<1>1. machine \in Seq(Inputs) /\ queued \in Seq(Plays)
  BY DEF HostTypeOK, Plays
<1>2. /\ Len(machine) \in Nat /\ Len(queued) \in Nat
      /\ Len(queued) <= Len(machine)
  BY <1>1
(* A step that empties the queue may do anything to the machine. *)
<1>3. ASSUME queued' = <<>>, machine' \in Seq(Inputs)
      PROVE  AudioIsLatestPlay'
  BY <1>3
<1>4. ASSUME UNCHANGED <<queued, machine>>
      PROVE  AudioIsLatestPlay'
  BY <1>4
<1>5. machine' \in Seq(Inputs)
  BY NextHostTypeOK DEF HostTypeOK, Plays
<1>6. CASE DevicePull
  <2>1. /\ queued # <<>> /\ queued' = Tail(queued) /\ machine' = machine
    BY <1>6 DEF DevicePull
  <2>2. /\ Len(queued') = Len(queued) - 1
        /\ \A i \in 1 .. Len(queued) - 1 : queued'[i] = queued[i + 1]
    BY <1>1, <2>1
  <2>3. ASSUME NEW i \in 1 .. Len(queued')
        PROVE  queued'[i] =
                 SubSeq(machine', 1, Len(machine') - Len(queued') + i)
    <3>1. i + 1 \in 1 .. Len(queued) /\ queued'[i] = queued[i + 1]
      BY <1>2, <2>2
    <3>2. queued[i + 1] =
            SubSeq(machine, 1, Len(machine) - Len(queued) + (i + 1))
      BY <3>1
    <3>3. Len(machine) - Len(queued) + (i + 1)
            = Len(machine') - Len(queued') + i
      BY <1>2, <2>1, <2>2
    <3> QED
      BY <2>1, <3>1, <3>2, <3>3
  <2> QED
    BY <1>2, <2>1, <2>2, <2>3
<1>7. CASE RunFrame
  <2>1. PICK input \in Inputs : machine' = Append(machine, input)
    BY <1>7 DEF RunFrame
  <2>2. Len(machine') = Len(machine) + 1
    BY <1>1, <2>1
  <2>3. SubSeq(machine', 1, Len(machine')) = machine'
    BY <1>5, WholeMoment
  <2>4. CASE queued' = <<machine'>>
    <3>1. Len(queued') = 1 /\ queued'[1] = machine'
      BY <2>4
    <3>2. Len(machine') - Len(queued') + 1 = Len(machine')
      BY <1>2, <2>2, <3>1
    <3>3. \A i \in 1 .. Len(queued') : i = 1
      BY <3>1
    <3>4. Len(queued') <= Len(machine')
      BY <1>2, <2>2, <3>1
    <3> QED
      BY <2>3, <3>1, <3>2, <3>3, <3>4
  <2>5. CASE queued' = Append(queued, machine')
    <3>1. /\ Len(queued') = Len(queued) + 1
          /\ queued'[Len(queued) + 1] = machine'
          /\ \A i \in 1 .. Len(queued) : queued'[i] = queued[i]
      BY <1>1, <2>5
    <3>2. ASSUME NEW i \in 1 .. Len(queued')
          PROVE  queued'[i] =
                   SubSeq(machine', 1, Len(machine') - Len(queued') + i)
      <4>1. Len(machine') - Len(queued') + i = Len(machine) - Len(queued) + i
        BY <1>2, <2>2, <3>1
      <4>2. CASE i = Len(queued) + 1
        <5>1. Len(machine') - Len(queued') + i = Len(machine')
          BY <1>2, <2>2, <3>1, <4>2
        <5> QED
          BY <2>3, <3>1, <4>2, <5>1
      <4>3. CASE i # Len(queued) + 1
        <5>1. i \in 1 .. Len(queued)
          BY <1>2, <3>1, <4>3
        <5>2. Len(machine) - Len(queued) + i \in 0 .. Len(machine)
          BY <1>2, <5>1
        <5>3. SubSeq(machine', 1, Len(machine) - Len(queued) + i)
                = SubSeq(machine, 1, Len(machine) - Len(queued) + i)
          BY <1>1, <2>1, <5>2, MomentsStay
        <5> QED
          BY <3>1, <4>1, <5>1, <5>3
      <4> QED
        BY <4>2, <4>3
    <3> QED
      BY <1>2, <2>2, <3>1, <3>2
  <2>6. queued' = <<>> \/ queued' = <<machine'>>
          \/ queued' = Append(queued, machine')
    <3>1. CASE Heard
      BY <1>7, <3>1 DEF RunFrame, QueueAudio
    <3>2. CASE ~Heard
      <4>1. queued' = queued
        BY <1>7, <3>2 DEF RunFrame
      <4>2. queued = <<>>
        BY <1>7, <3>2 DEF RunFrame, Heard, TurnInv
      <4> QED
        BY <4>1, <4>2
    <3> QED
      BY <3>1, <3>2
  <2> QED
    BY <1>3, <1>5, <2>4, <2>5, <2>6
<1>8. CASE RewindFrame
  <2>1. queued = <<>> /\ queued' = queued
    BY <1>8 DEF RewindFrame, TurnInv
  <2> QED
    BY <1>3, <1>5, <2>1
<1>9. CASE LoadState
  <2>1. queued' = <<>> \/ UNCHANGED <<queued, machine>>
    BY <1>9 DEF LoadState, Load, NothingLoaded, ResetAudio, KeepAudio
  <2> QED
    BY <1>3, <1>4, <1>5, <2>1
<1>10. CASE BeginTurn
  <2>1. queued' = <<>> \/ UNCHANGED <<queued, machine>>
    BY <1>10 DEF BeginTurn, ResetAudio, KeepAudio
  <2> QED
    BY <1>3, <1>4, <1>5, <2>1
<1>11. CASE ChooseMode
  <2>1. queued' = <<>> \/ UNCHANGED <<queued, machine>>
    BY <1>11 DEF ChooseMode, ResetAudio, KeepAudio
  <2> QED
    BY <1>3, <1>4, <1>5, <2>1
<1>12. CASE Leave \/ QuitFromOverlay \/ RewindFails \/ NothingToRewind
              \/ RunFails \/ RunEnds \/ EndTurn \/ PresentFails
              \/ UNCHANGED hostVars
  <2>1. UNCHANGED <<queued, machine>>
    BY <1>12 DEF Leave, QuitFromOverlay, RewindFails, NothingToRewind,
       RunFails, RunEnds, EndTurn, PresentFails, hostVars
  <2> QED
    BY <1>4, <2>1
<1> QED
  BY <1>6, <1>7, <1>8, <1>9, <1>10, <1>11, <1>12 DEF HostNext, Turn

(* What is still to be heard is the sound of the last frames of this play, *)
(* whatever was rewound, loaded or skipped before.                         *)
THEOREM AudioFollowsPlay == HostSpec => []AudioIsLatestPlay
<1>1. HostInit => AudioIsLatestPlay
  BY DEF HostInit, AudioIsLatestPlay
<1>2. HostTypeOK /\ TurnInv /\ AudioIsLatestPlay /\ [HostNext]_hostVars
        => AudioIsLatestPlay'
  BY NextAudio
<1> QED
  BY <1>1, <1>2, TurnInvariant, PTL DEF HostSpec

-----------------------------------------------------------------------------
(* The history of the play. *)

(* A play that goes back: each moment is a strict prefix of the next, and  *)
(* the last one a prefix of where the machine is.                          *)
GoesBack(kept, play) ==
  /\ \A i \in 1 .. Len(kept) - 1 : IsStrictPrefix(kept[i], kept[i + 1])
  /\ kept # <<>> => IsPrefix(kept[Len(kept)], play)

LEMMA FrontGoesBack ==
  ASSUME NEW kept \in Seq(Plays), NEW play \in Plays, kept # <<>>,
         GoesBack(kept, play)
  PROVE  /\ GoesBack(SubSeq(kept, 1, Len(kept) - 1), play)
         /\ GoesBack(SubSeq(kept, 1, Len(kept) - 1), kept[Len(kept)])
<1> DEFINE front == SubSeq(kept, 1, Len(kept) - 1)
<1>1. /\ front \in Seq(Plays) /\ Len(front) = Len(kept) - 1
      /\ \A i \in 1 .. Len(kept) - 1 : front[i] = kept[i]
  BY FrontOfSeq
<1>2. Len(kept) \in Nat /\ Len(kept) # 0
  OBVIOUS
<1>3. \A i \in 1 .. Len(kept) : kept[i] \in Plays
  OBVIOUS
<1> HIDE DEF front
<1>4. \A i \in 1 .. Len(front) - 1 : IsStrictPrefix(front[i], front[i + 1])
  <2>1. ASSUME NEW i \in 1 .. Len(front) - 1
        PROVE  IsStrictPrefix(front[i], front[i + 1])
    <3>1. i \in 1 .. Len(kept) - 1 /\ i + 1 \in 1 .. Len(kept) - 1
      BY <1>1, <1>2
    <3> QED
      BY <1>1, <3>1 DEF GoesBack
  <2> QED
    BY <2>1
<1>5. ASSUME front # <<>>
      PROVE  /\ IsPrefix(front[Len(front)], kept[Len(kept)])
             /\ IsPrefix(front[Len(front)], play)
  <2>1. Len(kept) - 1 \in 1 .. Len(kept) - 1
    BY <1>1, <1>2, <1>5
  <2>2. front[Len(front)] = kept[Len(kept) - 1]
    BY <1>1, <2>1
  <2>3. IsStrictPrefix(kept[Len(kept) - 1], kept[Len(kept) - 1 + 1])
    BY <2>1 DEF GoesBack
  <2>4. Len(kept) - 1 + 1 = Len(kept)
    BY <1>2
  <2>5. IsPrefix(kept[Len(kept) - 1], kept[Len(kept)])
    BY <2>3, <2>4 DEF IsStrictPrefix
  <2>6. IsPrefix(kept[Len(kept)], play)
    BY DEF GoesBack
  <2>7. kept[Len(kept) - 1] \in Seq(Inputs) /\ kept[Len(kept)] \in Seq(Inputs)
    BY <1>2, <1>3, <2>1 DEF Plays
  <2>8. play \in Seq(Inputs)
    BY DEF Plays
  <2>9. IsPrefix(kept[Len(kept) - 1], play)
    BY <2>5, <2>6, <2>7, <2>8, PrefixTransitive
  <2> QED
    BY <2>2, <2>5, <2>9
<1>6. GoesBack(front, play) /\ GoesBack(front, kept[Len(kept)])
  BY <1>4, <1>5 DEF GoesBack
<1> QED
  BY <1>6 DEF front

LEMMA TailGoesBack ==
  ASSUME NEW kept \in Seq(Plays), NEW play \in Plays, kept # <<>>,
         GoesBack(kept, play)
  PROVE  GoesBack(Tail(kept), play)
<1>1. /\ Tail(kept) \in Seq(Plays) /\ Len(Tail(kept)) = Len(kept) - 1
      /\ \A i \in 1 .. Len(kept) - 1 : Tail(kept)[i] = kept[i + 1]
  OBVIOUS
<1>2. Len(kept) \in Nat /\ Len(kept) # 0
  OBVIOUS
<1>3. ASSUME NEW i \in 1 .. Len(Tail(kept)) - 1
      PROVE  IsStrictPrefix(Tail(kept)[i], Tail(kept)[i + 1])
  <2>1. /\ i \in 1 .. Len(kept) - 1 /\ i + 1 \in 1 .. Len(kept) - 1
    BY <1>1, <1>2
  <2>2. Tail(kept)[i] = kept[i + 1] /\ Tail(kept)[i + 1] = kept[i + 1 + 1]
    BY <1>1, <2>1
  <2> QED
    BY <2>1, <2>2 DEF GoesBack
<1>4. ASSUME Tail(kept) # <<>>
      PROVE  IsPrefix(Tail(kept)[Len(Tail(kept))], play)
  <2>1. Len(kept) - 1 \in 1 .. Len(kept) - 1
    BY <1>1, <1>2, <1>4
  <2>2. Tail(kept)[Len(kept) - 1] = kept[Len(kept) - 1 + 1]
    BY <1>1, <2>1
  <2>3. Len(kept) - 1 + 1 = Len(kept)
    BY <1>2
  <2> QED
    BY <1>1, <2>2, <2>3 DEF GoesBack
<1> QED
  BY <1>3, <1>4 DEF GoesBack

LEMMA MoreGoesBack ==
  ASSUME NEW kept \in Seq(Plays), NEW play \in Plays, NEW input \in Inputs,
         GoesBack(kept, play)
  PROVE  /\ GoesBack(kept, Append(play, input))
         /\ GoesBack(Append(kept, Append(play, input)), Append(play, input))
<1> DEFINE more == Append(play, input)
           longer == Append(kept, more)
<1>1. more \in Plays /\ more \in Seq(Inputs) /\ play \in Seq(Inputs)
  BY DEF Plays
<1>2. Len(kept) \in Nat
  OBVIOUS
<1>3. ASSUME kept # <<>>
      PROVE  IsStrictPrefix(kept[Len(kept)], more)
  <2>1. kept[Len(kept)] \in Plays
    BY <1>3
  <2>2. IsPrefix(kept[Len(kept)], play)
    BY <1>3 DEF GoesBack
  <2> QED
    BY <1>1, <2>1, <2>2, PrefixOfMore DEF Plays
<1>4. IsPrefix(more, more)
  BY <1>1, PrefixReflexive
<1> HIDE DEF more
<1>5. /\ longer \in Seq(Plays) /\ Len(longer) = Len(kept) + 1
      /\ longer[Len(kept) + 1] = more
      /\ \A i \in 1 .. Len(kept) : longer[i] = kept[i]
  BY <1>1
<1> HIDE DEF longer
<1>6. GoesBack(kept, more)
  BY <1>3 DEF GoesBack, IsStrictPrefix
<1>7. ASSUME NEW i \in 1 .. Len(longer) - 1
      PROVE  IsStrictPrefix(longer[i], longer[i + 1])
  <2>1. i \in 1 .. Len(kept)
    BY <1>2, <1>5
  <2>2. CASE i = Len(kept)
    BY <1>3, <1>5, <2>1, <2>2
  <2>3. CASE i # Len(kept)
    <3>1. i \in 1 .. Len(kept) - 1 /\ i + 1 \in 1 .. Len(kept)
      BY <1>2, <2>1, <2>3
    <3> QED
      BY <1>5, <2>1, <3>1 DEF GoesBack
  <2> QED
    BY <2>2, <2>3
<1>8. GoesBack(longer, more)
  BY <1>4, <1>5, <1>7 DEF GoesBack
<1> QED
  BY <1>6, <1>8 DEF more, longer

LEMMA NextGoesBack ==
  ASSUME HostTypeOK, RewindGoesBack, [HostNext]_hostVars
  PROVE  RewindGoesBack'
<1>1. stack \in Seq(Plays) /\ machine \in Plays
  BY DEF HostTypeOK
<1>2. GoesBack(stack, machine)
  BY DEF RewindGoesBack, GoesBack
<1>3. SUFFICES GoesBack(stack', machine')
  BY DEF RewindGoesBack, GoesBack
<1>4. ASSUME UNCHANGED <<stack, machine>>
      PROVE  GoesBack(stack', machine')
  BY <1>2, <1>4
<1>5. CASE RunFrame
  <2>1. PICK input \in Inputs : machine' = Append(machine, input)
    BY <1>5 DEF RunFrame
  <2>2. stack' = stack \/ stack' = History!Keep(machine')
    BY <1>5 DEF RunFrame, Capture, rewindVars
  <2>3. CASE stack' = stack
    BY <1>1, <1>2, <2>1, <2>3, MoreGoesBack
  <2>4. CASE stack' = History!Keep(machine')
    <3>1. CASE Len(stack) = Capacity
      <4>1. stack # <<>>
        BY <3>1, HostAssumption DEF HostAssumption
      <4>2. Tail(stack) \in Seq(Plays)
        BY <1>1, <4>1
      <4>3. GoesBack(Tail(stack), machine)
        BY <1>1, <1>2, <4>1, TailGoesBack
      <4>4. stack' = Append(Tail(stack), machine')
        BY <2>4, <3>1 DEF History!Keep
      <4> QED
        BY <1>1, <2>1, <4>2, <4>3, <4>4, MoreGoesBack
    <3>2. CASE Len(stack) # Capacity
      <4>1. stack' = Append(stack, machine')
        BY <2>4, <3>2 DEF History!Keep
      <4> QED
        BY <1>1, <1>2, <2>1, <4>1, MoreGoesBack
    <3> QED
      BY <3>1, <3>2
  <2> QED
    BY <2>2, <2>3, <2>4
<1>6. CASE RewindFrame
  <2>1. /\ stack # <<>>
        /\ stack' = SubSeq(stack, 1, Len(stack) - 1)
        /\ machine' = stack[Len(stack)]
    BY <1>6 DEF RewindFrame, History!Pop
  <2> QED
    BY <1>1, <1>2, <2>1, FrontGoesBack
<1>7. CASE RewindFails
  <2>1. /\ stack # <<>>
        /\ stack' = SubSeq(stack, 1, Len(stack) - 1)
        /\ machine' = machine
    BY <1>7 DEF RewindFails
  <2> QED
    BY <1>1, <1>2, <2>1, FrontGoesBack
<1>8. CASE LoadState
  <2>1. CASE NothingLoaded
    BY <1>4, <2>1 DEF NothingLoaded
  <2>2. ASSUME NEW s \in Slots, Load(s)
        PROVE  GoesBack(stack', machine')
    <3>1. machine' \in Seq(Inputs)
      BY NextHostTypeOK DEF HostTypeOK, Plays
    <3>2. CASE stack' = <<>>
      BY <3>2 DEF GoesBack
    <3>3. CASE stack' = <<machine'>>
      <4>1. IsPrefix(machine', machine')
        BY <3>1, PrefixReflexive
      <4>2. Len(stack') = 1 /\ stack'[1] = machine'
        BY <3>3
      <4>3. 1 .. Len(stack') - 1 = {}
        BY <4>2
      <4> QED
        BY <4>1, <4>2, <4>3 DEF GoesBack
    <3> QED
      BY <2>2, <3>2, <3>3 DEF Load
  <2>3. NothingLoaded \/ \E s \in Slots : Load(s)
    BY <1>8 DEF LoadState
  <2> QED
    BY <2>1, <2>2, <2>3
<1>9. CASE Leave \/ BeginTurn \/ QuitFromOverlay \/ ChooseMode
             \/ NothingToRewind \/ RunFails \/ RunEnds \/ EndTurn
             \/ PresentFails \/ DevicePull \/ UNCHANGED hostVars
  <2>1. UNCHANGED <<stack, machine>>
    BY <1>9 DEF Leave, BeginTurn, QuitFromOverlay, ChooseMode, NothingToRewind,
       RunFails, RunEnds, EndTurn, PresentFails, DevicePull, hostVars,
       rewindVars
  <2> QED
    BY <1>4, <2>1
<1> QED
  BY <1>5, <1>6, <1>7, <1>8, <1>9 DEF HostNext, Turn

(* Rewinding only ever goes back along the play that led to where the      *)
(* machine is, whatever was saved, loaded, rewound and played again.       *)
THEOREM RewindStaysOnPlay == HostSpec => []RewindGoesBack
<1>1. HostInit => RewindGoesBack
  <2> SUFFICES ASSUME HostInit PROVE RewindGoesBack
    OBVIOUS
  <2>1. CASE stack = <<>>
    BY <2>1 DEF RewindGoesBack
  <2>2. CASE stack = <<machine>>
    <3>1. machine \in Seq(Inputs)
      BY DEF HostInit
    <3>2. IsPrefix(machine, machine)
      BY <3>1, PrefixReflexive
    <3>3. Len(stack) = 1 /\ stack[1] = machine
      BY <2>2
    <3>4. 1 .. Len(stack) - 1 = {}
      BY <3>3
    <3> QED
      BY <3>2, <3>3, <3>4 DEF RewindGoesBack
  <2> QED
    BY <2>1, <2>2 DEF HostInit
<1>2. HostTypeOK /\ RewindGoesBack /\ [HostNext]_hostVars => RewindGoesBack'
  BY NextGoesBack
<1> QED
  BY <1>1, <1>2, HostTypeInvariant, PTL DEF HostSpec
=============================================================================
