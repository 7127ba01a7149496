--------------------------- MODULE HostPartsProofs ---------------------------
(***************************************************************************)
(* Proofs about the parts of the desktop host that MCHostParts puts next   *)
(* to each other: the pacing of frames, for every period, slack, timeout   *)
(* and set of locks, and the place of the wide picture, for every set of   *)
(* levels, aspects and policies.  What is proved of a part is proved of    *)
(* its own specification.                                                  *)
(***************************************************************************)
EXTENDS MCHostParts, TLAPS

-----------------------------------------------------------------------------
(* Pacing. *)

(* The deadline lies ahead only while PaceFrame is in its loop, or was     *)
(* left because the host was asked to quit.                                *)
DeadlineBehind ==
  phase \in {"work", "unpaced", "waiting"} \/ (phase = "top" /\ running) => due <= 0

(* A wait for a tick has a lock, and so a link. *)
WaitIsLocked == phase = "waiting" => Locked

PacingInv == PacingTypeOK /\ DeadlineBehind /\ WaitIsLocked

(* What an observation leaves of measurements and lock is well formed. *)
LEMMA ObserveTypeOK ==
  ASSUME PacingTypeOK, Observe, link
  PROVE  /\ observations' \in 0 .. LockObservations
         /\ ticksPerFrame' \in {0} \cup Locks
         /\ ticksPerFrame' # 0 => observations' = LockObservations
  <1>1. interval \in {"none", "period", "stall"} /\ observations \in 0 .. LockObservations
        /\ ticksPerFrame \in {0} \cup Locks /\ LockObservations \in Nat \ {0}
        /\ (ticksPerFrame # 0 => observations = LockObservations)
    BY PacingAssumption DEF PacingTypeOK, Locked
  <1>2. CASE interval = "none"
    BY <1>1, <1>2 DEF Observe, pacerVars
  <1>3. CASE interval = "stall"
    BY <1>1, <1>3 DEF Observe, Reset
  <1>4. CASE interval = "period"
    BY <1>1, <1>4 DEF Observe, Enough
  <1> QED
    BY <1>1, <1>2, <1>3, <1>4

LEMMA PacingInitInv == MCPacingInit => PacingInv
  <1> SUFFICES ASSUME MCPacingInit PROVE PacingInv
    OBVIOUS
  <1>1. link \in BOOLEAN /\ running \in BOOLEAN /\ woken \in BOOLEAN
    BY Zenon DEF MCPacingInit, PacingInit
  <1> QED
    BY <1>1, PacingAssumption
    DEF MCPacingInit, PacingInit, PacingInv, PacingTypeOK, DeadlineBehind, WaitIsLocked,
        Locked, Phases, Latest

LEMMA ClockKeepsInv ==
  ASSUME PacingInv, Tick \/ Elapse
  PROVE  PacingInv'
  <1> USE PacingAssumption DEF PacingInv, PacingTypeOK, DeadlineBehind, WaitIsLocked, Locked,
        Latest
  <1>1. CASE Tick
    BY <1>1 DEF Tick, Broadcast, pacerVars
  <1>2. CASE Elapse
    BY <1>2 DEF Elapse, tickVars, pacerVars
  <1> QED
    BY <1>1, <1>2

(* A tick shown leaves the deadline at the present and the host at the top.*)
LEMMA ShowKeepsInv ==
  ASSUME PacingInv, link, NEW tick, ShowOnTick(tick), UNCHANGED <<tickVars, link, running, waitVars>>
  PROVE  PacingInv'
  <1>1. /\ observations' \in 0 .. LockObservations
        /\ ticksPerFrame' \in {0} \cup Locks
        /\ ticksPerFrame' # 0 => observations' = LockObservations
    BY ObserveTypeOK DEF PacingInv, ShowOnTick
  <1> QED
    BY <1>1, PacingAssumption
    DEF PacingInv, PacingTypeOK, DeadlineBehind, WaitIsLocked, Locked, ShowOnTick,
        FollowedTick, tickVars, waitVars, Phases, Latest

LEMMA HostKeepsInv ==
  ASSUME PacingInv, Host
  PROVE  PacingInv'
  <1> USE PacingAssumption DEF PacingInv, PacingTypeOK, DeadlineBehind, WaitIsLocked, Locked,
        Latest, Phases, tickVars, waitVars, pacerVars, StartPacing
  <1>1. CASE BeginTurn
    BY <1>1 DEF BeginTurn
  <1>2. CASE ShowUnpaced \/ AnchorUnpaced \/ PaceByClock
    BY <1>2 DEF ShowUnpaced, AnchorUnpaced, PaceByClock
  <1>3. CASE ObserveTick
    <2>1. /\ observations' \in 0 .. LockObservations
          /\ ticksPerFrame' \in {0} \cup Locks
          /\ ticksPerFrame' # 0 => observations' = LockObservations
      BY <1>3, ObserveTypeOK DEF ObserveTick
    <2> QED
      BY <1>3, <2>1 DEF ObserveTick
  <1>4. CASE FindTick \/ TickArrives
    <2>1. link /\ UNCHANGED <<tickVars, link, running, waitVars>>
      BY <1>4 DEF FindTick, TickArrives
    <2>2. \E tick : ShowOnTick(tick)
      BY <1>4 DEF FindTick, TickArrives
    <2> QED
      BY <2>1, <2>2, ShowKeepsInv
  <1>5. CASE AwaitTick
    <2>1. NextTick \in 0 .. MaxTicks + 4
      BY <1>5 DEF AwaitTick, NextTick
    <2>2. woken' \in BOOLEAN
      BY <1>5, Zenon DEF AwaitTick
    <2> QED
      BY <1>5, <2>1, <2>2 DEF AwaitTick
  <1>6. CASE ReleaseLock
    BY <1>6 DEF ReleaseLock, Reset
  <1>7. CASE DeadlineComes
    BY <1>7 DEF DeadlineComes, Reanchored
  <1>8. CASE PacingEnds
    BY <1>8 DEF PacingEnds
  <1>10. CASE StopLink
    BY <1>10 DEF StopLink
  <1>9. CASE QuitWhilePacing
    <2>1. running' \in BOOLEAN
      BY <1>9, Zenon DEF QuitWhilePacing
    <2> QED
      BY <1>9, <2>1 DEF QuitWhilePacing
  <1> QED
    BY <1>1, <1>2, <1>3, <1>4, <1>5, <1>6, <1>7, <1>8, <1>9, <1>10 DEF Host, Proceed

LEMMA PacingStepInv ==
  ASSUME PacingInv, [MCPacingNext]_MCPacingVars
  PROVE  PacingInv'
  <1>1. CASE UNCHANGED MCPacingVars
    BY <1>1
    DEF MCPacingVars, pacingVars, tickVars, pacerVars, waitVars, PacingInv, PacingTypeOK,
        DeadlineBehind, WaitIsLocked, Locked
  <1> QED
    BY <1>1, ClockKeepsInv, HostKeepsInv DEF MCPacingNext, PacingNext

(* Counters, measurements, lock and deadline stay in their ranges: a lock  *)
(* rests on measurements, and no frame is on a tick that has not come.     *)
THEOREM PacingTypeInvariant == MCPacingSpec => []PacingTypeOK
  <1>1. PacingInv => PacingTypeOK
    BY DEF PacingInv
  <1>2. PacingInv /\ [MCPacingNext]_MCPacingVars => PacingInv'
    BY PacingStepInv
  <1> QED
    BY <1>1, <1>2, PacingInitInv, PTL DEF MCPacingSpec

(* No tick is waited for that has come: a look at the count comes before   *)
(* the wait, and every tick since has woken it.                            *)
THEOREM TicksAreNotLost == MCPacingSpec => []NoLostTick
  <1>1. MCPacingInit => NoLostTick
    BY DEF MCPacingInit, PacingInit, NoLostTick
  <1>2. NoLostTick /\ [MCPacingNext]_MCPacingVars => NoLostTick'
    BY DEF NoLostTick, Arrived, MCPacingNext, PacingNext, Host, Proceed, Tick, Broadcast,
           Elapse, BeginTurn, ShowUnpaced, PaceByClock, ObserveTick, FindTick, AwaitTick,
           QuitWhilePacing, StopLink, AnchorUnpaced, TickArrives, ReleaseLock,
           DeadlineComes, PacingEnds, ShowOnTick, StartPacing, MCPacingVars, pacingVars,
           tickVars, waitVars
  <1> QED
    BY <1>1, <1>2, PTL DEF MCPacingSpec

(* A frame shown on the last tick is the one before that tick, and a wait  *)
(* that began since is for a later one.                                    *)
ShownOnce ==
  /\ onThisTick \in {0, 1}
  /\ onThisTick = 1 => /\ presented = sequence
                       /\ phase = "waiting" => wanted > sequence

LEMMA StepShownOnce ==
  ASSUME PacingInv, ShownOnce, MCPacingNext
  PROVE  ShownOnce'
  <1> USE DEF ShownOnce, PacingInv, PacingTypeOK, MCPacingNext, RememberPacing
  <1>0. sequence \in Nat /\ presented \in Nat /\ wanted \in Nat /\ ticksPerFrame \in Nat
        /\ (Locked => ticksPerFrame > 0)
    BY PacingAssumption DEF Locked
  <1>1. CASE Tick
    BY <1>1 DEF Tick
  <1>2. CASE FindTick \/ TickArrives
    <2>1. sequence' = sequence /\ presented' = sequence /\ phase' = "top"
      BY <1>2 DEF FindTick, TickArrives, ShowOnTick, FollowedTick, tickVars
    <2>2. onThisTick = 0
      <3>1. CASE FindTick
        BY <1>0, <3>1 DEF FindTick, ShowOnTick, Arrived, NextTick
      <3>2. CASE TickArrives
        BY <1>0, <3>2 DEF TickArrives, ShowOnTick, Arrived
      <3> QED
        BY <1>2, <3>1, <3>2
    <2>3. ~Tick
      BY <1>0, <2>1 DEF Tick
    <2> QED
      BY <1>2, <2>1, <2>2, <2>3
  <1>3. CASE ~(Tick \/ FindTick \/ TickArrives)
    <2>1. onThisTick' = onThisTick
      BY <1>3
    <2>2. CASE AwaitTick
      <3>1. UNCHANGED <<sequence, presented>> /\ wanted' = NextTick /\ ~(sequence >= NextTick)
        BY <2>2, Zenon DEF AwaitTick, Arrived, tickVars
      <3> QED
        BY <1>0, <2>1, <3>1 DEF NextTick
    <2>3. CASE ObserveTick \/ ReleaseLock
      BY <2>1, <2>3 DEF ObserveTick, ReleaseLock, StartPacing, tickVars
    <2>4. CASE Elapse
      BY <2>1, <2>4 DEF Elapse, tickVars
    <2>5. CASE BeginTurn \/ ShowUnpaced \/ PaceByClock \/ AnchorUnpaced
      BY <2>1, <2>5 DEF BeginTurn, ShowUnpaced, PaceByClock, AnchorUnpaced, StartPacing, tickVars
    <2>6. CASE QuitWhilePacing \/ StopLink \/ DeadlineComes \/ PacingEnds
      BY <2>1, <2>6 DEF QuitWhilePacing, StopLink, DeadlineComes, PacingEnds, tickVars
    <2> QED
      BY <1>3, <2>2, <2>3, <2>4, <2>5, <2>6 DEF PacingNext, Host, Proceed
  <1> QED
    BY <1>1, <1>2, <1>3

(* However late the loop is, one tick never brings two frames. *)
THEOREM TickBringsOneFrame == MCPacingSpec => []OneFramePerTick
  <1>1. MCPacingInit => ShownOnce
    BY DEF MCPacingInit, ShownOnce
  <1>2. PacingInv /\ ShownOnce /\ [MCPacingNext]_MCPacingVars => ShownOnce'
    <2>1. ShownOnce /\ UNCHANGED MCPacingVars => ShownOnce'
      BY DEF ShownOnce, MCPacingVars, pacingVars, pacingHistory, tickVars, waitVars
    <2> QED
      BY <2>1, StepShownOnce
  <1>3. PacingInv /\ [MCPacingNext]_MCPacingVars => PacingInv'
    BY PacingStepInv
  <1>4. ShownOnce => OneFramePerTick
    BY DEF ShownOnce, OneFramePerTick
  <1> QED
    BY <1>1, <1>2, <1>3, <1>4, PacingInitInv, PTL DEF MCPacingSpec

(* While the host runs and has not shown a frame unpaced, the time since   *)
(* the last frame and the time to the deadline make up a frame, less the   *)
(* slack that a deadline may be missed by.                                 *)
Owed == IF phase = "pacing" THEN FramePeriod - Slack ELSE -Slack

ClockKept ==
  /\ sinceShown \in 0 .. FramePeriod
  /\ running /\ phase # "unpaced" => sinceShown = FramePeriod \/ sinceShown + due >= Owed

LEMMA ElapseKeepsClock ==
  ASSUME PacingInv, ClockKept, RememberPacing, Elapse
  PROVE  ClockKept'
  <1>1. UNCHANGED <<running, phase>> /\ due' = IF due > -Latest THEN due - 1 ELSE due
    BY DEF Elapse
  <1>2. sinceShown' = IF sinceShown < FramePeriod THEN sinceShown + 1 ELSE sinceShown
    BY <1>1 DEF RememberPacing, Shows
  <1>3. due \in Int /\ Slack \in Nat /\ FramePeriod \in Nat
    BY PacingAssumption DEF PacingInv, PacingTypeOK, Latest
  <1> QED
    BY <1>1, <1>2, <1>3 DEF ClockKept, Owed, Latest

LEMMA StepKeepsClock ==
  ASSUME PacingInv, ClockKept, MCPacingNext
  PROVE  ClockKept'
  <1>0. /\ due \in Int /\ sinceShown \in 0 .. FramePeriod
        /\ Slack \in Nat /\ FramePeriod \in Nat /\ Slack < FramePeriod
        /\ PacingNext /\ RememberPacing
    BY PacingAssumption DEF PacingInv, PacingTypeOK, Latest, MCPacingNext, ClockKept
  <1>1. CASE Elapse
    BY <1>0, <1>1, ElapseKeepsClock
  <1>2. CASE ~Elapse
    <2> DEFINE since == IF Shows THEN 0 ELSE sinceShown
    <2>1. sinceShown' = since
      BY <1>0, <1>2 DEF RememberPacing
    <2>2. CASE Tick
      BY <1>0, <2>1, <2>2 DEF Tick, Shows, ClockKept, Owed
    <2>3. CASE BeginTurn
      <3>1. phase = "top" /\ running /\ phase' = "work" /\ due' = due
        BY <2>3 DEF BeginTurn
      <3> QED
        BY <1>0, <2>1, <3>1 DEF Shows, ClockKept, Owed
    <2>4. CASE ShowUnpaced \/ AnchorUnpaced \/ PaceByClock \/ ObserveTick
      BY <1>0, <2>1, <2>4
      DEF ShowUnpaced, AnchorUnpaced, PaceByClock, ObserveTick, StartPacing, Shows, ClockKept, Owed
    <2>5. CASE FindTick \/ TickArrives
      <3>1. phase \in {"work", "waiting"} /\ phase' = "top" /\ due' = 0
        BY <2>5 DEF FindTick, TickArrives, ShowOnTick
      <3> QED
        BY <1>0, <2>1, <3>1 DEF Shows, ClockKept, Owed
    <2>6. CASE AwaitTick
      <3>1. phase = "work" /\ phase' = "waiting" /\ due' = due /\ running' = running
        BY <2>6, Zenon DEF AwaitTick
      <3> QED
        BY <1>0, <2>1, <3>1 DEF Shows, ClockKept, Owed
    <2>7. CASE ReleaseLock \/ DeadlineComes
      BY <1>0, <2>1, <2>7 DEF ReleaseLock, DeadlineComes, Reanchored, StartPacing, Shows,
                              ClockKept, Owed
    <2>8. CASE QuitWhilePacing \/ PacingEnds \/ StopLink
      <3>1. ~running'
        BY <2>8 DEF QuitWhilePacing, PacingEnds, StopLink
      <3> QED
        BY <1>0, <2>1, <3>1 DEF ClockKept
    <2> QED
      BY <1>0, <1>2, <2>2, <2>3, <2>4, <2>5, <2>6, <2>7, <2>8 DEF PacingNext, Host, Proceed
  <1> QED
    BY <1>1, <1>2

(* After any stall, loss of the lock or unpaced frame the clock lets a     *)
(* frame go no sooner than a frame, less the slack, after the last one.    *)
THEOREM ClockNeverHurries == MCPacingSpec => NoCatchUpFrame
  <1>1. MCPacingInit => ClockKept
    BY PacingAssumption DEF MCPacingInit, ClockKept
  <1>2. PacingInv /\ ClockKept /\ [MCPacingNext]_MCPacingVars => ClockKept'
    <2>1. ClockKept /\ UNCHANGED MCPacingVars => ClockKept'
      BY DEF ClockKept, Owed, MCPacingVars, pacingVars, pacingHistory
    <2> QED
      BY <2>1, StepKeepsClock
  <1>3. PacingInv /\ [MCPacingNext]_MCPacingVars => PacingInv'
    BY PacingStepInv
  <1>4. PacingInv /\ ClockKept /\ [MCPacingNext]_MCPacingVars
          => [DeadlineComes => sinceShown >= FramePeriod - Slack]_MCPacingVars
    BY PacingAssumption
    DEF ClockKept, Owed, DeadlineComes, PacingInv, PacingTypeOK, Latest
  <1> QED
    BY <1>1, <1>2, <1>3, <1>4, PacingInitInv, PTL DEF MCPacingSpec, NoCatchUpFrame

(* With one tick a frame, a wait is for the next tick there is. *)
WaitsForNext ==
  phase = "waiting" => /\ wanted <= sequence + 1
                       /\ tickedInWait => wanted <= sequence

(* On a display that ticks once a frame, a wait that a tick came in does   *)
(* not release the lock.  With more ticks a frame it may: display_lock.    *)
THEOREM LockSurvivesTicks ==
  ASSUME Locks \subseteq {1}
  PROVE  MCPacingSpec => LockHeldWhileTicking
  <1>1. MCPacingInit => WaitsForNext
    BY DEF MCPacingInit, PacingInit, WaitsForNext
  <1>2. PacingInv /\ WaitsForNext /\ [MCPacingNext]_MCPacingVars => WaitsForNext'
    <2> SUFFICES ASSUME PacingInv, WaitsForNext, [MCPacingNext]_MCPacingVars,
                        phase' = "waiting"
                 PROVE  wanted' <= sequence' + 1 /\ (tickedInWait' => wanted' <= sequence')
      BY DEF WaitsForNext
    <2>0. sequence \in Nat /\ presented \in 0 .. sequence /\ wanted \in Nat
      BY PacingAssumption DEF PacingInv, PacingTypeOK
    <2>1. CASE UNCHANGED MCPacingVars
      BY <2>1 DEF WaitsForNext, MCPacingVars, pacingVars, pacingHistory, tickVars, waitVars
    <2>2. CASE MCPacingNext /\ AwaitTick
      <3>1. /\ sequence' = sequence /\ wanted' = presented + ticksPerFrame
            /\ ~tickedInWait' /\ ticksPerFrame # 0
        BY <2>2, Zenon DEF AwaitTick, MCPacingNext, RememberPacing, tickVars, Locked, NextTick
      <3>2. ticksPerFrame = 1
        BY <3>1 DEF PacingInv, PacingTypeOK
      <3> QED
        BY <2>0, <3>1, <3>2
    <2>3. CASE MCPacingNext /\ ~AwaitTick
      <3>1. phase = "waiting" /\ wanted' = wanted /\ (Tick \/ sequence' = sequence)
        BY <2>3
        DEF MCPacingNext, PacingNext, Host, Proceed, Tick, Elapse, BeginTurn, ShowUnpaced,
            PaceByClock, ObserveTick, FindTick, QuitWhilePacing, StopLink, AnchorUnpaced,
            TickArrives, ReleaseLock, DeadlineComes, PacingEnds, ShowOnTick, StartPacing,
            tickVars, waitVars
      <3>2. CASE Tick
        BY <2>0, <3>1, <3>2 DEF Tick, WaitsForNext
      <3>3. CASE ~Tick
        <4>1. tickedInWait' => tickedInWait
          BY <2>3, <3>3 DEF MCPacingNext, RememberPacing
        <4> QED
          BY <2>0, <3>1, <3>3, <4>1 DEF WaitsForNext
      <3> QED
        BY <3>2, <3>3
    <2> QED
      BY <2>1, <2>2, <2>3
  <1>3. PacingInv /\ [MCPacingNext]_MCPacingVars => PacingInv'
    BY PacingStepInv
  <1>4. PacingInv /\ WaitsForNext /\ [MCPacingNext]_MCPacingVars
          => [ReleaseLock => ~tickedInWait]_MCPacingVars
    BY PacingAssumption
    DEF WaitsForNext, ReleaseLock, Arrived, PacingInv, PacingTypeOK
  <1> QED
    BY <1>1, <1>2, <1>3, <1>4, PacingInitInv, PTL DEF MCPacingSpec, LockHeldWhileTicking

-----------------------------------------------------------------------------
(* The wide picture: geometry. *)

LEMMA ClampLimits ==
  ASSUME NEW value \in Int, NEW lower \in Int, NEW upper \in Int, lower <= upper
  PROVE  /\ Clamp(value, lower, upper) \in lower .. upper
         /\ value <= lower => Clamp(value, lower, upper) = lower
         /\ value >= upper => Clamp(value, lower, upper) = upper
         /\ value \in lower .. upper => Clamp(value, lower, upper) = value
  BY DEF Clamp

LEMMA ClampSides ==
  ASSUME NEW value \in Int, NEW lower \in Int, NEW upper \in Int
  PROVE  /\ Clamp(value, lower, upper) \in Int
         /\ Clamp(value, lower, upper) <= value \/ Clamp(value, lower, upper) = lower
         /\ Clamp(value, lower, upper) >= value \/ Clamp(value, lower, upper) = upper
  BY DEF Clamp

(* The whole widths of m that fit in a distance do not exceed it. *)
LEMMA WholesFit ==
  ASSUME NEW d \in Nat, NEW m \in Nat \ {0}
  PROVE  d \div m \in Nat /\ (d \div m) * m <= d
  OBVIOUS

LEMMA ExtraIsNat ==
  ASSUME aspect \in Aspects
  PROVE  Extra[aspect] \in Nat
  BY WideAssumption DEF Aspects

LEMMA GlideIsInt ==
  ASSUME aspect \in Aspects, NEW x \in Int, NEW lower \in Int, NEW upper \in Int
  PROVE  GlideWanted(x, lower, upper) \in Int
  BY WideAssumption, ExtraIsNat DEF GlideWanted

LEMMA WantedBiasInReach ==
  ASSUME aspect \in Aspects, NEW x \in Int, NEW lower \in Int, NEW upper \in Int
  PROVE  WantedBias(x, lower, upper) \in -Extra[aspect] .. Extra[aspect]
  <1>1. Extra[aspect] \in Nat /\ GlideWanted(x, lower, upper) \in Int
    BY ExtraIsNat, GlideIsInt
  <1> QED
    BY <1>1 DEF WantedBias, Clamp

LEMMA MarginsInReach ==
  ASSUME aspect \in Aspects, NEW x \in Int, NEW lower \in Int, NEW upper \in Int, NEW bias \in Int
  PROVE  MarginsForBias(x, lower, upper, bias)
           \in [left : 0 .. Extra[aspect], right : 0 .. Extra[aspect]]
  <1>1. Extra[aspect] \in Nat
    BY ExtraIsNat
  <1> QED
    BY <1>1 DEF MarginsForBias, Clamp

(* A frame is rendered near a camera that is inside its level. *)
LEMMA RenderedNear ==
  ASSUME NEW l \in Levels, NEW c \in CameraRange(l), NEW x \in Rendered(c)
  PROVE  x \in Nat /\ x \in Origin - MaxLag .. MaximumScroll[l] + MaxLag
  BY WideAssumption DEF CameraRange, Rendered

LEMMA TimesKeepsOrder ==
  ASSUME NEW t \in Nat, NEW p \in Int, NEW q \in Int, p <= q
  PROVE  t * p <= t * q
  <1>1. q - p \in Nat /\ t * (q - p) \in Nat
    OBVIOUS
  <1>2. t * (q - p) = t * q - t * p
    OBVIOUS
  <1> QED
    BY <1>1, <1>2

LEMMA LagIsBounded ==
  ASSUME NEW c \in Int, NEW x \in Rendered(c)
  PROVE  x \in Int /\ c - x \in -MaxLag .. MaxLag
  BY WideAssumption DEF Rendered

(* A window with columns of the map to its west is past the first page.    *)
LEMMA ColumnIsInside ==
  ASSUME NEW d \in Int, NEW m \in Nat \ {0}, d \div m > 0
  PROVE  d \in Nat
  <1> DEFINE q == d \div m
  <1>1. q \in Int /\ q * m <= d
    OBVIOUS
  <1>2. q >= 1
    BY <1>1
  <1> HIDE DEF q
  <1>3. m * 1 <= m * q
    BY <1>1, <1>2, TimesKeepsOrder
  <1>4. m * q = q * m /\ q * m \in Int
    BY <1>1
  <1> QED
    BY <1>1, <1>3, <1>4

(* A hold lies between the first page and the window it is entered at.     *)
LEMMA HoldInLevel ==
  ASSUME NEW l \in Levels, NEW c \in CameraRange(l), NEW x \in Rendered(c),
         NEW empty, HoldWest(x, empty)
  PROVE  Origin + WindowColumn(x) * Metatile \in Origin .. MaximumScroll[l] + MaxLag
  <1>1. /\ Origin \in Nat /\ Metatile \in Nat \ {0} /\ MaximumScroll[l] \in Nat /\ MaxLag \in Nat
        /\ x \in Int /\ x <= MaximumScroll[l] + MaxLag
    BY WideAssumption, RenderedNear
  <1>2. (x - Origin) \div Metatile > 0
    BY DEF HoldWest, WindowColumn
  <1>3. x - Origin \in Nat
    BY <1>1, <1>2, ColumnIsInside
  <1>4. WindowColumn(x) \in Nat /\ WindowColumn(x) * Metatile <= x - Origin
    BY <1>1, <1>3, WholesFit DEF WindowColumn
  <1>5. WindowColumn(x) * Metatile \in Nat
    BY <1>1, <1>4
  <1> QED
    BY <1>1, <1>4, <1>5

-----------------------------------------------------------------------------
(* The wide picture: its types. *)

(* A source is that of the scene. *)
SourceIsScene == source # NoSource => source = scene

WideInv ==
  /\ WideTypeOK /\ SourceIsScene
  /\ biasPresented \in Int /\ presentationBias \in Int

LEMMA SceneHasCamera ==
  ASSUME NEW s \in Levels \cup {Bounded}, NEW x \in CameraRange(s)
  PROVE  /\ x \in Nat /\ x >= Origin /\ x # None
         /\ s \in Levels => x <= MaximumScroll[s] /\ MaximumScroll[s] \in Nat /\ s # Bounded
  BY WideAssumption DEF CameraRange, None

(* What reading the map leaves of hold and source. *)
LEMMA HoldAfter ==
  ASSUME WideInv, scene' \in Levels, camera' \in CameraRange(scene'),
         NEW prefill, NEW x \in Rendered(camera'), PrepareShadow(prefill, x)
  PROVE  /\ source' = scene' /\ biasValid' \in BOOLEAN /\ stateLoadedRecently' \in BOOLEAN
         /\ holdWest' # None => holdWest' \in Origin .. MaximumScroll[scene'] + MaxLag
         /\ holdCamera' # None =>
              holdCamera' \in Origin - MaxLag .. MaximumScroll[scene'] + MaxLag
         /\ holdStartFrames' \in 0 .. HoldStartFrames
         /\ prefill # "refused" => holdCamera' = x
  <1> DEFINE hold == IF EntersSource THEN None ELSE holdWest
             seenAt == IF EntersSource THEN None ELSE holdCamera
             upper == MaximumScroll[scene']
  <1>1. source' = scene' /\ biasValid' \in BOOLEAN /\ stateLoadedRecently' \in BOOLEAN
    BY Zenon DEF PrepareShadow, WideInv, WideTypeOK
  <1>2. /\ hold # None => hold \in Origin .. upper + MaxLag
        /\ seenAt # None => seenAt \in Origin - MaxLag .. upper + MaxLag
    BY DEF EntersSource, WideInv, WideTypeOK
  <1>3. HoldStartFrames \in Nat /\ StartFrames \in 0 .. HoldStartFrames
    BY WideAssumption DEF StartFrames, WideInv, WideTypeOK
  <1>4. CASE prefill = "refused"
    <2>1. holdWest' = hold /\ holdCamera' = seenAt /\ holdStartFrames' = StartFrames
      BY <1>4 DEF PrepareShadow
    <2> QED
      BY <1>1, <1>2, <1>3, <1>4, <2>1
  <1>5. CASE prefill # "refused"
    <2>1. PICK empty \in EmptyColumns[scene'] : ReadHold(hold, seenAt, StartFrames, x, empty)
      BY <1>5 DEF PrepareShadow
    <2>2. holdCamera' = x /\ holdStartFrames' = Clamp(StartFrames - 1, 0, HoldStartFrames)
      BY <2>1 DEF ReadHold
    <2>3. holdStartFrames' \in 0 .. HoldStartFrames
      BY <1>3, <2>2, ClampLimits
    <2>4. \/ holdWest' = None
          \/ hold # None /\ holdWest' = hold
          \/ HoldWest(x, empty) /\ holdWest' = Origin + WindowColumn(x) * Metatile
      BY <2>1 DEF ReadHold
    <2>5. HoldWest(x, empty) => Origin + WindowColumn(x) * Metatile \in Origin .. upper + MaxLag
      BY HoldInLevel
    <2>6. holdWest' # None => holdWest' \in Origin .. upper + MaxLag
      BY <1>2, <2>4, <2>5
    <2>7. holdCamera' \in Origin - MaxLag .. upper + MaxLag
      BY <2>2, RenderedNear
    <2> QED
      BY <1>1, <2>2, <2>3, <2>6, <2>7
  <1> QED
    BY <1>4, <1>5

(* The bias is the target, or moved by one towards it. *)
LEMMA BiasAfter ==
  ASSUME biasPresented \in Int, biasFrames \in Nat, NEW target \in Int, StepBias(target)
  PROVE  /\ biasPresented' \in Int
         /\ \/ biasPresented' = target
            \/ biasPresented < target /\ biasPresented' = biasPresented + 1
            \/ biasPresented > target /\ biasPresented' = biasPresented - 1
         /\ biasValid /\ biasFrames = SettleFrames =>
              biasPresented' <= biasPresented + 1 /\ biasPresented' >= biasPresented - 1
         /\ ~biasValid => biasPresented' = target
         /\ biasFrames' \in 0 .. SettleFrames
  <1>1. SettleFrames \in Nat \ {0}
    BY WideAssumption
  <1>2. biasFrames' \in 0 .. SettleFrames
    BY <1>1 DEF StepBias, Clamp
  <1>3. biasPresented' = target \/ biasPresented' = biasPresented + Clamp(target - biasPresented, -1, 1)
    BY DEF StepBias
  <1>4. biasValid /\ biasFrames = SettleFrames =>
          biasPresented' = biasPresented + Clamp(target - biasPresented, -1, 1)
    BY <1>1 DEF StepBias
  <1>5. ~biasValid => biasPresented' = target
    BY DEF StepBias
  <1> QED
    BY <1>1, <1>2, <1>3, <1>4, <1>5 DEF Clamp

(* The west bound never lies east of the camera. *)
LEMMA WestBoundIsInt ==
  ASSUME WideInv, NEW s \in Levels, NEW x \in CameraRange(s)
  PROVE  MinimumScroll(x) \in Int /\ MinimumScroll(x) <= x /\ MinimumScroll(x) >= Origin
  <1>1. holdWest \in Int
    <2>1. CASE source = NoSource
      BY <2>1 DEF WideInv, WideTypeOK, None
    <2>2. CASE source # NoSource
      <3>1. source \in Levels
        BY <2>2 DEF WideInv, WideTypeOK
      <3> QED
        BY <3>1, WideAssumption DEF WideInv, WideTypeOK, None
    <2> QED
      BY <2>1, <2>2
  <1> QED
    BY <1>1, SceneHasCamera, WideAssumption DEF MinimumScroll

(* The bounds of bias and margins at the widest aspect hold all others.    *)
LEMMA WidestHolds ==
  ASSUME NEW a \in Aspects, NEW b \in Aspects, Extra[b] <= Extra[a]
  PROVE  -Extra[b] .. Extra[b] \subseteq -Extra[a] .. Extra[a]
         /\ 0 .. Extra[b] \subseteq 0 .. Extra[a] /\ 0 \in -Extra[a] .. Extra[a]
         /\ NoMargins \in [left : 0 .. Extra[a], right : 0 .. Extra[a]]
  <1>1. Extra[a] \in Nat /\ Extra[b] \in Nat
    BY WideAssumption DEF Aspects
  <1> QED
    BY <1>1 DEF NoMargins

LEMMA DrawLevelInv ==
  ASSUME WideInv, RunOneFrame, scene' \in Levels, NEW prefill, DrawLevel(prefill),
         restored' \in BOOLEAN, crowded' \in BOOLEAN
  PROVE  WideInv'
  <1> DEFINE lower == MinimumScroll(camera')
             upper == MaximumScroll[scene']
             target == WantedBias(camera', lower, upper)
  <1>1. /\ camera' \in CameraRange(scene') /\ camera' \in Nat /\ upper \in Nat
        /\ aspect \in Aspects /\ Extra[aspect] \in Nat /\ aspect # "native"
        /\ aspect' = aspect /\ edgePolicy' = edgePolicy /\ edgePolicy \in Policies
    BY SceneHasCamera, ExtraIsNat
    DEF RunOneFrame, DrawLevel, screenVars, WideInv, WideTypeOK
  <1>2. lower \in Int /\ upper \in Int /\ camera' \in Int
    <2>1. lower \in Int
      BY <1>1, WestBoundIsInt
    <2> QED
      BY <1>1, <2>1
  <1>3. target \in -Extra[aspect] .. Extra[aspect] /\ target \in Int
    <2>1. target \in -Extra[aspect] .. Extra[aspect]
      BY <1>1, <1>2, WantedBiasInReach, Zenon
    <2> QED
      BY <1>1, <2>1
  <1>4. StepBias(target) /\ \E x \in Rendered(camera') : PrepareShadow(prefill, x)
    BY DEF DrawLevel
  <1>5. /\ source' = scene' /\ source' # NoSource /\ biasValid' \in BOOLEAN
        /\ stateLoadedRecently' \in BOOLEAN
        /\ holdWest' # None => holdWest' \in Origin .. upper + MaxLag
        /\ holdCamera' # None => holdCamera' \in Origin - MaxLag .. upper + MaxLag
        /\ holdStartFrames' \in 0 .. HoldStartFrames
    BY <1>1, <1>4, HoldAfter, WideAssumption
  <1>6. biasPresented \in Int /\ biasFrames \in Nat
    BY WideAssumption DEF WideInv, WideTypeOK
  <1>7. /\ biasPresented' \in Int /\ biasFrames' \in 0 .. SettleFrames
        /\ \/ biasPresented' = target
           \/ biasPresented < target /\ biasPresented' = biasPresented + 1
           \/ biasPresented > target /\ biasPresented' = biasPresented - 1
    BY <1>3, <1>4, <1>6, BiasAfter
  <1>8. /\ terrainReady' = (prefill = "exact")
        /\ presentationBias' = IF prefill = "exact" THEN biasPresented' ELSE 0
        /\ margins' = IF prefill = "exact" THEN MarginsForBias(camera', lower, upper, biasPresented')
                      ELSE NoMargins
    BY DEF DrawLevel
  <1>9. ASSUME NEW a \in Aspects, \A b \in Aspects : Extra[b] <= Extra[a]
        PROVE  /\ {biasPresented', presentationBias'} \subseteq -Extra[a] .. Extra[a]
               /\ margins' \in [left : 0 .. Extra[a], right : 0 .. Extra[a]]
    <2>1. biasPresented \in -Extra[a] .. Extra[a]
      BY <1>9 DEF WideInv, WideTypeOK
    <2>2. /\ Extra[a] \in Nat /\ -Extra[aspect] .. Extra[aspect] \subseteq -Extra[a] .. Extra[a]
          /\ 0 .. Extra[aspect] \subseteq 0 .. Extra[a] /\ 0 \in -Extra[a] .. Extra[a]
          /\ NoMargins \in [left : 0 .. Extra[a], right : 0 .. Extra[a]]
      BY <1>1, <1>9, WidestHolds, WideAssumption DEF Aspects
    <2>3. target \in -Extra[a] .. Extra[a]
      BY <1>3, <2>2
    <2>4. biasPresented' \in -Extra[a] .. Extra[a]
      BY <1>6, <1>7, <2>1, <2>2, <2>3
    <2>5. MarginsForBias(camera', lower, upper, biasPresented')
            \in [left : 0 .. Extra[aspect], right : 0 .. Extra[aspect]]
      BY <1>1, <1>2, <1>7, MarginsInReach, Zenon
    <2>6. MarginsForBias(camera', lower, upper, biasPresented')
            \in [left : 0 .. Extra[a], right : 0 .. Extra[a]]
      BY <2>2, <2>5
    <2> QED
      BY <1>8, <2>2, <2>4, <2>6
  <1>10. WideTypeOK'
    <2>1. terrainReady' \in BOOLEAN /\ (terrainReady' => presentationBias' = biasPresented')
      BY <1>8
    <2> QED
      BY <1>1, <1>5, <1>7, <1>9, <2>1 DEF WideTypeOK, CameraRange
  <1> QED
    BY <1>5, <1>7, <1>8, <1>10 DEF WideInv, SourceIsScene

LEMMA OtherWideStepInv ==
  ASSUME WideInv, restored' \in BOOLEAN, crowded' \in BOOLEAN,
         \/ RunOneFrame /\ DrawBounded
         \/ LoadState
         \/ \E a \in Aspects : SetAspect(a)
         \/ \E p \in Policies : SetEdgePolicy(p)
  PROVE  WideInv'
  <1> USE DEF WideInv, WideTypeOK, SourceIsScene, CameraRange
  <1>1. ASSUME NEW a \in Aspects, \A b \in Aspects : Extra[b] <= Extra[a]
        PROVE  NoMargins \in [left : 0 .. Extra[a], right : 0 .. Extra[a]]
    BY <1>1, WidestHolds
  <1>2. CASE RunOneFrame /\ DrawBounded
    <2>1. /\ scene' \in Levels \cup {Bounded} /\ camera' \in CameraRange(scene')
          /\ holdWest' = None /\ holdCamera' = None /\ source' = NoSource
          /\ ~biasValid' /\ ~terrainReady' /\ margins' = NoMargins
          /\ UNCHANGED <<aspect, edgePolicy, presentationBias, biasFrames, biasPresented,
                         holdStartFrames, stateLoadedRecently>>
      BY <1>2, Zenon DEF RunOneFrame, DrawBounded, screenVars
    <2>2. biasValid' \in BOOLEAN /\ terrainReady' \in BOOLEAN
      BY <1>2, Zenon DEF DrawBounded
    <2> QED
      BY <1>1, <2>1, <2>2
  <1>3. CASE LoadState
    <2>1. /\ scene' \in Levels \cup {Bounded} /\ camera' \in CameraRange(scene')
          /\ holdWest' = None /\ holdCamera' = None /\ source' = NoSource
          /\ ~biasValid' /\ ~terrainReady'
          /\ UNCHANGED <<aspect, edgePolicy, presentationBias, margins, biasFrames,
                         biasPresented, holdStartFrames>>
      BY <1>3, Zenon DEF LoadState, screenVars
    <2>2. biasValid' \in BOOLEAN /\ terrainReady' \in BOOLEAN /\ stateLoadedRecently' \in BOOLEAN
      BY <1>3, Zenon DEF LoadState
    <2> QED
      BY <2>1, <2>2
  <1>4. ASSUME NEW a \in Aspects, SetAspect(a) PROVE WideInv'
    <2>1. /\ aspect' \in Aspects /\ ~terrainReady' /\ margins' = NoMargins
          /\ UNCHANGED <<scene, camera, edgePolicy, presentationBias, biasValid, biasFrames,
                         biasPresented, holdWest, holdCamera, holdStartFrames, source,
                         stateLoadedRecently>>
      BY <1>4, Zenon DEF SetAspect, worldVars, biasVars, holdVars
    <2>2. terrainReady' \in BOOLEAN
      BY <1>4, Zenon DEF SetAspect
    <2> QED
      BY <1>1, <2>1, <2>2
  <1>5. ASSUME NEW p \in Policies, SetEdgePolicy(p) PROVE WideInv'
    BY <1>5 DEF SetEdgePolicy, worldVars, biasVars, holdVars
  <1> QED
    BY <1>2, <1>3, <1>4, <1>5

LEMMA WideInitInv == MCWideInit => WideInv
  <1> SUFFICES ASSUME MCWideInit PROVE WideInv
    OBVIOUS
  <1>1. terrainReady \in BOOLEAN /\ biasValid \in BOOLEAN /\ stateLoadedRecently \in BOOLEAN
        /\ restored \in BOOLEAN /\ crowded \in BOOLEAN
    BY Zenon DEF MCWideInit, WideInit
  <1>2. ~terrainReady /\ ~biasValid
    BY DEF MCWideInit, WideInit
  <1>3. \A a \in Aspects : 0 \in -Extra[a] .. Extra[a]
                           /\ NoMargins \in [left : 0 .. Extra[a], right : 0 .. Extra[a]]
    BY WideAssumption DEF Aspects, NoMargins
  <1> QED
    BY <1>1, <1>2, <1>3, WideAssumption
    DEF MCWideInit, WideInit, WideInv, WideTypeOK, SourceIsScene, CameraRange

LEMMA WideStepInv ==
  ASSUME WideInv, [MCWideNext]_MCWideVars
  PROVE  WideInv'
  <1>1. CASE UNCHANGED MCWideVars
    BY <1>1
    DEF MCWideVars, wideVars, worldVars, screenVars, biasVars, holdVars, WideInv, WideTypeOK,
        SourceIsScene, CameraRange
  <1>2. CASE MCWideNext
    <2>1. restored' \in BOOLEAN /\ crowded' \in BOOLEAN
      BY <1>2, Zenon DEF MCWideNext, Crowds, WideInv, WideTypeOK
    <2> QED
      BY <1>2, <2>1, DrawLevelInv, OtherWideStepInv DEF MCWideNext, DrawFrame
  <1> QED
    BY <1>1, <1>2

(* Scene and source, bias, margins and hold stay well formed: whatever is  *)
(* drawn, loaded and chosen in whatever order, a picture that is ready is  *)
(* of the scene at hand and of the bias kept.                              *)
THEOREM WideTypeInvariant == MCWideSpec => []WideTypeOK
  <1>1. WideInv /\ [MCWideNext]_MCWideVars => WideInv'
    BY WideStepInv
  <1>2. WideInv => WideTypeOK
    BY DEF WideInv
  <1> QED
    BY <1>1, <1>2, WideInitInv, PTL DEF MCWideSpec

-----------------------------------------------------------------------------
(* The wide picture: its properties. *)

(* What a step that draws a proven level does, in terms of what it shows.  *)
LEMMA LevelStep ==
  ASSUME WideInv, MCWideNext, LevelShown
  PROVE  /\ RunOneFrame /\ scene' \in Levels /\ aspect' = aspect /\ edgePolicy' = edgePolicy
         /\ StepBias(WantedBias(camera', MinimumScroll(camera'), MaximumScroll[scene']))
         /\ \E x \in Rendered(camera') : PrepareShadow("exact", x)
         /\ presentationBias' = biasPresented'
         /\ margins' = MarginsForBias(camera', MinimumScroll(camera'), MaximumScroll[scene'],
                                      biasPresented')
  <1>1. terrainReady' /\ aspect' = aspect /\ edgePolicy' = edgePolicy
    BY DEF LevelShown, screenVars
  <1>2. DrawFrame
    BY <1>1 DEF MCWideNext, LoadState, SetAspect, SetEdgePolicy
  <1>3. PICK prefill : RunOneFrame /\ scene' \in Levels /\ DrawLevel(prefill)
    BY <1>1, <1>2 DEF DrawFrame, DrawBounded
  <1>4. prefill = "exact"
    BY <1>1, <1>3 DEF DrawLevel
  <1> QED
    BY <1>1, <1>3, <1>4 DEF DrawLevel

(* What the culls keep by the bias of one frame covers what the next shows,*)
(* but for the pixel that the bias moves.                                  *)
THEOREM CullsCoverPicture == MCWideSpec => CullCoversPicture
  <1> DEFINE Covers ==
        LevelShown /\ terrainReady /\ biasValid /\ biasFrames = SettleFrames
        /\ presentationBias \in -Extra[aspect] .. Extra[aspect] =>
          /\ margins'.left - presentationBias' <= ExpandCullLeft + 1
          /\ margins'.right + presentationBias' <= ExpandCullSpan - ExpandCullLeft + 1
  <1>1. WideInv /\ [MCWideNext]_MCWideVars => [Covers]_MCWideVars
    <2> SUFFICES ASSUME WideInv, MCWideNext, LevelShown, terrainReady, biasValid,
                        biasFrames = SettleFrames,
                        presentationBias \in -Extra[aspect] .. Extra[aspect]
                 PROVE  /\ margins'.left - presentationBias' <= ExpandCullLeft + 1
                        /\ margins'.right + presentationBias' <= ExpandCullSpan - ExpandCullLeft + 1
      OBVIOUS
    <2> DEFINE lower == MinimumScroll(camera')
               upper == MaximumScroll[scene']
    <2>1. /\ aspect \in Aspects /\ Extra[aspect] \in Nat /\ biasPresented \in Int
          /\ biasFrames \in Nat /\ presentationBias = biasPresented
      BY ExtraIsNat, WideAssumption DEF WideInv, WideTypeOK
    <2>2. lower \in Int /\ upper \in Int /\ camera' \in Int
      <3>1. scene' \in Levels /\ camera' \in CameraRange(scene')
        BY LevelStep DEF RunOneFrame
      <3>2. upper \in Int /\ camera' \in Int
        BY <3>1, SceneHasCamera
      <3>3. lower \in Int
        BY <3>1, WestBoundIsInt
      <3> QED
        BY <3>2, <3>3
    <2>3. WantedBias(camera', lower, upper) \in -Extra[aspect] .. Extra[aspect]
      BY <2>1, <2>2, WantedBiasInReach, Zenon
    <2>4. /\ biasPresented' \in Int
          /\ biasPresented' <= biasPresented + 1 /\ biasPresented' >= biasPresented - 1
      BY <2>1, <2>3, LevelStep, BiasAfter
    <2>5. MarginsForBias(camera', lower, upper, biasPresented')
            \in [left : 0 .. Extra[aspect], right : 0 .. Extra[aspect]]
      BY <2>1, <2>2, <2>4, MarginsInReach, Zenon
    <2>6. presentationBias' = biasPresented' /\ margins'.left \in 0 .. Extra[aspect]
          /\ margins'.right \in 0 .. Extra[aspect]
      BY <2>5, LevelStep
    <2>7. ExpandCullLeft = Extra[aspect] - presentationBias /\ ExpandCullSpan = 2 * Extra[aspect]
      BY <2>1 DEF ExpandCullLeft, ExpandCullSpan, Clamp
    <2>8. margins'.left <= Extra[aspect] /\ margins'.left \in Int
          /\ margins'.right <= Extra[aspect] /\ margins'.right \in Int
      BY <2>1, <2>6
    <2>9. margins'.left - presentationBias' <= ExpandCullLeft + 1
      BY <2>1, <2>4, <2>6, <2>7, <2>8
    <2>10. margins'.right + presentationBias' <= ExpandCullSpan - ExpandCullLeft + 1
      BY <2>1, <2>4, <2>6, <2>7, <2>8
    <2> QED
      BY <2>9, <2>10
  <1>2. WideInv /\ [MCWideNext]_MCWideVars => WideInv'
    BY WideStepInv
  <1> QED
    BY <1>1, <1>2, WideInitInv, PTL DEF MCWideSpec, CullCoversPicture

(* A level restored has no frames left in which the void alone is enough,  *)
(* or has yet to be entered, and then it is known to be restored.          *)
RestoredHasNoStart ==
  restored => /\ source = NoSource => stateLoadedRecently
              /\ source # NoSource => holdStartFrames = 0

LEMMA RestoredStart ==
  ASSUME WideInv, RestoredHasNoStart, restored, scene' = scene, scene' \in Levels
  PROVE  StartFrames = 0
  <1>1. CASE source = NoSource
    <2>1. stateLoadedRecently
      BY <1>1, Zenon DEF RestoredHasNoStart
    <2> QED
      BY <1>1, <2>1, WideAssumption DEF StartFrames, EntersSource
  <1>2. CASE source # NoSource
    BY <1>2 DEF RestoredHasNoStart, StartFrames, EntersSource, WideInv, SourceIsScene
  <1> QED
    BY <1>1, <1>2

LEMMA StepKeepsNoStart ==
  ASSUME WideInv, RestoredHasNoStart, MCWideNext
  PROVE  RestoredHasNoStart'
  <1>0. HoldStartFrames \in Nat
    BY WideAssumption
  <1>1. CASE DrawFrame /\ restored' = (restored /\ scene' = scene /\ source' # NoSource)
    <2> SUFFICES ASSUME restored'
                 PROVE  source' # NoSource /\ holdStartFrames' = 0
      BY DEF RestoredHasNoStart
    <2>1. restored /\ scene' = scene /\ source' # NoSource
      BY <1>1, Zenon
    <2>2. PICK prefill, x : scene' \in Levels /\ PrepareShadow(prefill, x)
      BY <1>1, <2>1 DEF DrawFrame, DrawBounded, DrawLevel
    <2>3. StartFrames = 0
      BY <2>1, <2>2, RestoredStart
    <2>4. holdStartFrames' = 0 \/ holdStartFrames' = Clamp(0 - 1, 0, HoldStartFrames)
      BY <2>2, <2>3 DEF PrepareShadow, ReadHold
    <2> QED
      BY <1>0, <2>1, <2>4, ClampLimits
  <1>2. CASE LoadState
    BY <1>2, Zenon DEF LoadState, RestoredHasNoStart
  <1>3. CASE /\ (\E a \in Aspects : SetAspect(a)) \/ (\E p \in Policies : SetEdgePolicy(p))
             /\ UNCHANGED <<restored, crowded>>
    <2>1. UNCHANGED <<source, holdStartFrames, stateLoadedRecently, restored>>
      BY <1>3 DEF SetAspect, SetEdgePolicy, holdVars
    <2> QED
      BY <2>1, Zenon DEF RestoredHasNoStart
  <1> QED
    BY <1>1, <1>2, <1>3, Zenon DEF MCWideNext

(* A level that a state or a rewind restored enters no hold by what lies   *)
(* beside the window alone: what is rendered has stood still.              *)
THEOREM RestoresStartNoLevel == MCWideSpec => RestoreIsNoLevelStart
  <1>1. WideInv /\ RestoredHasNoStart /\ [MCWideNext]_MCWideVars => RestoredHasNoStart'
    <2>1. RestoredHasNoStart /\ UNCHANGED MCWideVars => RestoredHasNoStart'
      <3>1. UNCHANGED MCWideVars
              => UNCHANGED <<source, holdStartFrames, stateLoadedRecently, restored>>
        BY DEF MCWideVars, wideVars, holdVars
      <3> QED
        BY <3>1, Zenon DEF RestoredHasNoStart
    <2> QED
      BY <2>1, StepKeepsNoStart
  <1>2. WideInv /\ RestoredHasNoStart /\ [MCWideNext]_MCWideVars
          => [restored' /\ holdWest' # None /\ holdWest' # holdWest => holdCamera = holdCamera'
             ]_MCWideVars
    <2> SUFFICES ASSUME WideInv, RestoredHasNoStart, MCWideNext, restored',
                        holdWest' # None, holdWest' # holdWest
                 PROVE  holdCamera = holdCamera'
      OBVIOUS
    <2>1. DrawFrame
      BY DEF MCWideNext, LoadState, SetAspect, SetEdgePolicy, holdVars
    <2>2. restored /\ scene' = scene
      <3>1. ~LoadState /\ (\A a \in Aspects : ~SetAspect(a)) /\ (\A p \in Policies : ~SetEdgePolicy(p))
        BY DEF LoadState, SetAspect, SetEdgePolicy, holdVars
      <3> QED
        BY <3>1, Zenon DEF MCWideNext
    <2>3. PICK prefill : RunOneFrame /\ scene' \in Levels /\ DrawLevel(prefill)
      BY <2>1 DEF DrawFrame, DrawBounded
    <2>4. PICK x \in Rendered(camera') : PrepareShadow(prefill, x)
      BY <2>3 DEF DrawLevel
    <2>5. StartFrames = 0
      BY <2>2, <2>3, RestoredStart
    <2> DEFINE hold == IF EntersSource THEN None ELSE holdWest
               seenAt == IF EntersSource THEN None ELSE holdCamera
    <2>6. PICK empty : ReadHold(hold, seenAt, 0, x, empty)
      BY <2>4, <2>5 DEF PrepareShadow
    <2>7. seenAt = x /\ holdCamera' = x
      BY <2>6 DEF ReadHold
    <2>8. x # None
      BY <2>3, <2>4, RenderedNear DEF RunOneFrame, None
    <2> QED
      BY <2>7, <2>8
  <1>3. WideInv /\ [MCWideNext]_MCWideVars => WideInv'
    BY WideStepInv
  <1>4. MCWideInit => RestoredHasNoStart
    BY DEF MCWideInit, RestoredHasNoStart
  <1> QED
    BY <1>1, <1>2, <1>3, <1>4, WideInitInv, PTL DEF MCWideSpec, RestoreIsNoLevelStart

-----------------------------------------------------------------------------
(* The wide picture: it stays inside the level. *)

LEMMA WholesReach ==
  ASSUME NEW d \in Nat, NEW m \in Nat \ {0}, NEW e \in Nat, d >= e * m
  PROVE  d \div m >= e
  <1> DEFINE q == d \div m
  <1>1. q \in Nat /\ d < (q + 1) * m
    OBVIOUS
  <1>2. q + 1 <= e => m * (q + 1) <= m * e
    BY <1>1, TimesKeepsOrder
  <1>3. m * (q + 1) = (q + 1) * m /\ m * e = e * m /\ (q + 1) * m \in Nat /\ e * m \in Nat
    BY <1>1
  <1> QED
    BY <1>1, <1>2, <1>3

(* The glide asks for no more than the way to the other wall gives back.   *)
LEMMA GlideReleases ==
  ASSUME aspect \in Aspects, NEW x \in Int, NEW lower \in Int, NEW upper \in Int,
         lower <= x, x <= upper
  PROVE  /\ GlideWanted(x, lower, upper) <= (upper - x) \div GlideSpan
         /\ -GlideWanted(x, lower, upper) <= (x - lower) \div GlideSpan
  <1> DEFINE E == Extra[aspect]
             G == GlideSpan
             Inward(travel) == IF travel \in 0 .. E * G - 1 THEN E - travel \div G ELSE 0
             west == x - lower
             east == upper - x
  <1>1. E \in Nat /\ G \in Nat \ {0} /\ west \in Nat /\ east \in Nat /\ E * G \in Nat
    BY WideAssumption, ExtraIsNat
  <1>2. ASSUME NEW d \in Nat
        PROVE  d \div G \in Nat /\ Inward(d) \in Int /\ Inward(d) <= E /\ Inward(d) >= E - d \div G
               /\ Inward(d) >= 0
    <2>0. d \div G \in Nat
      BY <1>1, WholesFit
    <2>1. CASE d < E * G
      <3>1. ~(d \div G > E)
        <4>1. ASSUME d \div G > E PROVE FALSE
          <5>1. G * E <= G * (d \div G)
            BY <1>1, <2>0, <4>1, TimesKeepsOrder
          <5>2. (d \div G) * G <= d
            BY <1>1, WholesFit
          <5>3. G * E = E * G /\ G * (d \div G) = (d \div G) * G
            BY <1>1, <2>0
          <5> QED
            BY <1>1, <2>0, <2>1, <5>1, <5>2, <5>3
        <4> QED
          BY <4>1
      <3> QED
        BY <1>1, <2>0, <2>1, <3>1
    <2>2. CASE d >= E * G
      <3>1. d \div G >= E
        BY <1>1, <2>2, WholesReach
      <3>2. Inward(d) = 0
        BY <1>1, <2>2
      <3> QED
        BY <1>1, <2>0, <3>1, <3>2
    <2> QED
      BY <1>1, <2>1, <2>2
  <1>3. GlideWanted(x, lower, upper) = Inward(west) - Inward(east)
    BY DEF GlideWanted
  <1>4. /\ Inward(west) <= E /\ Inward(west) >= E - west \div G
        /\ Inward(east) <= E /\ Inward(east) >= E - east \div G
        /\ Inward(west) \in Int /\ Inward(east) \in Int
        /\ west \div G \in Nat /\ east \div G \in Nat
    BY <1>1, <1>2
  <1> HIDE DEF Inward, west, east, E, G
  <1>5. Inward(west) - Inward(east) <= east \div G /\ -(Inward(west) - Inward(east)) <= west \div G
    BY <1>1, <1>4
  <1> QED
    BY <1>3, <1>5 DEF west, east, G

(* A bias is asked for only where the camera has the way ahead of it, to   *)
(* the wall, that it takes to undo the slide at a pixel a frame.           *)
WayAhead(x, bias, upper) ==
  MaxTravel * (-bias) <= x - Origin /\ MaxTravel * bias <= upper - x

LEMMA WantedHasWay ==
  ASSUME aspect \in Aspects, NEW l \in Levels, NEW lower \in Int,
         NEW x \in CameraRange(l), Origin <= lower, lower <= x, HasRoom(lower, MaximumScroll[l])
  PROVE  WayAhead(x, WantedBias(x, lower, MaximumScroll[l]), MaximumScroll[l])
  <1> DEFINE E == Extra[aspect]
             T == MaxTravel
             G == GlideSpan
             upper == MaximumScroll[l]
             west == x - lower
             east == upper - x
             reach == Clamp((upper - lower) \div 2, 0, E)
             target == IF edgePolicy = "glide" THEN GlideWanted(x, lower, upper) ELSE 0
             w == WantedBias(x, lower, upper)
  <1>1. /\ E \in Nat /\ T \in Nat \ {0} /\ G \in Nat \ {0} /\ T <= G
        /\ upper \in Nat /\ Origin \in Nat /\ x \in Nat /\ lower \in Int
        /\ Origin <= lower /\ lower <= x /\ x <= upper /\ upper \in Int /\ x \in Int
    BY SceneHasCamera, ExtraIsNat, WideAssumption
  <1>2. /\ west \in Nat /\ east \in Nat /\ upper - lower \in Nat
        /\ reach \in 0 .. E
    BY <1>1 DEF Clamp
  <1>3. T * reach <= upper - lower
    BY DEF HasRoom
  <1>4. target \in Int /\ target <= east \div G /\ -target <= west \div G
    <2>1. GlideWanted(x, lower, upper) \in Int
      BY <1>1, GlideIsInt, Zenon
    <2>2. GlideWanted(x, lower, upper) <= east \div G /\ -GlideWanted(x, lower, upper) <= west \div G
      BY <1>1, GlideReleases, Zenon
    <2>3. east \div G \in Nat /\ west \div G \in Nat
      BY <1>1, <1>2, WholesFit
    <2> QED
      BY <2>1, <2>2, <2>3
  <1>5. /\ w \in Int
        /\ w <= 0 \/ w <= target \/ w <= reach - west
        /\ -w <= 0 \/ -w <= -target \/ -w <= reach - east
    <2>1. CASE Slides
      <3> DEFINE pinned == Clamp(target, lower + reach - x, upper - reach - x)
      <3>1. w = Clamp(pinned, -E, E)
        BY <1>1, <2>1 DEF WantedBias
      <3>2. lower + reach - x = reach - west /\ upper - reach - x = east - reach
            /\ reach - west \in Int /\ east - reach \in Int
        BY <1>1, <1>2
      <3>3. pinned = Clamp(target, reach - west, east - reach)
        BY <3>2
      <3> HIDE DEF w, target, reach, E, upper, pinned, west, east
      <3>4. /\ pinned \in Int
            /\ pinned <= target \/ pinned = reach - west
            /\ pinned >= target \/ pinned = east - reach
        BY <1>4, <3>2, <3>3, ClampSides
      <3>5. -E \in Int /\ E \in Int
        BY <1>1
      <3>6. /\ w \in Int
            /\ w <= pinned \/ w = -E
            /\ w >= pinned \/ w = E
        BY <3>1, <3>4, <3>5, ClampSides
      <3>7. reach \in Int /\ west \in Int /\ east \in Int
        BY <1>2
      <3> QED
        BY <1>1, <1>4, <3>4, <3>6, <3>7
    <2>2. CASE ~Slides
      BY <2>2 DEF WantedBias
    <2> QED
      BY <2>1, <2>2
  <1> HIDE DEF w, target, reach
  <1>6. ASSUME NEW d \in Nat, NEW b \in Int, b <= d \div G
        PROVE  T * b <= d
    <2>1. d \div G \in Nat /\ (d \div G) * G <= d
      BY <1>1, WholesFit
    <2>2. T * b <= T * (d \div G)
      BY <1>1, <1>6, <2>1, TimesKeepsOrder
    <2>3. (d \div G) * T <= (d \div G) * G
      BY <1>1, <2>1, TimesKeepsOrder
    <2>4. (d \div G) * T = T * (d \div G)
      BY <1>1, <2>1
    <2> QED
      BY <1>1, <2>1, <2>2, <2>3, <2>4
  <1>7. T * target <= east /\ T * (-target) <= west
    BY <1>2, <1>4, <1>6
  <1>8. ASSUME NEW d \in Nat, NEW r \in Nat
        PROVE  T * (r - d) <= T * r - d
    <2>1. d * 1 <= d * T
      BY <1>1, TimesKeepsOrder
    <2>2. T * (r - d) = T * r - d * T
      BY <1>1
    <2> QED
      BY <1>1, <2>1, <2>2
  <1>9. T * (reach - west) <= east /\ T * (reach - east) <= x - Origin
    <2>1. T * (reach - west) <= T * reach - west /\ T * (reach - east) <= T * reach - east
      BY <1>2, <1>8
    <2>2. T * reach \in Int /\ T * (reach - west) \in Int /\ T * (reach - east) \in Int
      BY <1>1, <1>2
    <2> QED
      BY <1>1, <1>2, <1>3, <2>1, <2>2
  <1>10. T * w <= east
    <2>1. T * 0 <= east
      BY <1>1, <1>2
    <2>2. \A b \in Int : w <= b => T * w <= T * b
      BY <1>1, <1>5, TimesKeepsOrder
    <2>3. T * w \in Int /\ T * target \in Int /\ T * (reach - west) \in Int /\ T * 0 \in Int
      BY <1>1, <1>2, <1>4, <1>5
    <2> QED
      BY <1>2, <1>4, <1>5, <1>7, <1>9, <2>1, <2>2, <2>3
  <1>11. T * (-w) <= x - Origin
    <2>1. T * 0 <= x - Origin
      BY <1>1
    <2>2. \A b \in Int : -w <= b => T * (-w) <= T * b
      BY <1>1, <1>5, TimesKeepsOrder
    <2>3. /\ T * (-w) \in Int /\ T * (-target) \in Int /\ T * (reach - east) \in Int /\ T * 0 \in Int
          /\ west <= x - Origin
      BY <1>1, <1>2, <1>4, <1>5
    <2> QED
      BY <1>1, <1>2, <1>4, <1>5, <1>7, <1>9, <2>1, <2>2, <2>3
  <1> QED
    BY <1>10, <1>11 DEF WayAhead, w

(* A bias that is carried to the next frame leaves the camera its way, if  *)
(* there was room for it.                                                  *)
BiasHasWay ==
  biasValid /\ ~crowded => WayAhead(camera, biasPresented, MaximumScroll[scene])

(* A pixel's move of the bias makes up for the camera's travel.            *)
LEMMA WayIsKept ==
  ASSUME NEW x \in Int, NEW y \in Int, NEW upper \in Int, NEW bias \in Int, NEW target \in Int,
         NEW next \in Int, y - x \in -MaxTravel .. MaxTravel,
         WayAhead(x, bias, upper), WayAhead(y, target, upper),
         \/ next = target
         \/ bias < target /\ next = bias + 1
         \/ bias > target /\ next = bias - 1
  PROVE  WayAhead(y, next, upper)
  <1> DEFINE T == MaxTravel
  <1>1. T \in Nat /\ Origin \in Nat
    BY WideAssumption
  <1> HIDE DEF T
  <1>2. y <= x + T /\ x <= y + T
    BY <1>1 DEF T
  <1>3. /\ T * (-bias) <= x - Origin /\ T * bias <= upper - x
        /\ T * (-target) <= y - Origin /\ T * target <= upper - y
    BY DEF WayAhead, T
  <1>4. CASE next = target
    BY <1>4
  <1>5. CASE bias < target /\ next = bias + 1
    <2>1. T * (-next) = T * (-bias) - T
      BY <1>1, <1>5
    <2>2. T * next <= T * target
      BY <1>1, <1>5, TimesKeepsOrder
    <2>3. T * (-bias) \in Int /\ T * next \in Int /\ T * target \in Int
      BY <1>1
    <2>4. T * (-next) <= y - Origin
      BY <1>1, <1>2, <1>3, <2>1, <2>3
    <2>5. T * next <= upper - y
      BY <1>1, <1>3, <2>2, <2>3
    <2> QED
      BY <2>4, <2>5 DEF WayAhead, T
  <1>6. CASE bias > target /\ next = bias - 1
    <2>1. T * next = T * bias - T
      BY <1>1, <1>6
    <2>2. T * (-next) <= T * (-target)
      BY <1>1, <1>6, TimesKeepsOrder
    <2>3. T * bias \in Int /\ T * (-next) \in Int /\ T * (-target) \in Int
      BY <1>1
    <2>4. T * next <= upper - y
      BY <1>1, <1>2, <1>3, <2>1, <2>3
    <2>5. T * (-next) <= y - Origin
      BY <1>1, <1>3, <2>2, <2>3
    <2> QED
      BY <2>4, <2>5 DEF WayAhead, T
  <1> QED
    BY <1>4, <1>5, <1>6

LEMMA WayIsInside ==
  ASSUME NEW x \in Int, NEW bias \in Int, NEW upper \in Int, Origin <= x, x <= upper,
         WayAhead(x, bias, upper)
  PROVE  Origin <= x + bias /\ x + bias <= upper
  <1> DEFINE T == MaxTravel
  <1>1. T \in Nat \ {0} /\ Origin \in Nat
    BY WideAssumption
  <1>2. T * (-bias) <= x - Origin /\ T * bias <= upper - x
    BY DEF WayAhead
  <1> HIDE DEF T
  <1>3. ASSUME NEW b \in Nat PROVE b <= T * b
    <2>1. b * 1 <= b * T
      BY <1>1, TimesKeepsOrder
    <2> QED
      BY <1>1, <2>1
  <1>4. T * bias \in Int /\ T * (-bias) \in Int
    BY <1>1
  <1>5. CASE bias >= 0
    <2>1. bias <= T * bias
      BY <1>3, <1>5
    <2> QED
      BY <1>1, <1>2, <1>4, <1>5, <2>1
  <1>6. CASE bias <= 0
    <2>1. -bias <= T * (-bias)
      BY <1>3, <1>6
    <2> QED
      BY <1>1, <1>2, <1>4, <1>6, <2>1
  <1> QED
    BY <1>5, <1>6

LEMMA LevelHasWay ==
  ASSUME WideInv, BiasHasWay, RunOneFrame, scene' \in Levels,
         NEW prefill, NEW at, PrepareShadow(prefill, at), biasValid',
         ~Crowds(MinimumScroll(camera'), MaximumScroll[scene']),
         StepBias(WantedBias(camera', MinimumScroll(camera'), MaximumScroll[scene']))
  PROVE  /\ MinimumScroll(camera') \in Origin .. camera'
         /\ biasPresented' \in Int
         /\ WayAhead(camera', biasPresented', MaximumScroll[scene'])
  <1> DEFINE lower == MinimumScroll(camera')
             upper == MaximumScroll[scene']
             target == WantedBias(camera', lower, upper)
  <1>1. source # NoSource /\ source = scene /\ scene' = scene
    BY WideAssumption DEF PrepareShadow, EntersSource, WideInv, SourceIsScene
  <1>2. /\ camera' \in CameraRange(scene') /\ camera \in CameraRange(scene)
        /\ camera \in Int /\ camera' \in Int /\ upper \in Int /\ aspect \in Aspects
        /\ camera' - camera \in -MaxTravel .. MaxTravel
    BY <1>1, SceneHasCamera DEF RunOneFrame, WideInv, WideTypeOK
  <1>3. lower \in Int /\ lower <= camera' /\ Origin <= lower
    <2>1. MinimumScroll(camera') \in Int /\ MinimumScroll(camera') <= camera'
          /\ MinimumScroll(camera') >= Origin
      BY <1>2, WestBoundIsInt
    <2> QED
      BY <2>1, WideAssumption
  <1>4. target \in Int
    <2>1. target \in -Extra[aspect] .. Extra[aspect]
      BY <1>2, <1>3, WantedBiasInReach, Zenon
    <2> QED
      BY <1>2, <2>1, ExtraIsNat
  <1>5. HasRoom(lower, upper) /\ (~crowded \/ biasPresented' = target)
    BY DEF Crowds
  <1>6. WayAhead(camera', target, upper)
    BY <1>2, <1>3, <1>5, WantedHasWay, Zenon
  <1>7. biasPresented \in Int /\ biasFrames \in Nat
    BY WideAssumption DEF WideInv, WideTypeOK
  <1>8. /\ biasPresented' \in Int
        /\ \/ biasPresented' = target
           \/ biasPresented < target /\ biasPresented' = biasPresented + 1
           \/ biasPresented > target /\ biasPresented' = biasPresented - 1
        /\ ~biasValid => biasPresented' = target
    BY <1>4, <1>7, BiasAfter
  <1> HIDE DEF target, upper, lower
  <1>9. CASE biasValid /\ ~crowded
    <2>1. WayAhead(camera, biasPresented, upper)
      BY <1>1, <1>9 DEF BiasHasWay, upper
    <2>2. WayAhead(camera', biasPresented', upper)
      BY <1>2, <1>4, <1>6, <1>7, <1>8, <2>1, WayIsKept
    <2> QED
      BY <1>2, <1>3, <1>8, <2>2, WideAssumption DEF upper, lower
  <1>10. CASE biasPresented' = target
    BY <1>2, <1>3, <1>6, <1>8, <1>10, WideAssumption DEF upper, lower
  <1> QED
    BY <1>5, <1>8, <1>9, <1>10

LEMMA StepHasWay ==
  ASSUME WideInv, BiasHasWay, MCWideNext
  PROVE  BiasHasWay'
  <1>1. CASE /\ DrawFrame
             /\ crowded' = (/\ source' # NoSource
                            /\ Crowds(MinimumScroll(camera'), MaximumScroll[scene']))
    <2> SUFFICES ASSUME biasValid', ~crowded'
                 PROVE  WayAhead(camera', biasPresented', MaximumScroll[scene'])
      BY DEF BiasHasWay
    <2>1. PICK prefill : RunOneFrame /\ scene' \in Levels /\ DrawLevel(prefill)
      BY <1>1 DEF DrawFrame, DrawBounded
    <2>2. PICK x : PrepareShadow(prefill, x)
      BY <2>1 DEF DrawLevel
    <2>3. source' # NoSource
      BY <2>1, <2>2, WideAssumption DEF PrepareShadow
    <2>4. ~Crowds(MinimumScroll(camera'), MaximumScroll[scene'])
      BY <1>1, <2>3
    <2> QED
      BY <2>1, <2>2, <2>4, LevelHasWay DEF DrawLevel
  <1>2. CASE LoadState
    BY <1>2 DEF LoadState, BiasHasWay
  <1>3. CASE /\ (\E a \in Aspects : SetAspect(a)) \/ (\E p \in Policies : SetEdgePolicy(p))
             /\ UNCHANGED <<restored, crowded>>
    <2>1. UNCHANGED <<biasValid, camera, biasPresented, scene, crowded>>
      BY <1>3 DEF SetAspect, SetEdgePolicy, worldVars, biasVars
    <2> QED
      BY <2>1, Zenon DEF BiasHasWay, WayAhead
  <1> QED
    BY <1>1, <1>2, <1>3, Zenon DEF MCWideNext

(* The rendered x lies beside the camera by no more than the lag. *)
LEMMA RenderedBesideCamera ==
  ASSUME NEW c \in Int, NEW x \in Int, c - x \in -MaxLag .. MaxLag
  PROVE  /\ Clamp(c - x, 0, MaxLag) \in Int /\ Clamp(-(c - x), 0, MaxLag) \in Int
         /\ x >= c - Clamp(c - x, 0, MaxLag) /\ x <= c + Clamp(-(c - x), 0, MaxLag)
  <1>1. MaxLag \in Nat
    BY WideAssumption
  <1> QED
    BY <1>1 DEF Clamp

(* The slid window and its margins stay within the level's walls, but for  *)
(* what the PPU renders beside the camera, whatever the camera, the holds, *)
(* the policy and the aspect did before.                                   *)
THEOREM PictureInsideLevel == MCWideSpec => DrawnInsideLevel
  <1> DEFINE Behind == camera' - holdCamera'
             Inside ==
               LevelShown /\ biasValid' /\ Slides /\ ~crowded' =>
                 /\ holdCamera' + presentationBias' - margins'.left
                      >= Origin - Clamp(Behind, 0, MaxLag)
                 /\ holdCamera' + presentationBias' + margins'.right
                      <= MaximumScroll[scene'] + Clamp(-Behind, 0, MaxLag)
  <1>1. WideInv /\ BiasHasWay /\ [MCWideNext]_MCWideVars => BiasHasWay'
    <2>1. UNCHANGED MCWideVars => UNCHANGED <<biasValid, camera, biasPresented, scene, crowded>>
      BY DEF MCWideVars, wideVars, worldVars, biasVars
    <2>2. BiasHasWay /\ UNCHANGED MCWideVars => BiasHasWay'
      BY <2>1, Zenon DEF BiasHasWay, WayAhead
    <2> QED
      BY <2>2, StepHasWay
  <1>2. WideInv /\ BiasHasWay /\ [MCWideNext]_MCWideVars => [Inside]_MCWideVars
    <2> SUFFICES ASSUME WideInv, BiasHasWay, MCWideNext, LevelShown, biasValid', Slides, ~crowded'
                 PROVE  /\ holdCamera' + presentationBias' - margins'.left
                             >= Origin - Clamp(Behind, 0, MaxLag)
                        /\ holdCamera' + presentationBias' + margins'.right
                             <= MaximumScroll[scene'] + Clamp(-Behind, 0, MaxLag)
      OBVIOUS
    <2> DEFINE lower == MinimumScroll(camera')
               upper == MaximumScroll[scene']
               middle == camera' + biasPresented'
               E == Extra[aspect]
    <2>1. /\ presentationBias' = biasPresented'
          /\ margins' = MarginsForBias(camera', lower, upper, biasPresented')
          /\ RunOneFrame /\ scene' \in Levels
      BY LevelStep
    <2>2. PICK x : x \in Rendered(camera') /\ PrepareShadow("exact", x)
      BY LevelStep
    <2>3. /\ camera' \in CameraRange(scene') /\ camera' \in Int /\ upper \in Int
          /\ camera' <= upper /\ Origin \in Nat /\ MaxTravel \in Nat \ {0} /\ E \in Nat
          /\ MaxLag \in Nat
      BY <2>1, SceneHasCamera, ExtraIsNat, WideAssumption
      DEF RunOneFrame, WideInv, WideTypeOK
    <2>4. holdCamera' = x /\ x \in Int /\ Behind \in -MaxLag .. MaxLag
      <3>1. holdCamera' = x
        BY <2>1, <2>2, <2>3, HoldAfter
      <3>2. x \in Int /\ camera' - x \in -MaxLag .. MaxLag
        BY <2>2, <2>3, LagIsBounded
      <3> QED
        BY <3>1, <3>2
    <2>5. ~Crowds(lower, upper)
      <3>1. source' # NoSource
        BY <2>1, <2>2, WideAssumption DEF PrepareShadow
      <3>2. crowded' = (source' # NoSource /\ Crowds(lower, upper))
        <4>1. terrainReady' /\ aspect' = aspect /\ edgePolicy' = edgePolicy
          BY DEF LevelShown, screenVars
        <4>2. ~LoadState /\ (\A a \in Aspects : ~SetAspect(a))
              /\ (\A p \in Policies : ~SetEdgePolicy(p))
          BY <4>1 DEF LoadState, SetAspect, SetEdgePolicy
        <4> QED
          BY <4>2, Zenon DEF MCWideNext
      <3> QED
        BY <3>1, <3>2, Zenon
    <2>6. /\ lower \in Origin .. camera' /\ biasPresented' \in Int
          /\ WayAhead(camera', biasPresented', upper)
      BY <2>1, <2>2, <2>5, LevelStep, LevelHasWay
    <2>7. Origin <= middle /\ middle <= upper /\ middle \in Int
      <3>1. Origin <= camera'
        BY <2>3, <2>6
      <3>2. Origin <= camera' + biasPresented' /\ camera' + biasPresented' <= upper
        BY <2>3, <2>6, <3>1, WayIsInside, Zenon
      <3>3. camera' + biasPresented' \in Int
        BY ONLY <2>3, <2>6
      <3> QED
        BY ONLY <3>2, <3>3
    <2>8. margins' = [left  |-> Clamp(middle - lower, 0, E), right |-> Clamp(upper - middle, 0, E)]
      BY <2>1, <2>3, <2>6 DEF MarginsForBias, Slides
    <2> HIDE DEF middle, lower, upper, E
    <2>9. Clamp(middle - lower, 0, E) <= middle - Origin /\ Clamp(upper - middle, 0, E) <= upper - middle
      BY <2>3, <2>6, <2>7 DEF Clamp
    <2>10. Clamp(middle - lower, 0, E) \in Int /\ Clamp(upper - middle, 0, E) \in Int
      BY <2>3, <2>6, <2>7 DEF Clamp
    <2>11. /\ margins'.left \in Int /\ margins'.left <= middle - Origin
           /\ margins'.right \in Int /\ margins'.right <= upper - middle
      BY <2>8, <2>9, <2>10
    <2>12. Origin \in Int /\ upper \in Int /\ holdCamera' \in Int /\ camera' \in Int
           /\ biasPresented' \in Int
      BY <2>3, <2>4, <2>6
    <2>13. /\ margins'.left \in Int /\ margins'.left <= camera' + biasPresented' - Origin
           /\ margins'.right \in Int /\ margins'.right <= upper - (camera' + biasPresented')
      <3>1. middle = camera' + biasPresented'
        BY DEF middle
      <3> QED
        BY <2>7, <2>11, <2>12, <3>1
    <2> DEFINE west == Clamp(Behind, 0, MaxLag)
               east == Clamp(-Behind, 0, MaxLag)
    <2>14. /\ west \in Int /\ east \in Int
           /\ holdCamera' >= camera' - west /\ holdCamera' <= camera' + east
      BY <2>4, <2>12, RenderedBesideCamera
    <2> HIDE DEF west, east
    <2>15. /\ holdCamera' + biasPresented' - margins'.left >= Origin - west
           /\ holdCamera' + biasPresented' + margins'.right <= upper + east
      <3> DEFINE h == holdCamera'
                 c == camera'
                 b == biasPresented'
                 left == margins'.left
                 right == margins'.right
      <3>1. /\ left \in Int /\ left <= c + b - Origin
            /\ right \in Int /\ right <= upper - (c + b)
        BY <2>13, Zenon
      <3>2. /\ h \in Int /\ c \in Int /\ b \in Int /\ Origin \in Int /\ upper \in Int
            /\ west \in Int /\ east \in Int /\ h >= c - west /\ h <= c + east
        BY <2>12, <2>14
      <3> HIDE DEF h, c, b, left, right
      <3>3. h + b - left >= Origin - west /\ h + b + right <= upper + east
        BY ONLY <3>1, <3>2
      <3> QED
        BY <3>3 DEF h, b, left, right
    <2> QED
      BY <2>1, <2>15 DEF upper, west, east
  <1>3. WideInv /\ [MCWideNext]_MCWideVars => WideInv'
    BY WideStepInv
  <1>4. MCWideInit => BiasHasWay
    BY DEF MCWideInit, WideInit, BiasHasWay
  <1> QED
    BY <1>1, <1>2, <1>3, <1>4, WideInitInv, PTL DEF MCWideSpec, DrawnInsideLevel

-----------------------------------------------------------------------------
(* The parts together. *)

(* Each part stays well formed while any of them moves.                    *)
THEOREM PartsTypeInvariant == PartsSpec => []PartsTypeOK
  <1>1. PartsInit => PacingInv /\ WideInv
    BY PacingInitInv, WideInitInv DEF PartsInit
  <1>2. PacingInv /\ WideInv /\ [PartsNext]_partsVars => PacingInv' /\ WideInv'
    <2> SUFFICES ASSUME PacingInv, WideInv, [PartsNext]_partsVars
                 PROVE  PacingInv' /\ WideInv'
      OBVIOUS
    <2>1. [MCPacingNext]_MCPacingVars /\ [MCWideNext]_MCWideVars
      BY DEF PartsNext, partsVars
    <2> QED
      BY <2>1, PacingStepInv, WideStepInv
  <1>3. PacingInv /\ WideInv => PartsTypeOK
    BY DEF PacingInv, WideInv, PartsTypeOK
  <1> QED
    BY <1>1, <1>2, <1>3, PTL DEF PartsSpec

(* What is proved of a part holds where all are next to each other. *)
THEOREM PartsKeepTheirSpecs == PartsSpec => RingSpec /\ MCPacingSpec /\ MCWideSpec
  <1>1. PartsInit => RingInit /\ MCPacingInit /\ MCWideInit
    BY DEF PartsInit
  <1>2. [PartsNext]_partsVars
          => [RingNext]_ringVars /\ [MCPacingNext]_MCPacingVars /\ [MCWideNext]_MCWideVars
    BY DEF PartsNext, partsVars
  <1> QED
    BY <1>1, <1>2, PTL DEF PartsSpec, RingSpec, MCPacingSpec, MCWideSpec
=============================================================================
