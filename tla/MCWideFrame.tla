---------------------------- MODULE MCWideFrame ----------------------------
(***************************************************************************)
(* WideFrame on small levels, with history variables, and its properties.  *)
(***************************************************************************)
EXTENDS WideFrame

(* One level stands wide of its first column, which is empty at one height *)
(* and not at another; the other is closed.                                *)
SmallLevels == {"platform", "room"}
SmallScrolls == [l \in SmallLevels |-> IF l = "platform" THEN 10 ELSE 2]
SmallColumns == [l \in SmallLevels |-> IF l = "platform" THEN {{}, {0}} ELSE {{}}]

(* A level whose camera opens beside empty columns. *)
CliffLevel == {"cliff"}
CliffScroll == [l \in CliffLevel |-> 9]
CliffColumns == [l \in CliffLevel |-> {{0, 1}}]

SmallExtras == [a \in {"native", "16:10", "16:9"} |->
                  CASE a = "native" -> 0 [] a = "16:10" -> 1 [] a = "16:9" -> 3]

VARIABLES
  restored,     (* The level on the screen is that of a state loaded, with *)
                (* no other screen drawn since.                            *)
  crowded       (* Since the bias was last at its target, the walls have   *)
                (* been too near each other for the slide between them.    *)

(* Between two walls the camera needs a frame for each pixel that the      *)
(* window may be slid there.  A level may be too short for that, and a     *)
(* hold may be entered anywhere, close to the east wall too.               *)
HasRoom(lower, upper) ==
  MaxTravel * Clamp((upper - lower) \div 2, 0, Extra[aspect]) <= upper - lower

(* A frame of a level is drawn between these walls. *)
Crowds(lower, upper) ==
  \/ ~HasRoom(lower, upper)
  \/ crowded /\ biasPresented' # WantedBias(camera', lower, upper)

MCWideInit == WideInit /\ restored = FALSE /\ crowded = FALSE

MCWideNext ==
  \/ /\ DrawFrame
     /\ restored' = (restored /\ scene' = scene /\ source' # NoSource)
     /\ crowded' = (/\ source' # NoSource
                    /\ Crowds(MinimumScroll(camera'), MaximumScroll[scene']))
  \/ LoadState /\ restored' = TRUE /\ crowded' = FALSE
  \/ \E a \in Aspects : SetAspect(a) /\ UNCHANGED <<restored, crowded>>
  \/ \E p \in Policies : SetEdgePolicy(p) /\ UNCHANGED <<restored, crowded>>

MCWideVars == <<wideVars, restored, crowded>>
MCWideSpec == MCWideInit /\ [][MCWideNext]_MCWideVars

-----------------------------------------------------------------------------
(* Properties. *)

(* A frame is drawn of a level whose terrain is proven. *)
LevelShown == terrainReady' /\ UNCHANGED screenVars

(* Well formed: only a wide screen's level is ready, the picture it shows  *)
(* is that of the bias kept, and a hold lies where its level is rendered.  *)
WideTypeOK ==
  /\ scene \in Levels \cup {Bounded} /\ camera \in CameraRange(scene)
  /\ aspect \in Aspects /\ edgePolicy \in Policies
  /\ terrainReady \in BOOLEAN /\ biasValid \in BOOLEAN
  /\ stateLoadedRecently \in BOOLEAN /\ restored \in BOOLEAN /\ crowded \in BOOLEAN
  /\ biasFrames \in 0 .. SettleFrames /\ holdStartFrames \in 0 .. HoldStartFrames
  /\ source \in Levels \cup {NoSource}
  /\ terrainReady => source = scene /\ aspect # "native" /\ presentationBias = biasPresented
  /\ biasValid => source # NoSource
  /\ \A a \in Aspects : (\A b \in Aspects : Extra[b] <= Extra[a]) =>
       /\ {biasPresented, presentationBias} \subseteq -Extra[a] .. Extra[a]
       /\ margins \in [left : 0 .. Extra[a], right : 0 .. Extra[a]]
  /\ holdWest # None => /\ source # NoSource
                        /\ holdWest \in Origin .. MaximumScroll[source] + MaxLag
  /\ holdCamera # None =>
       /\ source # NoSource
       /\ holdCamera \in Origin - MaxLag .. MaximumScroll[source] + MaxLag

(* "The presented bias moves at most one pixel per frame toward the        *)
(* glide's target ... so a hold that appears or vanishes ... never snaps   *)
(* the picture" (docs/ARCHITECTURE.md), and the slack of the culls "needs  *)
(* extra - bias more ... on the left and extra + bias more on the right"   *)
(* (runner/dkc2_video.c).  The game releases objects by the bias of the    *)
(* frame before: but for a pixel a side, past a level's first frames, what *)
(* it keeps covers what is shown next.  A bias wider than the margins, as  *)
(* a change from 16:9 to 16:10 leaves for some frames, is not covered.     *)
CullCoversPicture ==
  [][LevelShown /\ terrainReady /\ biasValid /\ biasFrames = SettleFrames
     /\ presentationBias \in -Extra[aspect] .. Extra[aspect] =>
       /\ margins'.left - presentationBias' <= ExpandCullLeft + 1
       /\ margins'.right + presentationBias' <= ExpandCullSpan - ExpandCullLeft + 1
    ]_MCWideVars

(* The slide "keeps every margin inside the authored extent" (shift), "the *)
(* same pins as `shift'" (glide, docs/ARCHITECTURE.md).  Bias and margins  *)
(* are made for the WRAM camera, the picture stands where the PPU renders, *)
(* and the bias lags behind a camera, a hold, a policy and an aspect that  *)
(* change at any frame: past a wall the picture shows no more than what    *)
(* the PPU is behind the camera, or before it, in this very frame.  This   *)
(* is so from the second frame of a level on, but for walls too near each  *)
(* other for the slide, as a hold close to the east wall makes them.       *)
DrawnInsideLevel ==
  [][LevelShown /\ biasValid' /\ Slides /\ ~crowded' =>
       LET behind == camera' - holdCamera'
       IN  /\ holdCamera' + presentationBias' - margins'.left
                >= Origin - Clamp(behind, 0, MaxLag)
           /\ holdCamera' + presentationBias' + margins'.right
                <= MaximumScroll[scene'] + Clamp(-behind, 0, MaxLag)
    ]_MCWideVars

(* "A state restore is not a level start" (runner/dkc2_game.c): in a level *)
(* restored from a state or a rewind, no hold is entered unless what is    *)
(* rendered has stood still, for as long as no other screen is drawn.      *)
RestoreIsNoLevelStart ==
  [][restored' /\ holdWest' # None /\ holdWest' # holdWest => holdCamera = holdCamera'
    ]_MCWideVars

(* "for the first prefill frames after a level change the hold enters on   *)
(* the void beside the window alone" (runner/dkc2_game.c).                 *)
LevelStartHolds ==
  [][scene = Bounded /\ scene' # Bounded /\ holdCamera' # None
     /\ (\A empty \in EmptyColumns[scene'] : HoldWest(holdCamera', empty)) =>
       holdWest' # None]_MCWideVars
=============================================================================
