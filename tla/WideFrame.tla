------------------------------ MODULE WideFrame ------------------------------
(***************************************************************************)
(* Where the wide picture stands over a level: how far the presented       *)
(* window is slid from the cartridge's camera (the bias), the margins it   *)
(* is given, the slack with which the game releases objects, and the west  *)
(* hold read from the level's map (runner/dkc2_game.c and the presentation *)
(* part of runner/dkc2_video.c).  One step is one frame of the game and    *)
(* its drawing; a state may be loaded, and aspect and edge policy changed, *)
(* between two frames.                                                     *)
(*                                                                         *)
(* Lengths are camera pixels, scaled down.  The terrain decoder is reduced *)
(* to its outcome, and the rows of a level's map to the empty columns they *)
(* leave beside the window.  The cartridge writes its camera and the       *)
(* scroll of the PPU apart: the x at which a frame is rendered may lie     *)
(* behind the camera's, or before it, by a few pixels.                     *)
(***************************************************************************)
EXTENDS Integers

CONSTANTS
  Levels,          (* What Dkc2LevelSourceSignature tells apart.           *)
  Bounded,         (* Any screen that is not extended: map, card, menu.    *)
  MaximumScroll,   (* Of each level, the word at $0AFC.                    *)
  EmptyColumns,    (* Of each level, the sets of columns that are empty    *)
                   (* over the visible height somewhere in the level.      *)
  Extra,           (* g_ws_extra for each aspect.                          *)
  Policies,        (* Dkc2VideoEdgePolicy.                                 *)
  Origin,          (* The map's first page, $0100.                         *)
  Metatile,        (* Pixels of a column of the map.                       *)
  GlideSpan,       (* kDkc2VideoEdgeGlideSpan.                             *)
  SettleFrames,    (* kDkc2BiasSettleFrames.                               *)
  HoldStartFrames, (* kDkc2HoldStartFrames.                                *)
  MaxTravel,       (* Bound: the camera's travel in one frame.             *)
  MaxLag           (* Bound: how far the x a frame is rendered at lies     *)
                   (* from the camera's.                                   *)

Aspects == DOMAIN Extra

(* Stands for a position that is not valid, or no level.                   *)
None == -1
NoSource == "none"

ASSUME WideAssumption ==
  /\ Bounded \notin Levels /\ NoSource \notin Levels
  /\ MaximumScroll \in [Levels -> Nat]
  /\ EmptyColumns \in [Levels -> SUBSET SUBSET Nat]
  /\ "native" \in Aspects
  /\ Extra \in [Aspects -> Nat]
  /\ \A a \in Aspects : Extra[a] = 0 <=> a = "native"
  /\ "glide" \in Policies /\ Policies \subseteq {"reflect", "bars", "shift", "glide"}
  /\ Origin \in Nat /\ Metatile \in Nat \ {0} /\ GlideSpan \in Nat \ {0}
  /\ SettleFrames \in Nat \ {0} /\ HoldStartFrames \in Nat
  (* The camera travels at most five pixels a frame, a glide of one margin *)
  (* spans eight for each of its pixels.                                   *)
  /\ MaxTravel \in 1 .. GlideSpan /\ MaxLag \in 0 .. Origin
  /\ \A l \in Levels : MaximumScroll[l] >= Origin

VARIABLES
  scene,               (* The level the game is in, or Bounded.            *)
  camera,              (* The camera's x, at $17BA.                        *)
  aspect, edgePolicy,  (* s_aspect and s_edge_policy.                      *)
  terrainReady,        (* s_terrain_ready.                                 *)
  presentationBias,    (* s_presentation_bias, which the culls read.       *)
  margins,             (* What the last frame showed beside the window.    *)
  biasValid, biasFrames, biasPresented,  (* s_bias_*.                      *)
  holdWest,            (* s_hold_west_valid and s_hold_west_x.             *)
  holdCamera,          (* s_hold_camera_valid and s_hold_camera_x, the x   *)
                       (* the last proven or partly proven frame was       *)
                       (* rendered at.                                     *)
  holdStartFrames,     (* s_hold_start_frames.                             *)
  source,              (* s_widescreen_source_valid and _signature.        *)
  stateLoadedRecently  (* s_state_loaded_recently.                         *)

worldVars  == <<scene, camera>>
screenVars == <<aspect, edgePolicy>>
biasVars   == <<biasValid, biasFrames, biasPresented>>
holdVars   == <<holdWest, holdCamera, holdStartFrames>>
wideVars   == <<worldVars, screenVars, terrainReady, presentationBias, margins,
                biasVars, holdVars, source, stateLoadedRecently>>

CameraRange(s) == IF s = Bounded THEN {Origin} ELSE Origin .. MaximumScroll[s]

(* Where a frame is rendered whose camera is at x.                         *)
Rendered(x) == x - MaxLag .. x + MaxLag

-----------------------------------------------------------------------------
(* Geometry. *)

Clamp(value, lower, upper) ==
  IF value < lower THEN lower ELSE IF value > upper THEN upper ELSE value

Slides == edgePolicy \in {"shift", "glide"}

(* One margin of slide at each wall, released with travel away from it.    *)
GlideWanted(x, lower, upper) ==
  LET Inward(travel) == IF travel \in 0 .. Extra[aspect] * GlideSpan - 1
                        THEN Extra[aspect] - travel \div GlideSpan ELSE 0
  IN  Inward(x - lower) - Inward(upper - x)

(* The slide a camera between two walls calls for.  The presented window   *)
(* is kept within reach of neither wall, so that its margins fit.          *)
WantedBias(x, lower, upper) ==
  LET reach  == Clamp((upper - lower) \div 2, 0, Extra[aspect])
      wanted == IF edgePolicy = "glide" THEN GlideWanted(x, lower, upper) ELSE 0
  IN  IF upper >= lower /\ Slides
      THEN Clamp(Clamp(wanted, lower + reach - x, upper - reach - x),
                 -Extra[aspect], Extra[aspect])
      ELSE 0

(* Mutant: the margins are those of the camera, wherever the window is.    *)
MarginsOfCamera(x, lower, upper, bias) ==
  IF upper < lower \/ edgePolicy = "reflect"
  THEN [left |-> Extra[aspect], right |-> Extra[aspect]]
  ELSE [left |-> Clamp(x - lower, 0, Extra[aspect]),
        right |-> Clamp(upper - x, 0, Extra[aspect])]

(* The margins that walls allow a window slid by a bias.                   *)
MarginsForBias(x, lower, upper, bias) ==
  LET Beside(middle) == [left  |-> Clamp(middle - lower, 0, Extra[aspect]),
                         right |-> Clamp(upper - middle, 0, Extra[aspect])]
  IN  IF upper < lower \/ edgePolicy = "reflect"
      THEN [left |-> Extra[aspect], right |-> Extra[aspect]]
      ELSE Beside(IF Slides THEN x + bias ELSE x)

NoMargins == [left |-> 0, right |-> 0]

(* The west bound: the first page, or a hold the camera has not passed.    *)
MinimumScroll(x) == IF holdWest > Origin /\ holdWest <= x THEN holdWest ELSE Origin

(* Mutant: the slack is the same on both sides.                            *)
ExpandCullEvenly == IF terrainReady THEN Extra[aspect] ELSE 0

(* What is added to the window within which the game keeps an object, at   *)
(* its left and to its whole width.                                        *)
ExpandCullLeft ==
  IF terrainReady THEN Clamp(Extra[aspect] - presentationBias, 0, 2 * Extra[aspect])
  ELSE 0
ExpandCullSpan == IF terrainReady THEN 2 * Extra[aspect] ELSE 0

(* The column of the map at the west edge of a window rendered at x, and   *)
(* whether those an unbiased margin would show beside it are empty.        *)
WindowColumn(x) == (x - Origin) \div Metatile

HoldWest(x, empty) ==
  LET column == WindowColumn(x)
      reach  == (Extra[aspect] + Metatile - 1) \div Metatile + 1
  IN  column > 0 /\ \A n \in 1 .. reach : n <= column => column - n \in empty

-----------------------------------------------------------------------------
WideInit ==
  /\ scene = Bounded /\ camera = Origin
  /\ aspect = "native" /\ edgePolicy = "glide"
  /\ terrainReady = FALSE /\ presentationBias = 0 /\ margins = NoMargins
  /\ biasValid = FALSE /\ biasFrames = 0 /\ biasPresented = 0
  /\ holdWest = None /\ holdCamera = None /\ holdStartFrames = 0
  /\ source = NoSource /\ stateLoadedRecently = FALSE

(* Within a level the camera scrolls; a change of scene puts it anywhere.  *)
RunOneFrame ==
  /\ scene' \in Levels \cup {Bounded}
  /\ camera' \in CameraRange(scene')
  /\ scene' = scene => camera' - camera \in -MaxTravel .. MaxTravel

(* The bias moves by one a frame, but for the first frames of a level.     *)
StepBias(wanted) ==
  /\ biasPresented' =
       IF ~biasValid \/ biasFrames < SettleFrames THEN wanted
       ELSE biasPresented + Clamp(wanted - biasPresented, -1, 1)
  /\ biasFrames' = Clamp((IF biasValid THEN biasFrames ELSE 0) + 1, 0, SettleFrames)

(* The hold a level's map gives, read for the next frame: kept while the   *)
(* void stays beside the window, entered in a level's first frames or when *)
(* the player stands at the window's edge and what is rendered stands      *)
(* still.                                                                  *)
ReadHold(hold, seenAt, start, x, empty) ==
  LET beside == HoldWest(x, empty)
  IN  /\ \/ ~beside /\ holdWest' = None
         \/ beside /\ hold # None /\ holdWest' = hold
         \/ /\ beside /\ hold = None /\ (start > 0 \/ seenAt = x)
            /\ holdWest' = Origin + WindowColumn(x) * Metatile
         \/ beside /\ hold = None /\ start = 0 /\ holdWest' = None
      /\ holdStartFrames' = Clamp(start - 1, 0, HoldStartFrames)
      /\ holdCamera' = x

(* Entering a source that was not the last forgets bias and hold, but the  *)
(* frame at hand has its bias already.                                     *)
EntersSource == source # scene'

(* Mutant: a restored level is taken for one that starts.                  *)
StartFramesAlways == IF EntersSource THEN HoldStartFrames ELSE holdStartFrames

StartFrames ==
  IF ~EntersSource THEN holdStartFrames
  ELSE IF stateLoadedRecently THEN 0 ELSE HoldStartFrames

PrepareShadow(prefill, x) ==
  LET hold   == IF EntersSource THEN None ELSE holdWest
      seenAt == IF EntersSource THEN None ELSE holdCamera
  IN  /\ source' = scene'
      /\ stateLoadedRecently' = (stateLoadedRecently /\ ~EntersSource)
      /\ biasValid' = ~EntersSource
      /\ \/ /\ prefill = "refused"
            /\ holdWest' = hold /\ holdCamera' = seenAt /\ holdStartFrames' = StartFrames
         \/ /\ prefill # "refused"
            /\ \E empty \in EmptyColumns[scene'] : ReadHold(hold, seenAt, StartFrames, x, empty)

(* A level on a wide screen.  Bias and margins are those of the camera,    *)
(* the map is read where the PPU renders.  The decoder refuses, fills the  *)
(* margins only in part, or proves them.                                   *)
DrawLevel(prefill) ==
  LET lower == MinimumScroll(camera')
      upper == MaximumScroll[scene']
      ready == prefill = "exact"
  IN  /\ scene' # Bounded /\ aspect # "native"
      /\ StepBias(WantedBias(camera', lower, upper))
      /\ \E x \in Rendered(camera') : PrepareShadow(prefill, x)
      /\ terrainReady' = ready
      /\ presentationBias' = IF ready THEN biasPresented' ELSE 0
      /\ margins' = IF ready THEN MarginsForBias(camera', lower, upper, biasPresented')
                    ELSE NoMargins
      /\ UNCHANGED screenVars

(* Any other screen, or a native one, is drawn without margins.            *)
DrawBounded ==
  /\ scene' = Bounded \/ aspect = "native"
  /\ holdWest' = None /\ holdCamera' = None /\ source' = NoSource
  /\ biasValid' = FALSE /\ terrainReady' = FALSE /\ margins' = NoMargins
  /\ UNCHANGED <<screenVars, presentationBias, biasFrames, biasPresented,
                 holdStartFrames, stateLoadedRecently>>

DrawFrame ==
  RunOneFrame /\ (\/ DrawBounded
                  \/ /\ scene' \in Levels
                     /\ \E prefill \in {"refused", "partial", "exact"} : DrawLevel(prefill))

(* A state file, or one step of a rewind.                                  *)
LoadState ==
  /\ scene' \in Levels \cup {Bounded} /\ camera' \in CameraRange(scene')
  /\ source' = NoSource /\ holdWest' = None /\ holdCamera' = None
  /\ biasValid' = FALSE /\ terrainReady' = FALSE
  /\ stateLoadedRecently' = TRUE
  /\ UNCHANGED <<screenVars, presentationBias, margins, biasFrames, biasPresented,
                 holdStartFrames>>

SetAspect(a) ==
  /\ a # aspect /\ aspect' = a
  /\ terrainReady' = FALSE
  /\ margins' = NoMargins
  /\ UNCHANGED <<worldVars, edgePolicy, presentationBias, biasVars, holdVars, source,
                 stateLoadedRecently>>

SetEdgePolicy(p) ==
  /\ p # edgePolicy /\ edgePolicy' = p
  /\ UNCHANGED <<worldVars, aspect, terrainReady, presentationBias, margins, biasVars,
                 holdVars, source, stateLoadedRecently>>

WideNext ==
  \/ DrawFrame
  \/ LoadState
  \/ \E a \in Aspects : SetAspect(a)
  \/ \E p \in Policies : SetEdgePolicy(p)

WideSpec == WideInit /\ [][WideNext]_wideVars
=============================================================================
