---------------------------- MODULE MCHostParts ----------------------------
(***************************************************************************)
(* Three parts of the desktop host that share nothing, for model checking  *)
(* in one run: the ring of snapshots, the pacing of frames, or the place   *)
(* of the wide picture.  A behaviour is one of any part alone; of the two  *)
(* ways pacing starts, with a display link or without, the picture is      *)
(* drawn in one.                                                           *)
(***************************************************************************)
EXTENDS RewindRing, MCFramePacing, MCWideFrame

partsVars == <<ringVars, MCPacingVars, MCWideVars>>

PartsInit == RingInit /\ MCPacingInit /\ MCWideInit

PartsNext ==
  \/ /\ MCPacingInit /\ MCWideInit
     /\ RingNext /\ UNCHANGED <<MCPacingVars, MCWideVars>>
  \/ /\ RingInit /\ MCWideInit
     /\ MCPacingNext /\ UNCHANGED <<ringVars, MCWideVars>>
  \/ /\ RingInit /\ MCPacingInit /\ link
     /\ MCWideNext /\ UNCHANGED <<ringVars, MCPacingVars>>

PartsSpec == PartsInit /\ [][PartsNext]_partsVars /\ PacingFairness

(* The types of the two parts that have no specification to implement.     *)
PartsTypeOK == PacingTypeOK /\ WideTypeOK
=============================================================================
