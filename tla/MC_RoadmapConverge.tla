------------------------ MODULE MC_RoadmapConverge ------------------------
(***************************************************************************)
(* RoadmapConverge on one or two dimensions, for TLC.                      *)
(***************************************************************************)
EXTENDS RoadmapConverge
=============================================================================
