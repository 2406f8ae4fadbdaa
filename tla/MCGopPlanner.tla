---------------------------- MODULE MCGopPlanner ----------------------------
(***************************************************************************)
(* Both B-frame counts, no GOP and every GOP size round the mini-GOP,      *)
(* twelve sources with a key frame or a drain at any of them.              *)
(***************************************************************************)
EXTENDS GopReferences

MCGopSizes == {0} \cup 3 .. 6
=============================================================================
