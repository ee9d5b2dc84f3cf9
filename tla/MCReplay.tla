------------------------------ MODULE MCReplay ------------------------------
(***************************************************************************)
(* Small replays for TLC.                                                  *)
(***************************************************************************)
EXTENDS ReplayProperties
=============================================================================
