------------------------------- MODULE MCLive -------------------------------
(* A session of at most two bars, over a feed of four. *)
EXTENDS LiveProperties

MCTimes == 1..4
=============================================================================
