----------------------------- MODULE MCCampaign -----------------------------
(***************************************************************************)
(* Small campaigns for TLC: the later experiment ranks first, so that a    *)
(* finalization before it completes tests a finalist that is superseded.   *)
(* The workers are interchangeable, which symmetry exploits in the runs    *)
(* that check safety only.                                                 *)
(***************************************************************************)
EXTENDS CampaignProperties, TLC

MCScore == [e \in Experiments |-> e]

WorkerSymmetry == Permutations(Workers)
=============================================================================
