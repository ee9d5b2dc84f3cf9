------------------------------- MODULE MCStudy -------------------------------
(* A study over the campaign of MCCampaign, one of its experiments with risk flags. *)
EXTENDS MCCampaign, OptimizationStudies
=============================================================================
