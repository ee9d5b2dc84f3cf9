------------------------------ MODULE MCHealth ------------------------------
(* Model values for HealthProperties. *)
EXTENDS HealthProperties, TLC

Report(enough, alpha, costly, weak) ==
  [enough |-> enough, alpha |-> alpha, costly |-> costly, weak |-> weak]

\* a good window, a poor one, one too small to judge, a cost problem, a weak regime
MCWindows ==
  {Report(TRUE, 0, FALSE, FALSE), Report(TRUE, 2, FALSE, FALSE), Report(FALSE, 2, FALSE, FALSE),
   Report(TRUE, 0, TRUE, FALSE), Report(TRUE, 1, FALSE, TRUE)}

Symmetric == Permutations(Clients)

MCMode == [s \in Schedules |-> "HYBRID"]
=============================================================================
