------------------------------ MODULE MCModel ------------------------------
(* Model values for ModelProperties. *)
EXTENDS ModelProperties, TLC

Trained(dataset, artifact, flagged) ==
  [dataset |-> dataset, artifact |-> artifact, flagged |-> flagged]

MCResults == {Trained(1, 1, FALSE), Trained(2, 2, FALSE), Trained(2, 2, TRUE)}

MCWindows ==
  [at : Times, drift : {"none", "performance"}, enough : {TRUE}]
    \cup [at : {1}, drift : {"other"}, enough : {FALSE}]

\* convincing, convincing without a champion only, failed under stress
MCEvidences ==
  {[enough |-> TRUE, better |-> TRUE, passed |-> TRUE],
   [enough |-> TRUE, better |-> FALSE, passed |-> TRUE],
   [enough |-> TRUE, better |-> TRUE, passed |-> FALSE]}

Symmetric == Permutations(Clients) \cup Permutations(Keys)
=============================================================================
