--------------------------- MODULE ModelLifecycle ---------------------------
(***************************************************************************)
(* The registry of ML models: evaluation, drift, retraining and promotion  *)
(* (app/ml_research/lifecycle.py, service.py, app/api/routes/              *)
(* ml_research.py).  Every request reads, writes its artifact if it has    *)
(* one, and commits; other requests commit in between.  An artifact is a   *)
(* file: it stays when its transaction does not commit.                    *)
(***************************************************************************)
EXTENDS Naturals, Sequences

CONSTANTS
  Clients,
  None,
  Keys,         \* model_key of a model, the experiment_key of its definition
  Datasets,     \* dataset fingerprints
  Artifacts,    \* serialized models, and so their checksums
  Times,        \* observed_at of a drift window
  Results,      \* of trainings: see Result
  Windows,      \* drift windows: see DriftWindow
  Evidences,    \* of promotions: see Evidence
  MaxRequests   \* bound on the requests

\* what a trained model is: the split metrics are reduced to whether they raise a flag
Result == [dataset : Datasets, artifact : Artifacts, flagged : BOOLEAN]

\* enough samples, and which drift the window shows if it has them
DriftWindow == [at : Times, drift : {"none", "other", "performance"}, enough : BOOLEAN]

\* locked evidence: enough samples, better than the champion, stress and regime passed
Evidence == [enough : BOOLEAN, better : BOOLEAN, passed : BOOLEAN]

ASSUME ModelAssumption ==
  /\ Results \subseteq Result /\ Windows \subseteq DriftWindow /\ Evidences \subseteq Evidence
  /\ Times \subseteq Nat /\ MaxRequests \in Nat /\ None \notin Keys

VARIABLES
  db,           \* the committed rows
  files,        \* artifact path -> artifact
  open,         \* of each client: its call and what it has read
  requests,
  overwritten   \* has a promotion committed over statuses it had not read?

vars == <<db, files, open, requests, overwritten>>

Statuses == {"CANDIDATE", "VALIDATED", "CHAMPION", "SUPERSEDED"}

Triggers == {"SCHEDULED", "PERSISTENT_DRIFT", "NEW_DATASET", "PERFORMANCE_DEGRADATION"}

Init ==
  /\ db = [models |-> [k \in {} |-> None], drift |-> <<>>, promotions |-> <<>>]
  /\ files = [p \in {} |-> None]
  /\ open = [c \in Clients |-> None]
  /\ requests = 0
  /\ overwritten = FALSE

Registered(rows) == DOMAIN rows.models

-----------------------------------------------------------------------------
(* Drift. *)

\* assess_drift raises no flag on a small window
HasDrift(w) == w.enough /\ w.drift # "none"

DriftOf(rows, k) == {i \in DOMAIN rows.drift : rows.drift[i].model = k}

PriorDrift(rows, k) == {i \in DriftOf(rows, k) : rows.drift[i].types # "none"}

\* consecutive_windows counts every recorded window with drift, PERSISTENT_WINDOWS is 2
Persistent(rows, k, w) == HasDrift(w) /\ PriorDrift(rows, k) # {}

Drift(rows, k, w) ==
  [model |-> k, at |-> w.at, types |-> IF w.enough THEN w.drift ELSE "none",
   triggered |-> Persistent(rows, k, w)]

\* what a retraining request must find recorded
Justified(rows, parent, trigger, result) ==
  CASE trigger = "SCHEDULED" -> TRUE
    [] trigger = "PERSISTENT_DRIFT" ->
         \E i \in DriftOf(rows, parent) : rows.drift[i].triggered
    [] trigger = "NEW_DATASET" -> result.dataset # rows.models[parent].dataset
    [] trigger = "PERFORMANCE_DEGRADATION" ->
         \E i \in DriftOf(rows, parent) : rows.drift[i].types = "performance"

-----------------------------------------------------------------------------
(* Requests. *)

\* The faulty ArtifactPath of a mutant: the checksum is left out.
ArtifactPathOfKey(key, artifact) == <<key>>

ArtifactPath(key, artifact) == <<key, artifact>>

Calls ==
  [op : {"evaluate"}, key : Keys, result : Results]
    \cup [op : {"retrain"}, key : Keys, parent : Keys, trigger : Triggers, result : Results]
    \cup [op : {"drift"}, key : Keys, window : Windows]
    \cup [op : {"promote"}, key : Keys, champion : Keys \cup {None}, evidence : Evidences]

\* the checks made on what the request reads, before it computes or writes anything
Accepted(call, rows) ==
  CASE call.op = "evaluate" -> TRUE
    [] call.op = "drift"    -> call.key \in Registered(rows)
    [] call.op = "promote"  -> /\ call.key \in Registered(rows)
                               /\ call.champion \in Registered(rows) \cup {None}
                               /\ call.champion # call.key
    [] call.op = "retrain"  -> /\ call.parent \in Registered(rows)
                               /\ call.key # call.parent
                               /\ Justified(rows, call.parent, call.trigger, call.result)

\* run and the file of persist: the whole computation is in this step
Begin(c, call) ==
  /\ open[c] = None
  /\ requests < MaxRequests
  /\ Accepted(call, db)
  /\ requests' = requests + 1
  /\ open' = [open EXCEPT ![c] = [call |-> call, read |-> db]]
  /\ files' = IF call.op \in {"evaluate", "retrain"}
                THEN LET path == ArtifactPath(call.key, call.result.artifact)
                     IN  [p \in DOMAIN files \cup {path} |->
                            IF p = path THEN call.result.artifact ELSE files[p]]
                ELSE files
  /\ UNCHANGED <<db, overwritten>>

\* the registry row; model_key is unique, so a second INSERT fails
Persist(c) ==
  LET call  == open[c].call
      model == [status |-> IF call.result.flagged THEN "CANDIDATE" ELSE "VALIDATED",
                flagged |-> call.result.flagged,
                dataset |-> call.result.dataset, checksum |-> call.result.artifact,
                parent |-> IF call.op = "retrain" THEN call.parent ELSE None]
  IN  /\ call.op \in {"evaluate", "retrain"}
      /\ call.key \notin Registered(db)
      /\ db' = [db EXCEPT !.models = [k \in Registered(db) \cup {call.key} |->
                                        IF k = call.key THEN model ELSE db.models[k]]]
      /\ UNCHANGED overwritten

RecordDrift(c) ==
  LET call == open[c].call
  IN  /\ call.op = "drift"
      /\ db' = [db EXCEPT !.drift = Append(@, Drift(open[c].read, call.key, call.window))]
      /\ UNCHANGED overwritten

\* The faulty Promoted of a mutant: flagged models are eligible.
PromotedUnvalidated(call, read) ==
  /\ call.evidence.enough /\ call.evidence.passed
  /\ call.champion = None \/ call.evidence.better

Promoted(call, read) ==
  /\ call.evidence.enough /\ call.evidence.passed
  /\ call.champion = None \/ call.evidence.better
  /\ read.models[call.key].status = "VALIDATED"

StatusAfter(call, k) == IF k = call.key THEN "CHAMPION" ELSE "SUPERSEDED"

\* a flush writes the statuses that differ from those that were read
DecidePromotion(c) ==
  LET call     == open[c].call
      read     == open[c].read
      parties  == {call.key, call.champion} \ {None}
      promoted == Promoted(call, read)
      written  == {k \in parties : promoted /\ StatusAfter(call, k) # read.models[k].status}
  IN  /\ call.op = "promote"
      /\ db' = [db EXCEPT
                  !.models = [k \in Registered(db) |->
                                IF k \in written
                                  THEN [db.models[k] EXCEPT !.status = StatusAfter(call, k)]
                                  ELSE db.models[k]],
                  !.promotions = Append(@, [candidate |-> call.key, champion |-> call.champion,
                                            promoted |-> promoted])]
      /\ overwritten' = (overwritten \/ \E k \in parties :
                                           db.models[k].status # read.models[k].status)

Commit(c) ==
  /\ open[c] # None
  /\ Persist(c) \/ RecordDrift(c) \/ DecidePromotion(c)
  /\ open' = [open EXCEPT ![c] = None]
  /\ UNCHANGED <<files, requests>>

\* a constraint, an error or a crash ends the transaction, and its file stays
Abort(c) ==
  /\ open[c] # None
  /\ open' = [open EXCEPT ![c] = None]
  /\ UNCHANGED <<db, files, requests, overwritten>>

Next ==
  \E c \in Clients :
    \/ \E call \in Calls : Begin(c, call)
    \/ Commit(c)
    \/ Abort(c)

Spec == Init /\ [][Next]_vars
=============================================================================
