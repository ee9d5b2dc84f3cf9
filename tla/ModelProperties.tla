-------------------------- MODULE ModelProperties --------------------------
(***************************************************************************)
(* What the registry of models promises while its requests overlap.        *)
(***************************************************************************)
EXTENDS ModelLifecycle

Model == [status : Statuses, flagged : BOOLEAN, dataset : Datasets, checksum : Artifacts,
          parent : Keys \cup {None}]

DriftRow == [model : Keys, at : Times, types : {"none", "other", "performance"},
             triggered : BOOLEAN]

Promotion == [candidate : Keys, champion : Keys \cup {None}, promoted : BOOLEAN]

Typed(rows) ==
  /\ rows = [models |-> rows.models, drift |-> rows.drift, promotions |-> rows.promotions]
  /\ Registered(rows) \subseteq Keys
  /\ \A k \in Registered(rows) : rows.models[k] \in Model
  /\ rows.drift \in Seq(DriftRow)
  /\ rows.promotions \in Seq(Promotion)

TypeOK ==
  /\ Typed(db)
  /\ \A p \in DOMAIN files : files[p] \in Artifacts
  /\ DOMAIN open = Clients
  /\ \A c \in Clients : open[c] # None => open[c].call \in Calls /\ Typed(open[c].read)
  /\ requests \in 0..MaxRequests
  /\ overwritten \in BOOLEAN

\* the promotions that made k the champion, and those that superseded it
Won(rows, k) ==
  {i \in DOMAIN rows.promotions :
     rows.promotions[i].promoted /\ rows.promotions[i].candidate = k}

Lost(rows, k) ==
  {i \in DOMAIN rows.promotions :
     rows.promotions[i].promoted /\ rows.promotions[i].champion = k}

\* The registry can be rebuilt from the immutable promotion rows: the champions are the
\* models whose promotion no later promotion superseded, and a flagged model is never one.
TitlesFollowPromotions ==
  ~overwritten =>
    \A k \in Registered(db) :
      /\ db.models[k].status = "CHAMPION" <=> Won(db, k) # {} /\ Lost(db, k) = {}
      /\ db.models[k].status = "SUPERSEDED" <=> Lost(db, k) # {}
      /\ db.models[k].flagged => Won(db, k) = {}

\* However many requests share a key and whichever of them commits, the artifact a row names
\* is on disk and is the one it was registered with.
ArtifactMatchesRow ==
  \A k \in Registered(db) :
    LET path == ArtifactPath(k, db.models[k].checksum)
    IN  path \in DOMAIN files /\ files[path] = db.models[k].checksum

\* No single window makes a retraining eligible, whatever order windows arrive in: a window
\* that triggers shows drift itself, and so does another one of its model.
DriftIsPersistent ==
  \A i \in DOMAIN db.drift :
    db.drift[i].triggered =>
      \E j \in DOMAIN db.drift \ {i} :
        /\ db.drift[j].model = db.drift[i].model
        /\ db.drift[j].types # "none" /\ db.drift[i].types # "none"

\* what the artifact of an open request needs: its file is written before its row
FileWritten(call) ==
  LET path == ArtifactPath(call.key, call.result.artifact)
  IN  path \in DOMAIN files /\ files[path] = call.result.artifact

\* What an open request has read is behind the registry, and was accepted on what it read.
ReadsBehind ==
  \A c \in Clients : open[c] # None =>
    LET read == open[c].read
    IN  /\ Accepted(open[c].call, read)
        /\ Registered(read) \subseteq Registered(db)
        /\ \A i \in DOMAIN read.drift : i \in DOMAIN db.drift /\ read.drift[i] = db.drift[i]
        /\ open[c].call.op \in {"evaluate", "retrain"} => FileWritten(open[c].call)

\* Promotions name registered models, and a flagged model is never VALIDATED.
RowsAgree ==
  /\ \A i \in DOMAIN db.promotions :
       /\ db.promotions[i].candidate \in Registered(db)
       /\ db.promotions[i].champion \in Registered(db) \cup {None}
  /\ \A k \in Registered(db) : db.models[k].flagged => db.models[k].status # "VALIDATED"

\* However requests overlap, rows keep their artifacts and no single window triggers.  What
\* the open requests have read makes it inductive.
ModelInv == TypeOK /\ ReadsBehind /\ RowsAgree /\ ArtifactMatchesRow /\ DriftIsPersistent
=============================================================================
