----------------------------- MODULE ModelProofs -----------------------------
(***************************************************************************)
(* Proofs about the registry of models: for any number of clients, keys,   *)
(* artifacts and requests, overlapping and aborting anywhere.              *)
(***************************************************************************)
EXTENDS ModelProperties, SequenceTheorems, TLAPS

\* What a call of each kind carries.
LEMMA CallFacts ==
  ASSUME NEW call \in Calls
  PROVE  /\ call.op \in {"evaluate", "retrain", "drift", "promote"}
         /\ call.key \in Keys
         /\ call.op \in {"evaluate", "retrain"} => call.result \in Result
         /\ call.op = "retrain" => call.parent \in Keys
         /\ call.op = "drift" => call.window \in DriftWindow
         /\ call.op = "promote" => call.champion \in Keys \cup {None}
BY ModelAssumption DEF Calls

\* A row appended to a table leaves the others where they are.
LEMMA AppendRow ==
  ASSUME NEW T, NEW s \in Seq(T), NEW row \in T
  PROVE  LET n == Len(s) + 1
         IN  /\ Append(s, row) \in Seq(T)
             /\ n \notin DOMAIN s
             /\ DOMAIN Append(s, row) = DOMAIN s \cup {n}
             /\ Append(s, row)[n] = row
             /\ \A i \in DOMAIN s : Append(s, row)[i] = s[i]
<1>1. /\ Len(s) \in Nat /\ DOMAIN s = 1..Len(s)
      /\ DOMAIN Append(s, row) = 1..(Len(s) + 1)
  BY AppendProperties, LenProperties
<1>2. Append(s, row) \in Seq(T) /\ Append(s, row)[Len(s) + 1] = row
      /\ \A i \in 1..Len(s) : Append(s, row)[i] = s[i]
  BY AppendProperties
<1> QED
  BY <1>1, <1>2

\* Two models never share the path of different artifacts.
LEMMA PathNames ==
  ASSUME NEW k1, NEW a1, NEW k2, NEW a2, ArtifactPath(k1, a1) = ArtifactPath(k2, a2)
  PROVE  a1 = a2
BY DEF ArtifactPath

LEMMA InitModels == Init => ModelInv /\ TitlesFollowPromotions
<1> SUFFICES ASSUME Init
             PROVE  ModelInv /\ TitlesFollowPromotions
  OBVIOUS
<1>1. /\ Registered(db) = {} /\ db.drift = <<>> /\ db.promotions = <<>>
      /\ db = [models |-> db.models, drift |-> db.drift, promotions |-> db.promotions]
      /\ DOMAIN files = {} /\ requests = 0 /\ overwritten = FALSE
      /\ DOMAIN open = Clients /\ \A c \in Clients : open[c] = None
  BY DEF Init, Registered
<1>2. <<>> \in Seq(DriftRow) /\ <<>> \in Seq(Promotion) /\ DOMAIN <<>> = {}
  BY EmptySeq
<1>3. TypeOK
  <2>1. Typed(db)
    BY <1>1, <1>2 DEF Typed
  <2>2. requests \in 0..MaxRequests
    BY <1>1, ModelAssumption
  <2> QED
    BY <1>1, <2>1, <2>2 DEF TypeOK
<1>4. ReadsBehind /\ RowsAgree /\ ArtifactMatchesRow /\ DriftIsPersistent
  BY <1>1, <1>2 DEF ReadsBehind, RowsAgree, ArtifactMatchesRow, DriftIsPersistent
<1>5. TitlesFollowPromotions
  BY <1>1 DEF TitlesFollowPromotions
<1> QED
  BY <1>3, <1>4, <1>5 DEF ModelInv

\* Beginning a request writes at most its own artifact, under a path of its own.
LEMMA BeginKeeps ==
  ASSUME ModelInv, NEW c \in Clients, NEW call \in Calls, Begin(c, call)
  PROVE  ModelInv' /\ (TitlesFollowPromotions => TitlesFollowPromotions')
<1> DEFINE path == ArtifactPath(call.key, call.result.artifact)
           new == [call |-> call, read |-> db]
<1>1. /\ db' = db /\ overwritten' = overwritten /\ requests' = requests + 1
      /\ requests < MaxRequests /\ Accepted(call, db)
      /\ DOMAIN open' = Clients
      /\ \A x \in Clients : open'[x] = IF x = c THEN new ELSE open[x]
  BY DEF Begin, ModelInv, TypeOK
<1>2. \A p \in DOMAIN files : /\ p \in DOMAIN files'
                              /\ files'[p] = files[p] \/ p = path
  BY DEF Begin
<1>3. /\ \A p \in DOMAIN files' : files'[p] \in Artifacts
      /\ call.op \in {"evaluate", "retrain"} => FileWritten(call)'
      /\ path \in DOMAIN files /\ files'[path] # files[path] =>
           files'[path] = call.result.artifact
  <2>1. CASE call.op \in {"evaluate", "retrain"}
    <3>1. call.result.artifact \in Artifacts
      BY <2>1, CallFacts DEF Result
    <3>2. files' = [p \in DOMAIN files \cup {path} |->
                      IF p = path THEN call.result.artifact ELSE files[p]]
      BY <2>1 DEF Begin
    <3> HIDE DEF path
    <3>3. path \in DOMAIN files' /\ files'[path] = call.result.artifact
      BY <3>2
    <3>4. \A p \in DOMAIN files' : files'[p] \in Artifacts
      BY <3>1, <3>2 DEF ModelInv, TypeOK
    <3> QED
      BY <3>3, <3>4 DEF FileWritten, path
  <2>2. CASE call.op \notin {"evaluate", "retrain"}
    BY <2>2 DEF Begin, ModelInv, TypeOK
  <2> QED
    BY <2>1, <2>2
<1>4. ASSUME NEW key, NEW artifact, NEW p, p = ArtifactPath(key, artifact),
             p \in DOMAIN files, files[p] = artifact
      PROVE  p \in DOMAIN files' /\ files'[p] = artifact
  BY <1>2, <1>3, <1>4, PathNames
<1>5. TypeOK'
  <2>1. requests' \in 0..MaxRequests
    BY <1>1, ModelAssumption DEF ModelInv, TypeOK
  <2>2. Typed(db')
    BY <1>1 DEF ModelInv, TypeOK
  <2>3. \A x \in Clients : open'[x] # None => open'[x].call \in Calls /\ Typed(open'[x].read)
    BY <1>1 DEF ModelInv, TypeOK
  <2> QED
    BY <1>1, <1>3, <2>1, <2>2, <2>3 DEF ModelInv, TypeOK, Typed, Registered
<1>6. ReadsBehind'
  <2>1. ASSUME NEW x \in Clients, open'[x] # None
        PROVE  LET read == open'[x].read
               IN  /\ Accepted(open'[x].call, read)
                   /\ Registered(read) \subseteq Registered(db')
                   /\ \A i \in DOMAIN read.drift :
                        i \in DOMAIN db'.drift /\ read.drift[i] = db'.drift[i]
                   /\ open'[x].call.op \in {"evaluate", "retrain"} =>
                        FileWritten(open[x].call)'
    <3>1. CASE x = c
      BY <1>1, <1>3, <3>1
    <3>2. CASE x # c
      <4>1. open'[x] = open[x]
        BY <1>1, <3>2
      <4>2. open[x].call.op \in {"evaluate", "retrain"} => FileWritten(open[x].call)
        BY <2>1, <4>1 DEF ModelInv, ReadsBehind
      <4>3. open[x].call.op \in {"evaluate", "retrain"} => FileWritten(open[x].call)'
        BY <1>4, <4>1, <4>2 DEF FileWritten
      <4> QED
        BY <1>1, <2>1, <4>1, <4>3 DEF ModelInv, ReadsBehind
    <3> QED
      BY <3>1, <3>2
  <2> QED
    BY <2>1 DEF ReadsBehind
<1>7. ArtifactMatchesRow'
  BY <1>1, <1>4 DEF ModelInv, ArtifactMatchesRow
<1>8. RowsAgree' /\ DriftIsPersistent'
  BY <1>1 DEF ModelInv, RowsAgree, DriftIsPersistent
<1>9. TitlesFollowPromotions => TitlesFollowPromotions'
  BY <1>1 DEF TitlesFollowPromotions
<1> QED
  BY <1>5, <1>6, <1>7, <1>8, <1>9 DEF ModelInv

\* What the end of a request needs to show of the rows it leaves.
LEMMA EndKeeps ==
  ASSUME ModelInv, NEW c \in Clients, open' = [open EXCEPT ![c] = None],
         files' = files, requests' = requests, overwritten' \in BOOLEAN,
         Typed(db'), Registered(db) \subseteq Registered(db'),
         \A i \in DOMAIN db.drift : i \in DOMAIN db'.drift /\ db'.drift[i] = db.drift[i]
  PROVE  TypeOK' /\ ReadsBehind'
<1>1. /\ DOMAIN open' = Clients
      /\ \A x \in Clients : open'[x] # None => open'[x] = open[x]
  BY DEF ModelInv, TypeOK
<1>2. TypeOK'
  BY <1>1 DEF ModelInv, TypeOK, Typed, Registered
<1>3. ASSUME NEW x \in Clients, open'[x] # None
      PROVE  LET read == open'[x].read
             IN  /\ Accepted(open'[x].call, read)
                 /\ Registered(read) \subseteq Registered(db')
                 /\ \A i \in DOMAIN read.drift :
                      i \in DOMAIN db'.drift /\ read.drift[i] = db'.drift[i]
                 /\ open'[x].call.op \in {"evaluate", "retrain"} => FileWritten(open[x].call)'
  <2>1. open'[x] = open[x] /\ open[x] # None
    BY <1>1, <1>3
  <2>2. open[x].call.op \in {"evaluate", "retrain"} => FileWritten(open[x].call)'
    BY <2>1 DEF ModelInv, ReadsBehind, FileWritten
  <2> QED
    BY <2>1, <2>2 DEF ModelInv, ReadsBehind
<1>4. ReadsBehind'
  BY <1>3 DEF ReadsBehind
<1> QED
  BY <1>2, <1>4
\* Registering a model adds a row that names the file its request has written.
LEMMA PersistKeeps ==
  ASSUME ModelInv, NEW c \in Clients, Commit(c), Persist(c)
  PROVE  ModelInv' /\ (TitlesFollowPromotions => TitlesFollowPromotions')
<1> DEFINE call  == open[c].call
           key   == call.key
           model == [status |-> IF call.result.flagged THEN "CANDIDATE" ELSE "VALIDATED",
                     flagged |-> call.result.flagged,
                     dataset |-> call.result.dataset, checksum |-> call.result.artifact,
                     parent |-> IF call.op = "retrain" THEN call.parent ELSE None]
           models == [k \in Registered(db) \cup {key} |->
                        IF k = key THEN model ELSE db.models[k]]
<1>1. /\ open[c] # None /\ open' = [open EXCEPT ![c] = None]
      /\ files' = files /\ requests' = requests /\ overwritten' = overwritten
      /\ call.op \in {"evaluate", "retrain"} /\ key \notin Registered(db)
      /\ db' = [db EXCEPT !.models = models]
  BY DEF Commit, Persist
<1>2. call \in Calls /\ Typed(db)
  BY <1>1 DEF ModelInv, TypeOK
<1>3. key \in Keys /\ model \in Model
  BY <1>1, <1>2, CallFacts DEF Model, Result, Statuses
<1>4. FileWritten(call)
  BY <1>1 DEF ModelInv, ReadsBehind
<1>5. model.checksum = call.result.artifact /\ model.status \in {"CANDIDATE", "VALIDATED"}
      /\ (model.flagged => model.status # "VALIDATED")
  OBVIOUS
<1> HIDE DEF model
<1>6. /\ db'.models = models /\ db'.drift = db.drift /\ db'.promotions = db.promotions
      /\ db' = [models |-> db'.models, drift |-> db'.drift, promotions |-> db'.promotions]
  <2> HIDE DEF models
  <2> QED
    BY <1>1, <1>2 DEF Typed
<1>7. /\ Registered(db') = Registered(db) \cup {key}
      /\ db'.models[key] = model
      /\ \A k \in Registered(db) : k # key /\ db'.models[k] = db.models[k]
  BY <1>1, <1>6 DEF Registered
<1> HIDE DEF models, call, key
<1>8. Typed(db')
  BY <1>2, <1>3, <1>6, <1>7 DEF Typed
<1>9. TypeOK' /\ ReadsBehind'
  BY <1>1, <1>6, <1>7, <1>8, EndKeeps DEF ModelInv, TypeOK
<1>10. RowsAgree'
  BY <1>5, <1>6, <1>7 DEF ModelInv, RowsAgree
<1>11. ArtifactMatchesRow'
  <2>1. ASSUME NEW k \in Registered(db')
        PROVE  LET path == ArtifactPath(k, db'.models[k].checksum)
               IN  path \in DOMAIN files /\ files[path] = db'.models[k].checksum
    <3>1. CASE k = key
      BY <1>4, <1>5, <1>7, <3>1 DEF FileWritten, key
    <3>2. CASE k # key
      BY <1>7, <2>1, <3>2 DEF ModelInv, ArtifactMatchesRow
    <3> QED
      BY <3>1, <3>2
  <2> QED
    BY <1>1, <2>1 DEF ArtifactMatchesRow
<1>12. DriftIsPersistent'
  BY <1>6 DEF ModelInv, DriftIsPersistent
<1>13. ASSUME TitlesFollowPromotions
       PROVE  TitlesFollowPromotions'
  <2>1. \A k : Won(db', k) = Won(db, k) /\ Lost(db', k) = Lost(db, k)
    BY <1>6 DEF Won, Lost
  <2>2. Won(db, key) = {} /\ Lost(db, key) = {}
    <3>1. key # None
      BY <1>3, ModelAssumption
    <3> QED
      BY <1>1, <3>1 DEF Won, Lost, ModelInv, RowsAgree, key
  <2>3. ASSUME ~overwritten, NEW k \in Registered(db')
        PROVE  /\ db'.models[k].status = "CHAMPION" <=> Won(db', k) # {} /\ Lost(db', k) = {}
               /\ db'.models[k].status = "SUPERSEDED" <=> Lost(db', k) # {}
               /\ db'.models[k].flagged => Won(db', k) = {}
    <3>1. CASE k = key
      BY <1>5, <1>7, <2>1, <2>2, <3>1
    <3>2. CASE k # key
      BY <1>7, <1>13, <2>1, <2>3, <3>2 DEF TitlesFollowPromotions
    <3> QED
      BY <3>1, <3>2
  <2> QED
    BY <1>1, <2>3 DEF TitlesFollowPromotions
<1> QED
  BY <1>9, <1>10, <1>11, <1>12, <1>13 DEF ModelInv

\* A window triggers on what its request has read, and those rows are still there.
LEMMA DriftKeeps ==
  ASSUME ModelInv, NEW c \in Clients, Commit(c), RecordDrift(c)
  PROVE  ModelInv' /\ (TitlesFollowPromotions => TitlesFollowPromotions')
<1> DEFINE call == open[c].call
           read == open[c].read
           row  == Drift(read, call.key, call.window)
           n    == Len(db.drift) + 1
<1>1. /\ open[c] # None /\ open' = [open EXCEPT ![c] = None]
      /\ files' = files /\ requests' = requests /\ overwritten' = overwritten
      /\ call.op = "drift"
      /\ db' = [db EXCEPT !.drift = Append(db.drift, row)]
  BY DEF Commit, RecordDrift
<1>2. call \in Calls /\ Typed(db) /\ call.key \in Keys /\ call.window \in DriftWindow
  BY <1>1, CallFacts DEF ModelInv, TypeOK
<1>3. /\ row \in DriftRow /\ row.model = call.key
      /\ row.triggered = Persistent(read, call.key, call.window)
      /\ row.types = IF call.window.enough THEN call.window.drift ELSE "none"
  BY <1>2 DEF Drift, DriftRow, DriftWindow, Persistent, HasDrift
<1>4. \A i \in DOMAIN read.drift : i \in DOMAIN db.drift /\ read.drift[i] = db.drift[i]
  BY <1>1 DEF ModelInv, ReadsBehind
<1>5. row.triggered =>
        /\ row.types # "none"
        /\ \E j \in DOMAIN db.drift : db.drift[j].model = row.model /\ db.drift[j].types # "none"
  BY <1>3, <1>4 DEF Persistent, HasDrift, PriorDrift, DriftOf
<1> HIDE DEF row, call, read
<1>6. /\ db'.models = db.models /\ db'.drift = Append(db.drift, row)
      /\ db'.promotions = db.promotions
      /\ db' = [models |-> db'.models, drift |-> db'.drift, promotions |-> db'.promotions]
  BY <1>1, <1>2 DEF Typed
<1>7. /\ Append(db.drift, row) \in Seq(DriftRow) /\ n \notin DOMAIN db.drift
      /\ DOMAIN db'.drift = DOMAIN db.drift \cup {n}
      /\ db'.drift[n] = row
      /\ \A i \in DOMAIN db.drift : db'.drift[i] = db.drift[i]
  BY <1>2, <1>3, <1>6, AppendRow DEF Typed
<1> HIDE DEF n
<1>8. Typed(db')
  BY <1>2, <1>6, <1>7 DEF Typed, Registered
<1>9. Registered(db') = Registered(db)
  BY <1>6 DEF Registered
<1>10. TypeOK' /\ ReadsBehind'
  BY <1>1, <1>7, <1>8, <1>9, EndKeeps DEF ModelInv, TypeOK
<1>11. RowsAgree' /\ ArtifactMatchesRow'
  BY <1>1, <1>6, <1>9 DEF ModelInv, RowsAgree, ArtifactMatchesRow
<1>12. DriftIsPersistent'
  <2>1. ASSUME NEW i \in DOMAIN db'.drift, db'.drift[i].triggered
        PROVE  \E j \in DOMAIN db'.drift \ {i} :
                 /\ db'.drift[j].model = db'.drift[i].model
                 /\ db'.drift[j].types # "none" /\ db'.drift[i].types # "none"
    <3>1. CASE i = n
      BY <1>5, <1>7, <2>1, <3>1
    <3>2. CASE i # n
      <4>1. i \in DOMAIN db.drift /\ db'.drift[i] = db.drift[i]
        BY <1>7, <2>1, <3>2
      <4>2. PICK j \in DOMAIN db.drift \ {i} :
              /\ db.drift[j].model = db.drift[i].model
              /\ db.drift[j].types # "none" /\ db.drift[i].types # "none"
        BY <2>1, <4>1 DEF ModelInv, DriftIsPersistent
      <4> QED
        BY <1>7, <4>1, <4>2
    <3> QED
      BY <3>1, <3>2
  <2> QED
    BY <2>1 DEF DriftIsPersistent
<1>13. TitlesFollowPromotions => TitlesFollowPromotions'
  BY <1>1, <1>6, <1>9 DEF TitlesFollowPromotions, Won, Lost
<1> QED
  BY <1>10, <1>11, <1>12, <1>13 DEF ModelInv

\* The promotion row and the statuses agree when the statuses are those that were read.
LEMMA PromotionKeeps ==
  ASSUME ModelInv, NEW c \in Clients, Commit(c), DecidePromotion(c)
  PROVE  ModelInv' /\ (TitlesFollowPromotions => TitlesFollowPromotions')
<1> DEFINE call     == open[c].call
           key      == call.key
           champion == call.champion
           read     == open[c].read
           parties  == {key, champion} \ {None}
           promoted == Promoted(call, read)
           written  == {k \in parties : promoted
                                          /\ StatusAfter(call, k) # read.models[k].status}
           models   == [k \in Registered(db) |->
                          IF k \in written
                            THEN [db.models[k] EXCEPT !.status = StatusAfter(call, k)]
                            ELSE db.models[k]]
           row      == [candidate |-> key, champion |-> champion, promoted |-> promoted]
           n        == Len(db.promotions) + 1
<1>1. /\ open[c] # None /\ open' = [open EXCEPT ![c] = None]
      /\ files' = files /\ requests' = requests
      /\ call.op = "promote"
      /\ db' = [db EXCEPT !.models = models, !.promotions = Append(db.promotions, row)]
      /\ overwritten' = (overwritten \/ \E k \in parties :
                                           db.models[k].status # read.models[k].status)
  BY DEF Commit, DecidePromotion
<1>2. /\ call \in Calls /\ Typed(db) /\ key \in Keys /\ champion \in Keys \cup {None}
      /\ overwritten \in BOOLEAN
  BY <1>1, CallFacts DEF ModelInv, TypeOK
<1>3. /\ key \in Registered(db) /\ champion \in Registered(db) \cup {None}
      /\ champion # key /\ key # None
      /\ parties \subseteq Registered(db)
  BY <1>1, <1>2, ModelAssumption DEF ModelInv, ReadsBehind, Accepted
<1>4. promoted => read.models[key].status = "VALIDATED"
  BY DEF Promoted
<1>5. promoted \in BOOLEAN
  BY DEF Promoted
<1>6. row \in Promotion
  BY <1>2, <1>5 DEF Promotion
<1>7. \A k \in Registered(db) :
        /\ models[k] = IF k \in written
                       THEN [db.models[k] EXCEPT !.status = StatusAfter(call, k)]
                       ELSE db.models[k]
        /\ db.models[k] \in Model
  BY <1>2 DEF Typed
<1>8. DOMAIN models = Registered(db)
  OBVIOUS
<1>9. /\ StatusAfter(call, key) = "CHAMPION"
      /\ \A k : k # key => StatusAfter(call, k) = "SUPERSEDED"
  BY DEF StatusAfter
<1>10. \A k \in Registered(db) :
         /\ models[k] \in Model /\ models[k].checksum = db.models[k].checksum
         /\ models[k].flagged = db.models[k].flagged
         /\ models[k].status = IF k \in written THEN StatusAfter(call, k)
                               ELSE db.models[k].status
  <2> SUFFICES ASSUME NEW k \in Registered(db)
               PROVE  /\ models[k] \in Model /\ models[k].checksum = db.models[k].checksum
                      /\ models[k].flagged = db.models[k].flagged
                      /\ models[k].status = IF k \in written THEN StatusAfter(call, k)
                                            ELSE db.models[k].status
    OBVIOUS
  <2>1. StatusAfter(call, k) \in Statuses
    BY <1>9 DEF Statuses
  <2> HIDE DEF models, written
  <2> QED
    BY <1>7, <2>1 DEF Model
<1> HIDE DEF models, row
<1>11. /\ db'.models = models /\ db'.drift = db.drift
       /\ db'.promotions = Append(db.promotions, row)
       /\ db' = [models |-> db'.models, drift |-> db'.drift, promotions |-> db'.promotions]
  <2> HIDE DEF parties
  <2> QED
    BY <1>1, <1>2 DEF Typed
<1>12. /\ db'.promotions \in Seq(Promotion) /\ n \notin DOMAIN db.promotions
       /\ DOMAIN db'.promotions = DOMAIN db.promotions \cup {n}
       /\ db'.promotions[n] = row
       /\ \A i \in DOMAIN db.promotions : db'.promotions[i] = db.promotions[i]
  BY <1>2, <1>6, <1>11, AppendRow DEF Typed
<1>13. Registered(db') = Registered(db)
  BY <1>8, <1>11 DEF Registered
<1> HIDE DEF n, written, parties
<1>14. Typed(db')
  BY <1>2, <1>10, <1>11, <1>12, <1>13 DEF Typed
<1>15. overwritten' \in BOOLEAN
  BY <1>1, <1>2
<1>16. TypeOK' /\ ReadsBehind'
  BY <1>1, <1>11, <1>13, <1>14, <1>15, EndKeeps
<1>17. ArtifactMatchesRow'
  BY <1>1, <1>10, <1>11, <1>13 DEF ModelInv, ArtifactMatchesRow
<1>18. DriftIsPersistent'
  BY <1>11 DEF ModelInv, DriftIsPersistent
<1>19. RowsAgree'
  <2>1. \A i \in DOMAIN db'.promotions :
          /\ db'.promotions[i].candidate \in Registered(db)
          /\ db'.promotions[i].champion \in Registered(db) \cup {None}
    BY <1>3, <1>12 DEF ModelInv, RowsAgree, row
  <2>2. \A k \in Registered(db) : models[k].flagged => models[k].status # "VALIDATED"
    BY <1>9, <1>10 DEF ModelInv, RowsAgree
  <2> QED
    BY <1>11, <1>13, <2>1, <2>2 DEF RowsAgree
<1>20. ASSUME TitlesFollowPromotions
       PROVE  TitlesFollowPromotions'
  <2> SUFFICES ASSUME ~overwritten', NEW k \in Registered(db)
               PROVE  /\ db'.models[k].status = "CHAMPION"
                           <=> Won(db', k) # {} /\ Lost(db', k) = {}
                      /\ db'.models[k].status = "SUPERSEDED" <=> Lost(db', k) # {}
                      /\ db'.models[k].flagged => Won(db', k) = {}
    BY <1>13 DEF TitlesFollowPromotions
  <2>1. /\ ~overwritten
        /\ \A x \in parties : db.models[x].status = read.models[x].status
    BY <1>1
  <2>2. /\ db.models[k].status = "CHAMPION" <=> Won(db, k) # {} /\ Lost(db, k) = {}
        /\ db.models[k].status = "SUPERSEDED" <=> Lost(db, k) # {}
        /\ db.models[k].flagged => Won(db, k) = {}
    BY <1>20, <2>1 DEF TitlesFollowPromotions
  <2>3. row.candidate = key /\ row.champion = champion /\ row.promoted = promoted
    BY DEF row
  <2>4. CASE ~promoted
    <3>1. written = {}
      BY <2>4 DEF written
    <3>2. Won(db', k) = Won(db, k) /\ Lost(db', k) = Lost(db, k)
      BY <1>12, <2>3, <2>4 DEF Won, Lost
    <3> QED
      BY <1>10, <1>11, <2>2, <3>1, <3>2
  <2>5. CASE promoted
    <3>1. /\ Won(db', k) = Won(db, k) \cup (IF k = key THEN {n} ELSE {})
          /\ Lost(db', k) = Lost(db, k) \cup (IF k = champion THEN {n} ELSE {})
      BY <1>12, <2>3, <2>5 DEF Won, Lost
    <3>2. key \in parties /\ db.models[key].status = "VALIDATED" /\ key \in written
      BY <1>3, <1>4, <1>9, <2>1, <2>5 DEF parties, written
    <3>3. CASE k = key
      <4>1. db'.models[k].status = "CHAMPION" /\ db'.models[k].flagged = db.models[k].flagged
        BY <1>9, <1>10, <1>11, <3>2, <3>3
      <4>2. ~db.models[k].flagged
        BY <3>2, <3>3, <1>3 DEF ModelInv, RowsAgree
      <4>3. Lost(db, k) = {} /\ k # champion
        BY <1>3, <2>2, <3>2, <3>3
      <4> QED
        BY <3>1, <3>3, <4>1, <4>2, <4>3
    <3>4. CASE k = champion /\ k # key
      <4>1. k \in parties
        <5>1. k # None
          BY <1>2, ModelAssumption DEF Typed
        <5> QED
          BY <3>4, <5>1 DEF parties
      <4>2. db'.models[k].status = "SUPERSEDED" /\ db'.models[k].flagged = db.models[k].flagged
        BY <1>9, <1>10, <1>11, <2>1, <2>5, <3>4, <4>1 DEF written
      <4> QED
        BY <2>2, <3>1, <3>4, <4>2
    <3>5. CASE k # champion /\ k # key
      <4>1. k \notin written
        BY <3>5 DEF written, parties
      <4> QED
        BY <1>10, <1>11, <2>2, <3>1, <3>5, <4>1
    <3> QED
      BY <3>3, <3>4, <3>5
  <2> QED
    BY <1>5, <2>4, <2>5
<1> QED
  BY <1>16, <1>17, <1>18, <1>19, <1>20 DEF ModelInv

\* A request that ends without its transaction leaves the registry, and its file, as they are.
LEMMA AbortKeeps ==
  ASSUME ModelInv, NEW c \in Clients, Abort(c)
  PROVE  ModelInv' /\ (TitlesFollowPromotions => TitlesFollowPromotions')
<1>1. /\ open' = [open EXCEPT ![c] = None] /\ db' = db /\ files' = files
      /\ requests' = requests /\ overwritten' = overwritten
  BY DEF Abort
<1>2. TypeOK' /\ ReadsBehind'
  BY <1>1, EndKeeps DEF ModelInv, TypeOK
<1> QED
  BY <1>1, <1>2 DEF ModelInv, RowsAgree, ArtifactMatchesRow, DriftIsPersistent,
                    TitlesFollowPromotions

LEMMA NextModels ==
  ASSUME ModelInv, [Next]_vars
  PROVE  ModelInv' /\ (TitlesFollowPromotions => TitlesFollowPromotions')
<1>1. ASSUME NEW c \in Clients, NEW call \in Calls, Begin(c, call)
      PROVE  ModelInv' /\ (TitlesFollowPromotions => TitlesFollowPromotions')
  BY <1>1, BeginKeeps
<1>2. ASSUME NEW c \in Clients, Commit(c)
      PROVE  ModelInv' /\ (TitlesFollowPromotions => TitlesFollowPromotions')
  BY <1>2, PersistKeeps, DriftKeeps, PromotionKeeps DEF Commit
<1>3. CASE UNCHANGED vars
  <2>1. /\ db' = db /\ files' = files /\ open' = open /\ requests' = requests
        /\ overwritten' = overwritten
    BY <1>3 DEF vars
  <2>2. TypeOK'
    BY <2>1 DEF ModelInv, TypeOK
  <2>3. ReadsBehind'
    <3>1. \A call : FileWritten(call) => FileWritten(call)'
      BY <2>1 DEF FileWritten
    <3> QED
      BY <2>1, <3>1 DEF ModelInv, ReadsBehind
  <2>4. RowsAgree' /\ ArtifactMatchesRow' /\ DriftIsPersistent'
    BY <2>1 DEF ModelInv, RowsAgree, ArtifactMatchesRow, DriftIsPersistent
  <2>5. TitlesFollowPromotions => TitlesFollowPromotions'
    BY <2>1 DEF TitlesFollowPromotions
  <2> QED
    BY <2>2, <2>3, <2>4, <2>5 DEF ModelInv
<1> QED
  BY <1>1, <1>2, <1>3, AbortKeeps DEF Next

\* However evaluations, retrainings, drift windows and promotions overlap and abort, every row
\* names an artifact that is on disk (persist), and no window triggers a retraining without
\* another one that shows drift (record_drift).
THEOREM RegistryIsSound == Spec => []ModelInv
<1>1. Init => ModelInv
  BY InitModels
<1>2. ModelInv /\ [Next]_vars => ModelInv'
  BY NextModels
<1> QED
  BY <1>1, <1>2, PTL DEF Spec

\* Unless a promotion commits over statuses it had not read, the champions and the superseded
\* models are the ones the promotion rows say (evaluate_promotion).
THEOREM TitlesAreExplained == Spec => []TitlesFollowPromotions
<1>1. Init => TitlesFollowPromotions
  BY InitModels
<1>2. ModelInv /\ TitlesFollowPromotions /\ [Next]_vars => TitlesFollowPromotions'
  BY NextModels
<1> QED
  BY <1>1, <1>2, RegistryIsSound, PTL DEF Spec
=============================================================================
