---------------------------- MODULE DatasetLineage ----------------------------
(***************************************************************************)
(* Immutable research inputs (app/data/service.py), the backtests that pin *)
(* them (app/experiments/service.py) and their reproduction                *)
(* (app/research_artifacts/service.py).  Requests are transactions that    *)
(* overlap: rows become visible at the commit, Parquet files as soon as    *)
(* they are written, and an insert waits for an open transaction that      *)
(* holds the same unique key, failing if that one commits.  One symbol and *)
(* interval, hence one dataset name; a bar is named by its day, a payload  *)
(* by the set of its bars, and a checksum by the payload it is taken of.   *)
(***************************************************************************)
EXTENDS Naturals, FiniteSets

CONSTANTS Clients,        \* sessions that run backtests
          Writers,        \* those that backtest market rows, which makes versions
          Days, Windows,  \* trading days; the date ranges of the requests
          Ids,            \* dataset ids, one per inserted dataset row
          Metrics(_),     \* what the deterministic backtest measures on bars
          None,
          MaxVersion, MaxExperiments    \* bounds

ASSUME LineageAssumption ==
  /\ Writers \subseteq Clients /\ None \notin Ids
  /\ \A payload \in SUBSET Days : payload # None
  /\ \A w \in Windows : w \subseteq Days
  /\ MaxVersion \in Nat /\ MaxExperiments \in Nat

VARIABLES market,        \* market_bars, by day
          dataset,       \* the committed id of the dataset row
          versions,      \* the committed dataset_versions rows
          files,         \* Parquet storage, by dataset id and version number
          cache,         \* the committed feature_materializations, by version
          cacheFiles,    \* their Parquet files: the data they were computed from
          experiments,   \* the committed experiments
          tx             \* what each session has read and not yet committed

vars == <<market, dataset, versions, files, cache, cacheFiles, experiments, tx>>

Key == Ids \X (1 .. MaxVersion)
Version == [key : Key, checksum : SUBSET Days]
Experiment == [window : Windows, key : Key, checksum : SUBSET Days, metrics : {Metrics(p) : p \in SUBSET Days}]

\* a request on a frame of data, which no row of its own has been made for
Begun(pc, window, feature, frame, key, checksum) ==
  [pc |-> pc, window |-> window, frame |-> frame, feature |-> feature, ds |-> None,
   created |-> FALSE, key |-> key, checksum |-> checksum, row |-> {}, cached |-> {}]

NoRequest == Begun("idle", {}, FALSE, {}, None, {})

Open(c) == tx[c].pc # "idle"
Becomes(c, t) == tx' = [tx EXCEPT ![c] = t]
Abort(c) == Becomes(c, NoRequest)

Init ==
  /\ market \in SUBSET Days
  /\ dataset = None /\ versions = {} /\ cache = {} /\ experiments = {}
  /\ files = [k \in Key |-> None] /\ cacheFiles = [k \in Key |-> None]
  /\ tx = [c \in Clients |-> NoRequest]

Rows == UNCHANGED <<dataset, versions, cache, experiments>>
Storage == UNCHANGED <<files, cacheFiles>>

-----------------------------------------------------------------------------
(* Market rows *)

\* upsert_bars: a bar already stored is left as it is
Ingest(days) ==
  /\ ~ days \subseteq market
  /\ market' = market \cup days
  /\ Rows /\ Storage /\ UNCHANGED tx

\* _filter_frame_window, list_bars
InWindow(bars, window) == bars \cap window

-----------------------------------------------------------------------------
(* run_backtest on market rows: create_dataset_version *)

\* the bars in the window are read; none is an error
ReadMarket(c, window, feature) ==
  /\ c \in Writers /\ ~Open(c)
  /\ Cardinality(experiments) + Cardinality({o \in Clients : Open(o)}) < MaxExperiments
  /\ InWindow(market, window) # {}
  /\ Becomes(c, Begun("dataset", window, feature, InWindow(market, window), None,
                      InWindow(market, window)))
  /\ UNCHANGED market /\ Rows /\ Storage

FindDataset(c) ==
  /\ tx[c].pc = "dataset"
  /\ Becomes(c, [tx[c] EXCEPT !.pc = IF dataset = None THEN "create" ELSE "find",
                              !.ds = dataset])
  /\ UNCHANGED market /\ Rows /\ Storage

\* no file is stored under the id of a new row
Fresh(d) == d # dataset /\ \A n \in 1 .. MaxVersion : files[<<d, n>>] = None

\* names are unique
CreateDataset(c) ==
  /\ tx[c].pc = "create"
  /\ \A o \in Clients \ {c} : ~tx[o].created
  /\ IF dataset # None THEN Abort(c)
     ELSE \E d \in Ids : /\ Fresh(d)
                         /\ Becomes(c, [tx[c] EXCEPT !.pc = "find", !.ds = d, !.created = TRUE])
  /\ UNCHANGED market /\ Rows /\ Storage

Numbers(d) == {v.key[2] : v \in {x \in versions : x.key[1] = d}}
\* The faulty SameData of a mutant: the checksum is not looked up.
SameDataIgnored(d, payload) == {v \in versions : FALSE}

SameData(d, payload) == {v \in versions : v.key[1] = d /\ v.checksum = payload}

\* a version with the same checksum is reused
FindVersion(c) ==
  /\ tx[c].pc = "find"
  /\ LET same == SameData(tx[c].ds, tx[c].checksum) IN
       IF same = {} THEN Becomes(c, [tx[c] EXCEPT !.pc = "number"])
       ELSE \E v \in same : Becomes(c, [tx[c] EXCEPT !.pc = "feature", !.key = v.key])
  /\ UNCHANGED market /\ Rows /\ Storage

\* one more than the largest number, or than zero
IsNextNumber(d, n) == n - 1 \in {0} \cup Numbers(d) /\ \A m \in Numbers(d) : m < n

TakeNumber(c) ==
  /\ tx[c].pc = "number"
  /\ \E n \in 1 .. MaxVersion :
       /\ IsNextNumber(tx[c].ds, n)
       /\ Becomes(c, [tx[c] EXCEPT !.pc = "write", !.key = <<tx[c].ds, n>>])
  /\ UNCHANGED market /\ Rows /\ Storage

\* the path is made of the dataset id and the number; write_parquet replaces what is there
WriteVersion(c) ==
  /\ tx[c].pc = "write"
  /\ files' = [files EXCEPT ![tx[c].key] = tx[c].checksum]
  /\ Becomes(c, [tx[c] EXCEPT !.pc = "insert"])
  /\ UNCHANGED <<market, cacheFiles>> /\ Rows

\* numbers are unique in a dataset
InsertVersion(c) ==
  /\ tx[c].pc = "insert"
  /\ \A o \in Clients \ {c} : \A v \in tx[o].row : v.key # tx[c].key
  /\ IF \E v \in versions : v.key = tx[c].key THEN Abort(c)
     ELSE Becomes(c, [tx[c] EXCEPT !.pc = "feature",
                                   !.row = {[key |-> tx[c].key, checksum |-> tx[c].checksum]}])
  /\ UNCHANGED market /\ Rows /\ Storage

-----------------------------------------------------------------------------
(* run_backtest on a version; features; the experiment *)

\* the bars come from the version's file; none in the window is an error
ReadVersion(c, v, window, feature) ==
  /\ ~Open(c)
  /\ Cardinality(experiments) + Cardinality({o \in Clients : Open(o)}) < MaxExperiments
  /\ v \in versions /\ files[v.key] # None /\ InWindow(files[v.key], window) # {}
  /\ Becomes(c, Begun("feature", window, feature, InWindow(files[v.key], window), v.key,
                      v.checksum))
  /\ UNCHANGED market /\ Rows /\ Storage

\* The faulty CacheKey of a mutant: features are cached by dataset.
CacheKeyOfDataset(key) == <<key[1], 1>>

CacheKey(key) == key

\* FeatureStore.compute: a materialization that has its file is read back; otherwise it is
\* computed from the stored version and written
Materialize(c) ==
  /\ tx[c].pc = "feature"
  /\ LET k == CacheKey(tx[c].key) IN
       IF ~tx[c].feature \/ (k \in cache /\ cacheFiles[k] # None)
         THEN /\ Becomes(c, [tx[c] EXCEPT !.pc = "record"]) /\ UNCHANGED cacheFiles
         ELSE /\ cacheFiles' = [cacheFiles EXCEPT ![k] = files[tx[c].key]]
              /\ Becomes(c, [tx[c] EXCEPT !.pc = "cache"])
  /\ UNCHANGED <<market, files>> /\ Rows

\* (version, feature, parameters) is unique
InsertCache(c) ==
  /\ tx[c].pc = "cache"
  /\ LET k == CacheKey(tx[c].key) IN
       /\ \A o \in Clients \ {c} : k \notin tx[o].cached
       /\ IF k \in cache THEN Abort(c)
          ELSE Becomes(c, [tx[c] EXCEPT !.pc = "record", !.cached = {k}])
  /\ UNCHANGED market /\ Rows /\ Storage

\* the experiment pins the version and its checksum; everything is committed at once
Record(c) ==
  /\ tx[c].pc = "record"
  /\ dataset' = IF tx[c].created THEN tx[c].ds ELSE dataset
  /\ versions' = versions \cup tx[c].row
  /\ cache' = cache \cup tx[c].cached
  /\ experiments' = experiments \cup
       {[window |-> tx[c].window, key |-> tx[c].key, checksum |-> tx[c].checksum,
         metrics |-> Metrics(tx[c].frame)]}
  /\ Abort(c)
  /\ UNCHANGED market /\ Storage

\* the backtest raises, or the process dies: the rows are rolled back, the files stay
Fail(c) == Open(c) /\ Abort(c) /\ UNCHANGED market /\ Rows /\ Storage

Next ==
  \/ \E days \in Windows : Ingest(days)
  \/ \E c \in Clients :
       \/ \E w \in Windows, f \in BOOLEAN : ReadMarket(c, w, f)
       \/ FindDataset(c) \/ CreateDataset(c) \/ FindVersion(c) \/ TakeNumber(c)
       \/ WriteVersion(c) \/ InsertVersion(c)
       \/ \E v \in versions, w \in Windows, f \in BOOLEAN : ReadVersion(c, v, w, f)
       \/ Materialize(c) \/ InsertCache(c) \/ Record(c) \/ Fail(c)

Spec == Init /\ [][Next]_vars

-----------------------------------------------------------------------------
(* reproduce_experiment *)

Checksum(key) == (CHOOSE v \in versions : v.key = key).checksum

\* The faulty ReplayedBars of a mutant: the current market rows are replayed.
CurrentBars(e, key) == InWindow(market, e.window)

\* the version an experiment is replayed on, by default its own
ReplayedBars(e, key) == InWindow(files[key], e.window)

\* the blocking differences a reproduction reports
Differences(e, key) ==
  IF files[key] = None \/ ReplayedBars(e, key) = {} THEN {"missing_market_data"}
  ELSE (IF Checksum(key) # e.checksum THEN {"data_mismatch"} ELSE {})
       \cup (IF key # e.key THEN {"dataset_version_override"} ELSE {})
       \cup (IF Metrics(ReplayedBars(e, key)) # e.metrics THEN {"metric"} ELSE {})
=============================================================================
