----------------------------- MODULE LineageProofs -----------------------------
(***************************************************************************)
(* Research inputs are immutable as long as one session makes versions,    *)
(* for any number of sessions that read them, days, versions and failed    *)
(* transactions.  The inductive invariant says what each open transaction  *)
(* relies on: a number it has taken belongs to no committed version until  *)
(* its row is committed, and the file it has written or read holds the     *)
(* data of its checksum.                                                   *)
(***************************************************************************)
EXTENDS LineageProperties, FiniteSetTheorems, TLAPS

\* one session makes versions
OneWriter == \A c, d \in Writers : c = d

-----------------------------------------------------------------------------
(* The inductive invariant *)

Making == {"dataset", "create", "find", "number", "write", "insert"}

Request ==
  [pc : {"idle", "feature", "cache", "record"} \cup Making, window : Windows \cup {{}},
   frame : SUBSET Days, feature : BOOLEAN, ds : Ids \cup {None}, created : BOOLEAN,
   key : Key \cup {None}, checksum : SUBSET Days, row : SUBSET Version, cached : SUBSET Key]

Unused(k) == \A v \in versions : v.key # k

Committed(k, payload) == \E v \in versions : v.key = k /\ v.checksum = payload

\* the version that request t of session c works on is committed, or is the one it makes
Pinned(c, t) ==
  /\ t.key \in Key /\ files[t.key] = t.checksum
  /\ \/ t.row = {} /\ Committed(t.key, t.checksum)
     \/ c \in Writers /\ Unused(t.key) /\ t.row = {[key |-> t.key, checksum |-> t.checksum]}

SessionOk(c, t) ==
  /\ t.pc # "idle" =>
       t.window \in Windows /\ t.frame = InWindow(t.checksum, t.window) /\ t.frame # {}
  /\ t.pc \in {"idle"} \cup Making => t.row = {}
  /\ t.pc \in Making => c \in Writers
  /\ t.pc \in {"find", "number"} => t.ds \in Ids
  /\ t.pc \in {"write", "insert"} => t.key \in Key /\ Unused(t.key)
  /\ t.pc = "insert" => files[t.key] = t.checksum
  /\ t.pc \in {"feature", "cache", "record"} => Pinned(c, t)
  /\ t.pc = "cache" => cacheFiles[t.key] = t.checksum
  /\ t.pc # "record" => t.cached = {}
  /\ t.pc = "record" => t.cached \subseteq {t.key}
  /\ t.cached # {} => cacheFiles[t.key] = t.checksum

RowTypes ==
  /\ market \subseteq Days /\ dataset \in Ids \cup {None}
  /\ versions \subseteq Version /\ cache \subseteq Key
  /\ files \in [Key -> (SUBSET Days) \cup {None}] /\ cacheFiles \in [Key -> (SUBSET Days) \cup {None}]
  /\ tx \in [Clients -> Request]

\* committed rows agree with the files
RowsOk ==
  /\ \A v \in versions : files[v.key] = v.checksum
  /\ \A v, u \in versions : v.key = u.key => v = u
  /\ \A k \in cache : Committed(k, cacheFiles[k])

ExperimentOk(e) ==
  /\ e.key \in Key /\ e.checksum \subseteq Days
  /\ Committed(e.key, e.checksum)
  /\ InWindow(e.checksum, e.window) # {}
  /\ e.metrics = Metrics(InWindow(e.checksum, e.window))

LineageIInv ==
  /\ RowTypes /\ RowsOk
  /\ \A e \in experiments : ExperimentOk(e)
  /\ \A c \in Clients : SessionOk(c, tx[c])

\* What the invariant says of the properties.
LEMMA InvariantShows ==
  ASSUME LineageIInv
  PROVE  StoredDataIsImmutable /\ ReproductionIsFaithful
<1>1. StoredDataIsImmutable
  <2> SUFFICES ASSUME NEW v \in versions, v.key \in cache
               PROVE  cacheFiles[v.key] = v.checksum
    BY DEF LineageIInv, RowsOk, StoredDataIsImmutable
  <2>1. PICK u \in versions : u.key = v.key /\ u.checksum = cacheFiles[v.key]
    BY DEF LineageIInv, RowsOk, Committed
  <2> QED
    BY <2>1 DEF LineageIInv, RowsOk
<1>2. ASSUME NEW e \in experiments  PROVE Differences(e, e.key) = {}
  <2>1. ExperimentOk(e)
    BY DEF LineageIInv
  <2>2. PICK v \in versions : v.key = e.key /\ v.checksum = e.checksum
    BY <2>1 DEF ExperimentOk, Committed
  <2>3. files[e.key] = e.checksum /\ files[e.key] # None
    BY <2>1, <2>2, LineageAssumption DEF LineageIInv, RowsOk, ExperimentOk
  <2>4. Checksum(e.key) = e.checksum
    <3>1. \A u \in versions : u.key = e.key => u = v
      BY <2>2 DEF LineageIInv, RowsOk
    <3>2. (CHOOSE u \in versions : u.key = e.key) = v
      BY <2>2, <3>1
    <3> QED
      BY <2>2, <3>2 DEF Checksum
  <2>5. ReplayedBars(e, e.key) = InWindow(e.checksum, e.window)
    BY <2>3 DEF ReplayedBars
  <2> QED
    BY <2>1, <2>3, <2>4, <2>5 DEF ExperimentOk, Differences
<1>3. ASSUME NEW e \in experiments, NEW v \in versions, v.key # e.key
      PROVE  Differences(e, v.key) # {}
  BY <1>3 DEF Differences
<1> QED
  BY <1>1, <1>2, <1>3 DEF ReproductionIsFaithful

LEMMA LineageInitInv == Init => LineageIInv
<1> SUFFICES ASSUME Init  PROVE LineageIInv
  OBVIOUS
<1>1. NoRequest \in Request
  BY DEF NoRequest, Begun, Request
<1>2. RowTypes
  <2>1. tx \in [Clients -> Request]
    BY <1>1 DEF Init
  <2>2. files \in [Key -> (SUBSET Days) \cup {None}] /\ cacheFiles \in [Key -> (SUBSET Days) \cup {None}]
    BY DEF Init
  <2>3. market \subseteq Days /\ dataset \in Ids \cup {None} /\ versions \subseteq Version
        /\ cache \subseteq Key
    BY DEF Init
  <2> QED
    BY <2>1, <2>2, <2>3 DEF RowTypes
<1>3. \A c \in Clients : SessionOk(c, tx[c])
  BY DEF Init, NoRequest, Begun, SessionOk, Making
<1> QED
  BY <1>2, <1>3 DEF Init, LineageIInv, RowsOk

-----------------------------------------------------------------------------
(* Steps that change one transaction and nothing else *)

\* the rows and the files
store == <<dataset, versions, cache, experiments, files, cacheFiles>>

LEMMA StepOfOne ==
  ASSUME LineageIInv, NEW c \in Clients, NEW t \in Request, Becomes(c, t), SessionOk(c, t),
         UNCHANGED market, UNCHANGED store
  PROVE  LineageIInv'
<1>1. RowTypes'
  BY DEF LineageIInv, RowTypes, Becomes, store
<1>2. RowsOk' /\ (\A e \in experiments' : ExperimentOk(e)')
  BY DEF LineageIInv, RowsOk, Committed, ExperimentOk, store
<1>3. ASSUME NEW o \in Clients  PROVE SessionOk(o, tx[o])'
  <2>1. tx'[o] = IF o = c THEN t ELSE tx[o]
    BY DEF LineageIInv, RowTypes, Becomes
  <2>2. SessionOk(o, tx'[o])
    BY <2>1 DEF LineageIInv
  <2> QED
    BY <2>2 DEF SessionOk, Pinned, Unused, Committed, store
<1> QED
  BY <1>1, <1>2, <1>3 DEF LineageIInv

\* A transaction that is given up leaves its files behind and no rows.
LEMMA AbortKeeps ==
  ASSUME LineageIInv, NEW c \in Clients, Abort(c), UNCHANGED market, UNCHANGED store
  PROVE  LineageIInv'
<1>1. NoRequest \in Request /\ SessionOk(c, NoRequest)
  BY DEF NoRequest, Begun, Request, SessionOk, Making
<1> QED
  BY <1>1, StepOfOne DEF Abort

\* What the transactions and the rows are made of.
LEMMA SessionTypes ==
  ASSUME LineageIInv, NEW c \in Clients
  PROVE  /\ tx[c] \in Request /\ SessionOk(c, tx[c])
         /\ versions \subseteq Version /\ market \subseteq Days
         /\ \A v \in versions : v.key \in Key /\ v.checksum \subseteq Days
BY DEF LineageIInv, RowTypes, Version

LEMMA ReadMarketKeeps ==
  ASSUME LineageIInv, NEW c \in Clients, NEW w \in Windows, NEW f \in BOOLEAN, ReadMarket(c, w, f)
  PROVE  LineageIInv'
<1> DEFINE t == Begun("dataset", w, f, InWindow(market, w), None, InWindow(market, w))
<1>1. InWindow(market, w) \subseteq Days /\ InWindow(market, w) # {}
      /\ InWindow(InWindow(market, w), w) = InWindow(market, w)
  BY SessionTypes DEF ReadMarket, InWindow
<1>2. t \in Request
  BY <1>1 DEF Begun, Request, Making
<1>3. SessionOk(c, t)
  BY <1>1 DEF Begun, SessionOk, Making, ReadMarket
<1> HIDE DEF t
<1> QED
  BY <1>2, <1>3, StepOfOne DEF ReadMarket, Rows, Storage, store, t

LEMMA FindDatasetKeeps ==
  ASSUME LineageIInv, NEW c \in Clients, FindDataset(c)
  PROVE  LineageIInv'
<1> DEFINE t == [tx[c] EXCEPT !.pc = IF dataset = None THEN "create" ELSE "find", !.ds = dataset]
<1>1. tx[c] \in Request /\ SessionOk(c, tx[c]) /\ tx[c].pc = "dataset" /\ dataset \in Ids \cup {None}
  BY SessionTypes DEF FindDataset, LineageIInv, RowTypes
<1>2. t \in Request
  BY <1>1 DEF Request, Making
<1>3. SessionOk(c, t)
  BY <1>1 DEF Request, SessionOk, Making
<1> QED
  BY <1>2, <1>3, StepOfOne DEF FindDataset, Rows, Storage, store

LEMMA CreateDatasetKeeps ==
  ASSUME LineageIInv, NEW c \in Clients, CreateDataset(c)
  PROVE  LineageIInv'
<1>1. tx[c] \in Request /\ SessionOk(c, tx[c]) /\ tx[c].pc = "create"
  BY SessionTypes DEF CreateDataset
<1>2. UNCHANGED market /\ UNCHANGED store
  BY DEF CreateDataset, Rows, Storage, store
<1>3. CASE Abort(c)
  BY <1>2, <1>3, AbortKeeps
<1>4. ASSUME NEW d \in Ids, Becomes(c, [tx[c] EXCEPT !.pc = "find", !.ds = d, !.created = TRUE])
      PROVE  LineageIInv'
  <2> DEFINE t == [tx[c] EXCEPT !.pc = "find", !.ds = d, !.created = TRUE]
  <2>1. t \in Request
    BY <1>1 DEF Request, Making
  <2>2. SessionOk(c, t)
    BY <1>1 DEF Request, SessionOk, Making
  <2> QED
    BY <1>2, <1>4, <2>1, <2>2, StepOfOne
<1> QED
  BY <1>3, <1>4 DEF CreateDataset

LEMMA FindVersionKeeps ==
  ASSUME LineageIInv, NEW c \in Clients, FindVersion(c)
  PROVE  LineageIInv'
<1>1. tx[c] \in Request /\ SessionOk(c, tx[c]) /\ tx[c].pc = "find"
  BY SessionTypes DEF FindVersion
<1>2. UNCHANGED market /\ UNCHANGED store
  BY DEF FindVersion, Rows, Storage, store
<1>3. CASE Becomes(c, [tx[c] EXCEPT !.pc = "number"])
  <2> DEFINE t == [tx[c] EXCEPT !.pc = "number"]
  <2>1. t \in Request
    BY <1>1 DEF Request, Making
  <2>2. SessionOk(c, t)
    BY <1>1 DEF Request, SessionOk, Making
  <2> QED
    BY <1>2, <1>3, <2>1, <2>2, StepOfOne
<1>4. ASSUME NEW v \in SameData(tx[c].ds, tx[c].checksum),
             Becomes(c, [tx[c] EXCEPT !.pc = "feature", !.key = v.key])
      PROVE  LineageIInv'
  <2> DEFINE t == [tx[c] EXCEPT !.pc = "feature", !.key = v.key]
  <2>1. v \in versions /\ v.checksum = tx[c].checksum /\ v.key \in Key /\ files[v.key] = v.checksum
    BY SessionTypes DEF SameData, LineageIInv, RowsOk
  <2>2. t \in Request
    BY <1>1, <2>1 DEF Request, Making
  <2>3. Committed(v.key, tx[c].checksum)
    BY <2>1 DEF Committed
  <2>4. SessionOk(c, t)
    BY <1>1, <2>1, <2>3 DEF Request, SessionOk, Making, Pinned
  <2> QED
    BY <1>2, <1>4, <2>2, <2>4, StepOfOne
<1> QED
  BY <1>3, <1>4 DEF FindVersion

\* The number a session takes belongs to no committed version of its dataset.
LEMMA TakeNumberKeeps ==
  ASSUME LineageIInv, NEW c \in Clients, TakeNumber(c)
  PROVE  LineageIInv'
<1>1. tx[c] \in Request /\ SessionOk(c, tx[c]) /\ tx[c].pc = "number"
  BY SessionTypes DEF TakeNumber
<1>2. UNCHANGED market /\ UNCHANGED store
  BY DEF TakeNumber, Rows, Storage, store
<1>3. PICK n \in 1 .. MaxVersion :
        /\ IsNextNumber(tx[c].ds, n)
        /\ Becomes(c, [tx[c] EXCEPT !.pc = "write", !.key = <<tx[c].ds, n>>])
  BY DEF TakeNumber
<1> DEFINE t == [tx[c] EXCEPT !.pc = "write", !.key = <<tx[c].ds, n>>]
<1>4. <<tx[c].ds, n>> \in Key
  BY <1>1 DEF SessionOk, Key
<1>5. Unused(<<tx[c].ds, n>>)
  <2> SUFFICES ASSUME NEW v \in versions, v.key = <<tx[c].ds, n>>  PROVE FALSE
    BY DEF Unused
  <2>1. n \in Numbers(tx[c].ds)
    BY DEF Numbers
  <2> QED
    BY <1>3, <2>1 DEF IsNextNumber
<1>6. t \in Request
  BY <1>1, <1>4 DEF Request, Making
<1>7. SessionOk(c, t)
  BY <1>1, <1>4, <1>5 DEF Request, SessionOk, Making
<1> QED
  BY <1>2, <1>3, <1>6, <1>7, StepOfOne

LEMMA InsertVersionKeeps ==
  ASSUME LineageIInv, NEW c \in Clients, InsertVersion(c)
  PROVE  LineageIInv'
<1>1. tx[c] \in Request /\ SessionOk(c, tx[c]) /\ tx[c].pc = "insert"
  BY SessionTypes DEF InsertVersion
<1>2. UNCHANGED market /\ UNCHANGED store
  BY DEF InsertVersion, Rows, Storage, store
<1>3. CASE Abort(c)
  BY <1>2, <1>3, AbortKeeps
<1> DEFINE v == [key |-> tx[c].key, checksum |-> tx[c].checksum]
           t == [tx[c] EXCEPT !.pc = "feature", !.row = {v}]
<1>4. CASE Becomes(c, t)
  <2>1. tx[c].key \in Key /\ tx[c].checksum \subseteq Days /\ v \in Version
    BY <1>1 DEF SessionOk, Request, Version
  <2>2. t \in Request
    BY <1>1, <2>1 DEF Request, Making
  <2>3. SessionOk(c, t)
    BY <1>1, <2>1 DEF Request, SessionOk, Making, Pinned
  <2> QED
    BY <1>2, <1>4, <2>2, <2>3, StepOfOne
<1> QED
  BY <1>3, <1>4 DEF InsertVersion

LEMMA ReadVersionKeeps ==
  ASSUME LineageIInv, NEW c \in Clients, NEW v \in versions, NEW w \in Windows, NEW f \in BOOLEAN,
         ReadVersion(c, v, w, f)
  PROVE  LineageIInv'
<1> DEFINE t == Begun("feature", w, f, InWindow(files[v.key], w), v.key, v.checksum)
<1>1. v.key \in Key /\ v.checksum \subseteq Days /\ files[v.key] = v.checksum
  BY SessionTypes DEF LineageIInv, RowsOk
<1>2. InWindow(v.checksum, w) \subseteq Days /\ InWindow(v.checksum, w) # {}
  BY <1>1 DEF ReadVersion, InWindow
<1>3. Committed(v.key, v.checksum)
  BY DEF Committed
<1>4. t \in Request
  BY <1>1, <1>2 DEF Begun, Request, Making
<1>5. SessionOk(c, t)
  BY <1>1, <1>2, <1>3 DEF Begun, SessionOk, Making, Pinned
<1> HIDE DEF t
<1> QED
  BY <1>4, <1>5, StepOfOne DEF ReadVersion, Rows, Storage, store, t

LEMMA InsertCacheKeeps ==
  ASSUME LineageIInv, NEW c \in Clients, InsertCache(c)
  PROVE  LineageIInv'
<1>1. tx[c] \in Request /\ SessionOk(c, tx[c]) /\ tx[c].pc = "cache"
  BY SessionTypes DEF InsertCache
<1>2. UNCHANGED market /\ UNCHANGED store
  BY DEF InsertCache, Rows, Storage, store
<1>3. CASE Abort(c)
  BY <1>2, <1>3, AbortKeeps
<1> DEFINE t == [tx[c] EXCEPT !.pc = "record", !.cached = {tx[c].key}]
<1>4. CASE Becomes(c, t)
  <2>1. tx[c].key \in Key
    BY <1>1 DEF SessionOk, Pinned
  <2>2. t \in Request
    BY <1>1, <2>1 DEF Request, Making
  <2>3. SessionOk(c, t)
    BY <1>1, <2>1 DEF Request, SessionOk, Making, Pinned
  <2> QED
    BY <1>2, <1>4, <2>2, <2>3, StepOfOne
<1> QED
  BY <1>3, <1>4 DEF InsertCache, CacheKey

-----------------------------------------------------------------------------
(* Steps that write files or rows *)

\* The file written belongs to no committed version and to no other transaction.
LEMMA WriteVersionKeeps ==
  ASSUME LineageIInv, OneWriter, NEW c \in Clients, WriteVersion(c)
  PROVE  LineageIInv'
<1> DEFINE t == [tx[c] EXCEPT !.pc = "insert"]
           k == tx[c].key
<1>1. tx[c] \in Request /\ SessionOk(c, tx[c]) /\ tx[c].pc = "write" /\ c \in Writers
      /\ k \in Key /\ Unused(k) /\ tx[c].checksum \subseteq Days
  BY SessionTypes DEF WriteVersion, SessionOk, Making, Request
<1>2. /\ files' = [files EXCEPT ![k] = tx[c].checksum] /\ Becomes(c, t)
      /\ UNCHANGED <<market, cacheFiles, dataset, versions, cache, experiments>>
  BY DEF WriteVersion, Rows
<1>3. files \in [Key -> (SUBSET Days) \cup {None}] /\ tx \in [Clients -> Request]
  BY DEF LineageIInv, RowTypes
<1>4. t \in Request
  BY <1>1 DEF Request, Making
<1>5. RowTypes'
  <2>1. tx' \in [Clients -> Request]
    BY <1>2, <1>3, <1>4 DEF Becomes
  <2>2. files' \in [Key -> (SUBSET Days) \cup {None}]
    BY <1>1, <1>2, <1>3
  <2> QED
    BY <1>2, <2>1, <2>2 DEF LineageIInv, RowTypes
<1>6. \A q \in Key : files'[q] = IF q = k THEN tx[c].checksum ELSE files[q]
  BY <1>1, <1>2, <1>3
<1>7. RowsOk' /\ \A e \in experiments' : ExperimentOk(e)'
  <2>1. \A v \in versions : v.key \in Key /\ v.key # k
    BY <1>1, SessionTypes DEF Unused
  <2> QED
    BY <1>2, <1>6, <2>1 DEF LineageIInv, RowsOk, Committed, ExperimentOk
<1>8. ASSUME NEW o \in Clients  PROVE SessionOk(o, tx[o])'
  <2>1. CASE o = c
    <3>1. tx'[o] = t /\ files'[k] = tx[c].checksum
      BY <1>1, <1>2, <1>3, <1>6, <2>1 DEF Becomes
    <3> QED
      BY <1>1, <1>2, <2>1, <3>1 DEF Request, SessionOk, Making, Unused
  <2>2. CASE o # c
    <3>1. tx'[o] = tx[o] /\ SessionOk(o, tx[o]) /\ o \notin Writers
      BY <1>1, <1>2, <1>3, <2>2, SessionTypes DEF Becomes, OneWriter
    <3>2. tx[o].pc \in {"feature", "cache", "record"} => tx[o].key # k
      BY <1>1, <3>1 DEF SessionOk, Pinned, Committed, Unused
    <3>3. tx[o].pc \notin Making
      BY <3>1 DEF SessionOk
    <3> QED
      BY <1>2, <1>6, <3>1, <3>2, <3>3 DEF SessionOk, Pinned, Committed, Making
  <2> QED
    BY <2>1, <2>2
<1> QED
  BY <1>5, <1>7, <1>8 DEF LineageIInv

\* A feature is computed from the file of its version, which is the one of the checksum.
LEMMA MaterializeKeeps ==
  ASSUME LineageIInv, NEW c \in Clients, Materialize(c)
  PROVE  LineageIInv'
<1> DEFINE k == tx[c].key
<1>1. tx[c] \in Request /\ SessionOk(c, tx[c]) /\ tx[c].pc = "feature"
  BY SessionTypes DEF Materialize
<1>2. k \in Key /\ Pinned(c, tx[c]) /\ files[k] = tx[c].checksum
  BY <1>1 DEF SessionOk, Pinned
<1>3. UNCHANGED <<market, files, dataset, versions, cache, experiments>>
  BY DEF Materialize, Rows
<1>4. CASE Becomes(c, [tx[c] EXCEPT !.pc = "record"]) /\ UNCHANGED cacheFiles
  <2> DEFINE t == [tx[c] EXCEPT !.pc = "record"]
  <2>1. t \in Request
    BY <1>1 DEF Request, Making
  <2>2. SessionOk(c, t)
    BY <1>1, <1>2 DEF Request, SessionOk, Making, Pinned
  <2> QED
    BY <1>3, <1>4, <2>1, <2>2, StepOfOne DEF store
<1>5. CASE /\ cacheFiles' = [cacheFiles EXCEPT ![k] = files[k]]
           /\ Becomes(c, [tx[c] EXCEPT !.pc = "cache"])
  <2> DEFINE t == [tx[c] EXCEPT !.pc = "cache"]
  <2>1. /\ cacheFiles \in [Key -> (SUBSET Days) \cup {None}] /\ files \in [Key -> (SUBSET Days) \cup {None}]
        /\ tx \in [Clients -> Request] /\ cache \subseteq Key
    BY DEF LineageIInv, RowTypes
  <2>2. \A q \in Key : cacheFiles'[q] = IF q = k THEN files[k] ELSE cacheFiles[q]
    BY <1>2, <1>5, <2>1
  <2>3. t \in Request
    BY <1>1 DEF Request, Making
  <2>4. RowTypes'
    <3>1. tx' \in [Clients -> Request]
      BY <1>5, <2>1, <2>3 DEF Becomes
    <3>2. cacheFiles' \in [Key -> (SUBSET Days) \cup {None}]
      BY <1>2, <1>5, <2>1
    <3> QED
      BY <1>3, <3>1, <3>2 DEF LineageIInv, RowTypes
  <2>5. RowsOk'
    <3>1. ASSUME NEW q \in cache  PROVE Committed(q, cacheFiles'[q])
      <4>1. PICK v \in versions : v.key = q /\ v.checksum = cacheFiles[q]
        BY DEF LineageIInv, RowsOk, Committed
      <4>2. files[q] = v.checksum
        BY <4>1 DEF LineageIInv, RowsOk
      <4>3. cacheFiles'[q] = v.checksum
        BY <2>1, <2>2, <4>1, <4>2
      <4> QED
        BY <4>1, <4>3 DEF Committed
    <3> QED
      BY <1>3, <3>1 DEF LineageIInv, RowsOk, Committed
  <2>6. \A e \in experiments' : ExperimentOk(e)'
    BY <1>3 DEF LineageIInv, ExperimentOk, Committed
  <2>7. ASSUME NEW o \in Clients  PROVE SessionOk(o, tx[o])'
    <3>1. CASE o = c
      <4>1. tx'[o] = t /\ cacheFiles'[k] = tx[c].checksum
        BY <1>2, <1>5, <2>1, <2>2, <3>1 DEF Becomes
      <4>2. t.key = k /\ t.pc = "cache" /\ t.row = tx[c].row /\ t.checksum = tx[c].checksum
            /\ t.window = tx[c].window /\ t.frame = tx[c].frame /\ t.cached = tx[c].cached
        BY <1>1 DEF Request
      <4>3. Pinned(c, t)
        BY <1>2, <4>2 DEF Pinned
      <4>4. t.cached = {} /\ t.window \in Windows /\ t.frame = InWindow(t.checksum, t.window)
            /\ t.frame # {}
        BY <1>1, <4>2 DEF SessionOk
      <4> HIDE DEF t, k
      <4> QED
        BY <1>3, <3>1, <4>1, <4>2, <4>3, <4>4 DEF SessionOk, Making, Pinned, Committed, Unused
    <3>2. CASE o # c
      <4>1. tx'[o] = tx[o] /\ SessionOk(o, tx[o])
        BY <1>5, <2>1, <3>2, SessionTypes DEF Becomes
      <4>2. tx[o].pc \in {"cache", "record"} =>
              tx[o].key \in Key /\ (tx[o].key = k => files[k] = tx[o].checksum)
        BY <4>1 DEF SessionOk, Pinned
      <4>3. tx[o].pc # "record" => tx[o].cached = {}
        BY <4>1 DEF SessionOk
      <4> QED
        BY <1>3, <2>2, <4>1, <4>2, <4>3 DEF SessionOk, Pinned, Committed, Unused
    <3> QED
      BY <3>1, <3>2
  <2> QED
    BY <2>4, <2>5, <2>6, <2>7 DEF LineageIInv
<1> QED
  BY <1>4, <1>5 DEF Materialize, CacheKey

\* A commit adds a version that no other transaction makes, and the experiment that pins it.
LEMMA RecordKeeps ==
  ASSUME LineageIInv, OneWriter, NEW c \in Clients, Record(c)
  PROVE  LineageIInv'
<1> DEFINE t == tx[c]
           x == [window |-> t.window, key |-> t.key, checksum |-> t.checksum,
                 metrics |-> Metrics(t.frame)]
<1>1. t \in Request /\ SessionOk(c, t) /\ t.pc = "record"
  BY SessionTypes DEF Record
<1>2. /\ Pinned(c, t) /\ t.cached \subseteq {t.key} /\ t.key \in Key /\ files[t.key] = t.checksum
      /\ t.window \in Windows /\ t.frame = InWindow(t.checksum, t.window) /\ t.frame # {}
      /\ t.checksum \subseteq Days /\ t.row \subseteq Version /\ t.cached \subseteq Key
      /\ (t.cached # {} => cacheFiles[t.key] = t.checksum) /\ t.ds \in Ids \cup {None}
  BY <1>1 DEF SessionOk, Pinned, Request
<1>3. /\ dataset' = (IF t.created THEN t.ds ELSE dataset)
      /\ versions' = versions \cup t.row /\ cache' = cache \cup t.cached
      /\ experiments' = experiments \cup {x} /\ Becomes(c, NoRequest)
      /\ UNCHANGED <<market, files, cacheFiles>>
  BY DEF Record, Abort, Storage
<1>4. NoRequest \in Request /\ SessionOk(c, NoRequest)
  BY DEF NoRequest, Begun, Request, SessionOk, Making
<1>5. tx \in [Clients -> Request] /\ dataset \in Ids \cup {None} /\ versions \subseteq Version
      /\ cache \subseteq Key
  BY DEF LineageIInv, RowTypes
<1> HIDE DEF x
<1>6. RowTypes'
  <2>1. tx' \in [Clients -> Request]
    BY <1>3, <1>4, <1>5 DEF Becomes
  <2>2. dataset' \in Ids \cup {None} /\ versions' \subseteq Version /\ cache' \subseteq Key
    BY <1>2, <1>3, <1>5
  <2> QED
    BY <1>3, <2>1, <2>2 DEF LineageIInv, RowTypes
<1>7. \/ t.row = {} /\ Committed(t.key, t.checksum)
      \/ c \in Writers /\ Unused(t.key) /\ t.row = {[key |-> t.key, checksum |-> t.checksum]}
  BY <1>2 DEF Pinned
<1>8. \A k, payload : Committed(k, payload) => Committed(k, payload)'
  BY <1>3 DEF Committed
<1>9. PICK key, payload : key = t.key /\ payload = t.checksum
  OBVIOUS
<1>10. Committed(key, payload)'
  BY <1>3, <1>7, <1>9 DEF Committed
<1>11. RowsOk'
  <2>1. \A v \in versions' : files[v.key] = v.checksum
    BY <1>2, <1>3, <1>7 DEF LineageIInv, RowsOk
  <2>2. \A v, u \in versions' : v.key = u.key => v = u
    BY <1>3, <1>7 DEF LineageIInv, RowsOk, Unused
  <2>3. ASSUME NEW k \in cache'  PROVE Committed(k, cacheFiles[k])'
    <3>1. CASE k \in cache
      <4>1. Committed(k, cacheFiles[k])
        BY <3>1 DEF LineageIInv, RowsOk
      <4> QED
        BY <1>3, <4>1 DEF Committed
    <3>2. CASE k \in t.cached
      <4>1. k = t.key /\ cacheFiles'[k] = t.checksum
        BY <1>2, <1>3, <3>2
      <4> QED
        BY <1>9, <1>10, <4>1 DEF Committed
    <3> QED
      BY <1>3, <3>1, <3>2
  <2> QED
    BY <1>3, <2>1, <2>2, <2>3 DEF RowsOk
<1>12. ASSUME NEW e \in experiments'  PROVE ExperimentOk(e)'
  <2>1. CASE e \in experiments
    BY <1>8, <2>1 DEF LineageIInv, ExperimentOk
  <2>2. CASE e = x
    <3>1. /\ e.key = key /\ e.checksum = payload /\ e.window = t.window
          /\ e.metrics = Metrics(InWindow(payload, t.window))
      BY <1>2, <1>9, <2>2 DEF x
    <3> QED
      BY <1>2, <1>9, <1>10, <3>1 DEF ExperimentOk, Committed
  <2> QED
    BY <1>3, <2>1, <2>2
<1>13. ASSUME NEW o \in Clients  PROVE SessionOk(o, tx[o])'
  <2>1. CASE o = c
    <3>1. tx'[o] = NoRequest
      BY <1>3, <1>5, <2>1 DEF Becomes
    <3> QED
      BY <3>1 DEF NoRequest, Begun, SessionOk, Making
  <2>2. CASE o # c
    <3>1. tx'[o] = tx[o] /\ SessionOk(o, tx[o])
      BY <1>3, <1>5, <2>2, SessionTypes DEF Becomes
    <3>2. o \in Writers => versions' = versions
      BY <1>3, <1>7, <2>2 DEF OneWriter
    <3>3. tx[o].pc \in {"write", "insert"} => Unused(tx[o].key)'
      BY <3>1, <3>2 DEF SessionOk, Making, Unused
    <3>4. tx[o].pc \in {"feature", "cache", "record"} => Pinned(o, tx[o])'
      BY <1>3, <1>8, <3>1, <3>2 DEF SessionOk, Pinned, Unused
    <3> QED
      BY <1>3, <3>1, <3>3, <3>4 DEF SessionOk
  <2> QED
    BY <2>1, <2>2
<1> QED
  BY <1>6, <1>11, <1>12, <1>13 DEF LineageIInv

LEMMA IngestKeeps ==
  ASSUME LineageIInv, NEW days \in Windows, Ingest(days)
  PROVE  LineageIInv'
<1>1. market' \subseteq Days
  BY LineageAssumption DEF LineageIInv, RowTypes, Ingest
<1> QED
  BY <1>1 DEF Ingest, Rows, Storage, LineageIInv, RowTypes, RowsOk, ExperimentOk, Committed,
     SessionOk, Pinned, Unused

LEMMA LineageStutters ==
  ASSUME LineageIInv, UNCHANGED vars
  PROVE  LineageIInv'
BY DEF vars, LineageIInv, RowTypes, RowsOk, ExperimentOk, Committed, SessionOk, Pinned, Unused

LEMMA LineageStep ==
  ASSUME LineageIInv, OneWriter, [Next]_vars
  PROVE  LineageIInv'
<1>1. ASSUME NEW c \in Clients, Fail(c)  PROVE LineageIInv'
  BY <1>1, AbortKeeps DEF Fail, Rows, Storage, store
<1>2. ASSUME NEW c \in Clients,
             \/ \E w \in Windows, f \in BOOLEAN : ReadMarket(c, w, f)
             \/ FindDataset(c) \/ CreateDataset(c) \/ FindVersion(c) \/ TakeNumber(c)
             \/ WriteVersion(c) \/ InsertVersion(c)
             \/ \E v \in versions, w \in Windows, f \in BOOLEAN : ReadVersion(c, v, w, f)
             \/ Materialize(c) \/ InsertCache(c) \/ Record(c)
      PROVE  LineageIInv'
  BY <1>2, ReadMarketKeeps, FindDatasetKeeps, CreateDatasetKeeps, FindVersionKeeps,
     TakeNumberKeeps, WriteVersionKeeps, InsertVersionKeeps, ReadVersionKeeps, MaterializeKeeps,
     InsertCacheKeeps, RecordKeeps
<1> QED
  BY <1>1, <1>2, IngestKeeps, LineageStutters DEF Next

-----------------------------------------------------------------------------
(* The theorems *)

LEMMA LineageInductive ==
  ASSUME OneWriter
  PROVE  Spec => []LineageIInv
<1>1. Init => LineageIInv
  BY LineageInitInv
<1>2. LineageIInv /\ [Next]_vars => LineageIInv'
  BY LineageStep
<1> QED
  BY <1>1, <1>2, PTL DEF Spec

\* While one session makes versions, every committed version keeps the data of its checksum
\* and every cached feature is computed from it, for any number of readers, days and failed
\* transactions (create_dataset_version and FeatureStore.compute of data/service.py).
THEOREM VersionsAreImmutable ==
  ASSUME OneWriter
  PROVE  Spec => []StoredDataIsImmutable
<1>1. LineageIInv => StoredDataIsImmutable
  BY InvariantShows
<1> QED
  BY <1>1, LineageInductive, PTL

\* While one session makes versions, an experiment replayed on the version it pinned shows no
\* difference, and on any other version shows one (reproduce_experiment).
THEOREM ReproductionsAreFaithful ==
  ASSUME OneWriter
  PROVE  Spec => []ReproductionIsFaithful
<1>1. LineageIInv => ReproductionIsFaithful
  BY InvariantShows
<1> QED
  BY <1>1, LineageInductive, PTL

-----------------------------------------------------------------------------
(* The numbers of the versions.  The session that makes versions works on  *)
(* the committed dataset or on the first one, finds that its data is new,  *)
(* and takes the number that follows all the others.                       *)

Last == Cardinality(versions)

OnItsDataset(t) == t.created \/ t.ds = dataset

NewData(t) == \A v \in versions : v.checksum # t.checksum

SessionNumbers(c, t) ==
  /\ t.created => dataset = None /\ t.ds \in Ids
  /\ t.created => c \in Writers
  /\ t.pc \in {"idle", "dataset", "create"} => ~t.created
  /\ t.pc = "create" => dataset = None
  /\ t.pc \in {"find", "number", "write", "insert"} => OnItsDataset(t)
  /\ t.pc \in {"number", "write", "insert"} => NewData(t)
  /\ t.pc \in {"write", "insert"} => t.key = <<t.ds, Last + 1>>
  /\ t.row # {} => /\ OnItsDataset(t) /\ NewData(t)
                   /\ t.row = {[key |-> <<t.ds, Last + 1>>, checksum |-> t.checksum]}
  /\ t.created /\ t.pc \in {"feature", "cache", "record"} => t.row # {}

NumberingInv ==
  /\ IsFiniteSet(versions) /\ VersionsAreDistinct
  /\ experiments \subseteq Experiment
  /\ \A c \in Clients : SessionNumbers(c, tx[c])
LEMMA NumberingInit == Init => NumberingInv
<1> SUFFICES ASSUME Init
             PROVE  NumberingInv
  OBVIOUS
<1>1. versions = {} /\ experiments = {} /\ dataset = None /\ tx = [c \in Clients |-> NoRequest]
  BY DEF Init
<1>2. IsFiniteSet(versions) /\ Cardinality(versions) = 0
  BY <1>1, FS_EmptySet
<1>3. VersionsAreDistinct
  <2>1. Numbers(dataset) = {}
    BY <1>1 DEF Numbers
  <2> QED
    BY <1>1, <1>2, <2>1 DEF VersionsAreDistinct
<1>4. \A c \in Clients : SessionNumbers(c, tx[c])
  BY <1>1 DEF NoRequest, Begun, SessionNumbers
<1> QED
  BY <1>1, <1>2, <1>3, <1>4 DEF NumberingInv

\* The versions of the dataset a session works on, committed or not.
LEMMA NumbersOfDataset ==
  ASSUME LineageIInv, NumberingInv, NEW c \in Clients, NEW t, t = tx[c], OnItsDataset(t)
  PROVE  /\ Last \in Nat /\ Numbers(t.ds) = 1 .. Last
         /\ \A v \in versions : v.key[1] = t.ds
         /\ t.created => versions = {}
<1>1. /\ Last \in Nat
      /\ \A v \in versions : v.key[1] = dataset
      /\ Numbers(dataset) = 1 .. Last
  BY FS_CardinalityType DEF NumberingInv, VersionsAreDistinct, Last
<1>2. CASE t.created
  <2>1. dataset = None
    BY <1>2 DEF NumberingInv, SessionNumbers
  <2>2. versions = {}
    <3> SUFFICES ASSUME NEW v \in versions
                 PROVE  FALSE
      OBVIOUS
    <3>1. v.key[1] \in Ids
      BY SessionTypes DEF Key
    <3> QED
      BY <1>1, <2>1, <3>1, LineageAssumption
  <2>3. Last = 0 /\ Numbers(t.ds) = {}
    BY <2>2, FS_EmptySet DEF Last, Numbers
  <2> QED
    BY <1>1, <2>2, <2>3
<1>3. CASE ~t.created
  BY <1>1, <1>3 DEF OnItsDataset
<1> QED
  BY <1>2, <1>3

\* The number after 1 to n is n + 1.
LEMMA NextIsLastPlusOne ==
  ASSUME NEW d, Last \in Nat, Numbers(d) = 1 .. Last, NEW n \in Nat, IsNextNumber(d, n)
  PROVE  n = Last + 1
<1> DEFINE k == Last
<1>1. k \in Nat /\ n - 1 \in {0} \cup 1 .. k /\ \A m \in 1 .. k : m < n
  BY DEF IsNextNumber
<1> HIDE DEF k
<1>2. n = k + 1
  <2>1. k = 0 \/ k < n
    BY <1>1
  <2> QED
    BY <1>1, <2>1
<1> QED
  BY <1>2 DEF k

\* Steps that change one transaction and no row.
LEMMA NumbersOfOne ==
  ASSUME LineageIInv, NumberingInv, NEW c \in Clients, NEW t, Becomes(c, t), SessionNumbers(c, t),
         Rows
  PROVE  NumberingInv'
<1>1. \A o \in Clients : tx'[o] = IF o = c THEN t ELSE tx[o]
  BY DEF LineageIInv, RowTypes, Becomes
<1>2. UNCHANGED <<dataset, versions, experiments>>
  BY DEF Rows
<1>3. \A o \in Clients : SessionNumbers(o, tx[o])'
  <2>1. \A o \in Clients : SessionNumbers(o, tx'[o])
    BY <1>1 DEF NumberingInv
  <2> QED
    BY <1>2, <2>1 DEF SessionNumbers, OnItsDataset, NewData, Last
<1> QED
  BY <1>2, <1>3 DEF NumberingInv, VersionsAreDistinct, Numbers

LEMMA AbortNumbers ==
  ASSUME LineageIInv, NumberingInv, NEW c \in Clients, Abort(c), Rows
  PROVE  NumberingInv'
<1>1. SessionNumbers(c, NoRequest)
  BY DEF NoRequest, Begun, SessionNumbers
<1> QED
  BY <1>1, NumbersOfOne DEF Abort

\* A new request has made nothing.
LEMMA ReadNumbers ==
  ASSUME LineageIInv, NumberingInv, NEW c \in Clients, NEW w, NEW f,
         ReadMarket(c, w, f) \/ \E v \in versions : ReadVersion(c, v, w, f)
  PROVE  NumberingInv'
<1>1. ASSUME NEW pc \in {"dataset", "feature"}, NEW frame, NEW key, NEW checksum
      PROVE  SessionNumbers(c, Begun(pc, w, f, frame, key, checksum))
  BY DEF Begun, SessionNumbers
<1>2. CASE ReadMarket(c, w, f)
  BY <1>1, <1>2, NumbersOfOne DEF ReadMarket
<1>3. ASSUME NEW v \in versions, ReadVersion(c, v, w, f)
      PROVE  NumberingInv'
  BY <1>1, <1>3, NumbersOfOne DEF ReadVersion
<1> QED
  BY <1>2, <1>3

\* The dataset that is read, or created where there was none.
LEMMA DatasetNumbers ==
  ASSUME LineageIInv, NumberingInv, NEW c \in Clients, FindDataset(c) \/ CreateDataset(c)
  PROVE  NumberingInv'
<1>1. tx[c] \in Request /\ SessionOk(c, tx[c]) /\ SessionNumbers(c, tx[c])
  BY SessionTypes DEF NumberingInv
<1>2. CASE FindDataset(c)
  <2> DEFINE t == [tx[c] EXCEPT !.pc = IF dataset = None THEN "create" ELSE "find", !.ds = dataset]
  <2>1. tx[c].pc = "dataset" /\ Becomes(c, t) /\ Rows
    BY <1>2 DEF FindDataset
  <2>2. t.ds = dataset /\ t.created = tx[c].created /\ t.row = tx[c].row
        /\ t.pc = (IF dataset = None THEN "create" ELSE "find")
    BY <1>1 DEF Request
  <2>3. ~t.created /\ t.row = {}
    BY <1>1, <2>1, <2>2 DEF SessionNumbers, SessionOk, Making
  <2> HIDE DEF t
  <2>4. SessionNumbers(c, t)
    BY <2>2, <2>3 DEF SessionNumbers, OnItsDataset
  <2> QED
    BY <2>1, <2>4, NumbersOfOne
<1>3. CASE CreateDataset(c)
  <2>1. tx[c].pc = "create" /\ Rows
    BY <1>3 DEF CreateDataset
  <2>2. CASE Abort(c)
    BY <2>1, <2>2, AbortNumbers
  <2>3. ASSUME NEW d \in Ids, Becomes(c, [tx[c] EXCEPT !.pc = "find", !.ds = d, !.created = TRUE])
        PROVE  NumberingInv'
    <3> DEFINE t == [tx[c] EXCEPT !.pc = "find", !.ds = d, !.created = TRUE]
    <3>1. t.pc = "find" /\ t.ds = d /\ t.created = TRUE /\ t.row = tx[c].row
      BY <1>1 DEF Request
    <3>2. t.row = {} /\ c \in Writers /\ dataset = None
      BY <1>1, <2>1, <3>1 DEF SessionNumbers, SessionOk, Making
    <3> HIDE DEF t
    <3>3. SessionNumbers(c, t)
      BY <3>1, <3>2 DEF SessionNumbers, OnItsDataset
    <3> QED
      BY <2>1, <2>3, <3>3, NumbersOfOne DEF t
  <2> QED
    BY <1>3, <2>2, <2>3 DEF CreateDataset
<1> QED
  BY <1>2, <1>3

\* The data of a session is new where no version of its dataset has it.
LEMMA FindVersionNumbers ==
  ASSUME LineageIInv, NumberingInv, NEW c \in Clients, FindVersion(c)
  PROVE  NumberingInv'
<1>1. /\ tx[c] \in Request /\ SessionOk(c, tx[c]) /\ SessionNumbers(c, tx[c]) /\ Rows
      /\ tx[c].pc = "find"
  BY SessionTypes DEF NumberingInv, FindVersion
<1>2. OnItsDataset(tx[c]) /\ tx[c].row = {}
  BY <1>1 DEF SessionNumbers, SessionOk, Making
<1>3. (\A v \in versions : v.key[1] = tx[c].ds) /\ (tx[c].created => versions = {})
  BY <1>2, NumbersOfDataset
<1>4. CASE /\ SameData(tx[c].ds, tx[c].checksum) = {}
           /\ Becomes(c, [tx[c] EXCEPT !.pc = "number"])
  <2> DEFINE t == [tx[c] EXCEPT !.pc = "number"]
  <2>1. /\ t.pc = "number" /\ t.ds = tx[c].ds /\ t.created = tx[c].created /\ t.row = tx[c].row
        /\ t.checksum = tx[c].checksum
    BY <1>1 DEF Request
  <2> HIDE DEF t
  <2>2. NewData(t)
    BY <1>3, <1>4, <2>1 DEF NewData, SameData
  <2>3. SessionNumbers(c, t)
    BY <1>1, <1>2, <2>1, <2>2 DEF SessionNumbers, OnItsDataset
  <2> QED
    BY <1>1, <1>4, <2>3, NumbersOfOne DEF t
<1>5. ASSUME NEW v \in SameData(tx[c].ds, tx[c].checksum),
             Becomes(c, [tx[c] EXCEPT !.pc = "feature", !.key = v.key])
      PROVE  NumberingInv'
  <2> DEFINE t == [tx[c] EXCEPT !.pc = "feature", !.key = v.key]
  <2>1. t.pc = "feature" /\ t.created = tx[c].created /\ t.row = tx[c].row
    BY <1>1 DEF Request
  <2>2. versions # {}
    BY DEF SameData
  <2> HIDE DEF t
  <2>3. SessionNumbers(c, t)
    BY <1>2, <1>3, <2>1, <2>2 DEF SessionNumbers
  <2> QED
    BY <1>1, <1>5, <2>3, NumbersOfOne DEF t
<1> QED
  BY <1>4, <1>5 DEF FindVersion

\* The next number is the one after all the others.
LEMMA TakeNumberNumbers ==
  ASSUME LineageIInv, NumberingInv, NEW c \in Clients, TakeNumber(c)
  PROVE  NumberingInv'
<1>1. /\ tx[c] \in Request /\ SessionOk(c, tx[c]) /\ SessionNumbers(c, tx[c]) /\ Rows
      /\ tx[c].pc = "number"
  BY SessionTypes DEF NumberingInv, TakeNumber
<1>2. OnItsDataset(tx[c]) /\ NewData(tx[c]) /\ tx[c].row = {}
  BY <1>1 DEF SessionNumbers, SessionOk, Making
<1>3. PICK n \in 1 .. MaxVersion :
        /\ IsNextNumber(tx[c].ds, n)
        /\ Becomes(c, [tx[c] EXCEPT !.pc = "write", !.key = <<tx[c].ds, n>>])
  BY DEF TakeNumber
<1>4. n \in Nat
  BY LineageAssumption
<1>5. n = Last + 1
  <2>1. Last \in Nat /\ Numbers(tx[c].ds) = 1 .. Last
    BY <1>2, NumbersOfDataset
  <2> QED
    BY ONLY <1>3, <1>4, <2>1, NextIsLastPlusOne
<1> DEFINE t == [tx[c] EXCEPT !.pc = "write", !.key = <<tx[c].ds, n>>]
<1>6. /\ t.pc = "write" /\ t.ds = tx[c].ds /\ t.created = tx[c].created /\ t.row = tx[c].row
      /\ t.checksum = tx[c].checksum /\ t.key = <<tx[c].ds, n>>
  BY <1>1 DEF Request
<1> HIDE DEF t
<1>7. SessionNumbers(c, t)
  BY <1>1, <1>2, <1>5, <1>6 DEF SessionNumbers, OnItsDataset, NewData
<1> QED
  BY <1>1, <1>3, <1>7, NumbersOfOne DEF t

\* The row of a new version.
LEMMA InsertVersionNumbers ==
  ASSUME LineageIInv, NumberingInv, NEW c \in Clients, InsertVersion(c)
  PROVE  NumberingInv'
<1>1. /\ tx[c] \in Request /\ SessionOk(c, tx[c]) /\ SessionNumbers(c, tx[c]) /\ Rows
      /\ tx[c].pc = "insert"
  BY SessionTypes DEF NumberingInv, InsertVersion
<1>2. OnItsDataset(tx[c]) /\ NewData(tx[c]) /\ tx[c].key = <<tx[c].ds, Last + 1>>
  BY <1>1 DEF SessionNumbers
<1>3. CASE Abort(c)
  BY <1>1, <1>3, AbortNumbers
<1> DEFINE row == {[key |-> tx[c].key, checksum |-> tx[c].checksum]}
           t == [tx[c] EXCEPT !.pc = "feature", !.row = row]
<1>4. CASE Becomes(c, t)
  <2>1. /\ t.pc = "feature" /\ t.ds = tx[c].ds /\ t.created = tx[c].created /\ t.row = row
        /\ t.checksum = tx[c].checksum
    BY <1>1 DEF Request
  <2> HIDE DEF t
  <2>2. SessionNumbers(c, t)
    BY <1>1, <1>2, <2>1 DEF SessionNumbers, OnItsDataset, NewData
  <2> QED
    BY <1>1, <1>4, <2>2, NumbersOfOne
<1> QED
  BY <1>3, <1>4 DEF InsertVersion

\* Files and cached features number nothing.
LEMMA FileNumbers ==
  ASSUME LineageIInv, NumberingInv, NEW c \in Clients,
         WriteVersion(c) \/ Materialize(c) \/ InsertCache(c)
  PROVE  NumberingInv'
<1>1. tx[c] \in Request /\ SessionNumbers(c, tx[c]) /\ Rows
  BY SessionTypes DEF NumberingInv, WriteVersion, Materialize, InsertCache
<1>2. CASE WriteVersion(c)
  <2> DEFINE t == [tx[c] EXCEPT !.pc = "insert"]
  <2>1. tx[c].pc = "write" /\ Becomes(c, t)
    BY <1>2 DEF WriteVersion
  <2>2. /\ t.pc = "insert" /\ t.ds = tx[c].ds /\ t.created = tx[c].created /\ t.row = tx[c].row
        /\ t.checksum = tx[c].checksum /\ t.key = tx[c].key
    BY <1>1 DEF Request
  <2> HIDE DEF t
  <2>3. SessionNumbers(c, t)
    BY <1>1, <2>1, <2>2 DEF SessionNumbers, OnItsDataset, NewData
  <2> QED
    BY <1>1, <2>1, <2>3, NumbersOfOne
<1>3. ASSUME NEW pc \in {"cache", "record"}, NEW cached, NEW t,
             t = [[tx[c] EXCEPT !.pc = pc] EXCEPT !.cached = cached], Becomes(c, t),
             tx[c].pc \in {"feature", "cache"}
      PROVE  NumberingInv'
  <2>1. /\ t.pc = pc /\ t.ds = tx[c].ds /\ t.created = tx[c].created /\ t.row = tx[c].row
        /\ t.checksum = tx[c].checksum
    BY <1>1, <1>3 DEF Request
  <2>2. SessionNumbers(c, t)
    BY <1>1, <1>3, <2>1 DEF SessionNumbers, OnItsDataset, NewData
  <2> QED
    BY <1>1, <1>3, <2>2, NumbersOfOne
<1>4. CASE Materialize(c)
  <2>1. PICK pc \in {"cache", "record"} : Becomes(c, [tx[c] EXCEPT !.pc = pc])
    BY <1>4 DEF Materialize
  <2>2. [tx[c] EXCEPT !.pc = pc] = [[tx[c] EXCEPT !.pc = pc] EXCEPT !.cached = tx[c].cached]
    BY <1>1 DEF Request
  <2>3. tx[c].pc = "feature"
    BY <1>4 DEF Materialize
  <2> QED
    BY <1>3, <2>1, <2>2, <2>3
<1>5. CASE InsertCache(c)
  <2>1. CASE Abort(c)
    BY <1>1, <2>1, AbortNumbers
  <2>2. CASE Becomes(c, [tx[c] EXCEPT !.pc = "record", !.cached = {CacheKey(tx[c].key)}])
    <3>1. tx[c].pc = "cache"
      BY <1>5 DEF InsertCache
    <3> QED
      BY <1>3, <2>2, <3>1
  <2> QED
    BY <1>5, <2>1, <2>2 DEF InsertCache
<1> QED
  BY <1>2, <1>4, <1>5

\* A commit adds the next version of the dataset, or none.
LEMMA RecordNumbers ==
  ASSUME LineageIInv, OneWriter, NumberingInv, NEW c \in Clients, Record(c)
  PROVE  NumberingInv'
<1> DEFINE t == tx[c]
           x == [window |-> t.window, key |-> t.key, checksum |-> t.checksum,
                 metrics |-> Metrics(t.frame)]
<1>1. t \in Request /\ SessionOk(c, t) /\ SessionNumbers(c, t) /\ t.pc = "record"
  BY SessionTypes DEF NumberingInv, Record
<1>2. /\ dataset' = (IF t.created THEN t.ds ELSE dataset)
      /\ versions' = versions \cup t.row
      /\ experiments' = experiments \cup {x} /\ Becomes(c, NoRequest)
  BY DEF Record, Abort
<1>3. experiments' \subseteq Experiment
  <2>1. x \in Experiment
    BY <1>1 DEF SessionOk, Pinned, Request, Experiment
  <2> QED
    BY <1>2, <2>1 DEF NumberingInv
<1> HIDE DEF x
<1>4. ASSUME NEW o \in Clients
      PROVE  tx'[o] = IF o = c THEN NoRequest ELSE tx[o]
  BY <1>2 DEF LineageIInv, RowTypes, Becomes
<1>5. /\ IsFiniteSet(versions) /\ \A v \in versions : v.key[1] = dataset
      /\ \A v, u \in versions : v.checksum = u.checksum => v = u
      /\ Numbers(dataset) = 1 .. Last /\ Last \in Nat
  BY FS_CardinalityType DEF NumberingInv, VersionsAreDistinct, Last
<1>6. CASE t.row = {}
  <2>1. UNCHANGED <<dataset, versions>>
    BY <1>1, <1>2, <1>6 DEF SessionNumbers
  <2>2. \A o \in Clients : SessionNumbers(o, tx'[o])
    <3>1. SessionNumbers(c, NoRequest)
      BY DEF NoRequest, Begun, SessionNumbers
    <3> QED
      BY <1>4, <3>1 DEF NumberingInv
  <2>3. \A o \in Clients : SessionNumbers(o, tx[o])'
    BY <2>1, <2>2 DEF SessionNumbers, OnItsDataset, NewData, Last
  <2> QED
    BY <1>3, <2>1, <2>3 DEF NumberingInv, VersionsAreDistinct, Numbers
<1>7. CASE t.row # {}
  <2> DEFINE v == [key |-> <<t.ds, Last + 1>>, checksum |-> t.checksum]
  <2>1. OnItsDataset(t) /\ NewData(t) /\ t.row = {v} /\ c \in Writers
    BY <1>1, <1>7 DEF SessionNumbers, SessionOk, Pinned
  <2>2. /\ dataset' = t.ds
        /\ \A u \in versions : u.key[1] = t.ds
        /\ Numbers(t.ds) = 1 .. Last
    BY <1>2, <2>1, NumbersOfDataset DEF OnItsDataset
  <2>3. v.key[1] = t.ds /\ v.key[2] = Last + 1 /\ v.checksum = t.checksum
    OBVIOUS
  <2> HIDE DEF v
  <2>4. versions' = versions \cup {v} /\ v \notin versions
    BY <1>2, <2>1, <2>3 DEF NewData
  <2>5. IsFiniteSet(versions') /\ Cardinality(versions') = Last + 1
    BY <1>5, <2>4, FS_AddElement DEF Last
  <2>6. Numbers(dataset)' = 1 .. (Last + 1)
    <3>1. Numbers(dataset)' = Numbers(t.ds) \cup {Last + 1}
      BY <2>2, <2>3, <2>4 DEF Numbers
    <3>2. 1 .. (Last + 1) = (1 .. Last) \cup {Last + 1}
      BY <1>5
    <3> QED
      BY <2>2, <3>1, <3>2
  <2>7. VersionsAreDistinct'
    <3>1. \A u \in versions' : u.key[1] = dataset'
      BY <2>2, <2>3, <2>4
    <3>2. \A u, w \in versions' : u.checksum = w.checksum => u = w
      BY <1>5, <2>1, <2>3, <2>4 DEF NewData
    <3> QED
      BY <2>5, <2>6, <3>1, <3>2 DEF VersionsAreDistinct
  <2>8. ASSUME NEW o \in Clients
        PROVE  SessionNumbers(o, tx[o])'
    <3>1. CASE o = c
      BY <1>4, <3>1 DEF NoRequest, Begun, SessionNumbers
    <3>2. CASE o # c
      <4>1. tx'[o] = tx[o] /\ o \notin Writers
        BY <1>4, <2>1, <3>2 DEF OneWriter
      <4>2. SessionOk(o, tx[o]) /\ SessionNumbers(o, tx[o]) /\ tx[o] \in Request
        BY SessionTypes DEF NumberingInv
      <4>3. tx[o].pc \notin Making /\ ~tx[o].created /\ tx[o].row = {}
        BY <4>1, <4>2 DEF SessionOk, SessionNumbers, Pinned, Request, Making
      <4> QED
        BY <4>1, <4>3 DEF SessionNumbers, Making
    <3> QED
      BY <3>1, <3>2
  <2> QED
    BY <1>3, <2>5, <2>7, <2>8 DEF NumberingInv
<1> QED
  BY <1>6, <1>7

LEMMA NumberingStep ==
  ASSUME LineageIInv, OneWriter, NumberingInv, [Next]_vars
  PROVE  NumberingInv'
<1>1. ASSUME NEW c \in Clients, Fail(c)
      PROVE  NumberingInv'
  BY <1>1, AbortNumbers DEF Fail
<1>2. ASSUME NEW c \in Clients,
             \/ \E w \in Windows, f \in BOOLEAN : ReadMarket(c, w, f)
             \/ FindDataset(c) \/ CreateDataset(c) \/ FindVersion(c) \/ TakeNumber(c)
             \/ WriteVersion(c) \/ InsertVersion(c)
             \/ \E v \in versions, w \in Windows, f \in BOOLEAN : ReadVersion(c, v, w, f)
             \/ Materialize(c) \/ InsertCache(c) \/ Record(c)
      PROVE  NumberingInv'
  BY <1>2, ReadNumbers, DatasetNumbers, FindVersionNumbers, TakeNumberNumbers,
     InsertVersionNumbers, FileNumbers, RecordNumbers
<1>3. CASE UNCHANGED <<dataset, versions, experiments, tx>>
  BY <1>3 DEF NumberingInv, VersionsAreDistinct, Numbers, SessionNumbers, OnItsDataset, NewData, Last
<1>4. ASSUME NEW days \in Windows, Ingest(days)
      PROVE  NumberingInv'
  BY <1>3, <1>4 DEF Ingest, Rows
<1> QED
  BY <1>1, <1>2, <1>3, <1>4 DEF Next, vars

\* While one session makes versions, those of a dataset are numbered 1, 2, ... without a gap,
\* and no two of them hold the same data (create_dataset_version of data/service.py): a request
\* on unchanged data reuses the version that has it, whatever was rolled back in between.
THEOREM VersionsAreNumbered ==
  ASSUME OneWriter
  PROVE  Spec => []LineageInv
<1>1. LineageIInv /\ NumberingInv => LineageInv
  <2> SUFFICES ASSUME LineageIInv, NumberingInv
               PROVE  TypeOK
    BY DEF LineageInv, NumberingInv
  <2>1. \A c \in Clients : tx[c].row \subseteq Version /\ tx[c].cached \subseteq Key
    BY SessionTypes DEF Request
  <2> QED
    BY <2>1 DEF TypeOK, LineageIInv, RowTypes, NumberingInv
<1>2. Init => NumberingInv
  BY NumberingInit
<1>3. LineageIInv /\ NumberingInv /\ [Next]_vars => NumberingInv'
  BY NumberingStep
<1> QED
  BY <1>1, <1>2, <1>3, LineageInductive, PTL DEF Spec
=============================================================================
