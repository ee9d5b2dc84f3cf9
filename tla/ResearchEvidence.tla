---------------------------- MODULE ResearchEvidence ----------------------------
(***************************************************************************)
(* Research experiments and their evidence (app/research, app/memory,      *)
(* app/research_sources).  A request is one transaction: it makes sure of  *)
(* the rows of the default versions, retrieves lessons of earlier studies, *)
(* runs the nodes of the workflow, and writes the study with its model     *)
(* usage and its lesson.  Documents are attached later, within a quota.    *)
(* Requests overlap, and each statement sees what is committed by then.    *)
(***************************************************************************)
EXTENDS Integers, Sequences, FiniteSets, FiniteSetsExt

CONSTANTS
  Desks,            \* sessions
  Symbols, Documents,   \* a document is its content, the type it is sent as and its size
  TopK,             \* lessons a study may retrieve
  MaxAttachments, MaxBytes,   \* the quota of a study
  MaxStudies, MaxAttached     \* bounds

\* a document has a size up to a limit (MAX_SOURCE_BYTES), which its content determines
ASSUME EvidenceAssumption ==
  /\ IsFiniteSet(Desks) /\ Desks # {}
  /\ MaxAttachments \in Nat /\ MaxBytes \in Nat
  /\ \E largest \in Documents : \A d \in Documents : d.size \in 0..largest.size
  /\ \A d, e \in Documents : d.content = e.content /\ d.type = e.type => d = e

VARIABLES
  defaults,     \* the default versions that have a row
  studies,      \* the research experiments, in order, each with what it retrieved
  usage,        \* the model calls recorded for a study
  lessons,      \* the lessons learned
  sources,      \* the documents stored
  attachments,  \* the document of an attachment, as it was sent, and its study
  desks         \* the request each session is serving

evidenceVars == <<defaults, studies, usage, lessons, sources, attachments, desks>>

NoRequest == [kind |-> "none"]

EvidenceInit ==
  /\ defaults = {} /\ studies = << >> /\ usage = {} /\ lessons = {}
  /\ sources = {} /\ attachments = {}
  /\ desks = [s \in Desks |-> NoRequest]

Serves(s, kind) == desks[s].kind = kind

\* what a session has not committed is lost
Abort(s) ==
  /\ desks' = [desks EXCEPT ![s] = NoRequest]
  /\ UNCHANGED <<defaults, studies, usage, lessons, sources, attachments>>

-----------------------------------------------------------------------------
(* Default versions *)

\* a research request needs both rows, the lists of versions one of them
Open(s, kind, symbol, rows) ==
  /\ Serves(s, "none")
  /\ desks' = [desks EXCEPT ![s] =
       [kind |-> kind, symbol |-> symbol, rows |-> rows, absent |-> FALSE, mine |-> {},
        retrieved |-> {}, calls |-> << >>, step |-> 0]]
  /\ UNCHANGED <<defaults, studies, usage, lessons, sources, attachments>>

OpenResearch(s, symbol) ==
  /\ Len(studies) + Cardinality({d \in Desks : Serves(d, "research")}) < MaxStudies
  /\ Open(s, "research", symbol, <<"agent", "workflow">>)

OpenListing(s, row) == Open(s, "listing", CHOOSE x \in Symbols : TRUE, <<row>>)

Needs(s) == desks[s].kind \in {"research", "listing"} /\ desks[s].rows # << >>

LookUpDefault(s) ==
  /\ Needs(s) /\ ~desks[s].absent
  /\ desks' = [desks EXCEPT ![s] =
       IF Head(@.rows) \in defaults THEN [@ EXCEPT !.rows = Tail(desks[s].rows)]
       ELSE [@ EXCEPT !.absent = TRUE]]
  /\ UNCHANGED <<defaults, studies, usage, lessons, sources, attachments>>

\* name and version are unique: the insert waits for one that is not committed, and fails
\* on one that is
InsertDefault(s) ==
  LET row == Head(desks[s].rows)
  IN  /\ Needs(s) /\ desks[s].absent
      /\ \A o \in Desks \ {s} : Needs(o) \/ Serves(o, "research") \/ Serves(o, "listing") =>
           row \notin desks[o].mine
      /\ IF row \in defaults THEN Abort(s)
         ELSE /\ desks' = [desks EXCEPT ![s] =
                   [@ EXCEPT !.rows = Tail(desks[s].rows), !.absent = FALSE,
                             !.mine = desks[s].mine \cup {row}]]
              /\ UNCHANGED <<defaults, studies, usage, lessons, sources, attachments>>

CommitListing(s) ==
  /\ Serves(s, "listing") /\ ~Needs(s)
  /\ defaults' = defaults \cup desks[s].mine
  /\ desks' = [desks EXCEPT ![s] = NoRequest]
  /\ UNCHANGED <<studies, usage, lessons, sources, attachments>>

-----------------------------------------------------------------------------
(* Research *)

\* the most similar lessons of the symbol, of those the similar enough
Retrieve(s) ==
  /\ Serves(s, "research") /\ ~Needs(s) /\ desks[s].step = 0
  /\ \E found \in SUBSET {lesson \in lessons : lesson.symbol = desks[s].symbol} :
       /\ Cardinality(found) <= TopK
       /\ desks' = [desks EXCEPT ![s] = [@ EXCEPT !.retrieved = found, !.step = 1]]
  /\ UNCHANGED <<defaults, studies, usage, lessons, sources, attachments>>

Nodes == <<"hypothesis", "strategy", "backtest", "evaluation", "critique">>

AtNode(s, nodes) == Serves(s, "research") /\ desks[s].step \in {i \in DOMAIN Nodes : Nodes[i] \in nodes}

Models == {"hypothesis", "strategy", "evaluation", "critique"}

\* a call that raises is recorded and ends the request, and is lost with all the others
CallModel(s, raises) ==
  /\ AtNode(s, Models)
  /\ IF raises THEN Abort(s)
     ELSE /\ desks' = [desks EXCEPT ![s] =
               [@ EXCEPT !.step = desks[s].step + 1,
                         !.calls = Append(desks[s].calls, Nodes[desks[s].step])]]
          /\ UNCHANGED <<defaults, studies, usage, lessons, sources, attachments>>

\* another symbol, parameters out of bounds or a window without bars raise
BacktestTool(s, raises) ==
  /\ AtNode(s, {"backtest"})
  /\ IF raises THEN Abort(s)
     ELSE /\ desks' = [desks EXCEPT ![s] = [@ EXCEPT !.step = desks[s].step + 1]]
          /\ UNCHANGED <<defaults, studies, usage, lessons, sources, attachments>>

UsageOf(study, calls) == {[study |-> study, call |-> calls[i]] : i \in DOMAIN calls}

Lesson(study, symbol) == [study |-> study, symbol |-> symbol]

\* the study, its usage, its lesson and its trace are committed together
CommitResearch(s) ==
  LET desk  == desks[s]
      study == Len(studies) + 1
  IN  /\ Serves(s, "research") /\ desk.step = Len(Nodes) + 1
      /\ studies' = Append(studies, [symbol |-> desk.symbol, retrieved |-> desk.retrieved])
      /\ usage' = usage \cup UsageOf(study, desk.calls)
      /\ lessons' = lessons \cup {Lesson(study, desk.symbol)}
      /\ defaults' = defaults \cup desk.mine
      /\ desks' = [desks EXCEPT ![s] = NoRequest]
      /\ UNCHANGED <<sources, attachments>>

-----------------------------------------------------------------------------
(* Sources *)

AttachedTo(study) == {a.document : a \in {b \in attachments : b.study = study}}

BytesOf(documents) == MapThenSumSet(LAMBDA d : d.size, documents)

\* The faulty WithinQuota of a mutant: the document itself is not counted.
WithinQuotaBefore(study, document) ==
  /\ Cardinality(AttachedTo(study)) < MaxAttachments
  /\ BytesOf(AttachedTo(study)) <= MaxBytes

WithinQuota(study, document) ==
  /\ Cardinality(AttachedTo(study)) < MaxAttachments
  /\ BytesOf(AttachedTo(study)) + document.size <= MaxBytes

\* the same content is stored once, under the type it was first sent as
Stored(document) == {d \in sources : d.content = document.content}

\* what was stored and attached is read; a refused request changes nothing
BeginAttach(s, study, document) ==
  /\ Serves(s, "none")
  /\ Cardinality(attachments) + Cardinality({d \in Desks : Serves(d, "attach")}) < MaxAttached
  /\ WithinQuota(study, document)
  /\ \A d \in Stored(document) : d.type = document.type
  /\ desks' = [desks EXCEPT ![s] =
       [kind |-> "attach", study |-> study, document |-> document, stored |-> Stored(document)]]
  /\ UNCHANGED <<defaults, studies, usage, lessons, sources, attachments>>

\* content is unique, and a document of a study: who finds it committed by then fails
CommitAttach(s) ==
  LET attach == desks[s]
  IN  /\ Serves(s, "attach")
      /\ IF attach.stored # Stored(attach.document) \/ attach.document \in AttachedTo(attach.study)
           THEN Abort(s)
           ELSE /\ sources' = sources \cup {attach.document}
                /\ attachments' = attachments \cup
                     {[study |-> attach.study, document |-> attach.document]}
                /\ desks' = [desks EXCEPT ![s] = NoRequest]
                /\ UNCHANGED <<defaults, studies, usage, lessons>>

EvidenceNext ==
  \E s \in Desks :
    \/ \E symbol \in Symbols : OpenResearch(s, symbol)
    \/ \E row \in {"agent", "workflow"} : OpenListing(s, row)
    \/ LookUpDefault(s) \/ InsertDefault(s) \/ CommitListing(s)
    \/ Retrieve(s) \/ CommitResearch(s)
    \/ \E raises \in BOOLEAN : CallModel(s, raises) \/ BacktestTool(s, raises)
    \/ \E study \in DOMAIN studies, document \in Documents : BeginAttach(s, study, document)
    \/ CommitAttach(s)

-----------------------------------------------------------------------------
(* A study is complete or is not there, whatever failed or overlapped on its way: it has one
   lesson and the usage of all four model calls, the versions it names have rows, and what it
   retrieved are lessons of earlier studies of its symbol.  Content is stored once and under
   one type, every attachment's document is stored, and a study is over its quota of documents
   and bytes by no more than the requests that overlapped could have added.
   (research/service.py, memory/service.py, research_sources/service.py.) *)
EvidenceIsWhole ==
  /\ studies # << >> => defaults = {"agent", "workflow"}
  /\ \A i \in DOMAIN studies :
       LET documents == AttachedTo(i)
           others == Cardinality(Desks) - 1
           largest == CHOOSE d \in Documents : \A e \in Documents : e.size <= d.size
       IN  /\ {u.call : u \in {v \in usage : v.study = i}} = Models
           /\ {x \in lessons : x.study = i} = {Lesson(i, studies[i].symbol)}
           /\ \A x \in studies[i].retrieved :
                x \in lessons /\ x.study < i /\ x.symbol = studies[i].symbol
           /\ Cardinality(documents) <= MaxAttachments + others
           /\ BytesOf(documents) <= MaxBytes + others * largest.size
           /\ documents \subseteq sources
  /\ \A x \in lessons \cup usage : x.study \in DOMAIN studies
  /\ \A d, e \in sources : d.content = e.content => d = e
=============================================================================
