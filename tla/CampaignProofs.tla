--------------------------- MODULE CampaignProofs ---------------------------
(***************************************************************************)
(* Proofs about CampaignQueue, and about the optimization study that       *)
(* follows a campaign, for every number of experiments, workers, clients,  *)
(* attempts and faults: first whatever the order of reads and commits,     *)
(* then when transactions are prompt (Slow = {}).                          *)
(***************************************************************************)
EXTENDS CampaignProperties, OptimizationStudies, FiniteSetTheorems, TLAPS

-----------------------------------------------------------------------------
(* Types of the operators *)

LEMMA ExperimentsFinite == IsFiniteSet(Experiments)
<1>1. N \in Nat
  BY ConstantsAssumption
<1>2. IsFiniteSet(1..N)
  BY <1>1, FS_Interval
<1> QED
  BY <1>2 DEF Experiments

\* A set of experiments has a natural number of elements, and a larger set has no fewer.
LEMMA CountExperiments ==
  ASSUME NEW s \in SUBSET Experiments
  PROVE  IsFiniteSet(s) /\ Cardinality(s) \in Nat
<1>1. IsFiniteSet(s)
  BY ExperimentsFinite, FS_Subset
<1>2. Cardinality(s) \in Nat
  BY <1>1, FS_CardinalityType
<1> QED
  BY <1>1, <1>2

LEMMA FlushJobType ==
  ASSUME NEW a \in Job, NEW b \in Job, NEW c \in Job
  PROVE  FlushJob(a, b, c) \in Job
BY DEF Job, FlushJob, Write

LEMMA RetryOrFailType ==
  ASSUME NEW j \in Job
  PROVE  RetryOrFail(j) \in Job
BY DEF Job, RetryOrFail, Active, Claimable, Terminal

\* Asking a job to cancel and cancelling it change one column of its row.
LEMMA MarkedJob ==
  ASSUME NEW j \in Job
  PROVE  /\ [j EXCEPT !.cancel = TRUE] \in Job
         /\ [j EXCEPT !.cancel = TRUE].status = j.status
         /\ [j EXCEPT !.status = "CANCELLED"] \in Job
         /\ [j EXCEPT !.status = "CANCELLED"].status = "CANCELLED"
<1>1. "CANCELLED" \in Active \cup Terminal \cup {"none"}  BY DEF Terminal
<1>2. [j EXCEPT !.cancel = TRUE] \in Job /\ [j EXCEPT !.cancel = TRUE].status = j.status
  BY DEF Job
<1>3. /\ [j EXCEPT !.status = "CANCELLED"] \in Job
      /\ [j EXCEPT !.status = "CANCELLED"].status = "CANCELLED"
  BY <1>1 DEF Job
<1> QED  BY <1>2, <1>3

LEMMA LeasedType ==
  ASSUME NEW j \in Job, NEW w \in Workers
  PROVE  Leased(j, w) \in Job
<1>1. j.attempt + 1 \in Nat
  BY DEF Job
<1>2. \A k \in Nat : [j EXCEPT !.status = "RUNNING", !.worker = w, !.attempt = k,
                             !.beat = "fresh"] \in Job
  BY DEF Job, Active, Claimable, Terminal
<1> QED
  BY <1>1, <1>2 DEF Leased

LEMMA BlankTypes == NoJob \in Job /\ NewJob \in Job /\ EmptyDatabase \in Database
<1>1. NoJob \in Job /\ NewJob \in Job
  BY DEF Job, NoJob, NewJob, Active, Claimable, Terminal
<1>2. EmptyDatabase \in Database
  BY <1>1 DEF EmptyDatabase, Database, Campaign, CampaignStatus
<1> QED
  BY <1>1, <1>2

LEMMA TopSubset ==
  ASSUME NEW d
  PROVE  Top(d) \subseteq d
BY DEF Top

LEMMA FinalizeType ==
  ASSUME NEW c \in Campaign, NEW d \in SUBSET Experiments, NEW t
  PROVE  FinalizeCampaign(c, d, t) \in Campaign
<1>1. Cardinality(Top(d) \ t) \in Nat
  BY TopSubset, CountExperiments
<1>2. c.used.tests + Cardinality(Top(d) \ t) \in Nat
  BY <1>1 DEF Campaign
<1> QED
  BY <1>2 DEF FinalizeCampaign, Campaign, CampaignStatus

LEMMA RefreshType ==
  ASSUME NEW c \in Campaign, NEW jobs, NEW d \in SUBSET Experiments, NEW t
  PROVE  RefreshCampaign(c, jobs, d, t) \in Campaign
<1>1. [c EXCEPT !.status = "running"] \in Campaign /\ [c EXCEPT !.status = "failed"] \in Campaign
  BY DEF Campaign, CampaignStatus, Resumable
<1> QED
  BY <1>1, FinalizeType DEF RefreshCampaign

LEMMA EvaluatesSubset ==
  ASSUME NEW jobs, NEW d \in SUBSET Experiments, NEW t
  PROVE  Evaluates(jobs, d, t) \subseteq d
BY TopSubset DEF Evaluates

LEMMA BumpType ==
  ASSUME NEW f \in [Experiments -> Nat], NEW s
  PROVE  Bump(f, s) \in [Experiments -> Nat]
BY DEF Bump

-----------------------------------------------------------------------------
(* Facts about counting, and the initial states *)

LEMMA CountGrows ==
  ASSUME NEW s \in SUBSET Experiments, NEW t \in SUBSET s
  PROVE  Cardinality(t) <= Cardinality(s)
<1>1. IsFiniteSet(s)
  BY CountExperiments
<1> QED
  BY <1>1, FS_Subset

LEMMA CountAdds ==
  ASSUME NEW s \in SUBSET Experiments, NEW e \in Experiments
  PROVE  Cardinality(s \cup {e}) = Cardinality(s \ {e}) + 1
<1>1. s \ {e} \in SUBSET Experiments /\ IsFiniteSet(s \ {e})
  BY CountExperiments
<1>2. s \cup {e} = (s \ {e}) \cup {e} /\ e \notin s \ {e}
  OBVIOUS
<1> QED
  BY <1>1, <1>2, FS_AddElement

LEMMA InitIInv == Init => IInv
<1> SUFFICES ASSUME Init
             PROVE  IInv
  OBVIOUS
<1>1. EmptyDatabase \in Database /\ NoJob \in Job
  BY BlankTypes
<1>2. EmptyDatabase.done = {} /\ EmptyDatabase.camp.used.experiments = 0
      /\ EmptyDatabase.camp.report = None /\ EmptyDatabase.camp.status = "created"
  BY DEF EmptyDatabase
<1>3. Cardinality({}) = 0
  BY FS_EmptySet
<1>4. TypeOK
  BY <1>1, ConstantsAssumption DEF Init, TypeOK, Actors
<1>5. Shape
  BY ConstantsAssumption DEF Init, Shape, Actors
<1>6. ViewsBehind
  BY <1>2, <1>3 DEF Init, ViewsBehind, Actors
<1>7. \A e \in Experiments : db.job[e].status = "none"
  BY DEF Init, EmptyDatabase, NoJob
<1>8. Safe
  BY <1>2, <1>3, <1>7 DEF Init, Safe, SucceededIsCompleted, BudgetNeverOvercounts,
     ConclusionsAreCompleted, CompletedHasReport
<1> QED
  BY <1>4, <1>5, <1>6, <1>8 DEF IInv

-----------------------------------------------------------------------------
(* What a worker's first transaction leaves in the database *)

LEMMA RecoveredType ==
  ASSUME db \in Database, NEW v \in Database
  PROVE  /\ Recovered(v) \in [Experiments -> Job]
         /\ RecoveredCampaign(v) \in Campaign
         /\ RecoveryTests(v) \subseteq v.done
<1>0. /\ v.job \in [Experiments -> Job] /\ v.camp \in Campaign /\ v.done \in SUBSET Experiments
      /\ db.job \in [Experiments -> Job] /\ db.camp \in Campaign
  BY DEF Database
<1>1. Recovered(v) \in [Experiments -> Job]
  <2>1. ASSUME NEW e \in Experiments
        PROVE  /\ NewJob \in Job /\ db.job[e] \in Job
               /\ FlushJob(v.job[e], RetryOrFail(v.job[e]), db.job[e]) \in Job
    BY <1>0, BlankTypes, FlushJobType, RetryOrFailType
  <2> QED
    BY <2>1 DEF Recovered
<1>2. RecoveredCampaign(v) \in Campaign
  <2> DEFINE c == RefreshCampaign(v.camp, Seen(v), v.done, v.tested)
  <2>1. c \in Campaign
    BY <1>0, RefreshType
  <2> HIDE DEF c
  <2>2. \A b \in BOOLEAN, x \in BOOLEAN :
          [status |-> IF b THEN c.status ELSE Write(v.camp.status, c.status, db.camp.status),
           used   |-> Write(v.camp.used, c.used, db.camp.used),
           report |-> IF x THEN c.report ELSE db.camp.report] \in Campaign
    BY <1>0, <2>1 DEF Campaign, Write
  <2> QED
    BY <1>0, <2>2 DEF RecoveredCampaign, c, Finalizes
<1>3. RecoveryTests(v) \subseteq v.done
  BY <1>0, EvaluatesSubset DEF RecoveryTests
<1> QED
  BY <1>1, <1>2, <1>3

\* No recovery, restoration or claim makes a job succeed.
LEMMA RecoveredNotSucceeded ==
  ASSUME NEW v, NEW e \in Experiments, Recovered(v)[e].status = "SUCCEEDED"
  PROVE  db.job[e].status = "SUCCEEDED"
<1>1. NewJob.status # "SUCCEEDED"
  BY DEF NewJob, NoJob
<1>2. RetryOrFail(v.job[e]).status # "SUCCEEDED" \/ RetryOrFail(v.job[e]).status = v.job[e].status
  BY DEF RetryOrFail
<1>3. FlushJob(v.job[e], RetryOrFail(v.job[e]), db.job[e]).status = "SUCCEEDED" =>
        db.job[e].status = "SUCCEEDED"
  BY <1>2 DEF FlushJob, Write
<1> QED
  BY <1>1, <1>3 DEF Recovered

\* A refresh counts no experiment, and shows a campaign as completed only with a report.
LEMMA RefreshFacts ==
  ASSUME NEW c \in Campaign, NEW jobs, NEW d \in SUBSET Experiments, NEW t
  PROVE  LET r == RefreshCampaign(c, jobs, d, t)
         IN  /\ r.used.experiments = c.used.experiments
             /\ r.report = d \/ r.report = c.report
             /\ Finalizes(jobs) => r.report = d
             /\ r.status = "completed" => Finalizes(jobs) \/ c.status = "completed"
<1>1. /\ [c EXCEPT !.status = "running"].used = c.used
      /\ [c EXCEPT !.status = "running"].report = c.report
      /\ [c EXCEPT !.status = "running"].status = "running"
      /\ [c EXCEPT !.status = "failed"].used = c.used
      /\ [c EXCEPT !.status = "failed"].report = c.report
      /\ [c EXCEPT !.status = "failed"].status = "failed"
  BY DEF Campaign
<1>2. /\ FinalizeCampaign(c, d, t).used.experiments = c.used.experiments
      /\ FinalizeCampaign(c, d, t).report = d
  BY DEF FinalizeCampaign, Campaign
<1>3. Finalizes(jobs) => /\ ~\E e \in Experiments : jobs[e].status \in Active
                         /\ ~\E e \in Experiments : jobs[e].status = "FAILED"
  BY DEF Finalizes
<1> QED
  BY <1>1, <1>2, <1>3 DEF RefreshCampaign

-----------------------------------------------------------------------------
(* Preservation, one lemma per kind of commit *)

\* Ending a transaction, or leaving the views alone, keeps every view behind the database.
LEMMA ViewsStayBehind ==
  ASSUME IInv, db' \in Database, db.done \subseteq db'.done,
         \A a \in Actors : view'[a] = view[a] \/ view'[a] = EmptyDatabase,
         \A w \in Workers : pc'[w] = "exec" =>
           pc[w] = "exec" /\ task'[w] = task[w] /\ view'[w] = view[w]
  PROVE  ViewsBehind'
<1>1. /\ db.done \in SUBSET Experiments /\ db'.done \in SUBSET Experiments
      /\ Workers \subseteq Actors
  BY DEF IInv, TypeOK, Database, Actors
<1>2. Cardinality(db.done) <= Cardinality(db'.done)
  BY <1>1, CountGrows
<1>3. /\ Cardinality(db.done) \in Nat /\ Cardinality(db'.done) \in Nat
      /\ EmptyDatabase.done = {} /\ EmptyDatabase.camp.used.experiments = 0
  BY <1>1, CountExperiments DEF EmptyDatabase
<1>4. ASSUME NEW a \in Actors
      PROVE  /\ view'[a].done \subseteq db'.done
             /\ view'[a].camp.used.experiments <= Cardinality(db'.done)
  <2>1. /\ view[a].done \subseteq db.done
        /\ view[a].camp.used.experiments <= Cardinality(db.done)
        /\ view[a].camp.used.experiments \in Nat
    BY DEF IInv, ViewsBehind, TypeOK, Database, Campaign
  <2> QED
    BY <1>2, <1>3, <2>1
<1>5. ASSUME NEW w \in Workers, pc'[w] = "exec", task'[w] \notin view'[w].done
      PROVE  view'[w].camp.used.experiments <= Cardinality(db'.done \ {task'[w]})
  <2> DEFINE e == task[w]
  <2>1. pc[w] = "exec" /\ task'[w] = e /\ view'[w] = view[w]
    BY <1>5
  <2>2. view[w].camp.used.experiments <= Cardinality(db.done \ {e})
    BY <1>5, <2>1 DEF IInv, ViewsBehind
  <2>3. /\ Cardinality(db.done \ {e}) <= Cardinality(db'.done \ {e})
        /\ Cardinality(db.done \ {e}) \in Nat /\ Cardinality(db'.done \ {e}) \in Nat
    <3>1. /\ db'.done \ {e} \in SUBSET Experiments
          /\ db.done \ {e} \in SUBSET (db'.done \ {e})
          /\ db.done \ {e} \in SUBSET Experiments
      BY <1>1
    <3> QED
      BY <3>1, CountGrows, CountExperiments
  <2>4. view[w].camp.used.experiments \in Nat
    BY <1>1 DEF IInv, TypeOK, Database, Campaign
  <2> QED
    BY <2>1, <2>2, <2>3, <2>4
<1> QED
  BY <1>4, <1>5 DEF ViewsBehind

\* A commit that completes, tests and counts nothing, and marks nothing as succeeded or
\* completed, keeps the safety properties.
LEMMA SafeStays ==
  ASSUME Safe, db'.done = db.done, testRuns' = testRuns,
         db'.camp.used = db.camp.used, db'.camp.report = db.camp.report,
         db'.camp.status = "completed" => db.camp.status = "completed",
         \A e \in Experiments : db'.job[e].status = "SUCCEEDED" => db.job[e].status = "SUCCEEDED"
  PROVE  Safe'
BY DEF Safe, SucceededIsCompleted, BudgetNeverOvercounts, ConclusionsAreCompleted,
   CompletedHasReport

\* The poll's commit, from reads v of any age.
LEMMA PollCommitSafe ==
  ASSUME IInv, NEW w \in Workers, NEW v \in Database, PollCommit(w, v),
         v.done \subseteq db.done,
         v.camp.used.experiments <= Cardinality(db.done)
  PROVE  /\ db' \in Database /\ db'.done = db.done
         /\ testRuns' \in [Experiments -> Nat]
         /\ Safe'
<1>0. /\ db \in Database /\ db.camp \in Campaign /\ v.camp \in Campaign
      /\ db.job \in [Experiments -> Job]
      /\ db.done \in SUBSET Experiments /\ v.done \in SUBSET Experiments
      /\ testRuns \in [Experiments -> Nat]
  BY DEF IInv, TypeOK, Database
<1> DEFINE run == RecoveryTests(v)
           c == RefreshCampaign(v.camp, Seen(v), v.done, v.tested)
<1>1. /\ Recovered(v) \in [Experiments -> Job] /\ RecoveredCampaign(v) \in Campaign
      /\ run \subseteq v.done
  BY <1>0, RecoveredType
<1>2. PICK jobs \in [Experiments -> Job] :
        /\ db' = [db EXCEPT !.camp = RecoveredCampaign(v), !.job = jobs,
                            !.tested = @ \cup run]
        /\ \A e \in Experiments :
             jobs[e].status = "SUCCEEDED" => Recovered(v)[e].status = "SUCCEEDED"
  <2>1. CASE Eligible(v) = {}
    BY <1>1, <2>1 DEF PollCommit
  <2>2. CASE Eligible(v) # {}
    <3>1. PICK e \in Eligible(v) :
            db' = [db EXCEPT !.camp = RecoveredCampaign(v),
                             !.job = [Recovered(v) EXCEPT ![e] = Leased(@, w)],
                             !.tested = @ \cup run]
      BY <2>2 DEF PollCommit
    <3>2. e \in Experiments /\ Leased(Recovered(v)[e], w) \in Job
      BY <1>1, LeasedType DEF Eligible
    <3>3. [Recovered(v) EXCEPT ![e] = Leased(@, w)] \in [Experiments -> Job]
      BY <1>1, <3>2
    <3>4. Leased(Recovered(v)[e], w).status # "SUCCEEDED"
      BY <1>1, <3>2 DEF Leased, Job
    <3> QED
      BY <1>1, <3>1, <3>2, <3>3, <3>4
  <2> QED
    BY <2>1, <2>2
<1>3. /\ db' \in Database /\ db'.done = db.done /\ db'.job = jobs
      /\ db'.camp = RecoveredCampaign(v)
  BY <1>0, <1>1, <1>2 DEF Database
<1>4. testRuns' = Bump(testRuns, run)
  BY DEF PollCommit
<1>5. SucceededIsCompleted'
  BY <1>2, <1>3, RecoveredNotSucceeded DEF IInv, Safe, SucceededIsCompleted
<1>6. /\ c.used.experiments = v.camp.used.experiments
      /\ c.report = v.done \/ c.report = v.camp.report
      /\ Finalizes(Seen(v)) => c.report = v.done
      /\ c.status = "completed" => Finalizes(Seen(v)) \/ v.camp.status = "completed"
  BY <1>0, RefreshFacts
<1> HIDE DEF c
<1>7. BudgetNeverOvercounts'
  <2>1. RecoveredCampaign(v).used = c.used \/ RecoveredCampaign(v).used = db.camp.used
    BY DEF RecoveredCampaign, Write, c
  <2> QED
    BY <1>3, <1>6, <2>1 DEF IInv, Safe, BudgetNeverOvercounts
<1>8. ConclusionsAreCompleted'
  <2>1. \A e \in Experiments : testRuns'[e] > 0 => e \in db.done
    BY <1>0, <1>1, <1>4 DEF Bump, IInv, Safe, ConclusionsAreCompleted
  <2>2. RecoveredCampaign(v).report = v.done \/ RecoveredCampaign(v).report = db.camp.report
    BY <1>6 DEF RecoveredCampaign, c
  <2> QED
    BY <1>3, <2>1, <2>2 DEF IInv, Safe, ConclusionsAreCompleted
<1>9. CompletedHasReport'
  <2>1. v.done # None
    BY <1>0, ConstantsAssumption
  <2>2. ASSUME RecoveredCampaign(v).status = "completed"
        PROVE  RecoveredCampaign(v).report # None
    <3>1. CASE ~Resumes(v)
      BY <2>2, <3>1 DEF RecoveredCampaign, IInv, Safe, CompletedHasReport
    <3>2. CASE Resumes(v) /\ Finalizes(Seen(v))
      BY <1>6, <2>1, <3>2 DEF RecoveredCampaign, c
    <3>3. CASE Resumes(v) /\ ~Finalizes(Seen(v))
      <4>1. c.status # "completed"
        BY <1>6, <3>3 DEF Resumes, Resumable
      <4>2. db.camp.status = "completed"
        BY <2>2, <3>3, <4>1 DEF RecoveredCampaign, Write, c
      <4> QED
        BY <3>3, <4>2 DEF RecoveredCampaign, IInv, Safe, CompletedHasReport
    <3> QED
      BY <3>1, <3>2, <3>3
  <2> QED
    BY <1>3, <2>2 DEF CompletedHasReport
<1>10. testRuns' \in [Experiments -> Nat]
  BY <1>0, <1>4, BumpType
<1> QED
  BY <1>3, <1>5, <1>7, <1>8, <1>9, <1>10 DEF Safe

\* The end of an execution, for what the handler leaves.
LEMMA ExecCommitSafe ==
  ASSUME IInv, NEW w \in Workers, task[w] \in Experiments,
         NEW row \in Job, NEW d \in SUBSET Experiments, NEW t \in SUBSET Experiments,
         NEW used \in [experiments : Nat, tests : Nat],
         ExecCommit(w, row, d, t, used),
         db.done \subseteq d,
         used.experiments <= Cardinality(d),
         row.status = "SUCCEEDED" => task[w] \in d \/ db.job[task[w]].status = "SUCCEEDED"
  PROVE  /\ db' \in Database /\ db'.done = d
         /\ testRuns' \in [Experiments -> Nat]
         /\ Safe'
<1> DEFINE e    == task[w]
           jobs == [db.job EXCEPT ![e] = row]
           run  == Evaluates(jobs, d, t)
           c0   == [db.camp EXCEPT !.used = used]
           c    == RefreshCampaign(c0, jobs, d, t)
<1>0. /\ db \in Database /\ db.camp \in Campaign /\ db.job \in [Experiments -> Job]
      /\ testRuns \in [Experiments -> Nat]
  BY DEF IInv, TypeOK, Database
<1>1. /\ jobs \in [Experiments -> Job]
      /\ \A x \in Experiments : jobs[x] = IF x = e THEN row ELSE db.job[x]
  BY <1>0
<1>2. /\ c0 \in Campaign /\ c0.used = used
      /\ c0.report = db.camp.report /\ c0.status = db.camp.status
  BY <1>0 DEF Campaign
<1>3. run \subseteq d
  BY EvaluatesSubset
<1>4. /\ db' = [camp |-> c, job |-> jobs, done |-> d, tested |-> t \cup run]
      /\ testRuns' = Bump(testRuns, run)
  BY DEF ExecCommit
<1> HIDE DEF jobs, run, c0
<1>5. c \in Campaign
  BY <1>2, RefreshType
<1>6. /\ c.used.experiments = used.experiments
      /\ c.report = d \/ c.report = db.camp.report
      /\ Finalizes(jobs) => c.report = d
      /\ c.status = "completed" => Finalizes(jobs) \/ db.camp.status = "completed"
  BY <1>2, RefreshFacts
<1> HIDE DEF c
<1>7. db' \in Database /\ db'.done = d /\ db'.job = jobs /\ db'.camp = c
  BY <1>1, <1>3, <1>4, <1>5 DEF Database
<1>8. SucceededIsCompleted'
  BY <1>1, <1>7 DEF IInv, Safe, SucceededIsCompleted
<1>9. BudgetNeverOvercounts'
  BY <1>6, <1>7 DEF BudgetNeverOvercounts
<1>10. ConclusionsAreCompleted'
  <2>1. \A x \in Experiments : testRuns'[x] > 0 => x \in d
    BY <1>0, <1>3, <1>4 DEF Bump, IInv, Safe, ConclusionsAreCompleted
  <2> QED
    BY <1>6, <1>7, <2>1 DEF IInv, Safe, ConclusionsAreCompleted
<1>11. CompletedHasReport'
  <2>1. d # None
    BY ConstantsAssumption
  <2> QED
    BY <1>6, <1>7, <2>1 DEF IInv, Safe, CompletedHasReport
<1>12. testRuns' \in [Experiments -> Nat]
  BY <1>0, <1>4, BumpType
<1> QED
  BY <1>7, <1>8, <1>9, <1>10, <1>11, <1>12 DEF Safe

\* The commit of an API request, from reads v of any age.
LEMMA RespondSafe ==
  ASSUME IInv, NEW r \in Call, NEW v \in Database, Respond(r, v),
         v.done \subseteq db.done,
         v.camp.used.experiments <= Cardinality(db.done)
  PROVE  /\ db' \in Database /\ db'.done = db.done
         /\ testRuns' \in [Experiments -> Nat]
         /\ Safe'
<1>0. /\ db \in Database /\ db.camp \in Campaign /\ db.job \in [Experiments -> Job]
      /\ v.camp \in Campaign /\ v.done \in SUBSET Experiments
      /\ db.done \in SUBSET Experiments
      /\ testRuns \in [Experiments -> Nat] /\ Safe
  BY DEF IInv, TypeOK, Database
<1>1. CASE r.op = "run"
  <2>1. RunCampaign(v, r.batch)
    BY <1>1 DEF Respond
  <2>2. CASE db' = db
    BY <1>0, <2>1, <2>2, SafeStays DEF RunCampaign
  <2>3. CASE db' # db
    <3> DEFINE created == {e \in Pending(v, r.batch) : db.job[e].status = "none"}
               jobs == [e \in Experiments |-> IF e \in created THEN NewJob ELSE db.job[e]]
               status == Write(v.camp.status, "queued", db.camp.status)
    <3>1. db' = [db EXCEPT !.camp.status = status, !.job = jobs] /\ testRuns' = testRuns
      BY <2>1, <2>3 DEF RunCampaign
    <3>2. jobs \in [Experiments -> Job] /\ NewJob.status = "QUEUED"
      BY <1>0, BlankTypes DEF NewJob, NoJob
    <3>3. status \in CampaignStatus /\ (status = "completed" => db.camp.status = "completed")
      BY <1>0 DEF Write, CampaignStatus, Resumable, Campaign
    <3>4. \A e \in Experiments : jobs[e].status = "SUCCEEDED" => db.job[e].status = "SUCCEEDED"
      BY <3>2
    <3> HIDE DEF status, jobs
    <3>5. /\ db' \in Database /\ db'.done = db.done /\ db'.job = jobs
          /\ db'.camp.status = status /\ db'.camp.used = db.camp.used
          /\ db'.camp.report = db.camp.report
      BY <1>0, <3>1, <3>2, <3>3 DEF Database, Campaign
    <3> QED
      BY <1>0, <3>1, <3>3, <3>4, <3>5, SafeStays
  <2> QED
    BY <2>2, <2>3
<1>2. CASE r.op = "cancel"
  <2> DEFINE jobs == [e \in Experiments |->
                        IF v.job[e].status \in Claimable
                        THEN [db.job[e] EXCEPT !.status = "CANCELLED"] ELSE db.job[e]]
             status == Write(v.camp.status, "cancelled", db.camp.status)
  <2>1. db' = [db EXCEPT !.camp.status = status, !.job = jobs] /\ testRuns' = testRuns
    BY <1>2 DEF Respond, CancelCampaign
  <2>2. /\ jobs \in [Experiments -> Job]
        /\ \A e \in Experiments : jobs[e].status = "SUCCEEDED" => db.job[e].status = "SUCCEEDED"
    <3>1. ASSUME NEW e \in Experiments
          PROVE  /\ [db.job[e] EXCEPT !.status = "CANCELLED"] \in Job
                 /\ [db.job[e] EXCEPT !.status = "CANCELLED"].status = "CANCELLED"
      BY <1>0, MarkedJob
    <3> QED
      BY <1>0, <3>1
  <2>3. status \in CampaignStatus /\ (status = "completed" => db.camp.status = "completed")
    BY <1>0 DEF Write, CampaignStatus, Campaign
  <2> HIDE DEF status, jobs
  <2>4. /\ db' \in Database /\ db'.done = db.done /\ db'.job = jobs
        /\ db'.camp.status = status /\ db'.camp.used = db.camp.used
        /\ db'.camp.report = db.camp.report
    BY <1>0, <2>1, <2>2, <2>3 DEF Database, Campaign
  <2> QED
    BY <1>0, <2>1, <2>2, <2>3, <2>4, SafeStays
<1>3. CASE r.op = "cancel_job"
  <2>1. r.exp \in Experiments
    BY <1>3 DEF Call
  <2>2. CancelJob(v, r.exp)
    BY <1>3 DEF Respond
  <2>3. \/ db' = db
        \/ db' = [db EXCEPT !.job[r.exp].cancel = TRUE]
        \/ db' = [db EXCEPT !.job[r.exp].status = "CANCELLED"]
    BY <2>2 DEF CancelJob, Claimable
  <2> DEFINE j1 == [db.job[r.exp] EXCEPT !.cancel = TRUE]
             j2 == [db.job[r.exp] EXCEPT !.status = "CANCELLED"]
  <2>4. PICK j \in Job : /\ db' = [db EXCEPT !.job = [@ EXCEPT ![r.exp] = j]]
                         /\ j.status = "SUCCEEDED" => db.job[r.exp].status = "SUCCEEDED"
    <3>1. /\ j1 \in Job /\ j1.status = db.job[r.exp].status
          /\ j2 \in Job /\ j2.status = "CANCELLED"
          /\ db.job[r.exp] \in Job
      <4>1. db.job[r.exp] \in Job  BY <1>0, <2>1
      <4>2. /\ j1 \in Job /\ j1.status = db.job[r.exp].status
            /\ j2 \in Job /\ j2.status = "CANCELLED"
        BY <4>1, MarkedJob
      <4> QED  BY <4>1, <4>2
    <3>2. CASE db' = db
      <4>1. db = [db EXCEPT !.job = [@ EXCEPT ![r.exp] = db.job[r.exp]]]
        BY <1>0, <2>1 DEF Database
      <4> QED
        BY <3>1, <3>2, <4>1
    <3>3. CASE db' = [db EXCEPT !.job[r.exp].cancel = TRUE]
      BY <3>1, <3>3
    <3>4. CASE db' = [db EXCEPT !.job[r.exp].status = "CANCELLED"]
      BY <3>1, <3>4
    <3> QED
      BY <2>3, <3>2, <3>3, <3>4
  <2>5. db' \in Database /\ db'.done = db.done /\ db'.camp = db.camp
    BY <1>0, <2>1, <2>4 DEF Database
  <2>6. \A e \in Experiments : db'.job[e].status = "SUCCEEDED" => db.job[e].status = "SUCCEEDED"
    BY <1>0, <2>1, <2>4 DEF Database
  <2>7. testRuns' = testRuns
    BY <2>2 DEF CancelJob
  <2>8. Safe'
    BY <1>0, <2>5, <2>6, <2>7, SafeStays
  <2> QED
    BY <1>0, <2>5, <2>7, <2>8
<1>4. CASE r.op = "report"
  <2>1. GetReport(v)
    BY <1>4 DEF Respond
  <2>2. CASE v.camp.report # None
    BY <1>0, <2>1, <2>2, SafeStays DEF GetReport
  <2>3. CASE v.camp.report = None
    <3> DEFINE c    == FinalizeCampaign(v.camp, v.done, v.tested)
               run  == Top(v.done) \ v.tested
               camp == [status |-> Write(v.camp.status, c.status, db.camp.status),
                        used   |-> Write(v.camp.used, c.used, db.camp.used),
                        report |-> c.report]
    <3>1. /\ db' = [db EXCEPT !.camp = camp, !.tested = @ \cup run]
          /\ testRuns' = Bump(testRuns, run)
      BY <2>1, <2>3 DEF GetReport
    <3>2. c \in Campaign /\ run \subseteq v.done
      BY <1>0, FinalizeType, TopSubset
    <3>3. c.used.experiments = v.camp.used.experiments /\ c.report = v.done
      BY <1>0 DEF FinalizeCampaign, Campaign
    <3> HIDE DEF c
    <3>4. /\ camp \in Campaign /\ camp.report = v.done
          /\ camp.used = c.used \/ camp.used = db.camp.used
      BY <1>0, <3>2, <3>3 DEF Campaign, Write
    <3> HIDE DEF camp, run
    <3>5. db' \in Database /\ db'.done = db.done /\ db'.job = db.job /\ db'.camp = camp
      BY <1>0, <3>1, <3>2, <3>4 DEF Database
    <3>6. \A e \in Experiments : testRuns'[e] > 0 => e \in db.done
      BY <1>0, <3>1, <3>2 DEF Bump, Safe, ConclusionsAreCompleted
    <3>7. testRuns' \in [Experiments -> Nat] /\ v.done # None
      BY <1>0, <3>1, BumpType, ConstantsAssumption
    <3> QED
      BY <1>0, <3>3, <3>4, <3>5, <3>6, <3>7 DEF Safe, SucceededIsCompleted,
         BudgetNeverOvercounts, ConclusionsAreCompleted, CompletedHasReport
  <2> QED
    BY <2>2, <2>3
<1> QED
  BY <1>1, <1>2, <1>3, <1>4 DEF Call

-----------------------------------------------------------------------------
(* Every step keeps the inductive invariant *)

LEMMA ActorTypes ==
  ASSUME TypeOK
  PROVE  /\ Workers \subseteq Actors /\ Clients \subseteq Actors /\ Actors = Workers \cup Clients
         /\ Workers \cap Clients = {}
         /\ pc \in [Actors -> {"idle", "poll", "claimed", "exec", "down", "busy"}]
         /\ view \in [Actors -> Database] /\ db \in Database
         /\ task \in [Workers -> Experiments \cup {None}]
         /\ call \in [Clients -> Call \cup {None}]
         /\ None \notin Experiments
         /\ EmptyDatabase \in Database
BY ConstantsAssumption, BlankTypes DEF TypeOK, Actors

LEMMA PollCommitKeeps ==
  ASSUME IInv, NEW w \in Workers, NEW v \in Database, PollCommit(w, v),
         pc[w] \in {"idle", "poll"},
         v.done \subseteq db.done,
         v.camp.used.experiments <= Cardinality(db.done)
  PROVE  IInv'
<1>1. db' \in Database /\ db'.done = db.done /\ testRuns' \in [Experiments -> Nat] /\ Safe'
  BY PollCommitSafe
<1>2. /\ view' = [view EXCEPT ![w] = EmptyDatabase]
      /\ UNCHANGED <<decisions, call, requests, crashes>>
      /\ \/ /\ pc' = [pc EXCEPT ![w] = "idle"] /\ task' = task
         \/ /\ pc' = [pc EXCEPT ![w] = "claimed"]
            /\ \E e \in Experiments : task' = [task EXCEPT ![w] = e]
  BY DEF PollCommit, Eligible
<1>3. TypeOK'
  BY <1>1, <1>2, ActorTypes DEF IInv, TypeOK, Actors
<1>4. Shape'
  BY <1>2, ActorTypes DEF IInv, Shape
<1>5. ViewsBehind'
  <2>1. \A a \in Actors : view'[a] = view[a] \/ view'[a] = EmptyDatabase
    BY <1>2, ActorTypes DEF IInv
  <2>2. \A x \in Workers : pc'[x] = "exec" =>
          pc[x] = "exec" /\ task'[x] = task[x] /\ view'[x] = view[x]
    BY <1>2, ActorTypes DEF IInv
  <2> QED
    BY <1>1, <2>1, <2>2, ViewsStayBehind
<1> QED
  BY <1>1, <1>3, <1>4, <1>5 DEF IInv

LEMMA PollKeeps ==
  ASSUME IInv, NEW w \in Workers, Poll(w) \/ PollWrite(w)
  PROVE  IInv'
<1>1. /\ db \in Database /\ view[w] \in Database
      /\ view[w].done \subseteq db.done
      /\ view[w].camp.used.experiments <= Cardinality(db.done)
      /\ db.camp.used.experiments <= Cardinality(db.done)
  BY ActorTypes DEF IInv, ViewsBehind, Safe, BudgetNeverOvercounts
<1>2. CASE Poll(w)
  BY <1>1, <1>2, PollCommitKeeps DEF Poll
<1>3. CASE PollWrite(w)
  BY <1>1, <1>3, PollCommitKeeps DEF PollWrite
<1> QED
  BY <1>2, <1>3

\* Steps that leave the rows and the counts of test runs alone keep the safety properties.
LEMMA UnchangedRowsSafe ==
  ASSUME Safe, db' = db, testRuns' = testRuns
  PROVE  Safe'
BY SafeStays

\* a read of the committed rows
LEMMA PollReadKeeps ==
  ASSUME IInv, NEW w \in Workers, PollRead(w)
  PROVE  IInv'
<1>1. /\ pc[w] = "idle"
      /\ pc' = [pc EXCEPT ![w] = "poll"]
      /\ view' = [view EXCEPT ![w] = db]
      /\ UNCHANGED <<db, decisions, testRuns, task, call, requests, crashes>>
  BY DEF PollRead
<1>2. TypeOK'
  BY <1>1, ActorTypes DEF IInv, TypeOK, Actors
<1>3. Shape'
  BY <1>1, ActorTypes DEF IInv, Shape
<1>4. ViewsBehind'
  BY <1>1, ActorTypes DEF IInv, ViewsBehind, Safe, BudgetNeverOvercounts
<1> QED
  BY <1>1, <1>2, <1>3, <1>4, UnchangedRowsSafe DEF IInv

LEMMA ExecStartKeeps ==
  ASSUME IInv, NEW w \in Workers, ExecStart(w)
  PROVE  IInv'
<1> DEFINE e == task[w]
<1>1. /\ pc[w] = "claimed"
      /\ pc' = [pc EXCEPT ![w] = "exec"]
      /\ view' = [view EXCEPT ![w] = ExecView(e)]
      /\ UNCHANGED <<db, decisions, testRuns, task, call, requests, crashes>>
  BY DEF ExecStart
<1>2. e \in Experiments /\ db \in Database /\ NoJob \in Job
  BY <1>1, ActorTypes, BlankTypes DEF IInv, Shape
<1>3. /\ ExecView(e) \in Database /\ ExecView(e).camp = db.camp
      /\ ExecView(e).done = db.done \cap {e}
  BY <1>2 DEF ExecView, Database
<1>4. TypeOK'
  BY <1>1, <1>3, ActorTypes DEF IInv, TypeOK, Actors
<1>5. Shape'
  BY <1>1, ActorTypes DEF IInv, Shape
<1>6. ViewsBehind'
  <2>1. /\ ExecView(e).done \subseteq db.done
        /\ ExecView(e).camp.used.experiments <= Cardinality(db.done)
    BY <1>3 DEF IInv, Safe, BudgetNeverOvercounts
  <2>2. ASSUME e \notin ExecView(e).done
        PROVE  ExecView(e).camp.used.experiments <= Cardinality(db.done \ {e})
    <3>1. db.done \ {e} = db.done
      BY <1>3, <2>2
    <3> QED
      BY <2>1, <3>1
  <2> HIDE DEF e
  <2>3. \A a \in Actors : view'[a] = IF a = w THEN ExecView(e) ELSE view[a]
    BY <1>1, ActorTypes DEF IInv
  <2>4. \A x \in Workers : task'[x] = task[x] /\ (x # w => pc'[x] = pc[x])
    BY <1>1, ActorTypes DEF IInv
  <2>5. task[w] = e /\ db' = db
    BY <1>1 DEF e
  <2> QED
    BY <2>1, <2>2, <2>3, <2>4, <2>5, ActorTypes DEF IInv, ViewsBehind
<1> QED
  BY <1>1, <1>4, <1>5, <1>6, UnchangedRowsSafe DEF IInv

\* the worker is down, its transaction rolled back; or comes up again
LEMMA DownKeeps ==
  ASSUME IInv, NEW w \in Workers, LeaseLost(w) \/ Crash(w) \/ Restart(w)
  PROVE  IInv'
<1>1. /\ \/ pc' = [pc EXCEPT ![w] = "down"] /\ task' = [task EXCEPT ![w] = None]
         \/ pc' = [pc EXCEPT ![w] = "idle"] /\ task' = task /\ pc[w] = "down"
      /\ view' = view \/ view' = [view EXCEPT ![w] = EmptyDatabase]
      /\ UNCHANGED <<db, decisions, testRuns, call, requests>>
  BY DEF LeaseLost, Crash, Restart
<1>2. crashes' \in 0..MaxCrashes
  BY ConstantsAssumption DEF LeaseLost, Crash, Restart, IInv, TypeOK
<1>3. TypeOK'
  BY <1>1, <1>2, ActorTypes DEF IInv, TypeOK, Actors
<1>4. Shape'
  BY <1>1, ActorTypes DEF IInv, Shape
<1>5. ViewsBehind'
  <2>1. \A a \in Actors : view'[a] = view[a] \/ view'[a] = EmptyDatabase
    BY <1>1, ActorTypes DEF IInv
  <2>2. \A x \in Workers : pc'[x] = "exec" =>
          pc[x] = "exec" /\ task'[x] = task[x] /\ view'[x] = view[x]
    BY <1>1, ActorTypes DEF IInv
  <2> QED
    BY <1>1, <2>1, <2>2, ViewsStayBehind, ActorTypes DEF IInv
<1> QED
  BY <1>1, <1>3, <1>4, <1>5, UnchangedRowsSafe DEF IInv

\* The end of an execution, for any job row, completed and tested sets and budget that the
\* handler can leave.
LEMMA ExecCommitKeeps ==
  ASSUME IInv, NEW w \in Workers, pc[w] = "exec",
         NEW row \in Job, NEW d \in SUBSET Experiments, NEW t \in SUBSET Experiments,
         NEW used \in [experiments : Nat, tests : Nat],
         ExecCommit(w, row, d, t, used),
         decisions' \in [Experiments -> Nat],
         db.done \subseteq d,
         used.experiments <= Cardinality(d),
         row.status = "SUCCEEDED" => task[w] \in d \/ db.job[task[w]].status = "SUCCEEDED"
  PROVE  IInv'
<1>1. task[w] \in Experiments
  BY DEF IInv, Shape
<1>2. db' \in Database /\ db'.done = d /\ testRuns' \in [Experiments -> Nat] /\ Safe'
  BY <1>1, ExecCommitSafe
<1>3. /\ pc' = [pc EXCEPT ![w] = "idle"]
      /\ view' = [view EXCEPT ![w] = EmptyDatabase]
      /\ task' = [task EXCEPT ![w] = None]
      /\ UNCHANGED <<call, requests, crashes>>
  BY DEF ExecCommit
<1>4. TypeOK'
  BY <1>2, <1>3, ActorTypes DEF IInv, TypeOK, Actors
<1>5. Shape'
  BY <1>3, ActorTypes DEF IInv, Shape
<1>6. ViewsBehind'
  <2>1. \A a \in Actors : view'[a] = view[a] \/ view'[a] = EmptyDatabase
    BY <1>3, ActorTypes DEF IInv
  <2>2. \A x \in Workers : pc'[x] = "exec" =>
          pc[x] = "exec" /\ task'[x] = task[x] /\ view'[x] = view[x]
    BY <1>3, ActorTypes DEF IInv
  <2> QED
    BY <1>2, <2>1, <2>2, ViewsStayBehind
<1> QED
  BY <1>2, <1>4, <1>5, <1>6 DEF IInv

\* what an executing worker can rely on
LEMMA ExecFacts ==
  ASSUME IInv, NEW w \in Workers, pc[w] = "exec"
  PROVE  /\ task[w] \in Experiments
         /\ db.job[task[w]] \in Job /\ view[w].job[task[w]] \in Job
         /\ db.done \in SUBSET Experiments /\ db.tested \in SUBSET Experiments
         /\ db.camp.used \in [experiments : Nat, tests : Nat]
         /\ view[w].camp.used \in [experiments : Nat, tests : Nat]
         /\ db.camp.used.experiments <= Cardinality(db.done)
         /\ view[w].done \subseteq db.done
         /\ decisions \in [Experiments -> Nat]
BY ActorTypes DEF IInv, TypeOK, Shape, ViewsBehind, Safe, BudgetNeverOvercounts, Database,
   Campaign

\* A worker that failed relabels the row only as its own error or retry.
LEMMA ErrorRowFacts ==
  ASSUME IInv, NEW w \in Workers, pc[w] = "exec", NEW new \in Job,
         new.status # "SUCCEEDED" \/ new.status = view[w].job[task[w]].status
  PROVE  /\ ErrorRow(w, new) \in Job
         /\ ErrorRow(w, new).status = "SUCCEEDED" => db.job[task[w]].status = "SUCCEEDED"
<1>1. db.job[task[w]] \in Job /\ view[w].job[task[w]] \in Job
  BY ExecFacts
<1>2. ErrorRow(w, new) \in Job
  BY <1>1, FlushJobType DEF ErrorRow
<1>3. ErrorRow(w, new).status = "SUCCEEDED" => db.job[task[w]].status = "SUCCEEDED"
  BY <1>1 DEF ErrorRow, FlushJob, Write
<1> QED
  BY <1>2, <1>3

LEMMA CancelBeforeKeeps ==
  ASSUME IInv, NEW w \in Workers, CancelBefore(w)
  PROVE  IInv'
<1> DEFINE new == [view[w].job[task[w]] EXCEPT !.status = "CANCELLED"]
<1>1. pc[w] = "exec"
  BY DEF CancelBefore
<1>2. new \in Job /\ new.status = "CANCELLED"
  BY <1>1, ExecFacts DEF Job, Terminal
<1>3. /\ ExecCommit(w, ErrorRow(w, new), db.done, db.tested, db.camp.used)
      /\ decisions' = decisions
  BY DEF CancelBefore
<1> HIDE DEF new
<1>4. /\ ErrorRow(w, new) \in Job
      /\ ErrorRow(w, new).status = "SUCCEEDED" => db.job[task[w]].status = "SUCCEEDED"
  BY <1>1, <1>2, ErrorRowFacts
<1> QED
  BY <1>1, <1>3, <1>4, ExecFacts, ExecCommitKeeps

LEMMA InterruptKeeps ==
  ASSUME IInv, NEW w \in Workers, Interrupt(w)
  PROVE  IInv'
<1> DEFINE new == RetryOrFail(view[w].job[task[w]])
<1>1. pc[w] = "exec"
  BY DEF Interrupt, Handling
<1>2. new \in Job
  BY <1>1, ExecFacts, RetryOrFailType
<1>3. new.status # "SUCCEEDED"
  BY <1>1, ExecFacts DEF RetryOrFail, Job
<1>4. /\ ExecCommit(w, ErrorRow(w, new), db.done, db.tested, db.camp.used)
      /\ decisions' = decisions
  BY DEF Interrupt
<1> HIDE DEF new
<1>5. /\ ErrorRow(w, new) \in Job
      /\ ErrorRow(w, new).status = "SUCCEEDED" => db.job[task[w]].status = "SUCCEEDED"
  BY <1>1, <1>2, <1>3, ErrorRowFacts
<1> QED
  BY <1>1, <1>4, <1>5, ExecFacts, ExecCommitKeeps

LEMMA FailKeeps ==
  ASSUME IInv, NEW w \in Workers, Fail(w)
  PROVE  IInv'
<1> DEFINE e   == task[w]
           new == [view[w].job[e] EXCEPT !.status = "FAILED"]
<1>1. pc[w] = "exec"
  BY DEF Fail, Handling
<1>2. new \in Job /\ new.status = "FAILED"
  BY <1>1, ExecFacts DEF Job, Terminal
<1>3. /\ \/ ExecCommit(w, ErrorRow(w, new), db.done, db.tested, db.camp.used)
         \/ ExecCommit(w, ErrorRow(w, new), db.done \cup {e}, db.tested \ {e}, db.camp.used)
      /\ decisions' = decisions
  <2>1. PICK late \in {FALSE, RequireStress} :
          ExecCommit(w, ErrorRow(w, new),
                     IF late THEN db.done \cup {e} ELSE db.done,
                     IF late THEN db.tested \ {e} ELSE db.tested,
                     db.camp.used)
    BY DEF Fail
  <2>2. CASE late
    BY <2>1, <2>2 DEF Fail
  <2>3. CASE ~late
    BY <2>1, <2>3 DEF Fail
  <2> QED
    BY <2>2, <2>3
<1> HIDE DEF new
<1>4. /\ ErrorRow(w, new) \in Job
      /\ ErrorRow(w, new).status = "SUCCEEDED" => db.job[e].status = "SUCCEEDED"
  BY <1>1, <1>2, ErrorRowFacts
<1>5. /\ e \in Experiments /\ db.done \cup {e} \in SUBSET Experiments
      /\ db.tested \ {e} \in SUBSET Experiments
      /\ db.camp.used.experiments <= Cardinality(db.done \cup {e})
  <2>1. e \in Experiments /\ db.done \cup {e} \in SUBSET Experiments
        /\ db.tested \ {e} \in SUBSET Experiments /\ db.camp.used.experiments \in Nat
        /\ db.camp.used.experiments <= Cardinality(db.done)
    BY <1>1, ExecFacts
  <2>2. Cardinality(db.done) <= Cardinality(db.done \cup {e})
    BY <2>1, CountGrows
  <2>3. Cardinality(db.done) \in Nat /\ Cardinality(db.done \cup {e}) \in Nat
    BY <2>1, CountExperiments
  <2> QED
    BY <2>1, <2>2, <2>3
<1>6. CASE ExecCommit(w, ErrorRow(w, new), db.done, db.tested, db.camp.used)
  BY <1>1, <1>3, <1>4, <1>6, ExecFacts, ExecCommitKeeps
<1>7. CASE ExecCommit(w, ErrorRow(w, new), db.done \cup {e}, db.tested \ {e}, db.camp.used)
  BY <1>1, <1>3, <1>4, <1>5, <1>7, ExecFacts, ExecCommitKeeps
<1> QED
  BY <1>3, <1>6, <1>7

LEMMA SucceedKeeps ==
  ASSUME IInv, NEW w \in Workers, Succeed(w)
  PROVE  IInv'
<1> DEFINE e    == task[w]
           row  == [db.job[e] EXCEPT !.status = IF db.job[e].cancel THEN "CANCELLED"
                                                ELSE "SUCCEEDED"]
           used == [view[w].camp.used EXCEPT !.experiments = @ + 1]
<1>1. pc[w] = "exec"
  BY DEF Succeed, Handling
<1>2. row \in Job
  BY <1>1, ExecFacts DEF Job, Terminal
<1>3. CASE e \in view[w].done
  <2>1. /\ ExecCommit(w, row, db.done, db.tested, db.camp.used)
        /\ decisions' = decisions
    BY <1>3 DEF Succeed
  <2>2. e \in db.done
    BY <1>1, <1>3, ExecFacts
  <2> HIDE DEF row
  <2> QED
    BY <1>1, <1>2, <2>1, <2>2, ExecFacts, ExecCommitKeeps
<1>4. CASE e \notin view[w].done
  <2>1. /\ ExecCommit(w, row, db.done \cup {e}, db.tested \ {e}, used)
        /\ decisions' = [decisions EXCEPT ![e] = @ + 1]
    BY <1>4 DEF Succeed
  <2>2. /\ e \in Experiments /\ db.done \cup {e} \in SUBSET Experiments
        /\ db.tested \ {e} \in SUBSET Experiments
        /\ decisions' \in [Experiments -> Nat]
    BY <1>1, <2>1, ExecFacts
  <2>3. used \in [experiments : Nat, tests : Nat] /\
        used.experiments = view[w].camp.used.experiments + 1
    BY <1>1, ExecFacts
  <2>4. view[w].camp.used.experiments <= Cardinality(db.done \ {e})
    BY <1>1, <1>4 DEF IInv, ViewsBehind
  <2>5. Cardinality(db.done \cup {e}) = Cardinality(db.done \ {e}) + 1
    BY <1>1, ExecFacts, CountAdds
  <2>6. Cardinality(db.done \ {e}) \in Nat
    BY <1>1, ExecFacts, CountExperiments
  <2>7. view[w].camp.used.experiments \in Nat
    BY <1>1, ExecFacts
  <2>8. used.experiments <= Cardinality(db.done \cup {e})
    BY <2>3, <2>4, <2>5, <2>6, <2>7
  <2> HIDE DEF row, used, e
  <2>9. e = task[w] /\ db.done \subseteq db.done \cup {e}
    BY DEF e
  <2> QED
    BY <1>1, <1>2, <2>1, <2>2, <2>3, <2>8, <2>9, ExecCommitKeeps
<1> QED
  BY <1>3, <1>4

\* Time touches only the beat and due columns of a job.
LEMMA TimeKeeps ==
  ASSUME IInv, NEW e \in Experiments, LeaseExpires(e) \/ BackoffElapses(e)
  PROVE  IInv'
<1>1. /\ \/ db' = [db EXCEPT !.job[e].beat = "old"]
         \/ db' = [db EXCEPT !.job[e].due = TRUE]
      /\ UNCHANGED <<decisions, testRuns, pc, view, task, call, requests, crashes>>
  BY DEF LeaseExpires, BackoffElapses
<1>2. db \in Database /\ db.job \in [Experiments -> Job] /\ db.job[e] \in Job
  BY DEF IInv, TypeOK, Database
<1>3. /\ [db.job[e] EXCEPT !.beat = "old"] \in Job
      /\ [db.job[e] EXCEPT !.beat = "old"].status = db.job[e].status
      /\ [db.job[e] EXCEPT !.due = TRUE] \in Job
      /\ [db.job[e] EXCEPT !.due = TRUE].status = db.job[e].status
  BY <1>2 DEF Job
<1>4. PICK j \in Job : db' = [db EXCEPT !.job = [@ EXCEPT ![e] = j]]
                       /\ j.status = db.job[e].status
  BY <1>1, <1>3
<1>5. /\ db' \in Database /\ db'.done = db.done /\ db'.camp = db.camp
      /\ \A x \in Experiments : db'.job[x].status = db.job[x].status
  BY <1>2, <1>4 DEF Database
<1>6. UNCHANGED <<decisions, testRuns, pc, view, task, call, requests, crashes>>
  BY <1>1
<1>7. Safe'
  BY <1>5, <1>6, SafeStays DEF IInv
<1>8. TypeOK' /\ Shape' /\ ViewsBehind'
  BY <1>5, <1>6 DEF IInv, TypeOK, Shape, ViewsBehind
<1> QED
  BY <1>7, <1>8 DEF IInv

LEMMA RequestKeeps ==
  ASSUME IInv, NEW c \in Clients, ClientStep(c)
  PROVE  IInv'
<1>1. /\ db \in Database /\ view[c] \in Database
      /\ view[c].done \subseteq db.done
      /\ view[c].camp.used.experiments <= Cardinality(db.done)
      /\ db.camp.used.experiments <= Cardinality(db.done)
      /\ requests \in 0..MaxRequests /\ MaxRequests \in Nat
  BY ActorTypes, ConstantsAssumption DEF IInv, TypeOK, ViewsBehind, Safe, BudgetNeverOvercounts
<1>2. CASE Request(c)
  <2>1. PICK r \in Call : Respond(r, db)
    BY <1>2 DEF Request, Offered
  <2>2. /\ UNCHANGED <<decisions, pc, view, task, call, crashes>>
        /\ requests' \in 0..MaxRequests
    BY <1>1, <1>2 DEF Request
  <2>3. db' \in Database /\ db'.done = db.done /\ testRuns' \in [Experiments -> Nat] /\ Safe'
    BY <1>1, <2>1, RespondSafe
  <2>4. TypeOK' /\ Shape' /\ ViewsBehind'
    BY <2>2, <2>3 DEF IInv, TypeOK, Shape, ViewsBehind
  <2> QED
    BY <2>3, <2>4 DEF IInv
<1>3. CASE RequestRead(c)
  <2>0. PICK r \in Call : call' = [call EXCEPT ![c] = r]
    BY <1>3 DEF RequestRead, Offered
  <2>1. /\ pc' = [pc EXCEPT ![c] = "busy"]
        /\ view' = [view EXCEPT ![c] = db]
        /\ requests' \in 0..MaxRequests
        /\ UNCHANGED <<db, decisions, testRuns, task, crashes>>
    BY <1>1, <1>3 DEF RequestRead
  <2>2. TypeOK'
    BY <2>0, <2>1, ActorTypes DEF IInv, TypeOK, Actors
  <2>3. Shape'
    BY <2>0, <2>1, ActorTypes DEF IInv, Shape
  <2>4. ViewsBehind'
    BY <1>1, <2>1, ActorTypes DEF IInv, ViewsBehind
  <2> QED
    BY <2>1, <2>2, <2>3, <2>4, UnchangedRowsSafe DEF IInv
<1>4. CASE RequestWrite(c)
  <2>1. call[c] \in Call /\ Respond(call[c], view[c])
    BY <1>4 DEF RequestWrite, IInv, Shape
  <2>2. /\ call' = [call EXCEPT ![c] = None]
        /\ pc' = [pc EXCEPT ![c] = "idle"]
        /\ view' = [view EXCEPT ![c] = EmptyDatabase]
        /\ UNCHANGED <<decisions, task, requests, crashes>>
    BY <1>4 DEF RequestWrite
  <2>3. db' \in Database /\ db'.done = db.done /\ testRuns' \in [Experiments -> Nat] /\ Safe'
    BY <1>1, <2>1, RespondSafe
  <2>4. TypeOK'
    BY <2>2, <2>3, ActorTypes DEF IInv, TypeOK, Actors
  <2>5. Shape'
    BY <2>2, ActorTypes DEF IInv, Shape
  <2>6. ViewsBehind'
    <3>1. \A a \in Actors : view'[a] = view[a] \/ view'[a] = EmptyDatabase
      BY <2>2, ActorTypes DEF IInv
    <3>2. \A x \in Workers : pc'[x] = "exec" =>
            pc[x] = "exec" /\ task'[x] = task[x] /\ view'[x] = view[x]
      BY <2>2, ActorTypes DEF IInv
    <3> QED
      BY <2>3, <3>1, <3>2, ViewsStayBehind
  <2> QED
    BY <2>3, <2>4, <2>5, <2>6 DEF IInv
<1> QED
  BY <1>2, <1>3, <1>4 DEF ClientStep

LEMMA StutterKeeps ==
  ASSUME IInv, UNCHANGED vars
  PROVE  IInv'
<1>1. UNCHANGED <<db, decisions, testRuns, pc, view, task, call, requests, crashes>>
  BY DEF vars
<1>2. TypeOK' /\ Shape' /\ ViewsBehind'
  BY <1>1 DEF IInv, TypeOK, Shape, ViewsBehind
<1> QED
  BY <1>1, <1>2, UnchangedRowsSafe DEF IInv

LEMMA NextIInv ==
  ASSUME IInv, [Next]_vars
  PROVE  IInv'
<1>1. CASE \E w \in Workers : WorkerStep(w)
  <2>1. PICK w \in Workers : WorkerStep(w)
    BY <1>1
  <2> QED
    BY <2>1, PollKeeps, PollReadKeeps, ExecStartKeeps, DownKeeps, CancelBeforeKeeps,
       SucceedKeeps, FailKeeps, InterruptKeeps DEF WorkerStep, Finish
<1>2. CASE \E c \in Clients : ClientStep(c)
  BY <1>2, RequestKeeps
<1>3. CASE \E e \in Experiments : LeaseExpires(e) \/ BackoffElapses(e)
  BY <1>3, TimeKeeps
<1>4. CASE UNCHANGED vars
  BY <1>4, StutterKeeps
<1> QED
  BY <1>1, <1>2, <1>3, <1>4 DEF Next

-----------------------------------------------------------------------------
(* The theorems that hold whatever interleaves *)

\* Every state a campaign can reach satisfies the inductive invariant.
THEOREM Inductive == Spec => []IInv
<1>1. Init => IInv
  BY InitIInv
<1>2. IInv /\ [Next]_vars => IInv'
  BY NextIInv
<1> QED
  BY <1>1, <1>2, PTL DEF Spec

\* Rows, reads and counters keep their types (the model of app/db/models.py).
THEOREM TypeCorrect == Spec => []TypeOK
<1>1. IInv => TypeOK
  BY DEF IInv
<1> QED
  BY <1>1, Inductive, PTL

\* A job is shown as SUCCEEDED only when its experiment is stored as completed, for any
\* number of workers, lost leases, cancellations and crashes (execute_claimed_job).
THEOREM SuccessIsBacked == Spec => []SucceededIsCompleted
<1>1. IInv => SucceededIsCompleted
  BY DEF IInv, Safe
<1> QED
  BY <1>1, Inductive, PTL

\* The whole-column writes of budget_used may lose counts, and never invent one.
THEOREM BudgetIsBounded == Spec => []BudgetNeverOvercounts
<1>1. IInv => BudgetNeverOvercounts
  BY DEF IInv, Safe
<1> QED
  BY <1>1, Inductive, PTL

\* Conclusions and locked test runs concern completed experiments only, however stale the
\* finalizer's reads (finalize_campaign).
THEOREM ConclusionsAreBacked == Spec => []ConclusionsAreCompleted
<1>1. IInv => ConclusionsAreCompleted
  BY DEF IInv, Safe
<1> QED
  BY <1>1, Inductive, PTL

\* A campaign is completed only with a stored report (_refresh_campaign_state, get_report).
THEOREM CompletionIsReported == Spec => []CompletedHasReport
<1>1. IInv => CompletedHasReport
  BY DEF IInv, Safe
<1> QED
  BY <1>1, Inductive, PTL
-----------------------------------------------------------------------------
(* Optimization studies                                                    *)
(*                                                                         *)
(* A study follows its campaign.  What is shown above of the campaign is   *)
(* kept by the study's requests, which are a run and a cancellation of the *)
(* campaign; and two facts about its steps carry the study: experiments    *)
(* stay completed, and a report once stored is only ever replaced.         *)

-----------------------------------------------------------------------------
(* What a step of the campaign never takes back *)

\* completed experiments and the existence of a report
Kept == db.done \subseteq db'.done /\ (db.camp.report # None => db'.camp.report # None)

\* A poll that refreshes the campaign stores a report only together with a refresh.
LEMMA PollKept ==
  ASSUME IInv, NEW w \in Workers, Poll(w) \/ PollWrite(w)
  PROVE  Kept
<1>1. PICK v \in Database : PollCommit(w, v) /\ v.done \subseteq db.done
                            /\ v.camp.used.experiments <= Cardinality(db.done)
  <2>1. /\ db \in Database /\ view[w] \in Database
        /\ view[w].done \subseteq db.done
        /\ view[w].camp.used.experiments <= Cardinality(db.done)
        /\ db.camp.used.experiments <= Cardinality(db.done)
    BY ActorTypes DEF IInv, ViewsBehind, Safe, BudgetNeverOvercounts
  <2> QED
    BY <2>1 DEF Poll, PollWrite
<1>2. db'.done = db.done
  BY <1>1, PollCommitSafe
<1>3. db'.camp = RecoveredCampaign(v)
  <2>1. db \in Database
    BY DEF IInv, TypeOK
  <2> QED
    BY <1>1, <2>1 DEF PollCommit, Database
<1>4. v.camp \in Campaign /\ v.done \in SUBSET Experiments /\ v.done # None
  BY <1>1, ConstantsAssumption DEF Database
<1>5. RecoveredCampaign(v).report \in {db.camp.report, v.done}
  <2> DEFINE c == RefreshCampaign(v.camp, Seen(v), v.done, v.tested)
  <2>1. Finalizes(Seen(v)) => c.report = v.done
    BY <1>4, RefreshFacts
  <2> QED
    BY <2>1 DEF RecoveredCampaign
<1> QED
  BY <1>2, <1>3, <1>4, <1>5 DEF Kept

\* The end of a handler adds at most its experiment.
LEMMA ExecCommitKept ==
  ASSUME IInv, NEW w \in Workers, NEW row, NEW d \in SUBSET Experiments, NEW t, NEW used,
         ExecCommit(w, row, d, t, used), db.done \subseteq d
  PROVE  Kept
<1> DEFINE c0   == [db.camp EXCEPT !.used = used]
           jobs == [db.job EXCEPT ![task[w]] = row]
<1>1. db'.done = d /\ db'.camp = RefreshCampaign(c0, jobs, d, t)
  BY DEF ExecCommit
<1>2. db.camp \in Campaign /\ c0.report = db.camp.report
  BY DEF IInv, TypeOK, Database, Campaign
<1>3. RefreshCampaign(c0, jobs, d, t).report \in {d, c0.report}
  BY <1>2 DEF RefreshCampaign, FinalizeCampaign, Campaign
<1>4. d # None
  BY ConstantsAssumption
<1> QED
  BY <1>1, <1>2, <1>3, <1>4 DEF Kept

LEMMA FinishKept ==
  ASSUME IInv, NEW w \in Workers, Finish(w)
  PROVE  Kept
<1>1. pc[w] = "exec"
  BY DEF Finish, CancelBefore, Succeed, Fail, Interrupt, Handling
<1>2. /\ task[w] \in Experiments /\ db.done \in SUBSET Experiments
      /\ db.done \cup {task[w]} \in SUBSET Experiments
      /\ db.done \subseteq db.done \cup {task[w]}
  BY <1>1, ExecFacts
<1>3. CASE CancelBefore(w)
  BY <1>2, <1>3, ExecCommitKept DEF CancelBefore
<1>4. CASE Succeed(w)
  BY <1>2, <1>4, ExecCommitKept DEF Succeed
<1>5. CASE Fail(w)
  <2>1. PICK late \in {FALSE, RequireStress} :
          ExecCommit(w, ErrorRow(w, [view[w].job[task[w]] EXCEPT !.status = "FAILED"]),
                     IF late THEN db.done \cup {task[w]} ELSE db.done,
                     IF late THEN db.tested \ {task[w]} ELSE db.tested, db.camp.used)
    BY <1>5 DEF Fail
  <2> DEFINE d == IF late THEN db.done \cup {task[w]} ELSE db.done
  <2>2. d \in SUBSET Experiments /\ db.done \subseteq d
    BY <1>2
  <2> HIDE DEF d
  <2> QED
    BY <2>1, <2>2, ExecCommitKept DEF d
<1>6. CASE Interrupt(w)
  BY <1>2, <1>6, ExecCommitKept DEF Interrupt
<1> QED
  BY <1>3, <1>4, <1>5, <1>6 DEF Finish

LEMMA RespondKept ==
  ASSUME IInv, NEW r \in Call, NEW v \in Database, Respond(r, v),
         v.done \subseteq db.done,
         v.camp.used.experiments <= Cardinality(db.done)
  PROVE  Kept
<1>1. db'.done = db.done
  BY RespondSafe
<1>2. /\ db \in Database /\ db.camp \in Campaign /\ v.done \in SUBSET Experiments
      /\ db.job \in [Experiments -> Job]
  BY DEF IInv, TypeOK, Database
<1>3. CASE r.op \in {"run", "cancel"}
  <2>1. RunCampaign(v, r.batch) \/ CancelCampaign(v)
    BY <1>3 DEF Respond
  <2>2. db' = db \/ \E s, jobs : db' = [db EXCEPT !.camp.status = s, !.job = jobs]
    <3>1. CASE RunCampaign(v, r.batch)
      BY <3>1 DEF RunCampaign
    <3>2. CASE CancelCampaign(v)
      BY <3>2 DEF CancelCampaign
    <3> QED
      BY <2>1, <3>1, <3>2
  <2>3. ASSUME NEW x, NEW jobs, db' = [db EXCEPT !.camp.status = x, !.job = jobs]
        PROVE  db'.camp.report = db.camp.report
    <3>1. db'.camp = [db.camp EXCEPT !.status = x]
      BY <1>2, <2>3 DEF Database
    <3> QED
      BY <1>2, <3>1 DEF Campaign
  <2>4. db'.camp.report = db.camp.report
    BY <2>2, <2>3
  <2> QED
    BY <1>1, <2>4 DEF Kept
<1>5. CASE r.op = "cancel_job"
  <2>1. CancelJob(v, r.exp)
    BY <1>5 DEF Respond
  <2>2. db' = db \/ \E jobs : db' = [db EXCEPT !.job = jobs]
    BY <2>1 DEF CancelJob
  <2>3. db'.camp = db.camp
    BY <1>2, <2>2 DEF Database
  <2> QED
    BY <1>1, <2>3 DEF Kept
<1>6. CASE r.op = "report"
  <2>1. GetReport(v)
    BY <1>6 DEF Respond
  <2>2. CASE v.camp.report # None
    BY <2>1, <2>2 DEF GetReport, Kept
  <2>3. CASE v.camp.report = None
    <3> DEFINE c    == FinalizeCampaign(v.camp, v.done, v.tested)
               run  == Top(v.done) \ v.tested
               camp == [status |-> Write(v.camp.status, c.status, db.camp.status),
                        used   |-> Write(v.camp.used, c.used, db.camp.used),
                        report |-> c.report]
    <3>1. db' = [db EXCEPT !.camp = camp, !.tested = @ \cup run]
      BY <2>1, <2>3 DEF GetReport
    <3>2. c \in Campaign /\ run \subseteq v.done /\ v.camp \in Campaign
      BY FinalizeType, TopSubset DEF Database
    <3>3. c.report = v.done
      BY <3>2 DEF FinalizeCampaign, Campaign
    <3> HIDE DEF c
    <3>4. camp \in Campaign /\ camp.report = v.done
      BY <1>2, <3>2, <3>3 DEF Campaign, Write
    <3> HIDE DEF camp, run
    <3>5. db'.camp = camp
      BY <1>2, <3>1, <3>2, <3>4 DEF Database
    <3>6. v.done # None
      BY <1>2, ConstantsAssumption
    <3> QED
      BY <1>1, <3>4, <3>5, <3>6 DEF Kept
  <2> QED
    BY <2>2, <2>3
<1> QED
  BY <1>3, <1>5, <1>6 DEF Call

\* No step of the campaign takes back a completed experiment or its report.
LEMMA NextKept ==
  ASSUME IInv, [Next]_vars
  PROVE  Kept
<1>1. ASSUME NEW w \in Workers, WorkerStep(w)  PROVE Kept
  <2>1. CASE Poll(w) \/ PollWrite(w)
    BY <2>1, PollKept
  <2>2. CASE Finish(w)
    BY <2>2, FinishKept
  <2>3. CASE PollRead(w) \/ ExecStart(w) \/ LeaseLost(w) \/ Crash(w) \/ Restart(w)
    BY <2>3 DEF PollRead, ExecStart, LeaseLost, Crash, Restart, Kept
  <2> QED
    BY <1>1, <2>1, <2>2, <2>3 DEF WorkerStep
<1>2. ASSUME NEW c \in Clients, ClientStep(c)  PROVE Kept
  <2>1. /\ db \in Database /\ view[c] \in Database
        /\ view[c].done \subseteq db.done
        /\ view[c].camp.used.experiments <= Cardinality(db.done)
        /\ db.camp.used.experiments <= Cardinality(db.done)
    BY ActorTypes DEF IInv, ViewsBehind, Safe, BudgetNeverOvercounts
  <2>2. CASE Request(c)
    <3>1. PICK r \in Call : Respond(r, db)
      BY <2>2 DEF Request, Offered
    <3> QED
      BY <2>1, <3>1, RespondKept
  <2>3. CASE RequestWrite(c)
    <3>1. call[c] \in Call /\ Respond(call[c], view[c])
      BY <2>3 DEF RequestWrite, IInv, Shape
    <3> QED
      BY <2>1, <3>1, RespondKept
  <2>4. CASE RequestRead(c)
    BY <2>4 DEF RequestRead, Kept
  <2> QED
    BY <1>2, <2>2, <2>3, <2>4 DEF ClientStep
<1>3. ASSUME NEW e \in Experiments, LeaseExpires(e) \/ BackoffElapses(e)  PROVE Kept
  <2>1. db \in Database
    BY DEF IInv, TypeOK
  <2> QED
    BY <1>3, <2>1 DEF LeaseExpires, BackoffElapses, Kept, Database
<1>4. CASE UNCHANGED vars
  BY <1>4 DEF vars, Kept
<1> QED
  BY <1>1, <1>2, <1>3, <1>4 DEF Next

-----------------------------------------------------------------------------
(* The inductive invariant of the study *)

\* what the stored rows of the study and its trials owe to the campaign
StudyInv ==
  /\ study \in [status : StudyStatus \ {"COMPLETED"}, ended : BOOLEAN]
  /\ study.status = "CANCELLED" => wasCancelled
  /\ study.ended => wasCancelled \/ db.camp.report # None
  /\ trial \in [Experiments -> [status : TrialStatus, scored : BOOLEAN]]
  /\ \A e \in Experiments :
       /\ trial[e].scored <=> trial[e].status \in {"VALID", "REJECTED"}
       /\ trial[e].scored => e \in db.done
       /\ trial[e].status = "PRUNED" => wasCancelled
  /\ wasCancelled \in BOOLEAN
  /\ db.camp.status = "cancelled" => wasCancelled

\* The invariant, with what the campaign's proofs say of its status and report, is what a
\* GET of the study relies on.
LEMMA StudyInvShows ==
  ASSUME IInv, StudyInv
  PROVE  StudyFollowsCampaign
<1>1. db.camp.status = "completed" => db.camp.report # None
  BY DEF IInv, Safe, CompletedHasReport
<1>2. db.camp.status = "completed" <=> SyncedStudy.status = "COMPLETED"
  BY DEF SyncedStudy, StudyInv, StudyStatus, Resumable
<1>3. /\ SyncedStudy.status = "CANCELLED" => wasCancelled
      /\ SyncedStudy.ended => wasCancelled \/ db.camp.report # None
  BY <1>1 DEF SyncedStudy, StudyInv, Resumable
<1>4. ASSUME NEW e \in Experiments
      PROVE  /\ SyncedTrials[e].status \in {"VALID", "REJECTED"} <=> e \in db.done
             /\ SyncedTrials[e].scored <=> e \in db.done
             /\ SyncedTrials[e].status = "PRUNED" => wasCancelled
             /\ trial[e].scored => e \in db.done /\ trial[e].status \in {"VALID", "REJECTED"}
  BY DEF SyncedTrials, StudyInv, TrialStatus
<1> QED
  BY <1>1, <1>2, <1>3, <1>4 DEF StudyFollowsCampaign, Shown

LEMMA SyncedTypes ==
  ASSUME IInv, StudyInv
  PROVE  /\ SyncedTrials \in [Experiments -> [status : TrialStatus, scored : BOOLEAN]]
         /\ SyncedStudy.ended \in BOOLEAN
         /\ \A e \in Experiments :
              SyncedTrials[e].scored <=> SyncedTrials[e].status \in {"VALID", "REJECTED"}
<1>1. ASSUME NEW e \in Experiments
      PROVE  /\ SyncedTrials[e] \in [status : TrialStatus, scored : BOOLEAN]
             /\ SyncedTrials[e].scored <=> SyncedTrials[e].status \in {"VALID", "REJECTED"}
  BY DEF SyncedTrials, StudyInv, TrialStatus
<1>2. SyncedTrials \in [Experiments -> [status : TrialStatus, scored : BOOLEAN]]
  BY <1>1 DEF SyncedTrials
<1>3. SyncedStudy.ended \in BOOLEAN
  BY DEF SyncedStudy, StudyInv, Resumable
<1> QED
  BY <1>1, <1>2, <1>3

\* A request of the study is a request of its campaign.
LEMMA StudyRequestsKeep ==
  ASSUME IInv, NEW c \in Clients, StudyRun(c) \/ StudyCancel(c)
  PROVE  IInv' /\ Kept
<1>1. PICK r \in Call : Respond(r, db)
  <2>1. /\ [op |-> "run", batch |-> N] \in Call
        /\ RunCampaign(db, N) => Respond([op |-> "run", batch |-> N], db)
    BY StudyAssumption DEF Call, Respond
  <2>2. /\ [op |-> "cancel"] \in Call
        /\ CancelCampaign(db) => Respond([op |-> "cancel"], db)
    BY DEF Call, Respond
  <2> QED
    BY <2>1, <2>2 DEF StudyRun, StudyCancel
<1>2. /\ db \in Database /\ db.camp.used.experiments <= Cardinality(db.done)
      /\ requests \in 0..MaxRequests /\ MaxRequests \in Nat
  BY ConstantsAssumption DEF IInv, TypeOK, Safe, BudgetNeverOvercounts
<1>3. /\ requests' \in 0..MaxRequests
      /\ UNCHANGED <<decisions, pc, view, task, call, crashes>>
  BY <1>2 DEF StudyRun, StudyCancel, MayRequest
<1>4. db' \in Database /\ db'.done = db.done /\ testRuns' \in [Experiments -> Nat] /\ Safe'
  BY <1>1, <1>2, RespondSafe
<1>5. TypeOK' /\ Shape' /\ ViewsBehind'
  BY <1>3, <1>4 DEF IInv, TypeOK, Shape, ViewsBehind
<1>6. Kept
  BY <1>1, <1>2, RespondKept
<1> QED
  BY <1>4, <1>5, <1>6 DEF IInv

LEMMA StudyInitInv == StudyInit => IInv /\ StudyInv
<1> SUFFICES ASSUME StudyInit
             PROVE  IInv /\ StudyInv
  OBVIOUS
<1>1. IInv
  BY InitIInv DEF StudyInit
<1>2. db.camp.status = "created"
  BY DEF StudyInit, Init, EmptyDatabase
<1>3. study \in [status : StudyStatus \ {"COMPLETED"}, ended : BOOLEAN]
      /\ study.status = "CREATED" /\ ~study.ended /\ wasCancelled = FALSE
  BY DEF StudyInit, StudyStatus
<1>4. \A e \in Experiments : trial[e] = [status |-> "PENDING", scored |-> FALSE]
  BY DEF StudyInit
<1>5. trial \in [Experiments -> [status : TrialStatus, scored : BOOLEAN]]
  BY DEF StudyInit, TrialStatus
<1>6. /\ wasCancelled \in BOOLEAN
      /\ ~(db.camp.status = "cancelled")
  BY <1>2, <1>3
<1>7. ASSUME NEW e \in Experiments
      PROVE  /\ trial[e].scored <=> trial[e].status \in {"VALID", "REJECTED"}
             /\ ~trial[e].scored /\ trial[e].status # "PRUNED"
  BY <1>4
<1>8. study.status # "CANCELLED"
  BY <1>3
<1> QED
  BY <1>1, <1>3, <1>5, <1>6, <1>7, <1>8 DEF StudyInv

\* A step of the campaign leaves the rows of the study alone, and they stay covered.
LEMMA CampaignStepKeeps ==
  ASSUME IInv, StudyInv, Kept, UNCHANGED <<study, trial>>,
         wasCancelled' = (wasCancelled \/ db'.camp.status = "cancelled")
  PROVE  StudyInv'
BY DEF StudyInv, Kept

\* A request of the study stores what its synchronisation has found.
LEMMA StudyStepKeeps ==
  ASSUME IInv, StudyInv, Kept, NEW c \in Clients, StudyRun(c) \/ StudyCancel(c),
         wasCancelled' = (wasCancelled \/ db'.camp.status = "cancelled")
  PROVE  StudyInv'
<1>1. CASE StudyRun(c) /\ db.camp.status = "cancelled"
  BY <1>1, CampaignStepKeeps DEF StudyRun
<1>2. CASE \/ StudyRun(c) /\ db.camp.status # "cancelled"
           \/ StudyCancel(c)
  <2>1. /\ trial' = SyncedTrials
        /\ \/ study' = [status |-> "RUNNING", ended |-> SyncedStudy.ended]
           \/ study' = [status |-> "CANCELLED", ended |-> TRUE] /\ StudyCancel(c)
    BY <1>2 DEF StudyRun, StudyCancel
  <2>2. StudyFollowsCampaign
    BY StudyInvShows
  <2>3. StudyCancel(c) => wasCancelled'
    <3>1. ASSUME NEW jobs, db' = [db EXCEPT !.camp.status = "cancelled", !.job = jobs]
          PROVE  db'.camp.status = "cancelled"
      <4>1. db \in Database /\ db.camp \in Campaign
        BY DEF IInv, TypeOK, Database
      <4>2. db'.camp = [db.camp EXCEPT !.status = "cancelled"]
        BY <3>1, <4>1 DEF Database
      <4> QED
        BY <4>1, <4>2 DEF Campaign
    <3>2. Write(db.camp.status, "cancelled", db.camp.status) = "cancelled"
      BY DEF Write
    <3>3. StudyCancel(c) => \E jobs : db' = [db EXCEPT !.camp.status = "cancelled", !.job = jobs]
      BY <3>2 DEF StudyCancel, CancelCampaign
    <3> QED
      BY <3>1, <3>3
  <2>4. /\ study' \in [status : StudyStatus \ {"COMPLETED"}, ended : BOOLEAN]
        /\ study'.status = "CANCELLED" => wasCancelled'
        /\ study'.ended => wasCancelled' \/ db'.camp.report # None
    <3>1. /\ SyncedStudy.ended \in BOOLEAN
          /\ SyncedStudy.ended => wasCancelled' \/ db'.camp.report # None
      BY <2>2, SyncedTypes DEF StudyFollowsCampaign, Shown, Kept
    <3>2. CASE study' = [status |-> "RUNNING", ended |-> SyncedStudy.ended]
      BY <3>1, <3>2 DEF StudyStatus
    <3>3. CASE study' = [status |-> "CANCELLED", ended |-> TRUE] /\ StudyCancel(c)
      BY <2>3, <3>3 DEF StudyStatus
    <3> QED
      BY <2>1, <3>2, <3>3
  <2>5. /\ trial' \in [Experiments -> [status : TrialStatus, scored : BOOLEAN]]
        /\ \A e \in Experiments :
             /\ trial'[e].scored <=> trial'[e].status \in {"VALID", "REJECTED"}
             /\ trial'[e].scored => e \in db'.done
             /\ trial'[e].status = "PRUNED" => wasCancelled'
    BY <2>1, <2>2, SyncedTypes DEF StudyFollowsCampaign, Shown, Kept
  <2> QED
    BY <2>4, <2>5 DEF StudyInv
<1> QED
  BY <1>1, <1>2

LEMMA StudyNextInv ==
  ASSUME IInv, StudyInv, [StudyNext]_studyVars
  PROVE  IInv' /\ StudyInv'
<1>1. CASE /\ Next /\ UNCHANGED <<study, trial>>
           /\ wasCancelled' = (wasCancelled \/ db'.camp.status = "cancelled")
  <2>1. IInv' /\ Kept
    BY <1>1, NextIInv, NextKept
  <2> QED
    BY <1>1, <2>1, CampaignStepKeeps
<1>2. ASSUME NEW c \in Clients, StudyRun(c) \/ StudyCancel(c),
             wasCancelled' = (wasCancelled \/ db'.camp.status = "cancelled")
      PROVE  IInv' /\ StudyInv'
  BY <1>2, StudyRequestsKeep, StudyStepKeeps
<1>3. CASE UNCHANGED studyVars
  <2>1. IInv'
    BY <1>3, StutterKeeps DEF studyVars
  <2> QED
    BY <1>3, <2>1 DEF studyVars, vars, StudyInv
<1> QED
  BY <1>1, <1>2, <1>3 DEF StudyNext

-----------------------------------------------------------------------------
(* The theorems about a study *)

\* A campaign with a study keeps what a campaign keeps: the study's requests go through the
\* campaign's own (run and cancel of study_service.py).
THEOREM StudyKeepsCampaign == StudySpec => [](IInv /\ StudyInv)
<1>1. StudyInit => IInv /\ StudyInv
  BY StudyInitInv
<1>2. IInv /\ StudyInv /\ [StudyNext]_studyVars => (IInv /\ StudyInv)'
  BY StudyNextInv
<1> QED
  BY <1>1, <1>2, PTL DEF StudySpec

\* What a GET of a study shows agrees with its campaign, for any number of experiments,
\* workers, requests and crashes and however stale the stored rows are (sync).
THEOREM StudyIsFaithful == StudySpec => []StudyFollowsCampaign
<1>1. IInv /\ StudyInv => StudyFollowsCampaign
  BY StudyInvShows
<1> QED
  BY <1>1, StudyKeepsCampaign, PTL

-----------------------------------------------------------------------------
(* Prompt transactions (Slow = {}): leases outlast the handlers they       *)
(* protect, and polls and requests commit what they have just read.        *)
(* Crashes at any point, restarts, retries and every API operation remain. *)

\* the claim budget of a row
Budgeted(j) == j.attempt <= MaxAttempts /\ (j.status \in Claimable => j.attempt < MaxAttempts)

Leaseholder(e) == \E w \in Workers : task[w] = e

\* How a step may change the row of e: finished rows stay as they are, and the row a worker
\* holds gains a cancellation request at most.
RowStep(e) ==
  /\ db.job[e].status \in Terminal => db'.job[e] = db.job[e]
  /\ Leaseholder(e) => CurrentRow(db.job[e], db'.job[e])
  /\ Budgeted(db'.job[e])

LEMMA HeldFacts ==
  ASSUME IInv, PromptInv, NEW w \in Workers, task[w] # None
  PROVE  /\ task[w] \in Experiments
         /\ db.job[task[w]] \in Job
         /\ db.job[task[w]].status = "RUNNING" /\ db.job[task[w]].worker = w
         /\ db.job[task[w]].beat = "fresh"
         /\ \A x \in Workers : task[x] = task[w] => x = w
BY ActorTypes DEF IInv, TypeOK, Database, PromptInv, Holds

LEMMA BudgetFacts ==
  ASSUME IInv, PromptInv, NEW e \in Experiments
  PROVE  db.job[e] \in Job /\ Budgeted(db.job[e])
BY DEF IInv, TypeOK, Database, PromptInv, Budgeted

\* Steps that leave the actors where they are.
LEMMA RowStepsKeep ==
  ASSUME IInv, PromptInv, db' \in Database, db'.done = db.done,
         \A e \in Experiments : RowStep(e),
         UNCHANGED <<decisions, pc, view, task>>
  PROVE  PromptInv'
<1>1. ASSUME NEW w \in Workers, task[w] # None
      PROVE  /\ Holds(w, task[w])' /\ db'.job[task[w]].beat = "fresh"
             /\ CurrentRow(db.job[task[w]], db'.job[task[w]])
  <2>1. task[w] \in Experiments /\ Leaseholder(task[w])
    BY <1>1, HeldFacts DEF Leaseholder
  <2>2. CurrentRow(db.job[task[w]], db'.job[task[w]])
    BY <2>1 DEF RowStep
  <2> QED
    BY <1>1, <2>2, HeldFacts DEF CurrentRow, Holds
<1>2. ASSUME NEW w \in Workers, pc[w] = "exec"
      PROVE  /\ CurrentRow(view[w].job[task[w]], db'.job[task[w]])
             /\ view[w].done = db'.done \cap {task[w]}
  <2>1. task[w] # None
    BY <1>2, ActorTypes DEF IInv, Shape
  <2> QED
    BY <1>1, <1>2, <2>1 DEF PromptInv, CurrentRow
<1>3. \A e \in Experiments : Budgeted(db'.job[e])
  BY DEF RowStep
<1> QED
  BY <1>1, <1>2, <1>3 DEF PromptInv, Budgeted

LEMMA RecoveredPrompt ==
  ASSUME IInv, PromptInv, NEW e \in Experiments
  PROVE  /\ Recovered(db)[e] \in Job
         /\ db.job[e].status \in Terminal => Recovered(db)[e] = db.job[e]
         /\ Leaseholder(e) => Recovered(db)[e] = db.job[e]
         /\ Budgeted(Recovered(db)[e])
<1>1. db.job[e] \in Job /\ Budgeted(db.job[e])
  BY BudgetFacts
<1>2. Recovered(db)[e] \in Job
  BY RecoveredType DEF IInv, TypeOK
<1>3. e \in Restored(db) => db.job[e].status = "none"
  BY DEF Restored
<1>4. e \in Stale(db) => db.job[e].status = "RUNNING" /\ db.job[e].beat # "fresh"
  BY DEF Stale
<1>5. Budgeted(NewJob)
  BY ConstantsAssumption DEF NewJob, NoJob, Budgeted
<1>6. Budgeted(FlushJob(db.job[e], RetryOrFail(db.job[e]), db.job[e]))
  BY <1>1 DEF Budgeted, FlushJob, Write, RetryOrFail, Job, Claimable
<1>7. Recovered(db)[e] = IF e \in Restored(db) THEN NewJob
                         ELSE IF e \in Stale(db)
                              THEN FlushJob(db.job[e], RetryOrFail(db.job[e]), db.job[e])
                              ELSE db.job[e]
  BY DEF Recovered
<1>8. Leaseholder(e) => db.job[e].status = "RUNNING" /\ db.job[e].beat = "fresh"
  BY HeldFacts, ActorTypes DEF IInv, Leaseholder
<1>9. db.job[e].status \in Terminal => db.job[e].status # "none" /\ db.job[e].status # "RUNNING"
  BY DEF Terminal
<1>10. Budgeted(Recovered(db)[e])
  BY <1>1, <1>5, <1>6, <1>7
<1>11. /\ db.job[e].status \in Terminal => Recovered(db)[e] = db.job[e]
       /\ Leaseholder(e) => Recovered(db)[e] = db.job[e]
  BY <1>3, <1>4, <1>7, <1>8, <1>9
<1> QED
  BY <1>2, <1>10, <1>11

LEMMA PollPrompt ==
  ASSUME IInv, PromptInv, NEW w \in Workers, Poll(w)
  PROVE  PromptInv' /\ \A e \in Experiments : db.job[e].status \in Terminal => db'.job[e] = db.job[e]
<1>1. /\ pc[w] = "idle" /\ task[w] = None /\ db \in Database
      /\ view' = [view EXCEPT ![w] = EmptyDatabase]
      /\ decisions' = decisions
  BY ActorTypes DEF Poll, PollCommit, IInv, Shape
<1>2. CASE /\ pc' = [pc EXCEPT ![w] = "idle"] /\ task' = task
           /\ db'.done = db.done /\ db'.job = Recovered(db)
  <2>1. \A e \in Experiments : db.job[e].status \in Terminal => db'.job[e] = db.job[e]
    BY <1>2, RecoveredPrompt
  <2>2. \A x \in Workers : task[x] # None => db'.job[task[x]] = db.job[task[x]]
    BY <1>2, RecoveredPrompt, HeldFacts DEF Leaseholder
  <2>3. \A x \in Actors : pc'[x] = IF x = w THEN "idle" ELSE pc[x]
    BY <1>2, ActorTypes DEF IInv
  <2>4. \A x \in Workers : x # w => view'[x] = view[x]
    BY <1>1, ActorTypes DEF IInv
  <2>5. \A e \in Experiments : Budgeted(db'.job[e])
    BY <1>2, RecoveredPrompt
  <2>6. \A x \in Workers : pc[x] = "exec" => task[x] # None
    BY ActorTypes DEF IInv, Shape
  <2>7. PromptInv'
    BY <1>1, <1>2, <2>2, <2>3, <2>4, <2>5, <2>6, ActorTypes DEF IInv, PromptInv, Budgeted, Holds
  <2> QED
    BY <2>1, <2>7
<1>3. ASSUME NEW e \in Eligible(db),
             pc' = [pc EXCEPT ![w] = "claimed"], task' = [task EXCEPT ![w] = e],
             db'.done = db.done,
             db'.job = [Recovered(db) EXCEPT ![e] = Leased(@, w)]
      PROVE  PromptInv' /\ \A x \in Experiments :
               db.job[x].status \in Terminal => db'.job[x] = db.job[x]
  <2> DEFINE r == Recovered(db)
  <2>1. e \in Experiments /\ r[e].status \in Claimable /\ r[e] \in Job /\ Budgeted(r[e])
    BY RecoveredPrompt DEF Eligible
  <2>2. /\ db.job[e].status \notin Terminal /\ ~Leaseholder(e)
    <3>1. r[e].status \notin Terminal /\ r[e].status # "RUNNING"
      BY <2>1 DEF Claimable, Terminal
    <3>2. Leaseholder(e) => db.job[e].status = "RUNNING"
      BY HeldFacts, <2>1, ActorTypes DEF IInv, Leaseholder
    <3> QED
      BY <2>1, <3>1, <3>2, RecoveredPrompt
  <2>3. \A x \in Experiments : db'.job[x] = IF x = e THEN Leased(r[e], w) ELSE r[x]
    BY <1>3, <1>1, RecoveredType
  <2>4. /\ Leased(r[e], w).status = "RUNNING" /\ Leased(r[e], w).worker = w
        /\ Leased(r[e], w).beat = "fresh" /\ Leased(r[e], w).attempt = r[e].attempt + 1
    BY <2>1 DEF Leased, Job
  <2>5. Budgeted(Leased(r[e], w))
    <3>1. \A k \in Nat : k < MaxAttempts => k + 1 <= MaxAttempts
      BY ConstantsAssumption
    <3>2. r[e].attempt \in Nat /\ r[e].attempt < MaxAttempts
      BY <2>1 DEF Job, Budgeted
    <3> QED
      BY <2>4, <3>1, <3>2 DEF Budgeted, Claimable
  <2> HIDE DEF r
  <2>6. \A x \in Experiments : db.job[x].status \in Terminal => db'.job[x] = db.job[x]
    BY <2>2, <2>3, RecoveredPrompt DEF r
  <2>7. \A x \in Workers : x # w /\ task[x] # None =>
          task[x] # e /\ db'.job[task[x]] = db.job[task[x]]
    BY <2>2, <2>3, RecoveredPrompt, HeldFacts DEF r, Leaseholder
  <2>8. /\ \A x \in Actors : pc'[x] = IF x = w THEN "claimed" ELSE pc[x]
        /\ \A x \in Workers : task'[x] = IF x = w THEN e ELSE task[x]
        /\ \A x \in Workers : x # w => view'[x] = view[x]
    BY <1>1, <1>3, ActorTypes DEF IInv
  <2>9. \A x \in Experiments : Budgeted(db'.job[x])
    BY <2>3, <2>5, RecoveredPrompt DEF r
  <2>10. \A x \in Workers : pc[x] = "exec" => task[x] # None
    BY ActorTypes DEF IInv, Shape
  <2>11. \A x \in Workers : task'[x] # None =>
           db'.job[task'[x]].status = "RUNNING" /\ db'.job[task'[x]].worker = x
           /\ db'.job[task'[x]].beat = "fresh"
    BY <2>1, <2>3, <2>4, <2>7, <2>8, HeldFacts
  <2>12. ASSUME NEW x \in Workers, pc'[x] = "exec"
         PROVE  /\ CurrentRow(view'[x].job[task'[x]], db'.job[task'[x]])
                /\ view'[x].done = db'.done \cap {task'[x]}
    <3>1. x \in Actors
      BY DEF Actors
    <3>2. x # w /\ pc[x] = "exec"
      BY <2>8, <2>12, <3>1
    <3>3. /\ task'[x] = task[x] /\ view'[x] = view[x]
          /\ db'.job[task[x]] = db.job[task[x]]
      BY <2>7, <2>8, <2>10, <3>2
    <3> QED
      BY <1>3, <3>2, <3>3 DEF PromptInv
  <2>13. PromptInv'
    BY <1>1, <1>3, <2>8, <2>9, <2>11, <2>12, ActorTypes DEF PromptInv, Budgeted, Holds
  <2> QED
    BY <2>6, <2>13
<1>4. CASE Eligible(db) = {}
  <2>1. /\ pc' = [pc EXCEPT ![w] = "idle"] /\ task' = task
        /\ db' = [db EXCEPT !.camp = RecoveredCampaign(db), !.job = Recovered(db),
                            !.tested = @ \cup RecoveryTests(db)]
    BY <1>4 DEF Poll, PollCommit
  <2> QED
    BY <1>1, <1>2, <2>1 DEF Database
<1>5. CASE Eligible(db) # {}
  <2>1. PICK e \in Eligible(db) :
          /\ pc' = [pc EXCEPT ![w] = "claimed"] /\ task' = [task EXCEPT ![w] = e]
          /\ db' = [db EXCEPT !.camp = RecoveredCampaign(db),
                              !.job = [Recovered(db) EXCEPT ![e] = Leased(@, w)],
                              !.tested = @ \cup RecoveryTests(db)]
    BY <1>5 DEF Poll, PollCommit
  <2> QED
    BY <1>1, <1>3, <2>1 DEF Database
<1> QED
  BY <1>4, <1>5

\* The end of an execution leaves the other workers' rows alone.
LEMMA FinishPrompt ==
  ASSUME IInv, PromptInv, NEW w \in Workers, pc[w] = "exec",
         NEW row \in Job, NEW d \in SUBSET Experiments, NEW t, NEW used,
         ExecCommit(w, row, d, t, used),
         db.done \subseteq d, d \subseteq db.done \cup {task[w]},
         Budgeted(row),
         \A e \in Experiments : decisions'[e] <= IF e \in d THEN 1 ELSE 0
  PROVE  PromptInv' /\ \A e \in Experiments : db.job[e].status \in Terminal => db'.job[e] = db.job[e]
<1> DEFINE e == task[w]
<1>1. /\ task[w] # None /\ e \in Experiments /\ db.job[e].status = "RUNNING"
      /\ \A x \in Workers : task[x] = e => x = w
  BY HeldFacts, ActorTypes DEF IInv, Shape
<1>2. /\ db'.done = d /\ db'.job = [db.job EXCEPT ![e] = row]
      /\ pc' = [pc EXCEPT ![w] = "idle"]
      /\ view' = [view EXCEPT ![w] = EmptyDatabase]
      /\ task' = [task EXCEPT ![w] = None]
  BY DEF ExecCommit
<1>3. \A x \in Experiments : db'.job[x] = IF x = e THEN row ELSE db.job[x]
  BY <1>2 DEF IInv, TypeOK, Database
<1> HIDE DEF e
<1>4. \A x \in Experiments : db.job[x].status \in Terminal => db'.job[x] = db.job[x]
  BY <1>1, <1>3 DEF Terminal
<1>5. /\ \A x \in Actors : pc'[x] = IF x = w THEN "idle" ELSE pc[x]
      /\ \A x \in Workers : task'[x] = IF x = w THEN None ELSE task[x]
      /\ \A x \in Workers : x # w => view'[x] = view[x]
  BY <1>2, ActorTypes DEF IInv
<1>6. ASSUME NEW x \in Workers, task'[x] # None
      PROVE  /\ x # w /\ task'[x] = task[x] /\ task[x] # e
             /\ db'.job[task[x]] = db.job[task[x]]
             /\ db'.done \cap {task[x]} = db.done \cap {task[x]}
  <2>1. x # w /\ task'[x] = task[x] /\ task[x] # e
    BY <1>1, <1>5, <1>6
  <2>2. task[x] \in Experiments
    BY <1>6, <2>1, ActorTypes DEF IInv
  <2>3. db'.done \cap {task[x]} = db.done \cap {task[x]}
    BY <1>2, <2>1 DEF e
  <2> QED
    BY <1>3, <2>1, <2>2, <2>3
<1>7. \A x \in Workers : task'[x] # None =>
        /\ Holds(x, task[x])' /\ db'.job[task'[x]].beat = "fresh"
  BY <1>6, HeldFacts DEF Holds
<1>8. ASSUME NEW x \in Workers, pc'[x] = "exec"
      PROVE  /\ CurrentRow(view'[x].job[task'[x]], db'.job[task'[x]])
             /\ view'[x].done = db'.done \cap {task'[x]}
  <2>1. x # w /\ pc[x] = "exec"
    BY <1>5, <1>8 DEF Actors
  <2>2. task[x] # None
    BY <2>1, ActorTypes DEF IInv, Shape
  <2>3. task'[x] # None
    BY <1>5, <2>1, <2>2
  <2> QED
    BY <1>5, <1>6, <2>1, <2>3 DEF PromptInv
<1>9. \A x \in Experiments : Budgeted(db'.job[x])
  BY <1>3, BudgetFacts
<1>10. PromptInv'
  BY <1>2, <1>5, <1>7, <1>8, <1>9 DEF PromptInv, Budgeted
<1> QED
  BY <1>4, <1>10

\* The error paths write the row as loaded, with the new status.
LEMMA ErrorRowPrompt ==
  ASSUME IInv, PromptInv, NEW w \in Workers, pc[w] = "exec"
  PROVE  LET j == view[w].job[task[w]]
         IN  /\ Budgeted(ErrorRow(w, RetryOrFail(j)))
             /\ Budgeted(ErrorRow(w, [j EXCEPT !.status = "FAILED"]))
             /\ Budgeted(ErrorRow(w, [j EXCEPT !.status = "CANCELLED"]))
<1> DEFINE j == view[w].job[task[w]]
           s == db.job[task[w]]
<1>1. /\ j \in Job /\ s \in Job /\ CurrentRow(j, s) /\ s.attempt <= MaxAttempts
      /\ s.status = "RUNNING"
  BY ExecFacts, HeldFacts, ActorTypes DEF IInv, Shape, PromptInv
<1> HIDE DEF j, s
<1>2. Budgeted(FlushJob(j, RetryOrFail(j), s))
  BY <1>1 DEF Budgeted, FlushJob, Write, RetryOrFail, CurrentRow, Job, Claimable
<1>3. Budgeted(FlushJob(j, [j EXCEPT !.status = "FAILED"], s))
  BY <1>1 DEF Budgeted, FlushJob, Write, CurrentRow, Job, Claimable
<1>4. Budgeted(FlushJob(j, [j EXCEPT !.status = "CANCELLED"], s))
  BY <1>1 DEF Budgeted, FlushJob, Write, CurrentRow, Job, Claimable
<1> QED
  BY <1>2, <1>3, <1>4 DEF ErrorRow, j, s

\* Nothing that is finished is touched.
FinishedStay ==
  \A e \in Experiments : db.job[e].status \in Terminal => db'.job[e] = db.job[e]

LEMMA FinishStepPrompt ==
  ASSUME IInv, PromptInv, NEW w \in Workers, Finish(w)
  PROVE  PromptInv' /\ FinishedStay
<1> DEFINE e == task[w]
           j == view[w].job[e]
<1>1. pc[w] = "exec"
  BY DEF Finish, CancelBefore, Succeed, Fail, Interrupt, Handling
<1>2. /\ e \in Experiments /\ db.job[e] \in Job /\ j \in Job
      /\ db.done \in SUBSET Experiments /\ db.done \cup {e} \in SUBSET Experiments
      /\ decisions \in [Experiments -> Nat]
      /\ view[w].done = db.done \cap {e}
      /\ \A x \in Experiments : decisions[x] <= IF x \in db.done THEN 1 ELSE 0
  BY <1>1, ExecFacts DEF PromptInv
<1>3. /\ RetryOrFail(j) \in Job /\ [j EXCEPT !.status = "FAILED"] \in Job
      /\ [j EXCEPT !.status = "CANCELLED"] \in Job
  BY <1>2, RetryOrFailType DEF Job, Terminal
<1>4. /\ Budgeted(ErrorRow(w, RetryOrFail(j)))
      /\ Budgeted(ErrorRow(w, [j EXCEPT !.status = "FAILED"]))
      /\ Budgeted(ErrorRow(w, [j EXCEPT !.status = "CANCELLED"]))
      /\ ErrorRow(w, RetryOrFail(j)) \in Job
      /\ ErrorRow(w, [j EXCEPT !.status = "FAILED"]) \in Job
      /\ ErrorRow(w, [j EXCEPT !.status = "CANCELLED"]) \in Job
  BY <1>1, <1>2, <1>3, ErrorRowPrompt, FlushJobType DEF ErrorRow
<1>5. PICK row \in Job, d \in SUBSET Experiments :
        /\ \E t, used : ExecCommit(w, row, d, t, used)
        /\ db.done \subseteq d /\ d \subseteq db.done \cup {e}
        /\ Budgeted(row)
        /\ \A x \in Experiments : decisions'[x] <= IF x \in d THEN 1 ELSE 0
  <2>1. CASE CancelBefore(w)
    <3>1. /\ ExecCommit(w, ErrorRow(w, [j EXCEPT !.status = "CANCELLED"]), db.done, db.tested,
                        db.camp.used)
          /\ decisions' = decisions
      BY <2>1 DEF CancelBefore
    <3> HIDE DEF j, e
    <3> QED
      BY <1>2, <1>4, <3>1
  <2>2. CASE Interrupt(w)
    <3>1. /\ ExecCommit(w, ErrorRow(w, RetryOrFail(j)), db.done, db.tested, db.camp.used)
          /\ decisions' = decisions
      BY <2>2 DEF Interrupt
    <3> HIDE DEF j, e
    <3> QED
      BY <1>2, <1>4, <3>1
  <2>3. CASE Fail(w)
    <3>1. /\ \E late \in {FALSE, RequireStress} :
               ExecCommit(w, ErrorRow(w, [j EXCEPT !.status = "FAILED"]),
                          IF late THEN db.done \cup {e} ELSE db.done,
                          IF late THEN db.tested \ {e} ELSE db.tested,
                          db.camp.used)
          /\ decisions' = decisions
      BY <2>3 DEF Fail
    <3>2. /\ \A x \in Experiments : decisions'[x] <= IF x \in db.done THEN 1 ELSE 0
          /\ \A x \in Experiments : decisions'[x] <= IF x \in db.done \cup {e} THEN 1 ELSE 0
      BY <1>2, <3>1
    <3> HIDE DEF j, e
    <3>3. PICK late \in {FALSE, RequireStress} :
               ExecCommit(w, ErrorRow(w, [j EXCEPT !.status = "FAILED"]),
                          IF late THEN db.done \cup {e} ELSE db.done,
                          IF late THEN db.tested \ {e} ELSE db.tested,
                          db.camp.used)
      BY <3>1
    <3>4. CASE late
      <4>1. ExecCommit(w, ErrorRow(w, [j EXCEPT !.status = "FAILED"]),
                       db.done \cup {e}, db.tested \ {e}, db.camp.used)
        BY <3>3, <3>4
      <4> QED
        BY <1>2, <1>4, <3>2, <4>1
    <3>5. CASE ~late
      <4>1. ExecCommit(w, ErrorRow(w, [j EXCEPT !.status = "FAILED"]),
                       db.done, db.tested, db.camp.used)
        BY <3>3, <3>5
      <4> QED
        BY <1>2, <1>4, <3>2, <4>1
    <3> QED
      BY <3>4, <3>5
  <2>4. CASE Succeed(w)
    <3> DEFINE row == [db.job[e] EXCEPT !.status = IF db.job[e].cancel THEN "CANCELLED"
                                                   ELSE "SUCCEEDED"]
    <3>1. row \in Job /\ row.attempt = db.job[e].attempt /\ row.status \notin Claimable
      BY <1>2 DEF Job, Terminal, Claimable
    <3>2. Budgeted(row)
      BY <1>2, <3>1, BudgetFacts DEF Budgeted
    <3>3. CASE e \in view[w].done
      <4>1. /\ ExecCommit(w, row, db.done, db.tested, db.camp.used)
            /\ decisions' = decisions
        BY <2>4, <3>3 DEF Succeed
      <4> HIDE DEF row, e
      <4> QED
        BY <1>2, <3>1, <3>2, <4>1
    <3>4. CASE e \notin view[w].done
      <4>1. /\ \E used : ExecCommit(w, row, db.done \cup {e}, db.tested \ {e}, used)
            /\ decisions' = [decisions EXCEPT ![e] = @ + 1]
        BY <2>4, <3>4 DEF Succeed
      <4>2. decisions[e] = 0
        <5>1. decisions[e] <= 0 /\ decisions[e] \in Nat
          BY <1>2, <3>4
        <5> QED
          BY <5>1
      <4>3. decisions'[e] = 1 /\ \A x \in Experiments : x # e => decisions'[x] = decisions[x]
        BY <1>2, <4>1, <4>2
      <4>4. \A x \in Experiments : decisions'[x] <= IF x \in db.done \cup {e} THEN 1 ELSE 0
        BY <1>2, <4>3
      <4> HIDE DEF row, e
      <4> QED
        BY <1>2, <3>1, <3>2, <4>1, <4>4
    <3> QED
      BY <3>3, <3>4
  <2> QED
    BY <2>1, <2>2, <2>3, <2>4 DEF Finish
<1> QED
  BY <1>1, <1>5, FinishPrompt DEF FinishedStay

\* Claimed workers start, and workers die and come back.
LEMMA ControlPrompt ==
  ASSUME IInv, PromptInv, NEW w \in Workers,
         ExecStart(w) \/ LeaseLost(w) \/ Crash(w) \/ Restart(w)
  PROVE  PromptInv' /\ FinishedStay
<1>1. db' = db /\ decisions' = decisions
  BY DEF ExecStart, LeaseLost, Crash, Restart
<1>2. CASE ExecStart(w)
  <2> DEFINE e == task[w]
  <2>1. /\ pc[w] = "claimed" /\ pc' = [pc EXCEPT ![w] = "exec"]
        /\ view' = [view EXCEPT ![w] = ExecView(e)] /\ task' = task
    BY <1>2 DEF ExecStart
  <2>2. e \in Experiments
    BY <2>1 DEF IInv, Shape
  <2>3. ExecView(e).job[e] = db.job[e] /\ ExecView(e).done = db.done \cap {e}
    BY <2>2 DEF ExecView
  <2>4. CurrentRow(ExecView(e).job[e], db.job[e])
    BY <2>3 DEF CurrentRow
  <2> HIDE DEF e
  <2>5. /\ \A x \in Actors : pc'[x] = IF x = w THEN "exec" ELSE pc[x]
        /\ \A x \in Workers : view'[x] = IF x = w THEN ExecView(e) ELSE view[x]
    BY <2>1, ActorTypes DEF IInv
  <2>6. \A x \in Workers : pc'[x] = "exec" =>
          /\ CurrentRow(view'[x].job[task[x]], db.job[task[x]])
          /\ view'[x].done = db.done \cap {task[x]}
    BY <2>3, <2>4, <2>5, ActorTypes DEF IInv, PromptInv, e
  <2>7. \A a \in Actors : pc'[a] \notin {"poll", "busy"}
    BY <2>5 DEF PromptInv
  <2>8. PromptInv'
    BY <1>1, <2>1, <2>6, <2>7 DEF PromptInv, Holds
  <2> QED
    BY <1>1, <2>8 DEF FinishedStay
<1>3. CASE LeaseLost(w) \/ Crash(w) \/ Restart(w)
  <2>1. /\ \/ pc' = [pc EXCEPT ![w] = "down"] /\ task' = [task EXCEPT ![w] = None]
           \/ pc' = [pc EXCEPT ![w] = "idle"] /\ task' = task
        /\ view' = view \/ view' = [view EXCEPT ![w] = EmptyDatabase]
    BY <1>3 DEF LeaseLost, Crash, Restart
  <2>2. /\ \A x \in Actors : IF x = w THEN pc'[x] \in {"down", "idle"} ELSE pc'[x] = pc[x]
        /\ \A x \in Workers : task'[x] = task[x] \/ task'[x] = None
        /\ \A x \in Workers : x # w => view'[x] = view[x] /\ task'[x] = task[x]
    BY <2>1, ActorTypes DEF IInv
  <2>3. \A x \in Workers : pc'[x] = "exec" => x # w /\ pc[x] = "exec"
    BY <2>2, ActorTypes DEF IInv
  <2>4. \A x \in Workers : pc'[x] = "exec" =>
          /\ CurrentRow(view'[x].job[task'[x]], db.job[task'[x]])
          /\ view'[x].done = db.done \cap {task'[x]}
    BY <2>2, <2>3 DEF PromptInv
  <2>5. \A a \in Actors : pc'[a] \notin {"poll", "busy"}
    BY <2>2 DEF PromptInv
  <2>6. \A x \in Workers : task'[x] # None =>
          Holds(x, task'[x]) /\ db.job[task'[x]].beat = "fresh"
    BY <2>2 DEF PromptInv
  <2>7. PromptInv'
    BY <1>1, <2>4, <2>5, <2>6 DEF PromptInv, Holds
  <2> QED
    BY <1>1, <2>7 DEF FinishedStay
<1> QED
  BY <1>2, <1>3

\* A lease expires only where no worker is left to hold it.
LEMMA TimePrompt ==
  ASSUME Slow = {}, IInv, PromptInv, NEW e \in Experiments, LeaseExpires(e) \/ BackoffElapses(e)
  PROVE  PromptInv' /\ FinishedStay
<1>1. /\ db.job[e] \in Job /\ db.job \in [Experiments -> Job] /\ db \in Database
      /\ Budgeted(db.job[e])
  BY BudgetFacts DEF IInv, TypeOK, Database
<1>2. PICK j : /\ db' = [db EXCEPT !.job = [@ EXCEPT ![e] = j]]
               /\ j = [db.job[e] EXCEPT !.beat = "old"] \/ j = [db.job[e] EXCEPT !.due = TRUE]
  <2>1. CASE LeaseExpires(e)
    BY <2>1 DEF LeaseExpires
  <2>2. CASE BackoffElapses(e)
    BY <2>2 DEF BackoffElapses
  <2> QED
    BY <2>1, <2>2
<1>3. j \in Job /\ j.status = db.job[e].status /\ j.attempt = db.job[e].attempt
  BY <1>1, <1>2 DEF Job
<1>4. /\ db' \in Database /\ db'.done = db.done
      /\ \A x \in Experiments : db'.job[x] = IF x = e THEN j ELSE db.job[x]
  BY <1>1, <1>2, <1>3 DEF Database
<1>5. UNCHANGED <<decisions, pc, view, task>>
  BY DEF LeaseExpires, BackoffElapses
<1>6. db.job[e].status \notin Terminal /\ ~Leaseholder(e)
  <2>1. CASE LeaseExpires(e)
    BY <2>1 DEF LeaseExpires, Leaseholder, Terminal
  <2>2. CASE BackoffElapses(e)
    <3>1. db.job[e].status = "RETRYING"
      BY <2>2 DEF BackoffElapses
    <3> QED
      BY <3>1, HeldFacts, ActorTypes DEF IInv, Leaseholder, Terminal
  <2> QED
    BY <2>1, <2>2
<1>7. \A x \in Experiments : RowStep(x)
  BY <1>1, <1>3, <1>4, <1>6, BudgetFacts DEF RowStep, CurrentRow, Budgeted
<1>8. PromptInv'
  BY <1>4, <1>5, <1>7, RowStepsKeep
<1> QED
  BY <1>7, <1>8 DEF FinishedStay, RowStep

\* Requests start jobs that have no row, cancel jobs nobody holds, and ask for cancellation.
LEMMA RequestRows ==
  ASSUME IInv, NEW c \in Clients, Request(c)
  PROVE  /\ UNCHANGED <<decisions, pc, view, task>>
         /\ db' \in Database /\ db'.done = db.done
         /\ \A e \in Experiments :
              \/ db'.job[e] = db.job[e]
              \/ db.job[e].status = "none" /\ db'.job[e] = NewJob
              \/ db.job[e].status \in Claimable
                   /\ db'.job[e] = [db.job[e] EXCEPT !.status = "CANCELLED"]
              \/ db.job[e].status = "RUNNING" /\ db'.job[e] = [db.job[e] EXCEPT !.cancel = TRUE]
<1>1. PICK r \in Call : Respond(r, db)
  BY DEF Request, Offered
<1>2. UNCHANGED <<decisions, pc, view, task>>
  BY DEF Request
<1>3. /\ db \in Database /\ db.job \in [Experiments -> Job]
      /\ db.camp.used.experiments <= Cardinality(db.done)
  BY DEF IInv, TypeOK, Database, Safe, BudgetNeverOvercounts
<1>4. db' \in Database /\ db'.done = db.done
  BY <1>1, <1>3, RespondSafe
<1>5. ASSUME NEW e \in Experiments
      PROVE  \/ db'.job[e] = db.job[e]
             \/ db.job[e].status = "none" /\ db'.job[e] = NewJob
             \/ db.job[e].status \in Claimable
                  /\ db'.job[e] = [db.job[e] EXCEPT !.status = "CANCELLED"]
             \/ db.job[e].status = "RUNNING" /\ db'.job[e] = [db.job[e] EXCEPT !.cancel = TRUE]
  <2>1. CASE r.op = "run"
    <3>1. RunCampaign(db, r.batch)
      BY <1>1, <2>1 DEF Respond
    <3>2. CASE db' = db
      BY <3>2
    <3>3. CASE db' # db
      <4> DEFINE created == {x \in Pending(db, r.batch) : db.job[x].status = "none"}
                 jobs == [x \in Experiments |-> IF x \in created THEN NewJob ELSE db.job[x]]
                 status == Write(db.camp.status, "queued", db.camp.status)
      <4>1. db' = [db EXCEPT !.camp.status = status, !.job = jobs]
        BY <3>1, <3>3 DEF RunCampaign
      <4> HIDE DEF jobs, status
      <4>2. db'.job = jobs
        BY <1>3, <4>1 DEF Database
      <4> QED
        BY <4>2 DEF jobs
    <3> QED
      BY <3>2, <3>3
  <2>2. CASE r.op = "cancel"
    <3> DEFINE jobs == [x \in Experiments |->
                          IF db.job[x].status \in Claimable
                          THEN [db.job[x] EXCEPT !.status = "CANCELLED"] ELSE db.job[x]]
               status == Write(db.camp.status, "cancelled", db.camp.status)
    <3>1. db' = [db EXCEPT !.camp.status = status, !.job = jobs]
      BY <1>1, <2>2 DEF Respond, CancelCampaign
    <3> HIDE DEF jobs, status
    <3>2. db'.job = jobs
      BY <1>3, <3>1 DEF Database
    <3> QED
      BY <3>2 DEF jobs
  <2>3. CASE r.op = "cancel_job"
    <3>1. CancelJob(db, r.exp)
      BY <1>1, <2>3 DEF Respond
    <3>2. CASE db.job[r.exp].status = "RUNNING"
      <4>1. db' = [db EXCEPT !.job[r.exp].cancel = TRUE]
        BY <3>1, <3>2 DEF CancelJob, Claimable
      <4> QED
        BY <1>3, <3>2, <4>1 DEF Database
    <3>3. CASE db.job[r.exp].status \in Claimable
      <4>1. db' = [db EXCEPT !.job[r.exp].status = "CANCELLED"]
        BY <3>1, <3>3 DEF CancelJob, Claimable
      <4> QED
        BY <1>3, <3>3, <4>1 DEF Database
    <3>4. CASE db.job[r.exp].status \notin Claimable \cup {"RUNNING"}
      BY <3>1, <3>4 DEF CancelJob
    <3> QED
      BY <3>2, <3>3, <3>4
  <2>4. CASE r.op = "report"
    BY <1>1, <1>3, <2>4 DEF Respond, GetReport, Database
  <2> QED
    BY <2>1, <2>2, <2>3, <2>4 DEF Call
<1> QED
  BY <1>2, <1>4, <1>5

LEMMA RequestPrompt ==
  ASSUME IInv, PromptInv, NEW c \in Clients, Request(c)
  PROVE  PromptInv' /\ FinishedStay
<1>6. ASSUME NEW e \in Experiments
      PROVE  RowStep(e)
  <2>1. db.job[e] \in Job /\ Budgeted(db.job[e])
    BY BudgetFacts
  <2>2. Leaseholder(e) => db.job[e].status = "RUNNING"
    BY HeldFacts, ActorTypes DEF IInv, Leaseholder
  <2>3. Budgeted(NewJob)
    BY ConstantsAssumption DEF Budgeted, NewJob, NoJob
  <2>4. \/ db'.job[e] = db.job[e]
        \/ db.job[e].status = "none" /\ db'.job[e] = NewJob
        \/ db.job[e].status \in Claimable
             /\ db'.job[e] = [db.job[e] EXCEPT !.status = "CANCELLED"]
        \/ db.job[e].status = "RUNNING" /\ db'.job[e] = [db.job[e] EXCEPT !.cancel = TRUE]
    BY RequestRows
  <2> QED
    BY <2>1, <2>2, <2>3, <2>4 DEF RowStep, CurrentRow, Budgeted, Job, Claimable, Terminal
<1>7. PromptInv'
  BY RequestRows, <1>6, RowStepsKeep
<1> QED
  BY <1>6, <1>7 DEF FinishedStay, RowStep

LEMMA NextPrompt ==
  ASSUME Slow = {}, IInv, PromptInv, [Next]_vars
  PROVE  PromptInv' /\ FinishedStay
<1>1. CASE \E w \in Workers : WorkerStep(w)
  <2>1. PICK w \in Workers : WorkerStep(w)
    BY <1>1
  <2>2. ~PollRead(w)
    BY DEF PollRead
  <2>3. ~PollWrite(w)
    BY ActorTypes DEF PollWrite, PromptInv, IInv
  <2> QED
    BY <2>1, <2>2, <2>3, PollPrompt, ControlPrompt, FinishStepPrompt DEF WorkerStep, FinishedStay
<1>2. CASE \E c \in Clients : ClientStep(c)
  <2>1. PICK c \in Clients : ClientStep(c)
    BY <1>2
  <2>2. ~RequestRead(c)
    BY DEF RequestRead
  <2>3. ~RequestWrite(c)
    BY ActorTypes DEF RequestWrite, PromptInv, IInv
  <2> QED
    BY <2>1, <2>2, <2>3, RequestPrompt DEF ClientStep
<1>3. CASE \E e \in Experiments : LeaseExpires(e) \/ BackoffElapses(e)
  BY <1>3, TimePrompt
<1>4. CASE UNCHANGED vars
  BY <1>4 DEF vars, PromptInv, FinishedStay, Holds
<1> QED
  BY <1>1, <1>2, <1>3, <1>4 DEF Next

LEMMA InitPrompt == Init => PromptInv
<1> SUFFICES ASSUME Init
             PROVE  PromptInv
  OBVIOUS
<1>1. \A e \in Experiments : db.job[e] = NoJob
  BY DEF Init, EmptyDatabase
<1>2. \A e \in Experiments : Budgeted(db.job[e])
  BY <1>1, ConstantsAssumption DEF Budgeted, NoJob, Claimable
<1> QED
  BY <1>2 DEF Init, PromptInv, Budgeted, Actors

\* The invariant of prompt transactions.
THEOREM PromptInductive ==
  ASSUME Slow = {}
  PROVE  Spec => []PromptInv
<1>1. Init => PromptInv
  BY InitPrompt
<1>2. IInv /\ PromptInv /\ [Next]_vars => PromptInv'
  BY NextPrompt
<1> QED
  BY <1>1, <1>2, Inductive, PTL DEF Spec

-----------------------------------------------------------------------------
(* The theorems for prompt transactions *)

\* claim_next_job, recover_stale_jobs and the cancellations never take a job from a worker
\* that holds it, for any number of workers, crashes and requests.
THEOREM LeasesAreExclusive ==
  ASSUME Slow = {}
  PROVE  Spec => []LeaseExclusive
<1>1. PromptInv => LeaseExclusive
  BY DEF PromptInv, LeaseExclusive
<1> QED
  BY <1>1, PromptInductive, PTL

\* max_job_attempts bounds the claims of a job through retries, expired leases and restarts
\* (claim_next_job, recover_stale_jobs, _retry_or_fail).
THEOREM AttemptsAreBounded ==
  ASSUME Slow = {}
  PROVE  Spec => []AttemptsBounded
<1>1. PromptInv => AttemptsBounded
  BY DEF PromptInv, AttemptsBounded, Claimable
<1> QED
  BY <1>1, PromptInductive, PTL

\* The experiment handler decides an experiment once (_run_strategy_experiment).
THEOREM DecisionsAreUnique ==
  ASSUME Slow = {}
  PROVE  Spec => []DecidedOnce
<1>1. IInv /\ PromptInv => DecidedOnce
  <2>1. ASSUME IInv, PromptInv, NEW e \in Experiments
        PROVE  decisions[e] <= 1
    <3>1. decisions[e] \in Nat /\ decisions[e] <= IF e \in db.done THEN 1 ELSE 0
      BY <2>1 DEF IInv, TypeOK, PromptInv
    <3> QED
      BY <3>1
  <2> QED
    BY <2>1 DEF DecidedOnce
<1> QED
  BY <1>1, Inductive, PromptInductive, PTL

\* No recovery, retry, cancellation or late worker rewrites a finished job.
THEOREM FinishedJobsAreFinal ==
  ASSUME Slow = {}
  PROVE  Spec => TerminalIsFinal
<1>1. IInv /\ PromptInv /\ [Next]_vars =>
        [\A e \in Experiments : db.job[e].status \in Terminal => db.job[e]' = db.job[e]]_vars
  BY NextPrompt DEF FinishedStay
<1> QED
  BY <1>1, Inductive, PromptInductive, PTL DEF Spec, TerminalIsFinal
-----------------------------------------------------------------------------
(***************************************************************************)
(* With prompt transactions the campaign's job rows and its workers        *)
(* implement the durable job queue: the initial states map to initial      *)
(* states, and every step maps to a step of JobQueue or to none.           *)
(***************************************************************************)
\* What the refinement sees of a step: the status and the attempts of e.
SameRow(e) ==
  db'.job[e].status = db.job[e].status /\ db'.job[e].attempt = db.job[e].attempt

\* A row changes as Maintained says.
RowMaintained(e) ==
  /\ \/ db'.job[e].status = db.job[e].status
     \/ db.job[e].status = "none" /\ db'.job[e].status = "QUEUED"
     \/ db.job[e].status \in Claimable /\ db'.job[e].status = "CANCELLED"
     \/ /\ db.job[e].status = "RUNNING" /\ ~Leaseholder(e)
        /\ db'.job[e].status = IF db.job[e].attempt < MaxAttempts THEN "RETRYING" ELSE "FAILED"
  /\ db'.job[e].attempt = db.job[e].attempt

LEMMA RowMaintains ==
  ASSUME IInv, NEW e \in Experiments, RowMaintained(e)
  PROVE  Queue!Maintained(e)
BY DEF RowMaintained, Queue!Maintained, Queue!Kept, Queue!Submitted, Queue!Withdrawn,
       Queue!Abandoned, Queue!Waiting, Queue!Free, Claimable, Leaseholder

LEMMA InitQueue == Init => Queue!Init
BY DEF Init, EmptyDatabase, NoJob, Queue!Init

\* Steps that leave the workers' tasks alone.
LEMMA RowsMaintain ==
  ASSUME IInv, \A e \in Experiments : RowMaintained(e), task' = task
  PROVE  Queue!Next
BY RowMaintains DEF Queue!Next, Queue!Maintain

\* A job that was never submitted was never claimed.
NoneUnclaimed ==
  \A e \in Experiments : db.job[e].status = "none" => db.job[e].attempt = 0

LEMMA RecoveredMaintained ==
  ASSUME IInv, PromptInv, NoneUnclaimed, NEW e \in Experiments
  PROVE  LET r == Recovered(db)[e] IN
         /\ r.attempt = db.job[e].attempt
         /\ \/ r.status = db.job[e].status
            \/ db.job[e].status = "none" /\ r.status = "QUEUED"
            \/ /\ db.job[e].status = "RUNNING" /\ ~Leaseholder(e)
               /\ r.status = IF db.job[e].attempt < MaxAttempts THEN "RETRYING" ELSE "FAILED"
         /\ r.status \in Claimable /\ r.due => db.job[e].status \in Claimable \cup {"none"}
<1> DEFINE j == db.job[e]
<1>1. j \in Job /\ (j.status = "none" => j.attempt = 0)
  BY BudgetFacts DEF NoneUnclaimed
<1>2. Leaseholder(e) => j.beat = "fresh"
  BY HeldFacts, ActorTypes DEF IInv, Leaseholder
<1>3. Recovered(db)[e] = IF e \in Restored(db) THEN NewJob
                         ELSE IF e \in Stale(db) THEN FlushJob(j, RetryOrFail(j), j) ELSE j
  BY DEF Recovered
<1>4. CASE e \in Restored(db)
  <2>1. j.status = "none" /\ Recovered(db)[e] = NewJob
    BY <1>3, <1>4 DEF Restored
  <2> QED
    BY <2>1, <1>1 DEF NewJob, NoJob, Claimable
<1>5. CASE e \notin Restored(db) /\ e \in Stale(db)
  <2>1. j.status = "RUNNING" /\ ~Leaseholder(e) /\ Recovered(db)[e] = FlushJob(j, RetryOrFail(j), j)
    BY <1>2, <1>3, <1>5 DEF Stale
  <2> HIDE DEF j
  <2>2. /\ FlushJob(j, RetryOrFail(j), j).attempt = j.attempt
        /\ j.attempt < MaxAttempts =>
             /\ FlushJob(j, RetryOrFail(j), j).status = "RETRYING"
             /\ FlushJob(j, RetryOrFail(j), j).due = FALSE
        /\ ~(j.attempt < MaxAttempts) => FlushJob(j, RetryOrFail(j), j).status = "FAILED"
    BY <1>1, <2>1 DEF FlushJob, Write, RetryOrFail, Job
  <2>3. "FAILED" \notin Claimable
    BY DEF Claimable
  <2> QED
    BY <2>1, <2>2, <2>3 DEF j
<1>6. CASE e \notin Restored(db) /\ e \notin Stale(db)
  <2>1. Recovered(db)[e] = j
    BY <1>3, <1>6
  <2> QED
    BY <2>1
<1> QED
  BY <1>4, <1>5, <1>6

\* A poll maintains the queue and may claim a job nobody holds.
LEMMA PollClaims ==
  ASSUME IInv, PromptInv, NoneUnclaimed, NEW w \in Workers, Poll(w)
  PROVE  Queue!Next
<1>1. /\ pc[w] = "idle" /\ task[w] = None /\ db \in Database
  BY ActorTypes DEF Poll, PollCommit, IInv, Shape
<1>2. CASE Eligible(db) = {}
  <2>1. task' = task /\ db'.job = Recovered(db)
    BY <1>1, <1>2 DEF Poll, PollCommit, Database
  <2>2. \A e \in Experiments : RowMaintained(e)
    BY <2>1, RecoveredMaintained DEF RowMaintained
  <2> QED
    BY <2>1, <2>2, RowsMaintain
<1>3. CASE Eligible(db) # {}
  <2>1. PICK e \in Eligible(db) :
          /\ task' = [task EXCEPT ![w] = e]
          /\ db' = [db EXCEPT !.camp = RecoveredCampaign(db),
                              !.job = [Recovered(db) EXCEPT ![e] = Leased(@, w)],
                              !.tested = @ \cup RecoveryTests(db)]
    BY <1>3 DEF Poll, PollCommit
  <2> DEFINE r == Recovered(db)
  <2>2. /\ e \in Experiments /\ r[e] \in Job /\ r[e].attempt < MaxAttempts
        /\ r[e].status \in Claimable /\ r[e].due
    BY RecoveredPrompt DEF Eligible, Budgeted
  <2>3. \A x \in Experiments : db'.job[x] = IF x = e THEN Leased(r[e], w) ELSE r[x]
    BY <1>1, <2>1, RecoveredType DEF Database
  <2>4. r[e].attempt = db.job[e].attempt /\ db.job[e].status \in Claimable \cup {"none"}
    BY <2>2, RecoveredMaintained
  <2>5. Leased(r[e], w).status = "RUNNING" /\ Leased(r[e], w).attempt = r[e].attempt + 1
    BY <2>2 DEF Leased, Job
  <2> HIDE DEF r
  <2>6. \A x \in Experiments \ {e} : RowMaintained(x)
    BY <2>3, RecoveredMaintained DEF RowMaintained, r
  <2>7. \A x \in Experiments \ {e} : Queue!Maintained(x)
    BY <2>6, RowMaintains
  <2>8. \A x \in Workers : task[x] # e
    <3>1. "none" # "RUNNING" /\ "RUNNING" \notin Claimable
      BY DEF Claimable
    <3> QED
      BY <2>2, <2>4, <3>1, HeldFacts, ActorTypes DEF IInv
  <2>9. Queue!Claim(w, e)
    BY <1>1, <2>1, <2>2, <2>3, <2>4, <2>5, <2>7, <2>8
       DEF Queue!Claim, Queue!Free, Queue!Waiting, Claimable
  <2> QED
    BY <2>2, <2>9 DEF Queue!Next
<1> QED
  BY <1>2, <1>3

\* The row a handler leaves: over, or waiting with claims left.
LEMMA HandlerRow ==
  ASSUME IInv, PromptInv, NEW w \in Workers, Finish(w)
  PROVE  /\ task[w] \in Experiments
         /\ \E row : /\ db'.job = [db.job EXCEPT ![task[w]] = row]
                     /\ row.attempt = db.job[task[w]].attempt
                     /\ \/ row.status \in Terminal
                        \/ row.status = "RETRYING" /\ row.attempt < MaxAttempts
         /\ task' = [task EXCEPT ![w] = None]
<1> DEFINE e == task[w]
           j == view[w].job[e]
           s == db.job[e]
           Ended(row) == /\ row.attempt = s.attempt
                         /\ \/ row.status \in Terminal
                            \/ row.status = "RETRYING" /\ row.attempt < MaxAttempts
<1>1. pc[w] = "exec"
  BY DEF Finish, CancelBefore, Succeed, Fail, Interrupt, Handling
<1>2. e \in Experiments /\ e # None /\ j \in Job /\ s \in Job /\ CurrentRow(j, s) /\ s.status = "RUNNING"
  BY <1>1, ExecFacts, HeldFacts, ActorTypes DEF IInv, Shape, PromptInv
<1>3. /\ Ended(FlushJob(j, [j EXCEPT !.status = "CANCELLED"], s))
      /\ Ended(FlushJob(j, [j EXCEPT !.status = "FAILED"], s))
      /\ Ended(FlushJob(j, RetryOrFail(j), s))
      /\ Ended([s EXCEPT !.status = IF s.cancel THEN "CANCELLED" ELSE "SUCCEEDED"])
  <2> HIDE DEF j, s
  <2>1. Ended(FlushJob(j, [j EXCEPT !.status = "CANCELLED"], s))
    BY <1>2 DEF FlushJob, Write, CurrentRow, Job, Terminal
  <2>2. Ended(FlushJob(j, [j EXCEPT !.status = "FAILED"], s))
    BY <1>2 DEF FlushJob, Write, CurrentRow, Job, Terminal
  <2>3. Ended(FlushJob(j, RetryOrFail(j), s))
    BY <1>2 DEF FlushJob, Write, CurrentRow, Job, Terminal, RetryOrFail
  <2>4. Ended([s EXCEPT !.status = IF s.cancel THEN "CANCELLED" ELSE "SUCCEEDED"])
    BY <1>2 DEF Job, Terminal
  <2> QED
    BY <2>1, <2>2, <2>3, <2>4
<1>4. \E row, d, t, used : ExecCommit(w, row, d, t, used) /\ Ended(row)
  <2>1. CASE CancelBefore(w)
    BY <2>1, <1>3 DEF CancelBefore, ErrorRow
  <2>2. CASE Interrupt(w)
    BY <2>2, <1>3 DEF Interrupt, ErrorRow
  <2>3. CASE Fail(w)
    BY <2>3, <1>3 DEF Fail, ErrorRow
  <2>4. CASE Succeed(w)
    BY <2>4, <1>3 DEF Succeed
  <2> QED
    BY <2>1, <2>2, <2>3, <2>4 DEF Finish
<1>5. PICK row, d, t, used : ExecCommit(w, row, d, t, used) /\ Ended(row)
  BY <1>4
<1>6. db'.job = [db.job EXCEPT ![e] = row] /\ task' = [task EXCEPT ![w] = None]
  BY <1>5 DEF ExecCommit
<1> QED
  BY <1>2, <1>5, <1>6

LEMMA FinishEnds ==
  ASSUME IInv, PromptInv, NEW w \in Workers, Finish(w)
  PROVE  Queue!Next
<1>0. PICK e \in Experiments : e = task[w]
  BY HandlerRow
<1>1. PICK row : /\ db'.job = [db.job EXCEPT ![e] = row]
                 /\ row.attempt = db.job[e].attempt
                 /\ \/ row.status \in Terminal
                    \/ row.status = "RETRYING" /\ row.attempt < MaxAttempts
  BY <1>0, HandlerRow
<1>2. e # None /\ task' = [task EXCEPT ![w] = None]
  BY <1>0, HandlerRow, ActorTypes DEF IInv
<1>3. db.job[e].status = "RUNNING"
  BY <1>0, <1>2, HeldFacts
<1>4. \A x \in Experiments : db'.job[x] = IF x = e THEN row ELSE db.job[x]
  BY <1>1 DEF IInv, TypeOK, Database
<1>5. /\ db'.job[e].status = row.status /\ db'.job[e].attempt = db.job[e].attempt
      /\ \A x \in Experiments \ {e} : db'.job[x] = db.job[x]
  BY <1>1, <1>2, <1>4
<1>6. Queue!Finish(w, e)
  <2>1. \/ db'.job[e].status \in {"SUCCEEDED", "FAILED", "CANCELLED"}
        \/ db'.job[e].status = "RETRYING" /\ db.job[e].attempt < MaxAttempts
    BY <1>1, <1>5 DEF Terminal
  <2>2. \A x \in Experiments : db'.job[x].attempt = db.job[x].attempt
    BY <1>5
  <2>3. [x \in Experiments |-> db'.job[x].attempt] = [x \in Experiments |-> db.job[x].attempt]
    BY <2>2
  <2>4. \A x \in Experiments \ {e} : Queue!Kept(x)
    BY <1>5 DEF Queue!Kept
  <2> QED
    BY <1>0, <1>2, <1>3, <2>1, <2>3, <2>4 DEF Queue!Finish, Queue!Over
<1> QED
  BY <1>6 DEF Queue!Next

LEMMA ControlMaps ==
  ASSUME IInv, PromptInv, NEW w \in Workers,
         ExecStart(w) \/ LeaseLost(w) \/ Crash(w) \/ Restart(w)
  PROVE  [Queue!Next]_Queue!vars
<1>1. db' = db /\ (task' = task \/ task' = [task EXCEPT ![w] = None])
  BY DEF ExecStart, LeaseLost, Crash, Restart
<1>2. CASE task' = task
  BY <1>1, <1>2 DEF Queue!vars
<1>3. CASE task' = [task EXCEPT ![w] = None]
  BY <1>1, <1>3 DEF Queue!Next, Queue!Die
<1> QED
  BY <1>1, <1>2, <1>3

LEMMA TimeMaps ==
  ASSUME IInv, NEW e \in Experiments, LeaseExpires(e) \/ BackoffElapses(e)
  PROVE  Queue!Next
<1>1. /\ task' = task
      /\ \A x \in Experiments : SameRow(x)
  <2>1. db.job[e] \in Job /\ db.job \in [Experiments -> Job] /\ db \in Database
    BY DEF IInv, TypeOK, Database
  <2>2. PICK j : /\ db' = [db EXCEPT !.job = [@ EXCEPT ![e] = j]]
                 /\ \/ j = [db.job[e] EXCEPT !.beat = "old"]
                    \/ j = [db.job[e] EXCEPT !.due = TRUE]
    <3>1. CASE LeaseExpires(e)
      BY <3>1 DEF LeaseExpires
    <3>2. CASE BackoffElapses(e)
      BY <3>2 DEF BackoffElapses
    <3> QED
      BY <3>1, <3>2
  <2>3. j.status = db.job[e].status /\ j.attempt = db.job[e].attempt
    BY <2>1, <2>2 DEF Job
  <2>4. \A x \in Experiments : db'.job[x] = IF x = e THEN j ELSE db.job[x]
    BY <2>1, <2>2 DEF Database
  <2>5. task' = task
    BY DEF LeaseExpires, BackoffElapses
  <2> QED
    BY <2>3, <2>4, <2>5 DEF SameRow
<1> QED
  BY <1>1, RowsMaintain DEF SameRow, RowMaintained

LEMMA RequestMaps ==
  ASSUME IInv, NoneUnclaimed, NEW c \in Clients, Request(c)
  PROVE  Queue!Next
<1>1. task' = task
  BY RequestRows
<1>2. ASSUME NEW e \in Experiments
      PROVE  RowMaintained(e)
  <2>1. db.job[e] \in Job /\ (db.job[e].status = "none" => db.job[e].attempt = 0)
    BY DEF IInv, TypeOK, Database, NoneUnclaimed
  <2>2. \/ db'.job[e] = db.job[e]
        \/ db.job[e].status = "none" /\ db'.job[e] = NewJob
        \/ db.job[e].status \in Claimable
             /\ db'.job[e] = [db.job[e] EXCEPT !.status = "CANCELLED"]
        \/ db.job[e].status = "RUNNING" /\ db'.job[e] = [db.job[e] EXCEPT !.cancel = TRUE]
    BY RequestRows
  <2> QED
    BY <2>1, <2>2 DEF RowMaintained, NewJob, NoJob, Job
<1> QED
  BY <1>1, <1>2, RowsMaintain

LEMMA NextMaps ==
  ASSUME Slow = {}, IInv, PromptInv, NoneUnclaimed, [Next]_vars
  PROVE  [Queue!Next]_Queue!vars
<1>1. CASE \E w \in Workers : WorkerStep(w)
  <2>1. PICK w \in Workers : WorkerStep(w)
    BY <1>1
  <2>2. ~PollRead(w) /\ ~PollWrite(w)
    BY ActorTypes DEF PollRead, PollWrite, PromptInv, IInv
  <2> QED
    BY <2>1, <2>2, PollClaims, FinishEnds, ControlMaps DEF WorkerStep
<1>2. CASE \E c \in Clients : ClientStep(c)
  <2>1. PICK c \in Clients : ClientStep(c)
    BY <1>2
  <2>2. ~RequestRead(c) /\ ~RequestWrite(c)
    BY ActorTypes DEF RequestRead, RequestWrite, PromptInv, IInv
  <2> QED
    BY <2>1, <2>2, RequestMaps DEF ClientStep
<1>3. CASE \E e \in Experiments : LeaseExpires(e) \/ BackoffElapses(e)
  BY <1>3, TimeMaps
<1>4. CASE UNCHANGED vars
  BY <1>4 DEF vars, Queue!vars
<1> QED
  BY <1>1, <1>2, <1>3, <1>4 DEF Next

LEMMA NoneStaysUnclaimed ==
  ASSUME IInv, NoneUnclaimed, [Queue!Next]_Queue!vars
  PROVE  NoneUnclaimed'
<1> DEFINE state == [e \in Experiments |-> db.job[e].status]
           claims == [e \in Experiments |-> db.job[e].attempt]
<1>1. ASSUME NEW e \in Experiments, state'[e] = "none"
      PROVE  state[e] = "none" /\ claims'[e] = claims[e]
  <2>1. CASE Queue!Maintain
    BY <1>1, <2>1 DEF Queue!Maintain, Queue!Maintained, Queue!Kept, Queue!Submitted,
                      Queue!Withdrawn, Queue!Abandoned
  <2>2. CASE \E w \in Workers, j \in Experiments : Queue!Claim(w, j)
    BY <1>1, <2>2 DEF Queue!Claim, Queue!Maintained, Queue!Kept, Queue!Submitted,
                      Queue!Withdrawn, Queue!Abandoned
  <2>3. CASE \E w \in Workers, j \in Experiments : Queue!Finish(w, j)
    BY <1>1, <2>3 DEF Queue!Finish, Queue!Kept, Queue!Over
  <2>4. CASE (\E w \in Workers : Queue!Die(w)) \/ UNCHANGED Queue!vars
    BY <1>1, <2>4 DEF Queue!Die, Queue!vars
  <2> QED
    BY <2>1, <2>2, <2>3, <2>4 DEF Queue!Next
<1> QED
  BY <1>1 DEF NoneUnclaimed

LEMMA InitUnclaimed == Init => NoneUnclaimed
BY DEF Init, EmptyDatabase, NoJob, NoneUnclaimed

\* The campaign's queue (claim_next_job, recover_stale_jobs, recover_interrupted_campaigns,
\* _retry_or_fail, run_campaign and the cancellations) implements the durable job queue, for
\* any number of experiments, workers, clients, attempts, crashes and requests.
THEOREM QueueIsImplemented ==
  ASSUME Slow = {}
  PROVE  Spec => ImplementsJobQueue
<1>1. Init => Queue!Init /\ NoneUnclaimed
  BY InitQueue, InitUnclaimed
<1>2. IInv /\ PromptInv /\ NoneUnclaimed /\ [Next]_vars
        => NoneUnclaimed' /\ [Queue!Next]_Queue!vars
  BY NextMaps, NoneStaysUnclaimed
<1> QED
  BY <1>1, <1>2, Inductive, PromptInductive, PTL DEF Spec, ImplementsJobQueue, Queue!Spec
-----------------------------------------------------------------------------
(***************************************************************************)
(* The locked test split.  With prompt transactions the rows remember      *)
(* every evaluation: a finalization evaluates only finalists that have no  *)
(* test metrics, and a handler rewrites only the evaluation of an          *)
(* experiment that never had any.                                          *)
(***************************************************************************)

\* Only evaluated experiments are counted.
LEMMA BumpCounts ==
  ASSUME NEW counts \in [Experiments -> Nat], NEW s, NEW e \in Experiments,
         Bump(counts, s)[e] > counts[e]
  PROVE  e \in s
BY DEF Bump

\* A finalization leaves no finalist untested.
LEMMA EvaluatesAll ==
  ASSUME NEW jobs, NEW d, NEW t, Finalizes(jobs)
  PROVE  /\ Top(d) \subseteq t \cup Evaluates(jobs, d, t)
         /\ t \cap Evaluates(jobs, d, t) = {}
BY DEF Evaluates

LEMMA EvaluatesNothing ==
  ASSUME NEW jobs, NEW d, NEW t, ~Finalizes(jobs)
  PROVE  Evaluates(jobs, d, t) = {}
BY DEF Evaluates

\* The refresh of a campaign that has jobs shows it as completed only by finalizing it.
LEMMA RefreshCompletes ==
  ASSUME NEW c \in Campaign, NEW jobs, NEW d \in SUBSET Experiments, NEW t,
         \E e \in Experiments : jobs[e].status # "none",
         RefreshCampaign(c, jobs, d, t).status = "completed"
  PROVE  Finalizes(jobs) /\ RefreshCampaign(c, jobs, d, t).report = d
<1>1. /\ [c EXCEPT !.status = "running"].status = "running"
      /\ [c EXCEPT !.status = "failed"].status = "failed"
  BY DEF Campaign
<1>2. Finalizes(jobs)
  BY <1>1 DEF RefreshCampaign, Finalizes
<1> QED
  BY <1>2, RefreshFacts

\* A step of a worker evaluates on the test split only if it leaves no active job behind.
WorkersTestLast ==
  \A e \in Experiments : testRuns'[e] > testRuns[e] /\ requests' = requests =>
    \A x \in Experiments : db'.job[x].status \notin Active

\* What the campaign's refresh goes by is what recovery leaves, when the reads are current.
LEMMA SeenIsRecovered ==
  ASSUME NEW e \in Experiments
  PROVE  Seen(db)[e] = Recovered(db)[e]
<1>1. e \in Restored(db) => db.job[e].status = "none"
  BY DEF Restored
<1> QED
  BY <1>1 DEF Seen, Recovered

LEMMA PollTests ==
  ASSUME IInv, EvaluationInv, NEW w \in Workers, Poll(w)
  PROVE  EvaluationInv' /\ WorkersTestLast
<1> DEFINE run == RecoveryTests(db)
           jobs == Seen(db)
           c == RefreshCampaign(db.camp, jobs, db.done, db.tested)
<1>1. /\ db \in Database /\ db.camp \in Campaign /\ db.done \in SUBSET Experiments
      /\ testRuns \in [Experiments -> Nat] /\ Recovered(db) \in [Experiments -> Job]
  BY RecoveredType DEF IInv, TypeOK, Database
<1>2. /\ db'.camp = RecoveredCampaign(db) /\ db'.done = db.done
      /\ db'.tested = db.tested \cup run
      /\ Eligible(db) = {} => db'.job = Recovered(db)
      /\ testRuns' = Bump(testRuns, run)
  <2>1. /\ testRuns' = Bump(testRuns, run)
        /\ \E j : db' = [db EXCEPT !.camp = RecoveredCampaign(db), !.job = j,
                                   !.tested = @ \cup run]
        /\ Eligible(db) = {} =>
             db' = [db EXCEPT !.camp = RecoveredCampaign(db), !.job = Recovered(db),
                              !.tested = @ \cup run]
    BY DEF Poll, PollCommit
  <2> HIDE DEF run
  <2> QED
    BY <1>1, <2>1 DEF Database
<1>3. run \subseteq db.done /\ run \cap db.tested = {}
  BY <1>1, EvaluatesSubset DEF RecoveryTests, Evaluates
<1>4. \A e \in Experiments : testRuns'[e] = IF e \in db'.tested THEN 1 ELSE 0
  <2> HIDE DEF run
  <2>1. \A e \in Experiments : testRuns[e] = IF e \in db.tested THEN 1 ELSE 0
    BY DEF EvaluationInv
  <2>2. \A e \in Experiments :
          Bump(testRuns, run)[e] = IF e \in db.tested \cup run THEN 1 ELSE 0
    BY <1>1, <1>3, <2>1 DEF Bump
  <2> QED
    BY <1>2, <2>2
<1>5. CompletedReportIsCurrent'
  <2>1. CASE ~Resumes(db)
    BY <1>1, <1>2, <2>1 DEF RecoveredCampaign, RecoveryTests, EvaluationInv,
       CompletedReportIsCurrent
  <2>2. CASE Resumes(db) /\ Finalizes(jobs)
    <3>1. c.report = db.done
      BY <1>1, <2>2, RefreshFacts
    <3>2. db'.camp.report = db.done
      BY <1>2, <2>2, <3>1 DEF RecoveredCampaign
    <3>3. Top(db.done) \subseteq db'.tested
      BY <1>2, <2>2, EvaluatesAll DEF RecoveryTests
    <3> QED
      BY <1>2, <3>2, <3>3 DEF CompletedReportIsCurrent
  <2>3. CASE Resumes(db) /\ ~Finalizes(jobs)
    <3>1. db.camp.status # "completed"
      BY <2>3 DEF Resumes, Resumable
    <3>2. c.status # "completed"
      BY <1>1, <2>3, <3>1, RefreshFacts
    <3>3. db'.camp.status # "completed"
      BY <1>2, <2>3, <3>1, <3>2 DEF RecoveredCampaign, Write
    <3> QED
      BY <3>3 DEF CompletedReportIsCurrent
  <2> QED
    BY <2>1, <2>2, <2>3
<1>6. WorkersTestLast
  <2> SUFFICES ASSUME NEW e \in Experiments, testRuns'[e] > testRuns[e],
                      NEW x \in Experiments
               PROVE  db'.job[x].status \notin Active
    BY DEF WorkersTestLast
  <2>1. e \in run
    BY <1>1, <1>2, BumpCounts
  <2>2. Finalizes(jobs)
    BY <2>1, EvaluatesNothing DEF RecoveryTests
  <2>3. \A y \in Experiments : Recovered(db)[y].status \notin Active
    BY <2>2, SeenIsRecovered DEF Finalizes
  <2>4. Eligible(db) = {}
    BY <2>3 DEF Eligible, Active
  <2> QED
    BY <1>2, <2>3, <2>4
<1> QED
  BY <1>2, <1>3, <1>4, <1>5, <1>6 DEF EvaluationInv

\* A handler that rewrites an evaluation finds no test metrics in it: the experiment it ran
\* was not completed, and only completed experiments have any.
LEMMA HandlerTests ==
  ASSUME IInv, PromptInv, EvaluationInv, NEW w \in Workers, Finish(w)
  PROVE  \E row, d, used : /\ ExecCommit(w, row, d, db.tested, used)
                           /\ row.status # "none"
                           /\ d \in SUBSET Experiments /\ db.done \subseteq d
                           /\ used \in [experiments : Nat, tests : Nat]
<1> DEFINE e == task[w]
           u == [view[w].camp.used EXCEPT !.experiments = @ + 1]
<1>1. pc[w] = "exec"
  BY DEF Finish, CancelBefore, Succeed, Fail, Interrupt, Handling
<1>2. /\ e \in Experiments /\ db.job \in [Experiments -> Job]
      /\ db.done \in SUBSET Experiments /\ view[w].done = db.done \cap {e}
      /\ db.camp.used \in [experiments : Nat, tests : Nat]
      /\ u \in [experiments : Nat, tests : Nat]
  BY <1>1, ExecFacts DEF PromptInv, IInv, TypeOK, Database
<1>3. e \notin view[w].done => db.tested \ {e} = db.tested
  BY <1>2 DEF EvaluationInv
<1>4. PICK row, d, used : /\ ExecCommit(w, row, d, db.tested, used)
                          /\ d \in SUBSET Experiments /\ db.done \subseteq d
                          /\ used \in [experiments : Nat, tests : Nat]
  <2>1. CASE CancelBefore(w)
    BY <1>2, <2>1 DEF CancelBefore
  <2>2. CASE Interrupt(w)
    BY <1>2, <2>2 DEF Interrupt
  <2>3. CASE Fail(w)
    <3>1. e \notin view[w].done
      BY <2>3 DEF Fail
    <3>2. PICK late \in {FALSE, RequireStress} : \E row :
            ExecCommit(w, row, IF late THEN db.done \cup {e} ELSE db.done,
                       IF late THEN db.tested \ {e} ELSE db.tested, db.camp.used)
      BY <2>3 DEF Fail
    <3>3. CASE late
      <4>1. \E row : ExecCommit(w, row, db.done \cup {e}, db.tested, db.camp.used)
        BY <1>3, <3>1, <3>2, <3>3
      <4> QED
        BY <1>2, <4>1
    <3>4. CASE ~late
      <4>1. \E row : ExecCommit(w, row, db.done, db.tested, db.camp.used)
        BY <3>2, <3>4
      <4> QED
        BY <1>2, <4>1
    <3> QED
      BY <3>3, <3>4
  <2>4. CASE Succeed(w)
    <3>1. CASE e \in view[w].done
      BY <1>2, <2>4, <3>1 DEF Succeed
    <3>2. CASE e \notin view[w].done
      <4>1. \E row : ExecCommit(w, row, db.done \cup {e}, db.tested \ {e}, u)
        BY <2>4, <3>2 DEF Succeed
      <4>2. \E row : ExecCommit(w, row, db.done \cup {e}, db.tested, u)
        BY <1>3, <3>2, <4>1
      <4> HIDE DEF u, e
      <4>3. db.done \cup {e} \in SUBSET Experiments
        BY <1>2
      <4> QED
        BY <1>2, <4>2, <4>3
    <3> QED
      BY <3>1, <3>2
  <2> QED
    BY <2>1, <2>2, <2>3, <2>4 DEF Finish
<1>5. db'.job = [db.job EXCEPT ![e] = row]
  BY <1>4 DEF ExecCommit
<1>6. PICK r : db'.job = [db.job EXCEPT ![e] = r] /\ r.status # "none"
  BY HandlerRow DEF Terminal
<1>7. row = r
  BY <1>2, <1>5, <1>6
<1> QED
  BY <1>4, <1>6, <1>7

LEMMA FinishTests ==
  ASSUME IInv, PromptInv, EvaluationInv, NEW w \in Workers, Finish(w)
  PROVE  EvaluationInv' /\ WorkersTestLast
<1>1. PICK row, d, used : /\ ExecCommit(w, row, d, db.tested, used)
                          /\ row.status # "none"
                          /\ d \in SUBSET Experiments /\ db.done \subseteq d
                          /\ used \in [experiments : Nat, tests : Nat]
  BY HandlerTests
<1> DEFINE jobs == [db.job EXCEPT ![task[w]] = row]
           run  == Evaluates(jobs, d, db.tested)
           c0   == [db.camp EXCEPT !.used = used]
           c    == RefreshCampaign(c0, jobs, d, db.tested)
<1>2. /\ task[w] \in Experiments /\ db.job \in [Experiments -> Job]
      /\ testRuns \in [Experiments -> Nat] /\ c0 \in Campaign
  BY <1>1, HandlerRow DEF IInv, TypeOK, Database, Campaign
<1>3. \E e \in Experiments : jobs[e].status # "none"
  BY <1>1, <1>2
<1>4. /\ db' = [camp |-> c, job |-> jobs, done |-> d, tested |-> db.tested \cup run]
      /\ testRuns' = Bump(testRuns, run)
  BY <1>1 DEF ExecCommit
<1>5. run \subseteq d /\ run \cap db.tested = {}
  BY <1>1, EvaluatesSubset DEF Evaluates
<1> HIDE DEF jobs, run, c0
<1>6. \A e \in Experiments : testRuns'[e] = IF e \in db'.tested THEN 1 ELSE 0
  <2>1. \A e \in Experiments : testRuns[e] = IF e \in db.tested THEN 1 ELSE 0
    BY DEF EvaluationInv
  <2>2. \A e \in Experiments :
          Bump(testRuns, run)[e] = IF e \in db.tested \cup run THEN 1 ELSE 0
    <3>1. testRuns \in [Experiments -> Nat] /\ run \cap db.tested = {}
      BY <1>2, <1>5
    <3> QED
      BY <2>1, <3>1 DEF Bump
  <2> QED
    BY <1>4, <2>2
<1>7. CompletedReportIsCurrent'
  <2>1. c.status = "completed" => Finalizes(jobs) /\ c.report = d
    BY <1>1, <1>2, <1>3, RefreshCompletes
  <2>2. Finalizes(jobs) => Top(d) \subseteq db'.tested
    BY <1>4, EvaluatesAll DEF run
  <2> HIDE DEF c
  <2> QED
    BY <1>4, <2>1, <2>2 DEF CompletedReportIsCurrent
<1>8. WorkersTestLast
  <2> SUFFICES ASSUME NEW e \in Experiments, testRuns'[e] > testRuns[e],
                      NEW x \in Experiments
               PROVE  db'.job[x].status \notin Active
    BY DEF WorkersTestLast
  <2>1. e \in run
    BY <1>2, <1>4, BumpCounts
  <2>2. Finalizes(jobs)
    BY <2>1, EvaluatesNothing DEF run
  <2> QED
    BY <1>4, <2>2 DEF Finalizes
<1>9. db'.tested \subseteq db'.done
  BY <1>1, <1>4, <1>5 DEF EvaluationInv
<1> QED
  BY <1>6, <1>7, <1>8, <1>9 DEF EvaluationInv

\* Requests that start or cancel jobs take the campaign out of completed or leave its row; a
\* request for the report finalizes a campaign that has none.
LEMMA RequestTests ==
  ASSUME IInv, EvaluationInv, NEW c \in Clients, Request(c)
  PROVE  EvaluationInv' /\ WorkersTestLast
<1>1. PICK r \in Call : Respond(r, db)
  BY DEF Request, Offered
<1>2. /\ db \in Database /\ db.camp \in Campaign /\ db.done \in SUBSET Experiments
      /\ testRuns \in [Experiments -> Nat] /\ requests \in Nat
  BY ConstantsAssumption DEF IInv, TypeOK, Database
<1>3. WorkersTestLast
  <2>1. requests' = requests + 1
    BY DEF Request
  <2>2. requests' # requests
    BY <1>2, <2>1
  <2> QED
    BY <2>2 DEF WorkersTestLast
<1>4. ASSUME db'.done = db.done, db'.tested = db.tested, testRuns' = testRuns,
             db'.camp.status = "completed" => db'.camp = db.camp
      PROVE  EvaluationInv'
  BY <1>4 DEF EvaluationInv, CompletedReportIsCurrent
<1>6. CASE r.op = "run"
  <2>1. RunCampaign(db, r.batch)
    BY <1>1, <1>6 DEF Respond
  <2>2. CASE db' = db
    BY <1>3, <1>4, <2>1, <2>2 DEF RunCampaign
  <2>3. CASE db' # db
    <3>1. \E jobs : db' = [db EXCEPT !.camp.status = Write(db.camp.status, "queued", @),
                                     !.job = jobs]
      BY <2>1, <2>3 DEF RunCampaign
    <3>2. /\ db'.done = db.done /\ db'.tested = db.tested
          /\ db'.camp.status = Write(db.camp.status, "queued", db.camp.status)
      BY <1>2, <3>1 DEF Database, Campaign
    <3>3. db'.camp.status # "completed"
      BY <3>2 DEF Write
    <3> QED
      BY <1>3, <1>4, <2>1, <3>2, <3>3 DEF RunCampaign
  <2> QED
    BY <2>2, <2>3
<1>7. CASE r.op = "cancel"
  <2>1. /\ \E jobs : db' = [db EXCEPT !.camp.status = Write(db.camp.status, "cancelled", @),
                                      !.job = jobs]
        /\ testRuns' = testRuns
    BY <1>1, <1>7 DEF Respond, CancelCampaign
  <2>2. /\ db'.done = db.done /\ db'.tested = db.tested
        /\ db'.camp.status = Write(db.camp.status, "cancelled", db.camp.status)
    BY <1>2, <2>1 DEF Database, Campaign
  <2>3. db'.camp.status # "completed"
    BY <2>2 DEF Write
  <2> QED
    BY <1>3, <1>4, <2>1, <2>2, <2>3
<1>8. CASE r.op = "cancel_job"
  <2>1. CancelJob(db, r.exp)
    BY <1>1, <1>8 DEF Respond
  <2>2. CASE db' = db
    BY <1>3, <1>4, <2>1, <2>2 DEF CancelJob
  <2>3. CASE db' # db
    <3>1. \/ db' = [db EXCEPT !.job[r.exp].cancel = TRUE]
          \/ db' = [db EXCEPT !.job[r.exp].status = "CANCELLED"]
      BY <2>1, <2>3 DEF CancelJob
    <3>2. db'.done = db.done /\ db'.tested = db.tested /\ db'.camp = db.camp
      BY <1>2, <3>1 DEF Database
    <3> QED
      BY <1>3, <1>4, <2>1, <3>2 DEF CancelJob
  <2> QED
    BY <2>2, <2>3
<1>9. CASE r.op = "report"
  <2> DEFINE run == Top(db.done) \ db.tested
             f == FinalizeCampaign(db.camp, db.done, db.tested)
  <2>1. GetReport(db)
    BY <1>1, <1>9 DEF Respond
  <2>2. CASE db.camp.report # None
    BY <1>3, <1>4, <2>1, <2>2 DEF GetReport
  <2>3. CASE db.camp.report = None
    <3>1. /\ db' = [db EXCEPT !.camp = [status |-> Write(db.camp.status, f.status,
                                                           db.camp.status),
                                        used   |-> Write(db.camp.used, f.used, db.camp.used),
                                        report |-> f.report],
                              !.tested = @ \cup run]
          /\ testRuns' = Bump(testRuns, run)
      BY <2>1, <2>3 DEF GetReport
    <3>2. f.report = db.done
      BY <1>2 DEF FinalizeCampaign, Campaign
    <3> HIDE DEF run, f
    <3>3. /\ db'.done = db.done /\ db'.tested = db.tested \cup run
          /\ db'.camp.report = db.done
      BY <1>2, <3>1, <3>2 DEF Database
    <3>4. run \subseteq db.done /\ run \cap db.tested = {}
          /\ Top(db.done) \subseteq db.tested \cup run
      BY TopSubset DEF run
    <3>5. \A e \in Experiments : testRuns'[e] = IF e \in db'.tested THEN 1 ELSE 0
      <4>1. \A e \in Experiments : testRuns[e] = IF e \in db.tested THEN 1 ELSE 0
        BY DEF EvaluationInv
      <4>2. \A e \in Experiments :
              Bump(testRuns, run)[e] = IF e \in db.tested \cup run THEN 1 ELSE 0
        <5>1. testRuns \in [Experiments -> Nat] /\ run \cap db.tested = {}
          BY <1>2, <3>4
        <5> QED
          BY <4>1, <5>1 DEF Bump
      <4> QED
        BY <3>1, <3>3, <4>2
    <3> QED
      BY <1>3, <3>3, <3>4, <3>5 DEF EvaluationInv, CompletedReportIsCurrent
  <2> QED
    BY <2>2, <2>3
<1> QED
  BY <1>6, <1>7, <1>8, <1>9 DEF Call

\* Every other step leaves the campaign, its experiments and its evaluations alone.
LEMMA QuietTests ==
  ASSUME IInv, EvaluationInv, testRuns' = testRuns,
         \/ db' = db
         \/ \E e \in Experiments : LeaseExpires(e) \/ BackoffElapses(e)
  PROVE  EvaluationInv' /\ WorkersTestLast
<1>1. db'.camp = db.camp /\ db'.done = db.done /\ db'.tested = db.tested
  BY DEF IInv, TypeOK, Database, LeaseExpires, BackoffElapses
<1>2. \A e \in Experiments : testRuns[e] \in Nat
  BY DEF IInv, TypeOK
<1>3. WorkersTestLast
  BY <1>2 DEF WorkersTestLast
<1> QED
  BY <1>1, <1>3 DEF EvaluationInv, CompletedReportIsCurrent

LEMMA NextTests ==
  ASSUME IInv, PromptInv, EvaluationInv, Slow = {}, [Next]_vars
  PROVE  EvaluationInv' /\ WorkersTestLast
<1>1. CASE \E w \in Workers : WorkerStep(w)
  <2>1. PICK w \in Workers : WorkerStep(w)
    BY <1>1
  <2>2. ~PollRead(w)
    BY DEF PollRead
  <2>3. ~PollWrite(w)
    BY ActorTypes DEF PollWrite, PromptInv, IInv
  <2>4. CASE ExecStart(w) \/ LeaseLost(w) \/ Crash(w) \/ Restart(w)
    <3>1. db' = db /\ testRuns' = testRuns
      BY <2>4 DEF ExecStart, LeaseLost, Crash, Restart
    <3> QED
      BY <3>1, QuietTests
  <2> QED
    BY <2>1, <2>2, <2>3, <2>4, PollTests, FinishTests DEF WorkerStep
<1>2. CASE \E c \in Clients : ClientStep(c)
  <2>1. PICK c \in Clients : ClientStep(c)
    BY <1>2
  <2>2. ~RequestRead(c)
    BY DEF RequestRead
  <2>3. ~RequestWrite(c)
    BY ActorTypes DEF RequestWrite, PromptInv, IInv
  <2> QED
    BY <2>1, <2>2, <2>3, RequestTests DEF ClientStep
<1>3. CASE \E e \in Experiments : LeaseExpires(e) \/ BackoffElapses(e)
  <2>1. testRuns' = testRuns
    BY <1>3 DEF LeaseExpires, BackoffElapses
  <2> QED
    BY <1>3, <2>1, QuietTests
<1>4. CASE UNCHANGED vars
  <2>1. db' = db /\ testRuns' = testRuns
    BY <1>4 DEF vars
  <2> QED
    BY <2>1, QuietTests
<1> QED
  BY <1>1, <1>2, <1>3, <1>4 DEF Next

LEMMA InitTests == Init => EvaluationInv
BY DEF Init, EmptyDatabase, EvaluationInv, CompletedReportIsCurrent

\* The invariant of the locked test split.
THEOREM EvaluationInductive ==
  ASSUME Slow = {}
  PROVE  Spec => []EvaluationInv
<1>1. Init => EvaluationInv
  BY InitTests
<1>2. IInv /\ PromptInv /\ EvaluationInv /\ [Next]_vars => EvaluationInv'
  BY NextTests
<1> QED
  BY <1>1, <1>2, Inductive, PromptInductive, PTL DEF Spec

\* _run_locked_test_evaluations spends the test split once per experiment, whatever crashes,
\* retries, second batches and report requests happen.
THEOREM TestsAreUnique ==
  ASSUME Slow = {}
  PROVE  Spec => []TestedOnce
<1>1. EvaluationInv => TestedOnce
  BY DEF EvaluationInv, TestedOnce
<1> QED
  BY <1>1, EvaluationInductive, PTL

\* finalize_campaign is run again whenever more experiments complete: a campaign shown as
\* completed reports all of them, and all its finalists were tested.
THEOREM ReportsAreCurrent ==
  ASSUME Slow = {}
  PROVE  Spec => []CompletedReportIsCurrent
<1>1. EvaluationInv => CompletedReportIsCurrent
  BY DEF EvaluationInv
<1> QED
  BY <1>1, EvaluationInductive, PTL

\* _refresh_campaign_state finalizes only when every job is over, so no worker opens the test
\* split while a job is queued, retrying or running.
THEOREM TestStaysLockedForWorkers ==
  ASSUME Slow = {}
  PROVE  Spec => WorkersKeepTestLocked
<1>1. IInv /\ PromptInv /\ EvaluationInv /\ [Next]_vars =>
        [\A e \in Experiments : testRuns'[e] > testRuns[e] /\ requests' = requests =>
           \A x \in Experiments : ~ActiveJob(x)']_vars
  BY NextTests DEF WorkersTestLast, ActiveJob
<1> QED
  BY <1>1, Inductive, PromptInductive, EvaluationInductive, PTL DEF Spec, WorkersKeepTestLocked
=============================================================================
