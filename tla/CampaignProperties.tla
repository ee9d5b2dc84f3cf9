------------------------- MODULE CampaignProperties -------------------------
(***************************************************************************)
(* What the campaign queue promises.  The first group holds whatever       *)
(* interleaves; the second needs prompt transactions (Slow = {}): leases   *)
(* that outlast their handlers, polls and requests that commit what they   *)
(* have just read.  The last group states what the documentation says and  *)
(* the code does not do.                                                   *)
(***************************************************************************)
EXTENDS CampaignQueue

ActiveJob(e) == db.job[e].status \in Active

-----------------------------------------------------------------------------
(* Whatever interleaves *)

\* A job reports success only if its experiment is stored as completed, even when a worker
\* that lost its lease, a slow poll or a cancellation overwrote the job row in between.
SucceededIsCompleted ==
  \A e \in Experiments : db.job[e].status = "SUCCEEDED" => e \in db.done

\* budget_used.experiments never exceeds the completed experiments, although every
\* transaction writes the whole budget column from the copy it loaded.
BudgetNeverOvercounts == db.camp.used.experiments <= Cardinality(db.done)

\* The locked test split is spent on completed experiments only, and the stored report
\* never names an experiment that is not completed, however old the finalizer's reads are.
ConclusionsAreCompleted ==
  /\ \A e \in Experiments : testRuns[e] > 0 => e \in db.done
  /\ db.camp.report # None => db.camp.report \subseteq db.done

\* A campaign is shown as completed only once a report has been stored for it.
CompletedHasReport == db.camp.status = "completed" => db.camp.report # None

(***************************************************************************)
(* The inductive invariant behind the properties that hold whatever        *)
(* interleaves.  An actor may work from reads of any age, so what it has   *)
(* read must stay true enough of the database: experiments never stop      *)
(* being completed, and a count that was covered once stays covered.       *)
(***************************************************************************)

\* pc, task and call agree
Shape ==
  /\ \A w \in Workers : /\ pc[w] # "busy"
                        /\ pc[w] \in {"claimed", "exec"} => task[w] \in Experiments
                        /\ pc[w] \in {"idle", "poll", "down"} => task[w] = None
  /\ \A c \in Clients : /\ pc[c] \in {"idle", "busy"}
                        /\ pc[c] = "busy" => call[c] \in Call

\* what an actor has read is behind the database, never beside it
ViewsBehind ==
  /\ \A a \in Actors : /\ view[a].done \subseteq db.done
                       /\ view[a].camp.used.experiments <= Cardinality(db.done)
  /\ \A w \in Workers :
       pc[w] = "exec" /\ task[w] \notin view[w].done =>
         view[w].camp.used.experiments <= Cardinality(db.done \ {task[w]})

\* The safety properties of this group.
Safe ==
  /\ SucceededIsCompleted
  /\ BudgetNeverOvercounts
  /\ ConclusionsAreCompleted
  /\ CompletedHasReport

\* The inductive invariant.
IInv == TypeOK /\ Shape /\ ViewsBehind /\ Safe

-----------------------------------------------------------------------------
(* With prompt transactions *)

\* A worker that claimed a job holds its lease until its transaction ends: no poll, request,
\* crash or recovery of another actor takes it away, so no two workers run the same job.
LeaseExclusive == \A w \in Workers : task[w] # None => Holds(w, task[w])

\* The attempt budget bounds the claims, and a job waiting for a retry has budget left.
AttemptsBounded ==
  \A e \in Experiments :
    /\ db.job[e].attempt <= MaxAttempts
    /\ db.job[e].status = "RETRYING" => db.job[e].attempt < MaxAttempts

\* An experiment is run to its decision once, whatever crashes and retries happen.
DecidedOnce == \A e \in Experiments : decisions[e] <= 1

\* No experiment is evaluated twice on the locked test split.
TestedOnce == \A e \in Experiments : testRuns[e] <= 1

\* A finished job is never reopened, retried or relabelled.
TerminalIsFinal ==
  [][\A e \in Experiments : db.job[e].status \in Terminal => db.job[e]' = db.job[e]]_vars

(***************************************************************************)
(* The inductive invariant behind LeaseExclusive, AttemptsBounded,         *)
(* DecidedOnce and TerminalIsFinal when transactions are prompt: a leased  *)
(* row is fresh, and an executing worker has read the row it will write.   *)
(***************************************************************************)

\* the row as loaded differs from the committed one by a cancellation request at most
CurrentRow(loaded, stored) ==
  /\ loaded.status = stored.status /\ loaded.worker = stored.worker
  /\ loaded.attempt = stored.attempt
  /\ loaded.due = stored.due /\ loaded.beat = stored.beat

PromptInv ==
  /\ \A a \in Actors : pc[a] \notin {"poll", "busy"}
  /\ \A w \in Workers : task[w] # None => /\ Holds(w, task[w])
                                         /\ db.job[task[w]].beat = "fresh"
  /\ \A w \in Workers : pc[w] = "exec" =>
       /\ CurrentRow(view[w].job[task[w]], db.job[task[w]])
       /\ view[w].done = db.done \cap {task[w]}
  /\ \A e \in Experiments : /\ db.job[e].attempt <= MaxAttempts
                            /\ db.job[e].status \in Claimable => db.job[e].attempt < MaxAttempts
  /\ \A e \in Experiments : decisions[e] <= IF e \in db.done THEN 1 ELSE 0

\* The test split stays locked during the exploration as far as the workers go: a step of
\* theirs that evaluates on it leaves no queued, retrying or running job behind.
WorkersKeepTestLocked ==
  [][\A e \in Experiments : testRuns'[e] > testRuns[e] /\ requests' = requests =>
       \A x \in Experiments : ~ActiveJob(x)']_vars

\* The report of a campaign shown as completed covers exactly the completed experiments, and
\* its finalists have had their test evaluation, even when jobs are queued or running again.
CompletedReportIsCurrent ==
  db.camp.status = "completed" =>
    db.camp.report = db.done /\ Top(db.done) \subseteq db.tested

\* The inductive invariant behind TestedOnce and CompletedReportIsCurrent: the rows remember
\* every locked test evaluation that was run, and only completed experiments have one.
EvaluationInv ==
  /\ db.tested \subseteq db.done
  /\ \A e \in Experiments : testRuns[e] = IF e \in db.tested THEN 1 ELSE 0
  /\ CompletedReportIsCurrent

\* Submitted work ends: while one worker survives, the jobs of a campaign that is not
\* cancelled all reach a terminal status for good, leaving it completed or failed.
CampaignSettles ==
  (\E e \in Experiments : ActiveJob(e)) ~>
    [](/\ \A e \in Experiments : ~ActiveJob(e)
       /\ db.camp.status \in {"completed", "failed"})

\* The rows of campaign_jobs and the tasks of the workers are a durable job queue.
Queue ==
  INSTANCE JobQueue WITH Jobs <- Experiments,
                         state <- [e \in Experiments |-> db.job[e].status],
                         claims <- [e \in Experiments |-> db.job[e].attempt],
                         held <- task

\* Leases, retries, recovery, cancellation and restoration, spread over transactions of
\* several actors, implement the durable job queue: one worker per job, claims within the
\* budget, and no way out of a claim but its worker's end or its worker's death.
ImplementsJobQueue == Queue!Spec

-----------------------------------------------------------------------------
(* What the documentation says and the code does not do *)

\* docs/workers.md: "Cancellation is durable".  A cancelled campaign stays cancelled.
CancellationIsDurable ==
  [][db.camp.status = "cancelled" => db.camp'.status = "cancelled"]_vars
=============================================================================
