--------------------------- MODULE CampaignQueue ---------------------------
(***************************************************************************)
(* One research campaign, its durable jobs, the workers that lease them    *)
(* and the HTTP requests that act on it (app/campaigns/service.py,         *)
(* scripts/run_worker.py, app/api/routes/campaigns.py).                    *)
(*                                                                         *)
(* Every actor works through a SQLAlchemy session: it loads rows as        *)
(* objects, changes the objects, and a flush writes exactly the columns    *)
(* whose value differs from the one loaded, by primary key, over whatever  *)
(* was committed in between (PostgreSQL READ COMMITTED, no version         *)
(* column).  A transaction is therefore two steps: the one that reads the  *)
(* rows into view[a], and the one that computes the objects of actor a     *)
(* from view[a] and merges them into db.  The session's identity map is    *)
(* weak: an object lives while a local variable of the service refers to   *)
(* it, and a later read of the same row in the transaction is a new one.   *)
(***************************************************************************)
EXTENDS Naturals, FiniteSets

CONSTANTS
  N,             \* planned experiments of the campaign, in creation order
  Workers,       \* worker processes, each with a --worker-name of its own
  Clients,       \* HTTP callers
  None,
  MaxAttempts,   \* constraints.max_job_attempts (3 by default)
  TopCount,      \* finalists that get the locked test (3 in the code)
  Score,         \* ranking score of each experiment
  RequireStress, \* constraints.require_stress_testing
  Slow,          \* which transactions may last long enough to interleave
  Operations,    \* the API operations the clients may call
  Batches,       \* the batch sizes they pass to run
  MaxRequests,   \* bound: API calls in a behaviour
  MaxCrashes     \* bound: worker crashes in a behaviour

Experiments == 1..N

ASSUME ConstantsAssumption ==
  /\ N \in Nat \ {0}
  /\ MaxAttempts \in Nat \ {0}
  /\ TopCount \in Nat \ {0}
  /\ Score \in [Experiments -> Nat]
  /\ RequireStress \in BOOLEAN
  /\ Slow \subseteq {"handler", "poll", "request"}
  /\ Operations \subseteq {"run", "cancel", "cancel_job", "report"}
  /\ Batches \subseteq Experiments
  /\ MaxRequests \in Nat /\ MaxCrashes \in Nat
  /\ Workers \cap Clients = {}
  /\ None \notin Workers \cup Experiments
  /\ \A s \in SUBSET Experiments : s # None

VARIABLES
  db,        \* committed rows: the campaign, its jobs and its experiments
  decisions, \* CAMPAIGN_EXPERIMENT_* decision records per experiment
  testRuns,  \* backtests on the locked test split per experiment
  pc,        \* where each actor stands
  view,      \* the identity map of each actor's open transaction
  task,      \* the experiment whose job a worker has claimed
  call,      \* the API operation a client has in flight
  requests, crashes

vars == <<db, decisions, testRuns, pc, view, task, call, requests, crashes>>

Actors == Workers \cup Clients

(***************************************************************************)
(* Rows.  An experiment has at most one job, because the idempotency key   *)
(* backtest:<id> is unique per campaign; status "none" stands for no row.  *)
(***************************************************************************)
Claimable == {"QUEUED", "RETRYING"}
Active    == Claimable \cup {"RUNNING"}
Terminal  == {"SUCCEEDED", "FAILED", "CANCELLED"}
Resumable == {"queued", "running"}

CampaignStatus == Resumable \cup {"created", "completed", "failed", "cancelled"}

Job == [status  : Active \cup Terminal \cup {"none"},
        worker  : Workers \cup {None},
        attempt : Nat,
        cancel  : BOOLEAN,                    \* cancel_requested
        due     : BOOLEAN,                    \* available_at <= now
        beat    : {"none", "fresh", "old"}]   \* heartbeat_at against the cutoff

Campaign == [status : CampaignStatus,
             used   : [experiments : Nat, tests : Nat],   \* budget_used
             report : (SUBSET Experiments) \cup {None}]   \* final_conclusions

Database == [camp   : Campaign,
             job    : [Experiments -> Job],
             done   : SUBSET Experiments,     \* experiments in status completed
             tested : SUBSET Experiments]     \* evaluation holds test_metrics

NoJob == [status |-> "none", worker |-> None, attempt |-> 0, cancel |-> FALSE,
          due |-> FALSE, beat |-> "none"]

NewJob == [NoJob EXCEPT !.status = "QUEUED", !.due = TRUE]

EmptyDatabase ==
  [camp   |-> [status |-> "created", used |-> [experiments |-> 0, tests |-> 0],
               report |-> None],
   job    |-> [e \in Experiments |-> NoJob],
   done   |-> {},
   tested |-> {}]

Call == [op : {"run"}, batch : Batches] \cup [op : {"cancel", "report"}]
          \cup [op : {"cancel_job"}, exp : Experiments]

Offered == {c \in Call : c.op \in Operations}

TypeOK ==
  /\ db \in Database
  /\ decisions \in [Experiments -> Nat]
  /\ testRuns \in [Experiments -> Nat]
  /\ pc \in [Actors -> {"idle", "poll", "claimed", "exec", "down", "busy"}]
  /\ view \in [Actors -> Database]
  /\ task \in [Workers -> Experiments \cup {None}]
  /\ call \in [Clients -> Call \cup {None}]
  /\ requests \in 0..MaxRequests
  /\ crashes \in 0..MaxCrashes

(***************************************************************************)
(* The unit of work.                                                       *)
(***************************************************************************)

\* A column is written when the object no longer holds the loaded value.
Write(loaded, new, stored) == IF new # loaded THEN new ELSE stored

\* cancel_requested is written by cancel_job alone, so a flush keeps it.
FlushJob(loaded, new, stored) ==
  [status  |-> Write(loaded.status, new.status, stored.status),
   worker  |-> Write(loaded.worker, new.worker, stored.worker),
   attempt |-> Write(loaded.attempt, new.attempt, stored.attempt),
   cancel  |-> stored.cancel,
   due     |-> Write(loaded.due, new.due, stored.due),
   beat    |-> Write(loaded.beat, new.beat, stored.beat)]

\* _retry_or_fail for a transient error or an expired lease
RetryOrFail(j) ==
  IF j.attempt < MaxAttempts
  THEN [j EXCEPT !.status = "RETRYING", !.worker = None, !.due = FALSE, !.beat = "none"]
  ELSE [j EXCEPT !.status = "FAILED"]

(***************************************************************************)
(* Ranking and finalization.                                               *)
(***************************************************************************)
Outranks(a, b) == Score[a] > Score[b] \/ (Score[a] = Score[b] /\ a > b)

\* the finalists among the completed experiments d
Top(d) == {e \in d : Cardinality({x \in d : Outranks(x, e)}) < TopCount}

\* Faulty: a running job does not hold the finalization back.
FinalizesEarly(jobs) ==
  /\ \E e \in Experiments : jobs[e].status # "none"
  /\ \A e \in Experiments : jobs[e].status \notin Claimable \cup {"FAILED"}

\* _refresh_campaign_state reaches finalize_campaign
Finalizes(jobs) ==
  /\ \E e \in Experiments : jobs[e].status # "none"
  /\ \A e \in Experiments : jobs[e].status \notin Active \cup {"FAILED"}

\* Faulty: the test_metrics already stored are not looked at.
EvaluatesAgain(jobs, d, t) == IF Finalizes(jobs) THEN Top(d) ELSE {}

\* the locked test evaluations a finalization runs, given the completed and tested rows it saw
Evaluates(jobs, d, t) == IF Finalizes(jobs) THEN Top(d) \ t ELSE {}

\* finalize_campaign on the loaded campaign c
FinalizeCampaign(c, d, t) ==
  [c EXCEPT !.status = IF d # {} THEN "completed" ELSE @,
            !.used.tests = @ + Cardinality(Top(d) \ t),
            !.report = d]

\* Faulty: a campaign that has a report is not finalized again.
RefreshOnce(c, jobs, d, t) ==
  IF \E e \in Experiments : jobs[e].status \in Active THEN [c EXCEPT !.status = "running"]
  ELSE IF \E e \in Experiments : jobs[e].status = "FAILED" THEN [c EXCEPT !.status = "failed"]
  ELSE IF ~Finalizes(jobs) THEN c
  ELSE IF c.report = None THEN FinalizeCampaign(c, d, t)
  ELSE [c EXCEPT !.status = "completed"]

\* _refresh_campaign_state on the loaded campaign c
RefreshCampaign(c, jobs, d, t) ==
  IF \E e \in Experiments : jobs[e].status \in Active THEN [c EXCEPT !.status = "running"]
  ELSE IF \E e \in Experiments : jobs[e].status = "FAILED" THEN [c EXCEPT !.status = "failed"]
  ELSE IF Finalizes(jobs) THEN FinalizeCampaign(c, d, t)
  ELSE c

Bump(counts, s) == [e \in Experiments |-> IF e \in s THEN counts[e] + 1 ELSE counts[e]]

-----------------------------------------------------------------------------
(***************************************************************************)
(* Worker: first transaction of the loop.  recover_stale_jobs reads the    *)
(* RUNNING rows, recover_interrupted_campaigns the campaign, its jobs and  *)
(* experiments; v is what they read.  The claim's SELECT ... SKIP LOCKED   *)
(* is evaluated by the database when the transaction ends.                 *)
(***************************************************************************)
\* Faulty variants: the heartbeat is not looked at; only a missing heartbeat counts.
StaleWhenRunning(v) == {e \in Experiments : v.job[e].status = "RUNNING"}

StaleWhenUnset(v) == {e \in StaleWhenRunning(v) : v.job[e].beat = "none"}

Stale(v) == {e \in Experiments : v.job[e].status = "RUNNING" /\ v.job[e].beat # "fresh"}

Resumes(v) == v.camp.status \in Resumable

\* planned experiments that never had a job; an insert that meets the unique key is dropped
Restored(v) ==
  {e \in Experiments \ v.done :
     Resumes(v) /\ v.job[e].status = "none" /\ db.job[e].status = "none"}

\* the job rows recovery and restoration leave
Recovered(v) ==
  [e \in Experiments |->
     IF e \in Restored(v) THEN NewJob
     ELSE IF e \in Stale(v) THEN FlushJob(v.job[e], RetryOrFail(v.job[e]), db.job[e])
     ELSE db.job[e]]

\* the jobs the campaign's refresh goes by: its own writes, else what it has read
Seen(v) ==
  [e \in Experiments |->
     IF e \in Stale(v) \/ v.job[e].status = "none" THEN Recovered(v)[e] ELSE v.job[e]]

\* a restored job flushes status queued first, so the refreshed status is then always written
RecoveredCampaign(v) ==
  LET c == RefreshCampaign(v.camp, Seen(v), v.done, v.tested)
  IN  IF ~Resumes(v) THEN db.camp
      ELSE [status |-> IF Restored(v) # {} THEN c.status
                       ELSE Write(v.camp.status, c.status, db.camp.status),
            used   |-> Write(v.camp.used, c.used, db.camp.used),
            report |-> IF Finalizes(Seen(v)) THEN c.report ELSE db.camp.report]

RecoveryTests(v) == IF Resumes(v) THEN Evaluates(Seen(v), v.done, v.tested) ELSE {}

\* Faulty: a running job can be claimed again.
EligibleWhenActive(v) ==
  {e \in Experiments : Recovered(v)[e].status \in Active /\ Recovered(v)[e].due}

Eligible(v) ==
  {e \in Experiments : LET j == Recovered(v)[e]
                       IN  j.status \in Claimable /\ j.due /\ ~j.cancel}

\* Faulty: the claim leaves the heartbeat as it was.
LeasedUnstamped(j, w) == [j EXCEPT !.status = "RUNNING", !.worker = w, !.attempt = @ + 1]

\* Faulty: a claim does not count as an attempt.
LeasedUncounted(j, w) ==
  [j EXCEPT !.status = "RUNNING", !.worker = w, !.beat = "fresh"]

\* claim_next_job
Leased(j, w) ==
  [j EXCEPT !.status = "RUNNING", !.worker = w, !.attempt = @ + 1, !.beat = "fresh"]

PollCommit(w, v) ==
  /\ \/ \E e \in Eligible(v) :
          /\ db' = [db EXCEPT !.camp = RecoveredCampaign(v),
                              !.job = [Recovered(v) EXCEPT ![e] = Leased(@, w)],
                              !.tested = @ \cup RecoveryTests(v)]
          /\ task' = [task EXCEPT ![w] = e]
          /\ pc' = [pc EXCEPT ![w] = "claimed"]
     \/ /\ Eligible(v) = {}
        /\ db' = [db EXCEPT !.camp = RecoveredCampaign(v), !.job = Recovered(v),
                            !.tested = @ \cup RecoveryTests(v)]
        /\ pc' = [pc EXCEPT ![w] = "idle"]
        /\ UNCHANGED task
  /\ testRuns' = Bump(testRuns, RecoveryTests(v))
  /\ view' = [view EXCEPT ![w] = EmptyDatabase]
  /\ UNCHANGED <<decisions, call, requests, crashes>>

\* reads and commit with nothing in between
Poll(w) == pc[w] = "idle" /\ PollCommit(w, db)

PollRead(w) ==
  /\ "poll" \in Slow
  /\ pc[w] = "idle"
  /\ pc' = [pc EXCEPT ![w] = "poll"]
  /\ view' = [view EXCEPT ![w] = db]
  /\ UNCHANGED <<db, decisions, testRuns, task, call, requests, crashes>>

PollWrite(w) == pc[w] = "poll" /\ PollCommit(w, view[w])

-----------------------------------------------------------------------------
(***************************************************************************)
(* Worker: second transaction, execute_claimed_job.  ExecStart is its      *)
(* guard and its reads; the handler then runs for seconds or minutes; one  *)
(* of CancelBefore, Succeed, Fail or Interrupt ends it.  From its first    *)
(* UPDATE of the campaign row to its commit a finishing worker excludes    *)
(* the others, so the end of the transaction is one step.                  *)
(***************************************************************************)

\* Faulty: the handler does not see that its experiment is completed.
ExecViewNothingDone(e) ==
  [EmptyDatabase EXCEPT !.camp = db.camp, !.job[e] = db.job[e]]

\* what the transaction works from: its job, the campaign and whether its experiment is done
ExecView(e) ==
  [camp   |-> db.camp,
   job    |-> [x \in Experiments |-> IF x = e THEN db.job[e] ELSE NoJob],
   done   |-> db.done \cap {e},
   tested |-> {}]

Holds(w, e) == db.job[e].status = "RUNNING" /\ db.job[e].worker = w

ExecStart(w) ==
  /\ pc[w] = "claimed"
  /\ Holds(w, task[w])
  /\ pc' = [pc EXCEPT ![w] = "exec"]
  /\ view' = [view EXCEPT ![w] = ExecView(task[w])]
  /\ UNCHANGED <<db, decisions, testRuns, task, call, requests, crashes>>

\* "job is not leased by this worker": the ValueError ends the process
LeaseLost(w) ==
  /\ pc[w] = "claimed"
  /\ ~Holds(w, task[w])
  /\ pc' = [pc EXCEPT ![w] = "down"]
  /\ task' = [task EXCEPT ![w] = None]
  /\ UNCHANGED <<db, decisions, testRuns, view, call, requests, crashes>>

\* Faulty: the job's result is flushed without the experiment's.
ExecCommitJobOnly(w, row, d, t, used) ==
  LET jobs == [db.job EXCEPT ![task[w]] = row]
  IN  /\ db' = [db EXCEPT !.camp = RefreshCampaign(@, jobs, db.done, db.tested), !.job = jobs]
      /\ pc' = [pc EXCEPT ![w] = "idle"]
      /\ view' = [view EXCEPT ![w] = EmptyDatabase]
      /\ task' = [task EXCEPT ![w] = None]
      /\ UNCHANGED <<testRuns, call, requests, crashes>>

\* The finally block and _refresh_campaign_state, for the job row, completed and tested
\* sets and budget_used the handler leaves.  The campaign is read again after the handler.
ExecCommit(w, row, d, t, used) ==
  LET jobs == [db.job EXCEPT ![task[w]] = row]
      run  == Evaluates(jobs, d, t)
  IN  /\ db' = [camp   |-> RefreshCampaign([db.camp EXCEPT !.used = used], jobs, d, t),
                job    |-> jobs,
                done   |-> d,
                tested |-> t \cup run]
      /\ testRuns' = Bump(testRuns, run)
      /\ pc' = [pc EXCEPT ![w] = "idle"]
      /\ view' = [view EXCEPT ![w] = EmptyDatabase]
      /\ task' = [task EXCEPT ![w] = None]
      /\ UNCHANGED <<call, requests, crashes>>

\* the job object when the handler failed: no refresh, so it is merged column by column
ErrorRow(w, new) == FlushJob(view[w].job[task[w]], new, db.job[task[w]])

\* cancellation seen by the check before the handler
CancelBefore(w) ==
  /\ pc[w] = "exec"
  /\ view[w].job[task[w]].cancel
  /\ ExecCommit(w, ErrorRow(w, [view[w].job[task[w]] EXCEPT !.status = "CANCELLED"]),
                db.done, db.tested, db.camp.used)
  /\ UNCHANGED decisions

Handling(w) == pc[w] = "exec" /\ ~view[w].job[task[w]].cancel

\* The handler returns: at once when it read the experiment as completed, otherwise after
\* running it and recording a decision.  It rewrites the evaluation, test metrics included,
\* and the whole budget_used column from the copy it loaded.  The check after it re-reads
\* the job row, so the row is the committed one.
Succeed(w) ==
  LET e     == task[w]
      fresh == e \notin view[w].done
      row   == [db.job[e] EXCEPT !.status = IF db.job[e].cancel THEN "CANCELLED"
                                            ELSE "SUCCEEDED"]
  IN  /\ Handling(w)
      /\ IF fresh
         THEN /\ ExecCommit(w, row, db.done \cup {e}, db.tested \ {e},
                          [view[w].camp.used EXCEPT !.experiments = @ + 1])
              /\ decisions' = [decisions EXCEPT ![e] = @ + 1]
         ELSE /\ ExecCommit(w, row, db.done, db.tested, db.camp.used)
              /\ UNCHANGED decisions

\* A deterministic error, before the experiment is marked completed or, when the stress
\* study raises, after: the flush in the finally block then keeps the completed experiment.
Fail(w) ==
  LET e == task[w]
  IN  /\ Handling(w)
      /\ e \notin view[w].done
      /\ \E late \in {FALSE, RequireStress} :
           ExecCommit(w, ErrorRow(w, [view[w].job[e] EXCEPT !.status = "FAILED"]),
                      IF late THEN db.done \cup {e} ELSE db.done,
                      IF late THEN db.tested \ {e} ELSE db.tested,
                      db.camp.used)
      /\ UNCHANGED decisions

\* a connection, timeout or operational error inside the handler
Interrupt(w) ==
  /\ Handling(w)
  /\ task[w] \notin view[w].done
  /\ ExecCommit(w, ErrorRow(w, RetryOrFail(view[w].job[task[w]])),
                db.done, db.tested, db.camp.used)
  /\ UNCHANGED decisions

-----------------------------------------------------------------------------
(***************************************************************************)
(* Failures and time.                                                      *)
(***************************************************************************)

\* the process dies (or the database aborts it): its open transaction is rolled back
Crash(w) ==
  /\ crashes < MaxCrashes
  /\ pc[w] # "down"
  /\ pc' = [pc EXCEPT ![w] = "down"]
  /\ view' = [view EXCEPT ![w] = EmptyDatabase]
  /\ task' = [task EXCEPT ![w] = None]
  /\ crashes' = crashes + 1
  /\ UNCHANGED <<db, decisions, testRuns, call, requests>>

Restart(w) ==
  /\ pc[w] = "down"
  /\ pc' = [pc EXCEPT ![w] = "idle"]
  /\ UNCHANGED <<db, decisions, testRuns, view, task, call, requests, crashes>>

\* stale_after_seconds pass without a heartbeat; the worker loop sends none while it executes
LeaseExpires(e) ==
  /\ db.job[e].status = "RUNNING" /\ db.job[e].beat = "fresh"
  /\ "handler" \in Slow \/ \A w \in Workers : task[w] # e
  /\ db' = [db EXCEPT !.job[e].beat = "old"]
  /\ UNCHANGED <<decisions, testRuns, pc, view, task, call, requests, crashes>>

BackoffElapses(e) ==
  /\ db.job[e].status = "RETRYING" /\ ~db.job[e].due
  /\ db' = [db EXCEPT !.job[e].due = TRUE]
  /\ UNCHANGED <<decisions, testRuns, pc, view, task, call, requests, crashes>>

-----------------------------------------------------------------------------
(***************************************************************************)
(* API requests.  Each reads v and commits; the routes' 404 and 422        *)
(* answers leave the database as it is.                                    *)
(***************************************************************************)

\* experiments in status planned, oldest first, cut to the batch size
Pending(v, batch) ==
  LET planned == Experiments \ v.done
  IN  {e \in planned : Cardinality({x \in planned : x < e}) < batch}

RunCampaign(v, batch) ==
  LET created == {e \in Pending(v, batch) : db.job[e].status = "none"}
  IN  /\ IF v.camp.status = "cancelled" \/ created = {}
         THEN UNCHANGED db
         ELSE db' = [db EXCEPT
                !.camp.status = Write(v.camp.status, "queued", @),
                !.job = [e \in Experiments |-> IF e \in created THEN NewJob ELSE db.job[e]]]
      /\ UNCHANGED testRuns

\* RUNNING jobs are left alone
CancelCampaign(v) ==
  /\ db' = [db EXCEPT
       !.camp.status = Write(v.camp.status, "cancelled", @),
       !.job = [e \in Experiments |->
                  IF v.job[e].status \in Claimable
                  THEN [db.job[e] EXCEPT !.status = "CANCELLED"] ELSE db.job[e]]]
  /\ UNCHANGED testRuns

CancelJob(v, e) ==
  /\ CASE v.job[e].status = "RUNNING"    -> db' = [db EXCEPT !.job[e].cancel = TRUE]
       [] v.job[e].status \in Claimable  -> db' = [db EXCEPT !.job[e].status = "CANCELLED"]
       [] OTHER                          -> UNCHANGED db
  /\ UNCHANGED testRuns

\* finalizes a campaign that has no conclusions yet, whatever its jobs are doing
GetReport(v) ==
  LET c   == FinalizeCampaign(v.camp, v.done, v.tested)
      run == Top(v.done) \ v.tested
  IN  IF v.camp.report # None
      THEN UNCHANGED <<db, testRuns>>
      ELSE /\ db' = [db EXCEPT
                !.camp = [status |-> Write(v.camp.status, c.status, db.camp.status),
                          used   |-> Write(v.camp.used, c.used, db.camp.used),
                          report |-> c.report],
                !.tested = @ \cup run]
           /\ testRuns' = Bump(testRuns, run)

Respond(r, v) ==
  CASE r.op = "run"        -> RunCampaign(v, r.batch)
    [] r.op = "cancel"     -> CancelCampaign(v)
    [] r.op = "cancel_job" -> CancelJob(v, r.exp)
    [] r.op = "report"     -> GetReport(v)

\* reads and commit with nothing in between
Request(c) ==
  /\ requests < MaxRequests
  /\ pc[c] = "idle"
  /\ \E r \in Offered : Respond(r, db)
  /\ requests' = requests + 1
  /\ UNCHANGED <<decisions, pc, view, task, call, crashes>>

RequestRead(c) ==
  /\ "request" \in Slow
  /\ requests < MaxRequests
  /\ pc[c] = "idle"
  /\ \E r \in Offered : call' = [call EXCEPT ![c] = r]
  /\ pc' = [pc EXCEPT ![c] = "busy"]
  /\ view' = [view EXCEPT ![c] = db]
  /\ requests' = requests + 1
  /\ UNCHANGED <<db, decisions, testRuns, task, crashes>>

RequestWrite(c) ==
  /\ pc[c] = "busy"
  /\ Respond(call[c], view[c])
  /\ call' = [call EXCEPT ![c] = None]
  /\ pc' = [pc EXCEPT ![c] = "idle"]
  /\ view' = [view EXCEPT ![c] = EmptyDatabase]
  /\ UNCHANGED <<decisions, task, requests, crashes>>

-----------------------------------------------------------------------------
\* the state create_campaign commits
Init ==
  /\ db = EmptyDatabase
  /\ decisions = [e \in Experiments |-> 0]
  /\ testRuns = [e \in Experiments |-> 0]
  /\ pc = [a \in Actors |-> "idle"]
  /\ view = [a \in Actors |-> EmptyDatabase]
  /\ task = [w \in Workers |-> None]
  /\ call = [c \in Clients |-> None]
  /\ requests = 0
  /\ crashes = 0

Finish(w) == CancelBefore(w) \/ Succeed(w) \/ Fail(w) \/ Interrupt(w)

WorkerStep(w) ==
  \/ Poll(w) \/ PollRead(w) \/ PollWrite(w)
  \/ ExecStart(w) \/ LeaseLost(w) \/ Finish(w)
  \/ Crash(w) \/ Restart(w)

ClientStep(c) == Request(c) \/ RequestRead(c) \/ RequestWrite(c)

Next ==
  \/ \E w \in Workers : WorkerStep(w)
  \/ \E c \in Clients : ClientStep(c)
  \/ \E e \in Experiments : LeaseExpires(e) \/ BackoffElapses(e)

Spec == Init /\ [][Next]_vars

(***************************************************************************)
(* A live worker keeps looping, a handler returns or raises, time passes,  *)
(* and a request that was read is committed.  Nothing restarts a worker    *)
(* (docker-compose.yml gives it no restart policy), so Restart is not fair.*)
(***************************************************************************)
Fairness ==
  /\ \A w \in Workers : /\ WF_vars(Poll(w))
                        /\ WF_vars(PollWrite(w))
                        /\ WF_vars(ExecStart(w))
                        /\ WF_vars(Finish(w))
  /\ \A c \in Clients : WF_vars(RequestWrite(c))
  /\ \A e \in Experiments : WF_vars(LeaseExpires(e)) /\ WF_vars(BackoffElapses(e))

LiveSpec == Spec /\ Fairness
=============================================================================
