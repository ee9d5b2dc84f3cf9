-------------------------- MODULE OptimizationStudies --------------------------
(***************************************************************************)
(* An optimization study over its campaign (app/campaigns/study_service.py *)
(* and the study routes of api/routes/campaigns.py).  The study has a      *)
(* trial for every planned experiment and writes nothing else itself: its  *)
(* run and its cancellation are the campaign's, and a synchronisation      *)
(* derives the statuses of study and trials from the campaign.  All four   *)
(* requests synchronise, but only run and cancel commit what they find; a  *)
(* GET shows it and rolls it back.  The requests on the study are prompt.  *)
(***************************************************************************)
EXTENDS CampaignQueue

CONSTANT Flagged   \* the experiments whose results raise risk flags

\* a study runs its campaign without a batch size, which is a batch of all
ASSUME StudyAssumption == Flagged \subseteq Experiments /\ N \in Batches

VARIABLES
  study,        \* the row of the study: its status, and whether completed_at is set
  trial,        \* for each experiment the row of its trial: status, and whether it is scored
  wasCancelled  \* history: has the campaign ever been cancelled?

studyVars == <<vars, study, trial, wasCancelled>>

StudyStatus == {"CREATED", "RUNNING", "COMPLETED", "CANCELLED"}
TrialStatus == {"PENDING", "VALID", "REJECTED", "PRUNED"}

\* the plan holds no candidate with a rejection reason, so every trial starts as pending
StudyInit ==
  /\ Init
  /\ study = [status |-> "CREATED", ended |-> FALSE]
  /\ trial = [e \in Experiments |-> [status |-> "PENDING", scored |-> FALSE]]
  /\ wasCancelled = FALSE

-----------------------------------------------------------------------------
(* Synchronisation *)

\* The faulty SyncedTrials of a mutant: it asks for the cancellation first.
PrunedFirst ==
  [e \in Experiments |->
     IF db.camp.status = "cancelled" THEN [trial[e] EXCEPT !.status = "PRUNED"]
     ELSE IF e \in db.done
       THEN [status |-> IF e \in Flagged THEN "REJECTED" ELSE "VALID", scored |-> TRUE]
     ELSE trial[e]]

\* a planned experiment is never marked failed: no trial ever fails
SyncedTrials ==
  [e \in Experiments |->
     IF e \in db.done
       THEN [status |-> IF e \in Flagged THEN "REJECTED" ELSE "VALID", scored |-> TRUE]
     ELSE IF db.camp.status = "cancelled" THEN [trial[e] EXCEPT !.status = "PRUNED"]
     ELSE trial[e]]

\* a study whose campaign failed keeps the status it had
SyncedStudy ==
  CASE db.camp.status = "completed"   -> [status |-> "COMPLETED", ended |-> TRUE]
    [] db.camp.status = "cancelled"   -> [status |-> "CANCELLED", ended |-> TRUE]
    [] db.camp.status \in Resumable   -> [status |-> "RUNNING", ended |-> study.ended]
    [] OTHER                          -> study

\* what a GET of the study or of its trials answers, and does not commit
Shown == [study |-> SyncedStudy, trial |-> SyncedTrials]

-----------------------------------------------------------------------------
(* Requests *)

MayRequest(c) ==
  /\ requests < MaxRequests /\ pc[c] = "idle"
  /\ requests' = requests + 1
  /\ UNCHANGED <<decisions, pc, view, task, call, crashes>>

\* the campaign refuses to run once it is cancelled, and the synchronisation is lost with it
StudyRun(c) ==
  /\ MayRequest(c)
  /\ RunCampaign(db, N)
  /\ IF db.camp.status = "cancelled" THEN UNCHANGED <<study, trial>>
     ELSE /\ study' = [status |-> "RUNNING", ended |-> SyncedStudy.ended]
          /\ trial' = SyncedTrials

StudyCancel(c) ==
  /\ MayRequest(c)
  /\ CancelCampaign(db)
  /\ study' = [status |-> "CANCELLED", ended |-> TRUE]
  /\ trial' = SyncedTrials

StudyNext ==
  /\ \/ Next /\ UNCHANGED <<study, trial>>
     \/ \E c \in Clients : StudyRun(c) \/ StudyCancel(c)
  /\ wasCancelled' = (wasCancelled \/ db'.camp.status = "cancelled")

StudySpec == StudyInit /\ [][StudyNext]_studyVars

-----------------------------------------------------------------------------
\* What a GET of the study shows agrees with its campaign, however stale the stored rows
\* are: a trial has a verdict exactly when its experiment is completed, and one is pruned
\* only after a cancellation; the study is completed exactly when the campaign is, and then
\* has a report; and a study that has ended was cancelled or reported.  What is stored is
\* never ahead of the campaign.  (study_service.py, sync.)
StudyFollowsCampaign ==
  /\ \A e \in Experiments :
       /\ Shown.trial[e].status \in {"VALID", "REJECTED"} <=> e \in db.done
       /\ Shown.trial[e].scored <=> e \in db.done
       /\ Shown.trial[e].status = "PRUNED" => wasCancelled
       /\ trial[e].scored => e \in db.done /\ trial[e].status \in {"VALID", "REJECTED"}
  /\ Shown.study.status = "COMPLETED" <=> db.camp.status = "completed"
  /\ Shown.study.status = "COMPLETED" => db.camp.report # None
  /\ Shown.study.status = "CANCELLED" => wasCancelled
  /\ Shown.study.ended => wasCancelled \/ db.camp.report # None
=============================================================================
