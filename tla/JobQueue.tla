------------------------------ MODULE JobQueue ------------------------------
(***************************************************************************)
(* What a durable job queue promises its users, whatever tables, leases    *)
(* and transactions keep it: every job is claimed by one worker at a time, *)
(* at most MaxAttempts times; only the worker that holds a job, or the     *)
(* death of that worker, ends the claim; waiting jobs may be withdrawn;    *)
(* and what is over stays over.                                            *)
(***************************************************************************)
EXTENDS Naturals

CONSTANTS Jobs, Workers, None, MaxAttempts

VARIABLES
  state,   \* of each job
  claims,  \* how often each job was claimed
  held     \* the job each worker is working on

vars == <<state, claims, held>>

Waiting == {"QUEUED", "RETRYING"}
Over    == {"SUCCEEDED", "FAILED", "CANCELLED"}

Init ==
  /\ state = [j \in Jobs |-> "none"]
  /\ claims = [j \in Jobs |-> 0]
  /\ held = [w \in Workers |-> None]

Free(j) == \A w \in Workers : held[w] # j

-----------------------------------------------------------------------------
(* What may happen to a job that no worker starts or ends in this step.    *)

Kept(j) == state'[j] = state[j]

Submitted(j) == state[j] = "none" /\ state'[j] = "QUEUED"

Withdrawn(j) == state[j] \in Waiting /\ state'[j] = "CANCELLED"

\* its worker died: it waits for another one, or its claims are spent
Abandoned(j) ==
  /\ state[j] = "RUNNING"
  /\ Free(j)
  /\ state'[j] = IF claims[j] < MaxAttempts THEN "RETRYING" ELSE "FAILED"

Maintained(j) ==
  /\ Kept(j) \/ Submitted(j) \/ Withdrawn(j) \/ Abandoned(j)
  /\ claims'[j] = claims[j]

Maintain == (\A j \in Jobs : Maintained(j)) /\ UNCHANGED held

-----------------------------------------------------------------------------
(* The workers. *)

\* a job may be submitted and claimed at once
Claim(w, j) ==
  /\ held[w] = None
  /\ Free(j)
  /\ state[j] \in Waiting \cup {"none"}
  /\ claims[j] < MaxAttempts
  /\ state'[j] = "RUNNING"
  /\ claims'[j] = claims[j] + 1
  /\ held' = [held EXCEPT ![w] = j]
  /\ \A x \in Jobs \ {j} : Maintained(x)

Finish(w, j) ==
  /\ held[w] = j
  /\ state[j] = "RUNNING"
  /\ \/ state'[j] \in Over
     \/ state'[j] = "RETRYING" /\ claims[j] < MaxAttempts
  /\ claims' = claims
  /\ held' = [held EXCEPT ![w] = None]
  /\ \A x \in Jobs \ {j} : Kept(x)

Die(w) ==
  /\ held' = [held EXCEPT ![w] = None]
  /\ UNCHANGED <<state, claims>>

Next ==
  \/ Maintain
  \/ \E w \in Workers, j \in Jobs : Claim(w, j) \/ Finish(w, j)
  \/ \E w \in Workers : Die(w)

Spec == Init /\ [][Next]_vars
=============================================================================
