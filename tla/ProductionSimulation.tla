-------------------------- MODULE ProductionSimulation --------------------------
(***************************************************************************)
(* The walk-forward production simulation (app/production_simulation):     *)
(* each cycle chooses a champion at the end of a research window and       *)
(* replays it in a paper session over the deployment window that follows.  *)
(* Dates are integers.  A candidate of the manifest is a version with the  *)
(* date it is eligible from, its promotion flag and its expected Sharpe.   *)
(***************************************************************************)
EXTENDS Integers, Sequences, TemporalSplit

CONSTANTS
  Requests,     \* the requests a simulation may be made with
  BaseVersion   \* the version a request names as its strategy

\* the candidates of a request are a list, and the windows are days
ASSUME RequestsAssumption ==
  /\ BaseVersion \in Int
  /\ \A r \in Requests :
       /\ r.start \in Nat /\ r.end \in Int
       /\ r.research \in Nat /\ r.deployment \in Nat /\ r.cadence \in Nat
       /\ IsFiniteSet(r.candidates)
       /\ r.candidates \subseteq [version : Int, sharpe : Int, promoted : BOOLEAN, asOf : Int]

VARIABLES
  request,      \* the one being run
  cursor,       \* start of the current research window
  deployed,     \* the champion
  lifecycle,    \* what happened to each version, in order
  timeline,     \* the cycles
  simulation    \* status: "RUNNING", then "COMPLETED" or "FAILED"

simulationVars == <<request, cursor, deployed, lifecycle, timeline, simulation>>

\* the strategy of the request is always eligible and expected to make nothing
Manifest(r) ==
  r.candidates \cup {[version |-> BaseVersion, sharpe |-> 0, promoted |-> TRUE, asOf |-> 0]}

Eligible(r, at) == {c \in Manifest(r) : c.promoted /\ c.asOf <= at}

\* The faulty Better of a mutant: of equals the champion has no advantage.
BetterByVersion(c, o, current) ==
  \/ c.sharpe > o.sharpe
  \/ c.sharpe = o.sharpe /\ c.version >= o.version

\* the order of the selection: by expected Sharpe, then the champion, then the version
Better(c, o, current) ==
  \/ c.sharpe > o.sharpe
  \/ /\ c.sharpe = o.sharpe
     /\ c.version = current \/ (o.version # current /\ c.version >= o.version)

SelectCandidate(r, current, at) ==
  CHOOSE c \in Eligible(r, at) : \A o \in Eligible(r, at) : Better(c, o, current)

Event(version, state, at) == [version |-> version, state |-> state, at |-> at]

SimulationInit ==
  /\ request \in Requests
  /\ cursor = request.start
  /\ deployed = SelectCandidate(request, BaseVersion, request.start)
  /\ lifecycle = <<Event(deployed.version, "PROMOTED", request.start)>>
  /\ timeline = << >> /\ simulation = "RUNNING"

-----------------------------------------------------------------------------
ResearchEnd == cursor + request.research

Deployment == Period(ResearchEnd,
  IF ResearchEnd + request.deployment < request.end
    THEN ResearchEnd + request.deployment ELSE request.end)

HasCycle == cursor < request.end /\ Deployment.start < Deployment.end

\* what a change of champion leaves in the lifecycle
Handover(previous, next, at) ==
  IF previous.version = next.version THEN << >>
  ELSE <<Event(previous.version, "RETIRED", at), Event(next.version, "PROMOTED", at)>>

\* One cycle.  The paper session runs from the start of the research window.  A drawdown
\* beyond the limit stops the simulation if the request says so, after the cycle is kept.
Cycle ==
  LET next == SelectCandidate(request, deployed.version, ResearchEnd)
  IN  /\ simulation = "RUNNING" /\ HasCycle
      /\ \E drawdown \in BOOLEAN :
           /\ timeline' = Append(timeline,
                [research  |-> Period(cursor, ResearchEnd), deployment |-> Deployment,
                 session   |-> Period(cursor, Deployment.end),
                 champion  |-> next,
                 lifecycle |-> IF next.version = deployed.version THEN "ACTIVE" ELSE "REPLACED",
                 flagged   |-> drawdown])
           /\ lifecycle' = lifecycle \o Handover(deployed, next, ResearchEnd)
                             \o <<Event(next.version, "ACTIVE", Deployment.start)>>
           /\ deployed' = next
           /\ IF drawdown /\ request.stop
                THEN simulation' = "COMPLETED" /\ UNCHANGED cursor
                ELSE cursor' = cursor + request.cadence /\ UNCHANGED simulation
      /\ UNCHANGED request

\* no market bars, or a session that cannot be made: the whole simulation fails
Fail ==
  /\ simulation = "RUNNING" /\ HasCycle
  /\ simulation' = "FAILED"
  /\ UNCHANGED <<request, cursor, deployed, lifecycle, timeline>>

Complete ==
  /\ simulation = "RUNNING" /\ ~HasCycle
  /\ simulation' = "COMPLETED"
  /\ UNCHANGED <<request, cursor, deployed, lifecycle, timeline>>

SimulationNext == Cycle \/ Fail \/ Complete
=============================================================================
