------------------------ MODULE IncidentOrchestrator ------------------------
(***************************************************************************)
(* CausalRecoveryOrchestrator.process_incident (packages/recovery/src/     *)
(* orchestrator.py) over the incident state machine, the evidentiary       *)
(* stopping rule, the experiment planner and the resource context.         *)
(*                                                                         *)
(* One orchestrator processes incidents one after the other; its planner,  *)
(* stopping rule and belief model live as long as it does, the resource    *)
(* context and the evidence count as long as one incident.  Money is       *)
(* counted in units of the cheapest experiment.                            *)
(***************************************************************************)
EXTENDS Integers, FiniteSets

CONSTANTS
  Incident, Candidate,
  CandidatesOf,     \* the interventions generated for an incident
  Cost,             \* estimated_cost_usd of a candidate
  Budget,           \* budget_usd of an incident
  MaxOverrun,       \* bound on what a replay costs beyond its estimate
  MinReplays, EntropyWindow, MaxExperiments,
  NoIncident, NoCandidate

ASSUME CandidateAssumption ==
  /\ CandidatesOf \in [Incident -> SUBSET Candidate]
  /\ \A i \in Incident : IsFiniteSet(CandidatesOf[i])
  /\ Cost \in [Candidate -> Nat \ {0}]
  /\ NoIncident \notin Incident /\ NoCandidate \notin Candidate
ASSUME ResourceAssumption ==
  /\ Budget \in Nat \ {0} /\ MaxOverrun \in Nat
  /\ MinReplays \in Nat \ {0} /\ EntropyWindow \in Nat /\ MaxExperiments \in Nat

VARIABLES
  status,       \* incident_state.status
  evidence,     \* valid_evidence_count of the incident
  active,       \* the incident being processed
  experiment,   \* the candidate whose replay is under way
  remaining,    \* remaining_candidates
  outcome,      \* stop_outcome, "none" while the loop runs
  spent, reserved, replays, timeUp,   \* the resource context
  tested,       \* _tested of the planner
  iterations,   \* _replay_count of the stopping rule
  belief        \* what the posterior and its entropy say to the stopping rule

local == <<experiment, remaining, outcome>>
resources == <<spent, reserved, replays, timeUp>>
shared == <<tested, iterations, belief>>
vars == <<status, evidence, active, local, resources, shared>>

Outcome == {"confirmed", "unresolved", "resource_exhausted", "safety_limit",
            "no_admissible_experiment"}
\* What except, and a return, leave an incident in.
Final == {"closed", "recovered", "recovery_rejected", "evidence_insufficient"}
Recovering == {"evidence_sufficient", "recovery_planning", "recovery_validating",
               "awaiting_authorization", "canary"}
IncidentStatus == {"observing", "failure_detected", "diagnosing", "replaying"}
                    \cup Recovering \cup Final

Init ==
  /\ status = [i \in Incident |-> "observing"]
  /\ evidence = [i \in Incident |-> 0]
  /\ active = NoIncident /\ experiment = NoCandidate
  /\ remaining = {} /\ outcome = "none"
  /\ spent = 0 /\ reserved = 0 /\ replays = 0 /\ timeUp = FALSE
  /\ tested = {} /\ iterations = 0 /\ belief = "open"

-----------------------------------------------------------------------------
\* machine.transition within the run, and the return of process_incident.
GoTo(s) == status' = [status EXCEPT ![active] = s] /\ UNCHANGED active
Finish(s) == status' = [status EXCEPT ![active] = s] /\ active' = NoIncident

\* FAILURE_DETECTED and DIAGNOSING: trace, graph, candidates, envelope, and the
\* admissibility gateway.  Whatever raises closes the incident.
Begin(i) ==
  /\ active = NoIncident /\ status[i] = "observing"
  /\ \/ /\ status' \in {[status EXCEPT ![i] = s] : s \in {"closed", "evidence_insufficient"}}
        /\ UNCHANGED <<active, remaining>>
     \/ /\ CandidatesOf[i] # {}
        /\ status' = [status EXCEPT ![i] = "replaying"]
        /\ active' = i /\ remaining' = CandidatesOf[i]
  /\ spent' = 0 /\ reserved' = 0 /\ replays' = 0 /\ timeUp' = FALSE
  /\ outcome' = "none"
  /\ UNCHANGED <<evidence, experiment, shared>>

BudgetExhausted == spent + reserved >= Budget \/ timeUp

\* is_sufficient: its criteria, in the order of their priority.
Sufficient(rest) ==
  LET enough == iterations >= MinReplays
  IN IF BudgetExhausted THEN "resource_exhausted"
     ELSE IF replays >= MaxExperiments THEN "safety_limit"
     ELSE IF enough /\ belief = "confident" THEN "confirmed"
     ELSE IF enough /\ belief = "converged" THEN "unresolved"
     ELSE IF rest = {} THEN "no_admissible_experiment"
     ELSE "continue"

\* Mutant: the stopping rule alone decides.
MayStopUnseen(o) == o # "continue"

\* A posterior cannot authorise recovery without a replay that was validated.
MayStop(o) == o # "continue" /\ (o = "confirmed" => evidence[active] > 0)

Looping == active # NoIncident /\ outcome = "none" /\ experiment = NoCandidate

\* The top of the loop, when the stopping rule ends it.
Stop ==
  /\ Looping /\ MayStop(Sufficient(remaining))
  /\ outcome' = Sufficient(remaining)
  /\ UNCHANGED <<status, evidence, active, experiment, remaining, resources, shared>>

\* ResourceContext.reserve: the estimate still fits.
Reservable(c) == spent + reserved + Cost[c] <= Budget

\* Mutant: the estimate is not added to what is reserved already.
PlanUnreserved(c) ==
  /\ Looping /\ ~MayStop(Sufficient(remaining))
  /\ ~BudgetExhausted /\ c \in remaining \ tested
  /\ experiment' = c /\ tested' = tested \cup {c}
  /\ UNCHANGED <<status, evidence, active, remaining, outcome, spent, reserved, replays, timeUp,
                 iterations, belief>>

\* plan_next_experiment: an untested candidate whose estimate can be reserved.
Plan(c) ==
  /\ Looping /\ ~MayStop(Sufficient(remaining))
  /\ ~BudgetExhausted /\ c \in remaining \ tested
  /\ Reservable(c)
  /\ reserved' = reserved + Cost[c]
  /\ experiment' = c /\ tested' = tested \cup {c}
  /\ UNCHANGED <<status, evidence, active, remaining, outcome, spent, replays, timeUp,
                 iterations, belief>>

\* Mutant: the loop goes on when the planner has no experiment.
ExhaustContinues ==
  /\ Looping /\ ~MayStop(Sufficient(remaining)) /\ Sufficient({}) = "confirmed"
  /\ outcome' = Sufficient({})
  /\ UNCHANGED <<status, evidence, active, experiment, remaining, resources, shared>>

\* ... or None: nothing is left, nothing is worth its cost, or the reservation of
\* the best candidate was refused.
Exhaust ==
  /\ Looping /\ ~MayStop(Sufficient(remaining))
  /\ outcome' = IF evidence[active] = 0 THEN "no_admissible_experiment" ELSE Sufficient({})
  /\ UNCHANGED <<status, evidence, active, experiment, remaining, resources, shared>>

\* execute_replays raises: the reservation is released and the incident closed.
ExecuteFails ==
  /\ experiment # NoCandidate
  /\ reserved' = reserved - Cost[experiment]
  /\ experiment' = NoCandidate
  /\ Finish("closed")
  /\ UNCHANGED <<evidence, remaining, outcome, spent, replays, timeUp, shared>>

\* Reconciled with the measured cost, or the estimate when none was measured.
Reconcile ==
  /\ reserved' = reserved - Cost[experiment]
  /\ \E actual \in 1 .. Cost[experiment] + MaxOverrun : spent' = spent + actual
  /\ replays' = replays + 1
  /\ remaining' = remaining \ {experiment}
  /\ experiment' = NoCandidate

\* A forbidden divergence ends the incident, an invalid one is skipped.
ExecuteDiverges ==
  /\ experiment # NoCandidate
  /\ Reconcile
  /\ Finish("evidence_insufficient") \/ Finish("closed") \/ UNCHANGED <<status, active>>
  /\ UNCHANGED <<evidence, outcome, timeUp, shared>>

\* Valid evidence updates the belief and is counted by both sides.
ExecuteConfirms ==
  /\ experiment # NoCandidate
  /\ Reconcile
  /\ evidence' = [evidence EXCEPT ![active] = @ + 1]
  /\ iterations' = iterations + 1
  /\ belief' \in {"open", "confident"} \cup
                   (IF iterations' >= EntropyWindow THEN {"converged"} ELSE {})
  /\ UNCHANGED <<status, active, outcome, timeUp, tested>>

\* After the loop: recovery is planned on confirmed evidence only.
Conclude ==
  /\ active # NoIncident /\ outcome # "none" /\ status[active] = "replaying"
  /\ IF outcome = "confirmed" THEN GoTo("evidence_sufficient") ELSE Finish("evidence_insufficient")
  /\ UNCHANGED <<evidence, local, resources, shared>>

PlanRecovery ==
  /\ active # NoIncident /\ status[active] = "evidence_sufficient"
  /\ GoTo("recovery_planning")
  /\ UNCHANGED <<evidence, local, resources, shared>>

\* Mutant: a recovery that is refused keeps its place in the pipeline.
RecoverStalls(from, to) ==
  /\ active # NoIncident /\ status[active] = from
  /\ \/ GoTo(to)
     \/ active' = NoIncident /\ UNCHANGED status
  /\ UNCHANGED <<evidence, local, resources, shared>>

\* One stage of the recovery (the cut, its validation, its authorisation): it
\* passes, refuses, or raises.
Recover(from, to) ==
  /\ active # NoIncident /\ status[active] = from
  /\ GoTo(to) \/ Finish("recovery_rejected") \/ Finish("closed")
  /\ UNCHANGED <<evidence, local, resources, shared>>

\* "We must explicitly fail or halt rather than fabricating success."  The
\* envelope identifier, set in Begin, is never empty here.
Canary ==
  /\ active # NoIncident /\ status[active] = "canary"
  /\ Finish("recovery_rejected")
  /\ UNCHANGED <<evidence, local, resources, shared>>

Stages == {<<"recovery_planning", "recovery_validating">>,
           <<"recovery_validating", "awaiting_authorization">>,
           <<"awaiting_authorization", "canary">>}

\* max_wall_seconds pass.
TimePasses ==
  /\ active # NoIncident /\ ~timeUp
  /\ timeUp' = TRUE
  /\ UNCHANGED <<status, evidence, active, local, spent, reserved, replays, shared>>

Process ==
  \/ Stop \/ Exhaust \/ \E c \in Candidate : Plan(c)
  \/ ExecuteFails \/ ExecuteDiverges \/ ExecuteConfirms
  \/ Conclude \/ PlanRecovery \/ \E s \in Stages : Recover(s[1], s[2])
  \/ Canary

Next == Process \/ TimePasses \/ \E i \in Incident : Begin(i)

\* A call that was made runs to its end.
Spec == Init /\ [][Next]_vars /\ WF_vars(Process)

-----------------------------------------------------------------------------
\* Type invariant.
TypeOK ==
  /\ status \in [Incident -> IncidentStatus]
  /\ evidence \in [Incident -> Nat]
  /\ active \in Incident \cup {NoIncident}
  /\ experiment \in Candidate \cup {NoCandidate}
  /\ remaining \in SUBSET Candidate /\ tested \in SUBSET Candidate
  /\ outcome \in Outcome \cup {"none"}
  /\ spent \in Nat /\ reserved \in Nat /\ replays \in Nat /\ timeUp \in BOOLEAN
  /\ iterations \in Nat /\ belief \in {"open", "confident", "converged"}

\* "A posterior or mock policy cannot authorize recovery without at least one
\* replay that passed divergence validation": also when the stopping rule and
\* the belief model still hold what an earlier incident taught them.
RecoveryNeedsEvidence ==
  \A i \in Incident : status[i] \in Recovering => evidence[i] >= 1

\* "Security fail-closed": process_incident leaves no incident half way, whatever
\* stage refuses or raises.
FailsClosed == \A i \in Incident : i # active => status[i] \in {"observing"} \cup Final

\* reserve, commit, release: an incident exceeds its budget by the overrun of its
\* last replay at most, and holds no reservation while nothing is executed.
BudgetHolds ==
  /\ spent + reserved <= Budget + MaxOverrun
  /\ reserved = IF experiment = NoCandidate THEN 0 ELSE Cost[experiment]

\* The loop has no hard cap on its iterations, and still ends.
EveryIncidentEnds == active # NoIncident ~> active = NoIncident

\* The validated replays the orchestrator has seen, by incident.
Validated == UNION {{i} \X (1 .. evidence[i]) : i \in Incident}

\* "Minimum evidence count - must have >= min_replays before stopping on
\* confidence" (stopping_rule.py:14): true of all the validated replays that the
\* orchestrator has seen, those of earlier incidents included, because nothing
\* calls reset (stopping_rule.py:69).
MinimumEvidence ==
  /\ iterations = Cardinality(Validated)
  /\ \A i \in Incident : status[i] \in Recovering => iterations >= MinReplays

\* process_incident recovers only on evidence, of its own and of the minimum that
\* the stopping rule counts (orchestrator.py, stopping_rule.py:14).
EvidenceComesFirst == TypeOK /\ RecoveryNeedsEvidence /\ MinimumEvidence
=============================================================================
