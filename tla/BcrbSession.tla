------------------------------ MODULE BcrbSession ------------------------------
(***************************************************************************)
(* One diagnosis session of the Bayesian causal reasoning board: candidate *)
(* planning (bcrb/candidate_planner.py), the loop that tests candidates by *)
(* canary replay and updates their posteriors (bcrb/orchestrator.py), the  *)
(* diagnosis drawn from it and the step the approval request certifies     *)
(* (services/recovery_pipeline.py).                                        *)
(*                                                                         *)
(* A candidate is the position of its invocation in the trace.             *)
(* Probabilities are in percent, costs, risks and utilities in thousandths;*)
(* the logistic curve of the calibrator is tabulated for a few deltas.     *)
(***************************************************************************)
EXTENDS Integers, Sequences, FiniteSets, FiniteSetsExt

CONSTANTS
  Traces,         \* invocation sequences: role, error flag, GAT and diffusion score
  CanaryOutcome,  \* what execute_canary may do
  Budget          \* BCRBSession.budget_usd, in thousandths

Component == {"retriever", "generator", "policy_check"}
Delta == {-50, 0, 35, 80}   \* measured reliability deltas, in percent

ASSUME BcrbAssumption ==
  /\ Budget \in Nat
  /\ CanaryOutcome \subseteq {"unavailable", "raises", "synthetic", "measured"}
  /\ Traces \subseteq Seq([role : {"retrieval", "retriever", "generator", "policy"},
                            error : BOOLEAN, gat : 0 .. 200, diffusion : 0 .. 100])

VARIABLES
  trace,      \* the invocations of the run
  btested,    \* the candidates tested, in order
  outcome,    \* what the canary of a tested candidate gave
  posterior,  \* CausalEvidence.posterior, or NoPosterior
  spent,      \* session.total_spent_usd
  stopping,   \* stopping_condition_met
  stage,      \* "loop", "canary", "diagnose", "ended" or "raised"
  rootCause,  \* the diagnosis: a candidate, or 0
  certified   \* the step whose replay the approval request names, or 0

bvars == <<trace, btested, outcome, posterior, spent, stopping, stage, rootCause, certified>>
NoPosterior == -1
-----------------------------------------------------------------------------
(* Candidate planning                                                      *)

\* BCRBCalibrator.estimate_prior; the last invocation carries the failure symptom.
Symptom(i) == IF i = Len(trace) \/ trace[i].error THEN 100 ELSE 0
Combined(i) == 45 * trace[i].gat + 35 * trace[i].diffusion + 20 * Symptom(i)
Prior(i) == IF Combined(i) > 10000 THEN 100 ELSE Combined(i) \div 100

\* An invocation is a plausible candidate above five percent.
Candidates == {i \in DOMAIN trace : Combined(i) > 500}

ComponentOf(i) ==
  CASE trace[i].role \in {"retrieval", "retriever"} -> "retriever"
    [] trace[i].role = "policy" -> "policy_check"
    [] OTHER -> "generator"

EstimatedCost(c) == CASE c = "retriever" -> 12 [] c = "generator" -> 38 [] c = "policy_check" -> 4
\* The base risk times the factor of the intervention chosen for the component.
EstimatedRisk(c) == CASE c = "retriever" -> 144 [] c = "generator" -> 198 [] c = "policy_check" -> 40

\* The share of invocations downstream of those whose role contains the name of
\* the component; a base radius when none does or the trace has no edge.
EstimatedBlast(c) ==
  LET named == {i \in DOMAIN trace : trace[i].role = c}
      downstream == {i \in DOMAIN trace : \E j \in named : j < i}
      share == (1000 * Cardinality(downstream)) \div Len(trace)
  IN IF Len(trace) > 1 /\ named # {}
       THEN (IF share < 50 THEN 50 ELSE share)
       ELSE CASE c = "retriever" -> 250 [] c = "generator" -> 150 [] c = "policy_check" -> 50

\* Expected reliability delta times expected information gain, in ten-thousandths.
ExpectedGain(c) ==
  CASE c = "retriever" -> 90 * 60 [] c = "generator" -> 70 * 70 [] c = "policy_check" -> 50 * 50

\* calculate_candidate_utility, in thousandths
Utility(i) ==
  LET c == ComponentOf(i)
  IN (Prior(i) * ExpectedGain(c)) \div (EstimatedCost(c) + EstimatedRisk(c) + EstimatedBlast(c))

-----------------------------------------------------------------------------
BInit ==
  /\ trace \in Traces
  /\ btested = <<>> /\ outcome = <<>>
  /\ posterior = [i \in DOMAIN trace |-> NoPosterior]
  /\ spent = 0 /\ stopping = "none" /\ stage = "loop"
  /\ rootCause = 0 /\ certified = 0

Tested == {btested[k] : k \in DOMAIN btested}
Untested == Candidates \ Tested
Affordable == {i \in Untested : EstimatedCost(ComponentOf(i)) + spent <= Budget}

\* evaluate_stopping_conditions, then the two ways to run out of candidates
StopReason ==
  IF spent >= Budget THEN "BUDGET_EXHAUSTED"
  ELSE IF Candidates = {} THEN "ALL_SAFE_CANDIDATES_TESTED"
  ELSE IF \A i \in Candidates : Utility(i) < 100 THEN "EXPECTED_UTILITY_BELOW_THRESHOLD"
  ELSE IF Untested = {} THEN "ALL_SAFE_CANDIDATES_TESTED"
  ELSE IF Affordable = {} THEN "BUDGET_EXHAUSTED"
  ELSE "none"

StopSession ==
  /\ stage = "loop" /\ StopReason # "none"
  /\ stopping' = StopReason /\ stage' = "diagnose"
  /\ UNCHANGED <<trace, btested, outcome, posterior, spent, rootCause, certified>>

\* The untested candidate of highest utility that the budget allows.
SelectCandidate ==
  /\ stage = "loop" /\ StopReason = "none"
  /\ \E i \in Affordable :
       /\ \A j \in Affordable : Utility(j) <= Utility(i)
       /\ btested' = Append(btested, i)
  /\ stage' = "canary"
  /\ UNCHANGED <<trace, outcome, posterior, spent, stopping, rootCause, certified>>

InTest == btested[Len(btested)]

\* execute_canary without a replay: no database, artifacts missing, no version to
\* replace or to replace it with, the replay refused.  The step is recorded and
\* no posterior is touched.
CanaryUnavailable ==
  /\ stage = "canary" /\ "unavailable" \in CanaryOutcome
  /\ outcome' = Append(outcome, "unavailable")
  /\ stage' = "loop"
  /\ UNCHANGED <<trace, btested, posterior, spent, stopping, rootCause, certified>>

\* A synthetic episode is refused as evidence: its step failed, its cost is not
\* counted as actual.
CanarySynthetic ==
  /\ stage = "canary" /\ "synthetic" \in CanaryOutcome
  /\ outcome' = Append(outcome, "synthetic")
  /\ stage' = "loop"
  /\ UNCHANGED <<trace, btested, posterior, spent, stopping, rootCause, certified>>

CanaryRaises ==
  /\ stage = "canary" /\ "raises" \in CanaryOutcome
  /\ outcome' = Append(outcome, "raises")
  /\ stage' = "raised"
  /\ UNCHANGED <<trace, btested, posterior, spent, stopping, rootCause, certified>>

\* calculate_calibrated_likelihoods: P(evidence | cause), P(evidence | not cause)
Likelihoods(delta) ==
  CASE delta = -50 -> <<5, 95>> [] delta = 0 -> <<11, 94>> [] delta = 35 -> <<50, 55>>
    [] delta = 80 -> <<94, 11>>

UpdatePosterior(prior, l) ==
  IF prior <= 0 THEN 0 ELSE IF prior >= 100 THEN 100
  ELSE (100 * l[1] * prior) \div (l[1] * prior + l[2] * (100 - prior))

Highest(post) == Max({post[i] : i \in DOMAIN post} \cup {0})

\* A measured episode updates the posterior of the tested candidate from its
\* prior; 90 percent on any candidate ends the session.
CanaryMeasures ==
  /\ stage = "canary" /\ "measured" \in CanaryOutcome
  /\ outcome' = Append(outcome, "measured")
  /\ \E delta \in Delta :
       posterior' = [posterior EXCEPT ![InTest] = UpdatePosterior(Prior(InTest), Likelihoods(delta))]
  /\ IF Highest(posterior') >= 90
       THEN stopping' = "CONFIDENCE_REACHED" /\ stage' = "diagnose"
       ELSE stage' = "loop" /\ UNCHANGED stopping
  /\ UNCHANGED <<trace, btested, spent, rootCause, certified>>

-----------------------------------------------------------------------------
(* Diagnosis and certification                                             *)

Measured == {k \in DOMAIN outcome : outcome[k] = "measured"}
Best == {i \in Tested : posterior[i] # NoPosterior /\ posterior[i] = Highest(posterior)}

\* generate_diagnosis: a root cause needs 80 percent, and is the candidate of
\* highest posterior.  The quarantine validation may refuse it; otherwise the
\* approval request names the replay of the step of highest observed utility.
Diagnose ==
  /\ stage = "diagnose"
  /\ stage' = "ended"
  /\ IF \E i \in Tested : posterior[i] >= 80
       THEN /\ rootCause' \in Best
            /\ \/ UNCHANGED certified
               \/ \E k \in Measured :
                    /\ \A n \in Measured : Utility(btested[n]) <= Utility(btested[k])
                    /\ certified' = btested[k]
       ELSE UNCHANGED <<rootCause, certified>>
  /\ UNCHANGED <<trace, btested, outcome, posterior, spent, stopping>>

BNext ==
  \/ StopSession \/ SelectCandidate \/ CanaryUnavailable \/ CanarySynthetic \/ CanaryRaises
  \/ CanaryMeasures \/ Diagnose

BSpec == BInit /\ [][BNext]_bvars /\ WF_bvars(BNext)
-----------------------------------------------------------------------------
\* Every variable keeps its type: candidates, outcomes, probabilities.
BTypeOK ==
  /\ Tested \subseteq Candidates /\ Len(outcome) \in Len(btested) - 1 .. Len(btested)
  /\ posterior \in [DOMAIN trace -> -1 .. 100]
  /\ stage \in {"loop", "canary", "diagnose", "ended", "raised"}
  /\ {rootCause, certified} \subseteq Tested \cup {0}

\* generate_diagnosis only names a root cause, and the pipeline only requests an
\* approval, on a replay that was really measured and raised the posterior to the
\* 80 percent of engine.py:66 and :69 (the comment at :51 says 90): a synthetic or
\* unavailable canary decides nothing (test_framework.py:264).  The result of the
\* worker's BCRB job names its top candidate without it (worker.py:897).
RootCauseIsMeasured ==
  /\ rootCause # 0 =>
       /\ \E k \in Measured : btested[k] = rootCause
       /\ posterior[rootCause] >= 80
       /\ \A i \in Tested : posterior[i] <= posterior[rootCause]
  /\ certified # 0 => rootCause # 0 /\ \E k \in Measured : btested[k] = certified

\* No candidate is tested twice, whatever its canary gave, and none whose estimate
\* exceeds the budget (orchestrator.py:61, :86).  It does not say that the tests
\* together stay within it: a cost is only counted when it is "ACTUAL"
\* (orchestrator.py:129), which no canary reports.
TestedOnce ==
  /\ Cardinality(Tested) = Len(btested)
  /\ \A i \in Tested : EstimatedCost(ComponentOf(i)) <= Budget

\* A session that stops on confidence always names a root cause
\* (orchestrator.py:210, engine.py:71): its 90 percent is above the diagnosis's 80.
ConfidenceDiagnoses ==
  stage = "ended" /\ stopping = "CONFIDENCE_REACHED" => rootCause # 0

\* The session ended, with a diagnosis or with the exception of its canary.
SessionEnded == stage \in {"ended", "raised"}

=============================================================================
