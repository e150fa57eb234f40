---------------------------- MODULE TransportGate ----------------------------
(***************************************************************************)
(* Reuse of a recovery or a diagnosis in another environment: the causal   *)
(* transport gate (packages/policy/src/causal_transport_gate.py).          *)
(*                                                                         *)
(* Environments are compared variable by variable, so the model holds the  *)
(* set of variables that differ.  A footprint names variables as           *)
(* components, edges, policy, data and calibration conditions.             *)
(***************************************************************************)
EXTENDS Naturals, FiniteSets, FiniteSetsExt

CONSTANTS
  EnvVar,      \* the environment variables
  MaxItems     \* the variables a footprint names, at most

ASSUME TransportAssumption == IsFiniteSet(EnvVar) /\ MaxItems \in Nat

VARIABLES
  signed,      \* both descriptors carry a good signature
  calibrated,  \* both carry calibration evidence
  sameTenant, crossAllowed,
  differs,     \* the variables whose values differ
  footprint,   \* what the recovery depends on
  tpc,         \* where the evaluation is
  violated, preserved, unknown,   \* sets of <<kind, variable>>
  tstatus,     \* the decision
  experiments  \* the variables it asks target experiments about

tvars == <<signed, calibrated, sameTenant, crossAllowed, differs, footprint, tpc, violated, preserved,
           unknown, tstatus, experiments>>
inputs == <<signed, calibrated, sameTenant, crossAllowed, differs, footprint>>

FootKinds == {"component", "edge", "policy", "data", "calibration"}
Footprints == {f \in [FootKinds -> SUBSET EnvVar] :
                 MapThenSumSet(LAMBDA k : Cardinality(f[k]), FootKinds) <= MaxItems}

TInit ==
  /\ signed \in BOOLEAN /\ calibrated \in BOOLEAN /\ sameTenant \in BOOLEAN /\ crossAllowed \in BOOLEAN
  /\ differs \in SUBSET EnvVar /\ footprint \in Footprints
  /\ tpc = "authenticate" /\ violated = {} /\ preserved = {} /\ unknown = {}
  /\ tstatus = "none" /\ experiments = {}

\* _build_decision: experiments only where validation is required. The planner
\* is module IncidentOrchestrator's; with one uniform candidate per condition
\* it may leave some out.
Build(s, e) == tpc' = "done" /\ tstatus' = s /\ experiments' \in e

Authenticate ==
  /\ tpc = "authenticate"
  /\ \/ ~signed /\ Build("NOT_TRANSPORTABLE", {{}})
     \/ signed /\ ~calibrated /\ Build("UNKNOWN", {{}})
     \/ signed /\ calibrated /\ ~sameTenant /\ ~crossAllowed /\ Build("NOT_TRANSPORTABLE", {{}})
     \/ /\ signed /\ calibrated /\ (sameTenant \/ crossAllowed)
        /\ tpc' = "components" /\ UNCHANGED <<tstatus, experiments>>
  /\ UNCHANGED <<inputs, violated, preserved, unknown>>

\* _graph_derived_relevance in tenths: the share of the components, edges and
\* policies that name the variable; data and calibration do not count.
Counted == {"component", "edge", "policy"}
Total == Cardinality(footprint["component"]) + Cardinality(footprint["edge"]) + Cardinality(footprint["policy"])
Relevance(v) ==
  IF Total = 0 THEN 5 ELSE (10 * Cardinality({k \in Counted : v \in footprint[k]})) \div Total

Split(k, bad, doubtful) ==
  /\ violated' = violated \cup {<<k, v>> : v \in bad}
  /\ unknown' = unknown \cup {<<k, v>> : v \in doubtful}
  /\ preserved' = preserved \cup {<<k, v>> : v \in footprint[k] \ (bad \cup doubtful)}

\* A component that differs is a violation only if it is most of the footprint.
EvaluateComponents ==
  /\ tpc = "components" /\ tpc' = "conditions"
  /\ LET changed == footprint["component"] \cap differs
         bad == {v \in changed : Relevance(v) >= 8}
     IN Split("component", bad, changed \ bad)
  /\ UNCHANGED <<inputs, tstatus, experiments>>

Hard == {"edge", "policy", "data"}

\* Edges, policies and data are hard constraints; calibration is not.
EvaluateConditions ==
  /\ tpc = "conditions" /\ tpc' = "cover"
  /\ LET Named(kinds, vs) == {x \in kinds \X vs : x[2] \in footprint[x[1]]} IN
     /\ violated' = violated \cup Named(Hard, differs)
     /\ unknown' = unknown \cup Named({"calibration"}, differs)
     /\ preserved' = preserved \cup Named(Hard \cup {"calibration"}, EnvVar \ differs)
  /\ UNCHANGED <<inputs, tstatus, experiments>>

\* Differences that the footprint does not name must be validated.
CoverDifferences ==
  /\ tpc = "cover" /\ tpc' = "decide"
  /\ LET covered == {c[2] : c \in violated \cup preserved \cup unknown}
     IN unknown' = unknown \cup {<<"difference", v>> : v \in differs \ covered}
  /\ UNCHANGED <<inputs, violated, preserved, tstatus, experiments>>

Decide ==
  /\ tpc = "decide"
  /\ \/ violated # {} /\ Build("NOT_TRANSPORTABLE", {{}})
     \/ violated = {} /\ unknown # {} /\ Build("TARGET_VALIDATION_REQUIRED", SUBSET {u[2] : u \in unknown})
     \/ /\ violated = {} /\ unknown = {}
        /\ Build(IF differs = {} THEN "DIRECTLY_TRANSPORTABLE" ELSE "UNKNOWN", {{}})
  /\ UNCHANGED <<inputs, violated, preserved, unknown>>

TNext == Authenticate \/ EvaluateComponents \/ EvaluateConditions \/ CoverDifferences \/ Decide
TSpec == TInit /\ [][TNext]_tvars
-----------------------------------------------------------------------------
\* A recovery is transported directly only between authenticated, calibrated
\* environments that the tenant policy joins and that do not differ at all.
DirectMeansSame ==
  tstatus = "DIRECTLY_TRANSPORTABLE" => signed /\ calibrated /\ (sameTenant \/ crossAllowed) /\ differs = {}

\* Every difference is answered for: a changed edge, policy or data condition
\* excludes transport, any other change asks at least for validation, and the
\* last resort of the code, UNKNOWN, is only ever missing calibration.
DifferencesAreAnswered ==
  (tpc = "done" /\ signed /\ (sameTenant \/ crossAllowed) /\ differs # {}) =>
    /\ tstatus = "UNKNOWN" <=> ~calibrated
    /\ (calibrated /\ \E k \in Hard : footprint[k] \cap differs # {}) => tstatus = "NOT_TRANSPORTABLE"
    /\ experiments \subseteq differs
=============================================================================
