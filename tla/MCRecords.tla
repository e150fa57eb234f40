------------------------------ MODULE MCRecords ------------------------------
(***************************************************************************)
(* Decisions and records, checked together: the causal cut and its         *)
(* validation, policy resolution, the transport gate, the provenance       *)
(* memory, the Merkle DAG, the schema migrations, the SDK's spans, the     *)
(* recovery actions, the local receipt store and the agent pipeline.  They *)
(* keep disjoint state, so a behaviour exercises one of them, the          *)
(* scenario, and the others stay in an initial state of theirs.            *)
(***************************************************************************)
EXTENDS CausalCut, RecoveryValidation, PolicyResolution, TransportGate, ProvenanceMemory, MerkleDag,
        SchemaMigrations, TraceSpans, RecoveryActions, LocalReceiptStore, AgentPipeline, TLC

CONSTANTS
  org, bu, agent, missing, root, ra, rb,  \* policy nodes and roles
  p1, p2, x1                              \* proposals and the item they change

VARIABLE scenario

allVars == <<qvars, yvars, pvars, tvars, pmvars, mvars, smvars, cvars, ravars, lrvars, apvars, scenario>>
-----------------------------------------------------------------------------
(* Inputs                                                                  *)

\* Graphs of four nodes, cyclic ones too, with the edge 2 -> 4.
MCGraphs == {E \cup {<<2, 4>>} : E \in SUBSET {<<1, 2>>, <<1, 3>>, <<2, 3>>, <<3, 2>>, <<3, 4>>}}
MCEnds == {<<{1}, {4}>>, <<{1, 3}, {2, 4}>>, <<{1, 9}, {1, 3}>>}
Act(n, c) == [on |-> n, cost |-> c]
MCOffers ==
  {{Act(1, 5), Act(2, 1), Act(3, 2), Act(4, 4)}, {Act(2, 1), Act(2, 2)}, {Act(2, 1), Act(3, 1), Act(4, 1)},
   {Act(1, 0), Act(4, 0)}, {Act(2, c) : c \in 1 .. 4}}

MCSpanOrder == <<"s1", "s2", "tool">>
MCSpanComponent == [s \in Spans |-> IF s = "s1" THEN "llm" ELSE "tool"]
MCCuts ==
  {[ctx |-> c, actions |-> A, residual |-> r, production |-> p, executor |-> e, metric |-> m] :
     c \in {"none", "list", "context"},
     A \in {{}, {[on |-> "tool", cap |-> "none"]}}
             \cup {{[on |-> "llm", cap |-> k], [on |-> "tool", cap |-> "none"]} :
                     k \in {"verified", "unverified", "absent"}},
     r \in BOOLEAN, p \in BOOLEAN, e \in {"synthetic", "local", "other"}, m \in {"missing", "within", "above"}}
MCOriginals == {[s \in Spans |-> IF s = "tool" THEN 1 ELSE 0], [s \in Spans |-> IF s = "tool" THEN Gone ELSE 0]}
NoFreezes == [s \in Spans |-> NoFreeze]
MCEnvelopes ==
  {[intervened |-> {"tool"}, frozen |-> f, forbidden |-> fb, allowed |-> al,
    constraint |-> [s \in Spans |-> IF s = "s1" THEN t ELSE u]] :
     f \in {NoFreezes, [NoFreezes EXCEPT !["s1"] = 0], [NoFreezes EXCEPT !["s2"] = 2]},
     fb \in {{}, {"s1"}}, al \in {{}, {"s1"}, {"s2"}}, t \in Tolerance, u \in {"none", "ignore"}}

PRule(v, roles, approvers, justified, budget) ==
  [covers |-> TRUE, verdict |-> v, tier |-> IF v = "allow" THEN "low" ELSE "high", approvers |-> approvers,
   two |-> approvers > 1, budget |-> budget, roles |-> roles, justified |-> justified]
ElsewhereRule == [PRule("deny", {}, 0, FALSE, 0) EXCEPT !.covers = FALSE]
MCRuleLists ==
  {<<>>, <<ElsewhereRule>>, <<PRule("deny", {}, 0, FALSE, 0)>>,
   <<ElsewhereRule, PRule("allow", {}, 0, FALSE, 0)>>, <<PRule("allow", {}, 0, TRUE, 1), ElsewhereRule>>,
   <<PRule("allow", {ra}, 0, TRUE, 2)>>, <<PRule("allow", {rb}, 0, TRUE, 0)>>,
   <<PRule("allow", {ra, rb}, 1, FALSE, 0)>>, <<PRule("needs_approval", {}, 1, FALSE, 1)>>,
   <<PRule("needs_approval", {ra}, 2, TRUE, 0), PRule("deny", {}, 0, FALSE, 0)>>}

\* Whole hierarchies, with an inactive unit, with an unregistered parent, with a
\* cycle, and without the leaf.
PTree(o, b, a, act) ==
  (org :> [parent |-> o, active |-> TRUE]) @@ (bu :> [parent |-> b, active |-> act])
    @@ (agent :> [parent |-> a, active |-> TRUE])
MCTrees ==
  {PTree(root, org, bu, TRUE), PTree(root, org, bu, FALSE), PTree(root, missing, bu, TRUE),
   PTree(agent, org, bu, TRUE), (bu :> [parent |-> root, active |-> TRUE])}

\* Two proposals for one slot, of every action; with a dry run; with an
\* expected version.
AskBoth(a, m, e) ==
  [p \in {p1, p2} |-> [action |-> a, item |-> x1, value |-> IF p = p1 THEN "a" ELSE "b",
                       mode |-> IF p = p1 THEN m ELSE "approved", expected |-> e]]
MCAsks ==
  {AskBoth(a, "approved", AnyVersion) : a \in ActionType}
  \cup {AskBoth("rollback_component", "dry_run", AnyVersion), AskBoth("disable_test_tool", "dry_run", AnyVersion)}
  \cup {AskBoth("rollback_component", "approved", e) : e \in {"stable", "a"}}

MCSetups ==
  [real : BOOLEAN, retriever : BOOLEAN, llm : {TRUE}, tools : {"default", "custom"},
   query : {"empty_search", "health_check", "create_replay", "delete_trace", "metric"},
   quarantined : {{}, {"fallback"}, {"orchestrator", "response"}, {"policy"}, {"retrieval"}}]
  \cup [real : BOOLEAN, retriever : {TRUE}, llm : {FALSE}, tools : {"default"}, query : {"health_check"},
        quarantined : {{}, {"verifier"}}]
-----------------------------------------------------------------------------
(* One initial state of each component, for the scenarios it is not in     *)

QIdle == edges = {<<2, 4>>} /\ ends = <<{1}, {4}>> /\ offer = (CHOOSE o \in Offers : TRUE) /\ QInit
YIdle ==
  /\ original = (CHOOSE o \in Originals : TRUE) /\ cut = NoCut /\ envelope = (CHOOSE e \in Envelopes : TRUE)
  /\ YInit
PIdle ==
  /\ tree = PTree(root, org, bu, TRUE) /\ ruleList = [n \in PNode |-> <<>>] /\ role = ra
  /\ PInit
TIdle ==
  /\ signed = TRUE /\ calibrated = TRUE /\ sameTenant = TRUE /\ crossAllowed = TRUE /\ differs = {}
  /\ footprint = [k \in FootKinds |-> {}] /\ TInit
SMIdle == dialect = "postgresql" /\ SMInit
CIdle == live = {CHOOSE t \in Task : TRUE} /\ CInit
RAIdle ==
  /\ executor = "local" /\ ask = (CHOOSE f \in Asks : TRUE)
  /\ initial = [s \in Slots |-> IF s[1] \in Fencing THEN Off ELSE CHOOSE v \in Starts : TRUE]
  /\ RAInit
APIdle == setup = (CHOOSE u \in Setups : TRUE) /\ APInit

Init ==
  \/ /\ scenario = "cut"        /\ QInit /\ YIdle /\ PIdle /\ TIdle /\ PMInit /\ MInit /\ SMIdle /\ CIdle /\ RAIdle /\ LRInit /\ APIdle
  \/ /\ scenario = "validation" /\ QIdle /\ YInit /\ PIdle /\ TIdle /\ PMInit /\ MInit /\ SMIdle /\ CIdle /\ RAIdle /\ LRInit /\ APIdle
  \/ /\ scenario = "policy"     /\ QIdle /\ YIdle /\ PInit /\ TIdle /\ PMInit /\ MInit /\ SMIdle /\ CIdle /\ RAIdle /\ LRInit /\ APIdle
  \/ /\ scenario = "transport"  /\ QIdle /\ YIdle /\ PIdle /\ TInit /\ PMInit /\ MInit /\ SMIdle /\ CIdle /\ RAIdle /\ LRInit /\ APIdle
  \/ /\ scenario = "memory"     /\ QIdle /\ YIdle /\ PIdle /\ TIdle /\ PMInit /\ MInit /\ SMIdle /\ CIdle /\ RAIdle /\ LRInit /\ APIdle
  \/ /\ scenario = "dag"        /\ QIdle /\ YIdle /\ PIdle /\ TIdle /\ PMInit /\ MInit /\ SMIdle /\ CIdle /\ RAIdle /\ LRInit /\ APIdle
  \/ /\ scenario = "schema"     /\ QIdle /\ YIdle /\ PIdle /\ TIdle /\ PMInit /\ MInit /\ SMInit /\ CIdle /\ RAIdle /\ LRInit /\ APIdle
  \/ /\ scenario = "spans"      /\ QIdle /\ YIdle /\ PIdle /\ TIdle /\ PMInit /\ MInit /\ SMIdle /\ CInit /\ RAIdle /\ LRInit /\ APIdle
  \/ /\ scenario = "actions"    /\ QIdle /\ YIdle /\ PIdle /\ TIdle /\ PMInit /\ MInit /\ SMIdle /\ CIdle /\ RAInit /\ LRInit /\ APIdle
  \/ /\ scenario = "receipts"   /\ QIdle /\ YIdle /\ PIdle /\ TIdle /\ PMInit /\ MInit /\ SMIdle /\ CIdle /\ RAIdle /\ LRInit /\ APIdle
  \/ /\ scenario = "agents"     /\ QIdle /\ YIdle /\ PIdle /\ TIdle /\ PMInit /\ MInit /\ SMIdle /\ CIdle /\ RAIdle /\ LRInit /\ APInit

Next ==
  \/ /\ scenario = "cut" /\ QNext
     /\ UNCHANGED <<yvars, pvars, tvars, pmvars, mvars, smvars, cvars, ravars, lrvars, apvars, scenario>>
  \/ /\ scenario = "validation" /\ YNext
     /\ UNCHANGED <<qvars, pvars, tvars, pmvars, mvars, smvars, cvars, ravars, lrvars, apvars, scenario>>
  \/ /\ scenario = "policy" /\ PNext
     /\ UNCHANGED <<qvars, yvars, tvars, pmvars, mvars, smvars, cvars, ravars, lrvars, apvars, scenario>>
  \/ /\ scenario = "transport" /\ TNext
     /\ UNCHANGED <<qvars, yvars, pvars, pmvars, mvars, smvars, cvars, ravars, lrvars, apvars, scenario>>
  \/ /\ scenario = "memory" /\ PMNext
     /\ UNCHANGED <<qvars, yvars, pvars, tvars, mvars, smvars, cvars, ravars, lrvars, apvars, scenario>>
  \/ /\ scenario = "dag" /\ MNext
     /\ UNCHANGED <<qvars, yvars, pvars, tvars, pmvars, smvars, cvars, ravars, lrvars, apvars, scenario>>
  \/ /\ scenario = "schema" /\ SMNext
     /\ UNCHANGED <<qvars, yvars, pvars, tvars, pmvars, mvars, cvars, ravars, lrvars, apvars, scenario>>
  \/ /\ scenario = "spans" /\ CNext
     /\ UNCHANGED <<qvars, yvars, pvars, tvars, pmvars, mvars, smvars, ravars, lrvars, apvars, scenario>>
  \/ /\ scenario = "actions" /\ RANext
     /\ UNCHANGED <<qvars, yvars, pvars, tvars, pmvars, mvars, smvars, cvars, lrvars, apvars, scenario>>
  \/ /\ scenario = "receipts" /\ LRNext
     /\ UNCHANGED <<qvars, yvars, pvars, tvars, pmvars, mvars, smvars, cvars, ravars, apvars, scenario>>
  \/ /\ scenario = "agents" /\ APNext
     /\ UNCHANGED <<qvars, yvars, pvars, tvars, pmvars, mvars, smvars, cvars, ravars, lrvars, scenario>>

RecordsSpec == Init /\ [][Next]_allVars

-----------------------------------------------------------------------------
\* A recovery is a cheapest sound cut of all failure paths (causal_cut.py), goes to
\* a canary only on a coherent replay that is no synthetic simulation and leaves
\* every other component as it was (validation.py, divergence_validator.py; evidence
\* of any other class and metrics nobody measured pass), and its executor undoes what it did, under the lock
\* and the receipt it was given (recovery/src/executor.py).
RecoveryIsSupported ==
  /\ PathsAreComplete /\ CutIsSound /\ ExactIsCheapest
  /\ ValidMeansCoherent /\ EligibleIsSupported /\ UntargetedIsKept
  /\ SettingIsTop /\ ReceiptTellsOutcome /\ LockHolds

\* A policy is at least as strict as each rule that binds it, for the engine, the
\* hooks and a shadow evaluation (resolver.py, hooks.py, shadow.py), and a recovery
\* is reused elsewhere only if every difference was answered for
\* (causal_transport_gate.py).
PolicyOnlyTightens ==
  /\ TighteningOnly /\ ProceedIsUnanimous /\ RolesAreIntersected /\ ShadowNeverStricter
  /\ DirectMeansSame /\ DifferencesAreAnswered

\* Records tell what happened: the memory's audit chain and quarantine
\* (memory/src/store.py), the DAG's hashes (merkle_dag.py), the SQLite receipts'
\* trail (admission_store.py) and the spans of a trace (trace_sdk).
RecordsTellTheTruth ==
  /\ ChainBreaksOnlyByOverlap /\ QuarantineHolds /\ QuarantineIsAudited
  /\ IndexIsExact /\ ForkIsParallel /\ PathIsTamperEvident
  /\ TrailTellsRow /\ ChainFindsTampering /\ ReservationFollowsObject
  /\ ParentIsCaller /\ TraceIsConnected /\ CollectedOnce
=============================================================================
