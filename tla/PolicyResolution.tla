-------------------------- MODULE PolicyResolution --------------------------
(***************************************************************************)
(* The policy hierarchy: InheritanceResolver (packages/policy/src/         *)
(* resolver.py, hierarchy.py), the verdict the engine draws from it when   *)
(* no approval is cited (engine.py; approvals are in module Approvals),    *)
(* the hook that acts on it (hooks.py) and the shadow evaluation of a      *)
(* candidate policy (shadow.py).                                           *)
(*                                                                         *)
(* One action of one tenant.  A budget of 0 is "no cap"; no roles is "any  *)
(* role".                                                                  *)
(***************************************************************************)
EXTENDS Naturals, Sequences, FiniteSets

CONSTANTS
  PNode,       \* identifiers of the tenant's nodes
  Leaf,        \* the node that is asked about
  Trees,       \* PNode -> [parent, active] functions of the registry
  RuleLists,   \* the rule lists a node may have
  PRole        \* requester roles

Rank == [deny |-> 0, needs_approval |-> 1, allow |-> 2]
TierRank == [critical |-> 0, high |-> 1, medium |-> 2, low |-> 3]
PolicyRule ==
  [covers : BOOLEAN, verdict : DOMAIN Rank, tier : DOMAIN TierRank, approvers : Nat, two : BOOLEAN,
   budget : Nat, roles : SUBSET PRole, justified : BOOLEAN]

ASSUME PolicyNodesAssumption == Leaf \in PNode
ASSUME PolicyRulesAssumption == RuleLists \subseteq Seq(PolicyRule)

VARIABLES
  tree,        \* the registered nodes: parent ("none", or an unregistered "gone") and active
  ruleList,    \* PNode -> sequence of rules
  role,        \* the requester's role
  ppc,         \* where the evaluation is
  at,          \* the node the walk is at
  lineage,     \* the ancestors collected, leaf first
  matching,    \* the matching rules, organization first
  ruleNo,      \* rules applied
  effective,   \* the effective policy
  decision,    \* the engine's verdict
  direction    \* what the shadow evaluation reports of that verdict

pvars == <<tree, ruleList, role, ppc, at, lineage, matching, ruleNo, effective, decision, direction>>

Start == [verdict |-> "allow", tier |-> "low", approvers |-> 0, two |-> FALSE, budget |-> 0, roles |-> {}]
DefaultDeny == [Start EXCEPT !.verdict = "deny", !.tier = "high"]

PInit ==
  /\ tree \in Trees /\ ruleList \in [DOMAIN tree -> RuleLists] /\ role \in PRole
  /\ ppc = "walk" /\ at = Leaf /\ lineage = <<>> /\ matching = <<>> /\ ruleNo = 0
  /\ effective = Start /\ decision = "none" /\ direction = "none"
-----------------------------------------------------------------------------
(* _ancestor_chain                                                         *)
Registered(n) == n \in DOMAIN tree
Walked(n) == \E i \in DOMAIN lineage : lineage[i] = n

WalkUp ==
  /\ ppc = "walk" /\ Registered(at) /\ ~Walked(at)
  /\ lineage' = Append(lineage, at) /\ at' = tree[at].parent
  /\ UNCHANGED <<tree, ruleList, role, ppc, matching, ruleNo, effective, decision, direction>>

\* get_rule_for_action: the first rule whose pattern covers the action.
Covering(n) == {i \in DOMAIN ruleList[n] : ruleList[n][i].covers}
HasRule(n) == tree[n].active /\ Covering(n) # {}
RuleOf(n) == ruleList[n][CHOOSE i \in Covering(n) : \A j \in Covering(n) : i <= j]

\* The rules of a chain of nodes, in its order: inactive nodes and nodes without a
\* rule are skipped.
AddRule(rules, n) == IF HasRule(n) THEN Append(rules, RuleOf(n)) ELSE rules
RulesOf(chain) ==
  LET upTo[i \in 0 .. Len(chain)] == IF i = 0 THEN <<>> ELSE AddRule(upTo[i - 1], chain[i])
  IN upTo[Len(chain)]

\* A walk ends at the root, at a parent that is not registered, or in a cycle.
\* No rule denies.
Match ==
  /\ ppc = "walk" /\ (~Registered(at) \/ Walked(at))
  /\ LET n == Len(lineage) IN matching' = RulesOf([i \in 1..n |-> lineage[n + 1 - i]])
  /\ IF matching' = <<>> THEN ppc' = "resolved" /\ effective' = DefaultDeny
                         ELSE ppc' = "tighten" /\ UNCHANGED effective
  /\ UNCHANGED <<tree, ruleList, role, at, lineage, ruleNo, decision, direction>>
-----------------------------------------------------------------------------
(* resolve                                                                 *)
Lower(a, b) == IF a = 0 THEN b ELSE IF b = 0 \/ a <= b THEN a ELSE b

\* Mutant of RolesAfter: roles accumulate.
RolesAfterUnion(e, r) == e.roles \cup r.roles

\* The intersection; but an empty one reads as "not restricted yet".
RolesAfter(e, r) ==
  IF r.roles = {} THEN e.roles ELSE IF e.roles = {} THEN r.roles ELSE e.roles \cap r.roles

VerdictAfter(e, r) == IF Rank[r.verdict] < Rank[e.verdict] THEN r.verdict ELSE e.verdict

Tighten(e, r) ==
  [verdict |-> VerdictAfter(e, r),
   tier |-> IF TierRank[r.tier] < TierRank[e.tier] THEN r.tier ELSE e.tier,
   approvers |-> IF r.approvers > e.approvers THEN r.approvers ELSE e.approvers,
   two |-> e.two \/ r.two,
   budget |-> Lower(e.budget, r.budget),
   roles |-> RolesAfter(e, r)]

\* A rule below the first that is laxer than what is in force needs a
\* justification, and even then changes nothing.
Relaxes(r) == ruleNo > 0 /\ Rank[r.verdict] > Rank[effective.verdict]

ApplyRule ==
  /\ ppc = "tighten" /\ ruleNo < Len(matching)
  /\ LET r == matching[ruleNo + 1] IN
     IF Relaxes(r) /\ ~r.justified THEN ppc' = "conflict" /\ UNCHANGED <<ruleNo, effective>>
     ELSE ruleNo' = ruleNo + 1 /\ effective' = Tighten(effective, r) /\ UNCHANGED ppc
  /\ UNCHANGED <<tree, ruleList, role, at, lineage, matching, decision, direction>>

Resolved ==
  /\ ppc = "tighten" /\ ruleNo = Len(matching) /\ ppc' = "resolved"
  /\ UNCHANGED <<tree, ruleList, role, at, lineage, matching, ruleNo, effective, decision, direction>>
-----------------------------------------------------------------------------
(* PolicyEngine.evaluate without a cited approval, and shadow_evaluate     *)

EngineVerdict ==
  IF ppc = "conflict" \/ effective.verdict = "deny" THEN "deny"
  ELSE IF effective.roles # {} /\ role \notin effective.roles THEN "deny"
  ELSE IF effective.verdict = "needs_approval" \/ effective.approvers > 0 THEN "needs_approval"
  ELSE "allow"

Evaluate ==
  /\ ppc \in {"resolved", "conflict"} /\ decision = "none" /\ decision' = EngineVerdict
  /\ UNCHANGED <<tree, ruleList, role, ppc, at, lineage, matching, ruleNo, effective, direction>>

\* The shadow evaluation compares the resolver's verdict alone.
ShadowVerdict == IF ppc = "conflict" THEN "deny" ELSE effective.verdict

ShadowEvaluate ==
  /\ decision # "none" /\ direction = "none"
  /\ direction' = IF ShadowVerdict = decision THEN "unchanged"
                  ELSE IF Rank[ShadowVerdict] < Rank[decision] THEN "tightened" ELSE "relaxed"
  /\ UNCHANGED <<tree, ruleList, role, ppc, at, lineage, matching, ruleNo, effective, decision>>

\* _check of the hooks: None, the id of the request, or PolicyDeniedError.
Hook == IF decision = "allow" THEN "proceed" ELSE IF decision = "deny" THEN "raise" ELSE "wait"

PNext == WalkUp \/ Match \/ ApplyRule \/ Resolved \/ Evaluate \/ ShadowEvaluate
PSpec == PInit /\ [][PNext]_pvars
-----------------------------------------------------------------------------
(* What must hold: the rules that bind are those of the active registered  *)
(* ancestors, however the resolver finds them.  The ancestors are the      *)
(* least set of registered nodes that holds the leaf and is closed under   *)
(* parents.                                                                *)
Closed(S) ==
  /\ Leaf \in DOMAIN tree => Leaf \in S
  /\ \A n \in S : tree[n].parent \in DOMAIN tree => tree[n].parent \in S
Ancestors == {n \in DOMAIN tree : \A S \in SUBSET DOMAIN tree : Closed(S) => n \in S}
Binding == {RuleOf(n) : n \in {a \in Ancestors : HasRule(a)}}

\* The effective policy is at least as strict as every binding rule: verdict,
\* tier, approvers, two-person control and budget; a justified override never
\* relaxes any of them.
TighteningOnly ==
  ppc = "resolved" => \A r \in Binding :
    /\ Rank[effective.verdict] <= Rank[r.verdict] /\ TierRank[effective.tier] <= TierRank[r.tier]
    /\ effective.approvers >= r.approvers /\ (r.two => effective.two)
    /\ r.budget > 0 => (effective.budget > 0 /\ effective.budget <= r.budget)

\* A hook lets an action proceed only if every binding rule allows it without an
\* approver, and there is one.
ProceedIsUnanimous ==
  Hook = "proceed" =>
    /\ Binding # {}
    /\ \A r \in Binding : r.verdict = "allow" /\ r.approvers = 0

\* A role that some binding rule excludes is admitted only where the rules leave
\* no role at all, which the resolver reads as no restriction.
Restricting == {r.roles : r \in {b \in Binding : b.roles # {}}}
RolesAreIntersected ==
  (decision \in {"allow", "needs_approval"} /\ \E x \in PRole : \A s \in Restricting : x \in s) =>
    \A s \in Restricting : role \in s

\* A shadow evaluation of the policy in force never reports that it would be
\* stricter than what the engine decided under it.
ShadowNeverStricter == direction # "tightened"
=============================================================================
