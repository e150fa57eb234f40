-------------------------- MODULE RecoveryValidation --------------------------
(***************************************************************************)
(* Validation of a recovery cut: RecoveryValidator.validate_cut            *)
(* (packages/recovery/src/validation.py), the replay executors it may have *)
(* (replay_executor.py) and the divergence validator (packages/replay/src/ *)
(* divergence_validator.py), which goes through the nodes of the original  *)
(* and the replayed execution.  The divergence validator is also called on *)
(* its own, with any envelope.                                             *)
(*                                                                         *)
(* An output is a small number and Gone for a node without a span; two     *)
(* outputs are similar when they differ by at most one.                    *)
(***************************************************************************)
EXTENDS Integers, Sequences, FiniteSets

CONSTANTS
  SpanOrder,     \* the span ids, sorted
  SpanComponent, \* span id -> component type
  Cuts,          \* requests: [ctx, actions, residual, production, executor, metric]
  Originals,     \* span id -> output
  Envelopes      \* envelopes of the other callers

Spans == {SpanOrder[i] : i \in DOMAIN SpanOrder}
Gone == -1
Output == -1 .. 2
NoFreeze == -2
Tolerance == {"none", "exact", "ignore", "numeric_delta", "jaccard_overlap", "semantic_text", "unheard"}
EvidenceClass ==
  {"PRODUCTION", "REAL_CONTROLLED_EXPERIMENT", "SYNTHETIC_SIMULATION", "TEST_FIXTURE", "UNVERIFIED"}
NoCut == [ctx |-> "envelope", actions |-> {}, residual |-> FALSE, production |-> FALSE,
          executor |-> "other", metric |-> "missing"]

ASSUME ValidationAssumption ==
  /\ SpanOrder \in Seq(Spans) /\ Originals \subseteq [Spans -> Output]
  /\ \A e \in Envelopes :
       e.frozen \in [Spans -> {NoFreeze} \cup Output] /\ e.constraint \in [Spans -> Tolerance]

VARIABLES
  cut,       \* the request, or NoCut for a call of the divergence validator alone
  original,  \* original_spans
  replayed,  \* the replay's spans
  envelope,  \* [intervened, frozen, forbidden, allowed, constraint]
  ypc,       \* where validate_cut is
  ynode,     \* the node the divergence loop is at
  nodeStatus,\* per_node
  evidence,  \* the executor's evidence_kind
  eligible,  \* eligible_for_canary
  verdictOf  \* the reason's kind

yvars == <<cut, original, replayed, envelope, ypc, ynode, nodeStatus, evidence, eligible, verdictOf>>
-----------------------------------------------------------------------------
(* The envelope of a cut                                                   *)
Targets(c) == {a.on : a \in c.actions}

\* Intervened are the components the actions name; frozen is every span of
\* another component. The other fields keep their defaults.
EnvelopeOf(c, o) ==
  [intervened |-> Targets(c),
   frozen |-> [s \in Spans |-> IF o[s] # Gone /\ SpanComponent[s] \notin Targets(c) THEN o[s] ELSE NoFreeze],
   forbidden |-> {}, allowed |-> {}, constraint |-> [s \in Spans |-> "none"]]

YInit ==
  /\ original \in Originals /\ replayed = original
  /\ nodeStatus = [s \in Spans |-> "unseen"] /\ ynode = 1
  /\ evidence = "none" /\ eligible = FALSE /\ verdictOf = "none"
  /\ \/ /\ cut \in Cuts /\ envelope = EnvelopeOf(cut, original) /\ ypc = "authorize"
     \/ /\ cut = NoCut /\ envelope \in Envelopes /\ ypc = "replay"

Reject(r) ==
  /\ ypc' = "rejected" /\ verdictOf' = r
  /\ UNCHANGED <<cut, original, replayed, envelope, ynode, nodeStatus, eligible>>

\* Neither a context nor a list of capabilities is refused; an action that
\* requires a capability needs it provided, a context, and a valid signature.
Authorized(c) ==
  /\ c.ctx # "none"
  /\ \A a \in c.actions : a.cap # "none" => c.ctx = "context" /\ a.cap = "verified"

Authorize ==
  /\ ypc = "authorize"
  /\ \/ Authorized(cut) /\ ypc' = "mode"
        /\ UNCHANGED <<cut, original, replayed, envelope, ynode, nodeStatus, eligible, verdictOf>>
     \/ ~Authorized(cut) /\ Reject("unauthorized")
  /\ UNCHANGED evidence

\* In production the synthetic executor is not used.
CheckMode ==
  /\ ypc = "mode"
  /\ \/ cut.production /\ cut.executor = "synthetic" /\ Reject("no executor")
     \/ /\ ~(cut.production /\ cut.executor = "synthetic") /\ ypc' = "replay"
        /\ UNCHANGED <<cut, original, replayed, envelope, ynode, nodeStatus, eligible, verdictOf>>
  /\ UNCHANGED evidence

\* The executors. The synthetic one rewrites the outputs of the targeted
\* components; the local one hands a closure to a spawned process, which cannot
\* be pickled, and always answers SANDBOX_UNAVAILABLE; another one answers
\* anything, under any class of evidence, or raises, which leaves the default class.
Rewritten ==
  [s \in Spans |-> IF original[s] # Gone /\ SpanComponent[s] \in Targets(cut) THEN 2 ELSE original[s]]

RunReplay ==
  /\ ypc = "replay"
  /\ \/ /\ cut.executor = "synthetic" /\ replayed' = Rewritten /\ evidence' = "SYNTHETIC_SIMULATION"
        /\ ypc' = "divergence" /\ UNCHANGED <<cut, original, envelope, ynode, nodeStatus, eligible, verdictOf>>
     \/ /\ cut.executor = "other" /\ \E r \in [Spans -> Output] : replayed' = r
        /\ evidence' \in EvidenceClass /\ ypc' = "divergence"
        /\ UNCHANGED <<cut, original, envelope, ynode, nodeStatus, eligible, verdictOf>>
     \/ /\ cut.executor # "synthetic" /\ cut # NoCut /\ Reject("replay failed")
        /\ evidence' \in IF cut.executor = "local" THEN {"REAL_CONTROLLED_EXPERIMENT"} ELSE EvidenceClass
-----------------------------------------------------------------------------
(* DynamicCausalDivergenceValidator.validate                               *)
Changed(s) == original[s] # replayed[s]

\* _check_tolerance
Similar(o, r) == o # Gone /\ r # Gone /\ o - r \in -1 .. 1
Tolerates(s) ==
  LET t == envelope.constraint[s] IN
  CASE t \in {"none", "exact"} -> ~Changed(s)
    [] t = "ignore" -> TRUE
    [] t = "unheard" -> FALSE
    [] OTHER -> Similar(original[s], replayed[s])

\* The checks in their order; a node in neither execution is not visited.
StatusOf(s) ==
  IF s \in envelope.intervened THEN "intervened"
  ELSE IF envelope.frozen[s] # NoFreeze /\ replayed[s] # envelope.frozen[s] THEN "frozen_violation"
  ELSE IF ~Changed(s) THEN "unchanged"
  ELSE IF s \in envelope.forbidden THEN "forbidden_divergence"
  ELSE IF s \notin envelope.allowed
         THEN (IF Tolerates(s) THEN "within_tolerance" ELSE "unexpected_divergence")
  ELSE IF envelope.constraint[s] = "none" \/ Tolerates(s)
         THEN "allowed_descendant_changed" ELSE "allowed_descendant_violation"

Visited(s) == original[s] # Gone \/ replayed[s] # Gone

\* The next node; a forbidden divergence ends the loop.
VisitNode ==
  LET s == SpanOrder[ynode] IN
  /\ ypc = "divergence" /\ ynode <= Len(SpanOrder)
  /\ nodeStatus' = [nodeStatus EXCEPT ![s] = IF Visited(s) THEN StatusOf(s) ELSE "unseen"]
  /\ ynode' = IF nodeStatus'[s] = "forbidden_divergence" THEN Len(SpanOrder) + 1 ELSE ynode + 1
  /\ UNCHANGED <<cut, original, replayed, envelope, ypc, evidence, eligible, verdictOf>>

Violations ==
  {"frozen_violation", "forbidden_divergence", "unexpected_divergence", "allowed_descendant_violation"}
ReportValid == \A s \in Spans : nodeStatus[s] \notin Violations

\* Mutant of Eligible: a synthetic simulation may go to a canary.
EligibleAnyEvidence == ~cut.residual /\ ReportValid /\ cut.metric # "above"

\* A metric that was not measured is passed over.
Eligible == ~cut.residual /\ ReportValid /\ cut.metric # "above" /\ evidence # "SYNTHETIC_SIMULATION"

\* The invariants against the measured metrics, and the result.
Conclude ==
  /\ ypc = "divergence" /\ ynode > Len(SpanOrder) /\ ypc' = "concluded"
  /\ eligible' = (cut # NoCut /\ Eligible)
  /\ verdictOf' = IF ReportValid THEN "valid" ELSE "invalid"
  /\ UNCHANGED <<cut, original, replayed, envelope, ynode, nodeStatus, evidence>>

YNext == Authorize \/ CheckMode \/ RunReplay \/ VisitNode \/ Conclude
YSpec == YInit /\ [][YNext]_yvars
-----------------------------------------------------------------------------
\* What a coherent replay is, without the order of the checks: whatever was not
\* intervened upon keeps its frozen value, and what changed was allowed to or is
\* tolerated, and was not forbidden.
Coherent ==
  \A s \in Spans : Visited(s) /\ s \notin envelope.intervened =>
    /\ envelope.frozen[s] # NoFreeze => replayed[s] = envelope.frozen[s]
    /\ Changed(s) =>
         /\ s \notin envelope.forbidden
         /\ Tolerates(s) \/ (s \in envelope.allowed /\ envelope.constraint[s] = "none")

\* The divergence validator's verdict is exactly coherence, also when it stopped
\* early at a forbidden node (divergence_validator.py:267).
ValidMeansCoherent == ypc = "concluded" => (verdictOf = "valid" <=> Coherent)

\* A cut is eligible for a canary only when the capabilities its actions require
\* were verified, no failure path remains, its replay is coherent and no measured
\* metric is above its bound, and never on a synthetic simulation. That is less than
\* a controlled and measured replay: TEST_FIXTURE and UNVERIFIED evidence is eligible
\* too (validation.py:278), and a metric nobody measured passes (:264).
EligibleIsSupported ==
  eligible => /\ \A a \in cut.actions : a.cap \in {"none", "verified"}
              /\ cut.ctx # "none" /\ ~cut.residual /\ cut.metric # "above"
              /\ evidence # "SYNTHETIC_SIMULATION" /\ Coherent

\* What a cut leaves alone is what it was: when it is eligible, every span of a
\* component that no action targets came out of the replay unchanged, and none was
\* added, but for a span whose id is the name of a targeted component
\* (validation.py:158 names components where the divergence validator looks for ids).
UntargetedIsKept ==
  eligible => \A s \in Spans : SpanComponent[s] \notin Targets(cut) /\ Changed(s) => s \in Targets(cut)
=============================================================================
