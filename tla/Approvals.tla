------------------------------ MODULE Approvals ------------------------------
(***************************************************************************)
(* The approval service (packages/policy/src/approvals.py) and the policy  *)
(* engine that creates requests and cites them (packages/policy/src/       *)
(* engine.py).  A request is pending until enough distinct actors approve  *)
(* it, one denies it, its 24 hours pass, or somebody breaks the glass.     *)
(*                                                                         *)
(* The audit log is kept per request: the properties are about the events  *)
(* of one request, in their order.  All requests are of one tenant, and    *)
(* the roles of their requesters satisfy the policy.                       *)
(***************************************************************************)
EXTENDS Integers, Sequences, FiniteSets

CONSTANTS
  Actor, Action,
  Verdict,        \* the resolved policy of an action
  RuleApprovers,  \* required_approvers of that policy
  Tier,           \* ACTION_TIER_MAP: the risk tier of an action
  Delegates,      \* delegated_approvers of the requests callers create
  MaxRequests,    \* bound on the requests created
  MaxDecisions    \* bound on the decisions recorded for one request

ASSUME PolicyAssumption ==
  /\ Verdict \in [Action -> {"allow", "deny", "needs_approval"}]
  /\ RuleApprovers \in [Action -> Nat]
  /\ Tier \in [Action -> {"low", "medium", "high", "critical"}]
  /\ Delegates \in SUBSET Actor
ASSUME BoundAssumption == MaxRequests \in Nat /\ MaxDecisions \in Nat

VARIABLES
  requests,   \* _requests, in the order of their creation
  late,       \* requests whose expires_at has passed
  audit,      \* _audit_log, by request: <<event, actor>>
  granted     \* history: the "allow" decisions, with the request they cite

vars == <<requests, late, audit, granted>>

System == "system"
NoRequest == 0
TierApprovers == [low |-> 0, medium |-> 1, high |-> 1, critical |-> 2]
ApprovalStatus == {"pending", "approved", "denied", "expired", "break_glass"}
Event == {"CREATED", "APPROVED", "STATUS_APPROVED", "DENIED", "BREAK_GLASS", "EXPIRED"}
Decision == [actor: Actor, decision: {"approved", "denied"}, breakGlass: BOOLEAN]
Request == [action: Action, requester: Actor, required: Nat, delegates: SUBSET Actor,
            status: ApprovalStatus, decisions: Seq(Decision)]

Init == requests = <<>> /\ late = {} /\ audit = <<>> /\ granted = {}

-----------------------------------------------------------------------------
CreateRequest(action, actor, required, delegates) ==
  /\ Len(requests) < MaxRequests
  /\ requests' = Append(requests, [action |-> action, requester |-> actor,
                                   required |-> required, delegates |-> delegates,
                                   status |-> "pending", decisions |-> <<>>])
  /\ audit' = Append(audit, <<<<"CREATED", actor>>>>)
  /\ UNCHANGED <<late, granted>>

\* Mutant: the status of the cited request is not looked at.
CitesAny(r, action) == requests[r].action = action

\* evaluate: what an existing approval must be to be accepted.
Cites(r, action) ==
  \/ requests[r].status = "approved" /\ requests[r].action = action
  \/ requests[r].status = "break_glass"

\* evaluate: the effective policy says whether approval is needed.
NeedsApproval(action) ==
  Verdict[action] = "needs_approval" \/ (Verdict[action] = "allow" /\ RuleApprovers[action] > 0)

\* An action that needs approval is allowed on a request that is cited and
\* valid; otherwise a request is created, with the approvers its tier asks for.

EvaluateAllow(action, r) ==
  /\ NeedsApproval(action) /\ Cites(r, action)
  /\ granted' = granted \cup {[action |-> action, request |-> r]}
  /\ UNCHANGED <<requests, late, audit>>

EvaluateAsk(action, actor) ==
  /\ NeedsApproval(action)
  /\ LET rule == RuleApprovers[action]
         tier == TierApprovers[Tier[action]]
     IN CreateRequest(action, actor, IF rule > tier THEN rule ELSE tier, {})

\* Every other action the policy allows.
EvaluatePermit(action) ==
  /\ Verdict[action] = "allow" /\ ~NeedsApproval(action)
  /\ granted' = granted \cup {[action |-> action, request |-> NoRequest]}
  /\ UNCHANGED <<requests, late, audit>>

\* Mutant: a request past its expiry is still open for decisions.
ActiveUntilSwept(r) == requests[r].status = "pending"

\* _get_active: pending and not past its expiry, ...
Active(r) == requests[r].status = "pending" /\ r \notin late

\* ... which it records when it meets it; expire_stale does it for all of them.
Expire(r) ==
  /\ requests[r].status = "pending" /\ r \in late
  /\ requests' = [requests EXCEPT ![r].status = "expired"]
  /\ audit' = [audit EXCEPT ![r] = Append(@, <<"EXPIRED", System>>)]
  /\ UNCHANGED <<late, granted>>

Stale == {r \in DOMAIN requests : requests[r].status = "pending" /\ r \in late}

ExpireStale ==
  /\ Stale # {}
  /\ requests' = [r \in DOMAIN requests |->
                    IF r \in Stale THEN [requests[r] EXCEPT !.status = "expired"] ELSE requests[r]]
  /\ audit' = [r \in DOMAIN audit |->
                 IF r \in Stale THEN Append(audit[r], <<"EXPIRED", System>>) ELSE audit[r]]
  /\ UNCHANGED <<late, granted>>

Authorized(r, actor) == requests[r].delegates # {} => actor \in requests[r].delegates

NotSelf(r, actor) == actor # requests[r].requester

ApprovedBy(ds) == {ds[k].actor : k \in {k \in DOMAIN ds : ds[k].decision = "approved"}}

Record(r, actor, decision, breakGlass) ==
  Append(requests[r].decisions,
         [actor |-> actor, decision |-> decision, breakGlass |-> breakGlass])

\* Mutant: decisions are counted, not the actors who made them.
ApproveCountsDecisions(r, actor) ==
  LET ds == Record(r, actor, "approved", FALSE)
      enough == Len(ds) >= requests[r].required
  IN /\ Active(r) /\ Authorized(r, actor) /\ NotSelf(r, actor)
     /\ Len(requests[r].decisions) < MaxDecisions
     /\ requests' = [requests EXCEPT ![r].decisions = ds,
                                     ![r].status = IF enough THEN "approved" ELSE @]
     /\ audit' = [audit EXCEPT ![r] = @ \o <<<<"APPROVED", actor>>>>
                    \o (IF enough THEN <<<<"STATUS_APPROVED", System>>>> ELSE <<>>)]
     /\ UNCHANGED <<late, granted>>

Approve(r, actor) ==
  LET ds == Record(r, actor, "approved", FALSE)
      enough == Cardinality(ApprovedBy(ds)) >= requests[r].required
  IN /\ Active(r) /\ Authorized(r, actor) /\ NotSelf(r, actor)
     /\ Len(requests[r].decisions) < MaxDecisions
     /\ requests' = [requests EXCEPT ![r].decisions = ds,
                                     ![r].status = IF enough THEN "approved" ELSE @]
     /\ audit' = [audit EXCEPT ![r] = @ \o <<<<"APPROVED", actor>>>>
                    \o (IF enough THEN <<<<"STATUS_APPROVED", System>>>> ELSE <<>>)]
     /\ UNCHANGED <<late, granted>>

\* deny: the requester may deny its own request.
Deny(r, actor) ==
  /\ Active(r) /\ Authorized(r, actor)
  /\ Len(requests[r].decisions) < MaxDecisions
  /\ requests' = [requests EXCEPT ![r].decisions = Record(r, actor, "denied", FALSE),
                                  ![r].status = "denied"]
  /\ audit' = [audit EXCEPT ![r] = Append(@, <<"DENIED", actor>>)]
  /\ UNCHANGED <<late, granted>>

\* break_glass: whatever the status of the request is.
BreakGlass(r, actor) ==
  /\ NotSelf(r, actor)
  /\ Len(requests[r].decisions) < MaxDecisions
  /\ requests' = [requests EXCEPT ![r].decisions = Record(r, actor, "approved", TRUE),
                                  ![r].status = "break_glass"]
  /\ audit' = [audit EXCEPT ![r] = Append(@, <<"BREAK_GLASS", actor>>)]
  /\ UNCHANGED <<late, granted>>

\* 24 hours pass.
TimePasses(r) ==
  /\ r \notin late
  /\ late' = late \cup {r}
  /\ UNCHANGED <<requests, audit, granted>>

Next ==
  \/ \E action \in Action, actor \in Actor :
       \/ \E required \in {1, 2} : CreateRequest(action, actor, required, Delegates)
       \/ EvaluateAsk(action, actor) \/ EvaluatePermit(action)
       \/ \E r \in DOMAIN requests : EvaluateAllow(action, r)
  \/ \E r \in DOMAIN requests :
       \/ Expire(r) \/ TimePasses(r)
       \/ \E actor \in Actor : Approve(r, actor) \/ Deny(r, actor) \/ BreakGlass(r, actor)
  \/ ExpireStale

Spec == Init /\ [][Next]_vars

-----------------------------------------------------------------------------
\* Type invariant.
TypeOK ==
  /\ requests \in Seq(Request)
  /\ late \in SUBSET DOMAIN requests
  /\ audit \in Seq(Seq(Event \X (Actor \cup {System}))) /\ Len(audit) = Len(requests)
  /\ granted \in SUBSET [action: Action, request: {NoRequest} \cup DOMAIN requests]

\* approve, deny: an approved request was approved by as many distinct actors as
\* it requires, in whatever order and however often they decided; none of them
\* made the request, all of them were authorised, and nobody denied it.
ApprovedByEnough ==
  \A r \in DOMAIN requests :
    LET ds == requests[r].decisions
    IN requests[r].status = "approved" =>
         /\ Cardinality(ApprovedBy(ds)) >= requests[r].required
         /\ requests[r].requester \notin ApprovedBy(ds)
         /\ \A a \in ApprovedBy(ds) : Authorized(r, a)
         /\ \A k \in DOMAIN ds : ds[k].decision = "approved"

\* "All state changes append to the _audit_log": the last event of a request
\* tells its status, and an override never disappears from the log.
AuditTellsStatus ==
  \A r \in DOMAIN requests :
    LET last == audit[r][Len(audit[r])][1]
    IN requests[r].status =
         CASE last = "STATUS_APPROVED" -> "approved" [] last = "DENIED" -> "denied"
           [] last = "EXPIRED" -> "expired" [] last = "BREAK_GLASS" -> "break_glass"
           [] OTHER -> "pending"

\* evaluate: every "allow" that cites a request still rests on it: it is approved
\* for that action by enough others, or was overridden by somebody who did not
\* make it, and the log says so.
AllowIsBacked ==
  \A g \in {g \in granted : g.request # NoRequest} :
    LET q == requests[g.request]
    IN \/ q.status = "approved" /\ q.action = g.action
          /\ Cardinality(ApprovedBy(q.decisions) \ {q.requester}) >= q.required
       \/ \E k \in DOMAIN audit[g.request] :
            audit[g.request][k][1] = "BREAK_GLASS" /\ audit[g.request][k][2] # q.requester

\* "Expired requests must not be approved", and a decision that was made stands:
\* only breaking the glass changes the status of a decided or expired request.
DecisionsStand ==
  [][\A r \in DOMAIN requests :
       /\ requests[r].status # "pending" =>
            requests'[r].status \in {requests[r].status, "break_glass"}
       /\ requests[r].status = "pending" /\ r \in late =>
            requests'[r].status \in {"pending", "expired", "break_glass"}]_vars

\* ApprovalService (approvals.py): a request is approved by enough others, and the
\* log tells what became of it.
ApprovalsAreSound == TypeOK /\ ApprovedByEnough /\ AuditTellsStatus
=============================================================================
