---------------------------- MODULE AdmissionStore ----------------------------
(***************************************************************************)
(* The durable authority for admission receipts: the PostgreSQL store of   *)
(* packages/replay/src/postgres_admission_store.py, whose verification     *)
(* rules come from admission_store.py and whose payload is                 *)
(* admission_receipt.AdmissionReceiptV1.                                   *)
(*                                                                         *)
(* Every operation runs in one transaction that first locks the receipt    *)
(* row (SELECT ... FOR UPDATE) and, when it issues, the pool row, so each  *)
(* operation is one action.  Callers are arbitrary: any process may call   *)
(* any operation with any argument in any order.                           *)
(***************************************************************************)
EXTENDS Integers, Sequences, FiniteSets

CONSTANTS
  Receipt,          \* receipt ids
  Binding,          \* values of the eleven required binding fields together
  Pool,             \* resource_pool_id
  PoolOf,           \* the pool a binding names (resource_pool_id is a binding field)
  Payload,          \* canonical payloads a coordinator may submit
  NoPayload,        \* the payload of a receipt that has no row
  Incomplete,       \* an `actual` dictionary that lacks a required field
  Evidence,         \* ranks of evidence classes (_EVIDENCE_RANK)
  Budget,           \* default_budget: budget_usd of a pool row when created
  RequireSignature, \* receipt_signature_required()
  MaxTime,          \* bound of the clock
  MaxEvents         \* bound on the audit trail a receipt may have when verify is called

Signature == {"none", "trusted", "untrusted"}

\* The binding hash is an injective digest of the whole canonical payload, so
\* two payloads have the same binding hash exactly when they are equal.
ASSUME PayloadAssumption ==
  /\ Payload \subseteq [binding: Binding, cost: Nat, ceiling: Nat,
                        expires: Nat, signature: Signature]
  /\ NoPayload \notin Payload
ASSUME PoolAssumption == PoolOf \in [Binding -> Pool]
ASSUME EvidenceAssumption == Evidence \subseteq Nat
ASSUME BudgetAssumption == Budget \in Nat \ {0}
ASSUME BoundAssumption == RequireSignature \in BOOLEAN /\ MaxTime \in Nat /\ MaxEvents \in Nat

VARIABLES
  status,    \* admission_receipts.status, "ABSENT" when there is no row
  payload,   \* admission_receipts.payload_json (with reserved_cost_usd, pool)
  reserved,  \* admission_resource_pools.reserved_usd
  spent,     \* admission_resource_pools.spent_usd
  events,    \* admission_audit_events per receipt, in sequence order
  attested,  \* receipts with a row in admission_execution_attestations
  now        \* the authoritative UTC clock

storeVars == <<status, payload, reserved, spent, events, attested>>
vars == <<status, payload, reserved, spent, events, attested, now>>

ReceiptStatus == {"ISSUED", "VERIFIED", "CONSUMED", "RELEASED", "VOIDED", "EXPIRED"}
Active == {"ISSUED", "VERIFIED"}
Terminal == ReceiptStatus \ Active
RefusalEvent == {"SIGNATURE_REFUSAL", "MISMATCH_REFUSAL"}
EventType == {"ISSUE", "VERIFY", "ATTEST", "CONSUME", "RELEASE", "VOID", "EXPIRE"}
               \cup RefusalEvent

-----------------------------------------------------------------------------
Init ==
  /\ status = [r \in Receipt |-> "ABSENT"]
  /\ payload = [r \in Receipt |-> NoPayload]
  /\ reserved = [p \in Pool |-> 0]
  /\ spent = [p \in Pool |-> 0]
  /\ events = [r \in Receipt |-> <<>>]
  /\ attested = {}
  /\ now = 0

\* _append_event: sequence = last + 1, chained to the last event's hash.  The
\* position in the sequence is `sequence` and, digests being injective, the
\* predecessor hash of an event identifies the event before it.
AppendEvents(r, es) == events' = [events EXCEPT ![r] = @ \o es]

PoolOfReceipt(r) == PoolOf[payload[r].binding]

\* issue: an existing row makes the call return (same binding hash) or raise
\* (another one); a pool without room makes it raise; either way the
\* transaction writes nothing the other operations can see.
Issue(r, p) ==
  LET pool == PoolOf[p.binding]
  IN \/ /\ \/ status[r] # "ABSENT"
           \/ p.cost > Budget - reserved[pool] - spent[pool]
        /\ UNCHANGED storeVars
     \/ /\ status[r] = "ABSENT"
        /\ p.cost <= Budget - reserved[pool] - spent[pool]
        /\ status' = [status EXCEPT ![r] = "ISSUED"]
        /\ payload' = [payload EXCEPT ![r] = p]
        /\ reserved' = [reserved EXCEPT ![pool] = @ + p.cost]
        /\ AppendEvents(r, <<"ISSUE">>)
        /\ UNCHANGED <<spent, attested>>

\* _evaluate_verification: the first check that fails decides.
EvaluateVerification(r, actual, evidence) ==
  LET p == payload[r]
  IN IF (p.signature # "none" \/ RequireSignature) /\ p.signature # "trusted"
       THEN "signature"
     ELSE IF status[r] # "ISSUED" THEN "status"
     ELSE IF now >= p.expires THEN "expired"
     ELSE IF actual # p.binding THEN "binding"
     ELSE IF evidence > p.ceiling THEN "evidence"
     ELSE "ok"

\* The caller of verify may execute exactly when it is told True.
Admits(r, actual, evidence) ==
  status[r] # "ABSENT" /\ EvaluateVerification(r, actual, evidence) = "ok"

\* Mutant: a receipt that is not consumed keeps its reservation.
KeepReservation(r, target) ==
  LET pool == PoolOfReceipt(r)
      cost == IF target = "CONSUMED" THEN payload[r].cost ELSE 0
  IN /\ status' = [status EXCEPT ![r] = target]
     /\ reserved' = [reserved EXCEPT ![pool] = @ - cost]
     /\ spent' = [spent EXCEPT ![pool] = @ + cost]

\* _release_reservation: the status change and the settlement of the pool.
ReleaseReservation(r, target) ==
  LET pool == PoolOfReceipt(r)
      cost == payload[r].cost
      rest == reserved[pool] - cost
  IN /\ status' = [status EXCEPT ![r] = target]
     /\ reserved' = [reserved EXCEPT ![pool] = IF rest > 0 THEN rest ELSE 0]
     /\ spent' = [spent EXCEPT ![pool] = @ + IF target = "CONSUMED" THEN cost ELSE 0]

\* Mutant: the refusal is logged but not the closing of the receipt.
RefuseSilently(r, decision) ==
  /\ AppendEvents(r, <<"MISMATCH_REFUSAL">>)
  /\ IF status[r] = "ISSUED" THEN ReleaseReservation(r, "VOIDED")
                              ELSE UNCHANGED <<status, reserved, spent>>
  /\ UNCHANGED <<payload, attested>>

\* Mutant: a refusal voids whatever is not terminal, another worker's claim too.
RefuseVoidsClaims(r, decision) ==
  IF status[r] \in Active
    THEN /\ ReleaseReservation(r, "VOIDED")
         /\ AppendEvents(r, <<"MISMATCH_REFUSAL", "VOID">>)
         /\ UNCHANGED <<payload, attested>>
    ELSE /\ AppendEvents(r, <<"MISMATCH_REFUSAL">>)
         /\ UNCHANGED <<status, payload, reserved, spent, attested>>

\* verify, refused: the refusal is logged, and only a receipt that nobody has
\* claimed yet is closed and its reservation released.
RefuseVerification(r, decision) ==
  LET refusal == IF decision = "signature" THEN "SIGNATURE_REFUSAL" ELSE "MISMATCH_REFUSAL"
      expired == decision = "expired"
  IN \/ /\ status[r] # "ISSUED"
        /\ AppendEvents(r, <<refusal>>)
        /\ UNCHANGED <<status, payload, reserved, spent, attested>>
     \/ /\ status[r] = "ISSUED"
        /\ ReleaseReservation(r, IF expired THEN "EXPIRED" ELSE "VOIDED")
        /\ AppendEvents(r, <<refusal, IF expired THEN "EXPIRE" ELSE "VOID">>)
        /\ UNCHANGED <<payload, attested>>

Verify(r, actual, evidence) ==
  \/ /\ status[r] = "ABSENT"
     /\ UNCHANGED storeVars
  \/ /\ Admits(r, actual, evidence)
     /\ status' = [status EXCEPT ![r] = "VERIFIED"]
     /\ AppendEvents(r, <<"VERIFY">>)
     /\ UNCHANGED <<payload, reserved, spent, attested>>
  \/ /\ status[r] # "ABSENT"
     /\ ~Admits(r, actual, evidence)
     /\ RefuseVerification(r, EvaluateVerification(r, actual, evidence))

\* Mutant: consume does not need a verified claim.
AllowedUnclaimed(target) == {"ISSUED", "VERIFIED"}

\* _terminal_transition: the table of source states a target may come from.
Allowed(target) == IF target = "CONSUMED" THEN {"VERIFIED"} ELSE {"ISSUED", "VERIFIED"}

\* A transition that is not allowed returns silently; an unknown id raises.
TerminalTransition(r, target, event) ==
  \/ /\ status[r] \notin Allowed(target)
     /\ UNCHANGED storeVars
  \/ /\ status[r] \in Allowed(target)
     /\ ReleaseReservation(r, target)
     /\ AppendEvents(r, <<event>>)
     /\ UNCHANGED <<payload, attested>>

Consume(r) == TerminalTransition(r, "CONSUMED", "CONSUME")
Release(r) == TerminalTransition(r, "RELEASED", "RELEASE")
Void(r) == TerminalTransition(r, "VOIDED", "VOID")

\* record_attestation stores at most one attestation (receipt_id is the primary
\* key) for a claimed receipt whose binding hash it names; otherwise it raises.
AttestationAccepted(r, bound, trusted) ==
  /\ trusted
  /\ status[r] = "VERIFIED"
  /\ payload[r] = bound
  /\ r \notin attested

RecordAttestation(r, bound, trusted) ==
  \/ /\ ~AttestationAccepted(r, bound, trusted)
     /\ UNCHANGED storeVars
  \/ /\ AttestationAccepted(r, bound, trusted)
     /\ attested' = attested \cup {r}
     /\ AppendEvents(r, <<"ATTEST">>)
     /\ UNCHANGED <<status, payload, reserved, spent>>

Tick == now < MaxTime /\ now' = now + 1 /\ UNCHANGED storeVars

\* Only verify can append without bound: it logs every late duplicate.
Next ==
  \/ \E r \in Receipt, p \in Payload : Issue(r, p) /\ UNCHANGED now
  \/ \E r \in Receipt, a \in Binding \cup {Incomplete}, e \in Evidence :
       Len(events[r]) < MaxEvents /\ Verify(r, a, e) /\ UNCHANGED now
  \/ \E r \in Receipt : Consume(r) /\ UNCHANGED now
  \/ \E r \in Receipt : Release(r) /\ UNCHANGED now
  \/ \E r \in Receipt : Void(r) /\ UNCHANGED now
  \/ \E r \in Receipt, p \in Payload, t \in BOOLEAN :
       RecordAttestation(r, p, t) /\ UNCHANGED now
  \/ Tick

Spec == Init /\ [][Next]_vars

-----------------------------------------------------------------------------
\* Type invariant: every row the store keeps has the shape its columns have; a
\* receipt has a payload exactly when it has a row.
TypeOK ==
  /\ status \in [Receipt -> ReceiptStatus \cup {"ABSENT"}]
  /\ payload \in [Receipt -> Payload \cup {NoPayload}]
  /\ \A r \in Receipt : status[r] = "ABSENT" <=> payload[r] = NoPayload
  /\ reserved \in [Pool -> Nat]
  /\ spent \in [Pool -> Nat]
  /\ events \in [Receipt -> Seq(EventType)]
  /\ attested \in SUBSET Receipt
  /\ now \in Nat

\* The units of cost that the receipts of pool p in one of the states ss stand
\* for: one element per receipt and unit, so that their number is the sum.
Units(p, ss) ==
  UNION {{r} \X (1 .. payload[r].cost) :
           r \in {q \in Receipt : status[q] \in ss /\ PoolOfReceipt(q) = p}}

\* A pool's counters are exactly what its receipts say: reserved_usd is the sum
\* of the costs of the open and claimed receipts, spent_usd of the consumed ones,
\* whatever the order of issues, refusals, retries and terminal transitions.
PoolAccounting ==
  \A p \in Pool :
    /\ reserved[p] = Cardinality(Units(p, Active))
    /\ spent[p] = Cardinality(Units(p, {"CONSUMED"}))

\* "Budget contention: reservations never oversubscribe the pool": what is
\* reserved and what is spent together fit the pool's budget.
NeverOversubscribed == \A p \in Pool : reserved[p] + spent[p] <= Budget

Occurs(r, e) == \E i \in 1 .. Len(events[r]) : events[r][i] = e
TerminalEvent(s) ==
  CASE s = "CONSUMED" -> "CONSUME" [] s = "RELEASED" -> "RELEASE"
    [] s = "VOIDED" -> "VOID"      [] s = "EXPIRED" -> "EXPIRE"

\* The audit trail alone tells the status of a receipt: it holds an ISSUE iff
\* there is a row, the event of a terminal state iff that state was reached, and
\* a VERIFY without a terminal event iff the receipt is claimed.
AuditTellsStatus ==
  \A r \in Receipt :
    /\ Occurs(r, "ISSUE") <=> status[r] # "ABSENT"
    /\ \A s \in Terminal : Occurs(r, TerminalEvent(s)) <=> status[r] = s
    /\ status[r] \in {"ABSENT", "ISSUED"} => ~Occurs(r, "VERIFY")
    /\ status[r] \in {"VERIFIED", "CONSUMED"} => Occurs(r, "VERIFY")
    /\ Occurs(r, "ATTEST") <=> r \in attested

\* Single use, read off the trail: no lifecycle event of a receipt is ever
\* written twice, so a receipt is claimed, attested and settled at most once.
SingleUse ==
  \A r \in Receipt : \A i, j \in 1 .. Len(events[r]) :
    (events[r][i] = events[r][j] /\ events[r][i] \notin RefusalEvent) => i = j

\* "A refusal against a receipt already claimed by a legitimate worker must not
\* cancel that worker's claim": a step that logs a refusal leaves a claimed
\* receipt, its payload and the pool that backs it as they are.
ClaimSurvivesRefusal ==
  [][\A r \in Receipt :
       (/\ status[r] = "VERIFIED"
        /\ Len(events'[r]) > Len(events[r])
        /\ events'[r][Len(events[r]) + 1] \in RefusalEvent)
       => UNCHANGED <<status, payload, reserved, spent>>]_vars

-----------------------------------------------------------------------------
\* The refinement mapping to SingleUseGrant: the pool counters, the audit trail
\* and the clock are implementation detail.
GrantOf(s) ==
  CASE s = "ABSENT" -> "none" [] s = "ISSUED" -> "open" [] s = "VERIFIED" -> "held"
    [] s = "CONSUMED" -> "used" [] OTHER -> "closed"

Grants == INSTANCE SingleUseGrant WITH
  NoCharge <- NoPayload,
  grant  <- [r \in Receipt |-> GrantOf(status[r])],
  charge <- [r \in Receipt |->
               IF status[r] = "ABSENT" THEN NoPayload
               ELSE [pool |-> PoolOfReceipt(r), cost |-> payload[r].cost]]

\* Two counters per pool, clamped at zero and updated by six operations, bound
\* the sum of the live grants as exactly as recomputing it on every issue would,
\* and no interleaving of the operations gives a receipt a second holder or use.
ImplementsSingleUseGrant == Grants!GSpec
=============================================================================
