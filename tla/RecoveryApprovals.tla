--------------------------- MODULE RecoveryApprovals ---------------------------
(***************************************************************************)
(* The human decision on a recovery (apps/api/src/routes/recovery.py):     *)
(* POST /recovery/approve and /{intervention}/rollback, with the audit     *)
(* events of services/audit.py.  A handler reads the request row          *)
(* without a lock, writes what it decided when its session flushes, which  *)
(* takes the row until the transaction ends, and commits.                  *)
(***************************************************************************)
EXTENDS Naturals, FiniteSets

CONSTANTS
  Decider,   \* requests in flight, each handled by its own session
  Approval,  \* approval_requests rows
  Ctx,       \* assignments of a context to every row: what its maker stored
  Ask        \* the bodies a decider may send, see AskAssumption

\* The pipeline stores "evidence_kind" in the context, a seeded request
\* stores the "evidence_class" that the handler reads.
Context == {"pipeline", "seeded"}
Decision == {"approve", "promote", "reject", "rollback"}

ASSUME AskAssumption ==
  /\ Ctx \subseteq [Approval -> Context]
  /\ Ask \subseteq [row : Approval, says : Decision, blast : BOOLEAN, tenant : {"own", "other"}]
  /\ "free" \notin Decider

VARIABLES
  dpc,       \* where each handler is
  ask,       \* the body it handles
  ctx,       \* the context of every row
  status,    \* committed approval_requests.status
  expired,   \* rows whose expires_at has passed
  rowLock,   \* the decider whose transaction holds the row, or "free"
  minted,    \* committed certificates: <<row, decider>>
  decided,   \* committed approval_decisions: <<row, decider>>
  audit,     \* committed audit events: <<action, row, decider>>
  saw,       \* the status each handler read
  raced      \* rows a decider wrote although they changed since its read

avars == <<dpc, ask, ctx, status, expired, rowLock, minted, decided, audit, saw, raced>>

NoAsk == [row |-> "none", says |-> "none", blast |-> FALSE, tenant |-> "own"]

AInit ==
  /\ dpc = [d \in Decider |-> "idle"]
  /\ ask = [d \in Decider |-> NoAsk]
  /\ ctx \in Ctx
  /\ status = [r \in Approval |-> "pending"]
  /\ expired = {} /\ raced = {}
  /\ saw = [d \in Decider |-> "none"]
  /\ rowLock = [r \in Approval |-> "free"]
  /\ minted = {} /\ decided = {} /\ audit = {}

DGoto(d, l) == dpc' = [dpc EXCEPT ![d] = l]
rows == <<status, expired, rowLock, minted, decided, audit, raced>>
-----------------------------------------------------------------------------
\* Mutant of Receive: the blast radius is not looked at.
ReceiveAny(d) ==
  /\ dpc[d] = "idle"
  /\ \E a \in Ask : ask' = [ask EXCEPT ![d] = a] /\ DGoto(d, "read")
  /\ UNCHANGED <<saw, ctx, rows>>

\* The body arrives; a high blast radius without a dry run is refused (403)
\* before the row is read.
Receive(d) ==
  /\ dpc[d] = "idle"
  /\ \E a \in Ask :
       /\ ask' = [ask EXCEPT ![d] = a]
       /\ DGoto(d, IF a.blast /\ a.says # "rollback" THEN "403" ELSE "read")
  /\ UNCHANGED <<saw, ctx, rows>>

\* The select, and the checks that follow it: tenant, status, expiry.  The handler
\* reads an evidence_class in the context, which a request of the pipeline lacks
\* (recovery_pipeline.py:159 against recovery.py:257): approving one raises.
ReadApproval(d) ==
  LET a == ask[d] IN
  /\ dpc[d] = "read"
  /\ DGoto(d, IF a.tenant = "other" THEN (IF a.says = "rollback" THEN "403" ELSE "attempt")
              ELSE IF a.says = "rollback" THEN "rollback"
              ELSE IF status[a.row] # "pending" THEN "400"
              ELSE IF a.row \in expired THEN "expire"
              ELSE IF a.says = "approve" /\ ctx[a.row] = "pipeline" THEN "500"
              ELSE "flush")
  /\ saw' = [saw EXCEPT ![d] = status[a.row]]
  /\ UNCHANGED <<ask, ctx, rows>>

\* An attempt from another tenant is audited in a transaction of its own.
AuditAttempt(d) ==
  /\ dpc[d] = "attempt" /\ DGoto(d, "403")
  /\ audit' = audit \cup {<<"CROSS_TENANT_APPROVAL_ATTEMPT", ask[d].row, d>>}
  /\ UNCHANGED <<saw, ask, ctx, status, expired, rowLock, minted, decided, raced>>

\* The UPDATE of the row, with the decision and the audit event, waits for
\* the transaction that holds it.
FlushDecision(d) ==
  LET r == ask[d].row IN
  /\ dpc[d] \in {"flush", "expire"} /\ rowLock[r] = "free"
  /\ rowLock' = [rowLock EXCEPT ![r] = d]
  /\ DGoto(d, IF dpc[d] = "expire" THEN "commit expired" ELSE "commit")
  /\ raced' = IF status[r] # saw[d] THEN raced \cup {r} ELSE raced
  /\ UNCHANGED <<saw, ask, ctx, status, expired, minted, decided, audit>>

StatusFor == [approve |-> "approved", promote |-> "awaiting_promotion", reject |-> "rejected"]
ActionFor == [approve |-> "RECOVERY_APPROVED", promote |-> "RECOVERY_APPROVED_AWAITING_PROMOTION",
              reject |-> "RECOVERY_REJECTED"]
CodeFor == [approve |-> "200", promote |-> "202", reject |-> "204"]

\* Status, decision, audit event and certificate become visible together.
CommitDecision(d) ==
  LET r == ask[d].row  s == ask[d].says IN
  /\ dpc[d] = "commit" /\ DGoto(d, CodeFor[s])
  /\ status' = [status EXCEPT ![r] = StatusFor[s]]
  /\ decided' = decided \cup {<<r, d>>}
  /\ audit' = audit \cup {<<ActionFor[s], r, d>>}
  /\ minted' = IF s = "approve" THEN minted \cup {<<r, d>>} ELSE minted
  /\ rowLock' = [rowLock EXCEPT ![r] = "free"]
  /\ UNCHANGED <<saw, ask, ctx, expired, raced>>

CommitExpired(d) ==
  LET r == ask[d].row IN
  /\ dpc[d] = "commit expired" /\ DGoto(d, "400")
  /\ status' = [status EXCEPT ![r] = "expired"]
  /\ rowLock' = [rowLock EXCEPT ![r] = "free"]
  /\ UNCHANGED <<saw, ask, ctx, expired, minted, decided, audit, raced>>

\* The session dies: the transaction is rolled back.
DeciderDies(d) ==
  /\ dpc[d] \in {"read", "attempt", "flush", "expire", "commit", "commit expired", "rollback"}
  /\ DGoto(d, "500")
  /\ rowLock' = [r \in Approval |-> IF rowLock[r] = d THEN "free" ELSE rowLock[r]]
  /\ UNCHANGED <<saw, ask, ctx, status, expired, minted, decided, audit, raced>>

\* rollback_intervention renames the intervention of the row and audits it; it
\* looks neither at the request nor at the certificate.
RollbackIntervention(d) ==
  /\ dpc[d] = "rollback" /\ DGoto(d, "200")
  /\ audit' = audit \cup {<<"INTERVENTION_ROLLED_BACK", ask[d].row, d>>}
  /\ UNCHANGED <<saw, ask, ctx, status, expired, rowLock, minted, decided, raced>>

TimePasses ==
  /\ \E r \in Approval \ expired : expired' = expired \cup {r}
  /\ UNCHANGED <<saw, dpc, ask, ctx, status, rowLock, minted, decided, audit, raced>>

DeciderStep(d) ==
  \/ ReadApproval(d) \/ AuditAttempt(d) \/ FlushDecision(d) \/ CommitDecision(d)
  \/ CommitExpired(d) \/ RollbackIntervention(d)

ANext ==
  \/ \E d \in Decider : Receive(d) \/ DeciderStep(d) \/ DeciderDies(d)
  \/ TimePasses

\* Handlers that started run to their end.
ASpec == AInit /\ [][ANext]_avars /\ \A d \in Decider : WF_avars(DeciderStep(d))
-----------------------------------------------------------------------------
\* Every variable keeps its type; a locked row belongs to a decider that is
\* about to commit.
ATypeOK ==
  /\ status \in [Approval -> {"pending", "approved", "awaiting_promotion", "rejected", "expired"}]
  /\ rowLock \in [Approval -> Decider \cup {"free"}]
  /\ minted \subseteq Approval \X Decider /\ decided \subseteq Approval \X Decider
  /\ \A r \in Approval : rowLock[r] # "free" =>
       dpc[rowLock[r]] \in {"commit", "commit expired"} /\ ask[rowLock[r]].row = r

\* A certificate stands on its own decision and on its audit event, and only
\* on a request from its own tenant that a human said yes to within the blast
\* radius; the row says approved unless a racing decider changed it.
MintedIsAuthorised ==
  \A e \in minted :
    /\ e \in decided /\ <<"RECOVERY_APPROVED", e[1], e[2]>> \in audit
    /\ ask[e[2]].says = "approve" /\ ask[e[2]].tenant = "own" /\ ~ask[e[2]].blast
    /\ status[e[1]] = "approved" \/ e[1] \in raced

\* A decision or an expiry is final unless a decider that had read the row
\* before wrote over it (recovery.py:188 takes no lock): then an expired request
\* may be approved, or one request certified twice.
FinalDecision ==
  [][\A r \in Approval : status[r] # "pending" /\ status'[r] # status[r] => r \in raced']_avars

\* Without that race a request has at most one decision.
OneDecision ==
  \A r \in Approval : r \notin raced => Cardinality({e \in decided : e[1] = r}) <= 1

\* Every handler that took a request has answered it.
DecidersEnded ==
  \A d \in Decider : dpc[d] \in {"idle", "200", "202", "204", "400", "403", "500"}
=============================================================================
