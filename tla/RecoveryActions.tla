--------------------------- MODULE RecoveryActions ---------------------------
(***************************************************************************)
(* The recovery executors behind the saga of module RecoveryEngine:        *)
(* execute_with_admission, the snapshot, apply and rollback of every       *)
(* action type (packages/recovery/src/executor.py, actions.py), the        *)
(* adapters of the production executor (adapters.py) and the capsules      *)
(* (capsule.py).                                                           *)
(*                                                                         *)
(* A slot is what one action type sets for one component, tool, namespace, *)
(* partition or prompt.  Calls are synchronous, so one runs at a time.     *)
(***************************************************************************)
EXTENDS Naturals, Sequences, FiniteSets, FiniteSetsExt

CONSTANTS
  Prop,         \* recovery proposals
  Item,         \* components, tools, namespaces, partitions, prompts
  Asks,         \* what the proposals ask: Prop -> [action, item, value, mode, expected]
  Starts,       \* the values slots may have at first
  Off, On,      \* a tool that is disabled, a memory that is quarantined, is On
  Assumed,      \* "current_v1", "current_model_v1", ...: what production assumes
  AnyVersion,   \* expected_version_id is None
  MaxAttempts   \* calls of execute_with_admission for one proposal

\* The action types by what they do to their slot.
Assigning == {"increase_top_k", "switch_stable_index", "rerank", "route_stable_model",
              "revert_prompt_version", "rollback_component"}
Fencing == {"disable_test_tool", "quarantine_memory_ns", "quarantine_provenance_partition"}
Reported == {"retry_hybrid_retrieval"}
OfComponent == (Assigning \ {"revert_prompt_version"}) \cup Reported
ActionType == Assigning \cup Fencing \cup Reported

\* The actions a production adapter supports.
Adapted == {"rollback_component", "disable_test_tool", "route_stable_model", "switch_stable_index"}

ASSUME ActionsAssumption ==
  /\ MaxAttempts \in Nat /\ AnyVersion \notin Starts /\ On # Off
  /\ \A f \in Asks : \A p \in Prop : f[p].action \in ActionType /\ f[p].item \in Item

VARIABLES
  executor,   \* "local" or "production"
  ask,        \* what the proposals ask
  initial,    \* the slots before any recovery
  setting,    \* the slots
  known,      \* _live_versions
  capsuleSeq, \* CapsuleRegistry in insertion order
  keysUsed,   \* _used_idempotency_keys
  receiptOf,  \* the admission receipt of each attempt: the latest one's status
  calling,    \* the proposal whose call runs, with the outcome so far
  attempts,   \* calls so far
  tangled,    \* slots a compensation could not restore, for the properties
  unsettled   \* proposals whose receipt could not be settled, for the properties

ravars == <<executor, ask, initial, setting, known, capsuleSeq, keysUsed, receiptOf, calling, attempts,
            tangled, unsettled>>
fixed == <<executor, ask, initial>>
Idle == [prop |-> AnyVersion, at |-> "idle"]
Slot(p) == <<ask[p].action, ask[p].item>>
Slots == ActionType \X Item

RAInit ==
  /\ executor \in {"local", "production"} /\ ask \in Asks
  /\ \E v \in Starts : initial = [s \in Slots |-> IF s[1] \in Fencing THEN Off ELSE v]
  /\ setting = initial /\ known = [c \in Item |-> initial[<<"rollback_component", c>>]]
  /\ capsuleSeq = <<>> /\ keysUsed = {} /\ receiptOf = [p \in Prop |-> "none"]
  /\ calling = Idle /\ attempts = [p \in Prop |-> 0] /\ tangled = {} /\ unsettled = {}
-----------------------------------------------------------------------------
\* A receipt is verified before anything is prepared.
Admit(p) ==
  /\ calling = Idle /\ attempts[p] < MaxAttempts
  /\ attempts' = [attempts EXCEPT ![p] = @ + 1]
  /\ \/ calling' = [prop |-> p, at |-> "execute"] /\ receiptOf' = [receiptOf EXCEPT ![p] = "VERIFIED"]
     \/ UNCHANGED <<calling, receiptOf>>
  /\ UNCHANGED <<fixed, setting, known, capsuleSeq, keysUsed, tangled, unsettled>>

\* execute: the idempotency key, and the lock on the component's live version,
\* which an action without a component_id parameter skips.
Guards(p) ==
  /\ p \notin keysUsed
  /\ ask[p].action \in OfComponent => ask[p].expected \in {AnyVersion, known[ask[p].item]}

\* What an action leaves in its slot.
Applied(a, v, old) == IF a \in Assigning THEN v ELSE IF a \in Fencing THEN On ELSE old

\* The previous state: the local executor reads its slot, production knows the
\* versions and assumes the rest.
Snapshot(p) ==
  IF executor = "local" THEN setting[Slot(p)]
  ELSE IF ask[p].action = "rollback_component" THEN known[ask[p].item]
  ELSE IF ask[p].action \in Fencing THEN Off ELSE Assumed

\* Actions whose slot holds what a recovery put there: applied, not rolled back.
Standing(s) == {i \in DOMAIN capsuleSeq : /\ capsuleSeq[i].slot = s /\ capsuleSeq[i].applied
                                          /\ capsuleSeq[i].status # "used"}

Capsule(p, done) ==
  [prop |-> p, slot |-> Slot(p), prev |-> Snapshot(p), status |-> "active", applied |-> done,
   gave |-> Applied(ask[p].action, ask[p].value, setting[Slot(p)]),
   found |-> setting[Slot(p)], basis |-> Standing(Slot(p))]

\* top_k beyond its limit and a refused quarantine fail; in production any
\* adapter call may, and an action without an adapter does.
MayFail(p) == executor = "production" \/ ask[p].action \in {"increase_top_k", "quarantine_provenance_partition"}
MaySucceed(p) == executor = "local" \/ ask[p].action \in Adapted

EndsCall(at) == calling' = [calling EXCEPT !.at = at]

\* execute: a guard raises; a dry run answers; the capsule is stored, then the
\* action applied, and its key recorded if that succeeded. The version that a
\* production rollback deploys is not recorded in _live_versions.
ExecuteAction ==
  LET p == calling.prop  a == ask[p].action IN
  /\ calling.at = "execute"
  /\ \/ ~Guards(p) /\ EndsCall("failed") /\ UNCHANGED <<setting, known, capsuleSeq, keysUsed>>
     \/ Guards(p) /\ ask[p].mode = "dry_run" /\ EndsCall("succeeded")
        /\ UNCHANGED <<setting, known, capsuleSeq, keysUsed>>
     \/ /\ Guards(p) /\ ask[p].mode # "dry_run" /\ MayFail(p)
        /\ EndsCall("failed") /\ capsuleSeq' = Append(capsuleSeq, Capsule(p, FALSE))
        /\ UNCHANGED <<setting, known, keysUsed>>
     \/ /\ Guards(p) /\ ask[p].mode # "dry_run" /\ MaySucceed(p)
        /\ EndsCall("succeeded") /\ capsuleSeq' = Append(capsuleSeq, Capsule(p, TRUE))
        /\ setting' = [setting EXCEPT ![Slot(p)] = Applied(a, ask[p].value, @)]
        /\ known' = IF executor = "local" /\ a = "rollback_component"
                      THEN [known EXCEPT ![ask[p].item] = ask[p].value] ELSE known
        /\ keysUsed' = keysUsed \cup {p}
  /\ UNCHANGED <<fixed, receiptOf, attempts, tangled, unsettled>>

\* Consumed after success and voided after a failure; a consume that raises is
\* answered by a void, and a void that raises leaves the receipt verified.
SettleReceipt ==
  /\ calling.at \in {"succeeded", "failed"} /\ calling' = Idle
  /\ \/ calling.at = "succeeded" /\ receiptOf' = [receiptOf EXCEPT ![calling.prop] = "CONSUMED"]
        /\ UNCHANGED unsettled
     \/ calling.at = "failed" /\ receiptOf' = [receiptOf EXCEPT ![calling.prop] = "VOIDED"]
        /\ UNCHANGED unsettled
     \/ /\ calling.at = "succeeded" /\ receiptOf' = [receiptOf EXCEPT ![calling.prop] = "VOIDED"]
        /\ unsettled' = unsettled \cup {calling.prop}
     \/ UNCHANGED receiptOf /\ unsettled' = unsettled \cup {calling.prop}
  /\ UNCHANGED <<fixed, setting, known, capsuleSeq, keysUsed, attempts, tangled>>
-----------------------------------------------------------------------------
\* for_proposal: the first capsule that names the proposal.
CapsulesFor(p) == {i \in DOMAIN capsuleSeq : capsuleSeq[i].prop = p}

\* _rollback: a fence is lifted unless it was up before.
RolledBack(c, now) == IF c.slot[1] \in Fencing /\ c.prev = On THEN now ELSE c.prev

\* The actions that have a rollback handler.
Handled(a) == IF executor = "local" THEN a \notin Reported ELSE a \in Adapted

\* The slot's state is the capsule's business only if nothing else was applied
\* or rolled back since the snapshot, and if the snapshot was no mere guess.
Restores(i) ==
  LET c == capsuleSeq[i] IN
  /\ Standing(c.slot) \ {i} = c.basis
  /\ executor = "production" => c.basis = {} /\ c.prev = initial[c.slot]

\* compensate: a usable capsule is rolled back and sealed; the rollback may fail.
\* The compatibility constraints of the capsule are not looked at.
CompensateWith(p) ==
  /\ calling = Idle /\ CapsulesFor(p) # {}
  /\ LET i == Min(CapsulesFor(p))  c == capsuleSeq[i] IN
     /\ c.status = "active" /\ Handled(c.slot[1])
     /\ setting' = [setting EXCEPT ![c.slot] = RolledBack(c, @)]
     /\ known' = IF executor = "local" /\ c.slot[1] = "rollback_component"
                   THEN [known EXCEPT ![c.slot[2]] = c.prev] ELSE known
     /\ tangled' = IF Restores(i) THEN tangled ELSE tangled \cup {c.slot}
     /\ capsuleSeq' = [capsuleSeq EXCEPT ![i].status = "used"]
  /\ UNCHANGED <<fixed, keysUsed, receiptOf, calling, attempts, unsettled>>

\* An operator voids a capsule, or 72 hours expire it.
RetireCapsule(p) ==
  /\ calling = Idle /\ CapsulesFor(p) # {}
  /\ LET i == Min(CapsulesFor(p)) IN
     /\ capsuleSeq[i].status = "active"
     /\ capsuleSeq' = [capsuleSeq EXCEPT ![i].status = "retired"]
  /\ UNCHANGED <<fixed, setting, known, keysUsed, receiptOf, calling, attempts, tangled, unsettled>>

RANext ==
  ExecuteAction \/ SettleReceipt
    \/ \E p \in Prop : Admit(p) \/ CompensateWith(p) \/ RetireCapsule(p)
RASpec == RAInit /\ [][RANext]_ravars
-----------------------------------------------------------------------------
\* Compensation is an undo stack: a slot is as the newest recovery that still
\* stands left it, or as it was at first, unless a capsule was used after other
\* recoveries of the slot had come or gone (executor.py:200 does not look), or
\* production had only guessed the previous state (executor.py:590).
SettingIsTop ==
  \A s \in Slots \ tangled :
    setting[s] = IF Standing(s) = {} THEN initial[s] ELSE capsuleSeq[Max(Standing(s))].gave

\* A consumed receipt stands for an action that took effect or for a dry run; a
\* voided one for an action without effect, unless it could not be settled.
ReceiptTellsOutcome ==
  \A p \in Prop :
    LET effective == \E i \in CapsulesFor(p) : capsuleSeq[i].applied IN
    /\ receiptOf[p] = "CONSUMED" => effective \/ ask[p].mode = "dry_run"
    /\ (receiptOf[p] = "VOIDED" /\ effective) => p \in unsettled \/ attempts[p] > 1

\* The lock: a component is rolled back only from the version the proposal
\* expects. In production that holds for the first rollback of a component only,
\* because the executor never learns what it deployed.
LockHolds ==
  \A i \in DOMAIN capsuleSeq :
    LET c == capsuleSeq[i] IN
    (c.applied /\ c.slot[1] = "rollback_component" /\ ask[c.prop].expected # AnyVersion) =>
      \/ c.found = ask[c.prop].expected
      \/ executor = "production" /\ \E j \in 1 .. i - 1 : capsuleSeq[j].slot = c.slot
=============================================================================
