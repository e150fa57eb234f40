---------------------------- MODULE RecoveryEngine ----------------------------
(***************************************************************************)
(* The recovery saga: RecoveryEngine.run (packages/recovery/src/engine.py) *)
(* over the machine of state_machine.py, the guarded executor of           *)
(* executor.py and the rollback capsules of capsule.py.                    *)
(*                                                                         *)
(* The engine is called synchronously, so one run is active at a time; a   *)
(* run is a sequence of steps, each ending in a machine transition,        *)
(* because the machine's 30 minute timeout may expire between any two.     *)
(* Between runs an operator approves, cancels, voids capsules and reverts  *)
(* committed recoveries.  The executor is LocalDevExecutor: every action   *)
(* assigns one setting (the version of a component, its index, its top_k,  *)
(* a prompt version, ...), and live holds the settings.                    *)
(***************************************************************************)
EXTENDS Integers, Sequences, FiniteSets

CONSTANTS
  Proposal, Setting, Value,
  NoProposal,      \* nobody is running
  AnyVersion,      \* expected_version_id is None
  Setups,          \* the proposals and engine configurations a behaviour may start with
  InitialValue,    \* the settings before any recovery
  MaxRuns          \* bound on the calls of run for one proposal

Mode == {"dry_run", "simulation", "manual", "approved"}
Decision == {"allow", "deny", "needs_approval"}

\* What a proposal sets, and which version it expects of which setting.
Ask == [setting: Setting, target: Value, version: Setting,
        expected: Value \cup {AnyVersion}, mode: Mode, decision: Decision]

ASSUME SetupAssumption ==
  /\ \A s \in Setups : s.info \in [Proposal -> Ask] /\ s.auto \in BOOLEAN
  /\ NoProposal \notin Proposal
  /\ AnyVersion \notin Value
ASSUME EngineAssumption == InitialValue \in [Setting -> Value] /\ MaxRuns \in Nat

VARIABLES
  setup,     \* the proposals and the engine's configuration; never changes
  machine,   \* record.machine.current_status, "none" before the first run
  late,      \* proposals whose machine is past timeout_at
  pc,        \* the next step of the active run
  active,    \* the proposal being run
  live,      \* the settings, versions of the components included
  capsules,  \* CapsuleRegistry, in insertion order
  used,      \* proposals whose idempotency key is used
  approved,  \* proposals that carry an approval_request_id
  verdict,   \* record.canary_result.overall_pass, "none" before the canary
  runs,      \* calls of run so far
  applied,   \* history: successful applications of a proposal
  before,    \* history: the settings when the run began
  raised     \* history: proposals whose last run raised to its caller

vars == <<setup, machine, late, pc, active, live, capsules, used, approved, verdict, runs,
          applied, before, raised>>
saga == <<live, capsules, used, applied>>

Info == setup.info
AutoCompensate == setup.auto   \* auto_compensate_on_verify_failure

TerminalStates == {"committed", "compensated", "failed", "cancelled"}
AllowedTransitions == [
  proposed |-> {"policy_checking", "cancelled"},
  policy_checking |-> {"pending_approval", "preparing", "failed", "cancelled"},
  pending_approval |-> {"preparing", "cancelled"},
  preparing |-> {"executing", "failed", "cancelled"},
  executing |-> {"verifying", "compensating"},
  verifying |-> {"committed", "compensating"},
  compensating |-> {"compensated", "failed"}]
RecoveryStatus == DOMAIN AllowedTransitions \cup TerminalStates

Init ==
  /\ setup \in Setups
  /\ machine = [p \in Proposal |-> "none"]
  /\ late = {} /\ used = {} /\ approved = {} /\ raised = {}
  /\ pc = "idle" /\ active = NoProposal
  /\ live = InitialValue
  /\ capsules = <<>>
  /\ verdict = [p \in Proposal |-> "none"]
  /\ runs = [p \in Proposal |-> 0]
  /\ applied = [p \in Proposal |-> 0]
  /\ before = live

-----------------------------------------------------------------------------
\* transition: the status it leads to, or "raise".  Past timeout_at any call
\* forces COMPENSATING, whatever the caller asked for, and returns normally.
Transition(p, to) ==
  IF machine[p] \in TerminalStates THEN "raise"
  ELSE IF p \in late THEN "compensating"
  ELSE IF to \in AllowedTransitions[machine[p]] THEN to
  ELSE "raise"

\* The run ends, normally or by an exception that reaches the caller.
Return == pc' = "idle" /\ active' = NoProposal
Raise == Return /\ raised' = raised \cup {active} /\ UNCHANGED machine

\* Take the machine to `to` and go on; a transition that raises ends the run.
Move(to, next) ==
  LET s == Transition(active, to)
  IN IF s = "raise" THEN Raise
     ELSE /\ machine' = [machine EXCEPT ![active] = s]
          /\ UNCHANGED raised
          /\ IF next = "return" THEN Return ELSE pc' = next /\ UNCHANGED active

CapsulesOf(p) == {i \in DOMAIN capsules : capsules[i].proposal = p}

\* run: a fresh machine and record replace those of an earlier run.
Run(p) ==
  /\ pc = "idle" /\ runs[p] < MaxRuns
  /\ pc' = "policy" /\ active' = p
  /\ machine' = [machine EXCEPT ![p] = "policy_checking"]
  /\ late' = late \ {p} /\ raised' = raised \ {p}
  /\ verdict' = [verdict EXCEPT ![p] = "none"]
  /\ runs' = [runs EXCEPT ![p] = @ + 1]
  /\ before' = live
  /\ UNCHANGED <<saga, approved>>

\* Mutant: an approval is asked for, but not waited for.
PolicyUnapproved ==
  /\ pc = "policy"
  /\ IF Info[active].decision = "deny" THEN Move("failed", "return")
     ELSE Move("preparing", IF Info[active].mode = "dry_run" THEN "dry_prepared" ELSE "certificate")
  /\ UNCHANGED <<saga, late, approved, verdict, runs, before>>

\* What the policy engine decided: denied, waiting for an approval, or go on.
Policy ==
  LET p == active
      i == Info[p]
  IN /\ pc = "policy"
     /\ IF i.decision = "deny" THEN Move("failed", "return")
        ELSE IF i.decision = "needs_approval" /\ p \notin approved
          THEN Move("pending_approval", "return")
        ELSE Move("preparing", IF i.mode = "dry_run" THEN "dry_prepared" ELSE "certificate")
     /\ UNCHANGED <<saga, late, approved, verdict, runs, before>>

\* The guards of executor.execute: parameters, idempotency key, optimistic lock.
Guarded(p, valid) ==
  /\ valid /\ p \notin used
  /\ Info[p].expected \in {AnyVersion, live[Info[p].version]}

\* A dry run executes outside the try block: what a guard raises escapes.
DryRun ==
  /\ \/ pc = "dry_prepared" /\ Move("executing", "dry_execute")
     \/ pc = "dry_execute" /\ \E valid \in BOOLEAN :
          IF Guarded(active, valid) THEN Move("verifying", "dry_verified") ELSE Raise
     \/ pc = "dry_verified" /\ Move("committed", "return")
  /\ UNCHANGED <<saga, late, approved, verdict, runs, before>>

\* The eligibility certificate.  A capsule of an earlier run of this proposal
\* makes the live-state check read an attribute that no capsule has.
Certificate ==
  /\ pc = "certificate"
  /\ \E rec \in {"valid", "refused", "expired"} :
       IF rec = "refused" THEN Move("failed", "return")
       ELSE IF CapsulesOf(active) # {} THEN Raise
       ELSE IF rec = "expired" THEN Move("failed", "return")
       ELSE Move("executing", "execute")
  /\ UNCHANGED <<saga, late, approved, verdict, runs, before>>

\* Mutant: the capsule is filled in after the action was applied.
ExecuteSnapshotsLate ==
  LET c == Info[active].setting
  IN /\ pc = "execute"
     /\ live' = [live EXCEPT ![c] = Info[active].target]
     /\ capsules' = Append(capsules, [proposal |-> active, setting |-> c,
                                      previous |-> live'[c], status |-> "active"])
     /\ used' = used \cup {active}
     /\ applied' = [applied EXCEPT ![active] = @ + 1]
     /\ pc' = "verify"
     /\ UNCHANGED <<machine, active, raised, late, approved, verdict, runs, before>>

\* executor.execute: guard, capsule, apply, idempotency key.  What it raises is
\* caught and becomes a failed result.  An action that fails has assigned
\* nothing; but consuming the admission receipt may still fail after the action
\* was applied and its key recorded.
Execute ==
  LET p == active
      c == Info[p].setting
      capsule == [proposal |-> p, setting |-> c, previous |-> live[c], status |-> "active"]
  IN /\ pc = "execute"
     /\ \/ \E valid \in BOOLEAN : ~Guarded(p, valid) /\ pc' = "compensate" /\ UNCHANGED saga
        \/ /\ Guarded(p, TRUE)
           /\ capsules' = Append(capsules, capsule)
           /\ \/ /\ live' = [live EXCEPT ![c] = Info[p].target]
                 /\ used' = used \cup {p}
                 /\ applied' = [applied EXCEPT ![p] = @ + 1]
                 /\ pc' \in {"verify", "compensate"}
              \/ pc' = "compensate" /\ UNCHANGED <<live, used, applied>>
     /\ UNCHANGED <<machine, active, raised, late, approved, verdict, runs, before>>

\* Mutant: a run that is late waits for the machine instead of going on.
VerifyWaits ==
  /\ pc = "verify"
  /\ IF active \in late THEN UNCHANGED <<machine, pc, active, raised>>
     ELSE Move("verifying", "canary")
  /\ UNCHANGED <<saga, late, approved, verdict, runs, before>>

Verify ==
  /\ pc = "verify"
  /\ Move("verifying", "canary")
  /\ UNCHANGED <<saga, late, approved, verdict, runs, before>>

\* The canary decides; the execution created the capsule record.capsule names.
Canary ==
  /\ pc = "canary"
  /\ \E pass \in BOOLEAN :
       /\ verdict' = [verdict EXCEPT ![active] = IF pass THEN "pass" ELSE "fail"]
       /\ IF pass THEN Move("committed", "return")
          ELSE IF AutoCompensate /\ CapsulesOf(active) # {}
            THEN pc' = "compensate" /\ UNCHANGED <<machine, active, raised>>
          ELSE Move("failed", "return")
  /\ UNCHANGED <<saga, late, approved, runs, before>>

Compensate ==
  /\ pc = "compensate"
  /\ Move("compensating", "rollback")
  /\ UNCHANGED <<saga, late, approved, verdict, runs, before>>

\* compensate of the executor: a usable capsule is applied, then sealed.
RollbackWith(i) ==
  /\ capsules[i].status = "active"
  /\ live' = [live EXCEPT ![capsules[i].setting] = capsules[i].previous]
  /\ capsules' = [capsules EXCEPT ![i].status = "used"]

\* Mutant: a rollback that fails leaves the machine where it is.
RollbackQuits ==
  /\ pc = "rollback" /\ Return /\ UNCHANGED <<machine, raised>>
  /\ UNCHANGED <<saga, late, approved, verdict, runs, before>>

\* _compensate: the first capsule of the proposal; the rollback itself may fail
\* (no handler for the action) or raise what _rollback does not catch.
Rollback ==
  LET first == CHOOSE i \in CapsulesOf(active) : \A k \in CapsulesOf(active) : i <= k
  IN /\ pc = "rollback"
     /\ \/ /\ CapsulesOf(active) # {}
           /\ RollbackWith(first)
           /\ Move("compensated", "return")
        \/ Move("failed", "return") /\ UNCHANGED <<live, capsules>>
        \/ CapsulesOf(active) # {} /\ Raise /\ UNCHANGED <<live, capsules>>
     /\ UNCHANGED <<used, applied, late, approved, verdict, runs, before>>

-----------------------------------------------------------------------------
\* 30 minutes pass.
TimePasses(p) ==
  /\ machine[p] \notin TerminalStates \cup {"none"} /\ p \notin late
  /\ late' = late \cup {p}
  /\ UNCHANGED <<machine, pc, active, saga, approved, verdict, runs, before, raised>>

Approve(p) ==
  /\ pc = "idle" /\ Info[p].decision = "needs_approval" /\ p \notin approved
  /\ approved' = approved \cup {p}
  /\ UNCHANGED <<machine, late, pc, active, saga, verdict, runs, before, raised>>

\* engine.cancel suppresses the exception of a cancellation that is refused.
Cancel(p) ==
  LET s == Transition(p, "cancelled")
  IN /\ pc = "idle" /\ machine[p] \notin TerminalStates \cup {"none", "executing"}
     /\ s # "raise"
     /\ machine' = [machine EXCEPT ![p] = s]
     /\ UNCHANGED <<late, pc, active, saga, approved, verdict, runs, before, raised>>

\* An operator reverts a finished recovery with its capsule, or voids it; 72
\* hours expire it.
Revert(i) ==
  /\ pc = "idle"
  /\ RollbackWith(i)
  /\ UNCHANGED <<machine, late, pc, active, used, applied, approved, verdict, runs, before, raised>>

Retire(i) ==
  /\ pc = "idle" /\ capsules[i].status = "active"
  /\ \E s \in {"voided", "expired"} : capsules' = [capsules EXCEPT ![i].status = s]
  /\ UNCHANGED <<machine, late, pc, active, live, used, applied, approved, verdict, runs, before, raised>>

Engine ==
  /\ UNCHANGED setup
  /\ \/ Policy \/ DryRun \/ Certificate \/ Execute \/ Verify \/ Canary
     \/ Compensate \/ Rollback

Callers ==
  /\ UNCHANGED setup
  /\ \/ \E p \in Proposal : Run(p) \/ TimePasses(p) \/ Approve(p) \/ Cancel(p)
     \/ \E i \in DOMAIN capsules : Revert(i) \/ Retire(i)

Next == Engine \/ Callers

\* A call that was made runs to its end.
Spec == Init /\ [][Next]_vars /\ WF_vars(Engine)

-----------------------------------------------------------------------------
\* Type invariant.
TypeOK ==
  /\ setup \in Setups
  /\ machine \in [Proposal -> RecoveryStatus \cup {"none"}]
  /\ late \in SUBSET Proposal /\ used \in SUBSET Proposal
  /\ approved \in SUBSET Proposal /\ raised \in SUBSET Proposal
  /\ pc \in {"idle", "policy", "dry_prepared", "dry_execute", "dry_verified", "certificate",
             "execute", "verify", "canary", "compensate", "rollback"}
  /\ active \in Proposal \cup {NoProposal} /\ (pc = "idle" <=> active = NoProposal)
  /\ live \in [Setting -> Value] /\ before \in [Setting -> Value]
  /\ capsules \in Seq([proposal: Proposal, setting: Setting, previous: Value,
                       status: {"active", "used", "voided", "expired"}])
  /\ verdict \in [Proposal -> {"none", "pass", "fail"}]
  /\ runs \in [Proposal -> Nat] /\ applied \in [Proposal -> Nat]

\* "A result of COMMITTED is ONLY set after VERIFYING passes": a recovery that
\* says committed was applied and its canary passed, unless it was a dry run.
CommittedIsVerified ==
  \A p \in Proposal : machine[p] = "committed" /\ Info[p].mode # "dry_run" =>
    verdict[p] = "pass" /\ applied[p] = 1 /\ p \in used

\* A proposal is applied successfully at most once, however often it is run,
\* approved, cancelled, reverted and run again, and never when policy denied it.
AppliedAtMostOnce ==
  \A p \in Proposal :
    /\ applied[p] <= 1
    /\ applied[p] = 1 => Info[p].decision # "deny" /\ Info[p].mode # "dry_run"
    /\ applied[p] = 1 /\ Info[p].decision = "needs_approval" => p \in approved

\* A run that ends compensated leaves every component as it found it, and one
\* that ends failed before it executed anything has touched nothing.
CompensationRestores ==
  [][\A p \in Proposal :
       active = p /\ active' = NoProposal =>
         /\ machine'[p] = "compensated" => live' = before
         /\ machine'[p] = "failed" /\ Cardinality(CapsulesOf(p)) = 0 => live' = before]_vars

\* "EXECUTING -> failure -> COMPENSATING (not FAILED)": only a run whose rollback
\* was attempted, or that never executed, may end failed; and what a failed run
\* left behind is still covered by a capsule nobody has used.
FailureKeepsCapsule ==
  [][\A p \in Proposal :
       active = p /\ active' = NoProposal /\ live' # before =>
         \E i \in CapsulesOf(p)' :
           capsules'[i].status = "active"
             /\ capsules'[i].previous = before[capsules'[i].setting]]_vars

\* Every call of run comes back to its caller.
EveryRunReturns == pc # "idle" ~> pc = "idle"

\* run says "never raises to caller" (engine.py:95).  It raises only for a dry
\* run that a guard refused, or for a proposal with a capsule to repair from; a
\* failed canary makes it raise only when automatic compensation is off
\* (VERIFYING has no edge to FAILED).
RaisesForAReason ==
  \A p \in raised :
    \/ Info[p].mode = "dry_run"
    \/ CapsulesOf(p) # {} /\ (machine[p] = "verifying" => verdict[p] = "fail" /\ ~AutoCompensate)

\* Between runs, a machine is found COMPENSATING only if it timed out, which
\* nothing follows up (state_machine.py:134), or if its rollback raised.
StuckForAReason ==
  pc = "idle" => \A p \in Proposal : machine[p] = "compensating" => p \in late \cup raised

\* run commits (engine.py:205) only what policy let through, was applied once and
\* passed its canary.
CommitIsEarned == TypeOK /\ CommittedIsVerified /\ AppliedAtMostOnce

\* run leaves by an exception or half way (engine.py:95, state_machine.py:134) only
\* for the reasons above.
ExitsForAReason == RaisesForAReason /\ StuckForAReason

\* However a run ends, the components are as they were, or a capsule leads back
\* (engine.py:225, executor.py:182).
EndIsRecoverable == CompensationRestores /\ FailureKeepsCapsule
=============================================================================
