# DriftGuardX: a TLA+ verification of its control logic

DriftGuardX detects failures of AI pipelines, replays them under controlled
interventions, and recovers. This directory models the parts of it that decide
*whether* something may be executed, *how often*, and *what is left behind when
it fails*: the API and its jobs, the admission and execution of replays, the
evidence loop that leads from an incident to a recovery, the recovery itself,
policy and human approval, and the records all of these leave. Paths below are
relative to the repository; `PROJECT.json` maps every definition to the lines it
stands for.

## 1. Inventory

| Component | State it keeps | Operations | What makes it correct |
|---|---|---|---|
| Run routes (`apps/api/src/routes/runs.py`) | runs, idempotency keys, interventions, episodes | create, register, finalize, replay | a key names one run; a final status stays; an episode is paid for; every request ends |
| Span ingestion (`packages/sdk/src/client.py`, `services/ingestion.py`) | span rows; counters of a batch | batch_spans; ingest | stored once, counted once, nothing dropped silently |
| Job orchestrator (`apps/api/src/jobs/orchestrator.py`) | handle, task, job row | submit, cancel | a cancelled job does not complete; memory and row agree |
| Worker jobs (`apps/worker/src/worker.py`, `services/recovery_pipeline.py`) | job rows, graph, quarantine rules, approval requests | graph, diagnosis, recovery, BCRB | completed means done; no quarantine without somebody who can lift it |
| Recovery approval routes (`routes/recovery.py`) | approval rows, decisions, certificates, audit events | approve, promote, reject, rollback | one decision; a certificate is authorised |
| Admission store (`packages/replay/src/postgres_admission_store.py`, `admission_store.py`, `admission_receipt.py`) | receipts, pool counters, audit trail, attestations | issue, verify, record_attestation, consume, release, void | a receipt is used once; counters equal what receipts stand for; a refusal hurts nobody else's claim |
| Replay worker (`apps/worker/src/worker.py`) | job row, coroutine, rows it loaded | `execute_replay_job` | one execution per receipt, whatever is redelivered; every claim is settled; every job ends |
| Replay engine (`packages/replay/src/engine.py`) | child processes, pipes, inputs handed on | execute_replay | only the intervention differs; children are reaped; the call returns |
| Sandbox and coordinator (`sandbox.py`, `vti_coordinator.py`, `arc_isolator.py`) | escrowed effects | run; stage, commit, roll back | what is staged is handed over and settled once |
| AOR scheduler (`aor_scheduler.py`) | task graph, two pools | add_task, run | order; every run ends |
| Container executor, exogenous controller (`executor.py`, `exogenous_controller.py`) | container, directory; global patches | execute; enter, exit | nothing is left behind |
| BCRB session (`packages/bcrb/src`, `test_framework.py`, `packages/diagnosis/src/engine.py`) | candidates tested, posteriors, budget | session loop, diagnose | a root cause was measured; the session ends |
| Incident orchestrator (`packages/recovery/src/orchestrator.py`, `stopping_rule.py`, `causal_experiment_planner.py`) | status, evidence, budget, tested candidates, replay counter | process_incident | evidence before recovery; fails closed; budget; termination |
| Recovery engine (`packages/recovery/src/{engine,state_machine,canary}.py`) | state machine per proposal, settings, capsules, keys | run, cancel, compensate, void | committed means verified; applied once; a failed run is undone or can be |
| Recovery actions (`executor.py`, `capsule.py`, `actions.py`, `adapters.py`) | slots, capsules, receipts | execute_with_admission, roll back | compensation undoes; receipt and effect agree; the lock holds |
| Causal cut, validation (`causal_cut.py`, `validation.py`, `divergence_validator.py`) | paths, cover; per-node verdicts | build a cut; validate it | complete, sound, cheapest; eligible means supported |
| Policy (`packages/policy/src`) | requests and decisions; hierarchy | approve, deny, break glass; resolve, evaluate, shadow; transport | enough distinct people; rules only tighten; differences are answered |
| Ledgers (`packages/ledger/src/{store,chain}.py`) | hashed rows, cached head | append, verify | one chain |
| Memory (`packages/memory/src`) | partitions, quarantine, capabilities, audit chain | read, write, quarantine, revoke | quarantine and revocation are effective and audited |
| Merkle DAG (`merkle_dag.py`) | nodes, index, children | add, fork, verify | tamper evidence; forks are parallel |
| Schema (`apps/api/alembic`, `models*.py`) | tables, revision, rows | upgrade, downgrade, create_all | the schema is the revision's; evidence survives |
| Trace SDK (`packages/trace_sdk/src`) | spans, context variable | traced calls | the parent is the caller |
| Agent pipeline (`packages/rag_pipeline/src/agents.py`) | context, hops | run | quarantine, policy and grounding hold on every route |
| Detectors, diffusion, graph builder, ingestion package, benchmarks, evaluation, rationale, provider registry, web, CLI | none across calls, or numerical | data transformation | not a question for a model checker |

How they interact. Clients register runs and send spans; a run's graph and
diagnosis are computed by jobs, in process or through Redis (ARQ). A coordinator
issues a receipt in the store, which reserves capacity of a pool; a worker that
gets a job with the receipt claims it (verify), lets the replay engine execute in
child processes, sandboxes or containers, attests and consumes. The incident
orchestrator and the BCRB session run replays until they are sure enough; a cut
of the causal graph is validated and becomes a proposal. The recovery engine
takes a proposal whose policy decision comes from the resolver and the approval
service or from a decision in the API, applies it through an executor with a
capsule that leads back, and the ledgers keep what happened.

What is hard here: processes that race for a row, a receipt or a key, or die
holding it; cancellation at any await; several commits of which some answers are
lost; a machine whose deadline passes between two steps; objects that outlive
the incident, the run or the process they hold state for; a head, a status or a
version that is read in one step and used in another; clean-up when the thing
that failed is the clean-up.

## 2. Modules

| Module | Models | EXTENDS / composes |
|---|---|---|
| `AdmissionStore` | the PostgreSQL store; every transaction is one action, because it locks its rows first | |
| `LocalReceiptStore` | the SQLite store and the receipt object | |
| `SingleUseGrant` | abstract: a grant is open, held once, used once or closed, and live grants fit the budget | implemented by both stores |
| `ReplayWorker` | replay jobs on the store, between awaits and commits | extends `AdmissionStore`; its steps implement the store's specification |
| `RunApi`, `SpanIngestion`, `JobOrchestrator`, `WorkerJobs`, `RecoveryApprovals`, `BcrbSession` | the services behind the API | composed by `MCApi` |
| `ReplayEngine`, `VtiSandbox`, `AorScheduler`, `ContainerExecutor`, `ExogenousState` | what executes a replay | composed by `MCExecution` |
| `RecoveryEngine`, `RecoveryActions`, `CausalCut`, `RecoveryValidation` | a recovery, from the cut to the compensation | |
| `IncidentOrchestrator` | process_incident with the long-lived planner, stopping rule and belief | |
| `Approvals`, `PolicyResolution`, `TransportGate` | policy | |
| `TransparencyStore`, `CertificateChain`, `ProvenanceMemory`, `MerkleDag`, `SchemaMigrations`, `TraceSpans` | records | |
| `AgentPipeline` | the reference runtime whose runs are diagnosed | |
| `AdmissionProofs` | theorems on the store and the worker | extends `ReplayWorker` |
| `IncidentOrchestratorProofs`, `ApprovalsProofs`, `RecoveryEngineProofs` | theorems | each extends its component; the two of `TransparencyStore` are in the module itself |
| `ApiProofs`, `ExecutionProofs`, `RecordsProofs` | theorems on the components that `MCApi`, `MCExecution` and `MCRecords` compose | extend those |
| `MC*` | constants of the checked instances; `MCApi`, `MCExecution` and `MCRecords` also hold the scenario | extend their components |

An operator named in a comment "Mutant: ..." is a faulty variant of the
definition below it. It is not part of any specification; it shows that the
properties notice the fault.

### State and actions against the code

**AdmissionStore.** `status`, `payload`, `reserved`, `spent`, `events` and
`attested` are the columns of the four tables, `now` is the clock. `Issue`,
`Verify`, `RecordAttestation`, `Consume`, `Release` and `Void` are the methods;
each has its silent or raising early returns as stuttering disjuncts.
`EvaluateVerification` keeps the order of the checks, since the first that
fails decides what is logged and whether the receipt is voided or expired.
A binding hash is an injective digest, so it is modelled by the payload itself;
the eleven binding fields are one value. `ReleaseReservation` keeps the clamp
at zero of the code: that the clamp never bites is part of `PoolAccounting`.

**ReplayWorker.** `pc[j]` is where the handler of job `j` is; a step is what
happens between two points at which it can be interrupted. `Handler(step)` is
where an exception raised in a step leads: before the `try`, into the `except`
block with or without `receipt_verified`, or out of the coroutine. `Advance`
lets a commit take effect and its answer be lost. `Faults` selects crashes (with
redelivery up to `max_tries`), `job_timeout` cancellation (`CancelledError`
skips the `except Exception` block) and failing database calls. `CancelJob` is
the API's cancellation; `Drift` changes the rows the binding is computed from.
`executions` and `episodes` count, per receipt, the calls of the replay engine
and the episode rows.

**RecoveryEngine.** One call of `run` is active at a time; a step ends in a
transition of the machine, because `timeout_at` may pass between any two.
`Transition` is the machine's: it raises in a terminal state, forces
COMPENSATING when late, and raises for an edge that is not in the table.
`Setups` are proposals and engine configurations; `Init` picks one. `live` holds
what actions assign (the in-memory executor), `capsules` the registry in
insertion order, `before` the settings at the start of the run. Operators
approve, cancel, revert with a capsule and void capsules between runs. The
canary's statistics are a Boolean outcome.

**Approvals.** `requests` with their decisions, `late` the requests past
`expires_at`, `audit` the log by request, `granted` the verdicts "allow" with
what they cite. `Expire` is what `_get_active` does when it meets a late request
before it raises; `ExpireStale` sweeps. The rule a policy resolves to, its tier
and the delegates are constants. One tenant.

**TransparencyStore.** Python's `sqlite3` opens the EXCLUSIVE transaction at the
first writing statement, so the SELECT of the head (`ReadHead`) is not in it and
`Insert` is a second step, guarded by the primary key. `Abort` is an integrity
error, a lock time-out or a crash. A hash is the tuple it covers.

**CertificateChain.** A call builds a certificate on the head it sees, checks it
against the cached head, inserts, and advances the head: four steps with awaits
between the last three. A chain object may die and be initialised again.

**IncidentOrchestrator.** `local` and `resources` live as long as an incident,
`shared` (tested candidates, replay counter, belief) as long as the
orchestrator. `Sufficient` is the stopping rule with its priorities, `Plan` and
`Exhaust` the planner, `Reconcile` the settlement of a reservation. Posterior,
entropy and utility are a nondeterministic `belief` and choice of candidate.

**RunApi.** A request is a process in the one transaction `get_db` opens for it;
`step` is the statement it is at. Reads see what is committed; an insert of a
unique value another transaction holds waits for that one (`holder`), and then
succeeds or fails the request. `CommitFails` rolls back, `Crash` loses the
process. Handlers that leave the commit to `get_db` answer before it, so that an
answered request may still fail. `receipt` is in a SQLite file and survives
rollbacks, unlike the episode.

**SpanIngestion.** `at` and `told` are the locals of `batch_spans`; an `Attempt`
is one POST and its server-side transaction, which goes on when the client has
given up (`ClientTimeout`). Each span has a savepoint; an insert waits for
another's uncommitted span, and a cycle of waits is ended by PostgreSQL, which
`RejectSpan` models as it models a violated constraint. The route refuses a chunk
with a span of another tenant.

**JobOrchestrator.** `handle` is the object in memory, `row` the database row,
`task` the await the job's coroutine is at; `interrupt` is a `task.cancel()` that
has not been delivered. Every database call may fail and is swallowed as in the
code. `tenantOk` are the callers of `cancel_job` with the right tenant.

**WorkerJobs.** `wpc` goes from delivery through the commits of the four jobs.
The graph row is shared: an insert waits for the other job's. `rules` and
`requests` are the committed quarantines and approval requests by pipeline run.
A worker may crash (and the message be redelivered), time out or be cancelled
through the API; `looked` is what `_mark_completed` read. `HandlerEscapes` is an
exception outside the handler's `try`: the payload is converted before the row is
marked, and marking the row may fail too. The row then stays as it was.

**RecoveryApprovals.** A handler reads the row without a lock (`saw`), decides,
flushes, which takes the row lock, and commits; the audit event and the
certificate are part of the commit the code makes them in. `raced` marks rows
that were written by a decider whose read was stale: the properties say what
holds without the race, and that nothing else goes wrong with it.

**BcrbSession.** Probabilities in percent, costs in thousandths of a dollar; the
arithmetic of the planner, the calibrator and the updater is kept in integers,
with the values of the logistic curve tabulated for the deltas used. The canary
is unavailable, raises, is synthetic or measures a delta.

**ReplayEngine.** `epc` is the parent's loop; `pipe` holds the frames of the
child; `docs` and `faith` are what components hand on. A child may send too much,
end, fail or be killed from outside; `KillChild` is the deadline. The checks
before execution are one action with their order kept. A trace without component
types falls back to `FallbackPipeline`, of which only the replaced component has a
version to run: nothing is executed if the target is not in it.

**VtiSandbox.** Workers (`SandboxedWorker.run`) and oracles
(`evaluate_trajectory`) are threads over one dictionary of lists without a lock:
looking up, creating and appending are separate steps, and so are an oracle's
look at a status and its commit. A parent polls, then looks at `is_alive`: a child
that ends in between has its envelope unread, and the parent raises "no result".

**AorScheduler.** `LoopStep` is one turn of `run` under the lock; `thread` says
where in the two pools a task's job is. `AddTask` may come while `run` waits.
`FunctionEnds` is the caller's `task.func` coming back, which it need not do;
`TaskExits` is an exit that no `except Exception` catches.

**ContainerExecutor, ExogenousState.** One `execute` against a container that
runs on its own and a daemon any of whose calls may fail; patches of process-wide
functions, started and stopped one by one, by controllers in several threads.

**CausalCut, RecoveryValidation, PolicyResolution, TransportGate.** Algorithms
whose loops are kept as actions and whose results are compared with a definition
that does not loop (`SimplePaths`, `Coherent`, `Binding`). The relevance of a
difference is kept in tenths.

**RecoveryActions.** A slot is what one action type sets for one item; `setting`
is the world, `known` what the executor believes. One call runs at a time.
`tangled` holds the slots that were compensated out of order or from a guess.

**ProvenanceMemory.** Processes share two files; each operation is check, effect,
read of the last hash, insert. `overlapped` and `changed` record that two
processes were between such steps at once.

**MerkleDag.** A hash is the record it covers: the payload and the bag of the
parents' hashes (the code sorts a list that may name one twice); `TamperNode` changes a payload in
place. `ForkLineage` is one call, with the part it leaves when it raises.

**SchemaMigrations.** A schema is a set of tables and of the columns, constraints
and types some later revision touches; a migration is its statements in order.
PostgreSQL rolls a whole command back, SQLite keeps each statement. One run row,
one row of the evidence tables and one pair of clashing spans stand for the data
migrations look at. A run keeps with its class what it was written as (`origin`).

**TraceSpans, LocalReceiptStore, AgentPipeline.** Traced calls of tasks with
their copies of the context variable; the SQLite store's transactions with
tampering of the trail; one hop of the pipeline per action, with model and retriever
that may raise at every call, and tools that may raise or return an error, as text
or as a dict.

## 3. Runs

| Run | Instance | What it shows |
|---|---|---|
| `store` | 3 interchangeable receipts, 1 pool of budget 3, payloads of cost 1, 2 and 1 with different ceilings, expiries and signatures; clock to 2 | counters, audit trail and status agree (`PoolAccounting`, `AuditTellsStatus`), refusals leave claims alone (`ClaimSurvivesRefusal`), and the store implements `SingleUseGrant` (`ImplementsSingleUseGrant`) |
| `worker_faults` | 2 jobs, 1 receipt; crash, timeout and database faults, 2 deliveries, drift, cancellation | `AtMostOnce`, `ClaimIsExclusive`, `CompletedIsPaid`; all that workers do to the store is what the store specifies (`UsesStore`) |
| `worker_redelivery` | the same with crashes only, under fairness | every job finishes (`EveryJobFinishes`) and no claim is orphaned by the handler itself (`ClaimHasWorker`) |
| `worker_timeout` (violation) | timeouts only | a claim of a timed-out handler is never settled (`ClaimIsSettled`) |
| `engine` | 3 set-ups of 2 proposals on one component: locked/approval, denied/allowed without compensation, dry/allowed; 2 runs each | `CommitIsEarned` (`CommittedIsVerified`, `AppliedAtMostOnce`), `ExitsForAReason` (when a run raises, `RaisesForAReason`, and when it comes back half way, `StuckForAReason`), `EndIsRecoverable` (`CompensationRestores`, `FailureKeepsCapsule`), `EveryRunReturns` |
| `approvals` | 2 requests, 3 actors, 2 actions, 2 decisions per request | `ApprovalsAreSound` (`ApprovedByEnough`, `AuditTellsStatus`), `AllowIsBacked`, `DecisionsStand` |
| `transparency` | 3 processes, 2 payloads, 3 entries | `LedgerIsOneChain`, `AckedIsWitnessed` |
| `chain_fork` (violation) | 1 chain object, 2 calls | two certificates on one head (`NoForks`): `verify_chain` fails on an honest ledger |
| `incident` | 2 incidents, 4 candidates, budget 4, overrun 1 | `EvidenceComesFirst` (`RecoveryNeedsEvidence`, and `MinimumEvidence`: the replay counter is the sum over all incidents), `FailsClosed`, `BudgetHolds`, `EveryIncidentEnds` |
| `api` | 6 scenarios | the services behind the API (below) |
| `execution` | 5 scenarios | what executes a replay (below) |
| `records` | 11 scenarios | decisions and records (below) |

The last three runs check components that keep disjoint state. A behaviour
exercises one of them, the `scenario`, from all its initial states, while the
others stay in one of theirs; so each component is checked exactly as by itself,
and its properties are invariants of the whole. A property of a run is a
conjunction of named parts, one for each promise; a run checks the type invariant
of a component as a part too. Liveness (`ApiSettles`, `ExecutionEnds`) is
`<>[]` of the conjunction of `scenario = "x" => P` with `P` the state in which the
component has come to its end, under the fairness of the component's own
specification. Steps under strong fairness are
united over the scenarios (`Strong(i)`): in one scenario only one member of the
union can be enabled.

- `api`.
  - `RunsAreConsistent`, **runs**: every choice of three requests out of nine
    (creations with one key that agree or conflict, registrations of one id,
    finalizations with different outcomes, replays of a created and of a
    registered run), with and without foreign keys: `KeyNamesItsRun`,
    `OneEpisodePerSpec`, `EpisodeIsPaid`.
  - `SpansAreAccounted`, **spans**: two clients, chunks that overlap in opposite
    orders, two attempts: `StoredOnce`, `NothingDropped`, `SuccessIsClean`,
    `CountsOnce`.
  - `JobsAreHonest`, **pipeline** (a job in process and two cancellers):
    `CancelledNeverCompletes`, `OneCancelAccepted`, `RestAgrees`; **jobs** (two
    queued jobs of six combinations of kinds, two deliveries):
    `QuarantineIsAnswerable`, `CompletedDidWork`, `EndedIsFinal`.
  - `DecisionsAreBacked`, **approvals** (two deciders, a seeded and a pipeline's
    request): `OneDecision`, `MintedIsAuthorised`;
    **bcrb** (traces of up to three invocations, all canary outcomes):
    `RootCauseIsMeasured`, `TestedOnce`, `ConfidenceDiagnoses`.
  - `StatusesStand`, of steps: `FinalIsFinal`, `CancelOvertaken`, `FinalDecision`.
  - `ApiSettles`: requests, batches, cancellations, jobs, decisions and sessions
    end.
- `execution`.
  - `ReplayIsFaithful`, **replay**: requests the engine refuses, and replays of up
    to three components whose children misbehave: `NoOrphanChild`, `OnlyTheSwap`,
    `NeverRealEvidence`, `ScoreIsExplained`.
  - `EffectsAreSettled`, **sandbox**: two workers (one with the isolator) and two
    oracles on one trace: `StagedIsHandedOver`, `SettledOnce`, `NothingVanishes`.
  - `ScheduleIsRespected`, **scheduler**: three tasks in a chain, a join and a
    cycle, some added late, with one thread per pool: `RunsAfterDependencies`,
    `BlockedForAReason`.
  - `CleanedUp`, **container**: `SuccessIsWhole`, `NothingIsLeft`; **exogenous**
    (two controllers, three sets of installed modules): `Restored`,
    `SeesOwnStubs`.
  - `ExecutionEnds`: each of the four calls comes back.
- `records`.
  - `RecoveryIsSupported`, **cut** (32 graphs of four nodes, cyclic ones too, with
    five offers of actions, some above the limit of the exact search):
    `PathsAreComplete`, `CutIsSound`, `ExactIsCheapest`; **validation**:
    `ValidMeansCoherent`, `EligibleIsSupported`, `UntargetedIsKept`;
    **actions** (two proposals for one slot, every action type, two attempts):
    `SettingIsTop`, `ReceiptTellsOutcome`, `LockHolds`.
  - `PolicyOnlyTightens`, **policy** (hierarchies of three levels, whole, cut and
    cyclic, with ten rule lists at each level): `TighteningOnly`,
    `ProceedIsUnanimous`, `RolesAreIntersected`, `ShadowNeverStricter`;
    **transport**: `DirectMeansSame`, `DifferencesAreAnswered`.
  - `RecordsTellTheTruth`, **memory** (two processes, a crash, a revocation):
    `ChainBreaksOnlyByOverlap`, `QuarantineHolds`, `QuarantineIsAudited`; **dag**:
    `IndexIsExact`, `ForkIsParallel`, `PathIsTamperEvident`; **receipts**:
    `TrailTellsRow`, `ChainFindsTampering`, `ReservationFollowsObject`; **spans**
    (two tasks, four spans): `ParentIsCaller`, `TraceIsConnected`,
    `CollectedOnce`.
  - `EvidenceSurvives`, **schema**: three commands on both dialects:
    `SchemaIsRevision`, `HeadServesModels`, `EvidenceIsNotDropped`,
    `SyntheticStaysSynthetic`.
  - `AgentsAreGated`, **agents**: `QuarantinedIsBypassed`, `AnswerIsGrounded`,
    `AnswerMetPolicy`, `HopsSuffice`.
  - `LocalImplementsGrant`, **receipts**: the SQLite store refines
    `SingleUseGrant` as the PostgreSQL store does.

Many of these properties have the form "this holds, unless that race happened":
the code does not exclude the race, and the property says that nothing else
breaks the promise, and what the race can do at worst.

### Bounds, and why they are enough

- `MaxEvents` bounds the trail a receipt may have when `verify` is called: only
  refusals of a claimed or settled receipt append without end, and they change
  nothing else. Three receipts of costs 1, 2, 1 fill and overfill a pool of 3;
  the clock of 2 lets one payload expire before another.
- Two jobs on one receipt are the smallest race; a third adds no new pair. Two
  deliveries and one crash per job give a redelivery in every state of the
  handler. The theorems of section 5 remove these bounds.
- Two proposals on one component and two runs each give interference, a stale
  capsule, a used idempotency key and a lock that fails.
- Two requests let an approval be cited for the wrong action; two decisions let
  one actor decide twice and a decision be followed by an override.
- Three candidates for the first incident and four for the second leave both
  used and unused candidates when the second starts; `MaxExperiments` 3 makes
  the safety limit reachable, and so is every outcome of the stopping rule.
- Three requests are the least with a key that is taken, a waiter and a third
  that acts on what they leave. Two attempts, not three, per chunk: the third
  meets nothing the second does not. Two workers with one staged effect each and
  two oracles give every pair of overlapping accesses to the coordinator.
- Four nodes give paths that share nodes, pass through targets and go round a
  cycle; `MaxCombinations` 7 (the code has a larger constant) sends offers of
  three actions to the exact search and of four to the greedy one.
- Three commands and one cut reach every migration up and down, repeated after a
  failure. Four spans in two tasks nest, interleave and outlive their creator.
- `MaxHops` is the code's 15. `MaxLog` 2, `MaxRefusals` 2, `MaxNodes` 3 and
  `MaxForks` 1 bound histories whose next element is treated as the last one was.
- Symmetry is used only in runs without liveness properties, over sets whose
  elements no constant tells apart.

Deadlock is not checked where a system may come to rest: all requests decided,
the ledger at its bound, all runs used, a request or a task ended. It is checked for the store and the
workers, whose repeated calls always remain possible.

### Fairness

`ReplayWorker`: weak fairness of `Deliver(j) \/ Run(j)`. Workers keep polling
the queue and asyncio keeps running a coroutine that is ready; nothing is
assumed of faults, cancellations, drift or coordinators. `RecoveryEngine` and
`IncidentOrchestrator`: weak fairness of the steps of a call that was made; they
are synchronous code. Nothing obliges the clock, an operator or an approver to
act.

In the API, weak fairness of a handler's own steps (`Handle`, `ServerStep`,
`DeciderStep`, `CancelStep`, `TaskStep`, `WorkerStep`): the event loop resumes
what is ready; a step that waits for a lock is not enabled. A client sends or
gives up (`Post \/ ClientTimeout`), by its own clock. In the execution of
replays, weak fairness of the parent (`Parent`, `RunStep`, `OracleStep`,
`LoopStep`, `ExecuteStep`) and of the container's budget (`BudgetExpires`), and
strong fairness of killing a child at its deadline (`KillChild`, `ParentKills`):
polling disables it again and again, but time does not stop. A pool thread's step
is strongly fair (`PoolStep`), because `run` gives the lock up in every turn; it
covers what the pool thread does before and after the task's function, under the
lock, and not the return of the function (`FunctionEnds`), which has no timeout. A
child, a container, a job's coroutine, a task's function, a crash, a caller and an
operator owe nothing.

## 4. Where the code and its documentation disagree

Two have a run that shows the violation, quoted in `PROJECT.json`.

1. A replay cancelled by `job_timeout` keeps its receipt VERIFIED and its
   reservation for ever (`worker.py:653`; `docs/novelty_strategy.md:45`).
2. Two concurrent appends fork the certificate chain (`chain.py:77` against
   `docs/PROJECT_REPORT.md:927`).

Others are bounded by properties that state exactly when they happen.

- Recovery. `run` can raise to its caller (`engine.py:217` against `:95`): for a
  dry run that a guard refused, in a second run of a proposal that left a capsule
  (`engine.py:165`), and after a failed canary without automatic compensation,
  because VERIFYING has no edge to FAILED: `RaisesForAReason`. A machine
  past its timeout is moved to COMPENSATING and the engine goes on
  (`state_machine.py:134` against `:128`, `:167`): `StuckForAReason`. The minimum
  of replays is counted over all incidents of an orchestrator
  (`stopping_rule.py:102` against `:14`): `MinimumEvidence`. A capsule may undo
  what a later recovery did, and production guesses the state it returns to
  (`executor.py:200`, `:590`): `SettingIsTop`. Production's lock compares with
  versions it never updates: `LockHolds`.
- API. Two deciders that read one request at once may both certify it, and an
  expired request may be approved (`recovery.py:188`): `FinalDecision`. Over a
  cancelled job row, `_mark_running` and `_mark_failed` write without regard to its
  status (`worker.py:146`, `:165`), and `_mark_completed` loses a cancellation that commits
  between its read and its write (`:157`): `CancelOvertaken`. A handler that raises
  outside its `try`, for example on a `run_id` that is no UUID and that the trigger
  does not validate (`worker.py:200`, `routes/recovery.py:81`), leaves its row QUEUED
  or running for ever: `EndedIsFinal` and `JobsSettled` except it. A cancellation
  before the task's first step is overwritten by "running"
  (`jobs/orchestrator.py:93`): `CancelledNeverCompletes`; one that comes before the
  row exists leaves the row "running": `RestAgrees`.
- Diagnosis. The root cause of `generate_diagnosis` needs 80 percent
  (`diagnosis/src/engine.py:66`), where the comment at `:51` says 0.9:
  `RootCauseIsMeasured`; the result of the BCRB job names its best candidate without
  any threshold (`worker.py:897`), which the property does not cover. No candidate is
  tested whose estimate exceeds the budget, but the tests together may exceed it,
  since no cost is ever counted (`bcrb/src/orchestrator.py:129` against
  `ROADMAP_IMPLEMENTATION_AUDIT.md:205`): `TestedOnce` claims only the former.
- Execution. Two oracles may commit one effect twice, and overlapping threads lose
  a staged one (`vti_coordinator.py:41`, `:59`): `SettledOnce`, `NothingVanishes`.
  A child that ends well between an empty poll and the look at `is_alive` loses
  everything it staged (`sandbox.py:352` against `docs/PROJECT_REPORT.md:727`):
  `StagedIsHandedOver`. `run` of the scheduler does not return for cyclic
  dependencies, while a task's function hangs (`aor_scheduler.py:79`) or when one
  leaves with something that is no `Exception`: `RunReturned`, in `ExecutionEnds`. A
  cancelled container execution leaves its directory (`executor.py:277`):
  `NothingIsLeft`. Controllers that overlap without nesting, or fail to enter, leave
  stubs behind: `Restored`. A replay that executes nothing, because the trace names
  no component and the target is not among the eight of the fallback pipeline
  (`replay/src/engine.py:552`), is labelled as the run is, up to
  REAL_CONTROLLED_EXPERIMENT (`:678`): `NeverRealEvidence`. A failed retriever or
  reranker can give a replay a high score (`engine.py:646`): `ScoreIsExplained`.
- Records. Two processes fork the memory's audit chain (`store.py:87`):
  `ChainBreaksOnlyByOverlap`; revocations of one are unseen by another until it
  restarts: `QuarantineHolds`. A fork of a lineage may raise in the middle and
  leave a part (`merkle_dag.py:249`): `ForkIsParallel`. On SQLite a cut downgrade
  leaves the head's stamp with tables missing, and `create_all` makes a later
  upgrade fail: `SchemaIsRevision`, `HeadServesModels`. Rows written between the
  count and the drop are lost: `EvidenceIsNotDropped`. A PRODUCTION run is a
  SYNTHETIC_SIMULATION after a downgrade and an upgrade (`8e7a2d4c6f90` lines 91 to
  94; the models leave `is_synthetic` true, `models.py:231`): `SyntheticStaysSynthetic`
  claims only that nothing becomes real.
- Validation. Only SYNTHETIC_SIMULATION closes the gate, so that a TEST_FIXTURE or an
  UNVERIFIED replay is eligible (`validation.py:278`), and a metric nobody measured
  passes (`:264` against `:11`): `EligibleIsSupported`. Components are named where
  the divergence validator looks for span ids (`:158` against `:7`), so that a cut
  that changes its own targets is refused: `UntargetedIsKept` claims the other
  direction only.
- Policy and pipeline. A quarantined fallback agent runs, and the response stands
  in for a quarantined orchestrator though quarantined itself (`agents.py:493`):
  `QuarantinedIsBypassed`. With the policy agent quarantined, a tool that raises on
  the second try leads to an answer without a policy decision: `AnswerMetPolicy`. A
  tool that returns an error text makes the run go round by verifier, fallback and
  tool to the last hop (`agents.py:376`): `HopsSuffice`; one that returns
  `{"error": ..}`, as the registry's own tools do (`tool_registry.py:207`), passes
  the verifier and is answered, and with the policy or the response agent quarantined
  so is an error text, by the "verified" of an earlier round: `AnswerIsGrounded`.

Seen while modelling, part of the models, without a property of their own:

- Recovery: a MANUAL proposal is executed (`engine.py:179` against `:16`);
  compatibility constraints of a capsule are never evaluated (`capsule.py:73`);
  `RETRY_HYBRID_RETRIEVAL` is reversible without a rollback handler; a capsule is
  stored for a failed action; a dry run consumes its receipt; an
  `AuthorizationError` escapes an `_apply` that "may not raise".
- Policy: a HIGH or CRITICAL action whose rule allows it without approvers is
  allowed (`policy/src/engine.py:155` against `:15`); an empty intersection of
  roles reads as no restriction (`resolver.py:206`); a justified override never
  relaxes anything; an unregistered parent cuts off its ancestors' rules; shadow
  evaluation ignores roles and required approvers; a changed component excludes a
  transport only at a relevance of 0.8.
- Jobs and sessions: `execute_recovery_job` reports `verification_passed` with
  approval "None" on INSUFFICIENT_EVIDENCE; a timed-out job stays "running"; the
  episode a real canary returns has no `cost_usd`; a recovery the pipeline proposed
  cannot be certified: its context lacks the `evidence_class` that `routes/recovery.py:270`
  reads, so the approval answers 500 and stays pending, where `routes/recovery.py:168`,
  `walkthrough.md:7` and `tests/integration/test_security_audit.py:174` have it certified; the request certifies the step of highest
  utility, which need not be the root cause's.
- Replay: a child that dies without a frame ends the replay with an uncaught
  `EOFError` (`engine.py:618`); one that ends between the poll and `is_alive` loses
  its result too; a failing generator leaves the score 1.0; the local pipeline
  executor hands a closure to a spawned process and is therefore always
  unavailable.
- Schema: two downgrades
  drop rows without asking; the span-identity downgrade fails when two tenants
  share a span id.
- Traces and agents: a cancelled call is recorded "OK"; concurrent first calls
  give several roots; an answer on the 15th hop is replaced by "Max hops exceeded"
  (`agents.py:508`); nobody looks at the policy decision; `force_retry`,
  `permissions` and `db` are read but never set.
- A VERIFIED receipt whose worker died is never released, which `ClaimHasWorker`
  and `ClaimIsSettled` therefore excuse.

## 5. Proofs

Checked by TLAPS for every value of the constants that satisfies the `ASSUME`s
of the component modules. These ask for what the code guarantees of its inputs:
costs, bounds and budgets are natural numbers, pools are named by bindings, at
least one delivery and one attempt, batches, trails and rule lists are sequences,
graphs and offers of actions are finite and an offer costs less than infinity,
identifiers of different kinds differ. The inductive invariants were checked with
TLC on the run of their component (`Counted` of the span ingestion, which
ranges over all sets, with that range cut to the pairs it allows).

**AdmissionProofs, the store.** `TypeCorrect`; `PoolsBalance` (`PoolAccounting` and
`NeverOversubscribed`); `AuditIsFaithful` (`AuditTellsStatus` and `SingleUse`);
`RefusalKeepsClaim`; `StoreRefinesGrant`. The inductive invariant is
`AccountingInv`: the sums are cardinalities of *finite* sets, the counters equal
them, and together they fit the budget. That nothing is oversubscribed is not
inductive alone, since a settlement that drove `reserved` below zero would be
clamped and lose money; the exact sums exclude it. `StepShape` reduces every
step to one of five shapes (issue, claim, refuse, attest, settle), on which the
other proofs split. The refinement maps the five live states to those of a
grant; the budget guard of the abstract `Grant`, a sum over all receipts, is
recovered from the counters through `PoolAccounting`.

**AdmissionProofs, the worker.** `OneExecutionPerReceipt`, `ClaimsAreExclusive`,
`CompletedJobsArePaid` and `WorkersUseStore` for any number of jobs, receipts,
deliveries and any faults; `ClaimsAreOwned` when crashes are the only faults.
The inductive invariant `WInv` says that at most one job *holds* a receipt
(`SoleHolder`: from the claim to the void or the completed row), what the store
knows of the receipt at each step of the holder (`Progress`), and that a receipt
nobody has claimed has not been executed (`Counters`). `AtMostOnce` alone is not
inductive: it needs to know that a handler at "execute" has not executed.
Steps that only lose a position (errors, timeouts, crashes) are treated together
(`Retreat`). `WorkersUseStore` carries every theorem of the store over to the
composed system. `ClaimsAreOwned` adds `Delivered`: a handler that runs was
delivered at least once.

**TransparencyStore.** `ChainIsUnbroken`, `AppendsAreKept`, for any number
of writers. That the table is one chain is not inductive, because a row is
computed from a head that may be stale when it is inserted. `PendingIsLinked`
adds that the predecessor of every pending row is in the table, where it stays;
the primary key leaves a position to one of the competing rows.

**IncidentOrchestratorProofs.** `EvidenceBeforeRecovery`, `IncidentsFailClosed`,
`BudgetIsKept`. The invariant adds where the active call stands (`Staged`), that
an outcome "confirmed" rests on evidence before it is acted upon
(`OutcomeIsEarned`), that the validated replays are a finite set that the
stopping rule counts exactly (`Counted`), and that a reservation was taken within
the budget (`ReservedInBudget`): without the last, the overrun of one replay
could add to that of another.

**ApprovalsProofs.** `ApprovalsHold`, `AllowsAreBacked`, `DecisionsAreFinal`. The
argument is about one request and its log at a time (`SoundRequest`); every
operation is one of a few `Changes` to it. That approved requests have enough
approvers is not inductive: a pending request must hold nothing but approvals of
people who may give them, or a late approval would count a self-approval.

**RecoveryEngineProofs.** `CommitsAreEarned`, `ExitsHaveReasons`,
`EndsAreRecoverable`. `Running` says for each step of `run` which status the
machine has, or that its timeout forced it into COMPENSATING, what policy let
through and how the settings relate to those the run found; `Settled` what a run
leaves of every other proposal.

**ApiProofs.** `RunsStayConsistent`, `JobsStayHonest`, `StatusesAreKept`,
`DecisionsStayBacked`, `SpansStoredOnce`. Each service has the same argument: a
handler is *sound* (`RSound`, `WSound`, `HasRead`, `AttemptSound`) if what it read
under a lock is still true and what it wrote but did not commit is held by it
alone; a step of one handler is `ROwn`, `WOwn`, `DOwn`, which leaves the others
sound. For the BCRB session the posteriors are shown to stay percentages
(`PosteriorIsPercent`), and the largest one to exist. For the spans, `SInv` says
that a stored span is held by no open transaction and no two of them hold it
(`SpansStoredOnce`). `SpansStayAccounted` needs `ToldInv` on top: an attempt at
position n of its chunk has stored, flushed or named every span before it
(`WorkSound`; that deduplication keeps each span of the chunk is
`DeduplicationKeeps`), so that a chunk the client went on from is settled span by
span (`ChunksSound`), and stays settled while others commit and die (`Carries`).
That `ingested_count` counts nothing twice is a statement about cardinalities:
`Counted` keeps a finite set of (attempt, span) pairs, one attempt per chunk, whose
size is the count and each of which is stored, flushed or lost. It is the client's
matching of an answer to its current attempt that keeps a second attempt out.

**ExecutionProofs.** `EffectsStaySettled`, `ScheduleStaysRespected`,
`ExecutionIsCleanedUp`, `ReplayStaysFaithful`. What happened to a staged action is
told by the thread that has it (`WorkerSound`, `OracleSound`, `ActionSound`), the
overlapping threads that the code does not exclude being recorded in `raced`. The
exogenous controllers need the whole stack: for any nesting, each slot and each
saved original holds the stub of the innermost controller around it that could
patch the slot (`StackSound`). The replay's plan is a recursive function of the
trace; that it names each type once (`PlanSound`) is an induction over the spans.

**RecordsProofs.** `AgentsStayGated`: "verified" outlives the route on which it was
set, so what it vouches for is kept with it (`Vouched`), and a count of hops per
agent (`OnTime`), or the reason why the run is late (`Delayed`), shows that eight
hops suffice. The theorem therefore assumes
`MaxHops >= 8`; the default of the code is 15, but the canary of
`replay/src/test_framework.py:392` runs with `max_hops=5`, which the theorem does
not cover. `PoliciesOnlyTighten`: for every registry, with cycles, gaps and inactive
nodes, a walk that cannot go on has met exactly the least closed set of nodes
(`WalkMeetsAncestors`); the rules collected are theirs (`RulesOfChain`); and a
rule that is applied leaves the policy as strict as it was and as the rule is
(`TightenKeeps`). Roles are an intersection only as long as one role is left
(`RolesSound`), which is what `RolesAreIntersected` claims. For the transport gate
`TransportInv` says that no difference is left out once all are compared.
`LocalStoreRefinesGrant`: a row of the SQLite store moves as a grant does.

`RecoveriesAreSupported` has four invariants. `SearchInv`: every simple failure path
from a source already searched is found, or goes on from a path on the stack, so
nothing is left when the stack is empty. `CutInv`: what the exact search keeps is
the cheapest cover among the combinations tried; the greedy one covers what it says.
`YInv`: each span has the verdict its own output deserves, and the loop stops early
only at one that invalidates the report. `ActionsInv`: a capsule remembers what the
actions below it had left, so that using capsules last in, first out restores the
slot; `tangled` is the exact exception.

`RecordsAreTrue` is a conjunction over five components. `MemoryInv`: the hash a
process read is still the last one unless `overlapped`. `TrailInv`, `ObjectInv`: an
event appended to a trail that verifies continues it, one appended to a damaged
trail leaves the damage visible. `SpansInv`: the context variable of a task is its
innermost open call, since each token is the call around it. `DagInv`: index and
hashes invert each other and children are parents turned round; `add_node` keeps
this, so a fork in topological order keeps it and finds the parents it needs.

`EvidenceOutlivesMigrations` covers all twelve revisions in both dialects. Every item
belongs to one revision (`Brings`, `Takes`), so the schema in the middle of a command
is that of its revision with the first statements applied (`Shape`, `After`): a
*clean* database follows the statements; a cut or pre-filled one has what the first
statement of a later upgrade adds (`Bars`) and is stuck there, which is why the head
revision is reached only with the schema of the models. The proof showed the
model's rollback wrong: a run that a rolled-back PostgreSQL downgrade had
deleted was not restored; `Rollback` now restores it, as the transaction does.

Inductions over a sequence or a bound (`Pass`, `PlanOf`, `RulesOf`, positions of
a chain) are made by a least counterexample: `UpTo` says that a set that holds 0
and successors goes up to n, and rests on the well-foundedness of the naturals.
For this the models define such functions by recursion over 0..n, and the proofs
first show that a function with the recursive equation exists (`SchemaAtIs`), since
a recursive definition is a `CHOOSE`.

**Model-checked only.** Liveness (`EveryJobFinishes`, `EveryRunReturns`,
`EveryIncidentEnds`, `ApiSettles`, `ExecutionEnds`), which needs
fairness and ENABLED. Every invariant of a passing run is stated by a theorem.

## 6. Not modelled

- Numbers: posteriors and entropies of the incident loop, canary statistics,
  similarity scores and detectors are real arithmetic; the models take their
  outcomes as choices. `BcrbSession` keeps its arithmetic in percent.
- Signatures and hashes are injective constructors; Merkle and consistency proofs
  of the ledger are pure functions of a table shown to be one chain.
- `policy/src/transfer_guard.py`, `replay/src/jit_hydration.py`, the `/verify`
  route and the query routes: stateless checks and look-ups.
- The graph builder, the ingestion package, detectors, diffusion, contracts,
  rationale, provider registry: functions of their input, or data classes.
- Formatting, logging, telemetry, exporters, prompts, the web console, the
  command line, benchmarks, evaluation and scripts.

## 7. Plan

Done: sections 2, 3 and 5. Left:

- `ReplayWorker` over `LocalReceiptStore`, and `RunApi`'s replay over it, by
   instantiation instead of a status of its own.
