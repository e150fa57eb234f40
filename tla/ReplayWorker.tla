----------------------------- MODULE ReplayWorker -----------------------------
(***************************************************************************)
(* Replay jobs of the ARQ worker (apps/worker/src/worker.py,               *)
(* execute_replay_job) running against the admission store.  One job is    *)
(* one message in the queue; its handler is a process whose steps are the  *)
(* database transactions and the calls between them.  Several jobs may     *)
(* carry the same receipt, and a job whose worker died is delivered again. *)
(*                                                                         *)
(* The handler's local receipt_verified is a function of where it is: it   *)
(* is TRUE exactly at the steps in Claimed and in the step "void", which   *)
(* the exception handler takes only if receipt_verified.                   *)
(***************************************************************************)
EXTENDS AdmissionStore

CONSTANTS
  Job,         \* messages enqueued for execute_replay_job
  ReceiptOf,   \* payload["admission_receipt_id"] of a job
  Faults,      \* the faults that may happen: a subset of Fault
  MaxTries,    \* ARQ's max_tries: deliveries of a message
  MaxCrashes   \* bound on the deliveries of a job that end in a crash

Fault == {"crash", "timeout", "database"}

ASSUME JobAssumption == ReceiptOf \in [Job -> Receipt] /\ Faults \subseteq Fault
ASSUME TryAssumption == MaxTries \in Nat \ {0} /\ MaxCrashes \in Nat

VARIABLES
  job,         \* background_jobs.status
  live,        \* jobs whose handle in the orchestrator was not cancelled
  pc,          \* the next step of the job's handler
  loaded,      \* the binding and evidence class recomputed from the rows loaded
  tries,       \* deliveries of the message so far
  durable,     \* what the run, manifest and intervention rows say now
  executions,  \* history: calls of ReplayEngine.execute_replay under a receipt
  episodes     \* replay_episodes rows with this admission_receipt_id

workerVars == <<job, live, pc, loaded, tries, durable, executions, episodes>>
wvars == <<vars, workerVars>>

JobStatus == {"queued", "running", "completed", "failed", "cancelled"}
Finished == {"completed", "failed", "cancelled"}

\* The steps taken while receipt_verified and the claim is the worker's to end.
Claimed == {"resolve", "execute", "persist", "attest", "consume"}
Step == {"queued", "mark_running", "load", "verify", "check_cancelled", "mark_completed",
         "void", "mark_failed", "done"} \cup Claimed

WInit ==
  /\ Init
  /\ job = [j \in Job |-> "queued"]
  /\ live = Job
  /\ pc = [j \in Job |-> "queued"]
  /\ durable \in [binding: Binding, evidence: Evidence]
  /\ loaded = [j \in Job |-> durable]
  /\ tries = [j \in Job |-> 0]
  /\ executions = [r \in Receipt |-> 0]
  /\ episodes = [r \in Receipt |-> 0]

At(j, step) == pc[j] = step
Goto(j, step) == pc' = [pc EXCEPT ![j] = step]

\* Mutant: a commit that fails is retried from the execution on.
HandlerRetries(step) ==
  IF step = "persist" THEN "execute"
  ELSE IF step \in {"load", "verify"} THEN "mark_failed" ELSE "done"

\* Mutant: the except block voids without looking at receipt_verified.
HandlerAlwaysVoids(step) ==
  IF step \in {"mark_running", "void", "mark_failed"} THEN "done" ELSE "void"

\* Where an exception raised in a step takes the handler.  _mark_running runs
\* before the try block, and what the except block raises nobody catches.
Handler(step) ==
  IF step \in {"mark_running", "void", "mark_failed"} THEN "done"
  ELSE IF step \in {"load", "verify"} THEN "mark_failed"
  ELSE "void"

\* A step that commits, after which the handler goes on, unless the answer to
\* the commit is lost and the call raises although it took effect.
Advance(j, step) ==
  \/ Goto(j, step)
  \/ "database" \in Faults /\ Goto(j, Handler(pc[j]))

-----------------------------------------------------------------------------
\* ARQ hands the message to a worker.
Deliver(j) ==
  /\ At(j, "queued")
  /\ tries' = [tries EXCEPT ![j] = @ + 1]
  /\ Goto(j, "mark_running")
  /\ UNCHANGED <<vars, job, live, loaded, durable, executions, episodes>>

SetJob(j, s) == job' = [job EXCEPT ![j] = s]

\* _mark_running is unconditional: it overwrites a cancelled row.
MarkRunning(j) ==
  /\ At(j, "mark_running")
  /\ SetJob(j, "running")
  /\ Advance(j, "load")
  /\ UNCHANGED <<vars, live, loaded, tries, durable, executions, episodes>>

\* The rows are loaded once and the state identity recomputed from them; a
\* missing row, a foreign tenant or a manifest that is not pinned raises.
Load(j) ==
  /\ At(j, "load")
  /\ \/ loaded' = [loaded EXCEPT ![j] = durable] /\ Goto(j, "verify")
     \/ UNCHANGED loaded /\ Goto(j, Handler("load"))
  /\ UNCHANGED <<vars, job, live, tries, durable, executions, episodes>>

\* The worker admission boundary.
VerifyAdmission(j) ==
  LET r == ReceiptOf[j]
      a == loaded[j]
  IN /\ At(j, "verify")
     /\ Len(events[r]) < MaxEvents
     /\ Verify(r, a.binding, a.evidence)
     /\ IF Admits(r, a.binding, a.evidence) THEN Advance(j, "resolve")
                                            ELSE Goto(j, Handler("verify"))
     /\ UNCHANGED <<now, job, live, loaded, tries, durable, executions, episodes>>

\* Mutant: receipt_verified is only set once the versions are resolved.
ResolveUnguarded(j) ==
  /\ At(j, "resolve")
  /\ Goto(j, "execute") \/ Goto(j, "mark_failed")
  /\ UNCHANGED <<vars, job, live, loaded, tries, durable, executions, episodes>>

\* The candidate and the pinned versions are looked up: one that is missing or
\* mismatched raises.
Resolve(j) ==
  /\ At(j, "resolve")
  /\ Goto(j, "execute") \/ Goto(j, Handler("resolve"))
  /\ UNCHANGED <<vars, job, live, loaded, tries, durable, executions, episodes>>

\* engine.execute_replay and the divergence validation; either may raise.
Execute(j) ==
  /\ At(j, "execute")
  /\ executions' = [executions EXCEPT ![ReceiptOf[j]] = @ + 1]
  /\ Goto(j, "persist") \/ Goto(j, Handler("execute"))
  /\ UNCHANGED <<vars, job, live, loaded, tries, durable, episodes>>

\* Mutant: the receipt is consumed without an attestation.
PersistUnattested(j) ==
  /\ At(j, "persist")
  /\ episodes' = [episodes EXCEPT ![ReceiptOf[j]] = @ + 1]
  /\ Goto(j, "consume")
  /\ UNCHANGED <<vars, job, live, loaded, tries, durable, executions>>

Persist(j) ==
  /\ At(j, "persist")
  /\ episodes' = [episodes EXCEPT ![ReceiptOf[j]] = @ + 1]
  /\ Advance(j, "attest")
  /\ UNCHANGED <<vars, job, live, loaded, tries, durable, executions>>

\* Mutant: the attestation is stored without its audit event.
AttestUnlogged(j) ==
  /\ At(j, "attest")
  /\ attested' = attested \cup {ReceiptOf[j]}
  /\ Goto(j, "consume")
  /\ UNCHANGED <<status, payload, reserved, spent, events, now,
                 job, live, loaded, tries, durable, executions, episodes>>

\* The attestation names the binding hash the store holds.  Its key may not be
\* in the trust store, and the store may refuse it: record_attestation raises.
Attest(j) ==
  LET r == ReceiptOf[j]
  IN /\ At(j, "attest")
     /\ \E trusted \in BOOLEAN :
          /\ RecordAttestation(r, payload[r], trusted)
          /\ IF AttestationAccepted(r, payload[r], trusted)
               THEN Advance(j, "consume") ELSE Goto(j, Handler("attest"))
     /\ UNCHANGED <<now, job, live, loaded, tries, durable, executions, episodes>>

ConsumeReceipt(j) ==
  /\ At(j, "consume")
  /\ Consume(ReceiptOf[j])
  /\ Advance(j, "check_cancelled")
  /\ UNCHANGED <<now, job, live, loaded, tries, durable, executions, episodes>>

\* _mark_completed reads the row ...
CheckCancelled(j) ==
  /\ At(j, "check_cancelled")
  /\ Goto(j, IF job[j] = "cancelled" THEN "done" ELSE "mark_completed")
  /\ UNCHANGED <<vars, job, live, loaded, tries, durable, executions, episodes>>

\* ... and, in a later statement, writes it: a cancellation between is lost.
MarkCompleted(j) ==
  /\ At(j, "mark_completed")
  /\ SetJob(j, "completed")
  /\ Advance(j, "done")
  /\ UNCHANGED <<vars, live, loaded, tries, durable, executions, episodes>>

\* The except block, entered with receipt_verified, and then without.
VoidReceipt(j) ==
  /\ At(j, "void")
  /\ Void(ReceiptOf[j])
  /\ Advance(j, "mark_failed")
  /\ UNCHANGED <<now, job, live, loaded, tries, durable, executions, episodes>>

\* Mutant: the failure is logged and not written to the row.
MarkFailedSilently(j) ==
  /\ At(j, "mark_failed")
  /\ Goto(j, "done")
  /\ UNCHANGED <<vars, job, live, loaded, tries, durable, executions, episodes>>

MarkFailed(j) ==
  /\ At(j, "mark_failed")
  /\ SetJob(j, "failed")
  /\ Goto(j, "done")
  /\ UNCHANGED <<vars, live, loaded, tries, durable, executions, episodes>>

\* One step of the handler, in the order of the code.
Run(j) ==
  \/ MarkRunning(j) \/ Load(j) \/ VerifyAdmission(j) \/ Resolve(j) \/ Execute(j)
  \/ Persist(j) \/ Attest(j) \/ ConsumeReceipt(j) \/ CheckCancelled(j)
  \/ MarkCompleted(j) \/ VoidReceipt(j) \/ MarkFailed(j)

-----------------------------------------------------------------------------
\* A database call raises and has had no effect.
DatabaseError(j) ==
  /\ "database" \in Faults
  /\ pc[j] \notin {"queued", "execute", "done"}
  /\ Goto(j, Handler(pc[j]))
  /\ UNCHANGED <<vars, job, live, loaded, tries, durable, executions, episodes>>

\* job_timeout: ARQ cancels the task at an await.  CancelledError is not an
\* Exception, so neither void nor _mark_failed runs, and ARQ does not retry.
Timeout(j) ==
  /\ "timeout" \in Faults
  /\ pc[j] \in {"mark_running", "load", "resolve", "persist", "check_cancelled",
                "mark_completed", "mark_failed"}
  /\ Goto(j, "done")
  /\ UNCHANGED <<vars, job, live, loaded, tries, durable, executions, episodes>>

\* The worker process dies; ARQ delivers the message again, max_tries times.
Crash(j) ==
  /\ "crash" \in Faults
  /\ pc[j] \notin {"queued", "done"}
  /\ tries[j] <= MaxCrashes
  /\ Goto(j, IF tries[j] < MaxTries THEN "queued" ELSE "done")
  /\ UNCHANGED <<vars, job, live, loaded, tries, durable, executions, episodes>>

\* cancel_job updates the row whatever it holds: the handle it consults is not
\* told what the worker does and refuses only a second cancellation.
CancelJob(j) ==
  /\ j \in live
  /\ live' = live \ {j}
  /\ SetJob(j, "cancelled")
  /\ UNCHANGED <<vars, pc, loaded, tries, durable, executions, episodes>>

\* The rows the receipt is bound to change under the worker.
Drift ==
  /\ durable' \in [binding: Binding, evidence: Evidence]
  /\ UNCHANGED <<vars, job, live, pc, loaded, tries, executions, episodes>>

\* The coordinator issues receipts; nothing else touches the store.
Environment ==
  /\ \/ Tick
     \/ \E r \in Receipt, p \in Payload : Issue(r, p) /\ UNCHANGED now
  /\ UNCHANGED workerVars

WNext ==
  \/ \E j \in Job : \/ Deliver(j) \/ Run(j) \/ DatabaseError(j) \/ Timeout(j)
                    \/ Crash(j) \/ CancelJob(j)
  \/ Drift
  \/ Environment

\* Workers keep polling the queue and asyncio keeps running their coroutines;
\* nobody has to cancel, issue, drift or fail.
WFairness == \A j \in Job : WF_wvars(Deliver(j) \/ Run(j))
WSpec == WInit /\ [][WNext]_wvars /\ WFairness

-----------------------------------------------------------------------------
\* Type invariant of the worker's own state.
WTypeOK ==
  /\ job \in [Job -> JobStatus]
  /\ live \in SUBSET Job
  /\ pc \in [Job -> Step]
  /\ durable \in [binding: Binding, evidence: Evidence]
  /\ loaded \in [Job -> [binding: Binding, evidence: Evidence]]
  /\ tries \in [Job -> Nat]
  /\ executions \in [Receipt -> Nat]
  /\ episodes \in [Receipt -> Nat]

\* "Two or more workers racing for one receipt produce exactly one successful
\* consumption" and "a worker crash must not permit a second worker to consume
\* the same receipt": whatever is redelivered, duplicated or retried, a receipt
\* pays for at most one execution and at most one episode.
AtMostOnce == \A r \in Receipt : executions[r] <= 1 /\ episodes[r] <= executions[r]

\* A worker past the admission boundary owns its receipt: the receipt is claimed,
\* no other worker is past the boundary with it, and what the worker is about
\* to run is the state, at an evidence class, that the receipt was issued for.
ClaimIsExclusive ==
  \A j \in Job : pc[j] \in Claimed =>
    LET r == ReceiptOf[j]
    IN /\ status[r] = "VERIFIED"
       /\ loaded[j].binding = payload[r].binding
       /\ loaded[j].evidence <= payload[r].ceiling
       /\ \A k \in Job : ReceiptOf[k] = r /\ pc[k] \in Claimed \cup {"void"} => k = j

\* What the job table calls completed was executed, persisted, attested and paid
\* for, and no two jobs are completed with one receipt.
CompletedIsPaid ==
  \A j \in Job : job[j] = "completed" =>
    LET r == ReceiptOf[j]
    IN /\ status[r] = "CONSUMED" /\ r \in attested
       /\ executions[r] = 1 /\ episodes[r] = 1
       /\ \A k \in Job : ReceiptOf[k] = r /\ job[k] = "completed" => k = j

\* The worker of an earlier delivery of the job died.
Died(j) == tries[j] > (IF pc[j] = "queued" THEN 0 ELSE 1)

\* execute_replay_job orphans no claim by itself: a claimed receipt has a worker
\* that still has to consume or to void it, unless a worker that carried it died.
ClaimHasWorker ==
  \A r \in Receipt : status[r] = "VERIFIED" =>
    \E j \in Job : ReceiptOf[j] = r /\ (pc[j] \in Claimed \cup {"void"} \/ Died(j))

\* Everything the workers do to the store is an operation of the store.
UsesStore == Spec

\* "Completion consumes the reservation once; failed, timed-out and expired
\* receipts void it and release the reserved capacity": a claimed receipt is
\* settled some day, so its reservation does not stay in the pool, unless a
\* worker that carried it died.
ClaimIsSettled ==
  \A r \in Receipt :
    status[r] = "VERIFIED" ~>
      status[r] \in Terminal \/ \E j \in Job : ReceiptOf[j] = r /\ Died(j)

\* A job that was enqueued comes to rest in a final state, also when its worker
\* dies and the message is delivered again.
EveryJobFinishes == \A j \in Job : <>[](job[j] \in Finished)
=============================================================================
