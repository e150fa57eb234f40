------------------------------ MODULE WorkerJobs ------------------------------
(***************************************************************************)
(* The worker's other jobs (apps/worker/src/worker.py): the recovery       *)
(* diagnosis that POST /recovery/trigger queues, the recovery job, the     *)
(* graph construction and the BCRB diagnosis.  Each marks its row running, *)
(* works in a transaction of its own, and marks the row completed or       *)
(* failed.  ARQ redelivers the job of a worker that died, not one whose    *)
(* handler raised; a job that exceeds job_timeout is cancelled with an     *)
(* error no handler catches.                                               *)
(*                                                                         *)
(* The graph jobs are of one trace, so they build the same graph row.  An  *)
(* execution of the recovery pipeline is named by its job and delivery.    *)
(***************************************************************************)
EXTENDS Naturals

CONSTANTS
  Job,           \* jobs
  Kinds,         \* the kinds they may have, as assignments Job -> Kind
  MaxDeliveries  \* deliveries of a message: the first and the redeliveries

Kind == {"diagnosis", "recovery", "graph", "bcrb"}
Outcome == {"none", "insufficient", "refused", "approval", "named"}

\* The last conjunct: graph is one of the two words, or the job that inserts it.
ASSUME JobsAssumption ==
  /\ MaxDeliveries \in Nat \ {0} /\ Kinds \subseteq [Job -> Kind]
  /\ "absent" \notin Job /\ "present" \notin Job

VARIABLES
  kind,       \* the kind of each job
  jrow,       \* its row: background_jobs, or jobs for the diagnosis
  wpc,        \* where its handler is
  tries,      \* deliveries so far
  result,     \* the outcome of the pipeline in the running delivery
  rules,      \* committed quarantine_rules that are active, by execution
  requests,   \* committed approval_requests, by execution
  graph,      \* the causal_graphs row: "absent", "present", or its inserter
  looked      \* what _mark_completed read in the row

wvars == <<kind, jrow, wpc, tries, result, rules, requests, graph, looked>>

Done(j) == IF kind[j] = "diagnosis" THEN "SUCCEEDED" ELSE "completed"
Failed(j) == IF kind[j] = "diagnosis" THEN "FAILED" ELSE "failed"
Started(j) == IF kind[j] = "diagnosis" THEN "RUNNING" ELSE "running"
JobEnded == {"SUCCEEDED", "FAILED", "completed", "failed", "cancelled"}
InPipeline(j) == kind[j] \in {"diagnosis", "recovery"}

WJInit ==
  /\ kind \in Kinds
  /\ jrow = [j \in Job |-> IF kind[j] = "diagnosis" THEN "absent" ELSE "queued"]
  /\ wpc = [j \in Job |-> IF kind[j] = "diagnosis" THEN "trigger" ELSE "sent"]
  /\ tries = [j \in Job |-> 0]
  /\ result = [j \in Job |-> "none"]
  /\ rules = {} /\ requests = {} /\ graph = "absent"
  /\ looked = [j \in Job |-> "none"]

Move(j, from, to) == wpc[j] = from /\ wpc' = [wpc EXCEPT ![j] = to]
SetRow(j, s) == jrow' = [jrow EXCEPT ![j] = s]
wdata == <<result, rules, requests, graph>>
-----------------------------------------------------------------------------
(* POST /recovery/trigger                                                  *)

\* The row is committed before the message is sent.
TriggerCommit(j) ==
  /\ Move(j, "trigger", "enqueue") /\ SetRow(j, "QUEUED")
  /\ UNCHANGED <<kind, tries, wdata, looked>>

\* A queue that cannot be reached fails the job.
TriggerEnqueue(j) ==
  /\ \/ Move(j, "enqueue", "sent") /\ UNCHANGED jrow
     \/ Move(j, "enqueue", "end") /\ SetRow(j, "FAILED")
  /\ UNCHANGED <<kind, tries, wdata, looked>>

\* The API dies in between: the row stays queued and nothing is sent.
TriggerCrash(j) ==
  /\ Move(j, "enqueue", "orphan")
  /\ UNCHANGED <<kind, jrow, tries, wdata, looked>>

-----------------------------------------------------------------------------
(* The worker                                                              *)

\* _mark_running, whatever the row says.
JobStart(j) ==
  /\ Move(j, "sent", "work") /\ SetRow(j, Started(j))
  /\ tries' = [tries EXCEPT ![j] = @ + 1]
  /\ result' = [result EXCEPT ![j] = "none"]
  /\ UNCHANGED <<kind, rules, requests, graph, looked>>

\* Before _mark_running, or in it, nothing catches: a payload that does not
\* convert (the trigger does not look at its run_id), a database that does not
\* answer.  So does nothing when marking the row failed raises.  ARQ takes the
\* job for done and the row stays as it was.
HandlerEscapes(j) ==
  /\ \/ Move(j, "sent", "escaped") /\ tries' = [tries EXCEPT ![j] = @ + 1]
     \/ Move(j, "fail", "escaped") /\ UNCHANGED tries
  /\ UNCHANGED <<kind, jrow, wdata, looked>>

\* execute_recovery_loop without a root cause: no candidates, or a diagnosis with
\* too little evidence.
RunPipeline(j) ==
  /\ InPipeline(j) /\ Move(j, "work", "commit")
  /\ \E o \in {"none", "insufficient"} : result' = [result EXCEPT ![j] = o]
  /\ UNCHANGED <<kind, jrow, tries, rules, requests, graph, looked>>

\* A root cause: its quarantine rule is flushed, not yet committed.
ApplyQuarantine(j) ==
  /\ InPipeline(j) /\ Move(j, "work", "validate")
  /\ UNCHANGED <<kind, jrow, tries, wdata, looked>>

\* The canary of async_validate_quarantine fails and the rule is deactivated, or
\* the approval request is flushed beside it.
ValidateQuarantine(j) ==
  /\ Move(j, "validate", "commit")
  /\ \E o \in {"refused", "approval"} : result' = [result EXCEPT ![j] = o]
  /\ UNCHANGED <<kind, jrow, tries, rules, requests, graph, looked>>

\* Mutant of CommitPipeline: a refused quarantine stays active.
CommitUnvalidated(j) ==
  /\ Move(j, "commit", IF kind[j] = "diagnosis" THEN "finish" ELSE "read")
  /\ rules' = rules \cup (IF result[j] \in {"approval", "refused"} THEN {<<j, tries[j]>>} ELSE {})
  /\ requests' = requests \cup (IF result[j] = "approval" THEN {<<j, tries[j]>>} ELSE {})
  /\ UNCHANGED <<kind, jrow, tries, result, graph, looked>>

\* Rule and request are committed together.
CommitPipeline(j) ==
  /\ Move(j, "commit", IF kind[j] = "diagnosis" THEN "finish" ELSE "read")
  /\ IF result[j] = "approval"
       THEN rules' = rules \cup {<<j, tries[j]>>} /\ requests' = requests \cup {<<j, tries[j]>>}
       ELSE UNCHANGED <<rules, requests>>
  /\ UNCHANGED <<kind, jrow, tries, result, graph, looked>>

\* The graph of the trace is looked up by its hash; a hit builds nothing.
LookupGraph(j) ==
  /\ kind[j] = "graph"
  /\ Move(j, "work", IF graph = "present" THEN "read" ELSE "insert")
  /\ UNCHANGED <<kind, jrow, tries, wdata, looked>>

\* The insert waits for another job's insert of the same hash, and fails when
\* that one is committed.
InsertGraph(j) ==
  /\ graph \in {"absent", "present"}
  /\ \/ graph = "present" /\ Move(j, "insert", "fail") /\ UNCHANGED graph
     \/ graph = "absent" /\ Move(j, "insert", "commit graph") /\ graph' = j
  /\ UNCHANGED <<kind, jrow, tries, result, rules, requests, looked>>

CommitGraph(j) ==
  /\ Move(j, "commit graph", "read") /\ graph' = "present"
  /\ UNCHANGED <<kind, jrow, tries, result, rules, requests, looked>>

\* The board's session writes nothing.  The job's result names the candidate with
\* the highest posterior whatever that is, without generate_diagnosis and its
\* threshold; only a session without candidates is insufficient.
RunBoard(j) ==
  /\ kind[j] = "bcrb" /\ Move(j, "work", "read")
  /\ \E o \in {"insufficient", "named"} : result' = [result EXCEPT ![j] = o]
  /\ UNCHANGED <<kind, jrow, tries, rules, requests, graph, looked>>

\* _mark_completed reads the row; a cancelled one is left alone.
ReadJob(j) ==
  /\ Move(j, "read", IF jrow[j] = "cancelled" THEN "end" ELSE "finish")
  /\ looked' = [looked EXCEPT ![j] = jrow[j]]
  /\ UNCHANGED <<kind, jrow, tries, wdata>>

FinishJob(j) ==
  /\ Move(j, "finish", "end") /\ SetRow(j, Done(j))
  /\ UNCHANGED <<kind, tries, wdata, looked>>

\* _mark_failed, whatever the row says.
FailJob(j) ==
  /\ Move(j, "fail", "end") /\ SetRow(j, Failed(j))
  /\ UNCHANGED <<kind, tries, wdata, looked>>

-----------------------------------------------------------------------------
AtWork(j) ==
  wpc[j] \in {"work", "validate", "commit", "insert", "commit graph", "read", "finish", "fail"}
ReleaseGraph(j) == graph' = IF graph = j THEN "absent" ELSE graph

\* The run is missing or another tenant's, the trace is missing, the pipeline,
\* the builder or the board raises, or the database does: whatever step of the
\* try block it is, its transaction is rolled back.
WorkRaises(j) ==
  /\ AtWork(j) /\ wpc[j] # "fail"
  /\ wpc' = [wpc EXCEPT ![j] = "fail"]
  /\ ReleaseGraph(j)
  /\ UNCHANGED <<kind, jrow, tries, result, rules, requests, looked>>

\* The process dies: its transaction is rolled back, the message comes again.
WorkerCrash(j) ==
  /\ AtWork(j)
  /\ wpc' = [wpc EXCEPT ![j] = IF tries[j] < MaxDeliveries THEN "sent" ELSE "dead"]
  /\ ReleaseGraph(j)
  /\ UNCHANGED <<kind, jrow, tries, result, rules, requests, looked>>

\* job_timeout: CancelledError is no Exception, so no except block runs.
WorkerTimeout(j) ==
  /\ AtWork(j)
  /\ wpc' = [wpc EXCEPT ![j] = "dead"]
  /\ ReleaseGraph(j)
  /\ UNCHANGED <<kind, jrow, tries, result, rules, requests, looked>>

\* cancel_job's UPDATE of the row, whatever it says: what cancel_job asks is its own
\* process's handle.
CancelRow(j) ==
  /\ kind[j] # "diagnosis" /\ SetRow(j, "cancelled")
  /\ UNCHANGED <<kind, wpc, tries, wdata, looked>>

WorkerStep(j) ==
  \/ TriggerEnqueue(j) \/ JobStart(j) \/ RunPipeline(j) \/ ApplyQuarantine(j)
  \/ ValidateQuarantine(j) \/ CommitPipeline(j)
  \/ LookupGraph(j) \/ InsertGraph(j) \/ CommitGraph(j) \/ RunBoard(j)
  \/ ReadJob(j) \/ FinishJob(j) \/ FailJob(j)

WJNext ==
  \E j \in Job :
    \/ TriggerCommit(j) \/ TriggerCrash(j) \/ WorkerStep(j) \/ WorkRaises(j) \/ HandlerEscapes(j)
    \/ WorkerCrash(j) \/ WorkerTimeout(j) \/ CancelRow(j)

\* Workers take messages and run their handlers.
WJSpec == WJInit /\ [][WJNext]_wvars /\ \A j \in Job : WF_wvars(WorkerStep(j))
-----------------------------------------------------------------------------
\* Every variable keeps its type: rows, handlers, executions.
WJTypeOK ==
  /\ jrow \in [Job -> JobEnded \cup {"absent", "queued", "running", "QUEUED", "RUNNING"}]
  /\ tries \in [Job -> 0 .. MaxDeliveries]
  /\ result \in [Job -> Outcome]
  /\ rules \subseteq Job \X (1 .. MaxDeliveries)
  /\ requests \subseteq Job \X (1 .. MaxDeliveries)
  /\ graph \in Job \cup {"absent", "present"}
  /\ looked \in [Job -> JobEnded \cup {"none", "running", "queued"}]

\* A component is only quarantined durably together with a request a human can
\* decide (recovery_pipeline.py:87 to :169, isolator.py:36): neither a failed
\* validation nor a crash or a redelivery leaves an active rule alone.
QuarantineIsAnswerable == rules \subseteq requests

\* A job that ended well did its work: the graph is there (worker.py:742), the
\* pipeline's transaction was committed before the row said so (worker.py:221).
CompletedDidWork ==
  \A j \in Job : jrow[j] = Done(j) /\ wpc[j] = "end" =>
    /\ kind[j] = "graph" => graph = "present"
    /\ InPipeline(j) /\ result[j] = "approval" => <<j, tries[j]>> \in requests

\* What may become of a row that says cancelled.  A delivery that starts writes
\* running over it and one that fails writes failed, both without looking
\* (_mark_running, worker.py:145; _mark_failed, :168); completed is written only
\* when the cancellation came in the gap between _mark_completed's read and its
\* commit (:157), never over one that was read.
CancelOvertaken ==
  [][\A j \in Job : jrow[j] = "cancelled" /\ jrow'[j] # "cancelled" =>
       \/ jrow'[j] = "running" /\ wpc[j] = "sent"
       \/ jrow'[j] = "failed" /\ wpc[j] = "fail"
       \/ jrow'[j] = "completed" /\ wpc[j] = "finish" /\ looked[j] # "cancelled"]_wvars

\* A handler that ended left its row final, and so did the trigger that could not
\* send it.  A handler that escaped did not: its row says queued or running until
\* somebody cancels the job, and a diagnosis, which nobody can cancel, for ever
\* (worker.py:200, :679, :824, :972).
EndedIsFinal == \A j \in Job : wpc[j] = "end" => jrow[j] \in JobEnded

\* Every queued job ended, or its handler raised where nothing catches, its worker
\* timed out or died for good, or the API died before it sent it.
JobsSettled == \A j \in Job : wpc[j] \in {"end", "escaped", "dead", "orphan", "trigger"}

=============================================================================
