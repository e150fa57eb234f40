---------------------------- MODULE JobOrchestrator ----------------------------
(***************************************************************************)
(* The job orchestrator of the API (apps/api/src/jobs/orchestrator.py): a  *)
(* submitted job is a task of the event loop with a handle in memory and a *)
(* row in background_jobs, and cancel_job runs beside it.  Both yield to   *)
(* each other at every await, so an action ends where the code awaits.     *)
(* task.cancel() makes the await the task is in raise CancelledError.      *)
(*                                                                         *)
(* Outside the test environment the task only puts the job on the ARQ      *)
(* queue (generic_job_runner): no row is written and the handle is left    *)
(* queued.                                                                 *)
(***************************************************************************)
EXTENDS Naturals

CONSTANT Canceller   \* calls of cancel_job

VARIABLES
  arq,        \* whether jobs go to ARQ: settings.environment is not "test"
  tenantOk,   \* cancellers of the job's own tenant
  handle,     \* _JobHandle.status
  row,        \* BackgroundJobORM.status, "absent" before the insert
  task,       \* the await the task is in
  interrupt,  \* task.cancel() was called and the task has not run since
  cancel,     \* the progress of each cancel_job
  queued,     \* the job is on the ARQ queue
  dbFailed,   \* a statement of the job's task or of a canceller failed
  cutShort,   \* a cancellation found no row yet, or ended the task unhandled
  early       \* a cancellation was accepted before the task's first step

jvars == <<arq, tenantOk, handle, row, task, interrupt, cancel, queued, dbFailed, cutShort, early>>
env == <<arq, tenantOk>>

HandleFinal == {"completed", "failed", "cancelled"}

\* submit_job: the handle, then create_task.
JInit ==
  /\ arq \in BOOLEAN
  /\ tenantOk \in SUBSET Canceller
  /\ handle = "queued" /\ row = "absent"
  /\ task = "created" /\ interrupt = FALSE
  /\ cancel = [c \in Canceller |-> "idle"]
  /\ queued = FALSE /\ dbFailed = FALSE /\ cutShort = FALSE
  /\ early = FALSE

Running(s) == task = s /\ ~interrupt
-----------------------------------------------------------------------------
(* run_pipeline                                                            *)

StartTask ==
  /\ ~arq /\ Running("created")
  /\ handle' = "running" /\ task' = "insert"
  /\ UNCHANGED <<env, row, interrupt, cancel, queued, dbFailed, cutShort, early>>

\* The row is inserted as running; a failure is only logged.
InsertRow ==
  /\ Running("insert")
  /\ \/ row' = "running" /\ UNCHANGED dbFailed
     \/ UNCHANGED row /\ dbFailed' = TRUE
  /\ task' = "coro"
  /\ UNCHANGED <<env, handle, interrupt, cancel, queued, cutShort, early>>

\* The coroutine returns: a handle that was cancelled meanwhile is left alone.
CoroReturns ==
  /\ Running("coro")
  /\ IF handle # "cancelled"
       THEN handle' = "completed" /\ task' = "complete"
       ELSE task' = "done" /\ UNCHANGED handle
  /\ UNCHANGED <<env, row, interrupt, cancel, queued, dbFailed, cutShort, early>>

CoroRaises ==
  /\ Running("coro")
  /\ handle' = "failed" /\ task' = "fail"
  /\ UNCHANGED <<env, row, interrupt, cancel, queued, dbFailed, cutShort, early>>

\* The row is read; one that is absent or cancelled is left alone.
ReadRow ==
  /\ Running("complete")
  /\ \/ task' = (IF row \in {"absent", "cancelled"} THEN "done" ELSE "commit") /\ UNCHANGED dbFailed
     \/ task' = "done" /\ dbFailed' = TRUE
  /\ UNCHANGED <<env, handle, row, interrupt, cancel, queued, cutShort, early>>

PersistCompleted ==
  /\ Running("commit")
  /\ \/ row' = "completed" /\ UNCHANGED dbFailed
     \/ UNCHANGED row /\ dbFailed' = TRUE
  /\ task' = "done"
  /\ UNCHANGED <<env, handle, interrupt, cancel, queued, cutShort, early>>

PersistFailed ==
  /\ Running("fail")
  /\ \/ row' = (IF row = "absent" THEN row ELSE "failed") /\ UNCHANGED dbFailed
     \/ UNCHANGED row /\ dbFailed' = TRUE
  /\ task' = "done"
  /\ UNCHANGED <<env, handle, interrupt, cancel, queued, cutShort, early>>

\* CancelledError: in the coroutine, and while its completion is persisted, it is
\* handled; before the task's first step the task never runs; in the insert it
\* escapes run_pipeline; while a failure or a cancellation is persisted it ends the
\* task.  A statement it met may or may not have been committed.
Interrupted ==
  /\ interrupt /\ task # "done"
  /\ interrupt' = FALSE
  /\ \/ /\ task \in {"coro", "complete", "commit"}
        /\ task' = "cancelled" /\ handle' = "cancelled"
        /\ row' \in IF task = "commit" THEN {row, "completed"} ELSE {row}
        /\ UNCHANGED cutShort
     \/ /\ task \in {"created", "insert", "fail", "cancelled"}
        /\ task' = "done" /\ cutShort' = TRUE
        /\ row' \in CASE task = "insert" -> {row, "running"}
                      [] task = "fail" /\ row # "absent" -> {row, "failed"}
                      [] task = "cancelled" /\ row # "absent" -> {row, "cancelled"}
                      [] OTHER -> {row}
        /\ UNCHANGED handle
  /\ UNCHANGED <<env, cancel, queued, dbFailed, early>>

PersistCancelled ==
  /\ Running("cancelled")
  /\ \/ row' = (IF row = "absent" THEN row ELSE "cancelled") /\ UNCHANGED dbFailed
     \/ UNCHANGED row /\ dbFailed' = TRUE
  /\ task' = "done"
  /\ UNCHANGED <<env, handle, interrupt, cancel, queued, cutShort, early>>

\* enqueue_to_arq
EnqueueJob ==
  /\ arq /\ Running("created")
  /\ queued' \in BOOLEAN /\ task' = "done"
  /\ UNCHANGED <<env, handle, row, interrupt, cancel, dbFailed, cutShort, early>>

-----------------------------------------------------------------------------
(* cancel_job                                                              *)

CancelStart(c) ==
  /\ cancel[c] = "idle"
  /\ IF c \notin tenantOk \/ handle \in HandleFinal
       THEN cancel' = [cancel EXCEPT ![c] = "refused"] /\ UNCHANGED handle
       ELSE cancel' = [cancel EXCEPT ![c] = "update"] /\ handle' = "cancelled"
  /\ early' = (early \/ (task = "created" /\ handle' = "cancelled"))
  /\ UNCHANGED <<env, row, task, interrupt, queued, dbFailed, cutShort>>

CancelUpdate(c) ==
  /\ cancel[c] = "update"
  /\ \/ row' = (IF row = "absent" THEN row ELSE "cancelled") /\ UNCHANGED dbFailed
     \/ UNCHANGED row /\ dbFailed' = TRUE
  /\ cancel' = [cancel EXCEPT ![c] = "interrupt"]
  /\ cutShort' = (cutShort \/ row = "absent")
  /\ UNCHANGED <<env, handle, task, interrupt, queued, early>>

CancelTask(c) ==
  /\ cancel[c] = "interrupt"
  /\ interrupt' = (task # "done")
  /\ cancel' = [cancel EXCEPT ![c] = "accepted"]
  /\ UNCHANGED <<env, handle, row, task, queued, dbFailed, cutShort, early>>

TaskStep ==
  \/ StartTask \/ InsertRow \/ ReadRow \/ PersistCompleted \/ PersistFailed \/ Interrupted
  \/ PersistCancelled \/ EnqueueJob
CancelStep(c) == CancelUpdate(c) \/ CancelTask(c)

JNext ==
  \/ TaskStep \/ CoroReturns \/ CoroRaises
  \/ \E c \in Canceller : CancelStart(c) \/ CancelStep(c)

\* The event loop resumes whoever is ready.  The job's own coroutine may run for
\* ever, and nobody has to cancel it.
JSpec ==
  /\ JInit /\ [][JNext]_jvars
  /\ WF_jvars(TaskStep)
  /\ \A c \in Canceller : WF_jvars(CancelStep(c))
-----------------------------------------------------------------------------
\* Every variable keeps its type: statuses, awaits and cancellers.
JTypeOK ==
  /\ handle \in HandleFinal \cup {"queued", "running"}
  /\ row \in HandleFinal \cup {"absent", "running"}
  /\ task \in {"created", "insert", "coro", "complete", "commit", "fail", "cancelled", "done"}
  /\ cancel \in [Canceller -> {"idle", "refused", "update", "interrupt", "accepted"}]
  /\ interrupt \in BOOLEAN /\ queued \in BOOLEAN /\ dbFailed \in BOOLEAN /\ cutShort \in BOOLEAN /\ early \in BOOLEAN

Accepts(c) == cancel[c] \in {"update", "interrupt", "accepted"}
Accepted == \E c \in Canceller : Accepts(c)

\* A job whose cancellation was accepted is never shown as completed, neither in
\* memory nor in its row, whatever await the cancellation met
\* (orchestrator.py:114 and :122); that it failed may be shown.  A cancellation
\* before the task's first step is the exception: the task then sets the handle
\* to running again (orchestrator.py:91).
CancelledNeverCompletes == Accepted /\ ~early => handle # "completed" /\ row # "completed"

\* At most one cancellation of a started job is accepted (orchestrator.py:239):
\* the second finds the handle cancelled before the first has written anything.
OneCancelAccepted ==
  \A c, d \in Canceller : Accepts(c) /\ Accepts(d) /\ ~early => c = d

\* When everything is at rest, no statement failed and no cancellation came
\* before the row or cut the task short, memory and row agree on whether the job
\* completed, and the row is final (orchestrator.py:97 to :161).
RestAgrees ==
  /\ ~arq /\ task = "done" /\ ~dbFailed /\ ~cutShort /\ ~early
  /\ \A c \in Canceller : cancel[c] \notin {"update", "interrupt"}
  => row \in HandleFinal /\ (row = "completed" <=> handle = "completed")

\* If a cancellation was accepted, the task has ended (orchestrator.py:264).
CancelHasStopped == Accepted => task = "done"

=============================================================================
