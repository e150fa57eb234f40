----------------------------- MODULE AorScheduler -----------------------------
(***************************************************************************)
(* The dependency scheduler of packages/replay/src/aor_scheduler.py. run() *)
(* holds the scheduler's lock while it looks for completion and submits    *)
(* ready tasks, and gives it up while it waits; the threads of two pools   *)
(* take it to record an outcome.  A failed task is diagnosed in the second *)
(* pool before it counts as failed.                                        *)
(***************************************************************************)
EXTENDS Naturals, Sequences, FiniteSets

CONSTANTS
  Task,          \* task ids
  Orders,        \* the sequences in which tasks are added before run()
  Dependencies,  \* Task -> its dependencies, in their order
  MaxWorkers,    \* threads of the first pool
  MaxDiagnostics \* threads of the second one

ASSUME SchedulerAssumption ==
  /\ MaxWorkers \in Nat \ {0} /\ MaxDiagnostics \in Nat \ {0}
  /\ Orders \subseteq Seq(Task) /\ Dependencies \subseteq [Task -> Seq(Task)]

VARIABLES
  order,     \* the ids in self.tasks, in their order
  needs,     \* task.dependencies
  taskStatus,\* task.status
  thread,    \* where the task's job is in the two pools
  mainPc,    \* run(): "loop", "waiting", "returned"
  known      \* the dependencies that self.tasks held when a task was submitted

sched == <<order, needs, taskStatus, thread, mainPc, known>>

Added == {order[i] : i \in DOMAIN order}
Broken == {"FAILED", "BLOCKED", "DIAGNOSING"}
Unsettled == {"PENDING", "RUNNING", "DIAGNOSING"}

SchedInit ==
  /\ order \in Orders /\ needs \in Dependencies
  /\ taskStatus = [t \in Task |-> "PENDING"] /\ thread = [t \in Task |-> "none"]
  /\ mainPc = "loop" /\ known = [t \in Task |-> {}]

\* add_task while run() waits: a dependency may arrive after its dependent.
AddTask ==
  /\ mainPc = "waiting"
  /\ \E t \in Task \ Added : order' = Append(order, t)
  /\ UNCHANGED <<needs, taskStatus, thread, mainPc, known>>

-----------------------------------------------------------------------------
\* Of a pending task's dependencies, those the scheduler has: a missing one
\* counts as satisfied.
Known(t) == {needs[t][i] : i \in DOMAIN needs[t]} \cap Added

\* The first dependency that has not completed decides: it blocks the task or
\* lets it wait.
Open(st, t) == {i \in DOMAIN needs[t] : needs[t][i] \in Added /\ st[needs[t][i]] # "COMPLETED"}
CanRun(st, t) == st[t] = "PENDING" /\ Open(st, t) = {}

\* Mutant of Blocks: a dependency under diagnosis or blocked itself lets wait.
BlocksNot(st, t) ==
  \E i \in Open(st, t) : (\A j \in Open(st, t) : i <= j) /\ st[needs[t][i]] = "FAILED"

Blocks(st, t) ==
  \E i \in Open(st, t) : (\A j \in Open(st, t) : i <= j) /\ st[needs[t][i]] \in Broken

\* _get_ready_tasks goes through the tasks in their order and marks as BLOCKED
\* on the way; what it finds ready stays PENDING until the pass is over.
Mark(st, t) == IF st[t] = "PENDING" /\ Blocks(st, t) THEN [st EXCEPT ![t] = "BLOCKED"] ELSE st
Pass ==
  LET after[i \in 0 .. Len(order)] == IF i = 0 THEN taskStatus ELSE Mark(after[i - 1], order[i])
  IN after[Len(order)]
Ready == {t \in Added : CanRun(taskStatus, t)}

AllDone == \A t \in Added : taskStatus[t] \notin Unsettled

\* One turn of run()'s loop.
LoopReturns ==
  /\ mainPc = "loop" /\ AllDone /\ mainPc' = "returned"
  /\ UNCHANGED <<order, needs, taskStatus, thread, known>>

\* Mutant of LoopSubmits: what depends on a running task is submitted with it.
LoopSubmitsEarly ==
  LET go == {t \in Added : taskStatus[t] = "PENDING" /\ \A d \in Known(t) : taskStatus[d] \in {"COMPLETED", "RUNNING"}} IN
  /\ mainPc = "loop" /\ ~AllDone /\ mainPc' = "waiting"
  /\ taskStatus' = [t \in Task |-> IF t \in go THEN "RUNNING" ELSE Pass[t]]
  /\ thread' = [t \in Task |-> IF t \in go THEN "queued" ELSE thread[t]]
  /\ known' = [t \in Task |-> IF t \in go THEN Known(t) ELSE known[t]]
  /\ UNCHANGED <<order, needs>>

LoopSubmits ==
  /\ mainPc = "loop" /\ ~AllDone /\ mainPc' = "waiting"
  /\ taskStatus' = [t \in Task |-> IF t \in Ready THEN "RUNNING" ELSE Pass[t]]
  /\ thread' = [t \in Task |-> IF t \in Ready THEN "queued" ELSE thread[t]]
  /\ known' = [t \in Task |-> IF t \in Ready THEN Known(t) ELSE known[t]]
  /\ UNCHANGED <<order, needs>>

\* A notification, or the tenth of a second, ends the wait.
LoopWakes ==
  /\ mainPc = "waiting" /\ mainPc' = "loop"
  /\ UNCHANGED <<order, needs, taskStatus, thread, known>>
-----------------------------------------------------------------------------
(* The pools                                                               *)
In(places) == {t \in Task : thread[t] \in places}
ToThread(t, place) == thread' = [thread EXCEPT ![t] = place]

\* A thread has the task until the outcome is recorded.
Busy == {"executing", "returned", "raised"}

TaskBegins(t) ==
  /\ thread[t] = "queued" /\ Cardinality(In(Busy)) < MaxWorkers
  /\ ToThread(t, "executing") /\ UNCHANGED <<order, needs, taskStatus, mainPc, known>>

\* The caller's function comes back, or raises; nothing bounds its time.
FunctionEnds(t) ==
  /\ thread[t] = "executing" /\ \E place \in {"returned", "raised"} : ToThread(t, place)
  /\ UNCHANGED <<order, needs, taskStatus, mainPc, known>>

\* Recording needs the lock, which run() holds outside its wait.
LockFree == mainPc # "loop"

TaskCompletes(t) ==
  /\ thread[t] = "returned" /\ LockFree
  /\ taskStatus' = [taskStatus EXCEPT ![t] = "COMPLETED"] /\ ToThread(t, "none")
  /\ UNCHANGED <<order, needs, mainPc, known>>

TaskFails(t) ==
  /\ thread[t] = "raised" /\ LockFree
  /\ taskStatus' = [taskStatus EXCEPT ![t] = "DIAGNOSING"] /\ ToThread(t, "diag queued")
  /\ UNCHANGED <<order, needs, mainPc, known>>

\* What is no Exception (a SystemExit of the function) is kept by the future
\* that nobody reads: the task stays RUNNING.
TaskExits(t) ==
  /\ thread[t] = "executing" /\ ToThread(t, "lost")
  /\ UNCHANGED <<order, needs, taskStatus, mainPc, known>>

DiagnosisBegins(t) ==
  /\ thread[t] = "diag queued" /\ Cardinality(In({"diagnosing"})) < MaxDiagnostics
  /\ ToThread(t, "diagnosing") /\ UNCHANGED <<order, needs, taskStatus, mainPc, known>>

\* With a result or an error, within the sandbox's budget: the task failed.
DiagnosisEnds(t) ==
  /\ thread[t] = "diagnosing" /\ LockFree
  /\ taskStatus' = [taskStatus EXCEPT ![t] = "FAILED"] /\ ToThread(t, "none")
  /\ UNCHANGED <<order, needs, mainPc, known>>

PoolStep(t) ==
  TaskBegins(t) \/ TaskCompletes(t) \/ TaskFails(t) \/ DiagnosisBegins(t) \/ DiagnosisEnds(t)
LoopStep == LoopReturns \/ LoopSubmits \/ LoopWakes
SchedNext == LoopStep \/ AddTask \/ \E t \in Task : PoolStep(t) \/ FunctionEnds(t) \/ TaskExits(t)

\* The threads run. A pool thread's wait for the lock is strongly fair: run()
\* gives the lock up in every turn of its loop. A task's function owes nothing.
SchedSpec ==
  /\ SchedInit /\ [][SchedNext]_sched /\ WF_sched(LoopStep)
  /\ \A t \in Task : SF_sched(PoolStep(t))
-----------------------------------------------------------------------------
\* No more than its threads work in a pool; statuses and places fit each other.
SchedTypeOK ==
  /\ Cardinality(In(Busy)) <= MaxWorkers /\ Cardinality(In({"diagnosing"})) <= MaxDiagnostics
  /\ mainPc \in {"loop", "waiting", "returned"}
  /\ \A t \in Task :
       /\ taskStatus[t] \in Unsettled \cup {"COMPLETED", "FAILED", "BLOCKED"}
       /\ thread[t] \in {"queued", "lost"} \cup Busy <=> taskStatus[t] = "RUNNING"

\* A task runs only after every dependency the scheduler knew of had completed:
\* no dependent of a task that fails, is blocked or is being diagnosed ever runs.
RunsAfterDependencies ==
  \A t \in Added : taskStatus[t] \notin {"PENDING", "BLOCKED"} =>
    \A d \in known[t] : taskStatus[d] = "COMPLETED"

\* A task is blocked for a reason, and run() returns with a task unfinished
\* only when it failed, was blocked, or nobody had added it.
BlockedForAReason ==
  /\ \A t \in Added : taskStatus[t] = "BLOCKED" => \E d \in Known(t) : taskStatus[d] \in Broken
  /\ mainPc = "returned" => \A t \in Added : taskStatus[t] \in {"COMPLETED", "FAILED", "BLOCKED"}

\* A cycle among the dependencies that were added, which keeps its tasks pending.
Cyclic == \E C \in SUBSET Added : C # {} /\ \A t \in C : Known(t) \cap C # {}

\* run() returned, or the dependencies are cyclic, or a task's function has not
\* come back (aor_scheduler.py:79, called without a timeout) or left with something
\* that is no Exception (aor_scheduler.py:84).
RunReturned == mainPc = "returned" \/ Cyclic \/ In({"executing", "lost"}) # {}

\* run (aor_scheduler.py): nothing runs before its dependencies, and nothing is
\* left undone without a reason.
ScheduleIsRespected == SchedTypeOK /\ RunsAfterDependencies /\ BlockedForAReason
=============================================================================
