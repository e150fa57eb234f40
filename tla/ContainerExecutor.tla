--------------------------- MODULE ContainerExecutor ---------------------------
(***************************************************************************)
(* ContainerReplayExecutor.execute (packages/replay/src/executor.py:83): a *)
(* function is pickled into an exchange directory, a container runs it and *)
(* writes result.json there, and the executor polls the container, kills   *)
(* it after the budget, removes it and reads the file.  The container runs *)
(* on its own; every call to the docker daemon may fail; the task that     *)
(* awaits execute may be cancelled at its only await, the sleep of the     *)
(* poll.                                                                   *)
(***************************************************************************)
EXTENDS Naturals

VARIABLES
  cpc,        \* where execute is
  exchange,   \* the directory: "none", "there", "removed"
  box,        \* the container: "none", "running", "exited", "removed"
  program,    \* what runner.py does in it: "func", "writing", "rewriting", "done"
  file,       \* result.json: "none", "partial", "success", "error"
  expired,    \* the budget is used up
  failure,    \* error_msg: "none" or its kind
  marks,      \* "kill", and the calls that failed: "run", "stop", "remove", "rmtree"
  payload     \* result.payload was set

cvars == <<cpc, exchange, box, program, file, expired, failure, marks, payload>>
disk == <<exchange, file>>
container == <<box, program>>
verdict == <<failure, marks, payload>>

CInit ==
  /\ cpc = "pickle" /\ exchange = "none" /\ box = "none" /\ program = "func" /\ file = "none"
  /\ expired = FALSE /\ failure = "none" /\ marks = {} /\ payload = FALSE

Over == {"returned", "raised", "cancelled"}
-----------------------------------------------------------------------------
(* execute                                                                 *)

\* Without docker it raises; a request of more than 5 MB is answered at once.
Pickle ==
  /\ cpc = "pickle"
  /\ \/ cpc' = "raised" /\ UNCHANGED failure
     \/ cpc' = "returned" /\ failure' = "too large"
     \/ cpc' = "prepare" /\ UNCHANGED failure
  /\ UNCHANGED <<disk, container, expired, marks, payload>>

\* mkdtemp, payload and script; a write that fails leaves the directory.
Prepare ==
  /\ cpc = "prepare" /\ exchange' = "there"
  /\ cpc' \in {"run", "raised"} /\ UNCHANGED <<file, container, expired, verdict>>

\* containers.run creates and starts; a start that fails leaves a container
\* nobody holds a reference to.
RunContainer ==
  /\ cpc = "run"
  /\ \/ cpc' = "poll" /\ box' = "running" /\ UNCHANGED <<failure, marks>>
     \/ /\ cpc' = "collect" /\ failure' = "ContainerError"
        /\ \/ UNCHANGED <<box, marks>>
           \/ box' = "exited" /\ marks' = marks \cup {"run"}
  /\ UNCHANGED <<disk, program, expired, payload>>

\* One turn of the poll: reload may fail; an exited container ends it, then the
\* budget does, with a kill that fails when the container has just exited.
PollExited ==
  /\ cpc = "poll" /\ box = "exited" /\ cpc' = "stop" /\ UNCHANGED <<disk, container, expired, verdict>>
PollFails ==
  /\ cpc = "poll" /\ cpc' = "stop" /\ failure' = "ContainerError"
  /\ UNCHANGED <<disk, container, expired, marks, payload>>

PollExpired ==
  /\ cpc = "poll" /\ box = "running" /\ expired /\ cpc' = "kill"
  /\ UNCHANGED <<disk, container, expired, verdict>>

KillContainer ==
  /\ cpc = "kill" /\ cpc' = "stop"
  /\ IF box = "running"
       THEN box' = "exited" /\ failure' = "TimeoutError" /\ marks' = marks \cup {"kill"}
       ELSE UNCHANGED <<box, marks>> /\ failure' = "ContainerError"
  /\ UNCHANGED <<disk, program, expired, payload>>
PollSleeps ==
  /\ cpc = "poll" /\ box = "running" /\ ~expired /\ cpc' = "sleep"
  /\ UNCHANGED <<disk, container, expired, verdict>>
Wake ==
  /\ cpc = "sleep" /\ cpc' = "poll" /\ UNCHANGED <<disk, container, expired, verdict>>

\* CancelledError at the sleep: the finally runs, what follows does not.
CancelExecute ==
  /\ cpc = "sleep" /\ cpc' = "stop cancelled" /\ UNCHANGED <<disk, container, expired, verdict>>

\* The finally: stop, then remove. An error of either is swallowed, and that of
\* stop skips remove.
AfterStop(l) == IF l = "stop" THEN "collect" ELSE "cancelled"

\* Mutant of StopContainer: stopped, and left to the daemon to remove.
StopContainerOnly ==
  /\ cpc \in {"stop", "stop cancelled"} /\ cpc' = AfterStop(cpc) /\ box' = "exited"
  /\ UNCHANGED <<disk, program, expired, failure, marks, payload>>

StopContainer ==
  /\ cpc \in {"stop", "stop cancelled"} /\ cpc' = AfterStop(cpc)
  /\ \/ box' = "removed" /\ UNCHANGED marks
     \/ UNCHANGED box /\ marks' = marks \cup {"stop"}
     \/ box' = "exited" /\ marks' = marks \cup {"remove"}
  /\ UNCHANGED <<disk, program, expired, failure, payload>>

\* result.json is read only without an error so far, as bounded JSON.
Collect ==
  /\ cpc = "collect" /\ cpc' = "cleanup"
  /\ IF failure # "none" THEN UNCHANGED <<failure, payload>>
     ELSE /\ payload' = (file = "success")
          /\ failure' = CASE file = "success" -> "none" [] file = "error" -> "reported"
                          [] file = "partial" -> "undecodable" [] OTHER -> "no result"
  /\ UNCHANGED <<disk, container, expired, marks>>

\* rmtree, errors ignored (the container's user may own files).
Cleanup ==
  /\ cpc = "cleanup" /\ cpc' = "returned"
  /\ \/ exchange' = "removed" /\ UNCHANGED marks
     \/ UNCHANGED exchange /\ marks' = marks \cup {"rmtree"}
  /\ UNCHANGED <<file, container, expired, failure, payload>>
-----------------------------------------------------------------------------
(* The container, while nobody stopped it                                  *)
Program(p) == box = "running" /\ program' = p /\ UNCHANGED <<cpc, exchange, expired, verdict>>

\* The function returns or raises; the file is written in chunks; a value that
\* is too large or cannot be encoded is replaced by an error, which may fail too.
FuncEnds ==
  /\ program = "func" /\ \E p \in {"writing", "rewriting"} : Program(p)
  /\ file' = "partial" /\ UNCHANGED box
WriteEnds ==
  /\ program = "writing" /\ UNCHANGED box
  /\ \/ Program("done") /\ file' = "success"
     \/ Program("rewriting") /\ file' = "partial"
RewriteEnds ==
  /\ program = "rewriting" /\ Program("done") /\ file' \in {"error", "partial"} /\ UNCHANGED box
\* The process ends: when the program is done, or the memory limit kills it.
BoxExits ==
  /\ box = "running" /\ box' = "exited"
  /\ UNCHANGED <<cpc, disk, program, expired, verdict>>

BudgetExpires == ~expired /\ cpc \notin Over /\ expired' = TRUE /\ UNCHANGED <<cpc, disk, container, verdict>>
-----------------------------------------------------------------------------
ExecuteStep ==
  \/ Pickle \/ Prepare \/ RunContainer \/ PollExited \/ PollFails \/ PollExpired \/ PollSleeps
  \/ Wake \/ KillContainer \/ StopContainer \/ Collect \/ Cleanup
CNext ==
  ExecuteStep \/ CancelExecute \/ FuncEnds \/ WriteEnds \/ RewriteEnds \/ BoxExits \/ BudgetExpires

\* The event loop runs execute, the daemon answers, and time passes; the
\* container promises nothing.
CSpec == CInit /\ [][CNext]_cvars /\ WF_cvars(ExecuteStep) /\ WF_cvars(BudgetExpires)
-----------------------------------------------------------------------------
\* A payload comes with no error; the directory is there while it is needed.
CTypeOK ==
  /\ payload => failure = "none"
  /\ cpc \in {"run", "poll", "sleep", "kill", "stop", "collect", "cleanup"} => exchange = "there"
  /\ file # "none" => box # "none"

\* A result without an error is the complete answer of a program that ran to its
\* end in a container nobody killed.
SuccessIsWhole ==
  (cpc = "returned" /\ failure = "none") =>
    payload /\ program = "done" /\ file = "success" /\ "kill" \notin marks

\* When execute is over, no container is left unless a call to the daemon
\* failed, and no directory unless rmtree failed, the call raised while it
\* prepared, or it was cancelled (executor.py:228, :277: the directory's cleanup
\* is outside the finally).
NothingIsLeft ==
  /\ cpc \in Over => box \in {"none", "removed"} \/ marks \cap {"run", "stop", "remove"} # {}
  /\ (cpc = "returned" /\ exchange = "there") => "rmtree" \in marks

\* execute ended.
ExecuteEnded == cpc \in Over
=============================================================================
