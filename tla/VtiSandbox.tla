------------------------------ MODULE VtiSandbox ------------------------------
(***************************************************************************)
(* The sandboxed worker and the two-phase coordinator of its effects       *)
(* (packages/replay/src/sandbox.py, arc_isolator.py, vti_coordinator.py,   *)
(* the LocalDevExecutor of executor.py, packages/diffusion/src/            *)
(* clearance.py).  An audit hook blocks the effects of the function that a *)
(* child process runs and stages some of them; the parent hands the staged *)
(* ones to the coordinator, and an oracle commits or rolls back a trace.   *)
(*                                                                         *)
(* Workers and oracles are threads of one process that share the           *)
(* coordinator's dictionary without a lock.                                *)
(***************************************************************************)
EXTENDS Naturals, FiniteSets

CONSTANTS
  Worker,     \* calls of SandboxedWorker.run
  Oracle,     \* calls of evaluate_trajectory
  Trace,      \* traces
  TraceOf,    \* the traces the calls name, as assignments Worker \cup Oracle -> Trace
  Arc,        \* the workers that run with the ARC isolator
  MaxStaged   \* effects a function attempts

ASSUME SandboxAssumption ==
  /\ MaxStaged \in Nat \ {0} /\ IsFiniteSet(Worker) /\ Arc \subseteq Worker
  /\ TraceOf \subseteq [Worker \cup Oracle -> Trace]

Effect == {"network", "shell", "spawn", "write outside", "read outside", "kill"}

VARIABLES
  of,        \* the trace of every call
  spc,       \* where each worker is
  staged,    \* actions its child staged
  sent,      \* actions its parent handed over
  call,      \* where its call of stage_action is: "none", "create", "append"
  sink,      \* actions the isolator diverted, in the child's memory
  escrow,    \* Trace -> the list of its escrows: 0, or a list's number
  lists,     \* list -> the actions in it
  fresh,     \* the last list made
  settled,   \* action -> "STAGED", "COMMITTED", "ROLLED_BACK"
  commits,   \* how often each action was committed to the live environment
  opc,       \* where each oracle is
  held,      \* the list an oracle goes through
  visited,   \* what it has settled of it
  eyed,      \* the action it saw staged and is about to commit
  raced      \* actions lost to, or settled twice by, overlapping threads

vvars == <<of, spc, staged, sent, call, sink, escrow, lists, fresh, settled, commits, opc, held, visited, eyed, raced>>

\* An action: the worker and its number.
Action == Worker \X (1 .. MaxStaged)

VInit ==
  /\ of \in TraceOf
  /\ spc = [w \in Worker |-> "func"] /\ opc = [o \in Oracle |-> "idle"]
  /\ staged = [w \in Worker |-> 0] /\ sent = [w \in Worker |-> 0]
  /\ call = [w \in Worker |-> "none"] /\ sink = [w \in Worker |-> 0]
  /\ escrow = [t \in Trace |-> 0] /\ fresh = 0
  /\ lists = [l \in 1 .. Cardinality(Action) |-> {}]
  /\ settled = [a \in Action |-> "none"] /\ commits = [a \in Action |-> 0]
  /\ held = [o \in Oracle |-> 0] /\ raced = {}
  /\ visited = [o \in Oracle |-> {}] /\ eyed = [o \in Oracle |-> {}]

vti == <<escrow, lists, fresh, settled, commits, opc, held, visited, eyed, raced>>
SGoto(w, l) == spc' = [spc EXCEPT ![w] = l]
-----------------------------------------------------------------------------
(* The child                                                               *)

\* What the isolator replaces before the hook can see it.
Diverted(w, e) == w \in Arc /\ e \in {"network", "shell"}

\* The hook: what it blocks, and of that, what it stages.
Blocked == {"network", "shell", "spawn", "write outside", "read outside", "kill"}
Stages == {"network", "shell", "spawn", "write outside"}

\* The function attempts an effect. The isolator diverts it, or the hook stages
\* and raises: the function catches the violation and goes on, or the wrapper
\* reports it.
ChildEffect(w) ==
  /\ spc[w] = "func" /\ staged[w] + sink[w] < MaxStaged
  /\ \E e \in Effect :
       \/ /\ Diverted(w, e) /\ sink' = [sink EXCEPT ![w] = @ + 1]
          /\ UNCHANGED <<spc, staged>>
       \/ /\ ~Diverted(w, e) /\ e \in Blocked
          /\ staged' = [staged EXCEPT ![w] = @ + IF e \in Stages THEN 1 ELSE 0]
          /\ \E l \in {"func", "error"} : SGoto(w, l)
          /\ UNCHANGED sink
  /\ UNCHANGED <<of, sent, call, vti>>

\* The function returns or raises an error of the wrapper's list, and the child
\* writes its frames and ends; a report longer than a frame is cut and no JSON any
\* more; any other error ends the child without a frame.
ChildLeaves(w) ==
  /\ spc[w] = "func" /\ \E l \in {"result", "error", "cut", "silent"} : SGoto(w, l)
  /\ UNCHANGED <<of, staged, sent, call, sink, vti>>

\* What a child leaves that the parent has not read.
Unread == {"result", "error", "cut", "silent"}

\* The parent's deadline and its limits on memory and output, also while frames
\* wait to be read; the child is killed.
ParentKills(w) ==
  /\ spc[w] \in {"func"} \cup Unread /\ \E l \in {"timeout", "memory"} : SGoto(w, l)
  /\ UNCHANGED <<of, staged, sent, call, sink, vti>>

-----------------------------------------------------------------------------
(* The parent: what comes back from the child, and stage_action            *)

Envelope == {"got result", "got error"}

\* The poll finds the frames: an envelope, or run raises, EOFError for a child
\* that left no frame.
ParentReads(w) ==
  /\ spc[w] \in Unread
  /\ SGoto(w, CASE spc[w] = "result" -> "got result"
                [] spc[w] = "error" -> "got error"
                [] spc[w] = "cut" -> "raised ValueError"
                [] OTHER -> "raised EOFError")
  /\ UNCHANGED <<of, staged, sent, call, sink, vti>>

\* Without an envelope run raises: the child was killed, or the poll came back
\* empty and the child, asked after it, has ended by then, whatever it wrote in
\* between.
ParentRaises(w) ==
  /\ spc[w] \in {"timeout", "memory"} \cup Unread
  /\ SGoto(w, CASE spc[w] = "timeout" -> "raised TimeoutError"
                [] spc[w] = "memory" -> "raised MemoryError"
                [] OTHER -> "raised no result")
  /\ UNCHANGED <<of, staged, sent, call, sink, vti>>

\* The next staged action: has the trace a list?
StageLooks(w) ==
  /\ spc[w] \in Envelope /\ call[w] = "none" /\ sent[w] < staged[w]
  /\ call' = [call EXCEPT ![w] = IF escrow[of[w]] = 0 THEN "create" ELSE "append"]
  /\ UNCHANGED <<of, spc, staged, sent, sink, vti>>

\* A new list, which replaces one that another thread made since.
StageCreates(w) ==
  /\ call[w] = "create" /\ call' = [call EXCEPT ![w] = "append"]
  /\ fresh' = fresh + 1 /\ escrow' = [escrow EXCEPT ![of[w]] = fresh + 1]
  /\ raced' = raced \cup (IF escrow[of[w]] # 0 THEN lists[escrow[of[w]]] ELSE {})
  /\ UNCHANGED <<of, spc, staged, sent, sink, lists, settled, commits, opc, held, visited, eyed>>

\* The append; a list that an oracle removed since raises KeyError, and one an
\* oracle has gone through already is never looked at again.
StageAppends(w) ==
  LET l == escrow[of[w]]  a == <<w, sent[w] + 1>> IN
  /\ call[w] = "append" /\ call' = [call EXCEPT ![w] = "none"]
  /\ IF l = 0 THEN SGoto(w, "raised KeyError") /\ UNCHANGED <<lists, settled, sent, raced>>
     ELSE /\ sent' = [sent EXCEPT ![w] = @ + 1]
          /\ lists' = [lists EXCEPT ![l] = @ \cup {a}]
          /\ settled' = [settled EXCEPT ![a] = "STAGED"]
          /\ raced' = raced \cup
               (IF \E o \in Oracle : opc[o] = "delete" /\ held[o] = l THEN {a} ELSE {})
          /\ UNCHANGED spc
  /\ UNCHANGED <<of, staged, sink, escrow, fresh, commits, opc, held, visited, eyed>>

\* All are handed over: run returns the result or raises the sandbox error.
RunEnds(w) ==
  /\ spc[w] \in Envelope /\ call[w] = "none" /\ sent[w] = staged[w]
  /\ SGoto(w, IF spc[w] = "got result" THEN "returned" ELSE "raised RuntimeError")
  /\ UNCHANGED <<of, staged, sent, call, sink, vti>>

-----------------------------------------------------------------------------
(* evaluate_trajectory: commit_action or rollback_action of a trace        *)

oracleFrame == <<of, spc, staged, sent, call, sink, fresh, lists>>

\* The drift is below the threshold or not; a trace without escrows is left.
OracleReads(o) ==
  /\ opc[o] = "idle"
  /\ IF escrow[of[o]] = 0 \/ lists[escrow[of[o]]] = {}
       THEN opc' = [opc EXCEPT ![o] = "done"] /\ UNCHANGED held
       ELSE /\ \E d \in {"commit", "rollback"} : opc' = [opc EXCEPT ![o] = d]
            /\ held' = [held EXCEPT ![o] = escrow[of[o]]]
  /\ UNCHANGED <<oracleFrame, escrow, settled, commits, visited, eyed, raced>>

Unvisited(o) == lists[held[o]] \ visited[o]

\* The action, when another oracle is between its look and its commit of it.
Eyed(o, a) == {b \in {a} : \E p \in Oracle \ {o} : b \in eyed[p]}

\* The loop of commit_action: is the next escrow still staged?
OracleLooks(o) ==
  /\ opc[o] = "commit" /\ eyed[o] = {}
  /\ \E a \in Unvisited(o) :
       IF settled[a] = "STAGED" THEN eyed' = [eyed EXCEPT ![o] = {a}] /\ UNCHANGED visited
       ELSE visited' = [visited EXCEPT ![o] = @ \cup {a}] /\ UNCHANGED eyed
  /\ UNCHANGED <<oracleFrame, escrow, opc, held, settled, commits, raced>>

\* It is committed, also when another oracle has settled it since.
OracleCommits(o) ==
  \E a \in eyed[o] :
    /\ settled' = [settled EXCEPT ![a] = "COMMITTED"] /\ commits' = [commits EXCEPT ![a] = @ + 1]
    /\ visited' = [visited EXCEPT ![o] = @ \cup {a}] /\ eyed' = [eyed EXCEPT ![o] = {}]
    /\ raced' = raced \cup Eyed(o, a)
    /\ UNCHANGED <<oracleFrame, escrow, opc, held>>

\* The loop of rollback_action, which looks at no status.
OracleRollsBack(o) ==
  /\ opc[o] = "rollback"
  /\ \E a \in Unvisited(o) :
       /\ settled' = [settled EXCEPT ![a] = "ROLLED_BACK"]
       /\ visited' = [visited EXCEPT ![o] = @ \cup {a}]
       /\ raced' = raced \cup Eyed(o, a) \cup (IF settled[a] = "COMMITTED" THEN {a} ELSE {})
  /\ UNCHANGED <<oracleFrame, escrow, opc, held, commits, eyed>>

\* Mutant of OracleFinishes: the loop is left early.
OracleFinishesEarly(o) ==
  /\ opc[o] \in {"commit", "rollback"} /\ eyed[o] = {}
  /\ opc' = [opc EXCEPT ![o] = "delete"]
  /\ UNCHANGED <<oracleFrame, escrow, held, settled, commits, visited, eyed, raced>>

\* The end of the list.
OracleFinishes(o) ==
  /\ opc[o] \in {"commit", "rollback"} /\ eyed[o] = {} /\ Unvisited(o) = {}
  /\ opc' = [opc EXCEPT ![o] = "delete"]
  /\ UNCHANGED <<oracleFrame, escrow, held, settled, commits, visited, eyed, raced>>

\* del of the key: the list of the trace by now, whichever that is.
OracleDeletes(o) ==
  LET t == of[o] IN
  /\ opc[o] = "delete"
  /\ IF escrow[t] = 0 THEN opc' = [opc EXCEPT ![o] = "KeyError"] /\ UNCHANGED <<escrow, raced>>
     ELSE /\ opc' = [opc EXCEPT ![o] = "done"] /\ escrow' = [escrow EXCEPT ![t] = 0]
          /\ raced' = raced \cup (IF escrow[t] # held[o] THEN lists[escrow[t]] ELSE {})
  /\ UNCHANGED <<oracleFrame, held, visited, eyed, settled, commits>>

-----------------------------------------------------------------------------
RunStep(w) ==
  \/ ParentReads(w) \/ ParentRaises(w) \/ StageLooks(w) \/ StageCreates(w) \/ StageAppends(w) \/ RunEnds(w)
OracleStep(o) ==
  OracleLooks(o) \/ OracleCommits(o) \/ OracleRollsBack(o) \/ OracleFinishes(o) \/ OracleDeletes(o)

VNext ==
  \/ \E w \in Worker : ChildEffect(w) \/ ChildLeaves(w) \/ ParentKills(w) \/ RunStep(w)
  \/ \E o \in Oracle : OracleReads(o) \/ OracleStep(o)

\* Threads run; the deadline ends a child that does not.
VSpec ==
  /\ VInit /\ [][VNext]_vvars
  /\ \A w \in Worker : WF_vvars(RunStep(w)) /\ SF_vvars(ParentKills(w))
  /\ \A o \in Oracle : WF_vvars(OracleStep(o))
-----------------------------------------------------------------------------
\* Outcomes of run: with an envelope, and without one. LocalDevExecutor turns them
\* into a ReplayResult, but EOFError and MemoryError pass through it.
Relayed == {"returned", "raised RuntimeError"}
Lost == {"raised ValueError", "raised TimeoutError", "raised EOFError", "raised MemoryError",
         "raised no result"}
Ended == Relayed \cup Lost \cup {"raised KeyError"}

\* Every variable keeps its type; counters stay within what was staged.
VTypeOK ==
  /\ staged \in [Worker -> 0 .. MaxStaged] /\ \A w \in Worker : sent[w] <= staged[w]
  /\ settled \in [Action -> {"none", "STAGED", "COMMITTED", "ROLLED_BACK"}]
  /\ escrow \in [Trace -> 0 .. fresh] /\ fresh <= Cardinality(Action)

\* What a child staged is handed over as a whole or not at all. When its envelope
\* was read, all of it is in the coordinator's hands before run returns or raises
\* the child's error (sandbox.py:372); when run raises without one, also for a child
\* that ended well but between an empty poll and the look at is_alive
\* (sandbox.py:352), all of it is lost. Only a KeyError of stage_action splits it.
StagedIsHandedOver ==
  \A w \in Worker : \A n \in 1 .. staged[w] :
    /\ spc[w] \in Relayed => settled[<<w, n>>] # "none"
    /\ spc[w] \in Lost => settled[<<w, n>>] = "none"

\* An action reaches the live environment at most once, and exactly when its
\* status says so, unless two oracles settled the trace at the same time
\* (vti_coordinator.py:59: the status is read and written without a lock).
SettledOnce ==
  \A a \in Action :
    a \notin raced => /\ commits[a] <= 1
                      /\ commits[a] = 1 <=> settled[a] = "COMMITTED"

\* A staged action can still be committed or rolled back, unless its list was
\* replaced or removed by a thread that overlapped (vti_coordinator.py:41, :63).
NothingVanishes ==
  \A a \in Action : settled[a] = "STAGED" =>
    \/ a \in raced
    \/ \E t \in Trace : escrow[t] # 0 /\ a \in lists[escrow[t]]

\* Every sandboxed run ended.
RunsEnded == \A w \in Worker : spc[w] \in Ended

\* sandbox.py and vti_coordinator.py: what a child staged is handed over as a whole
\* or lost with an error of run; once handed over it stays until it is settled, and
\* is settled once, but for threads that overlapped.
EffectsAreSettled == VTypeOK /\ StagedIsHandedOver /\ SettledOnce /\ NothingVanishes
=============================================================================
