----------------------------- MODULE MCExecution -----------------------------
(***************************************************************************)
(* What runs a replay, checked together: the replay engine and its child   *)
(* processes, the VTI sandbox with its escrow and oracles, the AOR         *)
(* scheduler, the container executor and the exogenous-state controller.   *)
(* They keep disjoint state, so a behaviour exercises one of them, the     *)
(* scenario, and the others stay in an initial state of theirs.            *)
(***************************************************************************)
EXTENDS ReplayEngine, VtiSandbox, AorScheduler, ContainerExecutor, ExogenousState

CONSTANTS w1, w2, t1    \* the sandbox's workers and their trace

VARIABLE scenario

allVars == <<evars, vvars, sched, cvars, xvars, scenario>>
-----------------------------------------------------------------------------
(* Inputs                                                                  *)

MCRegistry == [ret1 |-> [type |-> "retriever", tag |-> "v1"], ret2 |-> [type |-> "retriever", tag |-> "v2-exp"],
               rer1 |-> [type |-> "reranker", tag |-> "v1"], gen1 |-> [type |-> "generator", tag |-> "v1"],
               gen9 |-> [type |-> "generator", tag |-> "v9"]]
MCVersion == DOMAIN MCRegistry

SpanOf(t, v) == [type |-> t, version |-> v, own |-> TRUE, agrees |-> TRUE]
MCReq(m, e, t, c, s) ==
  [manifest |-> m, evidence |-> e, current |-> TRUE, matches |-> TRUE, target |-> t, candidate |-> c, spans |-> s]
MCTrace == <<SpanOf("retriever", "ret2"), SpanOf("reranker", "rer1"), SpanOf("generator", "gen1")>>

\* Replays of a whole trace, of an empty one, of one without component types and a
\* target in the fallback pipeline or not, of one whose spans disagree, and of runs
\* and spans that the engine refuses.
MCRequests ==
  {MCReq("ok", "real", "retriever", c, MCTrace) : c \in {"v1", "v2-exp"}}
  \cup {MCReq("ok", "real", "generator", "v1", MCTrace), MCReq("ok", "unverified", "generator", "v9", MCTrace)}
  \cup {MCReq(m, "real", "retriever", "v1", <<>>) : m \in Manifest}
  \cup {MCReq("ok", e, t, "v1", <<SpanOf("none", "none")>>) : e \in Evidence, t \in {"prompt", "reranker"}}
  \cup {MCReq("ok", "real", "generator", "v1", <<SpanOf("retriever", "ret1"), SpanOf("retriever", "ret2")>>),
        MCReq("ok", "synthetic", "reranker", "v1", <<SpanOf("retriever", "ret1"), SpanOf("reranker", "none")>>),
        MCReq("ok", "real", "reranker", "v1", <<SpanOf("retriever", "none")>>),
        MCReq("ok", "real", "reranker", "v1",
              <<SpanOf("retriever", "ret1"), [SpanOf("reranker", "rer1") EXCEPT !.own = FALSE]>>),
        MCReq("ok", "real", "reranker", "v1", <<[SpanOf("reranker", "rer1") EXCEPT !.agrees = FALSE]>>)}

MCTraceOf == {[x \in Worker \cup Oracle |-> t1]}

\* Chains, a join, a cycle, and tasks added after run() has begun.
MCOrders == {<<1, 2, 3>>, <<3, 2, 1>>, <<2, 3>>, <<1, 2>>}
MCDependencies ==
  {[t \in 1 .. 3 |-> IF t = 1 THEN <<>> ELSE <<t - 1>>],
   [t \in 1 .. 3 |-> IF t = 3 THEN <<1, 2>> ELSE <<>>],
   [t \in 1 .. 3 |-> CASE t = 1 -> <<2>> [] t = 2 -> <<1>> [] OTHER -> <<>>]}

\* With every optional module, without requests, without any.
MCInstalled == {Slot, Slot \ {"requests.get", "requests.post"}, Slot \ Optional}
-----------------------------------------------------------------------------
(* One initial state of each component, for the scenarios it is not in     *)

EIdle == req = (CHOOSE q \in Requests : TRUE) /\ EInit
VIdle == of = (CHOOSE f \in TraceOf : TRUE) /\ VInit
SchedIdle == order = (CHOOSE o \in Orders : TRUE) /\ needs = (CHOOSE f \in Dependencies : TRUE) /\ SchedInit
XIdle == installed = Slot /\ XInit

Init ==
  \/ scenario = "replay"    /\ EInit /\ VIdle /\ SchedIdle /\ CInit /\ XIdle
  \/ scenario = "sandbox"   /\ EIdle /\ VInit /\ SchedIdle /\ CInit /\ XIdle
  \/ scenario = "scheduler" /\ EIdle /\ VIdle /\ SchedInit /\ CInit /\ XIdle
  \/ scenario = "container" /\ EIdle /\ VIdle /\ SchedIdle /\ CInit /\ XIdle
  \/ scenario = "exogenous" /\ EIdle /\ VIdle /\ SchedIdle /\ CInit /\ XInit

Next ==
  \/ scenario = "replay"    /\ ENext /\ UNCHANGED <<vvars, sched, cvars, xvars, scenario>>
  \/ scenario = "sandbox"   /\ VNext /\ UNCHANGED <<evars, sched, cvars, xvars, scenario>>
  \/ scenario = "scheduler" /\ SchedNext /\ UNCHANGED <<evars, vvars, cvars, xvars, scenario>>
  \/ scenario = "container" /\ CNext /\ UNCHANGED <<evars, vvars, sched, xvars, scenario>>
  \/ scenario = "exogenous" /\ XNext /\ UNCHANGED <<evars, vvars, sched, cvars, scenario>>

\* The steps under strong fairness in the components' own specifications: a
\* child past its deadline is killed, a pooled task gets a thread and, once its
\* function is back, the lock to record the outcome.  One scenario
\* enables the steps of one component, so that fairness of the union is fairness
\* of its members.
Strong(i) ==
  \/ /\ scenario = "replay" /\ i = 1 /\ KillChild
     /\ UNCHANGED <<vvars, sched, cvars, xvars, scenario>>
  \/ /\ scenario = "sandbox" /\ i \in {1, 2} /\ ParentKills(<<w1, w2>>[i])
     /\ UNCHANGED <<evars, sched, cvars, xvars, scenario>>
  \/ /\ scenario = "scheduler" /\ PoolStep(i)
     /\ UNCHANGED <<evars, vvars, cvars, xvars, scenario>>

\* The fairness of each component's own specification, in its scenario.
Fairness ==
  /\ WF_evars(scenario = "replay" /\ Parent)
  /\ \A w \in Worker : WF_vvars(scenario = "sandbox" /\ RunStep(w))
  /\ \A o \in Oracle : WF_vvars(scenario = "sandbox" /\ OracleStep(o))
  /\ WF_sched(scenario = "scheduler" /\ LoopStep)
  /\ WF_cvars(scenario = "container" /\ ExecuteStep)
  /\ WF_cvars(scenario = "container" /\ BudgetExpires)
  /\ \A i \in 1 .. 3 : SF_allVars(Strong(i))

ExecutionSpec == Init /\ [][Next]_allVars /\ Fairness
-----------------------------------------------------------------------------
\* What ran is cleaned up: the container and its directory, unless the daemon, the
\* preparation or a cancellation prevents it (executor.py), and the patches of a
\* controller, unless it was not nested (exogenous_controller.py); and until then
\* each sees a whole answer, or its own stubs.
CleanedUp ==
  /\ CTypeOK /\ SuccessIsWhole /\ NothingIsLeft
  /\ XTypeOK /\ Restored /\ SeesOwnStubs

\* Everything comes back: execute_replay, with a hung, flooding or dead child
\* (replay/engine.py); a sandboxed run, whatever its function does (sandbox.py);
\* run, unless dependencies are cyclic or a task's function never comes back
\* (aor_scheduler.py:79) or left with something that is no Exception (:84); and execute, whatever the container does
\* (executor.py).
ExecutionEnds ==
  <>[](/\ scenario = "replay" => ReplayReturned
       /\ scenario = "sandbox" => RunsEnded
       /\ scenario = "scheduler" => RunReturned
       /\ scenario = "container" => ExecuteEnded)
=============================================================================
