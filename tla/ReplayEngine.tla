----------------------------- MODULE ReplayEngine -----------------------------
(***************************************************************************)
(* The deterministic replay engine (packages/replay/src/engine.py): a run  *)
(* is executed again with one component version swapped, every other one   *)
(* pinned.  Each component runs in a child process of its own that streams *)
(* its output in frames; the parent polls the pipe, looks whether the      *)
(* child is alive, and kills it at the deadline.                           *)
(*                                                                         *)
(* Of the outputs that components hand on, the model keeps the documents:  *)
(* none, fresh or stale, and the faithfulness the generator derives.       *)
(***************************************************************************)
EXTENDS Naturals, Sequences

CONSTANTS
  Version,   \* registered component versions, by id
  Registry,  \* Version -> [type, tag]
  Requests,  \* replay requests, see RequestOK
  MaxOutput  \* frames of output the parent accepts

Manifest == {"ok", "absent", "unpinned", "foreign", "altered", "other seed"}
Evidence == {"synthetic", "unverified", "real"}

\* _EXECUTOR_MAP
ExecutorMap ==
  {<<"retriever", "v1">>, <<"retriever", "v2-exp">>} \cup
  {<<t, "v1">> : t \in {"reranker", "generator", "memory_read", "memory_write",
                        "tool_call", "policy_check", "final_response"}}

\* The pipeline of a trace that names no component: eight of the component types.
FallbackPipeline ==
  {"memory_read", "retriever", "reranker", "generator", "tool_call", "policy_check",
   "memory_write", "final_response"}
ComponentType ==
  FallbackPipeline \cup {"agent", "prompt", "routing", "model_version", "agent_configuration", "tool"}

\* A request: the manifest, the swap, and the original trace.  A span without
\* component type has type "none", one without a version id version "none"; its
\* version tag agrees with the version it names, and for the replaced component
\* with the intervention's.
SpanSet ==
  [type : ComponentType \cup {"none"}, version : Version \cup {"none"}, own : BOOLEAN, agrees : BOOLEAN]
RequestOK(q) ==
  /\ q.manifest \in Manifest /\ q.evidence \in Evidence
  /\ q.current \in BOOLEAN /\ q.matches \in BOOLEAN
  /\ q.target \in ComponentType /\ q.candidate \in STRING
  /\ q.spans \in Seq(SpanSet)

ASSUME EngineAssumption ==
  /\ MaxOutput \in Nat \ {0}
  /\ \A q \in Requests : RequestOK(q)

VARIABLES
  req,      \* the request
  epc,      \* where execute_replay is
  plan,     \* the components to execute: <<type, tag>>
  step,     \* the one being executed
  child,    \* the child process
  pipe,     \* frames in the pipe: "D", "E" (end) or "X" (error)
  got,      \* data frames received
  docs,     \* documents and ranked_documents in current_inputs
  faith,    \* faithfulness_score
  trail,    \* the spans built: [comp, ok]
  episode   \* the evidence class of the episode returned, or "none"

evars == <<req, epc, plan, step, child, pipe, got, docs, faith, trail, episode>>

EInit ==
  /\ req \in Requests /\ epc = "check" /\ plan = <<>> /\ step = 1
  /\ child = "none" /\ pipe = <<>> /\ got = 0
  /\ docs = [documents |-> "none", ranked |-> "none"]
  /\ faith = "unmeasured" /\ trail = <<>> /\ episode = "none"
-----------------------------------------------------------------------------
(* Refusals, and the plan                                                  *)

\* The span's version is registered, and is of its type.
Resolves(s) == s.version \in Version /\ Registry[s.version].type = s.type

Preserved(q) == {i \in DOMAIN q.spans : q.spans[i].type \notin {q.target, "none"}}

\* Mutant of Admits: versions of one type may differ.
AdmitsConflicts(q) ==
  /\ q.manifest = "ok" /\ q.current /\ q.matches
  /\ \A i \in DOMAIN q.spans : q.spans[i].own /\ (q.spans[i].type # "none" => q.spans[i].agrees)
  /\ \A i \in Preserved(q) : Resolves(q.spans[i])

\* Every check of execute_replay and of the loop that resolves the versions.
Admits(q) ==
  /\ q.manifest = "ok" /\ q.current /\ q.matches
  /\ \A i \in DOMAIN q.spans : q.spans[i].own /\ (q.spans[i].type # "none" => q.spans[i].agrees)
  /\ \A i \in Preserved(q) : Resolves(q.spans[i])
  /\ \A i, j \in Preserved(q) :
       q.spans[i].type = q.spans[j].type => q.spans[i].version = q.spans[j].version

\* The version of a component: the replacement, or the one of its span.
TagOf(q, s) == IF s.type = q.target THEN q.candidate ELSE Registry[s.version].tag

\* Component types in the order of their first span; a trace without any falls
\* back to the standard pipeline, of which only the replaced component has a
\* version: nothing is executed when that is not one of the eight.
Component(q, s) == <<s.type, TagOf(q, s)>>
AddComponent(q, acc, s) ==
  IF s.type = "none" \/ \E i \in DOMAIN acc : acc[i][1] = s.type
    THEN acc ELSE Append(acc, Component(q, s))
Fallback(q) == IF q.target \in FallbackPipeline THEN << <<q.target, q.candidate>> >> ELSE <<>>
PlanOf(q) ==
  LET upTo[i \in 0 .. Len(q.spans)] ==
        IF i = 0 THEN <<>> ELSE AddComponent(q, upTo[i - 1], q.spans[i])
  IN IF upTo[Len(q.spans)] = <<>> THEN Fallback(q) ELSE upTo[Len(q.spans)]

CheckRequest ==
  /\ epc = "check"
  /\ IF Admits(req) THEN epc' = "next" /\ plan' = PlanOf(req)
                    ELSE epc' = "refused" /\ UNCHANGED plan
  /\ UNCHANGED <<req, step, child, pipe, got, docs, faith, trail, episode>>

-----------------------------------------------------------------------------
(* _execute_component_isolated: the parent                                 *)

\* get_executor raises for a version without an executor, and nothing in
\* execute_replay catches it.
StartChild ==
  /\ epc = "next" /\ step <= Len(plan)
  /\ IF plan[step] \in ExecutorMap
       THEN epc' = "poll" /\ child' = "running" /\ pipe' = <<>> /\ got' = 0
       ELSE epc' = "raised" /\ UNCHANGED <<child, pipe, got>>
  /\ UNCHANGED <<req, plan, step, docs, faith, trail, episode>>

\* The finally block: the pipe is closed and the child terminated or killed.
Reap == child' = "none" /\ pipe' = <<>>

\* The documents after a component that succeeded (or failed: unchanged).
DocsAfter(comp, ok) ==
  CASE ok /\ comp = <<"retriever", "v1">> -> [docs EXCEPT !.documents = "fresh"]
    [] ok /\ comp = <<"retriever", "v2-exp">> -> [docs EXCEPT !.documents = "stale"]
    [] ok /\ comp[1] = "reranker" -> [docs EXCEPT !.ranked = docs.documents]
    [] OTHER -> docs

\* A generator that failed leaves no score, which is read as 1.0.
FaithAfter(comp, ok) ==
  CASE comp[1] = "generator" /\ ok -> (IF docs.ranked = "stale" THEN "low" ELSE "high")
    [] comp[1] = "generator" /\ ~ok -> "unmeasured"
    [] OTHER -> faith

\* The span is built whatever the outcome, and the pipeline goes on.
EndComponent(ok) ==
  LET comp == plan[step] IN
  /\ Reap /\ epc' = "next" /\ step' = step + 1
  /\ trail' = Append(trail, [comp |-> comp, ok |-> ok])
  /\ docs' = DocsAfter(comp, ok) /\ faith' = FaithAfter(comp, ok)
  /\ UNCHANGED <<req, plan, got, episode>>

\* recv_bytes of the next frame; too much data raises MemoryError.
ReceiveFrame ==
  /\ epc = "poll" /\ pipe # <<>>
  /\ \/ /\ Head(pipe) = "D" /\ got < MaxOutput
        /\ got' = got + 1 /\ pipe' = Tail(pipe)
        /\ UNCHANGED <<req, epc, plan, step, child, docs, faith, trail, episode>>
     \/ Head(pipe) = "D" /\ got = MaxOutput /\ EndComponent(FALSE)
     \/ Head(pipe) = "E" /\ EndComponent(TRUE)
     \/ Head(pipe) = "X" /\ EndComponent(FALSE)

\* A pipe whose writer is gone is readable: recv_bytes raises EOFError, which is
\* none of the errors execute_replay catches.
ReceiveEof ==
  /\ epc = "poll" /\ pipe = <<>> /\ child = "dead"
  /\ Reap /\ epc' = "raised"
  /\ UNCHANGED <<req, plan, step, got, docs, faith, trail, episode>>

\* poll returned nothing: is the child alive?
PollEmpty ==
  /\ epc = "poll" /\ pipe = <<>> /\ child = "running"
  /\ epc' = "alive?"
  /\ UNCHANGED <<req, plan, step, child, pipe, got, docs, faith, trail, episode>>

\* A child that ended since the poll counts as one that left no result, even
\* when its output is in the pipe by now.
CheckAlive ==
  /\ epc = "alive?"
  /\ IF child = "dead" THEN EndComponent(FALSE)
     ELSE epc' = "poll" /\ UNCHANGED <<req, plan, step, child, pipe, got, docs, faith, trail, episode>>

\* The deadline, or the memory limit the parent watches.
KillChild ==
  /\ epc = "poll" /\ EndComponent(FALSE)

-----------------------------------------------------------------------------
(* _component_process_entry: the child                                     *)

Sending == child = "running" /\ epc \in {"poll", "alive?"}
childFrame == <<req, epc, plan, step, got, docs, faith, trail, episode>>

\* Output is streamed in frames; more than the budget is an error frame.
ChildSends ==
  /\ Sending /\ Len(pipe) < MaxOutput
  /\ pipe' = Append(pipe, "D")
  /\ UNCHANGED <<child, childFrame>>

ChildEnds ==
  /\ Sending /\ pipe' = Append(pipe, "E") /\ child' = "dead"
  /\ UNCHANGED childFrame

\* A quarantined memory, a limit, any exception: reported and over.
ChildFails ==
  /\ Sending /\ pipe' = Append(pipe, "X") /\ child' = "dead"
  /\ UNCHANGED childFrame

\* The process is killed from outside (RLIMIT_CPU, out of memory).
ChildKilled ==
  /\ Sending /\ child' = "dead" /\ UNCHANGED <<pipe, childFrame>>

-----------------------------------------------------------------------------
\* Every executor of the map is a mock: a component that ran makes the
\* evidence synthetic.
EvidenceOf(q, t) ==
  IF q.evidence = "synthetic" \/ t # <<>> THEN "synthetic"
  ELSE IF q.evidence = "unverified" THEN "unverified" ELSE "real"

\* The episode is COMPLETED whatever the components did.
FinishReplay ==
  /\ epc = "next" /\ step > Len(plan)
  /\ epc' = "done"
  /\ episode' = EvidenceOf(req, trail)
  /\ UNCHANGED <<req, plan, step, child, pipe, got, docs, faith, trail>>

Parent ==
  \/ CheckRequest \/ StartChild \/ ReceiveFrame \/ ReceiveEof \/ PollEmpty
  \/ CheckAlive \/ FinishReplay
ENext == Parent \/ KillChild \/ ChildSends \/ ChildEnds \/ ChildFails \/ ChildKilled

\* The parent runs, and time passes: a child that says nothing meets its
\* deadline.  Nothing is assumed of the child.
ESpec == EInit /\ [][ENext]_evars /\ WF_evars(Parent) /\ SF_evars(KillChild)
-----------------------------------------------------------------------------
\* Every variable keeps its type; the parent holds no more than the budget.
ETypeOK ==
  /\ epc \in {"check", "next", "poll", "alive?", "refused", "raised", "done"}
  /\ step \in 1 .. Len(plan) + 1 /\ Len(trail) = step - 1
  /\ child \in {"none", "running", "dead"} /\ got \in 0 .. MaxOutput
  /\ faith \in {"unmeasured", "low", "high"}

\* No child outlives its component: none is left when the replay goes on, is
\* refused, raises or is done (engine.py:228).
NoOrphanChild == epc \notin {"poll", "alive?"} => child = "none" /\ pipe = <<>>

\* Only the intervened component runs another version: every other one ran the
\* single version its spans were recorded with (engine.py:480 to :520, :575).
OnlyTheSwap ==
  \A i \in DOMAIN trail : \A j \in DOMAIN req.spans :
    LET s == req.spans[j] IN
    s.type = trail[i].comp[1] =>
      trail[i].comp[2] = IF s.type = req.target THEN req.candidate ELSE Registry[s.version].tag

\* A replay through mock executors is never labelled as anything but synthetic,
\* whatever the original run was (engine.py:678).  Any other label is that of a
\* replay that executed nothing at all: a trace without component types whose
\* target is not in the fallback pipeline (engine.py:552) keeps its run's standing,
\* up to REAL_CONTROLLED_EXPERIMENT.
NeverRealEvidence ==
  episode \notin {"none", "synthetic"} =>
    /\ trail = <<>> /\ req.target \notin FallbackPipeline
    /\ \A j \in DOMAIN req.spans : req.spans[j].type = "none"

\* The score of an episode is measured exactly when a generator ran to its end;
\* a low one means that stale documents went through retriever and reranker, and
\* a high one may also mean that one of these failed (engine.py:646).
ScoreIsExplained ==
  epc = "done" =>
    LET Ran(t) == \E i \in DOMAIN trail : trail[i].comp[1] = t /\ trail[i].ok IN
    /\ faith # "unmeasured" <=> Ran("generator")
    /\ faith = "low" => \E i, j \in DOMAIN trail :
         /\ trail[i].comp = <<"retriever", "v2-exp">> /\ trail[i].ok
         /\ trail[j].comp[1] = "reranker" /\ trail[j].ok

\* execute_replay came back.
ReplayReturned == epc \in {"refused", "raised", "done"}

\* execute_replay (engine.py): only the intervention differs, every child is
\* reaped, and an episode that executed anything says no more than was measured.
ReplayIsFaithful == ETypeOK /\ NoOrphanChild /\ OnlyTheSwap /\ NeverRealEvidence /\ ScoreIsExplained
=============================================================================
