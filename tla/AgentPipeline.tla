---------------------------- MODULE AgentPipeline ----------------------------
(***************************************************************************)
(* The reference multi-agent runtime whose runs are traced and diagnosed:  *)
(* AgentPipeline.run and its agents (packages/rag_pipeline/src/agents.py), *)
(* the tools they call (tool_registry.py) and the policy gate that the     *)
(* policy agent asks (packages/policy/src/gate.py).                        *)
(*                                                                         *)
(* One hop is one action.  The retriever, the model and a tool that the    *)
(* caller supplies may answer or raise at every call.  The keys            *)
(* "force_retry", "permissions" and "db" of the context are read by agents *)
(* but set by nobody in a run, so they are absent.  Spans are the business *)
(* of module TraceSpans.                                                   *)
(***************************************************************************)
EXTENDS Naturals

CONSTANTS
  Setups,   \* [real, retriever, llm, tools, query, quarantined]: the runs considered
  MaxHops   \* max_hops

ASSUME PipelineAssumption == MaxHops \in Nat \ {0}

VARIABLES
  setup,     \* the pipeline's parts, the query and the quarantined agents
  nextAgent, \* state.current_agent
  notes,     \* state.context
  hops,
  answer,    \* state.final_response, "none" before; the run ends when it is set
  ranAgents, \* agents that executed, for the properties
  raised     \* some agent raised, for the properties

apvars == <<setup, nextAgent, notes, hops, answer, ranAgents, raised>>
Agent == {"orchestrator", "retrieval", "reasoning", "fallback", "tool", "verifier", "policy", "response"}

APInit ==
  /\ setup \in Setups /\ nextAgent = "orchestrator" /\ hops = 0 /\ answer = "none"
  /\ notes = [error |-> FALSE, docs |-> "unset", reasoning |-> "unset", tool |-> "unset",
              verified |-> FALSE, decision |-> "unset"]
  /\ ranAgents = {} /\ raised = FALSE
-----------------------------------------------------------------------------
\* The agent that executes: a quarantined one is replaced by the fallback, the
\* orchestrator by the response. Whether the replacement is quarantined is not asked.
Routed ==
  IF nextAgent \notin setup.quarantined THEN nextAgent
  ELSE IF nextAgent = "orchestrator" THEN "response" ELSE "fallback"

\* The context the agent finds: being routed around leaves an "error" there.
Found == [notes EXCEPT !.error = @ \/ nextAgent \in setup.quarantined]

\* One turn of the loop: the agent a executes.
Hop(a) ==
  /\ answer = "none" /\ hops < MaxHops /\ Routed = a
  /\ hops' = hops + 1 /\ ranAgents' = ranAgents \cup {a} /\ UNCHANGED setup

\* An answer that comes with the last hop is replaced like a missing one.
Respond(text) == answer' = IF hops' >= MaxHops THEN "max_hops" ELSE text

\* The agent hands over to the agent a, having noted n.
HandOver(a, n) == nextAgent' = a /\ notes' = n /\ Respond("none") /\ UNCHANGED raised

\* execute: an agent that raises hands over to the orchestrator.
Raises == nextAgent' = "orchestrator" /\ notes' = Found /\ Respond("none") /\ raised' = TRUE
-----------------------------------------------------------------------------
Orchestrate ==
  /\ Hop("orchestrator")
  /\ HandOver(IF Found.error THEN "response" ELSE "retrieval", Found)

\* The retriever answers, finds nothing or raises; the built-in one is for
\* development only.
Retrieve ==
  /\ Hop("retrieval")
  /\ \/ /\ setup.query = "empty_search" /\ (setup.real => setup.retriever)
        /\ HandOver("fallback", [Found EXCEPT !.docs = "empty"])
     \/ /\ setup.query # "empty_search" /\ (setup.real => setup.retriever)
        /\ HandOver("reasoning", [Found EXCEPT !.docs = "some"])
     \/ /\ setup.query # "empty_search" /\ setup.retriever
        /\ HandOver("fallback", [Found EXCEPT !.docs = "empty"])
     \/ IF setup.retriever THEN setup.query # "empty_search" /\ Raises ELSE setup.real /\ Raises

FallBack == Hop("fallback") /\ HandOver("tool", [Found EXCEPT !.reasoning = "fallback"])

\* The built-in text says that the system is healthy; a generated one may.
Reason ==
  /\ Hop("reasoning")
  /\ \/ /\ setup.real => setup.llm
        /\ \E r \in {"healthy"} \cup (IF setup.llm THEN {"other"} ELSE {}) :
             HandOver("tool", [Found EXCEPT !.reasoning = r])
     \/ (setup.real \/ setup.llm) /\ Raises

\* What a call of the tool comes to. Those of the default registry return a dict: the
\* health check, or a result of another form (the calculator's expression is fixed).
\* A tool of the caller may also return an error, as the text "Error..." or as a dict
\* {"error": ..}; and it may raise, be denied by its permissions or be missing.
ToolOutcomes ==
  IF setup.tools = "default"
    THEN {IF setup.query \in {"calculate", "metric"} THEN "result" ELSE "healthy"}
    ELSE {"result", "healthy", "error_text", "error_dict", "raises"}

\* Only an exception is raised in real mode; in development it becomes an error text.
\* What the tool returns is noted as it is, an error too.
UseTool ==
  /\ Hop("tool")
  /\ \E t \in ToolOutcomes :
       IF t = "raises" /\ setup.real THEN Raises
       ELSE HandOver("verifier", [Found EXCEPT !.tool = IF t = "raises" THEN "error_text" ELSE t])

\* In real mode documents must be there, and no error text; a dict will do, one with
\* an error too. In development any reasoning will do.
Supported ==
  IF setup.real THEN Found.docs = "some" /\ Found.tool # "error_text"
  ELSE Found.tool = "healthy" \/ Found.docs = "some" \/ Found.reasoning # "unset"

\* A strict failure leaves "verified" as it was.
Verify ==
  /\ Hop("verifier")
  /\ IF setup.real /\ ~Supported THEN HandOver("fallback", Found)
     ELSE HandOver("policy", [Found EXCEPT !.verified = Supported])

\* The query is evaluated as if it were an action.
GateDecision(q) ==
  CASE q \in {"delete_memory", "delete_trace"} -> "deny"
    [] q \in {"health_check", "read_trace"} -> "allow"
    [] q \in {"create_replay", "apply_rollback"} -> "needs_approval"
    [] OTHER -> "deny"

\* Mutant of EvaluatePolicy: the gate is asked, its decision not kept.
EvaluatePolicyForgets == Hop("policy") /\ HandOver("response", Found)

EvaluatePolicy ==
  Hop("policy") /\ HandOver("response", [Found EXCEPT !.decision = GateDecision(setup.query)])

\* The decision of the policy agent is not looked at.
Answer ==
  /\ Hop("response")
  /\ Respond(IF setup.real THEN IF Found.verified THEN "from_state" ELSE "not_verified"
             ELSE IF Found.reasoning = "healthy" /\ Found.tool = "healthy" /\ Found.verified THEN "from_state"
             ELSE IF Found.reasoning # "unset" THEN "synthesized" ELSE "processed")
  /\ notes' = Found /\ nextAgent' = "response" /\ UNCHANGED raised

APNext == Orchestrate \/ Retrieve \/ FallBack \/ Reason \/ UseTool \/ Verify \/ EvaluatePolicy \/ Answer
APSpec == APInit /\ [][APNext]_apvars
-----------------------------------------------------------------------------
\* A quarantined agent does not execute, with the two exceptions of agents.py:493:
\* the fallback stands in for itself, and the response for the orchestrator.
QuarantinedIsBypassed ==
  \A a \in ranAgents \cap setup.quarantined :
    a = "fallback" \/ (a = "response" /\ "orchestrator" \in setup.quarantined)

\* In real mode an answer from the run's state rests on retrieved documents and on
\* what a tool returned, whatever failed and was retried before it. That is no error
\* text, unless the policy or the response agent is quarantined: the run is then led
\* round to the tool again with the "verified" of the first time. It may be a dict
\* {"error": ..}: agents.py:377 lets every dict pass, so the answer quotes the error.
AnswerIsGrounded ==
  (setup.real /\ answer = "from_state") =>
    /\ notes.docs = "some" /\ notes.tool # "unset"
    /\ notes.tool = "error_text" => setup.quarantined \cap {"policy", "response"} # {}

\* An answer from the run's state was put before the policy gate, unless the
\* policy agent is quarantined: then a tool that raises on the second try leads
\* past it, with the "verified" of the first.
AnswerMetPolicy == answer = "from_state" => notes.decision # "unset" \/ "policy" \in setup.quarantined

\* In real mode the verifier sent the run to the fallback, or is about to: there are no
\* documents, or a tool of the caller returned an error text. Nothing retrieves again
\* from there, so the run goes round by fallback, tool and verifier (agents.py:380).
Refused ==
  setup.real /\ (\/ notes.docs # "some"
                 \/ setup.tools # "default" /\ (notes.tool = "error_text" \/ notes.reasoning = "fallback"))

\* The hops suffice for every run in which nothing raises, no agent is quarantined
\* and, in real mode, documents are found and no tool returns an error text.
HopsSuffice == answer = "max_hops" => raised \/ setup.quarantined # {} \/ Refused

\* AgentPipeline.run (agents.py): quarantine, grounding and policy hold on every
\* route to an answer, and the hops suffice for it; each part names its exceptions.
AgentsAreGated == QuarantinedIsBypassed /\ AnswerIsGrounded /\ AnswerMetPolicy /\ HopsSuffice
=============================================================================
