----------------------------- MODULE RecordsProofs -----------------------------
(***************************************************************************)
(* What holds of the decisions and records of MCRecords for every value of *)
(* their constants: the agent pipeline, the transport gate and policy      *)
(* resolution; the causal cut, its validation and the recovery actions;    *)
(* the SQLite receipt store and its trail, the provenance memory, the      *)
(* SDK's spans, the Merkle DAG and the schema revisions.                   *)
(***************************************************************************)
EXTENDS MCRecords, FiniteSetTheorems, SequenceTheorems, WellFoundedInduction, TLAPS

-----------------------------------------------------------------------------
(***************************************************************************)
(* The agent pipeline (AgentPipeline).  "verified" outlives the route it   *)
(* was set on: it stays when an agent is routed around or raises, so what  *)
(* it vouches for must stay too, and the error noted on such a route keeps *)
(* the run from retrieving again.                                          *)
(***************************************************************************)

Note ==
  [error : BOOLEAN, docs : {"unset", "some", "empty"}, reasoning : {"unset", "fallback", "healthy", "other"},
   tool : {"unset", "result", "healthy", "error_text", "error_dict"}, verified : BOOLEAN,
   decision : {"unset", "deny", "allow", "needs_approval"}]

APTypes ==
  /\ setup \in Setups /\ nextAgent \in Agent /\ notes \in Note /\ hops \in Nat
  /\ ranAgents \subseteq Agent /\ raised \in BOOLEAN

\* What "verified" vouches for when agent a is next, with notes n in the setup u,
\* and where the run can be once it is set.
Vouched(a, n, u) ==
  /\ n.verified => a \in {"policy", "response"} \/ (n.error /\ u.quarantined \cap {"policy", "response"} # {})
  /\ a = "retrieval" => ~n.verified
  /\ a = "verifier" \/ n.verified => n.tool # "unset"
  /\ n.tool = "error_text" /\ u.real => u.tools # "default"
  /\ u.real /\ n.verified =>
       n.docs = "some" /\ (n.tool # "error_text" \/ u.quarantined \cap {"policy", "response"} # {})
  /\ n.verified => a = "policy" \/ n.decision # "unset" \/ "policy" \in u.quarantined

\* Refused, of the notes n in the setup u.
Delayed(n, u) ==
  u.real /\ (n.docs # "some" \/ (u.tools # "default" /\ (n.tool = "error_text" \/ n.reasoning = "fallback")))

\* Without a fault (x: some agent raised) every agent has its turn once, in this
\* order, unless the verifier refuses: agent a is next after h hops.
Turn == [orchestrator |-> 0, retrieval |-> 1, reasoning |-> 2, fallback |-> 2, tool |-> 3, verifier |-> 4,
         policy |-> 5, response |-> 6]
OnTime(a, n, u, h, x) ==
  (~x /\ u.quarantined = {}) =>
    /\ ~n.error
    /\ a \in {"orchestrator", "retrieval"} => h = Turn[a]
    /\ a = "reasoning" => n.docs = "some"
    /\ a \in {"orchestrator", "retrieval", "reasoning"} => n.tool = "unset" /\ n.reasoning # "fallback"
    /\ a = "tool" => n.tool = "unset" \/ n.reasoning = "fallback"
    /\ ~Delayed(n, u) => h = Turn[a]
    /\ u.real /\ a = "fallback" => Delayed(n, u)

AgentInv ==
  /\ APTypes /\ Vouched(nextAgent, notes, setup) /\ AgentsAreGated
  /\ answer = "none" => OnTime(nextAgent, notes, setup, hops, raised)

LEMMA APInitInv ==
  ASSUME APInit
  PROVE  AgentInv
<1>1. APTypes
  BY DEF APInit, APTypes, Agent, Note
<1>2. Vouched(nextAgent, notes, setup) /\ OnTime(nextAgent, notes, setup, hops, raised)
  BY DEF APInit, Vouched, OnTime, Turn
<1> QED BY <1>1, <1>2 DEF APInit, AgentInv, AgentsAreGated, QuarantinedIsBypassed, AnswerIsGrounded,
                          AnswerMetPolicy, HopsSuffice

\* A turn: the agent that executes, and the context it finds.
LEMMA Hops ==
  ASSUME AgentInv, NEW a, Hop(a)
  PROVE  /\ answer = "none" /\ hops' = hops + 1 /\ hops' \in Nat /\ setup' = setup /\ setup \in Setups
         /\ QuarantinedIsBypassed' /\ (a \in Agent => ranAgents' \subseteq Agent)
         /\ Found \in Note /\ Found.docs = notes.docs /\ Found.reasoning = notes.reasoning
         /\ Found.tool = notes.tool /\ Found.verified = notes.verified /\ Found.decision = notes.decision
         /\ notes.error => Found.error
         /\ \/ a = nextAgent /\ a \notin setup.quarantined /\ Found.error = notes.error
            \/ nextAgent \in setup.quarantined /\ Found.error /\ a \in {"response", "fallback"}
<1>1. /\ answer = "none" /\ Routed = a /\ hops' = hops + 1 /\ ranAgents' = ranAgents \cup {a}
      /\ setup' = setup /\ setup \in Setups /\ hops \in Nat /\ notes \in Note /\ ranAgents \subseteq Agent
  BY DEF Hop, AgentInv, APTypes
<1>2. \/ a = nextAgent /\ nextAgent \notin setup.quarantined
      \/ nextAgent \in setup.quarantined /\ (a = "fallback" \/ (a = "response" /\ "orchestrator" \in setup.quarantined))
  BY <1>1 DEF Routed
<1>3. QuarantinedIsBypassed'
  BY <1>1, <1>2 DEF QuarantinedIsBypassed, AgentInv, AgentsAreGated
<1>4. PICK e \in BOOLEAN : e = (notes.error \/ nextAgent \in setup.quarantined)
  OBVIOUS
<1>5. Found = [notes EXCEPT !.error = e]
  BY <1>1, <1>4 DEF Found, Note
<1>6. /\ Found \in Note /\ Found.docs = notes.docs /\ Found.reasoning = notes.reasoning
      /\ Found.tool = notes.tool /\ Found.verified = notes.verified /\ Found.decision = notes.decision
      /\ Found.error = e
  BY <1>1, <1>4, <1>5 DEF Note
<1>7. /\ notes.error => Found.error
      /\ nextAgent \in setup.quarantined => Found.error
      /\ nextAgent \notin setup.quarantined => Found.error = notes.error
  <2>1. notes.error \in BOOLEAN
    BY <1>1 DEF Note
  <2> QED BY <1>4, <1>6, <2>1
<1> QED BY <1>1, <1>2, <1>3, <1>6, <1>7

\* Handing over: what must hold of the next agent and the notes.
LEMMA HandsOver ==
  ASSUME MaxHops >= 8, AgentInv, NEW a \in Agent, Hop(a), NEW b \in Agent, NEW n \in Note, HandOver(b, n),
         Vouched(b, n, setup), OnTime(b, n, setup, hops + 1, raised)
  PROVE  AgentInv'
<1>1. /\ nextAgent' = b /\ notes' = n /\ raised' = raised
      /\ answer' = IF hops' >= MaxHops THEN "max_hops" ELSE "none"
  BY DEF HandOver, Respond
<1>2. /\ hops' = hops + 1 /\ hops' \in Nat /\ setup' = setup /\ setup \in Setups
      /\ QuarantinedIsBypassed' /\ ranAgents' \subseteq Agent /\ raised \in BOOLEAN
  BY Hops DEF AgentInv, APTypes
<1>3. APTypes'
  BY <1>1, <1>2 DEF APTypes
<1>4. Vouched(nextAgent, notes, setup)' /\ OnTime(nextAgent, notes, setup, hops, raised)'
  BY <1>1, <1>2
<1>5. HopsSuffice'
  <2> SUFFICES ASSUME hops' >= MaxHops, ~raised, setup.quarantined = {}, ~Delayed(n, setup)
               PROVE  FALSE
    BY <1>1, <1>2 DEF HopsSuffice, Refused, Delayed
  <2>1. hops + 1 = Turn[b]
    BY DEF OnTime
  <2>2. Turn[b] \in 0 .. 6
    BY DEF Turn, Agent
  <2> QED BY <1>2, <2>1, <2>2, PipelineAssumption
<1>6. AgentsAreGated'
  BY <1>1, <1>2, <1>5 DEF AgentsAreGated, AnswerIsGrounded, AnswerMetPolicy
<1> QED BY <1>3, <1>4, <1>6 DEF AgentInv

LEMMA AgentRaises ==
  ASSUME MaxHops >= 8, AgentInv, NEW a \in Agent, Hop(a), a \notin {"policy", "response"}, Raises
  PROVE  AgentInv'
<1>1. /\ nextAgent' = "orchestrator" /\ notes' = Found /\ raised' = TRUE
      /\ answer' = IF hops' >= MaxHops THEN "max_hops" ELSE "none"
  BY DEF Raises, Respond
<1>2. /\ hops' = hops + 1 /\ hops' \in Nat /\ setup' = setup /\ setup \in Setups
      /\ QuarantinedIsBypassed' /\ ranAgents' \subseteq Agent /\ Found \in Note
  BY Hops
<1>3. APTypes'
  BY <1>1, <1>2 DEF APTypes, Agent
<1>4. Vouched("orchestrator", Found, setup)
  BY Hops DEF AgentInv, Vouched
<1>5. OnTime("orchestrator", Found, setup, hops + 1, TRUE)
  BY DEF OnTime
<1>6. AgentsAreGated'
  BY <1>1, <1>2 DEF AgentsAreGated, AnswerIsGrounded, AnswerMetPolicy, HopsSuffice
<1>7. Vouched(nextAgent, notes, setup)' /\ OnTime(nextAgent, notes, setup, hops, raised)'
  BY <1>1, <1>2, <1>4, <1>5
<1> QED BY <1>3, <1>6, <1>7 DEF AgentInv


\* The agents that gather: orchestrator, retrieval, fallback and reasoning.
LEMMA Gathers ==
  ASSUME MaxHops >= 8, AgentInv, Orchestrate \/ Retrieve \/ FallBack \/ Reason
  PROVE  AgentInv'
<1>1. CASE Orchestrate
  <2>1. PICK b : b = IF Found.error THEN "response" ELSE "retrieval"
    OBVIOUS
  <2>2. Hop("orchestrator") /\ HandOver(b, Found) /\ b \in Agent /\ "orchestrator" \in Agent
    BY <1>1, <2>1 DEF Orchestrate, Agent
  <2>3. nextAgent = "orchestrator" /\ Found.error = notes.error /\ Found \in Note /\ hops \in Nat
    BY <2>2, Hops DEF AgentInv, APTypes
  <2>4. Vouched(b, Found, setup)
    BY <2>1, <2>2, <2>3, Hops DEF AgentInv, Vouched
  <2>5. OnTime(b, Found, setup, hops + 1, raised)
    BY <2>1, <2>2, <2>3, Hops DEF AgentInv, OnTime, Delayed, Turn
  <2> QED BY <2>2, <2>3, <2>4, <2>5, HandsOver
<1>2. CASE Retrieve
  <2>1. Hop("retrieval") /\ "retrieval" \in Agent
    BY <1>2 DEF Retrieve, Agent
  <2>2. nextAgent = "retrieval" /\ ~notes.verified /\ Found \in Note
    BY <2>1, Hops DEF AgentInv, Vouched
  <2>3. CASE Raises
    BY <2>1, <2>3, AgentRaises
  <2>4. CASE ~Raises
    <3>1. PICK d \in {"some", "empty"}, b \in {"reasoning", "fallback"} :
            HandOver(b, [Found EXCEPT !.docs = d]) /\ (d = "some" <=> b = "reasoning")
      BY <1>2, <2>4 DEF Retrieve
    <3>2. PICK n : n = [Found EXCEPT !.docs = d]
      OBVIOUS
    <3>3. /\ n \in Note /\ n.docs = d /\ n.error = notes.error /\ n.verified = notes.verified
          /\ n.tool = notes.tool /\ n.decision = notes.decision /\ n.reasoning = notes.reasoning /\ b \in Agent
      BY <2>1, <2>2, <3>2, Hops DEF Note, Agent
    <3>4. Vouched(b, n, setup)
      BY <2>2, <3>3 DEF AgentInv, Vouched
    <3>5. OnTime(b, n, setup, hops + 1, raised)
      BY <2>1, <2>2, <3>1, <3>3, Hops DEF AgentInv, OnTime, Delayed, Turn
    <3> QED BY <2>1, <3>1, <3>2, <3>3, <3>4, <3>5, HandsOver
  <2> QED BY <2>3, <2>4
<1>3. CASE FallBack
  <2>1. Hop("fallback") /\ {"fallback", "tool"} \subseteq Agent
    BY <1>3 DEF FallBack, Agent
  <2>2. PICK n : n = [Found EXCEPT !.reasoning = "fallback"]
    OBVIOUS
  <2>3. HandOver("tool", n)
    BY <1>3, <2>2 DEF FallBack
  <2>4. /\ n \in Note /\ n.docs = notes.docs /\ n.error = Found.error /\ n.verified = notes.verified
        /\ n.tool = notes.tool /\ n.decision = notes.decision /\ n.reasoning = "fallback"
    BY <2>1, <2>2, Hops DEF Note
  <2>5. Vouched("tool", n, setup)
    BY <2>1, <2>4, Hops DEF AgentInv, Vouched
  <2>6. OnTime("tool", n, setup, hops + 1, raised)
    BY <2>1, <2>4, Hops DEF AgentInv, OnTime, Delayed, Turn
  <2> QED BY <2>1, <2>3, <2>4, <2>5, <2>6, HandsOver
<1>4. CASE Reason
  <2>1. Hop("reasoning") /\ {"reasoning", "tool"} \subseteq Agent
    BY <1>4 DEF Reason, Agent
  <2>2. CASE Raises
    BY <2>1, <2>2, AgentRaises
  <2>3. CASE ~Raises
    <3>1. PICK r \in {"healthy", "other"} : HandOver("tool", [Found EXCEPT !.reasoning = r])
      BY <1>4, <2>3 DEF Reason
    <3>2. PICK n : n = [Found EXCEPT !.reasoning = r]
      OBVIOUS
    <3>3. /\ n \in Note /\ n.docs = notes.docs /\ n.error = Found.error /\ n.verified = notes.verified
          /\ n.tool = notes.tool /\ n.decision = notes.decision /\ n.reasoning = r
      BY <2>1, <3>2, Hops DEF Note
    <3>4. Vouched("tool", n, setup)
      BY <2>1, <3>3, Hops DEF AgentInv, Vouched
    <3>5. OnTime("tool", n, setup, hops + 1, raised)
      BY <2>1, <3>3, Hops DEF AgentInv, OnTime, Delayed, Turn
    <3> QED BY <2>1, <3>1, <3>2, <3>3, <3>4, <3>5, HandsOver
  <2> QED BY <2>2, <2>3
<1> QED BY <1>1, <1>2, <1>3, <1>4

\* The agents that judge: tool, verifier, policy and response.
LEMMA Judges ==
  ASSUME MaxHops >= 8, AgentInv, UseTool \/ Verify \/ EvaluatePolicy \/ Answer
  PROVE  AgentInv'
<1>1. CASE UseTool
  <2>1. Hop("tool") /\ {"tool", "verifier"} \subseteq Agent
    BY <1>1 DEF UseTool, Agent
  <2>2. CASE Raises
    BY <2>1, <2>2, AgentRaises
  <2>3. CASE ~Raises
    <3>1. PICK t \in {"result", "healthy", "error_text", "error_dict"} :
            /\ t = "error_text" => setup.tools # "default"
            /\ HandOver("verifier", [Found EXCEPT !.tool = t])
      BY <1>1, <2>3 DEF UseTool, ToolOutcomes
    <3>2. PICK n : n = [Found EXCEPT !.tool = t]
      OBVIOUS
    <3>3. /\ n \in Note /\ n.docs = notes.docs /\ n.error = Found.error /\ n.verified = notes.verified
          /\ n.tool = t /\ n.decision = notes.decision /\ n.reasoning = notes.reasoning
      BY <2>1, <3>2, Hops DEF Note
    <3>4. Vouched("verifier", n, setup)
      BY <2>1, <3>1, <3>3, Hops DEF AgentInv, Vouched
    <3>5. OnTime("verifier", n, setup, hops + 1, raised)
      BY <2>1, <3>1, <3>3, Hops DEF AgentInv, OnTime, Delayed, Turn
    <3> QED BY <2>1, <3>1, <3>2, <3>3, <3>4, <3>5, HandsOver
  <2> QED BY <2>2, <2>3
<1>2. CASE Verify
  <2>1. Hop("verifier") /\ {"verifier", "fallback", "policy"} \subseteq Agent
    BY <1>2 DEF Verify, Agent
  <2>2. nextAgent = "verifier" /\ Found \in Note
    BY <2>1, Hops
  <2>3. CASE setup.real /\ ~Supported
    <3>1. HandOver("fallback", Found)
      BY <1>2, <2>3 DEF Verify
    <3>2. Vouched("fallback", Found, setup)
      BY <2>1, <2>2, Hops DEF AgentInv, Vouched
    <3>3. Delayed(Found, setup) /\ Delayed(notes, setup)
      BY <2>1, <2>2, <2>3, Hops DEF Supported, AgentInv, Vouched, Delayed
    <3>4. OnTime("fallback", Found, setup, hops + 1, raised)
      BY <2>1, <2>3, <3>3, Hops DEF AgentInv, OnTime
    <3> QED BY <2>1, <2>2, <3>1, <3>2, <3>4, HandsOver
  <2>4. CASE ~(setup.real /\ ~Supported)
    <3>1. PICK v \in BOOLEAN : v = Supported
      BY DEF Supported
    <3>2. PICK n : n = [Found EXCEPT !.verified = v]
      OBVIOUS
    <3>3. HandOver("policy", n)
      BY <1>2, <2>4, <3>1, <3>2 DEF Verify
    <3>4. /\ n \in Note /\ n.docs = notes.docs /\ n.error = Found.error /\ n.verified = v
          /\ n.tool = notes.tool /\ n.decision = notes.decision /\ n.reasoning = notes.reasoning
      BY <2>1, <3>2, Hops DEF Note
    <3>5. setup.real => notes.docs = "some" /\ notes.tool # "error_text"
      BY <2>1, <2>4, Hops DEF Supported
    <3>6. Vouched("policy", n, setup)
      BY <2>2, <3>4, <3>5 DEF AgentInv, Vouched
    <3>7. OnTime("policy", n, setup, hops + 1, raised)
      BY <2>1, <2>2, <3>4, Hops DEF AgentInv, OnTime, Delayed, Turn
    <3> QED BY <2>1, <3>3, <3>4, <3>6, <3>7, HandsOver
  <2> QED BY <2>3, <2>4
<1>3. CASE EvaluatePolicy
  <2>1. Hop("policy") /\ {"policy", "response"} \subseteq Agent
    BY <1>3 DEF EvaluatePolicy, Agent
  <2>2. PICK d \in {"deny", "allow", "needs_approval"} : d = GateDecision(setup.query)
    BY DEF GateDecision
  <2>3. PICK n : n = [Found EXCEPT !.decision = d]
    OBVIOUS
  <2>4. HandOver("response", n)
    BY <1>3, <2>2, <2>3 DEF EvaluatePolicy
  <2>5. /\ n \in Note /\ n.docs = notes.docs /\ n.error = Found.error /\ n.verified = notes.verified
        /\ n.tool = notes.tool /\ n.decision = d /\ n.reasoning = notes.reasoning
    BY <2>1, <2>3, Hops DEF Note
  <2>6. Vouched("response", n, setup)
    BY <2>1, <2>5, Hops DEF AgentInv, Vouched
  <2>7. OnTime("response", n, setup, hops + 1, raised)
    BY <2>1, <2>5, Hops DEF AgentInv, OnTime, Delayed, Turn
  <2> QED BY <2>1, <2>4, <2>5, <2>6, <2>7, HandsOver
<1>4. CASE Answer
  <2>1. Hop("response") /\ "response" \in Agent
    BY <1>4 DEF Answer, Agent
  <2>2. PICK text : /\ answer' = IF hops' >= MaxHops THEN "max_hops" ELSE text
                    /\ text \notin {"none", "max_hops"}
                    /\ text = "from_state" => Found.verified
    BY <1>4 DEF Answer, Respond
  <2>3. notes' = Found /\ nextAgent' = "response" /\ raised' = raised /\ raised \in BOOLEAN
    BY <1>4 DEF Answer, AgentInv, APTypes
  <2>4. /\ hops' = hops + 1 /\ hops' \in Nat /\ setup' = setup /\ setup \in Setups
        /\ QuarantinedIsBypassed' /\ ranAgents' \subseteq Agent /\ Found \in Note
    BY <2>1, Hops
  <2>5. APTypes'
    BY <2>1, <2>3, <2>4 DEF APTypes
  <2>6. Vouched("response", Found, setup)
    BY <2>1, Hops DEF AgentInv, Vouched
  <2>7. Vouched(nextAgent, notes, setup)'
    BY <2>3, <2>4, <2>6
  <2>8. AnswerIsGrounded'
    <3>1. setup.real /\ Found.verified =>
            /\ Found.docs = "some" /\ Found.tool # "unset"
            /\ Found.tool = "error_text" => setup.quarantined \cap {"policy", "response"} # {}
      BY <2>4, <2>6 DEF Vouched, Note
    <3> QED BY <2>2, <2>3, <2>4, <3>1 DEF AnswerIsGrounded
  <2>9. AnswerMetPolicy'
    <3>1. Found.verified => Found.decision # "unset" \/ "policy" \in setup.quarantined
      BY <2>6 DEF Vouched
    <3> QED BY <2>2, <2>3, <2>4, <3>1 DEF AnswerMetPolicy
  <2>10. HopsSuffice'
    <3> SUFFICES ASSUME hops' >= MaxHops, ~raised, setup.quarantined = {}, ~Delayed(Found, setup)
                 PROVE  FALSE
      BY <2>2, <2>3, <2>4 DEF HopsSuffice, Refused, Delayed
    <3>1. answer = "none" /\ nextAgent = "response" /\ ~Delayed(notes, setup)
      BY <2>1, Hops DEF Delayed
    <3>2. hops = 6
      BY <3>1 DEF AgentInv, OnTime, Turn
    <3> QED BY <2>4, <3>2, PipelineAssumption
  <2>11. answer' # "none"
    BY <2>2
  <2> QED BY <2>4, <2>5, <2>7, <2>8, <2>9, <2>10, <2>11 DEF AgentInv, AgentsAreGated
<1> QED BY <1>1, <1>2, <1>3, <1>4

\* AgentPipeline.run (agents.py), with at least eight hops (the default is fifteen) and
\* for any quarantine: on every route, through fallbacks, exceptions and agents that are
\* routed around, no quarantined agent executes but for the two stand-ins, a real answer
\* from the run's state rests on documents and on a tool's return value, which is an error
\* text only when policy or response is quarantined (an {"error": ..} dict passes as a
\* result), the answer met the policy gate unless that is quarantined, and the hops suffice
\* where nothing raises, no agent is quarantined and the verifier has nothing to refuse.
THEOREM AgentsStayGated == MaxHops >= 8 => (APSpec => []AgentsAreGated)
<1> SUFFICES ASSUME MaxHops >= 8 PROVE APSpec => []AgentsAreGated
  OBVIOUS
<1>1. APInit => AgentInv
  BY APInitInv
<1>2. AgentInv /\ [APNext]_apvars => AgentInv'
  <2> SUFFICES ASSUME AgentInv, [APNext]_apvars PROVE AgentInv'
    OBVIOUS
  <2>1. CASE APNext
    BY <2>1, Gathers, Judges DEF APNext
  <2>2. CASE UNCHANGED apvars
    BY <2>2 DEF apvars, AgentInv, APTypes, AgentsAreGated, QuarantinedIsBypassed, AnswerIsGrounded,
                AnswerMetPolicy, HopsSuffice, Refused
  <2> QED BY <2>1, <2>2
<1>3. AgentInv => AgentsAreGated
  BY DEF AgentInv
<1> QED BY <1>1, <1>2, <1>3, PTL DEF APSpec

-----------------------------------------------------------------------------
(***************************************************************************)
(* The transport gate (TransportGate): what is preserved does not differ,  *)
(* what is unknown does, and once everything is compared no difference is  *)
(* left out.                                                               *)
(***************************************************************************)

Authentic == signed /\ calibrated /\ (sameTenant \/ crossAllowed)

TransportInv ==
  /\ footprint \in [FootKinds -> SUBSET EnvVar] /\ differs \subseteq EnvVar
  /\ tpc \in {"authenticate", "components", "conditions", "cover", "decide", "done"}
  /\ tpc # "done" => tstatus = "none" /\ experiments = {}
  /\ tpc \notin {"authenticate", "done"} => Authentic
  /\ \A x \in preserved : x[2] \notin differs
  /\ \A x \in unknown : x[2] \in differs
  /\ tpc \in {"cover", "decide"} => \A k \in Hard : \A v \in footprint[k] \cap differs : <<k, v>> \in violated
  /\ tpc = "decide" => \A v \in differs : \E x \in violated \cup unknown : x[2] = v
  /\ DirectMeansSame /\ DifferencesAreAnswered

LEMMA TInitInv ==
  ASSUME TInit
  PROVE  TransportInv
  BY DEF TInit, Footprints, TransportInv, DirectMeansSame, DifferencesAreAnswered

LEMMA TStepInv ==
  ASSUME TransportInv, [TNext]_tvars
  PROVE  TransportInv'
<1>1. CASE Authenticate
  BY <1>1 DEF Authenticate, Build, inputs, TransportInv, Authentic, DirectMeansSame, DifferencesAreAnswered, Hard
<1>2. CASE EvaluateComponents
  <2>1. PICK bad, doubt : /\ bad \subseteq differs /\ doubt \subseteq differs
                          /\ footprint["component"] \cap differs \subseteq bad \cup doubt
                          /\ Split("component", bad, doubt)
    BY <1>2 DEF EvaluateComponents
  <2>2. /\ tpc = "components" /\ tpc' = "conditions" /\ UNCHANGED <<tstatus, experiments>>
        /\ UNCHANGED <<signed, calibrated, sameTenant, crossAllowed, differs, footprint>>
    BY <1>2 DEF EvaluateComponents, inputs
  <2>3. (\A x \in preserved' : x[2] \notin differs) /\ (\A x \in unknown' : x[2] \in differs)
    BY <2>1 DEF Split, TransportInv
  <2> QED BY <2>2, <2>3 DEF TransportInv, Authentic, DirectMeansSame, DifferencesAreAnswered
<1>3. CASE EvaluateConditions
  <2>1. /\ tpc = "conditions" /\ tpc' = "cover" /\ UNCHANGED <<tstatus, experiments>>
        /\ UNCHANGED <<signed, calibrated, sameTenant, crossAllowed, differs, footprint>>
        /\ violated' = violated \cup {x \in Hard \X differs : x[2] \in footprint[x[1]]}
        /\ unknown' = unknown \cup {x \in {"calibration"} \X differs : x[2] \in footprint[x[1]]}
        /\ preserved' = preserved \cup {x \in (Hard \cup {"calibration"}) \X (EnvVar \ differs) : x[2] \in footprint[x[1]]}
    BY <1>3 DEF EvaluateConditions, inputs
  <2>2. (\A x \in preserved' : x[2] \notin differs) /\ (\A x \in unknown' : x[2] \in differs)
    BY <2>1 DEF TransportInv
  <2>3. \A k \in Hard : \A v \in footprint[k] \cap differs : <<k, v>> \in violated'
    BY <2>1
  <2> QED BY <2>1, <2>2, <2>3 DEF TransportInv, Authentic, DirectMeansSame, DifferencesAreAnswered
<1>4. CASE CoverDifferences
  <2>1. /\ tpc = "cover" /\ tpc' = "decide" /\ UNCHANGED <<violated, preserved, tstatus, experiments>>
        /\ UNCHANGED <<signed, calibrated, sameTenant, crossAllowed, differs, footprint>>
        /\ unknown' = unknown \cup {<<"difference", v>> : v \in differs \ {c[2] : c \in violated \cup preserved \cup unknown}}
    BY <1>4 DEF CoverDifferences, inputs
  <2>2. \A x \in unknown' : x[2] \in differs
    BY <2>1 DEF TransportInv
  <2>3. ASSUME NEW v \in differs PROVE \E x \in violated \cup unknown' : x[2] = v
    <3>1. CASE v \in {c[2] : c \in violated \cup preserved \cup unknown}
      <4>1. PICK c \in violated \cup preserved \cup unknown : c[2] = v
        BY <3>1
      <4>2. c \notin preserved
        BY <4>1 DEF TransportInv
      <4> QED BY <2>1, <4>1, <4>2
    <3>2. CASE v \notin {c[2] : c \in violated \cup preserved \cup unknown}
      <4>1. <<"difference", v>> \in unknown' /\ <<"difference", v>>[2] = v
        BY <2>1, <3>2
      <4> QED BY <4>1
    <3> QED BY <3>1, <3>2
  <2> QED BY <2>1, <2>2, <2>3 DEF TransportInv, Authentic, DirectMeansSame, DifferencesAreAnswered
<1>5. CASE Decide
  <2>1. /\ tpc = "decide" /\ tpc' = "done" /\ UNCHANGED <<violated, preserved, unknown>>
        /\ UNCHANGED <<signed, calibrated, sameTenant, crossAllowed, differs, footprint>>
    BY <1>5 DEF Decide, Build, inputs
  <2>2. /\ violated # {} => tstatus' = "NOT_TRANSPORTABLE" /\ experiments' = {}
        /\ violated = {} /\ unknown # {} =>
             tstatus' = "TARGET_VALIDATION_REQUIRED" /\ experiments' \subseteq {u[2] : u \in unknown}
        /\ violated = {} /\ unknown = {} =>
             tstatus' = (IF differs = {} THEN "DIRECTLY_TRANSPORTABLE" ELSE "UNKNOWN") /\ experiments' = {}
    BY <1>5 DEF Decide, Build
  <2>3. Authentic
    BY <2>1 DEF TransportInv
  <2>4. DirectMeansSame'
    BY <2>1, <2>2, <2>3 DEF DirectMeansSame, Authentic
  <2>5. DifferencesAreAnswered'
    <3>1. differs # {} => violated # {} \/ unknown # {}
      BY <2>1 DEF TransportInv
    <3>2. differs # {} => tstatus' # "UNKNOWN"
      BY <2>2, <3>1
    <3>3. (\E k \in Hard : footprint[k] \cap differs # {}) => tstatus' = "NOT_TRANSPORTABLE"
      BY <2>1, <2>2 DEF TransportInv
    <3>4. experiments' \subseteq differs
      BY <2>2 DEF TransportInv
    <3> QED BY <2>1, <2>3, <3>2, <3>3, <3>4 DEF DifferencesAreAnswered, Authentic
  <2> QED BY <2>1, <2>4, <2>5 DEF TransportInv
<1>6. CASE UNCHANGED tvars
  BY <1>6 DEF tvars, TransportInv, Authentic, DirectMeansSame, DifferencesAreAnswered
<1> QED BY <1>1, <1>2, <1>3, <1>4, <1>5, <1>6 DEF TNext

-----------------------------------------------------------------------------
(***************************************************************************)
(* Policy resolution (PolicyResolution).  The walk up the tree meets       *)
(* exactly the ancestors, whatever cycles and gaps the registry has; the   *)
(* rules it collects are the binding ones; and each rule that is applied   *)
(* leaves the effective policy as strict as it was and as the rule is.     *)
(***************************************************************************)

Elems(s) == {s[i] : i \in DOMAIN s}
Effective ==
  [verdict : DOMAIN Rank, tier : DOMAIN TierRank, approvers : Nat, two : BOOLEAN, budget : Nat, roles : SUBSET PRole]

PTypes ==
  /\ ruleList \in [DOMAIN tree -> Seq(PolicyRule)] /\ role \in PRole
  /\ ppc \in {"walk", "tighten", "resolved", "conflict"} /\ lineage \in Seq(DOMAIN tree)
  /\ matching \in Seq(PolicyRule) /\ ruleNo \in 0 .. Len(matching) /\ effective \in Effective

\* The walk starts at the leaf and goes from node to parent.
WalkSound ==
  /\ lineage = <<>> => at = Leaf
  /\ lineage # <<>> => lineage[1] = Leaf /\ at = tree[lineage[Len(lineage)]].parent
  /\ \A i \in 1 .. Len(lineage) - 1 : lineage[i + 1] = tree[lineage[i]].parent

AsStrict(e, r) ==
  /\ Rank[e.verdict] <= Rank[r.verdict] /\ TierRank[e.tier] <= TierRank[r.tier]
  /\ e.approvers >= r.approvers /\ (r.two => e.two)
  /\ r.budget > 0 => (e.budget > 0 /\ e.budget <= r.budget)

\* The roles after the first n rules rs, as long as some role x is in all of them.
RolesSound(e, rs, n) ==
  \A x \in PRole : (\A r \in Elems(rs) : r.roles # {} => x \in r.roles) =>
    /\ e.roles # {} => x \in e.roles
    /\ \A i \in 1 .. n : rs[i].roles # {} => e.roles # {} /\ e.roles \subseteq rs[i].roles

Waiting == ppc \in {"walk", "tighten"} => decision = "none"
Judged ==
  /\ decision # "none" => ppc \in {"resolved", "conflict"} /\ decision = EngineVerdict
  /\ direction # "none" => decision # "none"
  /\ direction # "tightened"

PolicyInv ==
  /\ PTypes /\ WalkSound /\ Waiting /\ Judged
  /\ ppc = "walk" => ruleNo = 0 /\ effective = Start
  /\ ppc # "walk" => Elems(matching) = Binding
  /\ ppc = "tighten" => matching # <<>>
  /\ ppc = "resolved" => ruleNo = Len(matching) /\ (matching = <<>> => effective.verdict = "deny")
  /\ \A i \in 1 .. ruleNo : AsStrict(effective, matching[i])
  /\ ppc # "walk" => RolesSound(effective, matching, ruleNo)

\* A set of numbers that holds 0 and the successor of every number below n that
\* it holds goes up to n.
LEMMA UpTo ==
  ASSUME NEW n \in Nat, NEW S, 0 \in S, \A i \in 0 .. n - 1 : i \in S => i + 1 \in S
  PROVE  0 .. n \subseteq S
<1> DEFINE T == (0 .. n) \ S
<1>1. SUFFICES ASSUME T # {} PROVE FALSE
  BY <1>1
<1>2. T \subseteq Nat
  OBVIOUS
<1>3. PICK m \in T : \A y \in T : ~(<<y, m>> \in OpToRel(<, Nat))
  BY <1>1, <1>2, NatLessThanWellFounded, WFMin
<1>4. m \in 0 .. n /\ m \notin S /\ m # 0
  BY <1>3
<1>5. m - 1 \in 0 .. n - 1 /\ m - 1 \in Nat /\ m \in Nat /\ (m - 1) + 1 = m /\ m - 1 < m
  BY <1>4
<1>6. m - 1 \notin T
  BY <1>3, <1>5 DEF OpToRel
<1>7. m - 1 \in S
  BY <1>5, <1>6
<1> QED BY <1>4, <1>5, <1>7

LEMMA LeastNumber ==
  ASSUME NEW C, C \subseteq Nat, C # {}
  PROVE  \E m \in C : \A j \in C : m <= j
<1>1. PICK m \in C : \A y \in C : ~(<<y, m>> \in OpToRel(<, Nat))
  BY NatLessThanWellFounded, WFMin
<1>2. \A y \in C : y \in Nat /\ m \in Nat /\ ~(y < m)
  BY <1>1 DEF OpToRel
<1> QED BY <1>2

\* The first rule that covers the action is a rule of the node.
LEMMA RuleIsRule ==
  ASSUME PTypes, NEW n \in DOMAIN tree, HasRule(n)
  PROVE  RuleOf(n) \in PolicyRule
<1>1. ruleList[n] \in Seq(PolicyRule) /\ Covering(n) # {} /\ Covering(n) \subseteq DOMAIN ruleList[n]
  BY DEF PTypes, HasRule, Covering
<1>2. Covering(n) \subseteq Nat
  BY <1>1
<1>3. PICK m \in Covering(n) : \A j \in Covering(n) : m <= j
  BY <1>1, <1>2, LeastNumber
<1>4. (CHOOSE i \in Covering(n) : \A j \in Covering(n) : i <= j) \in Covering(n)
  BY <1>3
<1>5. PICK k : k = CHOOSE i \in Covering(n) : \A j \in Covering(n) : i <= j
  OBVIOUS
<1>6. k \in DOMAIN ruleList[n] /\ RuleOf(n) = ruleList[n][k]
  BY <1>1, <1>4, <1>5 DEF RuleOf
<1> QED BY <1>1, <1>6

\* The rules after the first i nodes of a chain.
LEMMA RulesAreDefined ==
  ASSUME NEW chain, Len(chain) \in Nat
  PROVE  \E g : /\ g = [i \in 0 .. Len(chain) |-> IF i = 0 THEN <<>> ELSE AddRule(g[i - 1], chain[i])]
                /\ RulesOf(chain) = g[Len(chain)]
<1> DEFINE Upto(m, g) == g = [i \in 0 .. m |-> IF i = 0 THEN <<>> ELSE AddRule(g[i - 1], chain[i])]
           Defined == {m \in Nat : \E g : Upto(m, g)}
           n == Len(chain)
<1>1. n \in Nat
  OBVIOUS
<1>2. 0 \in Defined
  <2>1. Upto(0, [i \in 0 .. 0 |-> <<>>])
    OBVIOUS
  <2> QED BY <2>1
<1>3. ASSUME NEW m \in 0 .. n - 1, m \in Defined PROVE m + 1 \in Defined
  <2>1. PICK g : Upto(m, g)
    BY <1>3
  <2> DEFINE h == [i \in 0 .. m + 1 |-> IF i <= m THEN g[i] ELSE AddRule(g[m], chain[m + 1])]
  <2>2. m \in Nat
    BY <1>1
  <2>3. \A i \in 0 .. m : h[i] = g[i]
    BY <2>2
  <2>4. ASSUME NEW i \in 0 .. m + 1
        PROVE  h[i] = IF i = 0 THEN <<>> ELSE AddRule(h[i - 1], chain[i])
    <3>1. CASE i = 0
      BY <2>1, <2>2, <2>3, <3>1
    <3>2. CASE i # 0 /\ i <= m
      <4>1. i \in 0 .. m /\ i - 1 \in 0 .. m
        BY <2>2, <2>4, <3>2
      <4>2. g[i] = AddRule(g[i - 1], chain[i])
        BY <2>1, <3>2, <4>1
      <4> QED BY <2>3, <3>2, <4>1, <4>2
    <3>3. CASE i = m + 1
      <4>1. h[i] = AddRule(g[m], chain[m + 1]) /\ i - 1 = m /\ i # 0 /\ h[m] = g[m]
        BY <2>2, <2>3, <3>3
      <4> QED BY <3>3, <4>1
    <3> QED BY <2>2, <2>4, <3>1, <3>2, <3>3
  <2>5. Upto(m + 1, h)
    BY <2>2, <2>4
  <2>6. m + 1 \in Nat
    BY <2>2
  <2>7. \E k : Upto(m + 1, k)
    <3> HIDE DEF h, Upto
    <3> QED BY <2>5
  <2> HIDE DEF Upto
  <2> QED BY <2>6, <2>7
<1> HIDE DEF Defined
<1>4. n \in Defined
  <2>1. \A m \in 0 .. n - 1 : m \in Defined => m + 1 \in Defined
    BY <1>3
  <2> HIDE DEF n
  <2>2. 0 .. n \subseteq Defined
    BY <1>1, <1>2, <2>1, UpTo
  <2> QED BY <1>1, <2>2
<1>5. \E g : Upto(n, g)
  BY <1>4 DEF Defined
<1> DEFINE after == CHOOSE g : Upto(n, g)
<1>6. Upto(n, after)
  BY <1>5
<1>7. RulesOf(chain) = after[n]
  BY DEF RulesOf
<1> QED BY <1>6, <1>7

\* The rules of a chain are those of its nodes that have one.
LEMMA RulesOfChain ==
  ASSUME PTypes, NEW chain \in Seq(DOMAIN tree)
  PROVE  /\ RulesOf(chain) \in Seq(PolicyRule)
         /\ Elems(RulesOf(chain)) = {RuleOf(n) : n \in {m \in Elems(chain) : HasRule(m)}}
<1> DEFINE n == Len(chain)
<1>1. n \in Nat /\ DOMAIN chain = 1 .. n
  OBVIOUS
<1>2. PICK g : /\ g = [i \in 0 .. n |-> IF i = 0 THEN <<>> ELSE AddRule(g[i - 1], chain[i])]
               /\ RulesOf(chain) = g[n]
  BY <1>1, RulesAreDefined
<1> DEFINE R(i) == {RuleOf(chain[j]) : j \in {k \in 1 .. i : HasRule(chain[k])}}
           S == {i \in 0 .. n : g[i] \in Seq(PolicyRule) /\ Elems(g[i]) = R(i)}
<1> HIDE DEF n
<1>3. 0 \in S
  <2>1. g[0] = <<>>
    BY <1>1, <1>2
  <2>2. R(0) = {}
    <3>1. 1 .. 0 = {}
      OBVIOUS
    <3> QED BY <3>1
  <2>3. Elems(g[0]) = {}
    <3>1. DOMAIN g[0] = {}
      BY <2>1
    <3> QED BY <3>1 DEF Elems
  <2>4. g[0] \in Seq(PolicyRule)
    <3>1. <<>> \in Seq(PolicyRule)
      OBVIOUS
    <3> QED BY <2>1, <3>1, Zenon
  <2> QED BY <1>1, <2>2, <2>3, <2>4
<1>4. ASSUME NEW i \in 0 .. n - 1, i \in S PROVE i + 1 \in S
  <2>1. i + 1 \in 0 .. n /\ i + 1 # 0 /\ (i + 1) - 1 = i /\ i + 1 \in DOMAIN chain /\ i \in Nat
    BY <1>1
  <2>2. PICK c, s : c = chain[i + 1] /\ s = g[i]
    OBVIOUS
  <2>3. g[i + 1] = AddRule(s, c) /\ c \in DOMAIN tree /\ s \in Seq(PolicyRule) /\ Elems(s) = R(i)
    BY <1>2, <1>4, <2>1, <2>2
  <2>4. \A k \in 1 .. i + 1 : k \in 1 .. i \/ k = i + 1
    BY <2>1
  <2>5. i + 1 \in 1 .. i + 1 /\ \A k \in 1 .. i : k \in 1 .. i + 1
    BY <2>1
  <2>6. CASE HasRule(c)
    <3>1. PICK r : r = RuleOf(c)
      OBVIOUS
    <3>2. r \in PolicyRule
      BY <2>3, <2>6, <3>1, RuleIsRule
    <3>3. g[i + 1] = Append(s, r)
      BY <2>3, <2>6, <3>1 DEF AddRule
    <3>4. Append(s, r) \in Seq(PolicyRule) /\ Elems(Append(s, r)) = Elems(s) \cup {r}
      <4>1. PICK l : l = Len(s)
        OBVIOUS
      <4>2. /\ Append(s, r) \in Seq(PolicyRule) /\ l \in Nat /\ DOMAIN s = 1 .. l
            /\ DOMAIN Append(s, r) = 1 .. l + 1 /\ Append(s, r)[l + 1] = r
            /\ \A k \in 1 .. l : Append(s, r)[k] = s[k]
        BY <2>3, <3>2, <4>1
      <4>3. /\ \A k \in 1 .. l + 1 : k \in 1 .. l \/ k = l + 1
            /\ l + 1 \in 1 .. l + 1 /\ \A k \in 1 .. l : k \in 1 .. l + 1
        BY <4>2
      <4>4. Elems(Append(s, r)) \subseteq Elems(s) \cup {r}
        BY <4>2, <4>3 DEF Elems
      <4>5. Elems(s) \cup {r} \subseteq Elems(Append(s, r))
        BY <4>2, <4>3 DEF Elems
      <4> QED BY <4>2, <4>4, <4>5
    <3>5. R(i + 1) = R(i) \cup {r}
      BY <2>2, <2>4, <2>5, <2>6, <3>1
    <3> QED BY <2>1, <2>3, <3>3, <3>4, <3>5
  <2>7. CASE ~HasRule(c)
    <3>1. g[i + 1] = s
      BY <2>3, <2>7 DEF AddRule
    <3>2. R(i + 1) = R(i)
      BY <2>2, <2>4, <2>5, <2>7
    <3> QED BY <2>1, <2>3, <3>1, <3>2
  <2> QED BY <2>6, <2>7
<1>5. n \in S
  <2>1. \A i \in 0 .. n - 1 : i \in S => i + 1 \in S
    BY <1>4
  <2>2. n \in Nat
    BY <1>1
  <2> HIDE DEF S
  <2>3. 0 .. n \subseteq S
    BY <1>3, <2>1, <2>2, UpTo
  <2> QED BY <2>2, <2>3
<1>6. R(n) = {RuleOf(k) : k \in {m \in Elems(chain) : HasRule(m)}}
  BY <1>1 DEF Elems
<1> QED BY <1>2, <1>5, <1>6

\* A walk that cannot go on has met exactly the ancestors of the leaf.
LEMMA WalkMeetsAncestors ==
  ASSUME PTypes, WalkSound, ~Registered(at) \/ Walked(at)
  PROVE  Elems(lineage) = Ancestors
<1> DEFINE n == Len(lineage)
<1>1. /\ n \in Nat /\ DOMAIN lineage = 1 .. n /\ (lineage = <<>> <=> n = 0)
      /\ \A i \in 1 .. n : lineage[i] \in DOMAIN tree
  BY DEF PTypes
<1>2. /\ n = 0 => at = Leaf
      /\ n # 0 => lineage[1] = Leaf /\ at = tree[lineage[n]].parent
      /\ \A i \in 1 .. n - 1 : lineage[i + 1] = tree[lineage[i]].parent
  BY <1>1 DEF WalkSound
<1> HIDE DEF n
<1>3. Ancestors \subseteq Elems(lineage)
  <2>1. Elems(lineage) \subseteq DOMAIN tree
    BY <1>1 DEF Elems
  <2>2. ASSUME Leaf \in DOMAIN tree PROVE Leaf \in Elems(lineage)
    <3>1. n # 0
      BY <1>1, <1>2, <2>2 DEF Registered, Walked
    <3>2. 1 \in 1 .. n
      BY <1>1, <3>1
    <3> QED BY <1>1, <1>2, <3>1, <3>2 DEF Elems
  <2>3. ASSUME NEW m \in Elems(lineage), tree[m].parent \in DOMAIN tree
        PROVE  tree[m].parent \in Elems(lineage)
    <3>1. PICK i \in 1 .. n : m = lineage[i]
      BY <1>1 DEF Elems
    <3>2. CASE i = n
      <4>1. n # 0
        BY <1>1
      <4>2. at = tree[m].parent
        BY <1>2, <3>1, <3>2, <4>1
      <4> QED BY <2>3, <4>2 DEF Registered, Walked, Elems
    <3>3. CASE i # n
      <4>1. i \in 1 .. n - 1 /\ i + 1 \in 1 .. n
        BY <1>1, <3>3
      <4> QED BY <1>1, <1>2, <3>1, <4>1 DEF Elems
    <3> QED BY <3>2, <3>3
  <2>4. Closed(Elems(lineage))
    BY <2>2, <2>3 DEF Closed
  <2> QED BY <2>1, <2>4 DEF Ancestors
<1>4. ASSUME NEW S \in SUBSET DOMAIN tree, Closed(S), NEW j \in 1 .. n PROVE lineage[j] \in S
  <2> DEFINE T == {k \in 0 .. n : k = 0 \/ lineage[k] \in S}
  <2>1. n \in Nat /\ 0 \in T
    BY <1>1
  <2>2. ASSUME NEW k \in 0 .. n - 1, k \in T PROVE k + 1 \in T
    <3>1. k + 1 \in 1 .. n /\ k + 1 \in 0 .. n
      BY <1>1
    <3>2. CASE k = 0
      <4>1. lineage[1] = Leaf /\ Leaf \in DOMAIN tree
        BY <1>1, <1>2, <3>1, <3>2
      <4> QED BY <1>4, <3>1, <3>2, <4>1 DEF Closed
    <3>3. CASE k # 0
      <4>1. k \in 1 .. n - 1 /\ lineage[k] \in S
        BY <1>1, <2>2, <3>3
      <4>2. lineage[k + 1] = tree[lineage[k]].parent /\ lineage[k + 1] \in DOMAIN tree
        BY <1>1, <1>2, <3>1, <4>1
      <4> QED BY <1>4, <3>1, <4>1, <4>2 DEF Closed
    <3> QED BY <3>2, <3>3
  <2>3. \A k \in 0 .. n - 1 : k \in T => k + 1 \in T
    BY <2>2
  <2>4. 0 .. n \subseteq T
    <3> HIDE DEF T
    <3> QED BY <2>1, <2>3, UpTo
  <2>5. j \in 0 .. n /\ j # 0
    BY <1>1
  <2> QED BY <2>4, <2>5
<1>5. Elems(lineage) \subseteq Ancestors
  BY <1>1, <1>4 DEF Elems, Ancestors
<1> QED BY <1>3, <1>5

\* Applying a rule leaves the policy as strict as it was, and as the rule is.
LEMMA TightenKeeps ==
  ASSUME NEW e \in Effective, NEW r \in PolicyRule
  PROVE  /\ Tighten(e, r) \in Effective /\ AsStrict(Tighten(e, r), r)
         /\ \A s \in PolicyRule : AsStrict(e, s) => AsStrict(Tighten(e, r), s)
<1> DEFINE t == Tighten(e, r)
<1>1. (\A v \in DOMAIN Rank : Rank[v] \in Nat) /\ (\A v \in DOMAIN TierRank : TierRank[v] \in Nat)
  BY DEF Rank, TierRank
<1>2. /\ t.verdict \in DOMAIN Rank /\ Rank[t.verdict] <= Rank[e.verdict] /\ Rank[t.verdict] <= Rank[r.verdict]
      /\ t.verdict \in {e.verdict, r.verdict}
  BY <1>1 DEF Tighten, VerdictAfter, Effective, PolicyRule
<1>3. /\ t.tier \in DOMAIN TierRank /\ TierRank[t.tier] <= TierRank[e.tier] /\ TierRank[t.tier] <= TierRank[r.tier]
  BY <1>1 DEF Tighten, Effective, PolicyRule
<1>4. /\ t.approvers \in Nat /\ t.approvers >= e.approvers /\ t.approvers >= r.approvers
      /\ t.two \in BOOLEAN /\ (e.two => t.two) /\ (r.two => t.two)
  BY DEF Tighten, Effective, PolicyRule
<1>5. /\ t.budget \in Nat /\ (e.budget > 0 => t.budget > 0 /\ t.budget <= e.budget)
      /\ (r.budget > 0 => t.budget > 0 /\ t.budget <= r.budget)
  BY DEF Tighten, Lower, Effective, PolicyRule
<1>6. t.roles \in SUBSET PRole
  BY DEF Tighten, RolesAfter, Effective, PolicyRule
<1>7. t \in Effective
  BY <1>2, <1>3, <1>4, <1>5, <1>6 DEF Effective, Tighten
<1>8. AsStrict(t, r)
  BY <1>2, <1>3, <1>4, <1>5 DEF AsStrict
<1>9. ASSUME NEW s \in PolicyRule, AsStrict(e, s) PROVE AsStrict(t, s)
  <2>1. /\ e.verdict \in DOMAIN Rank /\ s.verdict \in DOMAIN Rank /\ e.tier \in DOMAIN TierRank
        /\ s.tier \in DOMAIN TierRank /\ e.approvers \in Nat /\ s.approvers \in Nat
        /\ e.budget \in Nat /\ s.budget \in Nat
    BY DEF Effective, PolicyRule
  <2> HIDE DEF t
  <2> QED BY <1>1, <1>2, <1>3, <1>4, <1>5, <1>9, <2>1 DEF AsStrict
<1> QED BY <1>7, <1>8, <1>9

\* While some role is in every restriction, the roles stay an intersection.
LEMMA RolesStaySound ==
  ASSUME NEW rs \in Seq(PolicyRule), NEW n \in 0 .. Len(rs) - 1, NEW e, RolesSound(e, rs, n)
  PROVE  RolesSound(Tighten(e, rs[n + 1]), rs, n + 1)
<1> DEFINE r == rs[n + 1]
           t == Tighten(e, r)
<1>1. /\ n + 1 \in DOMAIN rs /\ n \in Nat
      /\ \A i \in 1 .. n + 1 : i \in 1 .. n \/ i = n + 1
  OBVIOUS
<1>2. r \in Elems(rs)
  BY <1>1 DEF Elems
<1>3. t.roles = RolesAfter(e, r)
  BY DEF Tighten
<1> SUFFICES ASSUME NEW x \in PRole, \A s \in Elems(rs) : s.roles # {} => x \in s.roles
             PROVE  /\ t.roles # {} => x \in t.roles
                    /\ \A i \in 1 .. n + 1 : rs[i].roles # {} => t.roles # {} /\ t.roles \subseteq rs[i].roles
  BY DEF RolesSound
<1>4. /\ e.roles # {} => x \in e.roles
      /\ \A i \in 1 .. n : rs[i].roles # {} => e.roles # {} /\ e.roles \subseteq rs[i].roles
      /\ r.roles # {} => x \in r.roles
  BY <1>2 DEF RolesSound
<1> HIDE DEF t, r
<1>5. CASE r.roles = {}
  BY <1>1, <1>3, <1>4, <1>5 DEF RolesAfter, r
<1>6. CASE r.roles # {} /\ e.roles = {}
  BY <1>1, <1>3, <1>4, <1>6 DEF RolesAfter, r
<1>7. CASE r.roles # {} /\ e.roles # {}
  <2>1. t.roles = e.roles \cap r.roles /\ x \in t.roles
    BY <1>3, <1>4, <1>7 DEF RolesAfter
  <2> QED BY <1>1, <1>4, <1>7, <2>1 DEF r
<1> QED BY <1>5, <1>6, <1>7

LEMMA BindingKept ==
  ASSUME UNCHANGED <<tree, ruleList>>
  PROVE  Binding' = Binding
  BY DEF Binding, Ancestors, Closed, RuleOf, HasRule, Covering

LEMMA PInitInv ==
  ASSUME PInit
  PROVE  PolicyInv
<1>1. Start \in Effective /\ Start.roles = {} /\ Start.verdict = "allow"
  BY DEF Start, Effective, Rank, TierRank
<1>2. <<>> \in Seq(PolicyRule) /\ <<>> \in Seq(DOMAIN tree)
  OBVIOUS
<1>3. ruleList \in [DOMAIN tree -> Seq(PolicyRule)]
  BY PolicyRulesAssumption DEF PInit
<1>4. PTypes
  BY <1>1, <1>2, <1>3 DEF PInit, PTypes
<1>5. WalkSound /\ Waiting /\ Judged
  BY DEF PInit, WalkSound, Waiting, Judged
<1>6. \A i \in 1 .. ruleNo : FALSE
  BY DEF PInit
<1> QED BY <1>4, <1>5, <1>6 DEF PInit, PolicyInv

LEMMA WalksUp ==
  ASSUME PolicyInv, WalkUp
  PROVE  PolicyInv'
<1>1. /\ ppc = "walk" /\ at \in DOMAIN tree /\ lineage' = Append(lineage, at) /\ at' = tree[at].parent
      /\ UNCHANGED <<tree, ruleList, role, ppc, matching, ruleNo, effective, decision, direction>>
  BY DEF WalkUp, Registered
<1>2. PICK n : n = Len(lineage)
  OBVIOUS
<1>3. /\ lineage \in Seq(DOMAIN tree) /\ n \in Nat /\ (lineage = <<>> <=> n = 0)
      /\ lineage' \in Seq(DOMAIN tree) /\ Len(lineage') = n + 1 /\ lineage'[n + 1] = at
      /\ (\A i \in 1 .. n : lineage'[i] = lineage[i]) /\ lineage' # <<>>
  BY <1>1, <1>2 DEF PolicyInv, PTypes
<1>4. PTypes'
  BY <1>1, <1>3 DEF PolicyInv, PTypes
<1>5. lineage'[1] = Leaf
  <2>1. CASE n = 0
    BY <1>3, <2>1 DEF PolicyInv, WalkSound
  <2>2. CASE n # 0
    <3>1. 1 \in 1 .. n
      BY <1>3, <2>2
    <3> QED BY <1>3, <2>2, <3>1 DEF PolicyInv, WalkSound
  <2> QED BY <2>1, <2>2
<1>6. ASSUME NEW i \in 1 .. n PROVE lineage'[i + 1] = tree[lineage'[i]].parent
  <2>1. CASE i = n
    <3>1. n # 0 /\ at = tree[lineage[n]].parent
      BY <1>2, <1>3, <2>1 DEF PolicyInv, WalkSound
    <3> QED BY <1>3, <2>1, <3>1
  <2>2. CASE i # n
    <3>1. i \in 1 .. n - 1 /\ i + 1 \in 1 .. n
      BY <1>3, <2>2
    <3>2. lineage[i + 1] = tree[lineage[i]].parent
      BY <1>2, <3>1 DEF PolicyInv, WalkSound
    <3> QED BY <1>3, <3>1, <3>2
  <2> QED BY <2>1, <2>2
<1>7. WalkSound'
  <2>1. (n + 1) - 1 = n
    BY <1>3
  <2> QED BY <1>1, <1>3, <1>5, <1>6, <2>1 DEF WalkSound
<1>8. Waiting' /\ Judged'
  BY <1>1 DEF PolicyInv, Waiting, Judged
<1>9. \A i \in 1 .. ruleNo : FALSE
  BY <1>1 DEF PolicyInv
<1> QED BY <1>1, <1>4, <1>7, <1>8, <1>9 DEF PolicyInv

LEMMA Matches ==
  ASSUME PolicyInv, Match
  PROVE  PolicyInv'
<1>1. PICK n : n = Len(lineage)
  OBVIOUS
<1>2. PICK chain : chain = [i \in 1 .. n |-> lineage[n + 1 - i]]
  OBVIOUS
<1>3. /\ ppc = "walk" /\ (~Registered(at) \/ Walked(at)) /\ matching' = RulesOf(chain)
      /\ IF matching' = <<>> THEN ppc' = "resolved" /\ effective' = DefaultDeny
                             ELSE ppc' = "tighten" /\ UNCHANGED effective
      /\ UNCHANGED <<tree, ruleList, role, at, lineage, ruleNo, decision, direction>>
  BY <1>1, <1>2 DEF Match
<1>4. /\ lineage \in Seq(DOMAIN tree) /\ n \in Nat /\ DOMAIN lineage = 1 .. n
      /\ \A i \in 1 .. n : lineage[i] \in DOMAIN tree
  BY <1>1 DEF PolicyInv, PTypes
<1>5. \A i \in 1 .. n : n + 1 - i \in 1 .. n /\ n + 1 - (n + 1 - i) = i
  BY <1>4
<1>6. chain \in Seq(DOMAIN tree)
  <2>1. chain \in [1 .. n -> DOMAIN tree]
    BY <1>2, <1>4, <1>5
  <2> QED BY <1>4, <2>1
<1>7. Elems(chain) = Elems(lineage)
  <2>1. DOMAIN chain = 1 .. n /\ \A i \in 1 .. n : chain[i] = lineage[n + 1 - i]
    BY <1>2
  <2>2. Elems(chain) \subseteq Elems(lineage)
    BY <1>4, <1>5, <2>1 DEF Elems
  <2>3. \A i \in 1 .. n : lineage[i] = chain[n + 1 - i]
    BY <1>5, <2>1
  <2>4. Elems(lineage) \subseteq Elems(chain)
    BY <1>4, <1>5, <2>1, <2>3 DEF Elems
  <2> QED BY <2>2, <2>4
<1>8. Elems(chain) = Ancestors
  BY <1>3, <1>7, WalkMeetsAncestors DEF PolicyInv
<1>9. matching' \in Seq(PolicyRule) /\ Elems(matching') = Binding
  BY <1>3, <1>6, <1>8, RulesOfChain DEF PolicyInv, Binding
<1>10. ruleNo = 0 /\ effective = Start /\ decision = "none"
  BY <1>3 DEF PolicyInv, Waiting
<1>11. effective' \in Effective /\ effective'.roles = {} /\ (ppc' = "resolved" => effective'.verdict = "deny")
  <2>1. Start \in Effective /\ Start.roles = {}
    BY DEF Effective, Start, Rank, TierRank
  <2>2. DefaultDeny \in Effective /\ DefaultDeny.roles = {} /\ DefaultDeny.verdict = "deny"
    BY DEF Effective, Start, DefaultDeny, Rank, TierRank
  <2> QED BY <1>3, <1>10, <2>1, <2>2
<1>12. PTypes'
  <2>1. 0 \in 0 .. Len(matching')
    BY <1>9
  <2> QED BY <1>3, <1>9, <1>10, <1>11, <2>1 DEF PolicyInv, PTypes
<1>13. WalkSound' /\ Waiting' /\ Judged'
  BY <1>3, <1>10 DEF PolicyInv, WalkSound, Waiting, Judged
<1>14. \A i \in 1 .. 0 : FALSE
  OBVIOUS
<1>15. RolesSound(effective', matching', 0)
  BY <1>11, <1>14 DEF RolesSound
<1>16. Elems(matching') = Binding'
  BY <1>3, <1>9, BindingKept
<1>17. ppc' # "walk" /\ (ppc' = "tighten" => matching' # <<>>) /\ (ppc' = "resolved" => matching' = <<>> /\ Len(matching') = 0)
  BY <1>3
<1> QED BY <1>3, <1>10, <1>11, <1>12, <1>13, <1>14, <1>15, <1>16, <1>17 DEF PolicyInv

LEMMA AppliesRule ==
  ASSUME PolicyInv, ApplyRule
  PROVE  PolicyInv'
<1>1. PICK r : r = matching[ruleNo + 1]
  OBVIOUS
<1>2. /\ ppc = "tighten" /\ ruleNo < Len(matching)
      /\ \/ ppc' = "conflict" /\ UNCHANGED <<ruleNo, effective>>
         \/ ruleNo' = ruleNo + 1 /\ effective' = Tighten(effective, r) /\ UNCHANGED ppc
      /\ UNCHANGED <<tree, ruleList, role, at, lineage, matching, decision, direction>>
  BY <1>1 DEF ApplyRule
<1>3. WalkSound' /\ Waiting' /\ Judged' /\ Elems(matching') = Binding' /\ ppc' \in {"tighten", "conflict"}
  BY <1>2, BindingKept DEF PolicyInv, WalkSound, Waiting, Judged
<1>4. CASE ppc' = "conflict" /\ UNCHANGED <<ruleNo, effective>>
  BY <1>2, <1>3, <1>4 DEF PolicyInv, PTypes
<1>5. CASE ruleNo' = ruleNo + 1 /\ effective' = Tighten(effective, r) /\ UNCHANGED ppc
  <2>1. PICK k, e, rs : k = ruleNo /\ e = effective /\ rs = matching
    OBVIOUS
  <2>2. /\ rs \in Seq(PolicyRule) /\ k \in 0 .. Len(rs) - 1 /\ k \in Nat /\ e \in Effective
        /\ r = rs[k + 1] /\ RolesSound(e, rs, k) /\ \A i \in 1 .. k : AsStrict(e, rs[i])
    BY <1>1, <1>2, <2>1 DEF PolicyInv, PTypes
  <2>3. k + 1 \in 0 .. Len(rs) /\ k + 1 \in 1 .. Len(rs) /\ \A i \in 1 .. k + 1 : i \in 1 .. Len(rs) /\ (i \in 1 .. k \/ i = k + 1)
    BY <2>2
  <2>4. \A i \in 1 .. Len(rs) : rs[i] \in PolicyRule
    BY <2>2
  <2>5. /\ Tighten(e, r) \in Effective /\ AsStrict(Tighten(e, r), r)
        /\ \A s \in PolicyRule : AsStrict(e, s) => AsStrict(Tighten(e, r), s)
    BY <2>2, <2>3, <2>4, TightenKeeps
  <2>6. RolesSound(Tighten(e, r), rs, k + 1)
    BY <2>2, RolesStaySound
  <2>7. \A i \in 1 .. k + 1 : AsStrict(Tighten(e, r), rs[i])
    BY <2>2, <2>3, <2>4, <2>5
  <2>8. effective' = Tighten(e, r) /\ ruleNo' = k + 1 /\ matching' = rs
    BY <1>2, <1>5, <2>1
  <2>9. PTypes'
    BY <1>2, <1>5, <2>2, <2>3, <2>5, <2>8 DEF PolicyInv, PTypes
  <2> QED BY <1>2, <1>3, <1>5, <2>6, <2>7, <2>8, <2>9 DEF PolicyInv
<1> QED BY <1>2, <1>4, <1>5

LEMMA PStepInv ==
  ASSUME PolicyInv, [PNext]_pvars
  PROVE  PolicyInv'
<1>1. CASE Resolved
  <2>1. /\ ppc = "tighten" /\ ruleNo = Len(matching) /\ ppc' = "resolved"
        /\ UNCHANGED <<tree, ruleList, role, at, lineage, matching, ruleNo, effective, decision, direction>>
    BY <1>1 DEF Resolved
  <2>2. Waiting' /\ Judged'
    BY <2>1 DEF PolicyInv, Waiting, Judged
  <2>3. WalkSound' /\ PTypes'
    BY <2>1 DEF PolicyInv, WalkSound, PTypes
  <2>4. Binding' = Binding
    BY <2>1, BindingKept
  <2> QED BY <2>1, <2>2, <2>3, <2>4 DEF PolicyInv
<1>2. CASE Evaluate
  BY <1>2, BindingKept DEF Evaluate, EngineVerdict, PolicyInv, WalkSound, Waiting, Judged, PTypes
<1>3. CASE ShadowEvaluate
  <2>1. /\ decision # "none" /\ direction' \in {"unchanged", "tightened", "relaxed"}
        /\ direction' = "tightened" => (ShadowVerdict # decision /\ Rank[ShadowVerdict] < Rank[decision])
        /\ UNCHANGED <<tree, ruleList, role, ppc, at, lineage, matching, ruleNo, effective, decision>>
    BY <1>3 DEF ShadowEvaluate
  <2>2. ppc \in {"resolved", "conflict"} /\ decision = EngineVerdict /\ effective.verdict \in DOMAIN Rank
    BY <2>1 DEF PolicyInv, Judged, PTypes, Effective
  <2>3. ~(ShadowVerdict # decision /\ Rank[ShadowVerdict] < Rank[decision])
    BY <2>2 DEF EngineVerdict, ShadowVerdict, Rank
  <2>4. Judged'
    BY <2>1, <2>2, <2>3 DEF Judged, EngineVerdict
  <2>5. WalkSound' /\ Waiting' /\ Binding' = Binding /\ PTypes'
    BY <2>1, BindingKept DEF PolicyInv, WalkSound, Waiting, PTypes
  <2> QED BY <2>1, <2>4, <2>5 DEF PolicyInv
<1>4. CASE UNCHANGED pvars
  <2>1. UNCHANGED <<tree, ruleList, role, ppc, at, lineage, matching, ruleNo, effective, decision, direction>>
    BY <1>4 DEF pvars
  <2>2. WalkSound' /\ Waiting' /\ Judged' /\ Binding' = Binding /\ PTypes'
    BY <2>1, BindingKept DEF PolicyInv, WalkSound, Waiting, Judged, EngineVerdict, PTypes
  <2> QED BY <2>1, <2>2 DEF PolicyInv
<1> QED BY <1>1, <1>2, <1>3, <1>4, WalksUp, Matches, AppliesRule DEF PNext

LEMMA PInvTightens ==
  ASSUME PolicyInv
  PROVE  TighteningOnly /\ ProceedIsUnanimous /\ RolesAreIntersected /\ ShadowNeverStricter
<1>1. PICK rs, e : rs = matching /\ e = effective
  OBVIOUS
<1>2. rs \in Seq(PolicyRule) /\ e \in Effective /\ Len(rs) \in Nat
  BY <1>1 DEF PolicyInv, PTypes
<1>3. ppc = "resolved" => \A r \in Binding : AsStrict(e, r) /\ \E i \in 1 .. Len(rs) : r = rs[i]
  <2> SUFFICES ASSUME ppc = "resolved", NEW r \in Binding
               PROVE  AsStrict(e, r) /\ \E i \in 1 .. Len(rs) : r = rs[i]
    OBVIOUS
  <2>1. Elems(rs) = Binding /\ \A i \in 1 .. Len(rs) : AsStrict(e, rs[i])
    BY <1>1 DEF PolicyInv
  <2>2. PICK i \in 1 .. Len(rs) : r = rs[i]
    BY <1>2, <2>1 DEF Elems
  <2> QED BY <2>1, <2>2
<1>4. TighteningOnly
  BY <1>1, <1>3 DEF TighteningOnly, AsStrict
<1>5. decision \in {"allow", "needs_approval"} =>
        /\ ppc = "resolved" /\ e.verdict # "deny" /\ (e.roles # {} => role \in e.roles)
        /\ decision = "allow" => e.verdict # "needs_approval" /\ ~(e.approvers > 0)
  BY <1>1 DEF PolicyInv, Judged, EngineVerdict
<1>6. ASSUME decision = "allow"
      PROVE  Binding # {} /\ \A r \in Binding : r.verdict = "allow" /\ r.approvers = 0
  <2>1. ppc = "resolved" /\ e.verdict = "allow" /\ e.approvers = 0
    BY <1>2, <1>5, <1>6 DEF Effective, Rank
  <2>2. Binding # {}
    <3>1. rs # <<>> /\ Elems(rs) = Binding
      BY <1>1, <2>1 DEF PolicyInv
    <3>2. 1 \in DOMAIN rs
      BY <1>2, <3>1
    <3> QED BY <3>1, <3>2 DEF Elems
  <2>3. ASSUME NEW r \in Binding PROVE r.verdict = "allow" /\ r.approvers = 0
    <3>1. r \in PolicyRule /\ AsStrict(e, r)
      BY <1>2, <1>3, <2>1
    <3> QED BY <2>1, <3>1 DEF AsStrict, PolicyRule, Rank
  <2> QED BY <2>2, <2>3
<1>7. ProceedIsUnanimous
  BY <1>6 DEF ProceedIsUnanimous, Hook
<1>8. ASSUME decision \in {"allow", "needs_approval"}, NEW x \in PRole, \A s \in Restricting : x \in s,
             NEW s \in Restricting
      PROVE  role \in s
  <2>1. ppc = "resolved" /\ Elems(rs) = Binding /\ RolesSound(e, rs, Len(rs))
    BY <1>1, <1>5, <1>8 DEF PolicyInv
  <2>2. \A r \in Elems(rs) : r.roles # {} => x \in r.roles
    BY <1>8, <2>1 DEF Restricting
  <2>3. PICK r \in Binding : r.roles # {} /\ s = r.roles
    BY <1>8 DEF Restricting
  <2>4. PICK i \in 1 .. Len(rs) : r = rs[i]
    BY <1>3, <2>1
  <2>5. e.roles # {} /\ e.roles \subseteq s
    BY <2>1, <2>2, <2>3, <2>4 DEF RolesSound
  <2> QED BY <1>5, <1>8, <2>5
<1>9. RolesAreIntersected
  BY <1>8 DEF RolesAreIntersected
<1>10. ShadowNeverStricter
  BY DEF PolicyInv, Judged, ShadowNeverStricter
<1> QED BY <1>4, <1>7, <1>9, <1>10

LEMMA RecordsInitial ==
  ASSUME Init
  PROVE  /\ PInit /\ TInit /\ QInit /\ YInit /\ RAInit
         /\ PMInit /\ MInit /\ SMInit /\ CInit /\ LRInit
  BY DEF Init, PIdle, TIdle, QIdle, YIdle, RAIdle, SMIdle, CIdle

LEMMA RecordsSteps ==
  ASSUME [Next]_allVars
  PROVE  /\ [PNext]_pvars /\ [TNext]_tvars /\ [LRNext]_lrvars /\ [QNext]_qvars /\ [YNext]_yvars
         /\ [RANext]_ravars /\ [PMNext]_pmvars /\ [MNext]_mvars /\ [SMNext]_smvars /\ [CNext]_cvars
<1>1. CASE UNCHANGED allVars
  BY <1>1 DEF allVars
<1>2. CASE Next
  BY <1>2 DEF Next
<1> QED BY <1>1, <1>2

\* Policies only tighten (resolver.py, engine.py, hooks.py, shadow.py): for every registry,
\* with cycles, gaps and inactive nodes, and every rule list, the effective policy is as
\* strict as each rule of an active ancestor, a hook proceeds only if all of them allow it,
\* the roles are an intersection, and a shadow evaluation never finds the policy in force
\* stricter than the decision; and a recovery is transported only if every difference was
\* answered for (causal_transport_gate.py).
THEOREM PoliciesOnlyTighten == RecordsSpec => []PolicyOnlyTightens
<1> DEFINE Inv == PolicyInv /\ TransportInv
<1>1. Init => Inv
  BY RecordsInitial, PInitInv, TInitInv
<1>2. Inv /\ [Next]_allVars => Inv'
  BY RecordsSteps, PStepInv, TStepInv
<1>3. Inv => PolicyOnlyTightens
  BY PInvTightens DEF PolicyOnlyTightens, TransportInv
<1> QED BY <1>1, <1>2, <1>3, PTL DEF RecordsSpec

-----------------------------------------------------------------------------
(***************************************************************************)
(* The SQLite receipt store (LocalReceiptStore) implements the abstract    *)
(* grant: a row moves as a grant does, and the audit trail, attestations,  *)
(* refusals of a claimed receipt and the receipt object are stutters.      *)
(***************************************************************************)

RowStatus == {"ABSENT", "ISSUED", "VERIFIED", "CONSUMED", "RELEASED", "VOIDED", "EXPIRED"}
RowInv == row \in [LReceipt -> RowStatus]

\* How a row moves: inserted, claimed, used or closed.
RowMoves(r, s) ==
  /\ row' = [row EXCEPT ![r] = s]
  /\ \/ row[r] = "ABSENT" /\ s = "ISSUED"
     \/ row[r] = "ISSUED" /\ s = "VERIFIED"
     \/ row[r] = "VERIFIED" /\ s = "CONSUMED"
     \/ row[r] \in OpenStatus /\ s \in {"RELEASED", "VOIDED", "EXPIRED"}

LEMMA RowShape ==
  ASSUME [LRNext]_lrvars
  PROVE  UNCHANGED row \/ \E r \in LReceipt, s \in RowStatus : RowMoves(r, s)
<1>1. CASE UNCHANGED lrvars
  BY <1>1 DEF lrvars
<1>2. CASE LRNext
  <2>1. PICK r \in LReceipt :
          \/ IssueRow(r) \/ ClaimRow(r) \/ Refuse(r) \/ RecordAttestation(r) \/ TamperEvent(r)
          \/ SettleRow(r, "CONSUMED", "CONSUME") \/ SettleRow(r, "RELEASED", "RELEASE")
          \/ SettleRow(r, "VOIDED", "VOID")
          \/ IssueObject(r) \/ MarkVerified(r) \/ CommitObject(r) \/ ReleaseObject(r) \/ VoidObject(r)
    BY <1>2 DEF LRNext
  <2>2. CASE IssueRow(r) \/ ClaimRow(r)
    BY <2>2 DEF IssueRow, ClaimRow, RowMoves, RowStatus
  <2>3. CASE Refuse(r)
    BY <2>3 DEF Refuse, RowMoves, RowStatus, OpenStatus
  <2>4. CASE \/ SettleRow(r, "CONSUMED", "CONSUME") \/ SettleRow(r, "RELEASED", "RELEASE")
             \/ SettleRow(r, "VOIDED", "VOID")
    BY <2>4 DEF SettleRow, RowMoves, RowStatus, OpenStatus
  <2>5. CASE \/ RecordAttestation(r) \/ TamperEvent(r)
             \/ IssueObject(r) \/ MarkVerified(r) \/ CommitObject(r) \/ ReleaseObject(r) \/ VoidObject(r)
    BY <2>5 DEF RecordAttestation, TamperEvent, IssueObject, MarkVerified, CommitObject, ReleaseObject,
                VoidObject, storedVars
  <2> QED BY <2>1, <2>2, <2>3, <2>4, <2>5
<1> QED BY <1>1, <1>2

LEMMA RowStepInv ==
  ASSUME RowInv, [LRNext]_lrvars
  PROVE  RowInv'
  BY RowShape DEF RowInv, RowMoves

GrantRow == [r \in LReceipt |-> LocalGrantOf(row[r])]
ChargeRow == [r \in LReceipt |-> IF row[r] = "ABSENT" THEN 0 ELSE [pool |-> "local", cost |-> 0]]

\* Local grants cost nothing, so they never exhaust a budget.
LEMMA NothingTaken ==
  ASSUME RowInv
  PROVE  LocalGrants!Taken("local") = {}
<1>1. \A r \in LReceipt : GrantRow[r] \in {"open", "held", "used"} => ChargeRow[r].cost = 0
  BY DEF RowInv, RowStatus, GrantRow, ChargeRow, LocalGrantOf
<1>2. 1 .. 0 = {}
  OBVIOUS
<1>3. \A r \in LReceipt : GrantRow[r] \in {"open", "held", "used"} => {r} \X (1 .. ChargeRow[r].cost) = {}
  BY <1>1, <1>2
<1> QED BY <1>3 DEF LocalGrants!Taken, GrantRow, ChargeRow

\* The cardinality of the abstract specification is the one used here.
LEMMA LocalCardinality ==
  ASSUME NEW S
  PROVE  LocalGrants!Cardinality(S) = Cardinality(S)
  BY DEF LocalGrants!Cardinality, Cardinality

LEMMA LocalGrantStep ==
  ASSUME RowInv, [LRNext]_lrvars
  PROVE  [LocalGrants!GNext]_(LocalGrants!grantVars)
<1>1. LocalGrants!grantVars = <<GrantRow, ChargeRow>>
  BY DEF LocalGrants!grantVars, GrantRow, ChargeRow
<1>2. CASE UNCHANGED row
  BY <1>2 DEF LocalGrants!grantVars
<1>3. ASSUME NEW r \in LReceipt, NEW s \in RowStatus, RowMoves(r, s)
      PROVE  LocalGrants!GNext
  <2>1. GrantRow' = [GrantRow EXCEPT ![r] = LocalGrantOf(s)] /\ GrantRow[r] = LocalGrantOf(row[r])
    BY <1>3 DEF RowMoves, RowInv, GrantRow
  <2>2. CASE row[r] = "ABSENT" /\ s = "ISSUED"
    <3>1. GrantRow[r] = "none" /\ GrantRow' = [GrantRow EXCEPT ![r] = "open"]
      BY <2>1, <2>2 DEF LocalGrantOf
    <3>2. ChargeRow' = [ChargeRow EXCEPT ![r] = [pool |-> "local", cost |-> 0]]
      BY <1>3, <2>2 DEF RowMoves, RowInv, ChargeRow
    <3>3. Cardinality(LocalGrants!Taken("local")) = 0
      BY NothingTaken, FS_EmptySet
    <3>4. Cardinality(LocalGrants!Taken("local")) + 0 <= 0 /\ 0 \in 0 .. 0
      BY <3>3
    <3>5. LocalGrants!Grant(r, "local", 0)
      BY <3>1, <3>2, <3>4, LocalCardinality DEF LocalGrants!Grant, GrantRow, ChargeRow
    <3> QED BY <3>4, <3>5 DEF LocalGrants!GNext
  <2>3. CASE ~(row[r] = "ABSENT" /\ s = "ISSUED")
    <3>1. ChargeRow' = ChargeRow
      BY <1>3, <2>3 DEF RowMoves, RowInv, ChargeRow, OpenStatus
    <3>2. \/ GrantRow[r] = "open" /\ LocalGrantOf(s) = "held"
          \/ GrantRow[r] = "held" /\ LocalGrantOf(s) = "used"
          \/ GrantRow[r] \in {"open", "held"} /\ LocalGrantOf(s) = "closed"
      BY <1>3, <2>1, <2>3 DEF RowMoves, LocalGrantOf, OpenStatus
    <3>3. LocalGrants!Claim(r) \/ LocalGrants!Use(r) \/ LocalGrants!Close(r)
      BY <2>1, <3>1, <3>2 DEF LocalGrants!Claim, LocalGrants!Use, LocalGrants!Close, LocalGrants!Move,
                              GrantRow, ChargeRow
    <3> QED BY <3>3 DEF LocalGrants!GNext
  <2> QED BY <2>2, <2>3
<1> QED BY <1>2, <1>3, RowShape

\* The SQLite store (admission_store.py) implements the abstract single-use grant, for any
\* receipts, refusals, tampering with the trail and calls on the receipt object.
THEOREM LocalStoreRefinesGrant == RecordsSpec => LocalImplementsGrant
<1>1. Init => LRInit
  BY DEF Init
<1>2. LRInit => RowInv /\ LocalGrants!GInit
  BY DEF LRInit, RowInv, RowStatus, LocalGrants!GInit, LocalGrantOf
<1>3. [Next]_allVars => [LRNext]_lrvars
  BY RecordsSteps
<1>4. RowInv /\ [LRNext]_lrvars => RowInv' /\ [LocalGrants!GNext]_(LocalGrants!grantVars)
  BY RowStepInv, LocalGrantStep
<1> QED BY <1>1, <1>2, <1>3, <1>4, PTL DEF RecordsSpec, LocalImplementsGrant, LocalGrants!GSpec

-----------------------------------------------------------------------------
(***************************************************************************)
(* The causal cut (CausalCut).  Every failure path that starts at a        *)
(* searched source was found, or goes on from a path on the stack; what    *)
(* the exact search has kept is the cheapest cover among the combinations  *)
(* it has tried.                                                           *)
(***************************************************************************)

\* A path along edges without a repeated node, and one that ends in a target.
Walk(p) ==
  /\ p \in Seq(GNode) /\ p # <<>> /\ p[1] \in ends[1]
  /\ \A i \in 1 .. Len(p) - 1 : <<p[i], p[i + 1]>> \in edges
  /\ \A i, j \in DOMAIN p : i # j => p[i] # p[j]
FailurePath(p) == Walk(p) /\ p[Len(p)] \in ends[2]

LEMMA SimplePathIs ==
  ASSUME NEW p
  PROVE  p \in SimplePaths <=> FailurePath(p)
<1>0. IsFiniteSet(GNode) /\ Cardinality(GNode) \in Nat
  BY CutAssumption, FS_CardinalityType
<1>1. ASSUME p \in SimplePaths PROVE FailurePath(p)
  <2>1. PICK k \in 1 .. Cardinality(GNode) : p \in [1 .. k -> GNode]
    BY <1>1 DEF SimplePaths
  <2>2. k \in Nat /\ k >= 1 /\ p \in Seq(GNode) /\ Len(p) = k
    BY <1>0, <2>1
  <2>3. p # <<>>
    BY <2>2
  <2> QED BY <1>1, <2>2, <2>3 DEF SimplePaths, FailurePath, Walk
<1>2. ASSUME FailurePath(p) PROVE p \in SimplePaths
  <2>1. PICK k : k = Len(p)
    OBVIOUS
  <2>2. p \in Seq(GNode) /\ k \in Nat /\ k >= 1 /\ p \in [1 .. k -> GNode] /\ DOMAIN p = 1 .. k
    BY <1>2, <2>1 DEF FailurePath, Walk
  <2>3. p \in Injection(1 .. k, GNode)
    BY <1>2, <2>2 DEF FailurePath, Walk, Injection, IsInjective
  <2>4. Cardinality(1 .. k) <= Cardinality(GNode)
    BY <1>0, <2>3, FS_Injection
  <2>5. k <= Cardinality(GNode)
    BY <2>2, <2>4, FS_Interval
  <2>6. k \in 1 .. Cardinality(GNode)
    BY <1>0, <2>2, <2>5
  <2>7. p \in UNION {[1 .. m -> GNode] : m \in 1 .. Cardinality(GNode)}
    BY <2>2, <2>6
  <2> QED BY <1>2, <2>7 DEF SimplePaths, FailurePath, Walk
<1> QED BY <1>1, <1>2

\* Path q goes on to path p.
GoesOn(q, p) == Len(q) <= Len(p) /\ \A k \in 1 .. Len(q) : q[k] = p[k]

SearchInv ==
  /\ edges \in Graphs /\ ends \in Ends /\ offer \in Offers
  /\ searched \subseteq ends[1] /\ stack \in Seq(Seq(GNode)) /\ IsFiniteSet(paths)
  /\ \A i \in DOMAIN stack : Walk(stack[i])
  /\ \A p \in paths : FailurePath(p)
  /\ qpc = "search" => \A p \in SimplePaths : p[1] \in searched =>
       p \in paths \/ \E i \in DOMAIN stack : GoesOn(stack[i], p)
  /\ PathsAreComplete

LEMMA SearchInit ==
  ASSUME QInit
  PROVE  SearchInv
<1>1. stack = <<>> /\ DOMAIN stack = {} /\ paths = {} /\ searched = {} /\ qpc = "search"
  BY DEF QInit
<1>2. <<>> \in Seq(Seq(GNode))
  OBVIOUS
<1>3. stack \in Seq(Seq(GNode))
  BY <1>1, <1>2, Zenon
<1> QED BY <1>1, <1>3, FS_EmptySet DEF QInit, SearchInv, PathsAreComplete

\* What the search has found is left alone once it has ended.
LEMMA SearchKeeps ==
  ASSUME SearchInv, UNCHANGED <<edges, ends, offer, searched, stack, paths>>,
         qpc' = qpc \/ (qpc # "search" /\ qpc' # "search")
  PROVE  SearchInv'
<1>1. SimplePaths' = SimplePaths
  BY DEF SimplePaths
<1>2. \A p : (Walk(p)' <=> Walk(p)) /\ (FailurePath(p)' <=> FailurePath(p))
  BY DEF Walk, FailurePath
<1>3. \A i \in DOMAIN stack' : Walk(stack[i])'
  BY <1>2 DEF SearchInv
<1> QED BY <1>1, <1>2, <1>3 DEF SearchInv, PathsAreComplete

LEMMA Begins ==
  ASSUME SearchInv, BeginSource
  PROVE  SearchInv'
<1>1. PICK s \in ends[1] \ searched : searched' = searched \cup {s} /\ stack' = IF s \in GNode THEN <<<<s>>>> ELSE <<>>
  BY DEF BeginSource
<1>2. /\ qpc = "search" /\ stack = <<>> /\ qpc' = "search" /\ DOMAIN stack = {}
      /\ UNCHANGED <<edges, ends, offer, paths>>
  BY DEF BeginSource, qinput
<1>3. SimplePaths' = SimplePaths
  BY <1>2 DEF SimplePaths
<1>4. \A p : (Walk(p)' <=> Walk(p)) /\ (FailurePath(p)' <=> FailurePath(p))
  BY <1>2 DEF Walk, FailurePath
<1>5. \A p \in SimplePaths : p[1] \in searched => p \in paths
  BY <1>2 DEF SearchInv
<1>6. CASE s \notin GNode
  <2>1. stack' = <<>> /\ DOMAIN stack' = {}
    BY <1>1, <1>6
  <2>2. stack' \in Seq(Seq(GNode))
    <3>1. <<>> \in Seq(Seq(GNode))
      OBVIOUS
    <3> QED BY <2>1, <3>1, Zenon
  <2>3. \A p \in SimplePaths : p[1] # s
    <3>1. \A p \in SimplePaths : p \in Seq(GNode) /\ p # <<>>
      BY SimplePathIs DEF FailurePath, Walk
    <3> QED BY <1>6, <3>1
  <2> QED BY <1>1, <1>2, <1>3, <1>4, <1>5, <2>1, <2>2, <2>3 DEF SearchInv, PathsAreComplete
<1>7. CASE s \in GNode
  <2>1. PICK q : q = <<s>>
    OBVIOUS
  <2>2. /\ q \in Seq(GNode) /\ q # <<>> /\ Len(q) = 1 /\ q[1] = s /\ DOMAIN q = {1}
    BY <1>7, <2>1
  <2>3. stack' = <<q>>
    BY <1>1, <1>7, <2>1
  <2>4. stack' \in Seq(Seq(GNode)) /\ DOMAIN stack' = {1} /\ stack'[1] = q
    BY <2>2, <2>3
  <2>5. Walk(q)
    BY <1>1, <2>2 DEF Walk
  <2>6. ASSUME NEW p \in SimplePaths, p[1] = s PROVE GoesOn(q, p)
    <3>1. p \in Seq(GNode) /\ p # <<>>
      BY SimplePathIs DEF FailurePath, Walk
    <3>2. Len(p) >= 1
      BY <3>1
    <3> QED BY <2>2, <2>6, <3>2 DEF GoesOn
  <2>7. \A p \in SimplePaths : p[1] \in searched' => p \in paths \/ \E i \in DOMAIN stack' : GoesOn(stack'[i], p)
    BY <1>1, <1>5, <2>4, <2>6
  <2>8. \A i \in DOMAIN stack' : Walk(stack'[i])
    BY <2>4, <2>5
  <2> QED BY <1>1, <1>2, <1>3, <1>4, <2>4, <2>7, <2>8 DEF SearchInv, PathsAreComplete
<1> QED BY <1>6, <1>7

LEMMA SearchStops ==
  ASSUME SearchInv, SearchEnds
  PROVE  SearchInv'
<1>1. /\ qpc = "search" /\ stack = <<>> /\ DOMAIN stack = {} /\ searched = ends[1] /\ qpc' # "search"
      /\ UNCHANGED <<edges, ends, offer, searched, stack, paths>>
  BY DEF SearchEnds, qinput
<1>2. SimplePaths \subseteq paths
  <2>1. \A p \in SimplePaths : p[1] \in ends[1]
    BY DEF SimplePaths
  <2> QED BY <1>1, <2>1 DEF SearchInv
<1>3. paths \subseteq SimplePaths
  BY SimplePathIs DEF SearchInv
<1>4. SimplePaths' = SimplePaths
  BY <1>1 DEF SimplePaths
<1>5. \A p : (Walk(p)' <=> Walk(p)) /\ (FailurePath(p)' <=> FailurePath(p))
  BY <1>1 DEF Walk, FailurePath
<1>6. \A i \in DOMAIN stack' : Walk(stack[i])'
  BY <1>1
<1> QED BY <1>1, <1>2, <1>3, <1>4, <1>5, <1>6 DEF SearchInv, PathsAreComplete

\* A path that goes on to a neighbour that is not on it.
LEMMA WalksOn ==
  ASSUME NEW path, Walk(path), NEW n \in GNode, <<path[Len(path)], n>> \in edges, ~OnPath(path, n)
  PROVE  /\ Walk(Append(path, n)) /\ Append(path, n) \in Seq(GNode)
         /\ Len(Append(path, n)) = Len(path) + 1 /\ Append(path, n)[Len(path) + 1] = n
         /\ \A k \in 1 .. Len(path) : Append(path, n)[k] = path[k]
<1>1. PICK q, l : q = Append(path, n) /\ l = Len(path)
  OBVIOUS
<1>2. path \in Seq(GNode) /\ path # <<>> /\ l \in Nat /\ l >= 1 /\ DOMAIN path = 1 .. l
  BY <1>1 DEF Walk
<1>3. q \in Seq(GNode) /\ q # <<>> /\ Len(q) = l + 1 /\ q[l + 1] = n /\ (\A k \in 1 .. l : q[k] = path[k])
      /\ DOMAIN q = 1 .. l + 1
  BY <1>1, <1>2, AppendProperties
<1>4. ASSUME NEW i \in 1 .. l PROVE <<q[i], q[i + 1]>> \in edges
  <2>1. CASE i = l
    BY <1>1, <1>2, <1>3, <2>1
  <2>2. CASE i # l
    <3>1. i \in 1 .. l - 1 /\ i + 1 \in 1 .. l
      BY <1>2, <2>2
    <3> QED BY <1>1, <1>3, <3>1 DEF Walk
  <2> QED BY <2>1, <2>2
<1>5. ASSUME NEW i \in 1 .. l + 1, NEW j \in 1 .. l + 1, i # j PROVE q[i] # q[j]
  <2>1. \A k \in 1 .. l : q[k] # n
    BY <1>2, <1>3 DEF OnPath
  <2>2. \A a, b \in 1 .. l : a # b => q[a] # q[b]
    BY <1>2, <1>3 DEF Walk
  <2>3. (i = l + 1 \/ i \in 1 .. l) /\ (j = l + 1 \/ j \in 1 .. l)
    BY <1>2
  <2> QED BY <1>3, <1>5, <2>1, <2>2, <2>3
<1>6. (l + 1) - 1 = l /\ 1 \in 1 .. l
  BY <1>2
<1>7. Walk(q)
  BY <1>3, <1>4, <1>5, <1>6 DEF Walk
<1> QED BY <1>1, <1>3, <1>7

LEMMA Pops ==
  ASSUME SearchInv, PopPath
  PROVE  SearchInv'
<1>1. PICK l, path : l = Len(stack) /\ path = stack[l]
  OBVIOUS
<1>2. PICK curr, next : /\ curr = path[Len(path)]
                        /\ next = {n \in GNode : <<curr, n>> \in edges /\ ~OnPath(path, n)}
  OBVIOUS
<1>3. /\ qpc = "search" /\ qpc' = "search" /\ stack # <<>>
      /\ UNCHANGED <<edges, ends, offer, searched>>
      /\ paths' = IF curr \in ends[2] THEN paths \cup {path} ELSE paths
  BY <1>1, <1>2 DEF PopPath, qinput
<1>4. PICK s \in [1 .. Cardinality(next) -> next] :
        /\ {s[i] : i \in DOMAIN s} = next
        /\ stack' = SubSeq(stack, 1, l - 1) \o [i \in DOMAIN s |-> Append(path, s[i])]
  BY <1>1, <1>2 DEF PopPath
<1>5. /\ stack \in Seq(Seq(GNode)) /\ l \in Nat /\ l >= 1 /\ DOMAIN stack = 1 .. l /\ Walk(path) /\ path \in Seq(GNode)
      /\ path # <<>> /\ Len(path) \in Nat /\ Len(path) >= 1
  BY <1>1, <1>3 DEF SearchInv, Walk
<1>6. PICK m : m = Cardinality(next)
  OBVIOUS
<1>7. m \in Nat /\ DOMAIN s = 1 .. m
  <2>1. IsFiniteSet(GNode) /\ next \in SUBSET GNode
    BY <1>2, CutAssumption
  <2> QED BY <1>4, <1>6, <2>1, FS_Subset, FS_CardinalityType
<1>8. PICK old, new : old = SubSeq(stack, 1, l - 1) /\ new = [i \in 1 .. m |-> Append(path, s[i])]
  OBVIOUS
<1>9. ASSUME NEW i \in 1 .. m
      PROVE  /\ s[i] \in GNode /\ Walk(new[i]) /\ new[i] \in Seq(GNode) /\ Len(new[i]) = Len(path) + 1
             /\ new[i][Len(path) + 1] = s[i] /\ \A k \in 1 .. Len(path) : new[i][k] = path[k]
  <2>1. s[i] \in next /\ new[i] = Append(path, s[i])
    BY <1>4, <1>7, <1>8
  <2>2. s[i] \in GNode /\ <<path[Len(path)], s[i]>> \in edges /\ ~OnPath(path, s[i])
    BY <1>2, <2>1
  <2> QED BY <1>5, <2>1, <2>2, WalksOn
<1>10. new \in Seq(Seq(GNode)) /\ Len(new) = m
  BY <1>7, <1>8, <1>9
<1>11. old \in Seq(Seq(GNode)) /\ Len(old) = l - 1 /\ \A i \in 1 .. l - 1 : old[i] = stack[i]
  <2>1. \A i \in 1 .. l - 1 : stack[i] \in Seq(GNode)
    BY <1>5
  <2> QED BY <1>5, <1>8, <2>1, SubSeqProperties
<1>12. stack' = old \o new
  BY <1>4, <1>7, <1>8
<1>13. /\ stack' \in Seq(Seq(GNode)) /\ Len(stack') = (l - 1) + m
       /\ \A i \in 1 .. (l - 1) + m : stack'[i] = IF i <= l - 1 THEN old[i] ELSE new[i - (l - 1)]
  BY <1>10, <1>11, <1>12, ConcatProperties
<1>14. DOMAIN stack' = 1 .. (l - 1) + m
  BY <1>13
<1>15. ASSUME NEW i \in 1 .. l - 1 PROVE i \in DOMAIN stack' /\ stack'[i] = stack[i]
  <2>1. i \in 1 .. (l - 1) + m /\ i <= l - 1
    BY <1>5, <1>7
  <2> QED BY <1>11, <1>13, <1>14, <2>1
<1>16. ASSUME NEW i \in 1 .. m PROVE (l - 1) + i \in DOMAIN stack' /\ stack'[(l - 1) + i] = new[i]
  <2>1. /\ (l - 1) + i \in 1 .. (l - 1) + m /\ ~((l - 1) + i <= l - 1) /\ ((l - 1) + i) - (l - 1) = i
    BY <1>5, <1>7
  <2> QED BY <1>13, <1>14, <2>1
<1>17. ASSUME NEW i \in DOMAIN stack' PROVE Walk(stack'[i])
  <2>1. CASE i <= l - 1
    <3>1. i \in 1 .. l - 1 /\ i \in DOMAIN stack
      BY <1>5, <1>7, <1>14, <2>1
    <3> QED BY <1>15, <3>1 DEF SearchInv
  <2>2. CASE ~(i <= l - 1)
    <3>1. i - (l - 1) \in 1 .. m /\ i \in 1 .. (l - 1) + m
      BY <1>5, <1>7, <1>14, <2>2
    <3> QED BY <1>9, <1>13, <2>2, <3>1
  <2> QED BY <2>1, <2>2
<1>18. SimplePaths' = SimplePaths
  BY <1>3 DEF SimplePaths
<1>19. \A p : (Walk(p)' <=> Walk(p)) /\ (FailurePath(p)' <=> FailurePath(p))
  BY <1>3 DEF Walk, FailurePath
<1>20. IsFiniteSet(paths') /\ \A p \in paths' : FailurePath(p)
  <2>1. curr \in ends[2] => FailurePath(path)
    BY <1>2, <1>5 DEF FailurePath
  <2>2. IsFiniteSet(paths)
    BY DEF SearchInv
  <2> QED BY <1>3, <2>1, <2>2, FS_AddElement DEF SearchInv
<1>21. ASSUME NEW p \in SimplePaths, p[1] \in searched
       PROVE  p \in paths' \/ \E i \in DOMAIN stack' : GoesOn(stack'[i], p)
  <2>1. p \in paths \/ \E i \in DOMAIN stack : GoesOn(stack[i], p)
    BY <1>3, <1>21 DEF SearchInv
  <2>2. CASE p \in paths
    BY <1>3, <2>2
  <2>3. CASE \E i \in 1 .. l - 1 : GoesOn(stack[i], p)
    BY <1>15, <2>3
  <2>4. CASE GoesOn(path, p)
    <3>1. Walk(p) /\ p[Len(p)] \in ends[2] /\ p \in Seq(GNode) /\ Len(p) \in Nat /\ DOMAIN p = 1 .. Len(p)
      BY SimplePathIs DEF FailurePath, Walk
    <3>2. CASE Len(p) = Len(path)
      <4>1. p = path
        BY <1>5, <2>4, <3>1, <3>2, SeqEqual DEF GoesOn
      <4> QED BY <1>2, <1>3, <3>1, <4>1
    <3>3. CASE Len(p) # Len(path)
      <4>1. PICK k, n : k = Len(path) /\ n = p[k + 1]
        OBVIOUS
      <4>2. k \in Nat /\ k >= 1 /\ k < Len(p) /\ k \in 1 .. Len(p) - 1 /\ k + 1 \in 1 .. Len(p)
        BY <1>5, <2>4, <3>1, <3>3, <4>1 DEF GoesOn
      <4>3. n \in GNode /\ <<p[k], n>> \in edges /\ p[k] = curr
        BY <1>2, <2>4, <3>1, <4>1, <4>2 DEF Walk, GoesOn
      <4>4. ~OnPath(path, n)
        <5> SUFFICES ASSUME NEW j \in DOMAIN path, path[j] = n PROVE FALSE
          BY DEF OnPath
        <5>1. j \in 1 .. k /\ p[j] = n /\ j # k + 1 /\ j \in DOMAIN p /\ k + 1 \in DOMAIN p
          BY <1>5, <2>4, <3>1, <4>1, <4>2 DEF GoesOn
        <5> QED BY <3>1, <4>1, <5>1 DEF Walk
      <4>5. n \in next
        BY <1>2, <4>3, <4>4
      <4>6. PICK i \in 1 .. m : s[i] = n
        BY <1>4, <1>7, <4>5
      <4>7. GoesOn(new[i], p)
        <5>1. Len(new[i]) = k + 1 /\ new[i][k + 1] = n /\ \A j \in 1 .. k : new[i][j] = p[j]
          BY <1>9, <2>4, <4>1, <4>2, <4>6 DEF GoesOn
        <5>2. \A j \in 1 .. k + 1 : j = k + 1 \/ j \in 1 .. k
          BY <4>2
        <5>3. k + 1 <= Len(p)
          BY <3>1, <4>2
        <5> QED BY <4>1, <5>1, <5>2, <5>3 DEF GoesOn
      <4> QED BY <1>16, <4>7
    <3> QED BY <3>2, <3>3
  <2>5. \A i \in DOMAIN stack : i = l \/ i \in 1 .. l - 1
    BY <1>5
  <2> QED BY <1>1, <2>1, <2>2, <2>3, <2>4, <2>5
<1>22. PathsAreComplete'
  BY <1>3 DEF PathsAreComplete
<1> QED BY <1>3, <1>13, <1>17, <1>18, <1>19, <1>20, <1>21, <1>22 DEF SearchInv

-----------------------------------------------------------------------------
\* Costs are numbers, and more actions never cost less.
LEMMA CostGrows ==
  ASSUME NEW O \in Offers, NEW C, NEW D, C \subseteq D, D \subseteq O
  PROVE  CostOf(C) \in Nat /\ CostOf(D) \in Nat /\ CostOf(C) <= CostOf(D) /\ CostOf(D) < Infinite
<1> DEFINE Units(E) == UNION {{a} \X (1 .. a.cost) : a \in E}
<1>1. IsFiniteSet(O) /\ CostOf(O) < Infinite /\ \A a \in O : a.cost \in Nat
  BY CutAssumption
<1>2. IsFiniteSet(Units(O))
  <2> DEFINE T == {{a} \X (1 .. a.cost) : a \in O}
  <2> DEFINE f == [a \in O |-> {a} \X (1 .. a.cost)]
  <2>1. f \in Surjection(O, T)
    BY DEF Surjection
  <2>2. IsFiniteSet(T)
    <3> HIDE DEF f, T
    <3> QED BY <1>1, <2>1, FS_Surjection
  <2>3. ASSUME NEW a \in O PROVE IsFiniteSet({a} \X (1 .. a.cost))
    <3>0. 1 \in Int /\ a.cost \in Int
      BY <1>1
    <3>1. IsFiniteSet({a}) /\ IsFiniteSet(1 .. a.cost)
      BY <3>0, FS_Singleton, FS_Interval
    <3> QED BY <3>1, FS_Product
  <2>4. \A t \in T : IsFiniteSet(t)
    BY <2>3
  <2>5. IsFiniteSet(UNION T)
    <3> HIDE DEF T
    <3> QED BY <2>2, <2>4, FS_UNION
  <2> QED BY <2>5
<1>3. Units(C) \subseteq Units(D) /\ Units(D) \subseteq Units(O)
  OBVIOUS
<1>4. /\ CostOf(C) = Cardinality(Units(C)) /\ CostOf(D) = Cardinality(Units(D)) /\ CostOf(O) = Cardinality(Units(O))
  BY DEF CostOf
<1> HIDE DEF Units
<1>5. IsFiniteSet(Units(D)) /\ Cardinality(Units(D)) <= Cardinality(Units(O))
  BY <1>2, <1>3, FS_Subset
<1>6. IsFiniteSet(Units(C)) /\ Cardinality(Units(C)) <= Cardinality(Units(D))
  BY <1>3, <1>5, FS_Subset
<1>7. Cardinality(Units(C)) \in Nat /\ Cardinality(Units(D)) \in Nat /\ Cardinality(Units(O)) \in Nat
  BY <1>2, <1>5, <1>6, FS_CardinalityType
<1> QED BY <1>1, <1>4, <1>5, <1>6, <1>7 DEF Infinite

\* Actions cover the paths exactly if each path meets one of them.
LEMMA CoverIs ==
  ASSUME NEW C
  PROVE  /\ Covered(C) \subseteq paths
         /\ Covered(C) = paths <=> \A p \in paths : \E a \in C : OnPath(p, a.on)
<1>1. \A p : p \in Covered(C) <=> p \in paths /\ \E a \in C : OnPath(p, a.on)
  BY DEF Covered, Hits
<1> QED BY <1>1

CutInv ==
  /\ qpc \in {"search", "exact", "greedy", "built"} /\ bestCost \in Nat /\ chosen \subseteq Useful
  /\ qpc = "search" => tried = {} /\ chosen = {} /\ bestCost = Infinite
  /\ qpc = "greedy" => tried = {}
  /\ qpc \in {"exact", "greedy"} => paths # {}
  /\ tried \subseteq Combinations /\ (tried # {} => paths # {})
  /\ \A C \in tried : Covered(C) = paths => bestCost <= CostOf(C)
  /\ qpc = "exact" => /\ chosen = {} => bestCost = Infinite
                      /\ chosen # {} => Covered(chosen) = paths
  /\ qpc = "built" /\ tried # {} => tried = Combinations
  /\ qpc \in {"search", "exact", "greedy"} => residual = {}
  /\ CutIsSound /\ ExactIsCheapest

LEMMA CutInit ==
  ASSUME QInit
  PROVE  CutInv
  BY DEF QInit, CutInv, Infinite, CutIsSound, ExactIsCheapest

\* The useful actions of a cover are a cover, and a combination if there is a path.
LEMMA UsefulCover ==
  ASSUME SearchInv, paths # {}, NEW C \in SUBSET offer, \A p \in paths : \E a \in C : OnPath(p, a.on)
  PROVE  /\ C \cap Useful \in Combinations /\ Covered(C \cap Useful) = paths
         /\ CostOf(C \cap Useful) \in Nat /\ CostOf(C) \in Nat /\ CostOf(C \cap Useful) <= CostOf(C)
         /\ CostOf(C) < Infinite
<1>1. PICK D : D = C \cap Useful
  OBVIOUS
<1>2. \A p \in paths : \E a \in D : OnPath(p, a.on)
  BY <1>1 DEF Useful, Hits
<1>3. D # {} /\ D \in Combinations
  BY <1>1, <1>2 DEF Combinations
<1>4. Covered(D) = paths
  BY <1>2, CoverIs
<1>5. offer \in Offers /\ D \subseteq C /\ C \subseteq offer
  BY <1>1 DEF SearchInv
<1>6. CostOf(D) \in Nat /\ CostOf(C) \in Nat /\ CostOf(D) <= CostOf(C) /\ CostOf(C) < Infinite
  BY <1>5, CostGrows
<1> QED BY <1>1, <1>3, <1>4, <1>6

LEMMA SearchCut ==
  ASSUME SearchInv, CutInv, BeginSource \/ PopPath \/ SearchEnds
  PROVE  CutInv'
<1>1. /\ qpc = "search" /\ UNCHANGED <<tried, chosen, bestCost, residual>>
  BY DEF BeginSource, PopPath, SearchEnds
<1>2. /\ tried = {} /\ chosen = {} /\ bestCost = Infinite /\ residual = {} /\ bestCost \in Nat
  BY <1>1 DEF CutInv
<1>3. /\ qpc' \in {"search", "exact", "greedy", "built"}
      /\ qpc' \in {"exact", "greedy"} => paths' # {}
      /\ qpc' = "built" => paths' = {}
  BY DEF BeginSource, PopPath, SearchEnds
<1>4. CutIsSound' /\ ExactIsCheapest'
  BY <1>1, <1>2, <1>3 DEF CutIsSound, ExactIsCheapest
<1> QED BY <1>1, <1>2, <1>3, <1>4 DEF CutInv

LEMMA TriesCut ==
  ASSUME SearchInv, CutInv, TryCombination
  PROVE  CutInv'
<1>1. /\ qpc = "exact" /\ qpc' = "exact" /\ UNCHANGED <<edges, ends, offer, paths, residual>> /\ paths # {}
  BY DEF TryCombination, qinput, CutInv
<1>2. PICK C \in Combinations : /\ tried' = tried \cup {C}
                                /\ IF Covered(C) = paths /\ CostOf(C) < bestCost
                                     THEN chosen' = C /\ bestCost' = CostOf(C) ELSE UNCHANGED <<chosen, bestCost>>
  BY DEF TryCombination
<1>3. (\A D : Covered(D)' = Covered(D)) /\ Useful' = Useful /\ Combinations' = Combinations
  BY <1>1 DEF Covered, Hits, Useful, Combinations
<1>4. C \subseteq Useful /\ C # {} /\ Useful \subseteq offer /\ offer \in Offers
  BY <1>2 DEF Combinations, Useful, SearchInv
<1>5. \A D \in tried' : CostOf(D) \in Nat
  <2>1. \A D \in tried' : D \subseteq offer
    BY <1>2, <1>4 DEF CutInv, Combinations
  <2> QED BY <1>4, <2>1, CostGrows
<1>6. CostOf(C) \in Nat /\ bestCost \in Nat /\ bestCost' \in Nat /\ bestCost' <= bestCost
  BY <1>2, <1>5 DEF CutInv
<1>7. ASSUME NEW D \in tried', Covered(D) = paths PROVE bestCost' <= CostOf(D)
  <2>1. CASE D \in tried
    BY <1>5, <1>6, <1>7, <2>1 DEF CutInv
  <2>2. CASE D = C
    BY <1>2, <1>6, <1>7, <2>2
  <2> QED BY <1>2, <2>1, <2>2
<1>8. chosen' \subseteq Useful /\ (chosen' = {} => bestCost' = Infinite) /\ (chosen' # {} => Covered(chosen') = paths)
  BY <1>1, <1>2, <1>4 DEF CutInv
<1>9. CutIsSound' /\ ExactIsCheapest'
  BY <1>1 DEF CutIsSound, ExactIsCheapest
<1>10. tried' \subseteq Combinations /\ residual' = {}
  BY <1>1, <1>2 DEF CutInv
<1>11. chosen' # {} => Covered(chosen)' = paths'
  BY <1>1, <1>8 DEF Covered, Hits
<1> QED BY <1>1, <1>3, <1>6, <1>7, <1>8, <1>9, <1>10, <1>11 DEF CutInv

LEMMA PicksCut ==
  ASSUME SearchInv, CutInv, GreedyPick
  PROVE  CutInv'
<1>1. /\ qpc = "greedy" /\ qpc' = "greedy" /\ UNCHANGED <<edges, ends, offer, paths, residual, tried, bestCost>>
      /\ paths # {} /\ tried = {} /\ residual = {} /\ bestCost \in Nat
  BY DEF GreedyPick, qinput, CutInv
<1>2. chosen' \subseteq Useful
  BY DEF GreedyPick, Gains, CutInv
<1>3. Useful' = Useful
  BY <1>1 DEF Useful, Hits
<1>4. CutIsSound' /\ ExactIsCheapest'
  BY <1>1 DEF CutIsSound, ExactIsCheapest
<1> QED BY <1>1, <1>2, <1>3, <1>4 DEF CutInv

\* A greedy selection that gains nothing more misses a path that nothing offered meets.
LEMMA NoGainNoCover ==
  ASSUME SearchInv, CutInv, Covered(chosen) # paths, Gains = {}
  PROVE  ~\A p \in paths : \E a \in offer : OnPath(p, a.on)
<1> SUFFICES ASSUME \A p \in paths : \E a \in offer : OnPath(p, a.on) PROVE FALSE
  OBVIOUS
<1>1. PICK p \in paths : p \notin Covered(chosen)
  BY CoverIs
<1>2. PICK a \in offer : OnPath(p, a.on)
  OBVIOUS
<1>3. p \in Hits(a) /\ a \in Useful
  BY <1>1, <1>2 DEF Hits, Useful
<1>4. a \notin chosen
  BY <1>1, <1>3 DEF Covered
<1>5. IsFiniteSet(Hits(a) \ Covered(chosen)) /\ Hits(a) \ Covered(chosen) # {}
  <2>1. IsFiniteSet(paths) /\ Hits(a) \ Covered(chosen) \in SUBSET paths
    BY DEF SearchInv, Hits
  <2> QED BY <1>1, <1>3, <2>1, FS_Subset
<1>6. New(a) \in Nat /\ New(a) # 0
  BY <1>5, FS_CardinalityType, FS_EmptySet DEF New
<1>7. a \in Gains
  BY <1>3, <1>4, <1>6 DEF Gains
<1> QED BY <1>7

LEMMA BuildsCut ==
  ASSUME SearchInv, CutInv, BuildCut
  PROVE  CutInv'
<1>1. /\ qpc \in {"exact", "greedy"} /\ qpc' = "built" /\ paths # {} /\ residual = {} /\ bestCost \in Nat
      /\ UNCHANGED <<edges, ends, offer, paths, tried, bestCost>>
      /\ residual' = IF chosen' = {} THEN paths ELSE {}
  BY DEF BuildCut, qinput, CutInv
<1>2. (\A D : Covered(D)' = Covered(D)) /\ Useful' = Useful /\ Combinations' = Combinations
  BY <1>1 DEF Covered, Hits, Useful, Combinations
<1>3. chosen' \subseteq Useful /\ Useful \subseteq offer
  BY DEF BuildCut, CutInv, Useful
<1>4. chosen' # {} => \A p \in paths : \E a \in chosen' : OnPath(p, a.on)
  <2>1. chosen' # {} => chosen' = chosen /\ Covered(chosen) = paths
    BY DEF BuildCut, CutInv
  <2> QED BY <2>1, CoverIs
<1>5. chosen' = {} => ~\A p \in paths : \E a \in offer : OnPath(p, a.on)
  <2> SUFFICES ASSUME chosen' = {}, \A p \in paths : \E a \in offer : OnPath(p, a.on) PROVE FALSE
    OBVIOUS
  <2>1. CASE qpc = "exact" /\ tried = Combinations /\ UNCHANGED chosen
    <3>1. PICK D : D = offer \cap Useful
      OBVIOUS
    <3>2. D \in tried /\ Covered(D) = paths /\ CostOf(D) \in Nat /\ CostOf(D) < Infinite
      <4>1. offer \in SUBSET offer
        OBVIOUS
      <4>2. /\ offer \cap Useful \in Combinations /\ Covered(offer \cap Useful) = paths
            /\ CostOf(offer \cap Useful) \in Nat /\ CostOf(offer) \in Nat
            /\ CostOf(offer \cap Useful) <= CostOf(offer) /\ CostOf(offer) < Infinite
        BY <1>1, <4>1, UsefulCover
      <4> QED BY <2>1, <3>1, <4>2 DEF Infinite
    <3>3. bestCost = Infinite /\ bestCost <= CostOf(D)
      BY <2>1, <3>2 DEF CutInv
    <3> QED BY <3>2, <3>3 DEF Infinite
  <2>2. CASE qpc = "greedy" /\ Covered(chosen) = paths /\ UNCHANGED chosen
    <3>1. Covered({}) = {}
      BY DEF Covered
    <3> QED BY <1>1, <2>2, <3>1
  <2>3. CASE qpc = "greedy" /\ Covered(chosen) # paths /\ Gains = {} /\ chosen' = {}
    BY <2>3, NoGainNoCover
  <2> QED BY <2>1, <2>2, <2>3 DEF BuildCut
<1>6. CutIsSound'
  BY <1>1, <1>3, <1>4, <1>5 DEF CutIsSound, OnPath
<1>7. tried # {} => tried = Combinations
  BY DEF BuildCut, CutInv
<1>8. ExactIsCheapest'
  <2> SUFFICES ASSUME tried # {}, NEW C \in SUBSET offer, \A p \in paths : \E a \in C : OnPath(p, a.on)
               PROVE  bestCost <= CostOf(C)
    BY <1>1 DEF ExactIsCheapest, OnPath
  <2>1. PICK D : D = C \cap Useful
    OBVIOUS
  <2>2. /\ D \in Combinations /\ Covered(D) = paths /\ CostOf(D) \in Nat /\ CostOf(C) \in Nat /\ CostOf(D) <= CostOf(C)
    BY <1>1, <2>1, UsefulCover
  <2>3. bestCost <= CostOf(D)
    BY <1>7, <2>2 DEF CutInv
  <2> QED BY <1>1, <2>2, <2>3
<1>9. tried' \subseteq Combinations /\ \A C \in tried' : Covered(C)' = paths' => bestCost' <= CostOf(C)
  BY <1>1, <1>2 DEF CutInv
<1> QED BY <1>1, <1>2, <1>3, <1>6, <1>7, <1>8, <1>9 DEF CutInv

LEMMA QStepInv ==
  ASSUME SearchInv, CutInv, [QNext]_qvars
  PROVE  SearchInv' /\ CutInv'
<1>1. CASE BeginSource \/ PopPath \/ SearchEnds
  BY <1>1, Begins, Pops, SearchStops, SearchCut
<1>2. CASE TryCombination \/ GreedyPick \/ BuildCut
  <2>1. /\ UNCHANGED <<edges, ends, offer, searched, stack, paths>>
        /\ qpc' = qpc \/ (qpc # "search" /\ qpc' # "search")
    BY <1>2 DEF TryCombination, GreedyPick, BuildCut, qinput
  <2> QED BY <1>2, <2>1, SearchKeeps, TriesCut, PicksCut, BuildsCut
<1>3. CASE UNCHANGED qvars
  <2>1. UNCHANGED <<edges, ends, offer, searched, stack, paths, qpc, tried, chosen, bestCost, residual>>
    BY <1>3 DEF qvars
  <2>2. (\A D : Covered(D)' = Covered(D)) /\ Useful' = Useful /\ Combinations' = Combinations
    BY <2>1 DEF Covered, Hits, Useful, Combinations
  <2>3. Covered(chosen)' = Covered(chosen)
    BY <2>1 DEF Covered, Hits
  <2>4. CutIsSound' /\ ExactIsCheapest'
    BY <2>1 DEF CutInv, CutIsSound, ExactIsCheapest
  <2>5. CutInv'
    BY <2>1, <2>2, <2>3, <2>4 DEF CutInv
  <2> QED BY <2>1, <2>5, SearchKeeps
<1> QED BY <1>1, <1>2, <1>3 DEF QNext

-----------------------------------------------------------------------------
(***************************************************************************)
(* The validation of a cut (RecoveryValidation).  The loop over the spans  *)
(* gives each one the status its own output deserves, and stops early only *)
(* at one that makes the report invalid.                                   *)
(***************************************************************************)

NodeStatus ==
  {"unseen", "intervened", "frozen_violation", "unchanged", "forbidden_divergence", "within_tolerance",
   "unexpected_divergence", "allowed_descendant_changed", "allowed_descendant_violation"}

\* What the loop says of a span, and what coherence says of it.
Outcome(s) == IF Visited(s) THEN StatusOf(s) ELSE "unseen"
CoherentAt(s) ==
  Visited(s) /\ s \notin envelope.intervened =>
    /\ envelope.frozen[s] # NoFreeze => replayed[s] = envelope.frozen[s]
    /\ Changed(s) =>
         /\ s \notin envelope.forbidden
         /\ Tolerates(s) \/ (s \in envelope.allowed /\ envelope.constraint[s] = "none")

\* The spans before ynode are judged, or the loop has stopped at a forbidden one; what
\* was not rejected was authorized, and a cut carries its own envelope.
YInv ==
  /\ nodeStatus \in [Spans -> NodeStatus] /\ ynode \in 1 .. Len(SpanOrder) + 1
  /\ \A s \in Spans : nodeStatus[s] \in {"unseen", Outcome(s)} \/ ypc \in {"authorize", "mode", "replay"}
  /\ ypc \in {"authorize", "mode", "replay"} => ynode = 1 /\ \A s \in Spans : nodeStatus[s] = "unseen"
  /\ ypc \in {"authorize", "mode", "replay", "divergence", "rejected", "concluded"}
  /\ \/ \A i \in 1 .. ynode - 1 : nodeStatus[SpanOrder[i]] = Outcome(SpanOrder[i])
     \/ \E s \in Spans : nodeStatus[s] = "forbidden_divergence"
  /\ cut # NoCut => envelope = EnvelopeOf(cut, original)
  /\ cut # NoCut /\ ypc \in {"mode", "replay", "divergence", "concluded"} => Authorized(cut)
  /\ ypc = "concluded" => ynode > Len(SpanOrder) /\ verdictOf = IF ReportValid THEN "valid" ELSE "invalid"
  /\ eligible => ypc = "concluded" /\ cut # NoCut /\ Eligible

LEMMA SpanShape ==
  /\ Len(SpanOrder) \in Nat /\ \A i \in 1 .. Len(SpanOrder) : SpanOrder[i] \in Spans
  /\ \A s \in Spans : \E i \in 1 .. Len(SpanOrder) : s = SpanOrder[i]
  BY ValidationAssumption DEF Spans

LEMMA OutcomeKnown ==
  ASSUME NEW s \in Spans
  PROVE  Outcome(s) \in NodeStatus
  BY DEF Outcome, StatusOf, NodeStatus

\* The checks of validate, in whatever order, find a violation exactly where the span is
\* incoherent.
LEMMA StatusJudges ==
  ASSUME NEW s \in Spans
  PROVE  /\ Outcome(s) \notin Violations <=> CoherentAt(s)
         /\ Outcome(s) = "forbidden_divergence" => ~CoherentAt(s)
<1>1. Tolerates(s) \in BOOLEAN /\ Changed(s) \in BOOLEAN /\ Visited(s) \in BOOLEAN
  BY DEF Tolerates, Changed, Visited, Similar
<1>2. Changed(s) /\ envelope.constraint[s] = "none" => ~Tolerates(s)
  BY DEF Tolerates
<1> QED BY <1>1, <1>2 DEF Outcome, StatusOf, CoherentAt, Violations

\* Once the loop has ended, the report is valid exactly if the replay is coherent.
LEMMA ReportJudges ==
  ASSUME YInv, ypc \in {"divergence", "concluded"}, ynode > Len(SpanOrder)
  PROVE  ReportValid <=> Coherent
<1>0. Coherent <=> \A s \in Spans : CoherentAt(s)
  BY DEF Coherent, CoherentAt
<1>1. CASE \E s \in Spans : nodeStatus[s] = "forbidden_divergence"
  <2>1. PICK s \in Spans : nodeStatus[s] = "forbidden_divergence"
    BY <1>1
  <2>2. Outcome(s) = "forbidden_divergence"
    BY <2>1 DEF YInv
  <2> QED BY <1>0, <2>1, <2>2, StatusJudges DEF ReportValid, Violations
<1>2. CASE ~\E s \in Spans : nodeStatus[s] = "forbidden_divergence"
  <2>1. \A i \in 1 .. Len(SpanOrder) : nodeStatus[SpanOrder[i]] = Outcome(SpanOrder[i])
    BY <1>2, SpanShape DEF YInv
  <2>2. \A s \in Spans : nodeStatus[s] = Outcome(s)
    BY <2>1, SpanShape
  <2> QED BY <1>0, <2>2, StatusJudges DEF ReportValid
<1> QED BY <1>1, <1>2

LEMMA YInvHolds ==
  ASSUME YInv
  PROVE  ValidMeansCoherent /\ EligibleIsSupported /\ UntargetedIsKept
<1>1. ValidMeansCoherent
  BY ReportJudges DEF YInv, ValidMeansCoherent
<1>2. eligible => Coherent
  BY ReportJudges DEF YInv, Eligible
<1>3. EligibleIsSupported
  BY <1>2 DEF YInv, EligibleIsSupported, Eligible, Authorized
<1>4. UntargetedIsKept
  <2> SUFFICES ASSUME eligible, NEW s \in Spans, Changed(s), s \notin Targets(cut) PROVE FALSE
    BY DEF UntargetedIsKept
  <2>1. envelope = EnvelopeOf(cut, original)
    BY DEF YInv
  <2>2. /\ envelope.intervened = Targets(cut) /\ envelope.allowed = {} /\ envelope.constraint[s] = "none"
        /\ envelope.frozen[s] = IF original[s] # Gone /\ SpanComponent[s] \notin Targets(cut)
                                  THEN original[s] ELSE NoFreeze
    BY <2>1 DEF EnvelopeOf
  <2>3. Visited(s) /\ ~Tolerates(s)
    BY <2>2 DEF Visited, Changed, Tolerates
  <2> QED BY <1>2, <2>2, <2>3 DEF Coherent
<1> QED BY <1>1, <1>3, <1>4

LEMMA YInitInv ==
  ASSUME YInit
  PROVE  YInv
<1>1. nodeStatus = [s \in Spans |-> "unseen"] /\ ynode = 1 /\ ypc \in {"authorize", "replay"}
  BY DEF YInit
<1>2. nodeStatus \in [Spans -> NodeStatus] /\ \A s \in Spans : nodeStatus[s] = "unseen"
  BY <1>1 DEF NodeStatus
<1>3. 1 \in 1 .. Len(SpanOrder) + 1 /\ 1 .. 1 - 1 = {}
  BY SpanShape
<1> QED BY <1>1, <1>2, <1>3 DEF YInit, YInv

\* Before the loop no span is judged.
LEMMA YBefore ==
  ASSUME YInv, ypc \in {"authorize", "mode", "replay"}, ypc' \in {"mode", "replay", "divergence", "rejected"},
         UNCHANGED <<cut, original, envelope, ynode, nodeStatus, eligible>>,
         cut # NoCut /\ ypc' # "rejected" => Authorized(cut)
  PROVE  YInv'
<1>1. ynode = 1 /\ (\A s \in Spans : nodeStatus[s] = "unseen") /\ ~eligible
  BY DEF YInv
<1>2. \A s \in Spans : nodeStatus'[s] = "unseen"
  BY <1>1
<1>3. 1 .. ynode' - 1 = {}
  BY <1>1
<1>4. Authorized(cut)' <=> Authorized(cut)
  BY DEF Authorized
<1>5. EnvelopeOf(cut, original)' = EnvelopeOf(cut, original)
  BY DEF EnvelopeOf, Targets
<1> QED BY <1>1, <1>2, <1>3, <1>4, <1>5 DEF YInv

LEMMA YStepInv ==
  ASSUME YInv, [YNext]_yvars
  PROVE  YInv'
<1>1. CASE Authorize
  BY <1>1, YBefore DEF Authorize, Reject
<1>2. CASE CheckMode
  BY <1>2, YBefore DEF CheckMode, Reject, YInv
<1>3. CASE RunReplay
  BY <1>3, YBefore DEF RunReplay, Reject, YInv
<1>4. CASE VisitNode
  <2>1. PICK s : s = SpanOrder[ynode]
    OBVIOUS
  <2>2. /\ ypc = "divergence" /\ ynode <= Len(SpanOrder) /\ s \in Spans /\ ynode \in Nat /\ ynode >= 1
        /\ UNCHANGED <<cut, original, replayed, envelope, ypc, evidence, eligible, verdictOf>>
        /\ nodeStatus' = [nodeStatus EXCEPT ![s] = Outcome(s)]
        /\ ynode' = IF nodeStatus'[s] = "forbidden_divergence" THEN Len(SpanOrder) + 1 ELSE ynode + 1
    BY <1>4, <2>1, SpanShape DEF VisitNode, Outcome, YInv
  <2>3. \A t : Outcome(t)' = Outcome(t)
    BY <2>2 DEF Outcome, StatusOf, Visited, Changed, Tolerates
  <2>4. nodeStatus' \in [Spans -> NodeStatus] /\ nodeStatus'[s] = Outcome(s)
        /\ \A t \in Spans : nodeStatus'[t] = IF t = s THEN Outcome(s) ELSE nodeStatus[t]
    BY <2>2, OutcomeKnown DEF YInv
  <2>5. ynode' \in 1 .. Len(SpanOrder) + 1
    BY <2>2, SpanShape
  <2>6. \A t \in Spans : nodeStatus'[t] \in {"unseen", Outcome(t)}
    BY <2>2, <2>4 DEF YInv
  <2>7. \/ \A i \in 1 .. ynode' - 1 : nodeStatus'[SpanOrder[i]] = Outcome(SpanOrder[i])
        \/ \E t \in Spans : nodeStatus'[t] = "forbidden_divergence"
    <3>1. CASE nodeStatus'[s] = "forbidden_divergence"
      BY <2>2, <3>1
    <3>2. CASE \E t \in Spans : nodeStatus[t] = "forbidden_divergence"
      <4>1. PICK t \in Spans : nodeStatus[t] = "forbidden_divergence"
        BY <3>2
      <4>2. Outcome(t) = "forbidden_divergence"
        BY <2>2, <4>1 DEF YInv
      <4> QED BY <2>4, <4>1, <4>2
    <3>3. CASE nodeStatus'[s] # "forbidden_divergence" /\ ~\E t \in Spans : nodeStatus[t] = "forbidden_divergence"
      <4>1. ynode' = ynode + 1 /\ \A i \in 1 .. ynode - 1 : nodeStatus[SpanOrder[i]] = Outcome(SpanOrder[i])
        BY <2>2, <3>3 DEF YInv
      <4>2. ASSUME NEW i \in 1 .. ynode PROVE nodeStatus'[SpanOrder[i]] = Outcome(SpanOrder[i])
        <5>1. SpanOrder[i] \in Spans
          BY <2>2, SpanShape
        <5>2. CASE SpanOrder[i] = s
          BY <2>4, <5>2
        <5>3. CASE SpanOrder[i] # s
          <6>1. i \in 1 .. ynode - 1
            BY <2>1, <2>2, <5>3
          <6> QED BY <2>4, <4>1, <5>1, <5>3, <6>1
        <5> QED BY <5>2, <5>3
      <4> QED BY <2>2, <4>1, <4>2
    <3> QED BY <3>1, <3>2, <3>3
  <2> QED BY <2>2, <2>3, <2>4, <2>5, <2>6, <2>7 DEF YInv
<1>5. CASE Conclude
  <2>1. ReportValid' = ReportValid
    BY <1>5 DEF Conclude, ReportValid
  <2>2. \A t : Outcome(t)' = Outcome(t)
    BY <1>5 DEF Conclude, Outcome, StatusOf, Visited, Changed, Tolerates
  <2> QED BY <1>5, <2>1, <2>2 DEF Conclude, YInv, Eligible
<1>6. CASE UNCHANGED yvars
  <2>1. ReportValid' = ReportValid
    BY <1>6 DEF yvars, ReportValid
  <2>2. \A t : Outcome(t)' = Outcome(t)
    BY <1>6 DEF yvars, Outcome, StatusOf, Visited, Changed, Tolerates
  <2> QED BY <1>6, <2>1, <2>2 DEF yvars, YInv, Eligible
<1> QED BY <1>1, <1>2, <1>3, <1>4, <1>5, <1>6 DEF YNext

\* A bounded set of numbers has a greatest one, a set of numbers a least one.
LEMMA MaxIs ==
  ASSUME NEW n \in Nat, NEW S, S \subseteq 1 .. n, S # {}
  PROVE  Max(S) \in S /\ \A y \in S : Max(S) >= y
<1> DEFINE B == {m \in Nat : \A x \in S : x <= m}
<1>1. n \in B
  OBVIOUS
<1>2. PICK b \in B : \A c \in B : b <= c
  BY <1>1, LeastNumber
<1>3. b \in S
  <2> SUFFICES ASSUME b \notin S PROVE FALSE
    OBVIOUS
  <2>1. PICK x \in S : TRUE
    OBVIOUS
  <2>2. b \in Nat /\ b > x /\ x \in Nat /\ x >= 1
    BY <1>2, <2>1
  <2>3. b - 1 \in Nat /\ \A y \in S : y <= b - 1
    BY <1>2, <2>2
  <2>4. b - 1 \in B
    BY <2>3
  <2>5. b <= b - 1
    BY <1>2, <2>4
  <2> QED BY <2>2, <2>5
<1>4. b \in S /\ \A y \in S : b >= y
  BY <1>2, <1>3
<1> QED BY <1>4 DEF Max

LEMMA MinIs ==
  ASSUME NEW S, S \subseteq Nat, S # {}
  PROVE  Min(S) \in S
<1>1. PICK m \in S : \A y \in S : m =< y
  BY LeastNumber
<1> QED BY <1>1 DEF Min

-----------------------------------------------------------------------------
(***************************************************************************)
(* The recovery actions (RecoveryActions).  A capsule remembers what its   *)
(* action found; as long as the slot is not tangled that is what the       *)
(* actions it stands on had left, so using it last in, first out restores  *)
(* it.                                                                     *)
(***************************************************************************)

ActionValue == {On, Off, Assumed} \cup Starts \cup UNION {{f[p].value : p \in Prop} : f \in Asks}
ACapsule ==
  [prop : Prop, slot : Slots, prev : ActionValue, status : {"active", "used", "retired"}, applied : BOOLEAN,
   gave : ActionValue, found : ActionValue, basis : SUBSET Nat]

RATypes ==
  /\ executor \in {"local", "production"} /\ ask \in Asks
  /\ initial \in [Slots -> ActionValue] /\ setting \in [Slots -> ActionValue] /\ known \in [Item -> ActionValue]
  /\ capsuleSeq \in Seq(ACapsule) /\ receiptOf \in [Prop -> {"none", "VERIFIED", "CONSUMED", "VOIDED"}]
  /\ attempts \in [Prop -> Nat]
  /\ calling \in [prop : Prop \cup {AnyVersion}, at : {"idle", "execute", "succeeded", "failed"}]
  /\ calling.at = "idle" <=> calling = Idle
  /\ calling.at # "idle" => calling.prop \in Prop

\* What a slot holds when the actions at the positions B stand.
TopOf(B, s) == IF B = {} THEN initial[s] ELSE capsuleSeq[Max(B)].gave
TookEffect(p) == \E i \in CapsulesFor(p) : capsuleSeq[i].applied

CapsuleSound(i) ==
  LET c == capsuleSeq[i] IN
  /\ c.basis \subseteq 1 .. i - 1
  /\ c.slot \notin tangled => c.found = TopOf(c.basis, c.slot)
  /\ executor = "local" => c.prev = c.found
  /\ c.slot[1] \in Fencing /\ c.applied => c.gave = On

\* What the executor knows of a component's version is what is deployed; in production
\* until the component is first rolled back.
VersionsKnown ==
  \A x \in Item :
    /\ executor = "local" => known[x] = setting[<<"rollback_component", x>>]
    /\ executor = "production" => known[x] = initial[<<"rollback_component", x>>]

CallSound ==
  /\ calling.at # "idle" => receiptOf[calling.prop] = "VERIFIED" /\ attempts[calling.prop] >= 1
  /\ calling.at = "succeeded" => TookEffect(calling.prop) \/ ask[calling.prop].mode = "dry_run"
  /\ calling.at \in {"execute", "failed"} /\ TookEffect(calling.prop) => attempts[calling.prop] > 1
  /\ \A p \in Prop : TookEffect(p) => attempts[p] >= 1

ActionsInv ==
  /\ RATypes /\ VersionsKnown /\ CallSound /\ SettingIsTop /\ ReceiptTellsOutcome /\ LockHolds
  /\ \A s \in Slots : s[1] \in Fencing => initial[s] = Off
  /\ \A i \in DOMAIN capsuleSeq : CapsuleSound(i)
  /\ \A s \in Slots : (\A i \in DOMAIN capsuleSeq : capsuleSeq[i].slot # s) => setting[s] = initial[s]

LEMMA RAInitInv ==
  ASSUME RAInit
  PROVE  ActionsInv
<1>1. PICK v \in Starts : initial = [s \in Slots |-> IF s[1] \in Fencing THEN Off ELSE v]
  BY DEF RAInit
<1>2. initial \in [Slots -> ActionValue] /\ \A s \in Slots : s[1] \in Fencing => initial[s] = Off
  BY <1>1 DEF ActionValue
<1>3. \A x \in Item : <<"rollback_component", x>> \in Slots
  BY DEF Slots, ActionType, Assigning
<1>4. setting = initial /\ known \in [Item -> ActionValue] /\ VersionsKnown
  BY <1>2, <1>3 DEF RAInit, VersionsKnown
<1>5. capsuleSeq = <<>> /\ DOMAIN capsuleSeq = {} /\ \A s : Standing(s) = {}
  BY DEF RAInit, Standing
<1>6. <<>> \in Seq(ACapsule)
  OBVIOUS
<1>7. capsuleSeq \in Seq(ACapsule)
  BY <1>5, <1>6, Zenon
<1>8. RATypes
  BY <1>2, <1>4, <1>7 DEF RAInit, RATypes, Idle
<1>9. calling.at = "idle" /\ \A p \in Prop : CapsulesFor(p) = {} /\ receiptOf[p] = "none"
  BY <1>5 DEF RAInit, Idle, CapsulesFor
<1>10. CallSound /\ ReceiptTellsOutcome
  BY <1>9 DEF CallSound, ReceiptTellsOutcome, TookEffect
<1>11. SettingIsTop /\ LockHolds
  BY <1>4, <1>5 DEF SettingIsTop, LockHolds
<1> QED BY <1>2, <1>4, <1>5, <1>8, <1>10, <1>11 DEF ActionsInv

\* A step that leaves the slots, the capsules and the versions alone.
LEMMA RAKeeps ==
  ASSUME ActionsInv, RATypes', CallSound', ReceiptTellsOutcome',
         UNCHANGED <<executor, ask, initial, setting, known, capsuleSeq, tangled>>
  PROVE  ActionsInv'
<1>1. \A s : Standing(s)' = Standing(s)
  BY DEF Standing
<1>2. \A B, s : TopOf(B, s)' = TopOf(B, s)
  BY DEF TopOf
<1>3. \A i \in DOMAIN capsuleSeq : CapsuleSound(i)'
  BY <1>2 DEF ActionsInv, CapsuleSound
<1>4. SettingIsTop' /\ LockHolds' /\ VersionsKnown'
  BY <1>1 DEF ActionsInv, SettingIsTop, LockHolds, VersionsKnown
<1> QED BY <1>3, <1>4 DEF ActionsInv

LEMMA AskIs ==
  ASSUME RATypes, NEW p \in Prop
  PROVE  /\ ask[p].action \in ActionType /\ ask[p].item \in Item /\ Slot(p) \in Slots
         /\ Slot(p)[1] = ask[p].action /\ Slot(p)[2] = ask[p].item /\ ask[p].value \in ActionValue
  BY ActionsAssumption DEF RATypes, Slot, Slots, ActionValue

LEMMA Admits ==
  ASSUME ActionsInv, NEW p \in Prop, Admit(p)
  PROVE  ActionsInv'
<1>1. /\ attempts' = [attempts EXCEPT ![p] = @ + 1] /\ calling = Idle /\ calling.at = "idle"
      /\ UNCHANGED <<executor, ask, initial, setting, known, capsuleSeq, keysUsed, tangled, unsettled>>
      /\ \A q : TookEffect(q)' = TookEffect(q)
  BY DEF Admit, fixed, Idle, TookEffect, CapsulesFor
<1>2. attempts' \in [Prop -> Nat] /\ attempts'[p] = attempts[p] + 1 /\ \A q \in Prop \ {p} : attempts'[q] = attempts[q]
  BY <1>1 DEF ActionsInv, RATypes
<1>3. \A q \in Prop : attempts'[q] \in Nat /\ attempts[q] \in Nat /\ attempts'[q] >= attempts[q]
  <2>1. attempts \in [Prop -> Nat]
    BY DEF ActionsInv, RATypes
  <2> QED BY <1>2, <2>1
<1>4. TookEffect(p) => attempts'[p] > 1
  BY <1>2, <1>3 DEF ActionsInv, CallSound
<1>5. CASE calling' = [prop |-> p, at |-> "execute"] /\ receiptOf' = [receiptOf EXCEPT ![p] = "VERIFIED"]
  <2>1. RATypes'
    BY <1>1, <1>2, <1>5 DEF ActionsInv, RATypes, Idle
  <2>2. receiptOf'[p] = "VERIFIED" /\ \A q \in Prop \ {p} : receiptOf'[q] = receiptOf[q]
    BY <1>5 DEF ActionsInv, RATypes
  <2>3. CallSound'
    BY <1>1, <1>2, <1>3, <1>4, <1>5, <2>2 DEF ActionsInv, CallSound
  <2>4. ReceiptTellsOutcome'
    BY <1>1, <1>2, <1>3, <2>2 DEF ActionsInv, ReceiptTellsOutcome, TookEffect
  <2> QED BY <1>1, <2>1, <2>3, <2>4, RAKeeps
<1>6. CASE UNCHANGED <<calling, receiptOf>>
  <2>1. RATypes'
    BY <1>1, <1>2, <1>6 DEF ActionsInv, RATypes, Idle
  <2>3. CallSound'
    BY <1>1, <1>2, <1>3, <1>4, <1>6 DEF ActionsInv, CallSound
  <2>4. ReceiptTellsOutcome'
    BY <1>1, <1>2, <1>3, <1>6 DEF ActionsInv, ReceiptTellsOutcome, TookEffect
  <2> QED BY <1>1, <2>1, <2>3, <2>4, RAKeeps
<1> QED BY <1>5, <1>6 DEF Admit

LEMMA Settles ==
  ASSUME ActionsInv, SettleReceipt
  PROVE  ActionsInv'
<1>1. PICK p \in Prop : p = calling.prop
  BY DEF SettleReceipt, ActionsInv, RATypes
<1>2. /\ calling.at \in {"succeeded", "failed"} /\ calling' = Idle /\ calling'.at = "idle"
      /\ UNCHANGED <<executor, ask, initial, setting, known, capsuleSeq, keysUsed, attempts, tangled>>
      /\ unsettled \subseteq unsettled'
      /\ \A q : TookEffect(q)' = TookEffect(q)
  BY DEF SettleReceipt, fixed, Idle, TookEffect, CapsulesFor
<1>3. \/ calling.at = "succeeded" /\ receiptOf' = [receiptOf EXCEPT ![p] = "CONSUMED"]
      \/ calling.at = "failed" /\ receiptOf' = [receiptOf EXCEPT ![p] = "VOIDED"]
      \/ receiptOf' = [receiptOf EXCEPT ![p] = "VOIDED"] /\ p \in unsettled'
      \/ receiptOf' = receiptOf
  BY <1>1 DEF SettleReceipt
<1>4. RATypes'
  BY <1>1, <1>2, <1>3 DEF ActionsInv, RATypes, Idle
<1>5. CallSound'
  BY <1>2 DEF ActionsInv, CallSound
<1>6. ReceiptTellsOutcome'
  <2> SUFFICES ASSUME NEW q \in Prop
               PROVE  /\ receiptOf'[q] = "CONSUMED" => TookEffect(q) \/ ask[q].mode = "dry_run"
                      /\ (receiptOf'[q] = "VOIDED" /\ TookEffect(q)) => q \in unsettled' \/ attempts[q] > 1
    BY <1>2 DEF ReceiptTellsOutcome, TookEffect
  <2>1. /\ receiptOf[q] = "CONSUMED" => TookEffect(q) \/ ask[q].mode = "dry_run"
        /\ (receiptOf[q] = "VOIDED" /\ TookEffect(q)) => q \in unsettled \/ attempts[q] > 1
    BY DEF ActionsInv, ReceiptTellsOutcome, TookEffect
  <2>2. CASE q # p
    BY <1>2, <1>3, <2>1, <2>2 DEF ActionsInv, RATypes
  <2>3. CASE q = p
    <3>1. /\ calling.at = "succeeded" => TookEffect(q) \/ ask[q].mode = "dry_run"
          /\ calling.at = "failed" /\ TookEffect(q) => attempts[q] > 1
      BY <1>1, <2>3 DEF ActionsInv, CallSound
    <3> QED BY <1>2, <1>3, <2>1, <2>3, <3>1 DEF ActionsInv, RATypes
  <2> QED BY <2>2, <2>3
<1> QED BY <1>2, <1>4, <1>5, <1>6, RAKeeps

\* A capsule is appended.
LEMMA CapsuleAdded ==
  ASSUME RATypes, NEW c \in ACapsule, capsuleSeq' = Append(capsuleSeq, c), NEW n, n = Len(capsuleSeq)
  PROVE  /\ capsuleSeq' \in Seq(ACapsule) /\ n \in Nat /\ DOMAIN capsuleSeq = 1 .. n /\ DOMAIN capsuleSeq' = 1 .. n + 1
         /\ \A i \in 1 .. n : capsuleSeq'[i] = capsuleSeq[i]
         /\ capsuleSeq'[n + 1] = c
<1>1. capsuleSeq \in Seq(ACapsule)
  BY DEF RATypes
<1> QED BY <1>1, AppendProperties

\* A capsule is used or retired.
LEMMA CapsuleSealed ==
  ASSUME RATypes, NEW i \in DOMAIN capsuleSeq, NEW st \in {"used", "retired"},
         capsuleSeq' = [capsuleSeq EXCEPT ![i].status = st]
  PROVE  /\ capsuleSeq' \in Seq(ACapsule) /\ DOMAIN capsuleSeq' = DOMAIN capsuleSeq
         /\ \A j \in DOMAIN capsuleSeq :
              /\ capsuleSeq'[j].prop = capsuleSeq[j].prop /\ capsuleSeq'[j].slot = capsuleSeq[j].slot
              /\ capsuleSeq'[j].prev = capsuleSeq[j].prev /\ capsuleSeq'[j].applied = capsuleSeq[j].applied
              /\ capsuleSeq'[j].gave = capsuleSeq[j].gave /\ capsuleSeq'[j].found = capsuleSeq[j].found
              /\ capsuleSeq'[j].basis = capsuleSeq[j].basis
              /\ capsuleSeq'[j].status = IF j = i THEN st ELSE capsuleSeq[j].status
<1>1. capsuleSeq \in Seq(ACapsule)
  BY DEF RATypes
<1>2. PICK c : c = [capsuleSeq[i] EXCEPT !.status = st]
  OBVIOUS
<1>3. capsuleSeq[i] \in ACapsule
  BY <1>1
<1>4. /\ c \in ACapsule /\ c.prop = capsuleSeq[i].prop /\ c.slot = capsuleSeq[i].slot
      /\ c.prev = capsuleSeq[i].prev /\ c.applied = capsuleSeq[i].applied /\ c.gave = capsuleSeq[i].gave
      /\ c.found = capsuleSeq[i].found /\ c.basis = capsuleSeq[i].basis /\ c.status = st
  BY <1>2, <1>3 DEF ACapsule
<1>5. capsuleSeq' = [capsuleSeq EXCEPT ![i] = c]
  BY <1>2
<1>6. /\ capsuleSeq' \in Seq(ACapsule) /\ Len(capsuleSeq') = Len(capsuleSeq)
      /\ \A j \in 1 .. Len(capsuleSeq) : capsuleSeq'[j] = IF j = i THEN c ELSE capsuleSeq[j]
  BY <1>1, <1>4, <1>5, ExceptSeq
<1>7. DOMAIN capsuleSeq = 1 .. Len(capsuleSeq) /\ DOMAIN capsuleSeq' = 1 .. Len(capsuleSeq')
  BY <1>1, <1>6
<1> QED BY <1>4, <1>6, <1>7

\* What stands where nothing moved.
LEMMA TopKept ==
  ASSUME NEW n \in Nat, NEW B, B \subseteq 1 .. n, NEW s, initial' = initial,
         \A j \in 1 .. n : capsuleSeq'[j].gave = capsuleSeq[j].gave
  PROVE  TopOf(B, s)' = TopOf(B, s)
<1>1. B # {} => Max(B) \in 1 .. n
  BY MaxIs
<1> QED BY <1>1 DEF TopOf

LEMMA SettingTop ==
  SettingIsTop <=> \A s \in Slots \ tangled : setting[s] = TopOf(Standing(s), s)
  BY DEF SettingIsTop, TopOf

LEMMA Retires ==
  ASSUME ActionsInv, NEW p \in Prop, RetireCapsule(p)
  PROVE  ActionsInv'
<1>0. RATypes
  BY DEF ActionsInv
<1>1. CapsulesFor(p) \subseteq DOMAIN capsuleSeq /\ DOMAIN capsuleSeq = 1 .. Len(capsuleSeq) /\ Len(capsuleSeq) \in Nat
  BY <1>0 DEF CapsulesFor, RATypes
<1>2. PICK i \in DOMAIN capsuleSeq : i = Min(CapsulesFor(p))
  BY <1>1, MinIs DEF RetireCapsule
<1>3. /\ capsuleSeq[i].status = "active" /\ capsuleSeq' = [capsuleSeq EXCEPT ![i].status = "retired"]
      /\ UNCHANGED <<executor, ask, initial, setting, known, keysUsed, receiptOf, calling, attempts, tangled, unsettled>>
  BY <1>2 DEF RetireCapsule, fixed
<1>4. /\ capsuleSeq' \in Seq(ACapsule) /\ DOMAIN capsuleSeq' = DOMAIN capsuleSeq
      /\ \A j \in DOMAIN capsuleSeq :
           /\ capsuleSeq'[j].prop = capsuleSeq[j].prop /\ capsuleSeq'[j].slot = capsuleSeq[j].slot
           /\ capsuleSeq'[j].prev = capsuleSeq[j].prev /\ capsuleSeq'[j].applied = capsuleSeq[j].applied
           /\ capsuleSeq'[j].gave = capsuleSeq[j].gave /\ capsuleSeq'[j].found = capsuleSeq[j].found
           /\ capsuleSeq'[j].basis = capsuleSeq[j].basis
           /\ capsuleSeq'[j].status = IF j = i THEN "retired" ELSE capsuleSeq[j].status
  BY <1>0, <1>3, CapsuleSealed
<1>5. \A s : Standing(s)' = Standing(s)
  BY <1>3, <1>4 DEF Standing
<1>6. \A s, B : B \subseteq DOMAIN capsuleSeq => TopOf(B, s)' = TopOf(B, s)
  BY <1>1, <1>3, <1>4, TopKept
<1>7. RATypes' /\ VersionsKnown'
  BY <1>3, <1>4 DEF ActionsInv, RATypes, VersionsKnown
<1>8. \A q : TookEffect(q)' = TookEffect(q)
  BY <1>4 DEF TookEffect, CapsulesFor
<1>9. CallSound' /\ ReceiptTellsOutcome'
  BY <1>3, <1>8 DEF ActionsInv, CallSound, ReceiptTellsOutcome, TookEffect
<1>10. SettingIsTop'
  <2>1. \A s : Standing(s) \subseteq DOMAIN capsuleSeq
    BY DEF Standing
  <2>2. \A s \in Slots \ tangled : setting[s] = TopOf(Standing(s), s)
    BY SettingTop DEF ActionsInv
  <2>3. \A s \in Slots \ tangled' : setting'[s] = TopOf(Standing(s), s)'
    BY <1>3, <1>5, <1>6, <2>1, <2>2
  <2> QED BY <2>3 DEF SettingIsTop, TopOf
<1>11. \A j \in DOMAIN capsuleSeq : CapsuleSound(j)'
  <2> SUFFICES ASSUME NEW j \in DOMAIN capsuleSeq PROVE CapsuleSound(j)'
    OBVIOUS
  <2>1. CapsuleSound(j) /\ j \in 1 .. Len(capsuleSeq)
    BY <1>1 DEF ActionsInv
  <2>2. capsuleSeq[j].basis \subseteq DOMAIN capsuleSeq
    BY <1>1, <2>1 DEF CapsuleSound
  <2> QED BY <1>3, <1>4, <1>6, <2>1, <2>2 DEF CapsuleSound
<1>12. LockHolds'
  <2>1. \A j \in DOMAIN capsuleSeq : \A k \in 1 .. j - 1 : k \in DOMAIN capsuleSeq
    BY <1>1
  <2> QED BY <1>3, <1>4, <2>1 DEF ActionsInv, LockHolds
<1> QED BY <1>3, <1>4, <1>7, <1>9, <1>10, <1>11, <1>12 DEF ActionsInv

\* What a rollback puts back is what the actions below had left.
LEMMA RollbackRestores ==
  ASSUME ActionsInv, NEW i \in DOMAIN capsuleSeq, Restores(i), capsuleSeq[i].slot \notin tangled,
         capsuleSeq[i].status = "active", NEW s, s = capsuleSeq[i].slot
  PROVE  RolledBack(capsuleSeq[i], setting[s]) = TopOf(Standing(s) \ {i}, s)
<1>1. PICK c \in ACapsule : c = capsuleSeq[i]
  BY DEF ActionsInv, RATypes
<1>2. /\ c.basis \subseteq 1 .. i - 1 /\ c.found = TopOf(c.basis, s) /\ (executor = "local" => c.prev = c.found)
      /\ c.slot[1] \in Fencing /\ c.applied => c.gave = On
  BY <1>1 DEF ActionsInv, CapsuleSound
<1>3. Standing(s) \ {i} = c.basis /\ (executor = "production" => c.basis = {} /\ c.prev = initial[s])
  BY <1>1 DEF Restores
<1>4. c.prev = TopOf(Standing(s) \ {i}, s)
  BY <1>2, <1>3 DEF TopOf, ActionsInv, RATypes
<1>5. CASE ~(s[1] \in Fencing /\ c.prev = On)
  BY <1>1, <1>4, <1>5 DEF RolledBack
<1>6. CASE s[1] \in Fencing /\ c.prev = On
  <2>1. RolledBack(capsuleSeq[i], setting[s]) = setting[s]
    BY <1>1, <1>6 DEF RolledBack
  <2>2. setting[s] = TopOf(Standing(s), s)
    BY <1>1, SettingTop DEF ActionsInv, ACapsule
  <2>3. CASE i \notin Standing(s)
    <3>1. Standing(s) \ {i} = Standing(s)
      BY <2>3
    <3> QED BY <2>1, <2>2, <3>1
  <2>4. CASE i \in Standing(s)
    <3>1. Standing(s) = c.basis \cup {i} /\ c.applied
      BY <1>1, <1>3, <2>4 DEF Standing
    <3>2. i \in Nat /\ i >= 1 /\ Standing(s) \subseteq 1 .. i
      BY <1>2, <3>1 DEF ActionsInv, RATypes
    <3>3. Max(Standing(s)) \in Standing(s) /\ Max(Standing(s)) >= i
      BY <2>4, <3>2, MaxIs
    <3>4. Max(Standing(s)) = i
      BY <3>2, <3>3
    <3>5. TopOf(Standing(s), s) = On
      BY <1>1, <1>2, <1>6, <2>4, <3>1, <3>4 DEF TopOf
    <3> QED BY <1>4, <1>6, <2>1, <2>2, <3>5
  <2> QED BY <2>3, <2>4
<1> QED BY <1>5, <1>6

LEMMA Compensates ==
  ASSUME ActionsInv, NEW p \in Prop, CompensateWith(p)
  PROVE  ActionsInv'
<1>0. RATypes
  BY DEF ActionsInv
<1>1. CapsulesFor(p) \subseteq DOMAIN capsuleSeq /\ DOMAIN capsuleSeq = 1 .. Len(capsuleSeq) /\ Len(capsuleSeq) \in Nat
  BY <1>0 DEF CapsulesFor, RATypes
<1>2. PICK i \in DOMAIN capsuleSeq : i = Min(CapsulesFor(p))
  BY <1>1, MinIs DEF CompensateWith
<1>3. PICK c \in ACapsule : c = capsuleSeq[i]
  BY <1>0 DEF RATypes
<1>4. PICK t \in Slots : t = c.slot
  BY <1>3 DEF ACapsule
<1>5. /\ c.status = "active" /\ capsuleSeq' = [capsuleSeq EXCEPT ![i].status = "used"]
      /\ setting' = [setting EXCEPT ![t] = RolledBack(c, setting[t])]
      /\ known' = IF executor = "local" /\ t[1] = "rollback_component" THEN [known EXCEPT ![t[2]] = c.prev] ELSE known
      /\ tangled' = IF Restores(i) THEN tangled ELSE tangled \cup {t}
      /\ UNCHANGED <<executor, ask, initial, keysUsed, receiptOf, calling, attempts, unsettled>>
  BY <1>2, <1>3, <1>4 DEF CompensateWith, fixed
<1>6. /\ capsuleSeq' \in Seq(ACapsule) /\ DOMAIN capsuleSeq' = DOMAIN capsuleSeq
      /\ \A j \in DOMAIN capsuleSeq :
           /\ capsuleSeq'[j].prop = capsuleSeq[j].prop /\ capsuleSeq'[j].slot = capsuleSeq[j].slot
           /\ capsuleSeq'[j].prev = capsuleSeq[j].prev /\ capsuleSeq'[j].applied = capsuleSeq[j].applied
           /\ capsuleSeq'[j].gave = capsuleSeq[j].gave /\ capsuleSeq'[j].found = capsuleSeq[j].found
           /\ capsuleSeq'[j].basis = capsuleSeq[j].basis
           /\ capsuleSeq'[j].status = IF j = i THEN "used" ELSE capsuleSeq[j].status
  BY <1>0, <1>5, CapsuleSealed
<1>7. \A s : Standing(s)' = Standing(s) \ {i}
  BY <1>6 DEF Standing
<1>8. \A s : s # t => Standing(s)' = Standing(s)
  BY <1>3, <1>4, <1>7 DEF Standing
<1>9. \A s, B : B \subseteq DOMAIN capsuleSeq => TopOf(B, s)' = TopOf(B, s)
  BY <1>1, <1>5, <1>6, TopKept
<1>10. \A q : TookEffect(q)' = TookEffect(q)
  BY <1>6 DEF TookEffect, CapsulesFor
<1>11. CallSound' /\ ReceiptTellsOutcome'
  BY <1>5, <1>10 DEF ActionsInv, CallSound, ReceiptTellsOutcome, TookEffect
<1>12. LockHolds'
  <2>1. \A j \in DOMAIN capsuleSeq : \A k \in 1 .. j - 1 : k \in DOMAIN capsuleSeq
    BY <1>1
  <2> QED BY <1>5, <1>6, <2>1 DEF ActionsInv, LockHolds
<1>13. \A j \in DOMAIN capsuleSeq : CapsuleSound(j)'
  <2> SUFFICES ASSUME NEW j \in DOMAIN capsuleSeq PROVE CapsuleSound(j)'
    OBVIOUS
  <2>1. CapsuleSound(j) /\ j \in 1 .. Len(capsuleSeq)
    BY <1>1 DEF ActionsInv
  <2>2. capsuleSeq[j].basis \subseteq DOMAIN capsuleSeq
    BY <1>1, <2>1 DEF CapsuleSound
  <2>3. tangled \subseteq tangled'
    BY <1>5
  <2> QED BY <1>5, <1>6, <1>9, <2>1, <2>2, <2>3 DEF CapsuleSound
<1>14. setting' \in [Slots -> ActionValue] /\ \A s \in Slots : setting'[s] = IF s = t THEN RolledBack(c, setting[t]) ELSE setting[s]
  <2>1. setting \in [Slots -> ActionValue] /\ c.prev \in ActionValue
    BY <1>0 DEF RATypes, ACapsule
  <2>2. RolledBack(c, setting[t]) \in ActionValue
    BY <2>1 DEF RolledBack
  <2> QED BY <1>5, <2>1, <2>2
<1>15. SettingIsTop'
  <2>1. \A s : Standing(s) \subseteq DOMAIN capsuleSeq
    BY DEF Standing
  <2>2. \A s \in Slots \ tangled : setting[s] = TopOf(Standing(s), s)
    BY SettingTop DEF ActionsInv
  <2>3. ASSUME NEW s \in Slots \ tangled' PROVE setting'[s] = TopOf(Standing(s), s)'
    <3>1. s \notin tangled
      BY <1>5
    <3>2. CASE s # t
      BY <1>8, <1>9, <1>14, <2>1, <2>2, <3>1, <3>2
    <3>3. CASE s = t
      <4>1. Restores(i)
        BY <1>5, <3>3
      <4>2. RolledBack(c, setting[s]) = TopOf(Standing(s) \ {i}, s)
        BY <1>3, <1>4, <1>5, <3>1, <3>3, <4>1, RollbackRestores
      <4>4. PICK B : B = Standing(s) \ {i}
        OBVIOUS
      <4>5. B \subseteq DOMAIN capsuleSeq /\ Standing(s)' = B
        BY <1>7, <2>1, <4>4
      <4>6. TopOf(B, s)' = TopOf(B, s)
        BY <1>9, <4>5
      <4>7. TopOf(Standing(s), s)' = TopOf(B, s)'
        BY <4>5 DEF TopOf
      <4> QED BY <1>14, <3>3, <4>2, <4>4, <4>6, <4>7
    <3> QED BY <3>2, <3>3
  <2> QED BY <2>3 DEF SettingIsTop, TopOf
<1>16. t = <<t[1], t[2]>> /\ t[2] \in Item
  BY DEF Slots
<1>17. known' \in [Item -> ActionValue]
  <2>1. known \in [Item -> ActionValue] /\ c.prev \in ActionValue
    BY <1>0 DEF RATypes, ACapsule
  <2> QED BY <1>5, <1>16, <2>1
<1>18. RATypes'
  BY <1>0, <1>5, <1>6, <1>14, <1>17 DEF RATypes
<1>19. VersionsKnown'
  <2> SUFFICES ASSUME NEW x \in Item
               PROVE  /\ executor = "local" => known'[x] = setting'[<<"rollback_component", x>>]
                      /\ executor = "production" => known'[x] = initial[<<"rollback_component", x>>]
    BY <1>5 DEF VersionsKnown
  <2>0. <<"rollback_component", x>> \in Slots /\ known \in [Item -> ActionValue]
    BY <1>0 DEF Slots, ActionType, Assigning, RATypes
  <2>1. /\ executor = "local" => known[x] = setting[<<"rollback_component", x>>]
        /\ executor = "production" => known[x] = initial[<<"rollback_component", x>>]
    BY DEF ActionsInv, VersionsKnown
  <2>2. CASE t = <<"rollback_component", x>>
    <3>1. t[1] = "rollback_component" /\ t[2] = x
      BY <2>2
    <3>2. RolledBack(c, setting[t]) = c.prev
      BY <1>4, <3>1 DEF RolledBack, Fencing
    <3> QED BY <1>5, <1>14, <2>0, <2>1, <2>2, <3>1, <3>2
  <2>3. CASE t # <<"rollback_component", x>>
    <3>1. ~(t[1] = "rollback_component" /\ t[2] = x)
      BY <1>16, <2>3
    <3> QED BY <1>5, <1>14, <1>16, <2>0, <2>1, <2>3, <3>1
  <2> QED BY <2>2, <2>3
<1>20. \A s \in Slots : (\A j \in DOMAIN capsuleSeq' : capsuleSeq'[j].slot # s) => setting'[s] = initial'[s]
  BY <1>3, <1>4, <1>5, <1>6, <1>14 DEF ActionsInv
<1> QED BY <1>5, <1>6, <1>11, <1>12, <1>13, <1>15, <1>18, <1>19, <1>20 DEF ActionsInv

\* The capsule of a proposal, and what stays true of the capsules when it is stored.
LEMMA CapsuleStored ==
  ASSUME ActionsInv, NEW p \in Prop, NEW done \in BOOLEAN, capsuleSeq' = Append(capsuleSeq, Capsule(p, done)),
         NEW n, n = Len(capsuleSeq), UNCHANGED <<executor, ask, initial, tangled>>
  PROVE  /\ capsuleSeq' \in Seq(ACapsule) /\ n \in Nat /\ DOMAIN capsuleSeq = 1 .. n /\ DOMAIN capsuleSeq' = 1 .. n + 1
         /\ \A i \in 1 .. n : capsuleSeq'[i] = capsuleSeq[i]
         /\ capsuleSeq'[n + 1] = Capsule(p, done)
         /\ \A s : Standing(s)' = IF done /\ s = Slot(p) THEN Standing(s) \cup {n + 1} ELSE Standing(s)
         /\ \A s, B : B \subseteq 1 .. n => TopOf(B, s)' = TopOf(B, s)
         /\ \A i \in DOMAIN capsuleSeq' : CapsuleSound(i)'
         /\ \A q \in Prop : TookEffect(q)' <=> (TookEffect(q) \/ (done /\ q = p))
<1>0. RATypes
  BY DEF ActionsInv
<1>1. /\ Snapshot(p) \in ActionValue /\ Slot(p) \in Slots /\ setting[Slot(p)] \in ActionValue
      /\ Applied(ask[p].action, ask[p].value, setting[Slot(p)]) \in ActionValue
  BY <1>0, AskIs DEF Snapshot, Applied, RATypes, ActionValue
<1>2. Standing(Slot(p)) \subseteq DOMAIN capsuleSeq /\ DOMAIN capsuleSeq \subseteq Nat
  BY <1>0 DEF Standing, RATypes
<1>3. PICK c : c = Capsule(p, done)
  OBVIOUS
<1>4. /\ c \in ACapsule /\ c.prop = p /\ c.slot = Slot(p) /\ c.prev = Snapshot(p) /\ c.status = "active"
      /\ c.applied = done /\ c.gave = Applied(ask[p].action, ask[p].value, setting[Slot(p)])
      /\ c.found = setting[Slot(p)] /\ c.basis = Standing(Slot(p))
  BY <1>1, <1>2, <1>3 DEF Capsule, ACapsule
<1>5. /\ capsuleSeq' \in Seq(ACapsule) /\ n \in Nat /\ DOMAIN capsuleSeq = 1 .. n /\ DOMAIN capsuleSeq' = 1 .. n + 1
      /\ \A i \in 1 .. n : capsuleSeq'[i] = capsuleSeq[i]
      /\ capsuleSeq'[n + 1] = c
  BY <1>0, <1>3, <1>4, CapsuleAdded
<1>6. n + 1 \notin 1 .. n /\ 1 .. n + 1 = (1 .. n) \cup {n + 1}
  BY <1>5
<1>7. ASSUME NEW s PROVE Standing(s)' = IF done /\ s = Slot(p) THEN Standing(s) \cup {n + 1} ELSE Standing(s)
  BY <1>4, <1>5, <1>6 DEF Standing
<1>8. ASSUME NEW s, NEW B, B \subseteq 1 .. n PROVE TopOf(B, s)' = TopOf(B, s)
  BY <1>5, <1>8, TopKept
<1>9. ASSUME NEW i \in 1 .. n PROVE CapsuleSound(i)'
  <2>1. CapsuleSound(i) /\ i \in Nat
    BY <1>5 DEF ActionsInv
  <2>2. capsuleSeq[i].basis \subseteq 1 .. n
    BY <1>5, <2>1 DEF CapsuleSound
  <2> QED BY <1>5, <1>8, <2>1, <2>2 DEF CapsuleSound
<1>10. CapsuleSound(n + 1)'
  <2>1. c.basis \subseteq 1 .. n /\ 1 .. n = 1 .. (n + 1) - 1
    BY <1>2, <1>4, <1>5
  <2>2. c.slot \notin tangled => c.found = TopOf(c.basis, c.slot)
    BY <1>1, <1>4, SettingTop DEF ActionsInv
  <2>3. TopOf(c.basis, c.slot)' = TopOf(c.basis, c.slot)
    BY <1>8, <2>1
  <2>4. executor = "local" => c.prev = c.found
    BY <1>4 DEF Snapshot
  <2>5. c.slot[1] \in Fencing => c.gave = On
    BY <1>0, <1>4, AskIs DEF Applied, Fencing, Assigning
  <2> QED BY <1>5, <2>1, <2>2, <2>3, <2>4, <2>5 DEF CapsuleSound
<1>11. ASSUME NEW q \in Prop PROVE TookEffect(q)' <=> (TookEffect(q) \/ (done /\ q = p))
  BY <1>4, <1>5, <1>6 DEF TookEffect, CapsulesFor
<1> QED BY <1>3, <1>5, <1>6, <1>7, <1>8, <1>9, <1>10, <1>11

LEMMA Executes ==
  ASSUME ActionsInv, ExecuteAction
  PROVE  ActionsInv'
<1>0. RATypes
  BY DEF ActionsInv
<1>1. PICK p \in Prop : p = calling.prop
  BY DEF ExecuteAction, ActionsInv, RATypes
<1>2. /\ calling.at = "execute" /\ receiptOf[p] = "VERIFIED" /\ attempts[p] >= 1
      /\ (TookEffect(p) => attempts[p] > 1)
      /\ UNCHANGED <<executor, ask, initial, receiptOf, attempts, tangled, unsettled>>
  BY <1>1 DEF ExecuteAction, ActionsInv, CallSound, fixed
<1>3. ASSUME NEW end \in {"failed", "succeeded"}, EndsCall(end)
      PROVE  /\ calling' \in [prop : Prop \cup {AnyVersion}, at : {"idle", "execute", "succeeded", "failed"}]
             /\ calling'.at = end /\ calling'.prop = p /\ (calling'.at = "idle" <=> calling' = Idle)
  BY <1>0, <1>1, <1>3 DEF EndsCall, RATypes, Idle
<1>4. CASE /\ UNCHANGED <<setting, known, capsuleSeq, keysUsed>>
           /\ EndsCall("failed") \/ (EndsCall("succeeded") /\ ask[p].mode = "dry_run")
  <2>1. \A q : TookEffect(q)' = TookEffect(q)
    BY <1>4 DEF TookEffect, CapsulesFor
  <2>2. RATypes'
    BY <1>0, <1>2, <1>3, <1>4 DEF RATypes
  <2>3. CallSound'
    BY <1>2, <1>3, <1>4, <2>1 DEF ActionsInv, CallSound
  <2>4. ReceiptTellsOutcome'
    BY <1>2, <2>1 DEF ActionsInv, ReceiptTellsOutcome, TookEffect
  <2> QED BY <1>2, <1>4, <2>2, <2>3, <2>4, RAKeeps
<1>5. CASE /\ ask[p].mode # "dry_run" /\ EndsCall("failed") /\ capsuleSeq' = Append(capsuleSeq, Capsule(p, FALSE))
           /\ UNCHANGED <<setting, known, keysUsed>>
  <2>1. PICK n : n = Len(capsuleSeq)
    OBVIOUS
  <2>2. /\ capsuleSeq' \in Seq(ACapsule) /\ n \in Nat /\ DOMAIN capsuleSeq = 1 .. n /\ DOMAIN capsuleSeq' = 1 .. n + 1
        /\ \A i \in 1 .. n : capsuleSeq'[i] = capsuleSeq[i]
        /\ capsuleSeq'[n + 1] = Capsule(p, FALSE)
        /\ \A s : Standing(s)' = Standing(s)
        /\ \A s, B : B \subseteq 1 .. n => TopOf(B, s)' = TopOf(B, s)
        /\ \A i \in DOMAIN capsuleSeq' : CapsuleSound(i)'
        /\ \A q \in Prop : TookEffect(q)' <=> TookEffect(q)
    BY <1>2, <1>5, <2>1, CapsuleStored
  <2>3. RATypes' /\ VersionsKnown'
    BY <1>0, <1>2, <1>3, <1>5, <2>2 DEF RATypes, ActionsInv, VersionsKnown
  <2>4. CallSound'
    BY <1>2, <1>3, <1>5, <2>2 DEF ActionsInv, CallSound
  <2>5. ReceiptTellsOutcome'
    BY <1>2, <2>2 DEF ActionsInv, ReceiptTellsOutcome, TookEffect
  <2>6. SettingIsTop'
    <3>1. \A s \in Slots \ tangled : setting[s] = TopOf(Standing(s), s)
      BY SettingTop DEF ActionsInv
    <3>2. \A s : Standing(s) \subseteq 1 .. n
      BY <2>2 DEF Standing
    <3>3. \A s \in Slots \ tangled' : setting'[s] = TopOf(Standing(s), s)'
      BY <1>2, <1>5, <2>2, <3>1, <3>2
    <3> QED BY <3>3 DEF SettingIsTop, TopOf
  <2>7. LockHolds'
    <3> SUFFICES ASSUME NEW i \in 1 .. n + 1, capsuleSeq'[i].applied, capsuleSeq'[i].slot[1] = "rollback_component",
                        ask[capsuleSeq'[i].prop].expected # AnyVersion
                 PROVE  \/ capsuleSeq'[i].found = ask[capsuleSeq'[i].prop].expected
                        \/ executor = "production" /\ \E j \in 1 .. i - 1 : capsuleSeq'[j].slot = capsuleSeq'[i].slot
      BY <1>2, <2>2 DEF LockHolds
    <3>1. i # n + 1
      BY <2>2 DEF Capsule
    <3>2. i \in 1 .. n /\ \A j \in 1 .. i - 1 : j \in 1 .. n
      BY <2>2, <3>1
    <3> QED BY <2>2, <3>2 DEF ActionsInv, LockHolds
  <2>8. ASSUME NEW s \in Slots, \A j \in DOMAIN capsuleSeq' : capsuleSeq'[j].slot # s PROVE setting'[s] = initial'[s]
    <3>1. \A j \in DOMAIN capsuleSeq : capsuleSeq[j].slot # s
      BY <2>2, <2>8
    <3> QED BY <1>2, <1>5, <3>1 DEF ActionsInv
  <2> QED BY <1>2, <2>2, <2>3, <2>4, <2>5, <2>6, <2>7, <2>8 DEF ActionsInv
<1>6. CASE /\ Guards(p) /\ ask[p].mode # "dry_run" /\ EndsCall("succeeded")
           /\ capsuleSeq' = Append(capsuleSeq, Capsule(p, TRUE))
           /\ setting' = [setting EXCEPT ![Slot(p)] = Applied(ask[p].action, ask[p].value, @)]
           /\ known' = IF executor = "local" /\ ask[p].action = "rollback_component"
                         THEN [known EXCEPT ![ask[p].item] = ask[p].value] ELSE known
           /\ keysUsed' = keysUsed \cup {p}
  <2>1. PICK n, t, v : n = Len(capsuleSeq) /\ t = Slot(p) /\ v = Applied(ask[p].action, ask[p].value, setting[t])
    OBVIOUS
  <2>2. /\ capsuleSeq' \in Seq(ACapsule) /\ n \in Nat /\ DOMAIN capsuleSeq = 1 .. n /\ DOMAIN capsuleSeq' = 1 .. n + 1
        /\ \A i \in 1 .. n : capsuleSeq'[i] = capsuleSeq[i]
        /\ capsuleSeq'[n + 1] = Capsule(p, TRUE)
        /\ \A s : Standing(s)' = IF s = t THEN Standing(s) \cup {n + 1} ELSE Standing(s)
        /\ \A s, B : B \subseteq 1 .. n => TopOf(B, s)' = TopOf(B, s)
        /\ \A i \in DOMAIN capsuleSeq' : CapsuleSound(i)'
        /\ \A q \in Prop : TookEffect(q)' <=> (TookEffect(q) \/ q = p)
    <3>1. /\ capsuleSeq' = Append(capsuleSeq, Capsule(p, TRUE)) /\ TRUE \in BOOLEAN
          /\ UNCHANGED <<executor, ask, initial, tangled>>
      BY <1>2, <1>6
    <3>2. /\ capsuleSeq' \in Seq(ACapsule) /\ n \in Nat /\ DOMAIN capsuleSeq = 1 .. n /\ DOMAIN capsuleSeq' = 1 .. n + 1
          /\ \A i \in 1 .. n : capsuleSeq'[i] = capsuleSeq[i]
          /\ capsuleSeq'[n + 1] = Capsule(p, TRUE)
          /\ \A s : Standing(s)' = IF TRUE /\ s = Slot(p) THEN Standing(s) \cup {n + 1} ELSE Standing(s)
          /\ \A s, B : B \subseteq 1 .. n => TopOf(B, s)' = TopOf(B, s)
          /\ \A i \in DOMAIN capsuleSeq' : CapsuleSound(i)'
          /\ \A q \in Prop : TookEffect(q)' <=> (TookEffect(q) \/ (TRUE /\ q = p))
      BY <2>1, <3>1, CapsuleStored, Zenon
    <3> QED BY <2>1, <3>2
  <2>3. /\ ask[p].action \in ActionType /\ ask[p].item \in Item /\ t \in Slots /\ t = <<ask[p].action, ask[p].item>>
        /\ ask[p].value \in ActionValue
    BY <1>0, <2>1, AskIs DEF Slot
  <2>4. setting' \in [Slots -> ActionValue] /\ \A s \in Slots : setting'[s] = IF s = t THEN v ELSE setting[s]
    <3>1. setting \in [Slots -> ActionValue] /\ On \in ActionValue
      BY <1>0 DEF RATypes, ActionValue
    <3>2. v \in ActionValue
      BY <2>1, <2>3, <3>1 DEF Applied
    <3> QED BY <1>6, <2>1, <2>3, <3>1, <3>2
  <2>5. known \in [Item -> ActionValue] /\ known' \in [Item -> ActionValue]
    <3>1. known \in [Item -> ActionValue]
      BY <1>0 DEF RATypes
    <3> QED BY <1>6, <2>3, <3>1
  <2>6. RATypes'
    BY <1>0, <1>2, <1>3, <1>6, <2>2, <2>4, <2>5 DEF RATypes
  <2>7. VersionsKnown'
    <3> SUFFICES ASSUME NEW x \in Item
                 PROVE  /\ executor = "local" => known'[x] = setting'[<<"rollback_component", x>>]
                        /\ executor = "production" => known'[x] = initial[<<"rollback_component", x>>]
      BY <1>2 DEF VersionsKnown
    <3>1. <<"rollback_component", x>> \in Slots
      BY DEF Slots, ActionType, Assigning
    <3>2. /\ executor = "local" => known[x] = setting[<<"rollback_component", x>>]
          /\ executor = "production" => known[x] = initial[<<"rollback_component", x>>]
      BY DEF ActionsInv, VersionsKnown
    <3>3. CASE t = <<"rollback_component", x>>
      <4>1. ask[p].action = "rollback_component" /\ ask[p].item = x
        BY <2>3, <3>3
      <4>2. v = ask[p].value
        BY <2>1, <4>1 DEF Applied, Assigning
      <4> QED BY <1>6, <2>4, <2>5, <3>1, <3>2, <3>3, <4>1, <4>2
    <3>4. CASE t # <<"rollback_component", x>>
      <4>1. ~(ask[p].action = "rollback_component" /\ ask[p].item = x)
        BY <2>3, <3>4
      <4> QED BY <1>6, <2>3, <2>4, <2>5, <3>1, <3>2, <3>4, <4>1
    <3> QED BY <3>3, <3>4
  <2>8. CallSound'
    BY <1>2, <1>3, <1>6, <2>2 DEF ActionsInv, CallSound
  <2>9. ReceiptTellsOutcome'
    BY <1>2, <2>2 DEF ActionsInv, ReceiptTellsOutcome, TookEffect
  <2>10. SettingIsTop'
    <3>1. \A s \in Slots \ tangled : setting[s] = TopOf(Standing(s), s)
      BY SettingTop DEF ActionsInv
    <3>2. \A s : Standing(s) \subseteq 1 .. n
      BY <2>2 DEF Standing
    <3>3. ASSUME NEW s \in Slots \ tangled' PROVE setting'[s] = TopOf(Standing(s), s)'
      <4>1. CASE s # t
        BY <1>2, <2>2, <2>4, <3>1, <3>2, <4>1
      <4>2. CASE s = t
        <5>1. Standing(s)' # {} /\ Standing(s)' \subseteq 1 .. n + 1 /\ n + 1 \in Standing(s)' /\ n + 1 \in Nat
          BY <2>2, <3>2, <4>2
        <5>2. PICK B, m : B = Standing(s)' /\ m = Max(B)
          OBVIOUS
        <5>3. m \in 1 .. n + 1 /\ m >= n + 1
          BY <5>1, <5>2, MaxIs
        <5>4. m = n + 1
          BY <2>2, <5>3
        <5>5. TopOf(Standing(s), s)' = capsuleSeq'[n + 1].gave
          BY <5>1, <5>2, <5>4 DEF TopOf
        <5>6. capsuleSeq'[n + 1].gave = v
          BY <2>1, <2>2 DEF Capsule
        <5> QED BY <2>4, <4>2, <5>5, <5>6
      <4> QED BY <4>1, <4>2
    <3> QED BY <3>3 DEF SettingIsTop, TopOf
  <2>11. LockHolds'
    <3> SUFFICES ASSUME NEW i \in 1 .. n + 1, capsuleSeq'[i].applied, capsuleSeq'[i].slot[1] = "rollback_component",
                        ask[capsuleSeq'[i].prop].expected # AnyVersion
                 PROVE  \/ capsuleSeq'[i].found = ask[capsuleSeq'[i].prop].expected
                        \/ executor = "production" /\ \E j \in 1 .. i - 1 : capsuleSeq'[j].slot = capsuleSeq'[i].slot
      BY <1>2, <2>2 DEF LockHolds
    <3>1. CASE i # n + 1
      <4>1. i \in 1 .. n /\ \A j \in 1 .. i - 1 : j \in 1 .. n
        BY <2>2, <3>1
      <4> QED BY <2>2, <4>1 DEF ActionsInv, LockHolds
    <3>2. CASE i = n + 1
      <4>1. PICK c : c = capsuleSeq'[i]
        OBVIOUS
      <4>2. c.prop = p /\ c.slot = t /\ c.found = setting[t]
        BY <2>1, <2>2, <3>2, <4>1 DEF Capsule
      <4>3. ask[p].action = "rollback_component" /\ ask[p].expected # AnyVersion
        BY <2>3, <4>1, <4>2
      <4>4. ask[p].expected = known[ask[p].item]
        BY <1>6, <4>3 DEF Guards, OfComponent, Assigning
      <4>5. CASE executor = "local"
        BY <2>3, <4>1, <4>2, <4>3, <4>4, <4>5 DEF ActionsInv, VersionsKnown
      <4>6. CASE executor = "production"
        <5>1. known[ask[p].item] = initial[t]
          BY <2>3, <4>3, <4>6 DEF ActionsInv, VersionsKnown
        <5>2. CASE \A j \in 1 .. n : capsuleSeq[j].slot # t
          <6>1. setting[t] = initial[t]
            BY <2>2, <2>3, <5>2 DEF ActionsInv
          <6> QED BY <4>1, <4>2, <4>4, <5>1, <6>1
        <5>3. CASE \E j \in 1 .. n : capsuleSeq[j].slot = t
          <6>1. PICK j \in 1 .. n : capsuleSeq[j].slot = t
            BY <5>3
          <6>2. j \in 1 .. i - 1
            BY <2>2, <3>2
          <6> QED BY <2>2, <4>1, <4>2, <4>6, <6>1, <6>2
        <5> QED BY <5>2, <5>3
      <4> QED BY <1>0, <4>5, <4>6 DEF RATypes
    <3> QED BY <3>1, <3>2
  <2>12. ASSUME NEW s \in Slots, \A j \in DOMAIN capsuleSeq' : capsuleSeq'[j].slot # s PROVE setting'[s] = initial'[s]
    <3>1. \A j \in DOMAIN capsuleSeq : capsuleSeq[j].slot # s
      BY <2>2, <2>12
    <3>2. n + 1 \in DOMAIN capsuleSeq' /\ capsuleSeq'[n + 1].slot = t
      BY <2>1, <2>2 DEF Capsule
    <3> QED BY <1>2, <2>4, <2>12, <3>1, <3>2 DEF ActionsInv
  <2> QED BY <1>2, <2>2, <2>6, <2>7, <2>8, <2>9, <2>10, <2>11, <2>12 DEF ActionsInv
<1> QED BY <1>1, <1>4, <1>5, <1>6 DEF ExecuteAction

LEMMA RAStepInv ==
  ASSUME ActionsInv, [RANext]_ravars
  PROVE  ActionsInv'
<1>1. CASE RANext
  BY <1>1, Admits, Settles, Executes, Compensates, Retires DEF RANext
<1>2. CASE UNCHANGED ravars
  <2>1. UNCHANGED <<executor, ask, initial, setting, known, capsuleSeq, keysUsed, receiptOf, calling, attempts,
                    tangled, unsettled>>
    BY <1>2 DEF ravars
  <2>2. RATypes' /\ CallSound' /\ ReceiptTellsOutcome'
    BY <2>1 DEF ActionsInv, RATypes, CallSound, ReceiptTellsOutcome, TookEffect, CapsulesFor
  <2> QED BY <2>1, <2>2, RAKeeps
<1> QED BY <1>1, <1>2

-----------------------------------------------------------------------------
(***************************************************************************)
(* The provenance memory (ProvenanceMemory).  The hash a process saw is    *)
(* still the last one, unless two processes inserted at once; what passed  *)
(* the check is not quarantined, unless another process changed that; and  *)
(* a change of the quarantine that is not logged yet is the only one.      *)
(***************************************************************************)

AuditEvent == [prev : Nat, what : {"DENIED", "ALLOWED", "FORENSIC"} \cup Changes]

PMTypes ==
  /\ mpc \in [Proc -> {"idle", "check", "append", "change", "select", "insert", "persist"}]
  /\ mop \in [Proc -> {"none", "write", "read"} \cup Changes \cup Right]
  /\ entry \in [Proc -> {"none", "DENIED", "ALLOWED", "FORENSIC"} \cup Changes]
  /\ prev \in [Proc -> Nat] /\ quarantined \in BOOLEAN /\ auditLog \in Seq(AuditEvent)
  /\ revokedIn \in [Proc -> SUBSET Right] /\ revokedFile \subseteq Right /\ acked \subseteq Proc \X Right
  /\ changed \in [Proc -> BOOLEAN]

\* A change of the quarantine that is not in the audit log yet.
Pending(p) == mpc[p] \in {"select", "insert"} /\ mop[p] \in Changes

\* Where the operation of p is, with what it is and what it will log.
OpSound(p) ==
  /\ mpc[p] = "check" => mop[p] \in {"write", "read"}
  /\ mpc[p] = "append" => mop[p] = "write"
  /\ mpc[p] = "change" => mop[p] \in Changes
  /\ mpc[p] = "persist" => mop[p] \in revokedIn[p]
  /\ mpc[p] \in {"select", "insert"} =>
       \/ mop[p] \in {"write", "read"} /\ entry[p] \in {"DENIED", "ALLOWED", "FORENSIC"}
       \/ mop[p] \in Changes /\ entry[p] = mop[p]
  /\ mpc[p] = "append" => ~quarantined \/ changed[p]
  /\ mpc[p] \in {"select", "insert"} /\ mop[p] = "read" /\ entry[p] = "ALLOWED" => ~quarantined \/ changed[p]

ChainSound ==
  "log" \in overlapped \/ (ChainVerifies /\ \A p \in Proc : mpc[p] = "insert" => prev[p] = Len(auditLog))

RevocationsKnown == \A a \in acked : a[2] \in revokedIn[a[1]] /\ a[2] \in revokedFile

LastChange == \E i \in ChangesLogged : auditLog[i].what = "quarantine" /\ \A j \in ChangesLogged : j <= i

ChangesSound ==
  unlogged = {} /\ "quarantine" \notin overlapped =>
    /\ \A p \in Proc : Pending(p) => (quarantined <=> mop[p] = "quarantine") /\ \A q \in Proc : Pending(q) => p = q
    /\ (\A p \in Proc : ~Pending(p)) => (quarantined <=> LastChange)

MemoryInv ==
  PMTypes /\ (\A p \in Proc : OpSound(p)) /\ ChainSound /\ RevocationsKnown /\ QuarantineHolds /\ ChangesSound

LEMMA PMInitInv ==
  ASSUME PMInit
  PROVE  MemoryInv
<1>0. <<>> \in Seq(AuditEvent) /\ DOMAIN <<>> = {}
  OBVIOUS
<1>1. PMTypes
  BY <1>0 DEF PMInit, PMTypes, Changes
<1>2. \A p \in Proc : OpSound(p) /\ ~Pending(p)
  BY DEF PMInit, OpSound, Pending
<1>3. ChainSound
  BY <1>0 DEF PMInit, ChainSound, ChainVerifies
<1>4. ~LastChange /\ ~quarantined
  BY <1>0 DEF PMInit, LastChange, ChangesLogged
<1> QED BY <1>1, <1>2, <1>3, <1>4 DEF PMInit, MemoryInv, RevocationsKnown, QuarantineHolds, ChangesSound

LEMMA MemoryInvHolds ==
  ASSUME MemoryInv
  PROVE  ChainBreaksOnlyByOverlap /\ QuarantineHolds /\ QuarantineIsAudited
<1>1. (\A p \in Proc : mpc[p] = "idle") => \A p \in Proc : ~Pending(p)
  BY DEF Pending
<1> QED BY <1>1 DEF MemoryInv, ChainSound, ChainBreaksOnlyByOverlap, ChangesSound, LastChange, QuarantineIsAudited

\* A step of p that logs nothing and leaves the quarantine alone, and that ends no
\* pending change of p.
LEMMA Quiet ==
  ASSUME MemoryInv, NEW p \in Proc, PMTypes', OpSound(p)', RevocationsKnown', QuarantineHolds',
         mpc' = [mpc EXCEPT ![p] = mpc'[p]], mop' = [mop EXCEPT ![p] = mop'[p]],
         entry' = [entry EXCEPT ![p] = entry'[p]], prev' = [prev EXCEPT ![p] = prev'[p]],
         changed' = [changed EXCEPT ![p] = changed'[p]],
         \A q \in Proc \ {p} : revokedIn'[q] = revokedIn[q],
         UNCHANGED <<quarantined, auditLog, overlapped>>,
         mpc'[p] = "insert" => prev'[p] = Len(auditLog),
         \/ UNCHANGED unlogged /\ (Pending(p)' <=> Pending(p)) /\ (Pending(p) => mop'[p] = mop[p])
         \/ unlogged' # {}
  PROVE  MemoryInv'
<1>0. PMTypes
  BY DEF MemoryInv
<1>1. \A q \in Proc \ {p} : /\ mpc'[q] = mpc[q] /\ mop'[q] = mop[q] /\ entry'[q] = entry[q]
                            /\ prev'[q] = prev[q] /\ changed'[q] = changed[q]
  BY <1>0 DEF PMTypes
<1>2. \A q \in Proc : OpSound(q)'
  BY <1>1 DEF MemoryInv, OpSound
<1>3. ChainSound'
  BY <1>1 DEF MemoryInv, ChainSound, ChainVerifies
<1>4. ChangesSound'
  <2>1. CASE unlogged' # {}
    BY <2>1 DEF ChangesSound
  <2>2. CASE UNCHANGED unlogged /\ (Pending(p)' <=> Pending(p)) /\ (Pending(p) => mop'[p] = mop[p])
    <3>1. \A q \in Proc : (Pending(q)' <=> Pending(q)) /\ (Pending(q) => mop'[q] = mop[q])
      BY <1>1, <2>2 DEF Pending
    <3>2. LastChange' <=> LastChange
      BY DEF LastChange, ChangesLogged
    <3> QED BY <2>2, <3>1, <3>2 DEF MemoryInv, ChangesSound
  <2> QED BY <2>1, <2>2
<1> QED BY <1>2, <1>3, <1>4 DEF MemoryInv

LEMMA Enters ==
  ASSUME MemoryInv, NEW p \in Proc, Enter(p)
  PROVE  MemoryInv'
<1>0. PMTypes /\ RevocationsKnown /\ leaks = {}
  BY DEF MemoryInv, QuarantineHolds
<1>1. PICK o \in {"write", "read", "quarantine", "unquarantine"} :
        /\ mop' = [mop EXCEPT ![p] = o]
        /\ \/ o \in {"write", "read"} /\ To(p, "check") /\ UNCHANGED leaks
           \/ /\ o \in Changes /\ To(p, "change")
              /\ \E r \in {"QUARANTINE", "UNQUARANTINE"} : Holds(p, r) /\ leaks' = Accepts(p, r)
  BY DEF Enter, Changes
<1>2. /\ mpc[p] = "idle" /\ changed' = [changed EXCEPT ![p] = FALSE]
      /\ UNCHANGED <<entry, prev, quarantined, auditLog, revokedIn, revokedFile, acked, crashed, overlapped, unlogged>>
  BY DEF Enter, keys
<1>3. leaks' = {}
  BY <1>0, <1>1 DEF RevocationsKnown, Holds, Accepts
<1>4. /\ PMTypes' /\ mop'[p] = o /\ mpc'[p] \in {"check", "change"}
      /\ mpc'[p] = "check" => o \in {"write", "read"}
      /\ mpc'[p] = "change" => o \in Changes
      /\ mpc' = [mpc EXCEPT ![p] = mpc'[p]]
  BY <1>0, <1>1, <1>2 DEF PMTypes, To, Changes
<1>5. OpSound(p)' /\ ~Pending(p) /\ ~Pending(p)'
  BY <1>2, <1>4 DEF OpSound, Pending
<1>6. /\ mop' = [mop EXCEPT ![p] = mop'[p]] /\ entry' = [entry EXCEPT ![p] = entry'[p]]
      /\ prev' = [prev EXCEPT ![p] = prev'[p]] /\ changed' = [changed EXCEPT ![p] = changed'[p]]
  BY <1>0, <1>1, <1>2 DEF PMTypes
<1> QED BY <1>0, <1>2, <1>3, <1>4, <1>5, <1>6, Quiet DEF RevocationsKnown, QuarantineHolds

LEMMA ChecksQuarantine ==
  ASSUME MemoryInv, NEW p \in Proc, CheckQuarantine(p) \/ AppendData(p)
  PROVE  MemoryInv'
<1>0. PMTypes /\ RevocationsKnown /\ leaks = {} /\ OpSound(p)
  BY DEF MemoryInv, QuarantineHolds
<1>1. UNCHANGED <<mop, prev, quarantined, auditLog, revokedIn, revokedFile, acked, crashed, changed, overlapped, unlogged>>
  BY DEF CheckQuarantine, AppendData, keys
<1>2. PICK l \in {"append", "select"}, e \in {"none", "DENIED", "ALLOWED", "FORENSIC"} \cup Changes :
        /\ mpc' = [mpc EXCEPT ![p] = l] /\ entry' = [entry EXCEPT ![p] = e]
        /\ l = "append" => ~quarantined
        /\ l = "select" => e \in {"DENIED", "ALLOWED", "FORENSIC"}
        /\ l = "append" => mop[p] = "write"
        /\ l = "select" /\ e = "ALLOWED" /\ mop[p] = "read" => ~quarantined
        /\ mop[p] \in {"read", "write"} /\ mpc[p] \in {"check", "append"} /\ leaks' = {}
  <2>1. CASE CheckQuarantine(p)
    <3>1. mpc[p] = "check" /\ mop[p] \in {"read", "write"} /\ entry = [entry EXCEPT ![p] = entry[p]]
           /\ entry[p] \in {"none", "DENIED", "ALLOWED", "FORENSIC"} \cup Changes
      BY <1>0, <2>1 DEF CheckQuarantine, PMTypes, OpSound
    <3>2. CASE ~quarantined /\ mop[p] = "write" /\ To(p, "append") /\ UNCHANGED <<entry, leaks>>
      BY <1>0, <3>1, <3>2 DEF To
    <3>3. CASE ~quarantined /\ mop[p] = "read" /\ LogNext(p, "ALLOWED") /\ UNCHANGED leaks
      BY <1>0, <3>1, <3>3 DEF To, LogNext
    <3>4. CASE quarantined /\ LogNext(p, "DENIED") /\ UNCHANGED leaks
      BY <1>0, <3>1, <3>4 DEF To, LogNext
    <3>5. CASE /\ quarantined /\ mop[p] = "read" /\ Holds(p, "FORENSIC_READ")
               /\ LogNext(p, "FORENSIC") /\ leaks' = Accepts(p, "FORENSIC_READ")
      <4>1. leaks' = {}
        BY <1>0, <3>5 DEF RevocationsKnown, Holds, Accepts
      <4> QED BY <3>1, <3>5, <4>1 DEF To, LogNext
    <3> QED BY <2>1, <3>2, <3>3, <3>4, <3>5 DEF CheckQuarantine
  <2>2. CASE AppendData(p)
    BY <1>0, <2>2 DEF AppendData, LogNext, To, OpSound
  <2> QED BY <2>1, <2>2
<1>3. PMTypes' /\ mpc'[p] = l /\ entry'[p] = e
  BY <1>0, <1>1, <1>2 DEF PMTypes
<1>4. OpSound(p)' /\ ~Pending(p) /\ ~Pending(p)'
  BY <1>1, <1>2, <1>3 DEF OpSound, Pending, Changes
<1>5. /\ mop' = [mop EXCEPT ![p] = mop'[p]]
      /\ prev' = [prev EXCEPT ![p] = prev'[p]] /\ changed' = [changed EXCEPT ![p] = changed'[p]]
  BY <1>0, <1>1 DEF PMTypes
<1> QED BY <1>0, <1>1, <1>2, <1>3, <1>4, <1>5, Quiet DEF RevocationsKnown, QuarantineHolds

LEMMA SelectsLast ==
  ASSUME MemoryInv, NEW p \in Proc, SelectLast(p)
  PROVE  MemoryInv'
<1>0. PMTypes /\ RevocationsKnown /\ leaks = {} /\ OpSound(p)
  BY DEF MemoryInv, QuarantineHolds
<1>1. /\ mpc[p] = "select" /\ mpc' = [mpc EXCEPT ![p] = "insert"] /\ prev' = [prev EXCEPT ![p] = Len(auditLog)]
      /\ UNCHANGED <<mop, entry, quarantined, auditLog, revokedIn, revokedFile, acked, crashed, changed,
                     overlapped, unlogged, leaks>>
  BY DEF SelectLast, To, keys, history
<1>2. PMTypes' /\ mpc'[p] = "insert" /\ prev'[p] = Len(auditLog)
  BY <1>0, <1>1 DEF PMTypes
<1>3. OpSound(p)' /\ (Pending(p)' <=> Pending(p))
  BY <1>0, <1>1, <1>2 DEF OpSound, Pending
<1>4. /\ mop' = [mop EXCEPT ![p] = mop'[p]] /\ entry' = [entry EXCEPT ![p] = entry'[p]]
      /\ changed' = [changed EXCEPT ![p] = changed'[p]]
  BY <1>0, <1>1 DEF PMTypes
<1> QED BY <1>0, <1>1, <1>2, <1>3, <1>4, Quiet DEF RevocationsKnown, QuarantineHolds

\* The locals of an operation that returns are gone.
LEMMA Returns ==
  ASSUME PMTypes, NEW p \in Proc, Return(p)
  PROVE  /\ mpc' \in [Proc -> {"idle", "check", "append", "change", "select", "insert", "persist"}]
         /\ mop' \in [Proc -> {"none", "write", "read"} \cup Changes \cup Right]
         /\ entry' \in [Proc -> {"none", "DENIED", "ALLOWED", "FORENSIC"} \cup Changes]
         /\ prev' \in [Proc -> Nat] /\ changed' \in [Proc -> BOOLEAN]
         /\ mpc'[p] = "idle" /\ OpSound(p)' /\ ~Pending(p)'
         /\ mpc' = [mpc EXCEPT ![p] = mpc'[p]] /\ mop' = [mop EXCEPT ![p] = mop'[p]]
         /\ entry' = [entry EXCEPT ![p] = entry'[p]] /\ prev' = [prev EXCEPT ![p] = prev'[p]]
         /\ changed' = [changed EXCEPT ![p] = changed'[p]]
<1>1. /\ mpc' \in [Proc -> {"idle", "check", "append", "change", "select", "insert", "persist"}]
      /\ mop' \in [Proc -> {"none", "write", "read"} \cup Changes \cup Right]
      /\ entry' \in [Proc -> {"none", "DENIED", "ALLOWED", "FORENSIC"} \cup Changes]
      /\ prev' \in [Proc -> Nat] /\ changed' \in [Proc -> BOOLEAN]
  BY DEF PMTypes, Return, To
<1>2. mpc'[p] = "idle" /\ mop'[p] = "none" /\ entry'[p] = "none" /\ prev'[p] = 0 /\ changed'[p] = FALSE
  BY DEF PMTypes, Return, To
<1>3. OpSound(p)' /\ ~Pending(p)'
  BY <1>2 DEF OpSound, Pending
<1>4. /\ mpc' = [mpc EXCEPT ![p] = mpc'[p]] /\ mop' = [mop EXCEPT ![p] = mop'[p]]
      /\ entry' = [entry EXCEPT ![p] = entry'[p]] /\ prev' = [prev EXCEPT ![p] = prev'[p]]
      /\ changed' = [changed EXCEPT ![p] = changed'[p]]
  BY <1>2 DEF Return, To
<1> QED BY <1>1, <1>2, <1>3, <1>4

LEMMA CallEnds ==
  ASSUME MemoryInv, NEW p \in Proc, InsertLocked(p) \/ PersistRevocation(p) \/ CrashProcess(p)
  PROVE  MemoryInv'
<1>0. PMTypes /\ RevocationsKnown /\ leaks = {} /\ OpSound(p) /\ Return(p)
  BY DEF MemoryInv, QuarantineHolds, InsertLocked, PersistRevocation, CrashProcess
<1>1. UNCHANGED <<quarantined, auditLog, overlapped, leaks>>
  BY DEF InsertLocked, PersistRevocation, CrashProcess, keys
<1>2. /\ revokedIn' \in [Proc -> SUBSET Right] /\ revokedFile' \subseteq Right /\ acked' \subseteq Proc \X Right
      /\ RevocationsKnown' /\ \A q \in Proc \ {p} : revokedIn'[q] = revokedIn[q]
  <2>0. /\ revokedIn \in [Proc -> SUBSET Right] /\ revokedFile \subseteq Right /\ acked \subseteq Proc \X Right
        /\ mop[p] \in {"none", "write", "read"} \cup Changes \cup Right
    BY <1>0 DEF PMTypes
  <2>1. CASE InsertLocked(p)
    BY <1>0, <2>0, <2>1 DEF InsertLocked, keys, RevocationsKnown
  <2>2. CASE PersistRevocation(p)
    <3>1. /\ revokedIn' = revokedIn /\ revokedFile' = revokedFile \cup {mop[p]} /\ acked' = acked \cup {<<p, mop[p]>>}
          /\ mop[p] \in revokedIn[p]
      BY <1>0, <2>2 DEF PersistRevocation, OpSound
    <3>2. mop[p] \in Right
      BY <2>0, <3>1
    <3> QED BY <1>0, <2>0, <3>1, <3>2 DEF RevocationsKnown
  <2>3. CASE CrashProcess(p)
    <3>1. /\ revokedIn' = [revokedIn EXCEPT ![p] = revokedFile] /\ revokedFile' = revokedFile
          /\ acked' = acked \cup {<<p, a[2]>> : a \in acked}
      BY <2>3 DEF CrashProcess
    <3>2. \A a \in acked : a[1] \in Proc /\ a[2] \in Right /\ a[2] \in revokedFile /\ a[2] \in revokedIn[a[1]]
      BY <1>0, <2>0 DEF RevocationsKnown
    <3>3. RevocationsKnown'
      <4> SUFFICES ASSUME NEW b \in acked' PROVE b[2] \in revokedIn'[b[1]] /\ b[2] \in revokedFile'
        BY DEF RevocationsKnown
      <4>1. CASE b \in acked
        BY <2>0, <3>1, <3>2, <4>1
      <4>2. CASE b \in {<<p, a[2]>> : a \in acked}
        BY <2>0, <3>1, <3>2, <4>2
      <4> QED BY <3>1, <4>1, <4>2
    <3> QED BY <2>0, <3>1, <3>2, <3>3
  <2> QED BY <2>1, <2>2, <2>3
<1>3. \/ UNCHANGED unlogged /\ ~Pending(p)
      \/ unlogged' # {}
  <2>1. CASE InsertLocked(p)
    BY <2>1 DEF InsertLocked, Pending
  <2>2. CASE PersistRevocation(p)
    BY <2>2 DEF PersistRevocation, Pending
  <2>3. CASE CrashProcess(p)
    BY <2>3 DEF CrashProcess, Pending
  <2> QED BY <2>1, <2>2, <2>3
<1>4. PMTypes'
  BY <1>0, <1>1, <1>2, Returns DEF PMTypes
<1>5. QuarantineHolds'
  BY <1>0, <1>1 DEF QuarantineHolds
<1> QED BY <1>0, <1>1, <1>2, <1>3, <1>4, <1>5, Returns, Quiet

LEMMA Revokes ==
  ASSUME MemoryInv, NEW p \in Proc, Revoke(p)
  PROVE  MemoryInv'
<1>0. PMTypes /\ RevocationsKnown /\ leaks = {} /\ OpSound(p)
  BY DEF MemoryInv, QuarantineHolds
<1>1. PICK r \in Right \ revokedIn[p] :
        revokedIn' = [revokedIn EXCEPT ![p] = @ \cup {r}] /\ mop' = [mop EXCEPT ![p] = r]
  BY DEF Revoke
<1>2. /\ mpc[p] = "idle" /\ mpc' = [mpc EXCEPT ![p] = "persist"]
      /\ UNCHANGED <<entry, prev, quarantined, auditLog, revokedFile, acked, crashed, changed, overlapped, unlogged, leaks>>
  BY DEF Revoke, To, history
<1>3. PMTypes' /\ mpc'[p] = "persist" /\ mop'[p] = r /\ r \in revokedIn'[p]
  BY <1>0, <1>1, <1>2 DEF PMTypes
<1>4. OpSound(p)' /\ ~Pending(p) /\ ~Pending(p)'
  BY <1>2, <1>3 DEF OpSound, Pending
<1>5. /\ mop' = [mop EXCEPT ![p] = mop'[p]] /\ entry' = [entry EXCEPT ![p] = entry'[p]]
      /\ prev' = [prev EXCEPT ![p] = prev'[p]] /\ changed' = [changed EXCEPT ![p] = changed'[p]]
  BY <1>0, <1>1, <1>2 DEF PMTypes
<1>6. (\A q \in Proc \ {p} : revokedIn'[q] = revokedIn[q]) /\ \A q \in Proc : revokedIn[q] \subseteq revokedIn'[q]
  BY <1>0, <1>1 DEF PMTypes
<1>7. RevocationsKnown'
  BY <1>0, <1>2, <1>6 DEF RevocationsKnown, PMTypes
<1> QED BY <1>0, <1>1, <1>2, <1>3, <1>4, <1>5, <1>6, <1>7, Quiet DEF QuarantineHolds

LEMMA ChangesQuarantine ==
  ASSUME MemoryInv, NEW p \in Proc, ChangeQuarantine(p)
  PROVE  MemoryInv'
<1>0. PMTypes /\ RevocationsKnown /\ leaks = {} /\ ChainSound /\ ChangesSound /\ \A q \in Proc : OpSound(q)
  BY DEF MemoryInv, QuarantineHolds
<1>1. /\ mpc[p] = "change" /\ quarantined' = (mop[p] = "quarantine")
      /\ mpc' = [mpc EXCEPT ![p] = "select"] /\ entry' = [entry EXCEPT ![p] = mop[p]]
      /\ changed' = [q \in Proc |-> changed[q] \/ (q # p /\ mpc[q] # "idle")]
      /\ overlapped' = overlapped \cup
           {x \in {"quarantine"} : \E q \in Proc \ {p} : mpc[q] \in {"select", "insert"} /\ mop[q] \in Changes}
      /\ UNCHANGED <<mop, prev, auditLog, revokedIn, revokedFile, acked, crashed, unlogged, leaks>>
  BY DEF ChangeQuarantine, LogNext, To, keys
<1>2. mop[p] \in Changes
  BY <1>0, <1>1 DEF OpSound
<1>3. PMTypes'
  BY <1>0, <1>1, <1>2 DEF PMTypes
<1>4. /\ mpc'[p] = "select" /\ entry'[p] = mop[p]
      /\ \A q \in Proc \ {p} : /\ mpc'[q] = mpc[q] /\ entry'[q] = entry[q]
                               /\ mpc[q] # "idle" => changed'[q]
  BY <1>0, <1>1 DEF PMTypes
<1>5. \A q \in Proc : OpSound(q)'
  <2> SUFFICES ASSUME NEW q \in Proc PROVE OpSound(q)'
    OBVIOUS
  <2>1. CASE q = p
    BY <1>1, <1>2, <1>4, <2>1 DEF OpSound, Changes
  <2>2. CASE q # p
    BY <1>0, <1>1, <1>4, <2>2 DEF OpSound
  <2> QED BY <2>1, <2>2
<1>6. ChainSound'
  BY <1>0, <1>1, <1>4 DEF ChainSound, ChainVerifies
<1>7. ChangesSound'
  <2> SUFFICES ASSUME "quarantine" \notin overlapped'
               PROVE  /\ \A q \in Proc : Pending(q)' => q = p
                      /\ Pending(p)' /\ (quarantined' <=> mop'[p] = "quarantine")
    BY DEF ChangesSound
  <2>1. \A q \in Proc \ {p} : ~(mpc[q] \in {"select", "insert"} /\ mop[q] \in Changes)
    BY <1>1
  <2> QED BY <1>1, <1>2, <1>4, <2>1 DEF Pending
<1> QED BY <1>0, <1>1, <1>3, <1>5, <1>6, <1>7 DEF MemoryInv, RevocationsKnown, QuarantineHolds

LEMMA InsertsEvent ==
  ASSUME MemoryInv, NEW p \in Proc, InsertEvent(p)
  PROVE  MemoryInv'
<1>0. PMTypes /\ RevocationsKnown /\ leaks = {} /\ ChainSound /\ ChangesSound /\ \A q \in Proc : OpSound(q)
  BY DEF MemoryInv, QuarantineHolds
<1>1. /\ mpc[p] = "insert" /\ Return(p)
      /\ auditLog' = Append(auditLog, [prev |-> prev[p], what |-> entry[p]])
      /\ overlapped' = overlapped \cup {x \in {"log"} : \E q \in Proc \ {p} : mpc[q] = "insert"}
      /\ leaks' = leaks \cup {x \in {"read"} : mop[p] = x /\ entry[p] = "ALLOWED" /\ quarantined /\ ~changed[p]}
      /\ UNCHANGED <<quarantined, revokedIn, revokedFile, acked, crashed, unlogged>>
  BY DEF InsertEvent, keys
<1>2. PICK n \in Nat : n = Len(auditLog)
  BY <1>0 DEF PMTypes
<1>3. PICK e \in AuditEvent : e = [prev |-> prev[p], what |-> entry[p]]
  <2>1. entry[p] \in {"DENIED", "ALLOWED", "FORENSIC"} \cup Changes /\ prev[p] \in Nat
    BY <1>0, <1>1 DEF PMTypes, OpSound
  <2> QED BY <2>1 DEF AuditEvent
<1>4. /\ auditLog' \in Seq(AuditEvent) /\ DOMAIN auditLog = 1 .. n /\ Len(auditLog') = n + 1
      /\ DOMAIN auditLog' = 1 .. n + 1 /\ auditLog'[n + 1] = e /\ \A i \in 1 .. n : auditLog'[i] = auditLog[i]
  BY <1>0, <1>1, <1>2, <1>3 DEF PMTypes
<1>5. 1 .. n + 1 = (1 .. n) \cup {n + 1} /\ n + 1 \notin 1 .. n /\ \A i \in 1 .. n + 1 : i <= n + 1
  OBVIOUS
<1>6. PMTypes'
  BY <1>0, <1>1, <1>4, Returns DEF PMTypes
<1>7. \A q \in Proc \ {p} : /\ mpc'[q] = mpc[q] /\ mop'[q] = mop[q] /\ entry'[q] = entry[q]
                            /\ prev'[q] = prev[q] /\ changed'[q] = changed[q]
  BY <1>0, <1>1 DEF PMTypes, Return, To
<1>8. \A q \in Proc : OpSound(q)'
  BY <1>0, <1>1, <1>7, Returns DEF OpSound
<1>9. leaks' = {}
  BY <1>0, <1>1 DEF OpSound
<1>10. ChainSound'
  <2> SUFFICES ASSUME "log" \notin overlapped' PROVE ChainVerifies' /\ \A q \in Proc : mpc'[q] # "insert"
    BY DEF ChainSound
  <2>1. \A q \in Proc \ {p} : mpc[q] # "insert"
    BY <1>1
  <2>2. \A q \in Proc : mpc'[q] # "insert"
    BY <1>0, <1>1, <1>7, <2>1, Returns
  <2>3. ChainVerifies /\ prev[p] = n
    BY <1>0, <1>1, <1>2 DEF ChainSound
  <2>4. e.prev = n /\ (n + 1) - 1 = n
    BY <1>3, <2>3
  <2>5. ASSUME NEW i \in 1 .. n + 1 PROVE auditLog'[i].prev = i - 1
    <3>1. CASE i = n + 1
      BY <1>4, <2>4, <3>1
    <3>2. CASE i \in 1 .. n
      BY <1>4, <2>3, <3>2 DEF ChainVerifies
    <3> QED BY <1>5, <3>1, <3>2
  <2> QED BY <1>4, <2>2, <2>5 DEF ChainVerifies
<1>11. ChangesSound'
  <2> SUFFICES ASSUME unlogged' = {}, "quarantine" \notin overlapped'
               PROVE  /\ \A q \in Proc : Pending(q)' =>
                           (quarantined' <=> mop'[q] = "quarantine") /\ \A o \in Proc : Pending(o)' => q = o
                      /\ (\A q \in Proc : ~Pending(q)') => (quarantined' <=> LastChange')
    BY DEF ChangesSound
  <2>1. unlogged = {} /\ "quarantine" \notin overlapped
    BY <1>1
  <2>2. ~Pending(p)' /\ \A q \in Proc \ {p} : Pending(q)' <=> Pending(q)
    BY <1>0, <1>1, <1>7, Returns DEF Pending
  <2>3. CASE Pending(p)
    <3>1. \A q \in Proc : ~Pending(q)'
      BY <1>0, <2>1, <2>2, <2>3 DEF ChangesSound
    <3>2. (quarantined <=> mop[p] = "quarantine") /\ mop[p] \in Changes
      BY <1>0, <2>1, <2>3 DEF ChangesSound, Pending
    <3>3. e.what = mop[p]
      BY <1>0, <1>1, <1>3, <3>2 DEF OpSound, Changes
    <3>4. n + 1 \in ChangesLogged' /\ \A j \in ChangesLogged' : j <= n + 1 /\ j \in Nat
      BY <1>4, <1>5, <3>2, <3>3 DEF ChangesLogged
    <3>5. ASSUME NEW i \in ChangesLogged', \A j \in ChangesLogged' : j <= i PROVE i = n + 1
      BY <3>4, <3>5
    <3>6. LastChange' <=> e.what = "quarantine"
      BY <1>4, <3>4, <3>5 DEF LastChange
    <3> QED BY <1>1, <3>1, <3>2, <3>3, <3>6
  <2>4. CASE ~Pending(p)
    <3>1. e.what \notin Changes
      BY <1>0, <1>1, <1>3, <2>4 DEF OpSound, Pending, Changes
    <3>2. ChangesLogged' = ChangesLogged
      BY <1>4, <1>5, <3>1 DEF ChangesLogged
    <3>3. \A i \in ChangesLogged : auditLog'[i] = auditLog[i]
      BY <1>4 DEF ChangesLogged
    <3>4. LastChange' <=> LastChange
      BY <3>2, <3>3 DEF LastChange
    <3>5. /\ \A q \in Proc : Pending(q) => (quarantined <=> mop[q] = "quarantine") /\ \A o \in Proc : Pending(o) => q = o
          /\ (\A q \in Proc : ~Pending(q)) => (quarantined <=> LastChange)
      BY <1>0, <2>1 DEF ChangesSound
    <3> QED BY <1>1, <1>7, <2>2, <2>4, <3>4, <3>5
  <2> QED BY <2>3, <2>4
<1> QED BY <1>0, <1>1, <1>6, <1>8, <1>9, <1>10, <1>11 DEF MemoryInv, RevocationsKnown, QuarantineHolds

LEMMA PMStepInv ==
  ASSUME MemoryInv, [PMNext]_pmvars
  PROVE  MemoryInv'
<1>1. CASE UNCHANGED pmvars
  BY <1>1 DEF pmvars, MemoryInv, PMTypes, OpSound, ChainSound, ChainVerifies, RevocationsKnown, QuarantineHolds,
              ChangesSound, Pending, LastChange, ChangesLogged
<1>2. CASE PMNext
  BY <1>2, Enters, ChecksQuarantine, ChangesQuarantine, SelectsLast, InsertsEvent, CallEnds, Revokes DEF PMNext
<1> QED BY <1>1, <1>2

-----------------------------------------------------------------------------
(***************************************************************************)
(* The trail of the SQLite receipt store.  An event appended to a trail    *)
(* that verifies continues it, and one appended to a damaged trail leaves  *)
(* the damage where it is.                                                 *)
(***************************************************************************)

Trail(s) ==
  /\ s \in Seq({s[i] : i \in DOMAIN s})
  /\ \A i \in DOMAIN s : s[i] = [seq |-> s[i].seq, type |-> s[i].type, prev |-> s[i].prev, hash |-> s[i].hash]

\* What was done to a trail, as verify_event_chain will find it.
ChainTells(s, t) ==
  /\ t \in {"no", "altered", "removed", "cut"}
  /\ t \in {"no", "cut"} => TrailVerifies(s)
  /\ t = "altered" => \E i \in DOMAIN s : s[i].hash # EventHash(s[i].seq, s[i].type, s[i].prev)
  /\ t = "removed" => \E i \in DOMAIN s : s[i].seq # i

\* The last event that is no refusal is one of the status.
TellsRow(s, status) ==
  \E i \in DOMAIN s : /\ s[i].type \in LifecycleEvent(status)
                      /\ \A j \in i + 1 .. Len(s) : s[j].type \in RefusalEvent

TrailSound(s, status, t) ==
  /\ Trail(s)
  /\ status = "ABSENT" => s = <<>> /\ t = "no"
  /\ status # "ABSENT" => s # <<>> /\ ChainTells(s, t) /\ (t = "no" => TellsRow(s, status))

TrailInv ==
  /\ row \in [LReceipt -> RowStatus] /\ DOMAIN trail = LReceipt /\ trail = [r \in LReceipt |-> trail[r]]
  /\ tampered = [r \in LReceipt |-> tampered[r]]
  /\ \A r \in LReceipt : TrailSound(trail[r], row[r], tampered[r])

\* Capacity is open exactly while the receipt object is.
ObjectInv ==
  /\ object \in [LReceipt -> RowStatus]
  /\ reservation \in [LReceipt -> {"none", "open", "committed", "released"}] /\ ReservationFollowsObject

LEMMA LRInitInv ==
  ASSUME LRInit
  PROVE  TrailInv /\ ObjectInv
<1>1. <<>> \in Seq({<<>>[i] : i \in DOMAIN <<>>}) /\ DOMAIN <<>> = {}
  OBVIOUS
<1>2. Trail(<<>>)
  BY <1>1 DEF Trail
<1>3. \A r \in LReceipt : TrailSound(trail[r], row[r], tampered[r])
  BY <1>2 DEF LRInit, TrailSound
<1> QED BY <1>3 DEF LRInit, TrailInv, ObjectInv, ReservationFollowsObject, RowStatus, OpenStatus

LEMMA TrailInvTells ==
  ASSUME TrailInv, ObjectInv
  PROVE  TrailTellsRow /\ ChainFindsTampering /\ ReservationFollowsObject
<1>1. ASSUME NEW r \in LReceipt, row[r] # "ABSENT"
      PROVE  /\ tampered[r] = "no" => TellsRow(trail[r], row[r])
             /\ TrailVerifies(trail[r]) <=> tampered[r] \in {"no", "cut"}
  <2>1. ChainTells(trail[r], tampered[r]) /\ (tampered[r] = "no" => TellsRow(trail[r], row[r]))
    BY <1>1 DEF TrailInv, TrailSound
  <2> QED BY <2>1 DEF ChainTells, TrailVerifies
<1> QED BY <1>1 DEF TrailTellsRow, TellsRow, ChainFindsTampering, ObjectInv

LEMMA EventAppended ==
  ASSUME NEW s, NEW t, NEW type, Trail(s), (s = <<>> /\ t = "no") \/ (s # <<>> /\ ChainTells(s, t)),
         NEW n \in Nat, n = Len(s)
  PROVE  LET u == WithEvent(s, type) IN
         /\ Trail(u) /\ u # <<>> /\ ChainTells(u, t) /\ Len(u) = n + 1 /\ DOMAIN u = 1 .. n + 1 /\ DOMAIN s = 1 .. n
         /\ \A i \in 1 .. n : u[i] = s[i]
         /\ u[n + 1].type = type
<1> DEFINE u == WithEvent(s, type)
           R == {s[i] : i \in DOMAIN s}
           k == IF s = <<>> THEN 1 ELSE s[Len(s)].seq + 1
           h == IF s = <<>> THEN NoHash ELSE s[Len(s)].hash
           e == [seq |-> k, type |-> type, prev |-> h, hash |-> EventHash(k, type, h)]
           Q == R \cup {e}
<1>1. u = Append(s, e)
  BY DEF WithEvent
<1>2. s \in Seq(R) /\ DOMAIN s = 1 .. n
  BY DEF Trail
<1>3. e.seq = k /\ e.type = type /\ e.prev = h /\ e.hash = EventHash(k, type, h)
  OBVIOUS
<1>4. e = [seq |-> e.seq, type |-> e.type, prev |-> e.prev, hash |-> e.hash]
  OBVIOUS
<1> HIDE DEF u, e, R, Q
<1>5. s \in Seq(Q) /\ e \in Q
  BY <1>2 DEF Q
<1>6. Len(u) = n + 1 /\ DOMAIN u = 1 .. n + 1 /\ u[n + 1] = e /\ (\A i \in 1 .. n : u[i] = s[i]) /\ u \in Seq(Q)
  BY <1>1, <1>5
<1>7. 1 .. n + 1 = (1 .. n) \cup {n + 1} /\ u # <<>>
  BY <1>6
<1>8. Trail(u)
  <2>1. \A i \in DOMAIN u : u[i] = [seq |-> u[i].seq, type |-> u[i].type, prev |-> u[i].prev, hash |-> u[i].hash]
    BY <1>2, <1>4, <1>6, <1>7 DEF Trail
  <2>2. u \in Seq({u[i] : i \in DOMAIN u})
    BY <1>6
  <2> QED BY <2>1, <2>2 DEF Trail
<1>9. ChainTells(u, t)
  <2>1. t \in {"no", "altered", "removed", "cut"}
    BY DEF ChainTells
  <2>2. ASSUME t \in {"no", "cut"} PROVE TrailVerifies(u)
    <3> SUFFICES ASSUME NEW i \in 1 .. n + 1
                 PROVE  /\ u[i].seq = i /\ u[i].prev = IF i = 1 THEN NoHash ELSE u[i - 1].hash
                        /\ u[i].hash = EventHash(u[i].seq, u[i].type, u[i].prev)
      BY <1>6, <1>7 DEF TrailVerifies
    <3>1. s # <<>> => TrailVerifies(s)
      BY <2>2 DEF ChainTells
    <3>2. CASE i \in 1 .. n
      <4>1. s # <<>> /\ u[i] = s[i] /\ (i # 1 => i - 1 \in 1 .. n)
        BY <1>2, <1>6, <3>2
      <4>2. i # 1 => u[i - 1] = s[i - 1]
        BY <1>6, <4>1
      <4> QED BY <1>2, <3>1, <3>2, <4>1, <4>2 DEF TrailVerifies
    <3>3. CASE i = n + 1 /\ s = <<>>
      <4>1. n = 0 /\ i = 1 /\ u[i] = e /\ k = 1 /\ h = NoHash
        BY <1>6, <3>3
      <4> QED BY <1>3, <4>1
    <3>4. CASE i = n + 1 /\ s # <<>>
      <4>1. n \in 1 .. n /\ i # 1 /\ i - 1 = n
        BY <1>2, <3>4
      <4>2. s[n].seq = n
        BY <1>2, <3>1, <3>4, <4>1 DEF TrailVerifies
      <4>3. k = n + 1 /\ h = s[n].hash /\ u[n] = s[n]
        BY <1>6, <3>4, <4>1, <4>2
      <4> QED BY <1>3, <1>6, <3>4, <4>1, <4>3
    <3> QED BY <1>7, <3>2, <3>3, <3>4
  <2>3. ASSUME t \notin {"no", "cut"} PROVE \A i \in DOMAIN s : i \in DOMAIN u /\ u[i] = s[i]
    BY <1>2, <1>6, <1>7
  <2> QED BY <2>1, <2>2, <2>3 DEF ChainTells
<1> QED BY <1>2, <1>3, <1>6, <1>7, <1>8, <1>9 DEF u

\* A lifecycle event tells the new status; a refusal leaves what was told.
LEMMA EventTells ==
  ASSUME NEW s, NEW t, NEW type, NEW old, NEW status \in RowStatus \ {"ABSENT"}, TrailSound(s, old, t),
         type \in LifecycleEvent(status) \/ (type \in RefusalEvent /\ old = status)
  PROVE  TrailSound(WithEvent(s, type), status, t)
<1>1. Trail(s) /\ ((s = <<>> /\ t = "no") \/ (s # <<>> /\ ChainTells(s, t)))
  BY DEF TrailSound
<1>2. PICK n \in Nat : n = Len(s)
  BY <1>1 DEF Trail
<1>3. PICK u : u = WithEvent(s, type)
  OBVIOUS
<1>4. /\ Trail(u) /\ u # <<>> /\ ChainTells(u, t) /\ Len(u) = n + 1 /\ DOMAIN u = 1 .. n + 1 /\ DOMAIN s = 1 .. n
      /\ \A i \in 1 .. n : u[i] = s[i]
      /\ u[n + 1].type = type
  <2>1. LET w == WithEvent(s, type) IN
        /\ Trail(w) /\ w # <<>> /\ ChainTells(w, t) /\ Len(w) = n + 1 /\ DOMAIN w = 1 .. n + 1 /\ DOMAIN s = 1 .. n
        /\ \A i \in 1 .. n : w[i] = s[i]
        /\ w[n + 1].type = type
    BY <1>1, <1>2, EventAppended
  <2> QED BY <1>3, <2>1
<1>5. ASSUME t = "no" PROVE TellsRow(u, status)
  <2>1. CASE type \in LifecycleEvent(status)
    <3>1. n + 1 \in DOMAIN u /\ (n + 1) + 1 .. Len(u) = {}
      BY <1>2, <1>4
    <3> QED BY <1>4, <2>1, <3>1 DEF TellsRow
  <2>2. CASE type \in RefusalEvent /\ old = status
    <3>1. PICK i \in DOMAIN s : /\ s[i].type \in LifecycleEvent(status)
                                /\ \A j \in i + 1 .. Len(s) : s[j].type \in RefusalEvent
      BY <1>5, <2>2 DEF TrailSound, TellsRow
    <3>2. i \in 1 .. n /\ i \in DOMAIN u /\ u[i] = s[i]
      BY <1>2, <1>4, <3>1
    <3>3. ASSUME NEW j \in i + 1 .. Len(u) PROVE u[j].type \in RefusalEvent
      <4>1. j \in i + 1 .. n + 1 /\ i \in Nat
        BY <1>4, <3>2, <3>3
      <4>2. j = n + 1 \/ (j \in i + 1 .. n /\ j \in 1 .. n)
        BY <1>2, <4>1
      <4>3. CASE j = n + 1
        BY <1>4, <2>2, <4>3
      <4>4. CASE j \in i + 1 .. n /\ j \in 1 .. n
        BY <1>2, <1>4, <3>1, <4>4
      <4> QED BY <4>2, <4>3, <4>4
    <3> QED BY <3>1, <3>2, <3>3 DEF TellsRow
  <2> QED BY <2>1, <2>2
<1> QED BY <1>3, <1>4, <1>5 DEF TrailSound

LEMMA RowRecorded ==
  ASSUME TrailInv, NEW r \in LReceipt, NEW status \in RowStatus, NEW u, TrailSound(u, status, tampered[r]),
         row' = [row EXCEPT ![r] = status], trail' = [trail EXCEPT ![r] = u], UNCHANGED tampered
  PROVE  TrailInv'
<1>1. row'[r] = status /\ trail'[r] = u /\ tampered'[r] = tampered[r]
  BY DEF TrailInv
<1>2. \A q \in LReceipt \ {r} : row'[q] = row[q] /\ trail'[q] = trail[q] /\ tampered'[q] = tampered[q]
  BY DEF TrailInv
<1>3. \A q \in LReceipt : TrailSound(trail'[q], row'[q], tampered'[q])
  BY <1>1, <1>2 DEF TrailInv
<1>4. row' \in [LReceipt -> RowStatus] /\ DOMAIN trail' = LReceipt /\ trail' = [q \in LReceipt |-> trail'[q]]
  BY DEF TrailInv
<1> QED BY <1>3, <1>4 DEF TrailInv

LEMMA Recorded ==
  ASSUME TrailInv, NEW r \in LReceipt,
         \/ IssueRow(r) \/ ClaimRow(r) \/ Refuse(r) \/ RecordAttestation(r)
         \/ SettleRow(r, "CONSUMED", "CONSUME") \/ SettleRow(r, "RELEASED", "RELEASE") \/ SettleRow(r, "VOIDED", "VOID")
  PROVE  TrailInv' /\ UNCHANGED objectVars
<1>0. /\ row \in [LReceipt -> RowStatus] /\ TrailSound(trail[r], row[r], tampered[r])
      /\ row = [row EXCEPT ![r] = row[r]]
  BY DEF TrailInv
<1>1. UNCHANGED tampered /\ UNCHANGED objectVars
  BY DEF IssueRow, ClaimRow, Refuse, RecordAttestation, SettleRow
<1>2. CASE IssueRow(r)
  <2>1. TrailSound(WithEvent(trail[r], "ISSUE"), "ISSUED", tampered[r])
    BY <1>0, EventTells DEF LifecycleEvent, RowStatus
  <2> QED BY <1>1, <1>2, <2>1, RowRecorded DEF IssueRow, AppendEvent, RowStatus
<1>3. CASE ClaimRow(r)
  <2>1. TrailSound(WithEvent(trail[r], "VERIFY"), "VERIFIED", tampered[r])
    BY <1>0, EventTells DEF LifecycleEvent, RowStatus
  <2> QED BY <1>1, <1>3, <2>1, RowRecorded DEF ClaimRow, AppendEvent, RowStatus
<1>4. CASE RecordAttestation(r)
  <2>1. TrailSound(WithEvent(trail[r], "ATTEST"), "VERIFIED", tampered[r])
    BY <1>0, EventTells DEF LifecycleEvent, RowStatus
  <2>2. row' = [row EXCEPT ![r] = "VERIFIED"]
    BY <1>0, <1>4 DEF RecordAttestation
  <2> QED BY <1>1, <1>4, <2>1, <2>2, RowRecorded DEF RecordAttestation, AppendEvent, RowStatus
<1>5. CASE SettleRow(r, "CONSUMED", "CONSUME")
  <2>1. TrailSound(WithEvent(trail[r], "CONSUME"), "CONSUMED", tampered[r])
    BY <1>0, EventTells DEF LifecycleEvent, RowStatus
  <2> QED BY <1>1, <1>5, <2>1, RowRecorded DEF SettleRow, AppendEvent, RowStatus
<1>6. CASE SettleRow(r, "RELEASED", "RELEASE")
  <2>1. TrailSound(WithEvent(trail[r], "RELEASE"), "RELEASED", tampered[r])
    BY <1>0, EventTells DEF LifecycleEvent, RowStatus
  <2> QED BY <1>1, <1>6, <2>1, RowRecorded DEF SettleRow, AppendEvent, RowStatus
<1>7. CASE SettleRow(r, "VOIDED", "VOID")
  <2>1. TrailSound(WithEvent(trail[r], "VOID"), "VOIDED", tampered[r])
    BY <1>0, EventTells DEF LifecycleEvent, RowStatus
  <2> QED BY <1>1, <1>7, <2>1, RowRecorded DEF SettleRow, AppendEvent, RowStatus
<1>8. CASE Refuse(r)
  <2>1. PICK why \in RefusalEvent, expired \in BOOLEAN :
          IF row[r] = "ISSUED"
            THEN /\ row' = [row EXCEPT ![r] = IF expired THEN "EXPIRED" ELSE "VOIDED"]
                 /\ trail' = [trail EXCEPT ![r] = WithEvent(WithEvent(@, why), IF expired THEN "EXPIRE" ELSE "VOID")]
            ELSE ~expired /\ UNCHANGED row /\ AppendEvent(r, why)
    BY <1>8 DEF Refuse, RefusalEvent
  <2>2. row[r] \in RowStatus \ {"ABSENT"}
    BY <1>0, <1>8 DEF Refuse
  <2>3. TrailSound(WithEvent(trail[r], why), row[r], tampered[r])
    BY <1>0, <2>2, EventTells
  <2>4. CASE row[r] # "ISSUED"
    BY <1>0, <1>1, <2>1, <2>2, <2>3, <2>4, RowRecorded DEF AppendEvent
  <2>5. CASE row[r] = "ISSUED"
    <3>1. PICK status, event : /\ status = IF expired THEN "EXPIRED" ELSE "VOIDED"
                               /\ event = IF expired THEN "EXPIRE" ELSE "VOID"
      OBVIOUS
    <3>2. event \in LifecycleEvent(status) /\ status \in RowStatus \ {"ABSENT"}
      BY <3>1 DEF LifecycleEvent, RowStatus
    <3>3. TrailSound(WithEvent(WithEvent(trail[r], why), event), status, tampered[r])
      BY <2>3, <3>2, EventTells
    <3>4. row' = [row EXCEPT ![r] = status] /\ trail' = [trail EXCEPT ![r] = WithEvent(WithEvent(trail[r], why), event)]
      BY <2>1, <2>5, <3>1
    <3> QED BY <1>1, <3>2, <3>3, <3>4, RowRecorded
  <2> QED BY <2>4, <2>5
<1> QED BY <1>1, <1>2, <1>3, <1>4, <1>5, <1>6, <1>7, <1>8

LEMMA ObjectStep ==
  ASSUME ObjectInv, NEW r \in LReceipt,
         IssueObject(r) \/ MarkVerified(r) \/ CommitObject(r) \/ ReleaseObject(r) \/ VoidObject(r)
  PROVE  ObjectInv' /\ UNCHANGED storedVars
<1>1. UNCHANGED storedVars
  BY DEF IssueObject, MarkVerified, CommitObject, ReleaseObject, VoidObject
<1>2. /\ object' \in [LReceipt -> RowStatus]
      /\ reservation' \in [LReceipt -> {"none", "open", "committed", "released"}]
  BY DEF ObjectInv, IssueObject, MarkVerified, CommitObject, ReleaseObject, VoidObject, RowStatus
<1>3. \A q \in LReceipt \ {r} : object'[q] = object[q] /\ reservation'[q] = reservation[q]
  BY DEF ObjectInv, IssueObject, MarkVerified, CommitObject, ReleaseObject, VoidObject
<1>4. /\ reservation[r] = "open" <=> object[r] \in OpenStatus
      /\ reservation[r] = "committed" <=> object[r] = "CONSUMED"
  BY DEF ObjectInv, ReservationFollowsObject
<1>5. /\ reservation'[r] = "open" <=> object'[r] \in OpenStatus
      /\ reservation'[r] = "committed" <=> object'[r] = "CONSUMED"
  BY <1>4 DEF ObjectInv, IssueObject, MarkVerified, CommitObject, ReleaseObject, VoidObject, OpenStatus
<1> QED BY <1>1, <1>2, <1>3, <1>5 DEF ObjectInv, ReservationFollowsObject

LEMMA Tampers ==
  ASSUME TrailInv, NEW r \in LReceipt, TamperEvent(r)
  PROVE  TrailInv' /\ UNCHANGED objectVars
<1>1. /\ row \in [LReceipt -> RowStatus] /\ TrailSound(trail[r], row[r], tampered[r]) /\ DOMAIN trail = LReceipt
      /\ trail = [q \in LReceipt |-> trail[q]] /\ tampered = [q \in LReceipt |-> tampered[q]]
  BY DEF TrailInv
<1>2. PICK s : s = trail[r]
  OBVIOUS
<1>3. tampered[r] = "no" /\ Len(s) > 1 /\ UNCHANGED row /\ UNCHANGED objectVars
  BY <1>2 DEF TamperEvent
<1>4. PICK n \in Nat : n = Len(s)
  BY <1>1, <1>2 DEF TrailSound, Trail
<1>5. Trail(s) /\ DOMAIN s = 1 .. n /\ n > 1 /\ s \in Seq({s[j] : j \in DOMAIN s})
  BY <1>1, <1>2, <1>3, <1>4 DEF TrailSound, Trail
<1>6. s # <<>>
  BY <1>4, <1>5
<1>7. row[r] # "ABSENT" /\ TrailVerifies(s)
  BY <1>1, <1>2, <1>3, <1>6 DEF TrailSound, ChainTells
<1>8. \E u, t : /\ trail' = [trail EXCEPT ![r] = u] /\ tampered' = [tampered EXCEPT ![r] = t]
                /\ Trail(u) /\ u # <<>> /\ ChainTells(u, t) /\ t # "no"
  <2>1. PICK i \in DOMAIN s :
          \/ /\ trail' = [trail EXCEPT ![r][i].type = "CONSUME"] /\ s[i].type # "CONSUME"
             /\ tampered' = [tampered EXCEPT ![r] = "altered"]
          \/ /\ trail' = [trail EXCEPT ![r] = SubSeq(@, 1, i - 1) \o SubSeq(@, i + 1, Len(@))]
             /\ tampered' = [tampered EXCEPT ![r] = IF i = Len(s) THEN "cut" ELSE "removed"]
    BY <1>2 DEF TamperEvent
  <2>2. CASE /\ trail' = [trail EXCEPT ![r][i].type = "CONSUME"] /\ s[i].type # "CONSUME"
             /\ tampered' = [tampered EXCEPT ![r] = "altered"]
    <3> DEFINE e == [s[i] EXCEPT !.type = "CONSUME"]  u == [s EXCEPT ![i] = e]
    <3>1. s[i] = [seq |-> s[i].seq, type |-> s[i].type, prev |-> s[i].prev, hash |-> s[i].hash]
      BY <1>5, <2>1 DEF Trail
    <3>2. e = [seq |-> s[i].seq, type |-> "CONSUME", prev |-> s[i].prev, hash |-> s[i].hash]
      BY <3>1
    <3>3. trail' = [trail EXCEPT ![r] = u]
      BY <1>2, <2>2
    <3>4. /\ e.seq = s[i].seq /\ e.type = "CONSUME" /\ e.prev = s[i].prev /\ e.hash = s[i].hash
          /\ e = [seq |-> e.seq, type |-> e.type, prev |-> e.prev, hash |-> e.hash]
      BY <3>2
    <3> HIDE DEF e
    <3>5. DOMAIN u = 1 .. n /\ u[i] = e /\ \A j \in 1 .. n : j # i => u[j] = s[j]
      BY <1>5, <2>1
    <3>6. u \in Seq({u[j] : j \in DOMAIN u}) /\ u # <<>>
      <4> DEFINE S == {u[j] : j \in DOMAIN u}
      <4>0. DOMAIN <<>> = {} /\ i \in DOMAIN u
        BY <1>5, <2>1, <3>5
      <4>1. u = [j \in 1 .. n |-> u[j]]
        BY <3>5
      <4>2. \A j \in 1 .. n : u[j] \in S
        BY <3>5
      <4> HIDE DEF u, S
      <4>3. u \in [1 .. n -> S]
        BY <4>1, <4>2
      <4>4. u \in Seq(S)
        BY <1>4, <4>3
      <4> QED BY <4>0, <4>4 DEF S
    <3>7. Trail(u)
      BY <1>5, <3>4, <3>5, <3>6 DEF Trail
    <3>8. s[i].hash = <<s[i].seq, s[i].type, s[i].prev>>
      BY <1>7, <2>1 DEF TrailVerifies, EventHash
    <3>9. u[i].hash # <<u[i].seq, u[i].type, u[i].prev>>
      BY <2>2, <3>4, <3>5, <3>8
    <3>10. ChainTells(u, "altered")
      BY <1>5, <2>1, <3>5, <3>9 DEF ChainTells, EventHash
    <3> QED BY <2>2, <3>3, <3>6, <3>7, <3>10
  <2>3. CASE /\ trail' = [trail EXCEPT ![r] = SubSeq(@, 1, i - 1) \o SubSeq(@, i + 1, Len(@))]
             /\ tampered' = [tampered EXCEPT ![r] = IF i = Len(s) THEN "cut" ELSE "removed"]
    <3> DEFINE R == {s[j] : j \in DOMAIN s}  a == SubSeq(s, 1, i - 1)  b == SubSeq(s, i + 1, n)  u == a \o b
               t == IF i = n THEN "cut" ELSE "removed"
    <3>1. trail' = [trail EXCEPT ![r] = u] /\ tampered' = [tampered EXCEPT ![r] = t]
      BY <1>2, <1>4, <2>3
    <3>2. i \in 1 .. n /\ s \in Seq(R)
      BY <1>5, <2>1
    <3> HIDE DEF R, t
    <3>3. /\ a \in Seq(R) /\ Len(a) = i - 1 /\ \A j \in 1 .. i - 1 : a[j] = s[j]
      BY <1>4, <3>2
    <3>4. /\ b \in Seq(R) /\ Len(b) = n - i /\ \A j \in 1 .. n - i : b[j] = s[j + i]
      <4>1. CASE i = n
        <5>1. b = <<>> /\ 1 .. n - i = {} /\ n - i = 0
          BY <1>4, <3>2, <4>1
        <5>2. <<>> \in Seq(R) /\ Len(<<>>) = 0
          OBVIOUS
        <5> QED BY <5>1, <5>2
      <4>2. CASE i # n
        <5>1. i + 1 \in 1 .. Len(s) + 1 /\ n \in i + 1 - 1 .. Len(s)
          BY <1>4, <3>2
        <5>2. b \in Seq(R) /\ Len(b) = n - (i + 1) + 1 /\ \A j \in 1 .. n - (i + 1) + 1 : b[j] = s[i + 1 + j - 1]
          BY <1>4, <3>2, <4>2
        <5>3. n - (i + 1) + 1 = n - i /\ \A j \in 1 .. n - i : i + 1 + j - 1 = j + i
          BY <1>4, <3>2
        <5> QED BY <5>2, <5>3
      <4> QED BY <4>1, <4>2
    <3> HIDE DEF a, b
    <3>5. /\ u \in Seq(R) /\ Len(u) = n - 1 /\ \A j \in 1 .. i - 1 : u[j] = s[j]
          /\ \A j \in i .. n - 1 : u[j] = s[j + 1]
      <4>1. u \in Seq(R) /\ Len(u) = (i - 1) + (n - i) /\ \A j \in 1 .. i - 1 : u[j] = a[j]
        BY <1>4, <3>2, <3>3, <3>4, ConcatProperties
      <4>2. ASSUME NEW j \in i .. n - 1 PROVE u[j] = s[j + 1]
        <5>1. j - (i - 1) \in 1 .. n - i /\ j \in Nat /\ j > i - 1 /\ j <= (i - 1) + (n - i) /\ (j - (i - 1)) + i = j + 1
          BY <1>4, <3>2, <4>2
        <5>2. u[j] = b[j - (i - 1)]
          <6>1. \A k \in 1 .. Len(a) + Len(b) : u[k] = IF k <= Len(a) THEN a[k] ELSE b[k - Len(a)]
            BY <3>3, <3>4, ConcatProperties
          <6>2. j \in 1 .. Len(a) + Len(b) /\ ~(j <= Len(a)) /\ Len(a) = i - 1
            BY <1>4, <3>2, <3>3, <3>4, <5>1
          <6> QED BY <6>1, <6>2
        <5> QED BY <3>4, <5>1, <5>2
      <4>3. (i - 1) + (n - i) = n - 1
        BY <1>4, <3>2
      <4> QED BY <3>3, <4>1, <4>2, <4>3
    <3> HIDE DEF u
    <3>6. DOMAIN u = 1 .. n - 1 /\ u # <<>> /\ n - 1 \in Nat /\ 1 \in 1 .. n - 1
      BY <1>4, <1>5, <3>5
    <3>7. Trail(u)
      <4>1. \A j \in DOMAIN u : \E k \in DOMAIN s : u[j] = s[k]
        <5> SUFFICES ASSUME NEW j \in 1 .. n - 1 PROVE \E k \in 1 .. n : u[j] = s[k]
          BY <1>5, <3>6
        <5>1. (j \in 1 .. i - 1 /\ j \in 1 .. n) \/ (j \in i .. n - 1 /\ j + 1 \in 1 .. n)
          BY <1>4, <3>2
        <5> QED BY <3>5, <5>1
      <4>2. u \in Seq({u[j] : j \in DOMAIN u})
        BY <3>5
      <4> QED BY <1>5, <4>1, <4>2 DEF Trail
    <3>8. CASE i = n
      <4>1. \A j \in DOMAIN u : j \in DOMAIN s /\ u[j] = s[j] /\ (j # 1 => j - 1 \in DOMAIN u /\ u[j - 1] = s[j - 1])
        <5> SUFFICES ASSUME NEW j \in 1 .. n - 1
                     PROVE  j \in 1 .. n /\ u[j] = s[j] /\ (j # 1 => j - 1 \in 1 .. n - 1 /\ u[j - 1] = s[j - 1])
          BY <1>5, <3>6
        <5>1. j \in 1 .. n /\ j \in 1 .. i - 1 /\ (j # 1 => j - 1 \in 1 .. i - 1 /\ j - 1 \in 1 .. n - 1)
          BY <1>4, <3>8
        <5> QED BY <3>5, <5>1
      <4>2. TrailVerifies(u)
        BY <1>7, <3>6, <4>1 DEF TrailVerifies
      <4>3. t = "cut"
        BY <3>8 DEF t
      <4> QED BY <3>1, <3>6, <3>7, <4>2, <4>3 DEF ChainTells
    <3>9. CASE i # n
      <4>1. i \in i .. n - 1 /\ i \in DOMAIN u /\ i + 1 \in DOMAIN s /\ i + 1 # i
        BY <1>4, <1>5, <3>2, <3>6, <3>9
      <4>2. u[i].seq # i
        BY <1>7, <3>5, <4>1 DEF TrailVerifies
      <4>3. t = "removed"
        BY <3>9 DEF t
      <4> QED BY <3>1, <3>6, <3>7, <4>1, <4>2, <4>3 DEF ChainTells
    <3> QED BY <3>8, <3>9
  <2> QED BY <2>1, <2>2, <2>3
<1>9. PICK u, t : /\ trail' = [trail EXCEPT ![r] = u] /\ tampered' = [tampered EXCEPT ![r] = t]
                  /\ Trail(u) /\ u # <<>> /\ ChainTells(u, t) /\ t # "no"
  BY <1>8
<1>10. trail'[r] = u /\ tampered'[r] = t /\ TrailSound(u, row[r], t)
  BY <1>1, <1>7, <1>9 DEF TrailSound
<1>11. \A q \in LReceipt \ {r} : trail'[q] = trail[q] /\ tampered'[q] = tampered[q]
  BY <1>1, <1>9
<1>12. \A q \in LReceipt : TrailSound(trail'[q], row'[q], tampered'[q])
  BY <1>3, <1>10, <1>11 DEF TrailInv
<1>13. /\ DOMAIN trail' = LReceipt /\ trail' = [q \in LReceipt |-> trail'[q]]
       /\ tampered' = [q \in LReceipt |-> tampered'[q]]
  BY <1>1, <1>9
<1> QED BY <1>1, <1>3, <1>12, <1>13 DEF TrailInv

LEMMA LRStepInv ==
  ASSUME TrailInv, ObjectInv, [LRNext]_lrvars
  PROVE  TrailInv' /\ ObjectInv'
<1>1. CASE UNCHANGED lrvars
  BY <1>1 DEF lrvars, TrailInv, ObjectInv, ReservationFollowsObject
<1>2. ASSUME UNCHANGED objectVars PROVE ObjectInv'
  BY <1>2 DEF objectVars, ObjectInv, ReservationFollowsObject
<1>3. ASSUME UNCHANGED storedVars PROVE TrailInv'
  BY <1>3 DEF storedVars, TrailInv
<1>4. CASE LRNext
  BY <1>2, <1>3, <1>4, Recorded, Tampers, ObjectStep DEF LRNext
<1> QED BY <1>1, <1>4

-----------------------------------------------------------------------------
(***************************************************************************)
(* The SDK's spans (TraceSpans).  The context variable of a task is its    *)
(* innermost open call, because each call's token is the one around it;    *)
(* an open call is open in one task only, and was not collected.           *)
(***************************************************************************)

Fate == {"open", "returned", "raised", "cancelled"}

CTypes ==
  /\ live \subseteq Task /\ frames \in [Task -> Seq(SpanId)] /\ parentVar \in [Task -> 0 .. MaxSpans]
  /\ token \in [SpanId -> 0 .. MaxSpans] /\ begunSpans \in 0 .. MaxSpans
  /\ parentOf \in [SpanId -> 0 .. MaxSpans] /\ callerOf \in [SpanId -> 0 .. MaxSpans]
  /\ collected \in Seq([span : SpanId, status : {"OK", "ERROR"}]) /\ currentSpan \in 0 .. MaxSpans
  /\ origin \in [Task -> 0 .. MaxSpans] /\ fate \in [SpanId -> Fate] /\ afterRecord \subseteq SpanId

FramesSound ==
  /\ \A t \in Task \ live : frames[t] = <<>>
  /\ \A t \in Task : \A i \in DOMAIN frames[t] :
       /\ frames[t][i] \in 1 .. begunSpans /\ fate[frames[t][i]] = "open"
       /\ token[frames[t][i]] = IF i = 1 THEN origin[t] ELSE frames[t][i - 1]
  /\ \A t, u \in Task : \A i \in DOMAIN frames[t], j \in DOMAIN frames[u] :
       frames[t][i] = frames[u][j] => t = u /\ i = j
  /\ \A t \in Task : parentVar[t] = Top(t)

CollectedSound ==
  /\ \A i \in DOMAIN collected : /\ collected[i].span \in 1 .. begunSpans /\ fate[collected[i].span] # "open"
                                 /\ collected[i].status = "ERROR" <=> fate[collected[i].span] = "raised"
  /\ \A i, j \in DOMAIN collected : collected[i].span = collected[j].span => i = j
  /\ \A s \in SpanId : fate[s] # "open" => \E i \in DOMAIN collected : collected[i].span = s
  /\ collected # <<>> => currentSpan # NoSpan
  /\ afterRecord \subseteq 1 .. begunSpans
  /\ currentSpan # NoSpan => currentSpan \in 1 .. begunSpans /\ fate[currentSpan] # "open"

SpansInv == CTypes /\ FramesSound /\ CollectedSound /\ ParentIsCaller /\ TraceIsConnected

LEMMA CInitInv ==
  ASSUME CInit
  PROVE  SpansInv
<1>0. <<>> \in Seq(SpanId) /\ <<>> \in Seq([span : SpanId, status : {"OK", "ERROR"}]) /\ DOMAIN <<>> = {}
  OBVIOUS
<1>1. PICK r \in Task : live = {r}
  BY DEF CInit
<1>2. /\ frames = [u \in Task |-> <<>>] /\ parentVar = [u \in Task |-> NoSpan]
      /\ token = [s \in SpanId |-> NoSpan] /\ begunSpans = 0 /\ parentOf = [s \in SpanId |-> NoSpan]
      /\ collected = <<>> /\ currentSpan = NoSpan /\ callerOf = [s \in SpanId |-> NoSpan]
      /\ origin = [u \in Task |-> NoSpan] /\ fate = [s \in SpanId |-> "open"] /\ afterRecord = {}
  BY DEF CInit
<1>3. CTypes
  BY <1>0, <1>1, <1>2, TraceAssumption DEF CTypes, NoSpan, Fate
<1>4. FramesSound
  BY <1>0, <1>2 DEF FramesSound, Top
<1>5. CollectedSound
  BY <1>0, <1>2 DEF CollectedSound
<1> QED BY <1>2, <1>3, <1>4, <1>5 DEF SpansInv, ParentIsCaller, TraceIsConnected

\* The innermost call of a task is a span that was started, or none.
LEMMA TopIs ==
  ASSUME CTypes, FramesSound, NEW t \in Task
  PROVE  /\ Top(t) = parentVar[t]
         /\ frames[t] # <<>> => Len(frames[t]) \in DOMAIN frames[t] /\ Top(t) = frames[t][Len(frames[t])]
  BY DEF CTypes, FramesSound, Top

LEMMA EntersCall ==
  ASSUME SpansInv, NEW t \in Task, EnterCall(t)
  PROVE  SpansInv'
<1> DEFINE s == begunSpans + 1
<1>0. CTypes /\ FramesSound /\ CollectedSound /\ ParentIsCaller /\ TraceIsConnected
  BY DEF SpansInv
<1>1. /\ t \in live /\ begunSpans < MaxSpans /\ begunSpans' = s /\ frames' = [frames EXCEPT ![t] = Append(@, s)]
      /\ parentOf' = [parentOf EXCEPT ![s] = ParentFor(t)]
      /\ callerOf' = [callerOf EXCEPT ![s] = Top(t)]
      /\ token' = [token EXCEPT ![s] = parentVar[t]]
      /\ parentVar' = [parentVar EXCEPT ![t] = s]
      /\ afterRecord' = IF collected # <<>> THEN afterRecord \cup {s} ELSE afterRecord
      /\ UNCHANGED <<live, collected, currentSpan, origin, fate>>
  BY DEF EnterCall
<1>2. /\ s \in SpanId /\ s \in 0 .. MaxSpans /\ s \in 1 .. s /\ s # NoSpan /\ s \notin 1 .. begunSpans
      /\ 1 .. s = (1 .. begunSpans) \cup {s} /\ 1 .. begunSpans \subseteq SpanId
  <2>1. begunSpans \in Nat /\ MaxSpans \in Nat /\ begunSpans < MaxSpans
    BY <1>0, <1>1, TraceAssumption DEF CTypes
  <2> QED BY <2>1 DEF SpanId, NoSpan
<1>3. Top(t) = parentVar[t] /\ Top(t) \in 0 .. MaxSpans /\ ParentFor(t) \in 0 .. MaxSpans
  BY <1>0, TopIs DEF CTypes, ParentFor
<1>4. PICK n \in Nat : n = Len(frames[t])
  BY <1>0 DEF CTypes
<1>5. /\ frames[t] \in Seq(SpanId) /\ DOMAIN frames[t] = 1 .. n /\ frames' \in [Task -> Seq(SpanId)]
      /\ frames'[t] = Append(frames[t], s) /\ \A u \in Task \ {t} : frames'[u] = frames[u]
      /\ Len(frames'[t]) = n + 1 /\ DOMAIN frames'[t] = 1 .. n + 1 /\ frames'[t][n + 1] = s
      /\ \A i \in 1 .. n : frames'[t][i] = frames[t][i]
  BY <1>0, <1>1, <1>2, <1>4 DEF CTypes
<1> HIDE DEF s
<1>6. CTypes'
  BY <1>0, <1>1, <1>2, <1>3, <1>5 DEF CTypes
<1>7. /\ 1 .. n + 1 = (1 .. n) \cup {n + 1} /\ n + 1 \notin 1 .. n /\ 1 .. s = (1 .. begunSpans) \cup {s}
  BY <1>2, <1>4
<1>8. \A u \in Task : \A i \in DOMAIN frames[u] : frames[u][i] # s /\ frames[u][i] \in SpanId
  BY <1>0, <1>2 DEF FramesSound
<1>9. fate[s] = "open"
  <2>1. fate[s] # "open" => \E i \in DOMAIN collected : collected[i].span = s
    BY <1>0, <1>2 DEF CollectedSound
  <2>2. \A i \in DOMAIN collected : collected[i].span \in 1 .. begunSpans
    BY <1>0 DEF CollectedSound
  <2> QED BY <1>2, <2>1, <2>2
<1>10. \A u \in Task : Top(u)' = IF u = t THEN s ELSE Top(u)
  <2>1. frames'[t] # <<>> /\ frames'[t][Len(frames'[t])] = s
    BY <1>4, <1>5
  <2> QED BY <1>1, <1>5, <2>1 DEF Top
<1>11. FramesSound'
  <2>1. \A u \in Task \ live' : frames'[u] = <<>>
    BY <1>0, <1>1, <1>5 DEF FramesSound
  <2>2. ASSUME NEW u \in Task, NEW i \in DOMAIN frames'[u]
        PROVE  /\ frames'[u][i] \in 1 .. begunSpans' /\ fate'[frames'[u][i]] = "open"
               /\ token'[frames'[u][i]] = IF i = 1 THEN origin'[u] ELSE frames'[u][i - 1]
    <3>1. CASE u = t /\ i = n + 1
      <4>1. frames'[u][i] = s /\ s \in 1 .. begunSpans' /\ fate'[s] = "open" /\ token'[s] = Top(t)
        BY <1>0, <1>1, <1>2, <1>3, <1>5, <1>9, <3>1 DEF CTypes
      <4>2. CASE n = 0
        <5>1. frames[t] = <<>>
          BY <1>4, <1>5, <4>2
        <5> QED BY <1>1, <3>1, <4>1, <4>2, <5>1 DEF Top
      <4>3. CASE n > 0
        <5>1. frames[t] # <<>> /\ n \in 1 .. n /\ i - 1 = n /\ i # 1
          BY <1>4, <1>5, <3>1, <4>3
        <5>2. Top(t) = frames[t][n] /\ frames'[t][n] = frames[t][n]
          BY <1>4, <1>5, <5>1 DEF Top
        <5> QED BY <3>1, <4>1, <5>1, <5>2
      <4> QED BY <1>4, <4>2, <4>3
    <3>2. CASE ~(u = t /\ i = n + 1)
      <4>1. i \in DOMAIN frames[u] /\ frames'[u][i] = frames[u][i]
        BY <1>5, <1>7, <3>2
      <4>2. i # 1 => frames'[u][i - 1] = frames[u][i - 1]
        <5>1. CASE u # t
          BY <1>5, <5>1
        <5>2. CASE u = t
          <6>1. i \in 1 .. n
            BY <1>5, <4>1, <5>2
          <6>2. i # 1 => i - 1 \in 1 .. n
            BY <1>4, <6>1
          <6> QED BY <1>5, <5>2, <6>2
        <5> QED BY <5>1, <5>2
      <4>3. /\ frames[u][i] \in 1 .. begunSpans /\ fate[frames[u][i]] = "open"
            /\ token[frames[u][i]] = IF i = 1 THEN origin[u] ELSE frames[u][i - 1]
        BY <1>0, <4>1 DEF FramesSound
      <4>4. token'[frames[u][i]] = token[frames[u][i]]
        BY <1>0, <1>1, <1>8, <4>1 DEF CTypes
      <4> QED BY <1>1, <1>7, <4>1, <4>2, <4>3, <4>4
    <3> QED BY <3>1, <3>2
  <2>3. ASSUME NEW u \in Task, NEW v \in Task, NEW i \in DOMAIN frames'[u], NEW j \in DOMAIN frames'[v],
               frames'[u][i] = frames'[v][j]
        PROVE  u = v /\ i = j
    <3>1. \A w \in Task : \A k \in DOMAIN frames'[w] :
            (w = t /\ k = n + 1 /\ frames'[w][k] = s) \/ (k \in DOMAIN frames[w] /\ frames'[w][k] = frames[w][k])
      BY <1>5, <1>7
    <3> QED BY <1>0, <1>8, <2>3, <3>1 DEF FramesSound
  <2>4. \A u \in Task : parentVar'[u] = Top(u)'
    BY <1>0, <1>1, <1>10 DEF CTypes, FramesSound
  <2> QED BY <2>1, <2>2, <2>3, <2>4 DEF FramesSound
<1>12. CollectedSound'
  BY <1>0, <1>1, <1>7 DEF CollectedSound
<1>13. ParentIsCaller'
  <2> SUFFICES ASSUME NEW k \in 1 .. s
               PROVE  IF callerOf'[k] # NoSpan THEN parentOf'[k] = callerOf'[k]
                      ELSE parentOf'[k] # NoSpan => (parentOf'[k] < k /\ fate[parentOf'[k]] # "open")
    BY <1>1 DEF ParentIsCaller
  <2>1. CASE k = s
    <3>1. callerOf'[k] = Top(t) /\ parentOf'[k] = ParentFor(t)
      BY <1>0, <1>1, <1>2, <2>1 DEF CTypes
    <3>2. currentSpan # NoSpan => currentSpan < s /\ fate[currentSpan] # "open"
      BY <1>0 DEF CollectedSound, CTypes, s
    <3> QED BY <1>3, <2>1, <3>1, <3>2 DEF ParentFor
  <2>2. CASE k # s
    <3>1. k \in 1 .. begunSpans /\ k \in SpanId /\ callerOf'[k] = callerOf[k] /\ parentOf'[k] = parentOf[k]
      BY <1>0, <1>1, <1>2, <1>7, <2>2 DEF CTypes
    <3> QED BY <1>0, <3>1 DEF ParentIsCaller
  <2> QED BY <2>1, <2>2
<1>14. TraceIsConnected'
  <2>1. ASSUME collected # <<>> PROVE ParentFor(t) # NoSpan
    BY <1>0, <2>1 DEF CollectedSound, ParentFor
  <2>2. ASSUME NEW k \in afterRecord' PROVE parentOf'[k] # NoSpan
    <3>1. CASE k = s /\ collected # <<>>
      BY <1>0, <1>1, <1>2, <2>1, <3>1 DEF CTypes
    <3>2. CASE k # s
      BY <1>0, <1>1, <2>2, <3>2 DEF CTypes, TraceIsConnected
    <3>3. CASE k = s /\ collected = <<>>
      BY <1>0, <1>1, <1>2, <2>2, <3>3 DEF CollectedSound
    <3> QED BY <3>1, <3>2, <3>3
  <2> QED BY <2>2 DEF TraceIsConnected
<1> QED BY <1>6, <1>11, <1>12, <1>13, <1>14 DEF SpansInv

LEMMA LeavesCall ==
  ASSUME SpansInv, NEW t \in Task, LeaveCall(t)
  PROVE  SpansInv'
<1>0. CTypes /\ FramesSound /\ CollectedSound /\ ParentIsCaller /\ TraceIsConnected
  BY DEF SpansInv
<1>1. t \in live /\ frames[t] # <<>>
  BY DEF LeaveCall
<1>2. PICK n \in Nat : n = Len(frames[t])
  BY <1>0 DEF CTypes
<1>3. frames[t] \in Seq(SpanId) /\ DOMAIN frames[t] = 1 .. n /\ n >= 1 /\ n \in 1 .. n
  BY <1>0, <1>1, <1>2 DEF CTypes
<1>4. PICK s \in SpanId : s = frames[t][n]
  BY <1>3
<1>5. PICK how \in {"returned", "raised", "cancelled"} :
        /\ fate' = [fate EXCEPT ![s] = how] /\ parentVar' = [parentVar EXCEPT ![t] = token[s]]
        /\ collected' = Append(collected, [span |-> s, status |-> SpanStatus(how)]) /\ currentSpan' = s
  BY <1>2, <1>4 DEF LeaveCall, ResetParent
<1>6. /\ frames' = [frames EXCEPT ![t] = SubSeq(@, 1, Len(@) - 1)]
      /\ UNCHANGED <<live, token, begunSpans, parentOf, callerOf, origin, afterRecord>>
  BY DEF LeaveCall
<1>7. /\ frames'[t] \in Seq(SpanId) /\ DOMAIN frames'[t] = 1 .. n - 1 /\ Len(frames'[t]) = n - 1
      /\ \A i \in 1 .. n - 1 : frames'[t][i] = frames[t][i]
  <2>1. frames'[t] = SubSeq(frames[t], 1, n - 1)
    BY <1>0, <1>2, <1>6 DEF CTypes
  <2> QED BY <1>3, <2>1
<1>8. \A u \in Task \ {t} : frames'[u] = frames[u]
  BY <1>0, <1>6 DEF CTypes
<1>9. \A u \in Task : \A i \in DOMAIN frames'[u] :
        i \in DOMAIN frames[u] /\ frames'[u][i] = frames[u][i] /\ frames[u][i] # s
  <2> SUFFICES ASSUME NEW u \in Task, NEW i \in DOMAIN frames'[u]
               PROVE  i \in DOMAIN frames[u] /\ frames'[u][i] = frames[u][i] /\ frames[u][i] # s
    OBVIOUS
  <2>1. CASE u # t
    BY <1>0, <1>3, <1>4, <1>8, <2>1 DEF FramesSound
  <2>2. CASE u = t
    <3>1. i \in 1 .. n - 1
      BY <1>7, <2>2
    <3>2. i \in 1 .. n /\ i # n
      BY <1>3, <3>1
    <3> QED BY <1>0, <1>3, <1>4, <1>7, <2>2, <3>1, <3>2 DEF FramesSound
  <2> QED BY <2>1, <2>2
<1>10. s \in 1 .. begunSpans /\ fate[s] = "open" /\ token[s] = IF n = 1 THEN origin[t] ELSE frames[t][n - 1]
  BY <1>0, <1>3, <1>4 DEF FramesSound
<1>11. CTypes'
  <2>1. fate' \in [SpanId -> Fate]
    BY <1>0, <1>5 DEF CTypes, Fate
  <2>2. collected' \in Seq([span : SpanId, status : {"OK", "ERROR"}])
    <3>1. [span |-> s, status |-> SpanStatus(how)] \in [span : SpanId, status : {"OK", "ERROR"}]
      BY DEF SpanStatus
    <3> QED BY <1>0, <1>5, <3>1 DEF CTypes
  <2>3. currentSpan' \in 0 .. MaxSpans /\ parentVar' \in [Task -> 0 .. MaxSpans]
    <3>1. s \in 0 .. MaxSpans /\ token[s] \in 0 .. MaxSpans
      BY <1>0, <1>4, TraceAssumption DEF CTypes, SpanId
    <3> QED BY <1>0, <1>5, <3>1 DEF CTypes
  <2>4. frames' \in [Task -> Seq(SpanId)]
    BY <1>0, <1>6, <1>7, <1>8 DEF CTypes
  <2> QED BY <1>0, <1>6, <2>1, <2>2, <2>3, <2>4 DEF CTypes
<1>12. \A k \in SpanId : fate'[k] = IF k = s THEN how ELSE fate[k]
  BY <1>0, <1>5 DEF CTypes
<1>13. FramesSound'
  <2>1. \A u \in Task \ live' : frames'[u] = <<>>
    BY <1>0, <1>1, <1>6, <1>8 DEF FramesSound
  <2>2. ASSUME NEW u \in Task, NEW i \in DOMAIN frames'[u]
        PROVE  /\ frames'[u][i] \in 1 .. begunSpans' /\ fate'[frames'[u][i]] = "open"
               /\ token'[frames'[u][i]] = IF i = 1 THEN origin'[u] ELSE frames'[u][i - 1]
    <3>1. /\ i \in DOMAIN frames[u] /\ frames'[u][i] = frames[u][i] /\ frames[u][i] # s
          /\ frames[u][i] \in 1 .. begunSpans /\ fate[frames[u][i]] = "open"
          /\ token[frames[u][i]] = IF i = 1 THEN origin[u] ELSE frames[u][i - 1]
      BY <1>0, <1>9 DEF FramesSound
    <3>2. i # 1 => frames'[u][i - 1] = frames[u][i - 1]
      <4>1. CASE u # t
        BY <1>8, <4>1
      <4>2. CASE u = t
        <5>1. i \in 1 .. n - 1
          BY <1>7, <4>2
        <5>2. i # 1 => i - 1 \in 1 .. n - 1
          BY <1>2, <5>1
        <5> QED BY <1>7, <4>2, <5>2
      <4> QED BY <4>1, <4>2
    <3>3. frames[u][i] \in SpanId
      BY <1>0, <3>1 DEF CTypes
    <3> QED BY <1>6, <1>12, <3>1, <3>2, <3>3
  <2>3. ASSUME NEW u \in Task, NEW v \in Task, NEW i \in DOMAIN frames'[u], NEW j \in DOMAIN frames'[v],
               frames'[u][i] = frames'[v][j]
        PROVE  u = v /\ i = j
    BY <1>0, <1>9, <2>3 DEF FramesSound
  <2>4. ASSUME NEW u \in Task PROVE parentVar'[u] = Top(u)'
    <3>1. CASE u # t
      BY <1>0, <1>5, <1>6, <1>8, <3>1 DEF CTypes, FramesSound, Top
    <3>2. CASE u = t /\ n = 1
      <4>1. frames'[t] = <<>>
        BY <1>7, <3>2
      <4> QED BY <1>0, <1>5, <1>6, <1>10, <3>2, <4>1 DEF CTypes, Top
    <3>3. CASE u = t /\ n # 1
      <4>1. n - 1 \in 1 .. n - 1 /\ frames'[t] # <<>>
        BY <1>3, <1>7, <3>3
      <4>2. Top(t)' = frames[t][n - 1]
        BY <1>7, <4>1 DEF Top
      <4> QED BY <1>0, <1>5, <1>10, <3>3, <4>2 DEF CTypes
    <3> QED BY <3>1, <3>2, <3>3
  <2> QED BY <2>1, <2>2, <2>3, <2>4 DEF FramesSound
<1>14. PICK m \in Nat : m = Len(collected)
  BY <1>0 DEF CTypes
<1>15. /\ DOMAIN collected = 1 .. m /\ DOMAIN collected' = (1 .. m) \cup {m + 1} /\ m + 1 \notin 1 .. m
       /\ \A i \in 1 .. m : collected'[i] = collected[i]
       /\ collected'[m + 1] = [span |-> s, status |-> SpanStatus(how)] /\ collected' # <<>>
  <2> DEFINE R == [span : SpanId, status : {"OK", "ERROR"}]  e == [span |-> s, status |-> SpanStatus(how)]
  <2>1. collected \in Seq(R) /\ collected' = Append(collected, e) /\ e \in R
    BY <1>0, <1>5 DEF CTypes, SpanStatus
  <2> HIDE DEF R, e
  <2>2. /\ DOMAIN collected = 1 .. m /\ DOMAIN collected' = 1 .. m + 1 /\ collected'[m + 1] = e
        /\ \A i \in 1 .. m : collected'[i] = collected[i]
    BY <1>14, <2>1
  <2>3. 1 .. m + 1 = (1 .. m) \cup {m + 1} /\ m + 1 \notin 1 .. m
    OBVIOUS
  <2> QED BY <2>2, <2>3 DEF e
<1>16. \A i \in 1 .. m : collected[i].span \in SpanId /\ collected[i].span # s
  <2>1. \A i \in 1 .. m : collected[i] \in [span : SpanId, status : {"OK", "ERROR"}]
    <3> DEFINE R == [span : SpanId, status : {"OK", "ERROR"}]
    <3>1. collected \in Seq(R)
      BY <1>0 DEF CTypes
    <3> HIDE DEF R
    <3>2. \A i \in 1 .. m : collected[i] \in R
      BY <1>15, <3>1
    <3> QED BY <3>2 DEF R
  <2>2. \A i \in 1 .. m : fate[collected[i].span] # "open"
    BY <1>0, <1>15 DEF CollectedSound
  <2> QED BY <1>10, <2>1, <2>2
<1>17. /\ \A i \in DOMAIN collected' : /\ collected'[i].span \in 1 .. begunSpans' /\ fate'[collected'[i].span] # "open"
                                       /\ collected'[i].status = "ERROR" <=> fate'[collected'[i].span] = "raised"
       /\ \A i, j \in DOMAIN collected' : collected'[i].span = collected'[j].span => i = j
  <2> SUFFICES ASSUME NEW i \in DOMAIN collected'
               PROVE  /\ collected'[i].span \in 1 .. begunSpans /\ fate'[collected'[i].span] # "open"
                      /\ collected'[i].status = "ERROR" <=> fate'[collected'[i].span] = "raised"
                      /\ \A j \in DOMAIN collected' : collected'[i].span = collected'[j].span => i = j
    BY <1>6
  <2>1. CASE i = m + 1
    BY <1>10, <1>12, <1>15, <1>16, <2>1 DEF SpanStatus
  <2>2. CASE i \in 1 .. m
    BY <1>0, <1>12, <1>15, <1>16, <2>2 DEF CollectedSound
  <2> QED BY <1>15, <2>1, <2>2
<1>18. \A k \in SpanId : fate'[k] # "open" => \E i \in DOMAIN collected' : collected'[i].span = k
  <2> SUFFICES ASSUME NEW k \in SpanId, fate'[k] # "open" PROVE \E i \in DOMAIN collected' : collected'[i].span = k
    OBVIOUS
  <2>1. CASE k = s
    BY <1>15, <2>1
  <2>2. CASE k # s
    BY <1>0, <1>12, <1>15, <2>2 DEF CollectedSound
  <2> QED BY <2>1, <2>2
<1>19. currentSpan' # NoSpan /\ currentSpan' \in 1 .. begunSpans' /\ fate'[currentSpan'] # "open"
  <2>1. s # NoSpan
    BY <1>10 DEF NoSpan
  <2> QED BY <1>5, <1>6, <1>10, <1>12, <2>1
<1>20. CollectedSound'
  BY <1>0, <1>6, <1>17, <1>18, <1>19 DEF CollectedSound
<1>21. ParentIsCaller'
  <2> SUFFICES ASSUME NEW k \in 1 .. begunSpans
               PROVE  IF callerOf[k] # NoSpan THEN parentOf[k] = callerOf[k]
                      ELSE parentOf[k] # NoSpan => (parentOf[k] < k /\ fate'[parentOf[k]] # "open")
    BY <1>6 DEF ParentIsCaller
  <2>1. IF callerOf[k] # NoSpan THEN parentOf[k] = callerOf[k]
        ELSE parentOf[k] # NoSpan => (parentOf[k] < k /\ fate[parentOf[k]] # "open")
    BY <1>0 DEF ParentIsCaller
  <2>2. k \in SpanId
    BY <1>0, TraceAssumption DEF CTypes, SpanId
  <2>3. parentOf[k] \in 0 .. MaxSpans
    BY <1>0, <2>2 DEF CTypes
  <2>4. parentOf[k] # NoSpan => parentOf[k] \in SpanId
    BY <2>3 DEF SpanId, NoSpan
  <2> QED BY <1>12, <2>1, <2>4
<1>22. TraceIsConnected'
  BY <1>0, <1>6 DEF TraceIsConnected
<1> QED BY <1>11, <1>13, <1>20, <1>21, <1>22 DEF SpansInv

LEMMA SpawnsTask ==
  ASSUME SpansInv, NEW t \in Task, SpawnTask(t)
  PROVE  SpansInv'
<1>0. CTypes /\ FramesSound /\ CollectedSound /\ ParentIsCaller /\ TraceIsConnected
  BY DEF SpansInv
<1>1. PICK u \in Task \ live : /\ live' = live \cup {u} /\ origin' = [origin EXCEPT ![u] = Top(t)]
                               /\ parentVar' = [parentVar EXCEPT ![u] = parentVar[t]]
  BY DEF SpawnTask
<1>2. UNCHANGED <<frames, token, begunSpans, parentOf, collected, currentSpan, callerOf, fate, afterRecord>>
  BY DEF SpawnTask
<1>3. Top(t) = parentVar[t] /\ Top(t) \in 0 .. MaxSpans
  BY <1>0, TopIs DEF CTypes
<1>4. CTypes'
  BY <1>0, <1>1, <1>2, <1>3 DEF CTypes
<1>5. frames[u] = <<>> /\ DOMAIN frames[u] = {}
  BY <1>0, <1>1 DEF FramesSound
<1>6. FramesSound'
  <2>1. \A v \in Task : v # u => origin'[v] = origin[v] /\ parentVar'[v] = parentVar[v]
    BY <1>0, <1>1 DEF CTypes
  <2>2. origin'[u] = Top(t) /\ parentVar'[u] = Top(t)
    BY <1>0, <1>1, <1>3 DEF CTypes
  <2>3. \A v \in Task : parentVar'[v] = Top(v)'
    BY <1>0, <1>2, <1>5, <2>1, <2>2 DEF FramesSound, Top
  <2> QED BY <1>0, <1>1, <1>2, <1>5, <2>1, <2>3 DEF FramesSound
<1>7. CollectedSound' /\ ParentIsCaller' /\ TraceIsConnected'
  BY <1>0, <1>2 DEF CollectedSound, ParentIsCaller, TraceIsConnected
<1> QED BY <1>4, <1>6, <1>7 DEF SpansInv

LEMMA CStepInv ==
  ASSUME SpansInv, [CNext]_cvars
  PROVE  SpansInv'
<1>1. CASE UNCHANGED cvars
  BY <1>1 DEF cvars, SpansInv, CTypes, FramesSound, Top, CollectedSound, ParentIsCaller, TraceIsConnected
<1>2. CASE CNext
  BY <1>2, EntersCall, LeavesCall, SpawnsTask DEF CNext
<1> QED BY <1>1, <1>2

LEMMA SpansInvHolds ==
  ASSUME SpansInv
  PROVE  ParentIsCaller /\ TraceIsConnected /\ CollectedOnce
<1>1. ASSUME NEW s \in 1 .. begunSpans
      PROVE  LET mine == {i \in DOMAIN collected : collected[i].span = s} IN
             /\ Cardinality(mine) = IF fate[s] = "open" THEN 0 ELSE 1
             /\ \A i \in mine : collected[i].status = "ERROR" <=> fate[s] = "raised"
  <2> DEFINE mine == {i \in DOMAIN collected : collected[i].span = s}
  <2>0. CTypes /\ CollectedSound
    BY DEF SpansInv
  <2>1. s \in SpanId
    BY <2>0, TraceAssumption DEF CTypes, SpanId
  <2>2. CASE fate[s] = "open"
    <3>1. mine = {}
      BY <2>0, <2>2 DEF CollectedSound
    <3> QED BY <2>2, <3>1, FS_EmptySet
  <2>3. CASE fate[s] # "open"
    <3>1. PICK i \in DOMAIN collected : collected[i].span = s
      BY <2>0, <2>1, <2>3 DEF CollectedSound
    <3>2. mine = {i}
      BY <2>0, <3>1 DEF CollectedSound
    <3>3. Cardinality({i}) = 1
      BY FS_Singleton
    <3>4. collected[i].status = "ERROR" <=> fate[s] = "raised"
      BY <2>0, <3>1 DEF CollectedSound
    <3> QED BY <2>3, <3>2, <3>3, <3>4
  <2> QED BY <2>2, <2>3
<1> QED BY <1>1 DEF SpansInv, CollectedOnce

-----------------------------------------------------------------------------
(***************************************************************************)
(* The Merkle DAG (MerkleDag).  A store is sound when the index and the    *)
(* hashes invert each other and the children are the parents turned        *)
(* round; add_node keeps that, so a fork, added node by node in a          *)
(* topological order, keeps it too, and finds the parents it needs.        *)
(***************************************************************************)

ParentsIn(d, i) == {d.index[d.node[i].parents[k]] : k \in DOMAIN d.node[i].parents}

NodeSound(d, i) ==
  /\ d.node[i] = [content |-> d.node[i].content, parents |-> d.node[i].parents, hash |-> d.node[i].hash]
  /\ d.node[i].hash \in DOMAIN d.index /\ d.index[d.node[i].hash] = i
  /\ d.node[i].parents = [k \in DOMAIN d.node[i].parents |-> d.node[i].parents[k]]
  /\ DOMAIN d.node[i].parents = {} \/ 1 \in DOMAIN d.node[i].parents
  /\ \A k \in DOMAIN d.node[i].parents : d.node[i].parents[k] \in DOMAIN d.index
  /\ d.children[i] \subseteq DOMAIN d.node

StoreSound(d) ==
  /\ IsFiniteSet(DOMAIN d.node) /\ DOMAIN d.node \subseteq Id /\ DOMAIN d.children = DOMAIN d.node
  /\ \A i \in DOMAIN d.node : NodeSound(d, i)
  /\ \A h \in DOMAIN d.index : d.index[h] \in DOMAIN d.node /\ d.node[d.index[h]].hash = h
  /\ \A i, j \in DOMAIN d.node : j \in d.children[i] <=> i \in ParentsIn(d, j)

\* A node's hash is the one of its payload and parents exactly if it was not altered.
HashesTell(d) ==
  /\ altered \subseteq DOMAIN d.node
  /\ \A i \in DOMAIN d.node : d.node[i].hash = HashOf(d.node[i].content, d.node[i].parents) <=> i \notin altered

\* A store that has more nodes, and the same under the ids of the old one.
Grows(d, e) ==
  /\ DOMAIN d.node \subseteq DOMAIN e.node /\ DOMAIN d.index \subseteq DOMAIN e.index
  /\ \A i \in DOMAIN d.node : e.node[i] = d.node[i]
  /\ \A h \in DOMAIN d.index : e.index[h] = d.index[h]

LEMMA NodeAdded ==
  ASSUME NEW d, StoreSound(d), HashesTell(d), NEW i \in Id, NEW p, NEW ps,
         DOMAIN ps = {} \/ 1 \in DOMAIN ps
  PROVE  LET r == AddNode(d, i, p, ps) IN
         /\ r.answer \in {"added", "same", "deduplicated", "raised"} /\ (r.answer # "added" => r.d = d)
         /\ StoreSound(r.d) /\ HashesTell(r.d) /\ Grows(d, r.d)
         /\ r.answer = "added" => DOMAIN r.d.node = DOMAIN d.node \cup {i} /\ ParentsIn(r.d, i) = {ps[k] : k \in DOMAIN ps}
         /\ i \notin DOMAIN d.node /\ (\A k \in DOMAIN ps : ps[k] \in DOMAIN d.node) => r.answer \in {"added", "deduplicated"}
<1>1. PICK hs : hs = [k \in DOMAIN ps |-> d.node[ps[k]].hash]
  OBVIOUS
<1>2. PICK h : h = HashOf(p, hs)
  OBVIOUS
<1>3. PICK r : r = AddNode(d, i, p, ps)
  OBVIOUS
<1>4. CASE \/ \E k \in DOMAIN ps : ps[k] \notin DOMAIN d.node
           \/ i \in DOMAIN d.node \/ h \in DOMAIN d.index
  <2>1. /\ r.d = d /\ r.answer \in {"same", "deduplicated", "raised"}
        /\ i \notin DOMAIN d.node /\ (\A k \in DOMAIN ps : ps[k] \in DOMAIN d.node) => r.answer = "deduplicated"
    BY <1>1, <1>2, <1>3, <1>4 DEF AddNode
  <2> QED BY <1>3, <2>1 DEF Grows
<1>5. CASE (\A k \in DOMAIN ps : ps[k] \in DOMAIN d.node) /\ i \notin DOMAIN d.node /\ h \notin DOMAIN d.index
  <2> DEFINE new == [content |-> p, parents |-> hs, hash |-> h]
             nodes == [j \in DOMAIN d.node \cup {i} |-> IF j = i THEN new ELSE d.node[j]]
             found == [g \in DOMAIN d.index \cup {h} |-> IF g = h THEN i ELSE d.index[g]]
             below == [j \in DOMAIN d.children \cup {i} |->
                         IF j = i THEN {} ELSE d.children[j] \cup (IF \E k \in DOMAIN ps : ps[k] = j THEN {i} ELSE {})]
  <2>1. r = [answer |-> "added", d |-> [node |-> nodes, index |-> found, children |-> below, blobs |-> d.blobs \cup {p}]]
    BY <1>1, <1>2, <1>3, <1>5 DEF AddNode
  <2>2. PICK e : e = r.d
    OBVIOUS
  <2>3. r.answer = "added" /\ e.node = nodes /\ e.index = found /\ e.children = below
    BY <2>1, <2>2
  <2>4. /\ DOMAIN e.node = DOMAIN d.node \cup {i} /\ e.node[i] = new /\ \A j \in DOMAIN d.node : e.node[j] = d.node[j]
        /\ DOMAIN e.index = DOMAIN d.index \cup {h} /\ e.index[h] = i /\ \A g \in DOMAIN d.index : e.index[g] = d.index[g]
    BY <1>5, <2>3
  <2>5. DOMAIN d.children = DOMAIN d.node /\ \A j \in DOMAIN d.node : NodeSound(d, j)
    BY DEF StoreSound
  <2>6. /\ DOMAIN e.children = DOMAIN e.node /\ e.children[i] = {}
        /\ \A j \in DOMAIN d.node : e.children[j] = d.children[j] \cup (IF \E k \in DOMAIN ps : ps[k] = j THEN {i} ELSE {})
    BY <1>5, <2>3, <2>4, <2>5
  <2>7. new.content = p /\ new.parents = hs /\ new.hash = h
        /\ new = [content |-> new.content, parents |-> new.parents, hash |-> new.hash]
    OBVIOUS
  <2> HIDE DEF new, nodes, found, below
  <2>8. \A j \in DOMAIN d.node : ParentsIn(e, j) = ParentsIn(d, j) /\ ParentsIn(d, j) \subseteq DOMAIN d.node
    <3> SUFFICES ASSUME NEW j \in DOMAIN d.node
                 PROVE  ParentsIn(e, j) = ParentsIn(d, j) /\ ParentsIn(d, j) \subseteq DOMAIN d.node
      OBVIOUS
    <3>1. \A k \in DOMAIN d.node[j].parents :
            /\ d.node[j].parents[k] \in DOMAIN d.index
            /\ e.index[e.node[j].parents[k]] = d.index[d.node[j].parents[k]]
            /\ d.index[d.node[j].parents[k]] \in DOMAIN d.node
      BY <2>4, <2>5 DEF NodeSound, StoreSound
    <3>2. e.node[j] = d.node[j]
      BY <2>4
    <3> QED BY <3>1, <3>2 DEF ParentsIn
  <2>9. \A k \in DOMAIN ps : /\ hs[k] = d.node[ps[k]].hash /\ hs[k] \in DOMAIN d.index /\ d.index[hs[k]] = ps[k]
                             /\ hs[k] \in DOMAIN e.index /\ e.index[hs[k]] = ps[k]
    BY <1>1, <1>5, <2>4, <2>5 DEF NodeSound
  <2>10. DOMAIN hs = DOMAIN ps /\ hs = [k \in DOMAIN hs |-> hs[k]]
    BY <1>1
  <2>11. ParentsIn(e, i) = {ps[k] : k \in DOMAIN ps}
    BY <2>4, <2>7, <2>9, <2>10 DEF ParentsIn
  <2>12. \A j \in DOMAIN e.node : NodeSound(e, j)
    <3> SUFFICES ASSUME NEW j \in DOMAIN e.node PROVE NodeSound(e, j)
      OBVIOUS
    <3>1. CASE j = i
      BY <2>4, <2>6, <2>7, <2>9, <2>10, <3>1 DEF NodeSound
    <3>2. CASE j \in DOMAIN d.node
      <4>1. NodeSound(d, j) /\ e.node[j] = d.node[j] /\ e.children[j] \subseteq DOMAIN e.node
        BY <2>4, <2>5, <2>6, <3>2 DEF NodeSound
      <4> QED BY <2>4, <4>1 DEF NodeSound
    <3> QED BY <2>4, <3>1, <3>2
  <2>13. \A g \in DOMAIN e.index : e.index[g] \in DOMAIN e.node /\ e.node[e.index[g]].hash = g
    <3>1. \A g \in DOMAIN d.index : d.index[g] \in DOMAIN d.node /\ d.node[d.index[g]].hash = g
      BY DEF StoreSound
    <3> QED BY <2>4, <2>7, <3>1
  <2>14. \A j, l \in DOMAIN e.node : l \in e.children[j] <=> j \in ParentsIn(e, l)
    <3> SUFFICES ASSUME NEW j \in DOMAIN e.node, NEW l \in DOMAIN e.node
                 PROVE  l \in e.children[j] <=> j \in ParentsIn(e, l)
      OBVIOUS
    <3>1. CASE l = i /\ j = i
      BY <1>5, <2>6, <2>11, <3>1
    <3>2. CASE l = i /\ j \in DOMAIN d.node
      <4>1. i \notin d.children[j]
        BY <1>5, <2>5, <3>2 DEF NodeSound
      <4> QED BY <2>6, <2>11, <3>2, <4>1
    <3>3. CASE l \in DOMAIN d.node /\ j = i
      BY <1>5, <2>6, <2>8, <3>3
    <3>4. CASE l \in DOMAIN d.node /\ j \in DOMAIN d.node
      <4>1. l # i /\ (l \in d.children[j] <=> j \in ParentsIn(d, l))
        BY <1>5, <3>4 DEF StoreSound
      <4> QED BY <2>6, <2>8, <3>4, <4>1
    <3> QED BY <2>4, <3>1, <3>2, <3>3, <3>4
  <2>15. IsFiniteSet(DOMAIN e.node) /\ DOMAIN e.node \subseteq Id
    BY <2>4, FS_AddElement DEF StoreSound
  <2>16. StoreSound(e)
    BY <2>6, <2>12, <2>13, <2>14, <2>15 DEF StoreSound
  <2>17. HashesTell(e)
    BY <1>2, <1>5, <2>4, <2>7 DEF HashesTell
  <2>18. Grows(d, e)
    BY <2>4 DEF Grows
  <2> QED BY <1>3, <2>2, <2>3, <2>4, <2>11, <2>16, <2>17, <2>18
<1> QED BY <1>4, <1>5

\* A fork is committed node by node, each on what the nodes before it left.
ForkRun(run, s, goal, p, n, D) ==
  /\ run[0] = [d |-> Store, answer |-> "added", dup |-> FALSE]
  /\ \A k \in 1 .. n : run[k] = CommitNode(run[k - 1], Fork(s[k]), IF s[k] = goal THEN p ELSE node[s[k]].content,
                                           ForkParents(s[k], D))
  /\ CommitFork(s, goal, p) = run[n]

LEMMA CommitRuns ==
  ASSUME NEW s, NEW n \in Nat, n = Len(s), NEW goal, NEW p, NEW D, D = {s[k] : k \in DOMAIN s}
  PROVE  \E run : ForkRun(run, s, goal, p, n, D)
<1> DEFINE Step(c, k) == CommitNode(c, Fork(s[k]), IF s[k] = goal THEN p ELSE node[s[k]].content, ForkParents(s[k], D))
           base == [d |-> Store, answer |-> "added", dup |-> FALSE]
           Runs(f, m) == f = [k \in 0 .. m |-> IF k = 0 THEN base ELSE Step(f[k - 1], k)]
           S == {m \in 0 .. n : \E f : Runs(f, m)}
           run[k \in 0 .. Len(s)] == IF k = 0 THEN base ELSE Step(run[k - 1], k)
<1>1. CommitFork(s, goal, p) = run[Len(s)]
  BY DEF CommitFork
<1> HIDE DEF Step, base
<1>2. 0 \in S
  <2>1. Runs([k \in {0} |-> base], 0)
    OBVIOUS
  <2>2. 0 \in 0 .. n
    OBVIOUS
  <2> HIDE DEF Runs
  <2>3. \E f : Runs(f, 0)
    BY <2>1
  <2> QED BY <2>2, <2>3
<1>3. ASSUME NEW m \in 0 .. n - 1, m \in S PROVE m + 1 \in S
  <2>1. PICK f : Runs(f, m)
    BY <1>3
  <2>2. m \in Nat /\ m + 1 \in 0 .. n /\ 0 .. m + 1 = (0 .. m) \cup {m + 1} /\ m + 1 \notin 0 .. m
    BY <1>3
  <2> DEFINE g == [k \in 0 .. m + 1 |-> IF k \in 0 .. m THEN f[k] ELSE Step(f[m], m + 1)]
  <2>3. ASSUME NEW k \in 0 .. m + 1 PROVE g[k] = IF k = 0 THEN base ELSE Step(g[k - 1], k)
    <3>1. CASE k \in 0 .. m
      <4>1. g[k] = f[k] /\ f[k] = IF k = 0 THEN base ELSE Step(f[k - 1], k)
        BY <2>1, <3>1
      <4>2. k # 0 => k - 1 \in 0 .. m /\ k - 1 \in 0 .. m + 1
        BY <2>2, <3>1
      <4>3. k # 0 => g[k - 1] = f[k - 1]
        BY <4>2
      <4> QED BY <4>1, <4>3
    <3>2. CASE k = m + 1
      <4>1. k # 0 /\ k - 1 = m /\ m \in 0 .. m /\ m \in 0 .. m + 1
        BY <2>2, <3>2
      <4>2. g[k] = Step(f[m], m + 1) /\ g[m] = f[m]
        BY <2>2, <3>2, <4>1
      <4> QED BY <3>2, <4>1, <4>2
    <3> QED BY <2>2, <3>1, <3>2
  <2>4. g = [k \in 0 .. m + 1 |-> g[k]]
    OBVIOUS
  <2> HIDE DEF g
  <2>5. Runs(g, m + 1)
    BY <2>3, <2>4
  <2> QED BY <2>2, <2>5
<1>4. n \in S
  <2>1. 0 .. n \subseteq S
    BY <1>2, <1>3, UpTo
  <2> QED BY <2>1
<1>5. \E f : Runs(f, n)
  BY <1>4
<1>6. Runs(run, n)
  BY <1>5
<1> HIDE DEF run
<1>7. run[0] = base /\ \A k \in 1 .. n : run[k] = Step(run[k - 1], k)
  <2>1. 0 \in 0 .. n /\ \A k \in 1 .. n : k \in 0 .. n /\ k # 0
    OBVIOUS
  <2> QED BY <1>6, <2>1
<1>8. run[0] = [d |-> Store, answer |-> "added", dup |-> FALSE]
  BY <1>7 DEF base
<1>9. \A k \in 1 .. n : run[k] = CommitNode(run[k - 1], Fork(s[k]), IF s[k] = goal THEN p ELSE node[s[k]].content,
                                            ForkParents(s[k], D))
  BY <1>7 DEF Step
<1> QED BY <1>1, <1>8, <1>9 DEF ForkRun

\* What a fork of the nodes of s leaves behind, and what it has done when none of the
\* "_fork" ids was taken and no forked node equals a stored one.
LEMMA Commits ==
  ASSUME StoreSound(Store), HashesTell(Store), NEW D, D \subseteq DOMAIN node, \A i \in D : i[2] < MaxForks,
         NEW s \in TopologicalOrders(D), NEW goal, NEW p
  PROVE  LET r == CommitFork(s, goal, p) IN
         /\ StoreSound(r.d) /\ HashesTell(r.d) /\ Grows(Store, r.d)
         /\ ~(r.dup \/ \E i \in D : Fork(i) \in DOMAIN node) =>
              /\ r.answer = "added" /\ DOMAIN r.d.node = DOMAIN node \cup {Fork(i) : i \in D}
              /\ \A i \in D : ParentsIn(r.d, Fork(i)) \cap D = {}
<1>0. /\ IsFiniteSet(DOMAIN node) /\ DOMAIN node \subseteq Id /\ DOMAIN children = DOMAIN node
      /\ \A i \in DOMAIN node : NodeSound(Store, i)
  BY DEF StoreSound, Store
<1>1. IsFiniteSet(D) /\ Cardinality(D) \in Nat
  BY <1>0, FS_Subset, FS_CardinalityType
<1>2. PICK n \in Nat : n = Cardinality(D)
  BY <1>1
<1>3. /\ s \in [1 .. n -> D] /\ IsInjective(s) /\ \A k, l \in 1 .. n : s[l] \in children[s[k]] => k < l
  BY <1>2 DEF TopologicalOrders
<1>4. DOMAIN s = 1 .. n /\ Len(s) = n
  BY <1>3
<1>5. {s[k] : k \in DOMAIN s} = D
  <2>1. Cardinality(1 .. n) = n /\ IsFiniteSet(1 .. n)
    BY <1>2, FS_Interval
  <2>2. s \in Injection(1 .. n, D)
    BY <1>3 DEF Injection
  <2>3. s \in Surjection(1 .. n, D)
    BY <1>1, <1>2, <2>1, <2>2, FS_Injection
  <2> QED BY <1>3, <1>4, <2>3 DEF Surjection
<1>6. PICK run : ForkRun(run, s, goal, p, n, D)
  BY <1>4, <1>5, CommitRuns
<1>7. \A i \in D : Fork(i) \in Id /\ i \in Id
  <2>1. MaxForks \in Nat
    BY MerkleAssumption
  <2> QED BY <1>0, <2>1 DEF Id, Fork
<1>8. \A i, j \in D : Fork(i) = Fork(j) => i = j
  <2> SUFFICES ASSUME NEW i \in D, NEW j \in D, Fork(i) = Fork(j) PROVE i = j
    OBVIOUS
  <2>1. i \in Name \X (0 .. MaxForks + 1) /\ j \in Name \X (0 .. MaxForks + 1)
    BY <1>7 DEF Id
  <2>2. i = <<i[1], i[2]>> /\ j = <<j[1], j[2]>> /\ i[2] \in Nat /\ j[2] \in Nat
    BY <2>1
  <2>3. i[1] = j[1] /\ i[2] + 1 = j[2] + 1
    BY DEF Fork
  <2>4. i[2] = j[2]
    BY <2>2, <2>3
  <2> QED BY <2>2, <2>3, <2>4
<1>9. \A i \in D : /\ DOMAIN ForkParents(i, D) = {} \/ 1 \in DOMAIN ForkParents(i, D)
                   /\ \A k \in DOMAIN ForkParents(i, D) : \E j \in DOMAIN node :
                        /\ i \in children[j]
                        /\ ForkParents(i, D)[k] = IF j \in D THEN Fork(j) ELSE j
  <2> SUFFICES ASSUME NEW i \in D
               PROVE  /\ DOMAIN ForkParents(i, D) = {} \/ 1 \in DOMAIN ForkParents(i, D)
                      /\ \A k \in DOMAIN ForkParents(i, D) : \E j \in DOMAIN node :
                           /\ i \in children[j]
                           /\ ForkParents(i, D)[k] = IF j \in D THEN Fork(j) ELSE j
    OBVIOUS
  <2>1. /\ DOMAIN ForkParents(i, D) = DOMAIN node[i].parents
        /\ \A k \in DOMAIN node[i].parents : ForkParents(i, D)[k] = LET pid == index[node[i].parents[k]] IN IF pid \in D THEN Fork(pid) ELSE pid
    BY DEF ForkParents
  <2>2. /\ DOMAIN node[i].parents = {} \/ 1 \in DOMAIN node[i].parents
        /\ \A k \in DOMAIN node[i].parents : node[i].parents[k] \in DOMAIN index
    BY <1>0 DEF NodeSound, Store
  <2>3. ASSUME NEW k \in DOMAIN node[i].parents
        PROVE  index[node[i].parents[k]] \in DOMAIN node /\ i \in children[index[node[i].parents[k]]]
    <3>1. index[node[i].parents[k]] \in DOMAIN node
      BY <2>2 DEF StoreSound, Store
    <3>2. index[node[i].parents[k]] \in ParentsIn(Store, i)
      BY DEF ParentsIn, Store
    <3> QED BY <3>1, <3>2 DEF StoreSound, Store
  <2> QED BY <2>1, <2>2, <2>3
<1> DEFINE Clean == ~\E i \in D : Fork(i) \in DOMAIN node
           Kept(c) == StoreSound(c.d) /\ HashesTell(c.d) /\ Grows(Store, c.d)
           Done(c, m) == c.dup \/ /\ c.answer = "added" /\ c.dup = FALSE
                                  /\ DOMAIN c.d.node = DOMAIN node \cup {Fork(s[k]) : k \in 1 .. m}
                                  /\ \A k \in 1 .. m : ParentsIn(c.d, Fork(s[k])) \cap D = {}
           S == {m \in 0 .. n : Kept(run[m]) /\ (Clean => Done(run[m], m))}
<1>10. 0 \in S
  <2>1. run[0].d = Store /\ run[0].answer = "added" /\ run[0].dup = FALSE /\ 1 .. 0 = {} /\ 0 \in 0 .. n
    BY <1>6 DEF ForkRun
  <2>2. Kept(run[0])
    BY <2>1 DEF Grows
  <2>3. Done(run[0], 0)
    <3>1. run[0].d.node = node
      BY <2>1 DEF Store
    <3>2. {Fork(s[k]) : k \in 1 .. 0} = {} /\ \A k \in 1 .. 0 : FALSE
      BY <2>1
    <3> QED BY <2>1, <3>1, <3>2
  <2> QED BY <2>1, <2>2, <2>3
<1>11. ASSUME NEW m \in 0 .. n - 1, m \in S PROVE m + 1 \in S
  <2>1. m + 1 \in 1 .. n /\ m + 1 \in 0 .. n /\ (m + 1) - 1 = m /\ 1 .. m + 1 = (1 .. m) \cup {m + 1}
        /\ m \in Nat /\ 1 .. m \subseteq 1 .. n /\ m + 1 \notin 1 .. m
    BY <1>11
  <2>2. PICK c : c = run[m]
    OBVIOUS
  <2>3. PICK i \in D : i = s[m + 1]
    BY <1>3, <2>1
  <2>4. PICK q : q = IF i = goal THEN p ELSE node[i].content
    OBVIOUS
  <2>5. PICK ps : ps = ForkParents(i, D)
    OBVIOUS
  <2>6. PICK a : a = AddNode(c.d, Fork(i), q, ps)
    OBVIOUS
  <2>7. run[m + 1] = IF c.answer = "raised" THEN c
                     ELSE [d |-> a.d, answer |-> a.answer, dup |-> c.dup \/ a.answer = "deduplicated"]
    BY <1>6, <2>1, <2>2, <2>3, <2>4, <2>5, <2>6 DEF ForkRun, CommitNode
  <2>8. Kept(c) /\ (Clean => Done(c, m))
    BY <1>11, <2>2
  <2>9. DOMAIN ps = {} \/ 1 \in DOMAIN ps
    BY <1>9, <2>5
  <2>10. LET r == AddNode(c.d, Fork(i), q, ps) IN
         /\ r.answer \in {"added", "same", "deduplicated", "raised"} /\ (r.answer # "added" => r.d = c.d)
         /\ StoreSound(r.d) /\ HashesTell(r.d) /\ Grows(c.d, r.d)
         /\ r.answer = "added" => DOMAIN r.d.node = DOMAIN c.d.node \cup {Fork(i)} /\ ParentsIn(r.d, Fork(i)) = {ps[k] : k \in DOMAIN ps}
         /\ Fork(i) \notin DOMAIN c.d.node /\ (\A k \in DOMAIN ps : ps[k] \in DOMAIN c.d.node) => r.answer \in {"added", "deduplicated"}
    BY <1>7, <2>8, <2>9, NodeAdded
  <2>11. /\ a.answer \in {"added", "same", "deduplicated", "raised"} /\ (a.answer # "added" => a.d = c.d)
         /\ StoreSound(a.d) /\ HashesTell(a.d) /\ Grows(c.d, a.d)
         /\ a.answer = "added" => DOMAIN a.d.node = DOMAIN c.d.node \cup {Fork(i)} /\ ParentsIn(a.d, Fork(i)) = {ps[k] : k \in DOMAIN ps}
         /\ Fork(i) \notin DOMAIN c.d.node /\ (\A k \in DOMAIN ps : ps[k] \in DOMAIN c.d.node) => a.answer \in {"added", "deduplicated"}
    BY <2>6, <2>10
  <2>12. Kept(run[m + 1])
    <3>1. Grows(Store, a.d)
      BY <2>8, <2>11 DEF Grows
    <3> QED BY <2>7, <2>8, <2>11, <3>1
  <2>13. ASSUME Clean PROVE Done(run[m + 1], m + 1)
    <3>1. CASE c.dup
      <4>1. c.answer = "raised" => run[m + 1].dup = c.dup
        BY <2>7
      <4>2. c.answer # "raised" => run[m + 1].dup = (c.dup \/ a.answer = "deduplicated")
        BY <2>7
      <4>3. run[m + 1].dup
        BY <3>1, <4>1, <4>2
      <4> QED BY <4>3
    <3>2. CASE ~c.dup
      <4>1. /\ c.answer = "added" /\ c.dup = FALSE
            /\ DOMAIN c.d.node = DOMAIN node \cup {Fork(s[k]) : k \in 1 .. m}
            /\ \A k \in 1 .. m : ParentsIn(c.d, Fork(s[k])) \cap D = {}
        BY <2>8, <2>13, <3>2
      <4>2. Fork(i) \notin DOMAIN c.d.node
        <5>1. \A k \in 1 .. m : s[k] \in D /\ s[k] # i
          BY <1>3, <1>4, <2>1, <2>3 DEF IsInjective
        <5> QED BY <1>8, <2>13, <4>1, <5>1
      <4>3. ASSUME NEW k \in DOMAIN ps PROVE ps[k] \in DOMAIN c.d.node /\ ps[k] \notin D
        <5>1. PICK j \in DOMAIN node : i \in children[j] /\ ps[k] = IF j \in D THEN Fork(j) ELSE j
          BY <1>9, <2>5, <4>3
        <5>2. CASE j \notin D
          BY <4>1, <5>1, <5>2
        <5>3. CASE j \in D
          <6>1. PICK l \in 1 .. n : s[l] = j
            BY <1>4, <1>5, <5>3
          <6>2. l < m + 1
            BY <1>3, <2>1, <2>3, <5>1, <6>1
          <6>3. l \in 1 .. m
            BY <2>1, <6>1, <6>2
          <6> QED BY <2>13, <4>1, <5>1, <5>3, <6>1, <6>3
        <5> QED BY <5>2, <5>3
      <4>4. a.answer \in {"added", "deduplicated"}
        BY <2>11, <4>2, <4>3
      <4>5. CASE a.answer = "deduplicated"
        <5>1. run[m + 1].dup = (c.dup \/ a.answer = "deduplicated")
          BY <2>7, <4>1
        <5> QED BY <4>5, <5>1
      <4>6. CASE a.answer = "added"
        <5>1. run[m + 1].d = a.d /\ run[m + 1].answer = "added" /\ run[m + 1].dup = FALSE
          <6>1. run[m + 1] = [d |-> a.d, answer |-> a.answer, dup |-> c.dup \/ a.answer = "deduplicated"]
            BY <2>7, <4>1
          <6>2. (c.dup \/ a.answer = "deduplicated") = FALSE
            BY <4>1, <4>6
          <6>3. run[m + 1].dup = (c.dup \/ a.answer = "deduplicated") /\ run[m + 1].d = a.d /\ run[m + 1].answer = a.answer
            BY <6>1
          <6> QED BY <4>6, <6>2, <6>3
        <5>2. DOMAIN a.d.node = DOMAIN node \cup {Fork(s[k]) : k \in 1 .. m + 1}
          BY <2>1, <2>3, <2>11, <4>1, <4>6
        <5>3. ParentsIn(a.d, Fork(i)) \cap D = {}
          BY <2>11, <4>3, <4>6
        <5>4. ASSUME NEW k \in 1 .. m PROVE ParentsIn(a.d, Fork(s[k])) \cap D = {}
          <6>1. Fork(s[k]) \in DOMAIN c.d.node
            BY <4>1
          <6>2. ParentsIn(a.d, Fork(s[k])) = ParentsIn(c.d, Fork(s[k]))
            <7>1. PICK x \in DOMAIN c.d.node : x = Fork(s[k])
              BY <6>1
            <7>2. \A l \in DOMAIN c.d.node[x].parents : c.d.node[x].parents[l] \in DOMAIN c.d.index
              BY <2>8 DEF StoreSound, NodeSound
            <7>3. a.d.node[x] = c.d.node[x] /\ \A h \in DOMAIN c.d.index : a.d.index[h] = c.d.index[h]
              BY <2>11 DEF Grows
            <7> QED BY <7>1, <7>2, <7>3 DEF ParentsIn
          <6> QED BY <4>1, <6>2
        <5> QED BY <2>1, <2>3, <5>1, <5>2, <5>3, <5>4
      <4> QED BY <4>4, <4>5, <4>6
    <3> QED BY <3>1, <3>2
  <2> QED BY <2>1, <2>12, <2>13
<1>12. n \in S
  <2>1. 0 .. n \subseteq S
    BY <1>10, <1>11, UpTo
  <2> QED BY <2>1
<1>13. Kept(run[n]) /\ (Clean => Done(run[n], n))
  BY <1>12
<1>14. {Fork(s[k]) : k \in 1 .. n} = {Fork(i) : i \in D} /\ \A i \in D : \E k \in 1 .. n : i = s[k]
  BY <1>4, <1>5
<1> QED BY <1>6, <1>13, <1>14 DEF ForkRun

\* What iterating a function of a set gives, as a recursive definition says it.
Iteration(f, n, T, b, G) == f \in [0 .. n -> T] /\ f = [k \in 0 .. n |-> IF k = 0 THEN b ELSE G[f[k - 1]]]

LEMMA Iterates ==
  ASSUME NEW n \in Nat, NEW T, NEW b \in T, NEW G \in [T -> T]
  PROVE  \E f : Iteration(f, n, T, b, G)
<1> DEFINE Runs(f, m) == f \in [0 .. m -> T] /\ f = [k \in 0 .. m |-> IF k = 0 THEN b ELSE G[f[k - 1]]]
           S == {m \in 0 .. n : \E f : Runs(f, m)}
<1>1. 0 \in S
  <2>1. Runs([k \in 0 .. 0 |-> b], 0)
    OBVIOUS
  <2>2. 0 \in 0 .. n
    OBVIOUS
  <2> HIDE DEF Runs
  <2>3. \E f : Runs(f, 0)
    BY <2>1
  <2> QED BY <2>2, <2>3
<1>2. ASSUME NEW m \in 0 .. n - 1, m \in S PROVE m + 1 \in S
  <2>1. PICK f : Runs(f, m)
    BY <1>2
  <2>2. m \in Nat /\ m + 1 \in 0 .. n /\ 0 .. m + 1 = (0 .. m) \cup {m + 1} /\ m + 1 \notin 0 .. m /\ m \in 0 .. m
    BY <1>2
  <2> DEFINE g == [k \in 0 .. m + 1 |-> IF k \in 0 .. m THEN f[k] ELSE G[f[m]]]
  <2>3. ASSUME NEW k \in 0 .. m + 1 PROVE g[k] = (IF k = 0 THEN b ELSE G[g[k - 1]]) /\ g[k] \in T
    <3>1. CASE k \in 0 .. m
      <4>1. g[k] = f[k] /\ f[k] = (IF k = 0 THEN b ELSE G[f[k - 1]]) /\ f[k] \in T
        BY <2>1, <3>1
      <4>2. k # 0 => k - 1 \in 0 .. m /\ k - 1 \in 0 .. m + 1
        BY <2>2, <3>1
      <4>3. k # 0 => g[k - 1] = f[k - 1]
        BY <4>2
      <4> QED BY <4>1, <4>3
    <3>2. CASE k = m + 1
      <4>1. k # 0 /\ k - 1 = m /\ m \in 0 .. m /\ m \in 0 .. m + 1
        BY <2>2, <3>2
      <4>2. g[k] = G[f[m]] /\ g[m] = f[m] /\ f[m] \in T
        BY <2>1, <2>2, <3>2, <4>1
      <4> QED BY <3>2, <4>1, <4>2
    <3> QED BY <2>2, <3>1, <3>2
  <2>4. g = [k \in 0 .. m + 1 |-> g[k]]
    OBVIOUS
  <2> HIDE DEF g
  <2>5. Runs(g, m + 1)
    BY <2>3, <2>4
  <2> QED BY <2>2, <2>5
<1>3. n \in S
  <2>1. 0 .. n \subseteq S
    BY <1>1, <1>2, UpTo
  <2> QED BY <2>1
<1> QED BY <1>3 DEF Iteration

LEMMA StoreFinite ==
  ASSUME StoreSound(Store)
  PROVE  Cardinality(DOMAIN node) \in Nat
<1>1. IsFiniteSet(DOMAIN node)
  BY DEF StoreSound, Store
<1> QED BY <1>1, FS_CardinalityType

\* The search over children stays in the store.
LEMMA BelowIsStored ==
  ASSUME StoreSound(Store), NEW i \in DOMAIN node
  PROVE  Below(i) \subseteq DOMAIN node
<1> DEFINE T == SUBSET DOMAIN node
           Wider(X) == X \cup UNION {children[j] : j \in X}
           G == [X \in T |-> Wider(X)]
           reach[n \in 0 .. Cardinality(DOMAIN node)] == IF n = 0 THEN {i} ELSE Wider(reach[n - 1])
<1>1. Below(i) = reach[Cardinality(DOMAIN node)]
  BY DEF Below
<1>2. PICK N \in Nat : N = Cardinality(DOMAIN node)
  BY StoreFinite
<1>3. \A X \in T : Wider(X) \in T
  <2>1. \A j \in DOMAIN node : children[j] \subseteq DOMAIN node
    BY DEF StoreSound, NodeSound, Store
  <2> QED BY <2>1
<1> HIDE DEF Wider
<1>4. G \in [T -> T] /\ {i} \in T
  BY <1>3
<1> HIDE DEF T
<1>5. PICK f : Iteration(f, N, T, {i}, G)
  <2> HIDE DEF G
  <2> QED BY <1>4, Iterates
<1>6. \A k \in 0 .. N : k # 0 => k - 1 \in 0 .. N
  OBVIOUS
<1>7. f = [k \in 0 .. N |-> IF k = 0 THEN {i} ELSE Wider(f[k - 1])]
  BY <1>5, <1>6 DEF Iteration
<1>8. reach = [k \in 0 .. N |-> IF k = 0 THEN {i} ELSE Wider(reach[k - 1])]
  BY <1>2, <1>7
<1> HIDE DEF reach
<1> DEFINE S == {m \in 0 .. N : reach[m] \in T}
<1>9. 0 \in S
  <2>1. 0 \in 0 .. N
    OBVIOUS
  <2> QED BY <1>4, <1>8, <2>1
<1>10. ASSUME NEW m \in 0 .. N - 1, m \in S PROVE m + 1 \in S
  <2>1. m + 1 \in 0 .. N /\ m + 1 # 0 /\ (m + 1) - 1 = m
    BY <1>10
  <2>2. reach[m + 1] = Wider(reach[m])
    BY <1>8, <2>1
  <2> QED BY <1>3, <1>10, <2>1, <2>2
<1>11. reach[N] \in T
  <2>1. 0 .. N \subseteq S
    BY <1>9, <1>10, UpTo
  <2>2. N \in 0 .. N
    OBVIOUS
  <2> QED BY <2>1, <2>2
<1> QED BY <1>1, <1>2, <1>11 DEF T

\* The chain of first parents: nodes of the store, and none after the last.
LEMMA ChainIsStored ==
  ASSUME StoreSound(Store), NEW leaf \in DOMAIN node, NEW n \in DOMAIN Chain(leaf), Chain(leaf)[n] \in DOMAIN node
  PROVE  \A k \in 1 .. n : k \in DOMAIN Chain(leaf) /\ Chain(leaf)[k] \in DOMAIN node
<1> DEFINE T == DOMAIN node \cup {NoId}
           G == [w \in T |-> FirstParent(w)]
           walk[m \in 0 .. Cardinality(DOMAIN node)] == IF m = 0 THEN leaf ELSE FirstParent(walk[m - 1])
<1>1. Chain(leaf) = [m \in 1 .. Cardinality(DOMAIN node) |-> walk[m - 1]]
  BY DEF Chain
<1>2. PICK N \in Nat : N = Cardinality(DOMAIN node)
  BY StoreFinite
<1>3. \A w \in T : FirstParent(w) \in T
  <2> SUFFICES ASSUME NEW w \in DOMAIN node, node[w].parents # <<>> PROVE index[node[w].parents[1]] \in DOMAIN node
    BY DEF FirstParent
  <2>1. /\ node[w].parents = [k \in DOMAIN node[w].parents |-> node[w].parents[k]]
        /\ DOMAIN node[w].parents = {} \/ 1 \in DOMAIN node[w].parents
        /\ \A k \in DOMAIN node[w].parents : node[w].parents[k] \in DOMAIN index
    BY DEF StoreSound, NodeSound, Store
  <2>2. 1 \in DOMAIN node[w].parents
    <3>1. ASSUME DOMAIN node[w].parents = {} PROVE node[w].parents = <<>>
      BY <2>1, <3>1
    <3> QED BY <2>1, <3>1
  <2> QED BY <2>1, <2>2 DEF StoreSound, Store
<1>4. FirstParent(NoId) = NoId /\ NoId \notin DOMAIN node
  <2>1. DOMAIN node \subseteq Name \X (0 .. MaxForks + 1)
    BY DEF StoreSound, Store, Id
  <2> QED BY <2>1 DEF FirstParent, NoId
<1>5. G \in [T -> T] /\ leaf \in T
  BY <1>3
<1> HIDE DEF T
<1>6. PICK f : Iteration(f, N, T, leaf, G)
  <2> HIDE DEF G
  <2> QED BY <1>5, Iterates
<1>7. \A k \in 0 .. N : k # 0 => k - 1 \in 0 .. N
  OBVIOUS
<1>8. f = [k \in 0 .. N |-> IF k = 0 THEN leaf ELSE FirstParent(f[k - 1])]
  BY <1>6, <1>7 DEF Iteration
<1>9. walk = [k \in 0 .. N |-> IF k = 0 THEN leaf ELSE FirstParent(walk[k - 1])]
  BY <1>2, <1>8
<1> HIDE DEF walk
<1>10. \A m \in 0 .. N - 1 : walk[m + 1] = FirstParent(walk[m])
  <2>1. \A m \in 0 .. N - 1 : m + 1 \in 0 .. N /\ m + 1 # 0 /\ (m + 1) - 1 = m
    OBVIOUS
  <2> QED BY <1>9, <2>1
<1>11. \A m \in 0 .. N : walk[m] \in T
  <2> DEFINE S == {m \in 0 .. N : walk[m] \in T}
  <2>1. 0 \in S
    <3>1. 0 \in 0 .. N
      OBVIOUS
    <3> QED BY <1>5, <1>9, <3>1
  <2>2. ASSUME NEW m \in 0 .. N - 1, m \in S PROVE m + 1 \in S
    BY <1>3, <1>10, <2>2
  <2>3. 0 .. N \subseteq S
    BY <2>1, <2>2, UpTo
  <2> QED BY <2>3
<1>12. DOMAIN Chain(leaf) = 1 .. N /\ \A k \in 1 .. N : Chain(leaf)[k] = walk[k - 1]
  BY <1>1, <1>2
<1>13. n \in 1 .. N /\ walk[n - 1] \in DOMAIN node
  BY <1>12
<1>14. ASSUME NEW k \in 1 .. n PROVE walk[k - 1] \in DOMAIN node /\ k \in 1 .. N
  <2>1. k \in 1 .. N /\ k - 1 \in 0 .. N /\ n - k \in Nat
    BY <1>13, <1>14
  <2> SUFFICES ASSUME walk[k - 1] = NoId PROVE FALSE
    BY <1>11, <2>1 DEF T
  <2> DEFINE S == {m \in 0 .. n - k : walk[(k - 1) + m] = NoId}
  <2>2. 0 \in S
    BY <2>1
  <2>3. ASSUME NEW m \in 0 .. (n - k) - 1, m \in S PROVE m + 1 \in S
    <3>1. (k - 1) + m \in 0 .. N - 1 /\ (k - 1) + (m + 1) = ((k - 1) + m) + 1 /\ m + 1 \in 0 .. n - k
      BY <1>13, <2>1, <2>3
    <3>2. walk[(k - 1) + m] = NoId
      BY <2>3
    <3>3. walk[((k - 1) + m) + 1] = NoId
      BY <1>4, <1>10, <3>1, <3>2
    <3> QED BY <3>1, <3>3
  <2>4. n - k \in S
    <3>1. 0 .. n - k \subseteq S
      BY <2>1, <2>2, <2>3, UpTo
    <3> QED BY <2>1, <3>1
  <2>5. (k - 1) + (n - k) = n - 1
    BY <1>13, <2>1
  <2> QED BY <1>4, <1>13, <2>4, <2>5
<1> QED BY <1>12, <1>14

LEMMA PathsTell ==
  ASSUME StoreSound(Store), HashesTell(Store)
  PROVE  PathIsTamperEvident
<1>1. \A i \in DOMAIN node : Verified(node, i) <=> i \notin altered
  BY DEF HashesTell, Store, Verified
<1>2. \A i \in altered : ~Verified(node, i)
  BY <1>1 DEF HashesTell, Store, Verified
<1>3. ASSUME NEW leaf \in DOMAIN node, NEW top \in DOMAIN node, NEW n \in DOMAIN Chain(leaf), Chain(leaf)[n] = top
      PROVE  (\A k \in 1 .. n : Verified(node, Chain(leaf)[k])) <=> altered \cap {Chain(leaf)[k] : k \in 1 .. n} = {}
  <2>1. \A k \in 1 .. n : Chain(leaf)[k] \in DOMAIN node
    BY <1>3, ChainIsStored
  <2> QED BY <1>1, <1>2, <2>1
<1> QED BY <1>3 DEF PathIsTamperEvident, VerifyPath

DagInv == StoreSound(Store) /\ HashesTell(Store) /\ ForkIsParallel

LEMMA DagInvHolds ==
  ASSUME DagInv
  PROVE  IndexIsExact /\ ForkIsParallel /\ PathIsTamperEvident
<1>1. \A i \in DOMAIN node : ParentsIn(Store, i) = ParentIds(i)
  BY DEF ParentsIn, ParentIds, Store
<1>2. /\ \A i \in DOMAIN node : index[node[i].hash] = i
      /\ \A h \in DOMAIN index : node[index[h]].hash = h
      /\ \A i, j \in DOMAIN node : j \in children[i] <=> i \in ParentsIn(Store, j)
  BY DEF DagInv, StoreSound, NodeSound, Store
<1> QED BY <1>1, <1>2, PathsTell DEF DagInv, IndexIsExact

LEMMA MInitInv ==
  ASSUME MInit
  PROVE  DagInv
<1>1. DOMAIN <<>> = {} /\ IsFiniteSet({})
  BY FS_EmptySet
<1>2. Store.node = <<>> /\ Store.index = <<>> /\ Store.children = <<>> /\ altered = {} /\ last.op = "none"
  BY DEF MInit, Store
<1>3. DOMAIN Store.node = {} /\ DOMAIN Store.index = {} /\ DOMAIN Store.children = {}
  BY <1>1, <1>2
<1> QED BY <1>1, <1>2, <1>3 DEF DagInv, StoreSound, HashesTell, ForkIsParallel

\* The store that a call leaves is the one it is kept as.
LEMMA Keeps ==
  ASSUME NEW d, StoreSound(d), HashesTell(d), Keep(d), UNCHANGED altered
  PROVE  StoreSound(Store)' /\ HashesTell(Store)' /\ \A i : ParentIds(i)' = ParentsIn(d, i)
<1>1. node' = d.node /\ index' = d.index /\ children' = d.children
  BY DEF Keep
<1>2. Store'.node = d.node /\ Store'.index = d.index /\ Store'.children = d.children
  BY <1>1 DEF Store
<1>3. \A i : ParentIds(i)' = ParentsIn(d, i)
  BY <1>1 DEF ParentIds, ParentsIn
<1>4. StoreSound(Store')
  <2>1. \A i : ParentsIn(Store', i) = ParentsIn(d, i)
    BY <1>2 DEF ParentsIn
  <2>2. \A i \in DOMAIN d.node : NodeSound(Store', i)
    BY <1>2 DEF StoreSound, NodeSound
  <2> QED BY <1>2, <2>1, <2>2 DEF StoreSound
<1>5. HashesTell(Store)'
  BY <1>2 DEF HashesTell
<1> QED BY <1>3, <1>4, <1>5

LEMMA Adds ==
  ASSUME DagInv, Add
  PROVE  DagInv'
<1>0. StoreSound(Store) /\ HashesTell(Store)
  BY DEF DagInv
<1>1. PICK i \in Name \X {0}, p \in Payload :
      \E ps \in {<<>>} \cup {<<a>> : a \in Id} \cup {<<a, b>> : a \in DOMAIN node, b \in DOMAIN node} :
        /\ Keep(AddNode(Store, i, p, ps).d) /\ last'.op = "add"
  BY DEF Add
<1>2. PICK ps \in {<<>>} \cup {<<a>> : a \in Id} \cup {<<a, b>> : a \in DOMAIN node, b \in DOMAIN node} :
        /\ Keep(AddNode(Store, i, p, ps).d) /\ last'.op = "add"
  BY <1>1
<1>3. DOMAIN ps = {} \/ 1 \in DOMAIN ps
  BY <1>2
<1>4. i \in Id
  <2>1. 0 \in 0 .. MaxForks + 1
    BY MerkleAssumption
  <2> QED BY <2>1 DEF Id
<1>5. PICK d : d = AddNode(Store, i, p, ps).d
  OBVIOUS
<1>6. StoreSound(d) /\ HashesTell(d)
  BY <1>0, <1>3, <1>4, <1>5, NodeAdded
<1>7. UNCHANGED altered
  BY DEF Add
<1>8. ForkIsParallel'
  BY <1>2 DEF ForkIsParallel
<1> QED BY <1>2, <1>5, <1>6, <1>7, <1>8, Keeps DEF DagInv

LEMMA ForksLineage ==
  ASSUME DagInv, ForkLineage
  PROVE  DagInv'
<1>0. StoreSound(Store) /\ HashesTell(Store)
  BY DEF DagInv
<1>1. PICK goal \in DOMAIN node, p \in Payload :
        LET D == Below(goal) IN
        /\ \A i \in D : i[2] < MaxForks
        /\ \E s \in TopologicalOrders(D) :
             LET r == CommitFork(s, goal, p) IN
             /\ Keep(r.d)
             /\ last' = [op |-> "fork", outcome |-> r.answer,
                         added |-> DOMAIN r.d.node \ DOMAIN node, forked |-> D,
                         clash |-> r.dup \/ \E i \in D : Fork(i) \in DOMAIN node]
        /\ UNCHANGED altered
  BY DEF ForkLineage
<1>2. PICK D : D = Below(goal)
  OBVIOUS
<1>3. PICK s \in TopologicalOrders(D) :
             LET r == CommitFork(s, goal, p) IN
             /\ Keep(r.d)
             /\ last' = [op |-> "fork", outcome |-> r.answer,
                         added |-> DOMAIN r.d.node \ DOMAIN node, forked |-> D,
                         clash |-> r.dup \/ \E i \in D : Fork(i) \in DOMAIN node]
  BY <1>1, <1>2
<1>4. PICK r : r = CommitFork(s, goal, p)
  OBVIOUS
<1>5. /\ Keep(r.d) /\ last'.op = "fork" /\ last'.outcome = r.answer /\ last'.added = DOMAIN r.d.node \ DOMAIN node
      /\ last'.forked = D /\ last'.clash = (r.dup \/ \E i \in D : Fork(i) \in DOMAIN node)
  BY <1>3, <1>4
<1>6. D \subseteq DOMAIN node /\ \A i \in D : i[2] < MaxForks
  BY <1>0, <1>1, <1>2, BelowIsStored
<1>7. /\ StoreSound(r.d) /\ HashesTell(r.d) /\ Grows(Store, r.d)
      /\ ~(r.dup \/ \E i \in D : Fork(i) \in DOMAIN node) =>
           /\ r.answer = "added" /\ DOMAIN r.d.node = DOMAIN node \cup {Fork(i) : i \in D}
           /\ \A i \in D : ParentsIn(r.d, Fork(i)) \cap D = {}
  BY <1>0, <1>4, <1>6, Commits
<1>8. /\ StoreSound(Store)' /\ HashesTell(Store)' /\ \A i : ParentIds(i)' = ParentsIn(r.d, i)
  BY <1>1, <1>5, <1>7, Keeps
<1>9. ForkIsParallel'
  <2> SUFFICES ASSUME ~last'.clash
               PROVE  /\ last'.outcome = "added" /\ last'.added = {Fork(i) : i \in last'.forked}
                      /\ \A i \in last'.added : ParentIds(i)' \cap last'.forked = {}
    BY DEF ForkIsParallel
  <2>1. /\ r.answer = "added" /\ DOMAIN r.d.node = DOMAIN node \cup {Fork(i) : i \in D}
        /\ \A i \in D : ParentsIn(r.d, Fork(i)) \cap D = {} /\ Fork(i) \notin DOMAIN node
    BY <1>5, <1>7
  <2>2. last'.added = {Fork(i) : i \in D}
    BY <1>5, <2>1
  <2> QED BY <1>5, <1>8, <2>1, <2>2
<1> QED BY <1>8, <1>9 DEF DagInv

LEMMA TampersNode ==
  ASSUME DagInv, TamperNode
  PROVE  DagInv'
<1>0. StoreSound(Store) /\ HashesTell(Store)
  BY DEF DagInv
<1>1. PICK i \in DOMAIN node, p \in Payload :
        p # node[i].content /\ node' = [node EXCEPT ![i].content = p] /\ altered' = altered \cup {i}
  BY DEF TamperNode
<1>2. UNCHANGED <<index, children>> /\ last'.op = "tamper"
  BY DEF TamperNode
<1>3. altered = {}
  <2>1. IsFiniteSet(altered)
    BY <1>0, FS_Subset DEF StoreSound, HashesTell, Store
  <2>2. Cardinality(altered) < 1 /\ Cardinality(altered) \in Nat
    BY <2>1, FS_CardinalityType DEF TamperNode
  <2>3. Cardinality(altered) = 0
    BY <2>2
  <2> QED BY <2>1, <2>3, FS_EmptySet
<1>4. /\ Store.node = node /\ Store.index = index /\ Store.children = children
      /\ Store'.node = node' /\ Store'.index = index /\ Store'.children = children
  BY <1>2 DEF Store
<1>5. \A j \in DOMAIN node : NodeSound(Store, j)
  BY <1>0, <1>4 DEF StoreSound
<1>6. node[i] = [content |-> node[i].content, parents |-> node[i].parents, hash |-> node[i].hash]
  BY <1>4, <1>5 DEF NodeSound
<1>7. DOMAIN node' = DOMAIN node /\ \A j \in DOMAIN node : j # i => node'[j] = node[j]
  BY <1>1
<1>8. node'[i] = [node[i] EXCEPT !.content = p]
  BY <1>1
<1>9. node'[i] = [content |-> p, parents |-> node[i].parents, hash |-> node[i].hash]
  BY <1>6, <1>8
<1>10. node'[i].content = p /\ node'[i].parents = node[i].parents /\ node'[i].hash = node[i].hash
       /\ node'[i] = [content |-> node'[i].content, parents |-> node'[i].parents, hash |-> node'[i].hash]
  BY <1>9
<1>11. \A j \in DOMAIN node : /\ node'[j].parents = node[j].parents /\ node'[j].hash = node[j].hash
                              /\ node'[j] = [content |-> node'[j].content, parents |-> node'[j].parents, hash |-> node'[j].hash]
  <2> SUFFICES ASSUME NEW j \in DOMAIN node
               PROVE  /\ node'[j].parents = node[j].parents /\ node'[j].hash = node[j].hash
                      /\ node'[j] = [content |-> node'[j].content, parents |-> node'[j].parents, hash |-> node'[j].hash]
    OBVIOUS
  <2>1. CASE j = i
    BY <1>10, <2>1
  <2>2. CASE j # i
    <3>1. node[j] = [content |-> node[j].content, parents |-> node[j].parents, hash |-> node[j].hash]
      BY <1>4, <1>5 DEF NodeSound
    <3>2. node'[j] = node[j]
      BY <1>7, <2>2
    <3> QED BY <3>1, <3>2
  <2> QED BY <2>1, <2>2
<1>12. StoreSound(Store')
  <2>1. \A j \in DOMAIN node : ParentsIn(Store', j) = ParentsIn(Store, j)
    <3> SUFFICES ASSUME NEW j \in DOMAIN node PROVE ParentsIn(Store', j) = ParentsIn(Store, j)
      OBVIOUS
    <3>1. Store'.node[j].parents = node[j].parents
      BY <1>4, <1>11
    <3> QED BY <1>4, <3>1 DEF ParentsIn
  <2>2. \A j \in DOMAIN node : NodeSound(Store', j)
    BY <1>4, <1>5, <1>7, <1>11 DEF NodeSound
  <2>3. \A h \in DOMAIN index : index[h] \in DOMAIN node /\ node'[index[h]].hash = h
    <3>1. \A h \in DOMAIN index : index[h] \in DOMAIN node /\ node[index[h]].hash = h
      BY <1>0, <1>4 DEF StoreSound
    <3> QED BY <1>11, <3>1
  <2> QED BY <1>0, <1>4, <1>7, <2>1, <2>2, <2>3 DEF StoreSound
<1>13. HashesTell(Store)'
  <2>1. node[i].hash = HashOf(node[i].content, node[i].parents)
    BY <1>0, <1>3, <1>4 DEF HashesTell
  <2>2. node'[i].hash # HashOf(node'[i].content, node'[i].parents)
    BY <1>1, <1>10, <2>1 DEF HashOf
  <2>3. \A j \in DOMAIN node : j # i => node[j].hash = HashOf(node[j].content, node[j].parents)
    BY <1>0, <1>3, <1>4 DEF HashesTell
  <2>4. altered' = {i} /\ altered' \subseteq DOMAIN node'
    BY <1>1, <1>3, <1>7
  <2>5. \A j \in DOMAIN node' : node'[j].hash = HashOf(node'[j].content, node'[j].parents) <=> j \notin altered'
    <3> SUFFICES ASSUME NEW j \in DOMAIN node
                 PROVE  node'[j].hash = HashOf(node'[j].content, node'[j].parents) <=> j \notin altered'
      BY <1>7
    <3>1. CASE j = i
      BY <2>2, <2>4, <3>1
    <3>2. CASE j # i
      BY <1>7, <2>3, <2>4, <3>2
    <3> QED BY <3>1, <3>2
  <2> QED BY <1>4, <2>4, <2>5 DEF HashesTell
<1>14. ForkIsParallel'
  BY <1>2 DEF ForkIsParallel
<1> QED BY <1>12, <1>13, <1>14 DEF DagInv

LEMMA MStepInv ==
  ASSUME DagInv, [MNext]_mvars
  PROVE  DagInv'
<1>1. CASE UNCHANGED mvars
  <2>1. UNCHANGED Store /\ UNCHANGED altered
    BY <1>1 DEF mvars, Store
  <2>2. ForkIsParallel'
    BY <1>1 DEF mvars, DagInv, ForkIsParallel, ParentIds
  <2> QED BY <2>1, <2>2 DEF DagInv, HashesTell
<1>2. CASE MNext
  BY <1>2, Adds, ForksLineage, TampersNode DEF MNext
<1> QED BY <1>1, <1>2

-----------------------------------------------------------------------------
\* A recovery is supported (causal_cut.py, validation.py, divergence_validator.py,
\* recovery/src/executor.py): for every graph, offer of actions, replay and set of
\* proposals, the search finds every failure path, a cut covers them all and an exact one
\* is the cheapest that does; a cut goes to a canary only if it was authorized and its
\* replay is coherent, no synthetic simulation, and leaves the untargeted components as
\* they were; and a setting holds what the last standing action gave it, every receipt tells its outcome, and the lock is held where it must be.
THEOREM RecoveriesAreSupported == RecordsSpec => []RecoveryIsSupported
<1> DEFINE Inv == SearchInv /\ CutInv /\ YInv /\ ActionsInv
<1>1. Init => Inv
  BY RecordsInitial, SearchInit, CutInit, YInitInv, RAInitInv
<1>2. Inv /\ [Next]_allVars => Inv'
  BY RecordsSteps, QStepInv, YStepInv, RAStepInv
<1>3. Inv => RecoveryIsSupported
  BY YInvHolds DEF RecoveryIsSupported, SearchInv, CutInv, ActionsInv
<1> QED BY <1>1, <1>2, <1>3, PTL DEF RecordsSpec

\* Records tell what happened (memory/src/store.py, merkle_dag.py, admission_store.py,
\* admission_receipt.py, trace_sdk): for any processes, tasks, receipts and nodes, however
\* they interleave, crash or are tampered with, the audit chain breaks only where two
\* processes appended at once, a quarantine is kept and logged, an event that was altered
\* or taken out is found, a reservation follows its receipt, the DAG's index and hashes
\* agree and a fork is parallel to its original, and a span hangs under its caller.
THEOREM RecordsAreTrue == RecordsSpec => []RecordsTellTheTruth
<1> DEFINE Inv == MemoryInv /\ TrailInv /\ ObjectInv /\ SpansInv /\ DagInv
<1>1. Init => Inv
  BY RecordsInitial, PMInitInv, LRInitInv, CInitInv, MInitInv
<1>2. Inv /\ [Next]_allVars => Inv'
  BY RecordsSteps, PMStepInv, LRStepInv, CStepInv, MStepInv
<1>3. Inv => RecordsTellTheTruth
  BY MemoryInvHolds, TrailInvTells, SpansInvHolds, DagInvHolds DEF RecordsTellTheTruth
<1> QED BY <1>1, <1>2, <1>3, PTL DEF RecordsSpec

-----------------------------------------------------------------------------
(***************************************************************************)
(* The schema revisions (SchemaMigrations).  Every item belongs to one     *)
(* revision, so what a migration adds nobody else adds or drops.  A clean  *)
(* database follows the migrations statement by statement; one that was    *)
(* cut in an upgrade, or filled by create_all, has what the first          *)
(* statement of a later upgrade adds, and never gets past it.              *)
(***************************************************************************)

\* What the upgrade to revision q adds and drops in dialect d.
Brings(d, q) ==
  CASE q = 1 -> Tenancy \cup RunTables \cup TraceTables
    [] q = 2 -> Durable \cup {x \in {"rls"} : d = "postgresql"}
    [] q = 3 -> Certificates [] q = 6 -> ManifestColumns
    [] q = 7 -> {"span_records.uq_tenant_span"} [] q = 8 -> {x \in {"jsonb"} : d = "postgresql"}
    [] q = 9 -> Restored [] q = 10 -> ReceiptLink
    [] q = 11 -> Evidence \cup ClassColumns \cup EvidenceColumns
    [] q = 12 -> Admission [] OTHER -> {}
Takes(q) ==
  CASE q = 7 -> {"span_records.uq_span_id"} [] q = 11 -> {"replay_episodes.original_not_null"} [] OTHER -> {}
Items(d, r) == (UNION {Brings(d, q) : q \in 1 .. r}) \ (UNION {Takes(q) : q \in 1 .. r})

\* The revision an item belongs to.
Since(x) ==
  IF x \in Tenancy \cup RunTables \cup TraceTables THEN 1 ELSE IF x \in Durable \cup {"rls"} THEN 2
  ELSE IF x \in Certificates THEN 3 ELSE IF x \in ManifestColumns THEN 6
  ELSE IF x = "span_records.uq_tenant_span" THEN 7 ELSE IF x = "jsonb" THEN 8 ELSE IF x \in Restored THEN 9
  ELSE IF x \in ReceiptLink THEN 10 ELSE IF x \in Evidence \cup ClassColumns \cup EvidenceColumns THEN 11
  ELSE IF x \in Admission THEN 12 ELSE 0

LEMMA Belongs ==
  ASSUME NEW d, NEW q \in 1 .. 12, NEW x \in Brings(d, q)
  PROVE  Since(x) = q
<1>1. CASE q = 1
  BY <1>1 DEF Brings, Since
<1>2. CASE q = 2
  BY <1>2 DEF Brings, Since, Tenancy, RunTables, TraceTables, Durable
<1>3. CASE q = 3
  BY <1>3 DEF Brings, Since, Tenancy, RunTables, TraceTables, Durable, Certificates
<1>6. CASE q = 6
  BY <1>6 DEF Brings, Since, Tenancy, RunTables, TraceTables, Durable, Certificates, ManifestColumns
<1>7. CASE q = 7
  BY <1>7 DEF Brings, Since, Tenancy, RunTables, TraceTables, Durable, Certificates, ManifestColumns
<1>8. CASE q = 8
  BY <1>8 DEF Brings, Since, Tenancy, RunTables, TraceTables, Durable, Certificates, ManifestColumns
<1>9. CASE q = 9
  BY <1>9 DEF Brings, Since, Tenancy, RunTables, TraceTables, Durable, Certificates, ManifestColumns, Restored
<1>10. CASE q = 10
  BY <1>10 DEF Brings, Since, Tenancy, RunTables, TraceTables, Durable, Certificates, ManifestColumns, Restored,
               ReceiptLink
<1>11. CASE q = 11
  BY <1>11 DEF Brings, Since, Tenancy, RunTables, TraceTables, Durable, Certificates, ManifestColumns, Restored,
               ReceiptLink, Evidence, ClassColumns, EvidenceColumns
<1>12. CASE q = 12
  BY <1>12 DEF Brings, Since, Tenancy, RunTables, TraceTables, Durable, Certificates, ManifestColumns, Restored,
               ReceiptLink, Evidence, ClassColumns, EvidenceColumns, Admission
<1>13. CASE q \in {4, 5}
  BY <1>13 DEF Brings
<1> QED BY <1>1, <1>2, <1>3, <1>6, <1>7, <1>8, <1>9, <1>10, <1>11, <1>12, <1>13

\* What a statement takes away was there from the start.
LEMMA TakenIsOld ==
  ASSUME NEW d, NEW q \in 1 .. 12, NEW x \in Takes(q)
  PROVE  x \in Brings(d, 1) /\ Since(x) = 1 /\ q \in {7, 11} /\ (\A p \in 1 .. 12 : x \in Takes(p) => p = q)
<1>1. q \in {7, 11} /\ x \in {"span_records.uq_span_id", "replay_episodes.original_not_null"}
  BY DEF Takes
<1>2. x \in Brings(d, 1)
  BY <1>1 DEF Brings, TraceTables
<1>3. \A p \in 1 .. 12 : x \in Takes(p) => p = q
  BY DEF Takes
<1> QED BY <1>1, <1>2, <1>3, Belongs

LEMMA ItemIs ==
  ASSUME NEW d, NEW r, NEW x
  PROVE  x \in Items(d, r) <=> /\ \E p \in 1 .. r : x \in Brings(d, p)
                              /\ \A p \in 1 .. r : x \notin Takes(p)
<1> DEFINE A == UNION {Brings(d, q) : q \in 1 .. r}
           B == UNION {Takes(q) : q \in 1 .. r}
<1>1. x \in A <=> \E p \in 1 .. r : x \in Brings(d, p)
  OBVIOUS
<1>2. x \in B <=> \E p \in 1 .. r : x \in Takes(p)
  OBVIOUS
<1>3. Items(d, r) = A \ B
  BY DEF Items
<1> HIDE DEF A, B
<1> QED BY <1>1, <1>2, <1>3

\* The upgrade to a revision and back.
LEMMA ItemsUpAndDown ==
  ASSUME NEW d, NEW q \in 1 .. 12
  PROVE  /\ Items(d, q) = (Items(d, q - 1) \ Takes(q)) \cup Brings(d, q)
         /\ Items(d, q - 1) = (Items(d, q) \ Brings(d, q)) \cup Takes(q)
         /\ Brings(d, q) \cap Takes(q) = {}
<1>1. 1 .. q = (1 .. q - 1) \cup {q} /\ 1 .. q - 1 \subseteq 1 .. 12 /\ q \notin 1 .. q - 1 /\ 1 .. q \subseteq 1 .. 12
  OBVIOUS
<1>2. ASSUME NEW x PROVE x \in Items(d, q) <=> /\ \/ x \in Brings(d, q) \/ \E p \in 1 .. q - 1 : x \in Brings(d, p)
                                               /\ x \notin Takes(q) /\ \A p \in 1 .. q - 1 : x \notin Takes(p)
  BY <1>1, ItemIs
<1>3. ASSUME NEW x PROVE x \in Items(d, q - 1) <=> /\ \E p \in 1 .. q - 1 : x \in Brings(d, p)
                                                   /\ \A p \in 1 .. q - 1 : x \notin Takes(p)
  BY ItemIs
<1>4. \A x \in Brings(d, q) : Since(x) = q /\ \A p \in 1 .. q - 1 : x \notin Brings(d, p)
  BY <1>1, Belongs
<1>5. ASSUME NEW x \in Brings(d, q), NEW p \in 1 .. q, x \in Takes(p) PROVE FALSE
  <2>1. Since(x) = 1 /\ p \in {7, 11}
    BY <1>1, <1>5, TakenIsOld
  <2>2. q = 1
    BY <1>4, <2>1
  <2> QED BY <2>1, <2>2
<1>6. ASSUME NEW x \in Takes(q) PROVE x \in Items(d, q - 1)
  <2>1. x \in Brings(d, 1) /\ q \in {7, 11} /\ \A p \in 1 .. q - 1 : x \notin Takes(p)
    BY <1>1, TakenIsOld
  <2>2. 1 \in 1 .. q - 1
    BY <2>1
  <2> QED BY <1>3, <2>1, <2>2
<1>7. Brings(d, q) \cap Takes(q) = {}
  BY <1>5
<1>8. \A x : x \in Items(d, q) <=> x \in (Items(d, q - 1) \ Takes(q)) \cup Brings(d, q)
  BY <1>1, <1>2, <1>3, <1>5
<1>9. \A x : x \in Items(d, q - 1) <=> x \in (Items(d, q) \ Brings(d, q)) \cup Takes(q)
  BY <1>2, <1>3, <1>4, <1>6
<1> QED BY <1>7, <1>8, <1>9

\* What the first k statements of a migration add and drop.
AddedBy(u, k) == UNION {u[i].add : i \in 1 .. k}
DroppedBy(u, k) == UNION {u[i].drop : i \in 1 .. k}
After(u, base, k) == (base \ DroppedBy(u, k)) \cup AddedBy(u, k)

\* Migration u adds A and drops D, all in all.
Shape(u, A, D) ==
  /\ Len(u) \in Nat /\ DOMAIN u = 1 .. Len(u)
  /\ AddedBy(u, Len(u)) = A /\ DroppedBy(u, Len(u)) = D

LEMMA NoStatement == Shape(<<>>, {}, {})
<1>1. Len(<<>>) = 0 /\ DOMAIN <<>> = {} /\ 1 .. 0 = {}
  OBVIOUS
<1> QED BY <1>1 DEF Shape, AddedBy, DroppedBy

LEMMA OneStatement ==
  ASSUME NEW a
  PROVE  Shape(<<a>>, a.add, a.drop)
<1>1. Len(<<a>>) = 1 /\ DOMAIN <<a>> = 1 .. 1 /\ <<a>>[1] = a /\ 1 .. 1 = {1}
  OBVIOUS
<1> QED BY <1>1 DEF Shape, AddedBy, DroppedBy

LEMMA TwoStatements ==
  ASSUME NEW a, NEW b
  PROVE  Shape(<<a, b>>, a.add \cup b.add, a.drop \cup b.drop)
<1>1. Len(<<a, b>>) = 2 /\ DOMAIN <<a, b>> = 1 .. 2 /\ <<a, b>>[1] = a /\ <<a, b>>[2] = b /\ 1 .. 2 = {1, 2}
  OBVIOUS
<1> QED BY <1>1 DEF Shape, AddedBy, DroppedBy

LEMMA ThreeStatements ==
  ASSUME NEW a, NEW b, NEW c
  PROVE  Shape(<<a, b, c>>, a.add \cup b.add \cup c.add, a.drop \cup b.drop \cup c.drop)
<1>1. Len(<<a, b, c>>) = 3 /\ DOMAIN <<a, b, c>> = 1 .. 3 /\ <<a, b, c>>[1] = a /\ <<a, b, c>>[2] = b
      /\ <<a, b, c>>[3] = c /\ 1 .. 3 = {1, 2, 3}
  OBVIOUS
<1> QED BY <1>1 DEF Shape, AddedBy, DroppedBy

LEMMA FiveStatements ==
  ASSUME NEW a, NEW b, NEW c, NEW d, NEW e
  PROVE  Shape(<<a, b, c, d, e>>, a.add \cup b.add \cup c.add \cup d.add \cup e.add,
               a.drop \cup b.drop \cup c.drop \cup d.drop \cup e.drop)
<1>1. PICK u : u = <<a, b, c, d, e>>
  OBVIOUS
<1>2. /\ Len(u) = 5 /\ DOMAIN u = 1 .. 5 /\ u[1] = a /\ u[2] = b /\ u[3] = c /\ u[4] = d /\ u[5] = e
      /\ 1 .. 5 = {1, 2, 3, 4, 5}
  BY <1>1
<1>3. Shape(u, a.add \cup b.add \cup c.add \cup d.add \cup e.add, a.drop \cup b.drop \cup c.drop \cup d.drop \cup e.drop)
  BY <1>2 DEF Shape, AddedBy, DroppedBy
<1> QED BY <1>1, <1>3

LEMMA SixStatements ==
  ASSUME NEW a, NEW b, NEW c, NEW d, NEW e, NEW g
  PROVE  Shape(<<a, b, c, d, e, g>>, a.add \cup b.add \cup c.add \cup d.add \cup e.add \cup g.add,
               a.drop \cup b.drop \cup c.drop \cup d.drop \cup e.drop \cup g.drop)
<1>1. PICK u : u = <<a, b, c, d, e, g>>
  OBVIOUS
<1>2. /\ Len(u) = 6 /\ DOMAIN u = 1 .. 6 /\ u[1] = a /\ u[2] = b /\ u[3] = c /\ u[4] = d /\ u[5] = e /\ u[6] = g
      /\ 1 .. 6 = {1, 2, 3, 4, 5, 6}
  BY <1>1
<1>3. Shape(u, a.add \cup b.add \cup c.add \cup d.add \cup e.add \cup g.add,
            a.drop \cup b.drop \cup c.drop \cup d.drop \cup e.drop \cup g.drop)
  BY <1>2 DEF Shape, AddedBy, DroppedBy
<1> QED BY <1>1, <1>3

LEMMA Joined ==
  ASSUME NEW a, NEW b
  PROVE  <<a>> \o <<b>> = <<a, b>>
<1>1. PICK s, t : s = <<a>> /\ t = <<b>>
  OBVIOUS
<1>2. s \in Seq({a, b}) /\ t \in Seq({a, b}) /\ Len(s) = 1 /\ Len(t) = 1 /\ s[1] = a /\ t[1] = b
  BY <1>1
<1>3. /\ s \o t \in Seq({a, b}) /\ Len(s \o t) = 2
      /\ \A i \in 1 .. 2 : (s \o t)[i] = IF i <= 1 THEN s[i] ELSE t[i - 1]
  BY <1>2, ConcatProperties
<1>4. <<a, b>> \in Seq({a, b}) /\ Len(<<a, b>>) = 2 /\ <<a, b>>[1] = a /\ <<a, b>>[2] = b /\ 1 .. 2 = {1, 2} /\ 2 - 1 = 1
  OBVIOUS
<1>5. \A i \in 1 .. 2 : (s \o t)[i] = <<a, b>>[i]
  BY <1>2, <1>3, <1>4
<1> QED BY <1>1, <1>3, <1>4, <1>5, SeqEqual

LEMMA UpEvidenceIs ==
  Upgrades(11) =
    <<DDL(Evidence, {}), DDL(RunClass, {}), Do("classify"), DDL(EpisodeClass, {}), Do("classify_episodes"),
      DDL(EvidenceColumns, {"replay_episodes.original_not_null"})>>
  BY DEF Upgrades, UpEvidence

LEMMA UpShape ==
  ASSUME NEW q \in 1 .. 12, dialect \in {"postgresql", "sqlite"}
  PROVE  Shape(Upgrades(q), Brings(dialect, q), Takes(q))
<1> DEFINE u == Upgrades(q)
<1> USE DEF DDL, Do
<1>1. CASE q = 1
  <2>1. u = <<DDL(Tenancy, {}), DDL(RunTables, {}), DDL(TraceTables, {})>>
    BY <1>1 DEF Upgrades, UpAuth
  <2>2. Shape(u, Tenancy \cup RunTables \cup TraceTables, {})
    BY <2>1, ThreeStatements
  <2> QED BY <1>1, <2>2 DEF Brings, Takes
<1>2. CASE q = 2
  <2>1. CASE dialect = "postgresql"
    <3>0. u = <<DDL(Durable, {})>> \o <<DDL({"rls"}, {})>>
      BY <1>2, <2>1 DEF Upgrades, UpDurable, OnPostgres
    <3>1. u = <<DDL(Durable, {}), DDL({"rls"}, {})>>
      BY <3>0, Joined
    <3>2. Shape(u, Durable \cup {"rls"}, {})
      BY <3>1, TwoStatements
    <3>3. Brings(dialect, q) = Durable \cup {"rls"} /\ Takes(q) = {}
      BY <1>2, <2>1 DEF Brings, Takes
    <3> QED BY <3>2, <3>3
  <2>2. CASE dialect = "sqlite"
    <3>1. u = <<DDL(Durable, {})>>
      BY <1>2, <2>2 DEF Upgrades, UpDurable, OnPostgres
    <3>2. Shape(u, Durable, {})
      BY <3>1, OneStatement
    <3>3. Brings(dialect, q) = Durable /\ Takes(q) = {}
      BY <1>2, <2>2 DEF Brings, Takes
    <3> QED BY <3>2, <3>3
  <2> QED BY <2>1, <2>2
<1>3. CASE q \in {3, 9, 10, 12}
  <2>1. u = <<DDL(Brings(dialect, q), {})>> /\ Takes(q) = {}
    <3>1. CASE q = 3
      BY <3>1 DEF Upgrades, Brings, Takes
    <3>2. CASE q = 9
      BY <3>2 DEF Upgrades, Brings, Takes
    <3>3. CASE q = 10
      BY <3>3 DEF Upgrades, Brings, Takes
    <3>4. CASE q = 12
      BY <3>4 DEF Upgrades, Brings, Takes
    <3> QED BY <1>3, <3>1, <3>2, <3>3, <3>4
  <2>2. Shape(u, Brings(dialect, q), {})
    BY <2>1, OneStatement
  <2> QED BY <2>1, <2>2
<1>6. CASE q = 6
  <2>1. u = <<DDL(ManifestColumns, {}), Do("fill"), Do("require")>> /\ Brings(dialect, q) = ManifestColumns /\ Takes(q) = {}
    BY <1>6 DEF Upgrades, UpManifest, Brings, Takes
  <2>2. Shape(u, ManifestColumns, {})
    BY <2>1, ThreeStatements
  <2> QED BY <2>1, <2>2
<1>7. CASE q = 7
  <2>1. u = <<DDL({"span_records.uq_tenant_span"}, {"span_records.uq_span_id"})>>
    BY <1>7 DEF Upgrades, UpSpans
  <2>2. Shape(u, {"span_records.uq_tenant_span"}, {"span_records.uq_span_id"})
    BY <2>1, OneStatement
  <2> QED BY <1>7, <2>2 DEF Brings, Takes
<1>8. CASE q = 8
  <2>1. CASE dialect = "postgresql"
    <3>1. u = <<DDL({"jsonb"}, {})>> /\ Brings(dialect, q) = {"jsonb"} /\ Takes(q) = {}
      BY <1>8, <2>1 DEF Upgrades, UpJsonb, OnPostgres, Brings, Takes
    <3>2. Shape(u, {"jsonb"}, {})
      BY <3>1, OneStatement
    <3> QED BY <3>1, <3>2
  <2>2. CASE dialect = "sqlite"
    <3>1. u = <<>> /\ Brings(dialect, q) = {} /\ Takes(q) = {}
      BY <1>8, <2>2 DEF Upgrades, UpJsonb, OnPostgres, Brings, Takes
    <3> QED BY <3>1, NoStatement
  <2> QED BY <2>1, <2>2
<1>11. CASE q = 11
  <2>1. u = <<DDL(Evidence, {}), DDL(RunClass, {}), Do("classify"), DDL(EpisodeClass, {}), Do("classify_episodes"),
              DDL(EvidenceColumns, {"replay_episodes.original_not_null"})>>
    BY <1>11, UpEvidenceIs
  <2>2. Shape(u, Evidence \cup RunClass \cup EpisodeClass \cup EvidenceColumns, {"replay_episodes.original_not_null"})
    BY <2>1, SixStatements
  <2>3. ClassColumns = RunClass \cup EpisodeClass
    BY DEF ClassColumns, RunClass, EpisodeClass
  <2>4. Brings(dialect, q) = Evidence \cup RunClass \cup EpisodeClass \cup EvidenceColumns
    BY <1>11, <2>3 DEF Brings
  <2> QED BY <1>11, <2>2, <2>4 DEF Takes
<1>13. CASE q \in {4, 5}
  <2>1. u = <<>> /\ Brings(dialect, q) = {} /\ Takes(q) = {}
    BY <1>13 DEF Upgrades, Brings, Takes
  <2> QED BY <2>1, NoStatement
<1> QED BY <1>1, <1>2, <1>3, <1>6, <1>7, <1>8, <1>11, <1>13

LEMMA DownShape ==
  ASSUME NEW q \in 1 .. 12, dialect \in {"postgresql", "sqlite"}
  PROVE  Shape(Downgrades(q), Takes(q), Brings(dialect, q))
<1> DEFINE u == Downgrades(q)
<1> USE DEF DDL, Do
<1>1. CASE q = 1
  <2>1. u = <<DDL({}, TraceTables), DDL({}, RunTables), DDL({}, Tenancy)>>
    BY <1>1 DEF Downgrades, DownAuth
  <2>2. Shape(u, {}, TraceTables \cup RunTables \cup Tenancy)
    BY <2>1, ThreeStatements
  <2>3. Brings(dialect, q) = TraceTables \cup RunTables \cup Tenancy /\ Takes(q) = {}
    BY <1>1 DEF Brings, Takes
  <2> QED BY <2>2, <2>3
<1>2. CASE q = 2
  <2>1. CASE dialect = "postgresql"
    <3>0. u = <<DDL({}, {"rls"})>> \o <<DDL({}, Durable)>>
      BY <1>2, <2>1 DEF Downgrades, DownDurable, OnPostgres
    <3>1. u = <<DDL({}, {"rls"}), DDL({}, Durable)>>
      BY <3>0, Joined
    <3>2. Shape(u, {}, {"rls"} \cup Durable)
      BY <3>1, TwoStatements
    <3>3. Brings(dialect, q) = {"rls"} \cup Durable /\ Takes(q) = {}
      BY <1>2, <2>1 DEF Brings, Takes
    <3> QED BY <3>2, <3>3
  <2>2. CASE dialect = "sqlite"
    <3>1. u = <<DDL({}, Durable)>>
      BY <1>2, <2>2 DEF Downgrades, DownDurable, OnPostgres
    <3>2. Shape(u, {}, Durable)
      BY <3>1, OneStatement
    <3>3. Brings(dialect, q) = Durable /\ Takes(q) = {}
      BY <1>2, <2>2 DEF Brings, Takes
    <3> QED BY <3>2, <3>3
  <2> QED BY <2>1, <2>2
<1>3. CASE q \in {3, 6, 9, 10, 12}
  <2>1. u = <<DDL({}, Brings(dialect, q))>> /\ Takes(q) = {}
    <3>1. CASE q = 3
      BY <3>1 DEF Downgrades, Brings, Takes
    <3>2. CASE q = 6
      BY <3>2 DEF Downgrades, Brings, Takes
    <3>3. CASE q = 9
      BY <3>3 DEF Downgrades, Brings, Takes
    <3>4. CASE q = 10
      BY <3>4 DEF Downgrades, Brings, Takes
    <3>5. CASE q = 12
      BY <3>5 DEF Downgrades, Brings, Takes
    <3> QED BY <1>3, <3>1, <3>2, <3>3, <3>4, <3>5
  <2>2. Shape(u, {}, Brings(dialect, q))
    BY <2>1, OneStatement
  <2> QED BY <2>1, <2>2
<1>7. CASE q = 7
  <2>1. u = <<[DDL({"span_records.uq_span_id"}, {"span_records.uq_tenant_span"}) EXCEPT !.do = "unique"]>>
    BY <1>7 DEF Downgrades, DownSpans
  <2>2. Shape(u, {"span_records.uq_span_id"}, {"span_records.uq_tenant_span"})
    BY <2>1, OneStatement
  <2> QED BY <1>7, <2>2 DEF Brings, Takes
<1>8. CASE q = 8
  <2>1. CASE dialect = "postgresql"
    <3>1. u = <<DDL({}, {"jsonb"})>> /\ Brings(dialect, q) = {"jsonb"} /\ Takes(q) = {}
      BY <1>8, <2>1 DEF Downgrades, OnPostgres, Brings, Takes
    <3>2. Shape(u, {}, {"jsonb"})
      BY <3>1, OneStatement
    <3> QED BY <3>1, <3>2
  <2>2. CASE dialect = "sqlite"
    <3>1. u = <<>> /\ Brings(dialect, q) = {} /\ Takes(q) = {}
      BY <1>8, <2>2 DEF Downgrades, OnPostgres, Brings, Takes
    <3> QED BY <3>1, NoStatement
  <2> QED BY <2>1, <2>2
<1>11. CASE q = 11
  <2>1. u = <<Do("refuse"), DDL({}, OtherColumns),
              DDL({"replay_episodes.original_not_null"}, {"replay_episodes.replay_mode"} \cup EpisodeClass),
              DDL({}, RunClass), DDL({}, Evidence)>>
    BY <1>11 DEF Downgrades, DownEvidence
  <2>2. Shape(u, {"replay_episodes.original_not_null"},
              OtherColumns \cup {"replay_episodes.replay_mode"} \cup EpisodeClass \cup RunClass \cup Evidence)
    BY <2>1, FiveStatements
  <2>3. /\ ClassColumns = RunClass \cup EpisodeClass
        /\ EvidenceColumns = OtherColumns \cup {"replay_episodes.replay_mode"}
    BY DEF ClassColumns, RunClass, EpisodeClass, EvidenceColumns, OtherColumns
  <2>4. Brings(dialect, q) = OtherColumns \cup {"replay_episodes.replay_mode"} \cup EpisodeClass \cup RunClass \cup Evidence
    BY <1>11, <2>3 DEF Brings
  <2> QED BY <1>11, <2>2, <2>4 DEF Takes
<1>13. CASE q \in {4, 5}
  <2>1. u = <<>> /\ Brings(dialect, q) = {} /\ Takes(q) = {}
    BY <1>13 DEF Downgrades, Brings, Takes
  <2> QED BY <2>1, NoStatement
<1> QED BY <1>1, <1>2, <1>3, <1>7, <1>8, <1>11, <1>13

\* One statement of a migration.
LEMMA StatementShape ==
  ASSUME NEW u, NEW A, NEW D, Shape(u, A, D), NEW k \in 1 .. Len(u)
  PROVE  u[k].add \subseteq A /\ u[k].drop \subseteq D
  BY DEF Shape, AddedBy, DroppedBy

LEMMA StatementAfter ==
  ASSUME NEW u, NEW A, NEW D, NEW base, Shape(u, A, D), A \cap D = {}, NEW k \in 1 .. Len(u)
  PROVE  After(u, base, k) = (After(u, base, k - 1) \ u[k].drop) \cup u[k].add
<1>0. Len(u) \in Nat /\ AddedBy(u, Len(u)) = A /\ DroppedBy(u, Len(u)) = D
  BY DEF Shape
<1>1. 1 .. k = (1 .. k - 1) \cup {k} /\ 1 .. k - 1 \subseteq 1 .. Len(u)
  BY <1>0
<1>2. AddedBy(u, k) = AddedBy(u, k - 1) \cup u[k].add /\ DroppedBy(u, k) = DroppedBy(u, k - 1) \cup u[k].drop
  BY <1>1 DEF AddedBy, DroppedBy
<1>3. AddedBy(u, k - 1) \subseteq A /\ u[k].drop \subseteq D
  BY <1>0, <1>1 DEF AddedBy, DroppedBy
<1> QED BY <1>2, <1>3 DEF After

LEMMA AfterNothing ==
  ASSUME NEW u, NEW base
  PROVE  After(u, base, 0) = base
<1>1. 1 .. 0 = {}
  OBVIOUS
<1>2. AddedBy(u, 0) = {} /\ DroppedBy(u, 0) = {}
  BY <1>1 DEF AddedBy, DroppedBy
<1> QED BY <1>2 DEF After

\* The statements the rows depend on.
LEMMA EvidenceStatements ==
  /\ Upgrades(11)[3].do = "classify" /\ Upgrades(11)[1].add = Evidence
  /\ \A k \in 1 .. 6 : "request_runs.evidence_class" \in Upgrades(11)[k].add => k = 2
  /\ Len(Upgrades(11)) = 6
  /\ Downgrades(11)[1].do = "refuse" /\ Downgrades(11)[1].drop = {}
<1>1. PICK u : u = Upgrades(11)
  OBVIOUS
<1>2. u = <<DDL(Evidence, {}), DDL(RunClass, {}), Do("classify"), DDL(EpisodeClass, {}), Do("classify_episodes"),
            DDL(EvidenceColumns, {"replay_episodes.original_not_null"})>>
  BY <1>1, UpEvidenceIs
<1>3. /\ Len(u) = 6 /\ u[1].add = Evidence /\ u[3].do = "classify"
      /\ u[3].add = {} /\ u[4].add = EpisodeClass /\ u[5].add = {} /\ u[6].add = EvidenceColumns
  BY <1>2 DEF DDL, Do
<1>4. \A k \in 1 .. 6 : k = 1 \/ k = 2 \/ k = 3 \/ k = 4 \/ k = 5 \/ k = 6
  OBVIOUS
<1>5. /\ "request_runs.evidence_class" \notin Evidence /\ "request_runs.evidence_class" \notin EpisodeClass
      /\ "request_runs.evidence_class" \notin EvidenceColumns
  BY DEF Evidence, EpisodeClass, EvidenceColumns
<1>6. \A k \in 1 .. 6 : "request_runs.evidence_class" \in u[k].add => k = 2
  BY <1>3, <1>4, <1>5
<1>7. Downgrades(11)[1] = Do("refuse")
  BY DEF Downgrades, DownEvidence
<1> QED BY <1>1, <1>3, <1>6, <1>7 DEF Do

\* The upgrade of a revision begins with something new, or is empty.
LEMMA FirstStatement ==
  ASSUME NEW q \in 1 .. 12, dialect \in {"postgresql", "sqlite"}
  PROVE  Upgrades(q) = <<>> \/ (Upgrades(q)[1].add # {} /\ \A p \in 1 .. 12 : Upgrades(q)[1].add \cap Takes(p) = {})
<1> USE DEF DDL, Do
<1>0. \A p \in 1 .. 12 : Takes(p) \subseteq {"span_records.uq_span_id", "replay_episodes.original_not_null"}
  BY DEF Takes
<1>1. CASE q = 1
  <2>1. Upgrades(q)[1].add = Tenancy
    BY <1>1 DEF Upgrades, UpAuth
  <2> QED BY <1>0, <2>1 DEF Tenancy
<1>2. CASE q = 2
  <2>1. Upgrades(q)[1].add = Durable
    <3>1. CASE dialect = "postgresql"
      <4>1. Upgrades(q) = <<DDL(Durable, {})>> \o <<DDL({"rls"}, {})>>
        BY <1>2, <3>1 DEF Upgrades, UpDurable, OnPostgres
      <4>2. Upgrades(q) = <<DDL(Durable, {}), DDL({"rls"}, {})>>
        BY <4>1, Joined
      <4> QED BY <4>2
    <3>2. CASE dialect = "sqlite"
      <4>1. Upgrades(q) = <<DDL(Durable, {})>>
        BY <1>2, <3>2 DEF Upgrades, UpDurable, OnPostgres
      <4> QED BY <4>1
    <3> QED BY <3>1, <3>2
  <2> QED BY <1>0, <2>1 DEF Durable
<1>3. CASE q = 3
  BY <1>0, <1>3 DEF Upgrades, Certificates
<1>6. CASE q = 6
  BY <1>0, <1>6 DEF Upgrades, UpManifest, ManifestColumns
<1>7. CASE q = 7
  BY <1>0, <1>7 DEF Upgrades, UpSpans
<1>8. CASE q = 8
  BY <1>0, <1>8 DEF Upgrades, UpJsonb, OnPostgres
<1>9. CASE q = 9
  BY <1>0, <1>9 DEF Upgrades, Restored
<1>10. CASE q = 10
  BY <1>0, <1>10 DEF Upgrades, ReceiptLink
<1>11. CASE q = 11
  BY <1>0, <1>11, EvidenceStatements DEF Evidence
<1>12. CASE q = 12
  BY <1>0, <1>12 DEF Upgrades, Admission
<1>13. CASE q \in {4, 5}
  BY <1>13 DEF Upgrades
<1> QED BY <1>1, <1>2, <1>3, <1>6, <1>7, <1>8, <1>9, <1>10, <1>11, <1>12, <1>13

\* The upgrades alone lead to the items of a revision.
LEMMA SchemaAtIs ==
  ASSUME dialect \in {"postgresql", "sqlite"}, NEW r \in 0 .. 12
  PROVE  SchemaAt[r] = Items(dialect, r)
<1> DEFINE Drop(u) == UNION {u[i].drop : i \in DOMAIN u}
           Gain(u) == UNION {u[i].add : i \in DOMAIN u}
           f == [p \in 0 .. 12 |-> Items(dialect, p)]
<1>1. \A p \in 1 .. 12 : Drop(Upgrades(p)) = Takes(p) /\ Gain(Upgrades(p)) = Brings(dialect, p)
  BY UpShape DEF Shape, AddedBy, DroppedBy
<1> HIDE DEF Drop, Gain
<1>2. Items(dialect, 0) = {}
  <2>1. 1 .. 0 = {}
    OBVIOUS
  <2> QED BY <2>1 DEF Items
<1>3. \A p \in 1 .. 12 : Items(dialect, p) = (Items(dialect, p - 1) \ Drop(Upgrades(p))) \cup Gain(Upgrades(p))
  BY <1>1, ItemsUpAndDown
<1>4. f = [p \in 0 .. 12 |-> IF p = 0 THEN {} ELSE (f[p - 1] \ Drop(Upgrades(p))) \cup Gain(Upgrades(p))]
  <2>1. \A p \in 0 .. 12 : p # 0 => p \in 1 .. 12 /\ p - 1 \in 0 .. 12
    OBVIOUS
  <2> QED BY <1>2, <1>3, <2>1
<1>5. SchemaAt = CHOOSE g : g = [p \in 0 .. 12 |-> IF p = 0 THEN {} ELSE (g[p - 1] \ Drop(Upgrades(p))) \cup Gain(Upgrades(p))]
  BY DEF SchemaAt, HeadRevision, Drop, Gain
<1>6. SchemaAt = [p \in 0 .. 12 |-> IF p = 0 THEN {} ELSE (SchemaAt[p - 1] \ Drop(Upgrades(p))) \cup Gain(Upgrades(p))]
  BY <1>4, <1>5
<1> DEFINE S == {p \in 0 .. 12 : SchemaAt[p] = Items(dialect, p)}
<1>7. 0 \in S
  BY <1>2, <1>6
<1>8. ASSUME NEW p \in 0 .. 12 - 1, p \in S PROVE p + 1 \in S
  <2>1. p + 1 \in 1 .. 12 /\ p + 1 # 0 /\ (p + 1) - 1 = p /\ p + 1 \in 0 .. 12
    OBVIOUS
  <2>2. SchemaAt[p + 1] = (SchemaAt[p] \ Drop(Upgrades(p + 1))) \cup Gain(Upgrades(p + 1))
    BY <1>6, <2>1
  <2>3. Items(dialect, p + 1) = (Items(dialect, p) \ Drop(Upgrades(p + 1))) \cup Gain(Upgrades(p + 1))
    BY <1>3, <2>1
  <2> QED BY <1>8, <2>1, <2>2, <2>3
<1>9. 0 .. 12 \subseteq S
  <2> HIDE DEF S
  <2> QED BY <1>7, <1>8, UpTo
<1> QED BY <1>9

\* The items of the head revision are those of the models.
LEMMA HeadIsModels ==
  ASSUME dialect \in {"postgresql", "sqlite"}
  PROVE  Items(dialect, 12) \ {"rls"} = ModelItems
<1> DEFINE All == Tenancy \cup RunTables \cup TraceTables \cup Durable \cup {x \in {"rls"} : dialect = "postgresql"}
                  \cup Certificates \cup ManifestColumns \cup {"span_records.uq_tenant_span"}
                  \cup {x \in {"jsonb"} : dialect = "postgresql"} \cup Restored \cup ReceiptLink
                  \cup Evidence \cup ClassColumns \cup EvidenceColumns \cup Admission
<1>1. 1 .. 12 = {1, 2, 3, 4, 5, 6, 7, 8, 9, 10, 11, 12}
  OBVIOUS
<1>2. ASSUME NEW x PROVE (\E p \in 1 .. 12 : x \in Brings(dialect, p)) <=> x \in All
  BY <1>1 DEF Brings
<1>3. ASSUME NEW x PROVE (\E p \in 1 .. 12 : x \in Takes(p)) <=>
                         x \in {"span_records.uq_span_id", "replay_episodes.original_not_null"}
  BY <1>1 DEF Takes
<1>4. Items(dialect, 12) = All \ {"span_records.uq_span_id", "replay_episodes.original_not_null"}
  BY <1>2, <1>3, ItemIs
<1>5. ASSUME NEW x, x \in Items(dialect, 12), x # "rls" PROVE x \in ModelItems
  BY <1>4, <1>5 DEF ModelItems, TenancyModels, RunModels, TraceModels, ReplayModels, ManifestModels, StateModels, CertificateModels,
     IngestionModels, OtherModels, AdmissionModels, Tenancy, RunTables, TraceTables, Durable, Certificates,
     ManifestColumns, Restored, ReceiptLink, Evidence, ClassColumns, EvidenceColumns, Admission
<1>6. ASSUME NEW x \in ModelItems PROVE x \in Items(dialect, 12) /\ x # "rls"
  BY <1>4 DEF ModelItems, TenancyModels, RunModels, TraceModels, ReplayModels, ManifestModels, StateModels, CertificateModels,
     IngestionModels, OtherModels, AdmissionModels, Tenancy, RunTables, TraceTables, Durable, Certificates,
     ManifestColumns, Restored, ReceiptLink, Evidence, ClassColumns, EvidenceColumns, Admission
<1> QED BY <1>5, <1>6
SMTypes ==
  /\ dialect \in {"postgresql", "sqlite"} /\ revision \in 0 .. 12 /\ target \in 0 .. 12
  /\ command \in {"idle", "up", "down"}
  /\ command = "up" => target = 12
  /\ command = "down" => target <= revision
  /\ command # "idle" =>
       /\ stmt \in 1 .. Len(Migration) + 1 /\ (revision = target => stmt = 1)
       /\ begun.revision \in 0 .. 12 /\ (dialect = "sqlite" => begun.revision = revision)
  /\ dialect = "postgresql" => broken = {} /\ createdAll = FALSE

\* The database follows the migrations statement by statement.
Clean ==
  /\ broken = {} /\ createdAll = FALSE
  /\ command = "idle" => schema = Items(dialect, revision)
  /\ command # "idle" => /\ schema = After(Migration, Items(dialect, revision), stmt - 1)
                         /\ begun.schema = Items(dialect, begun.revision)

\* The upgrade to revision q cannot begin.
Bars(q) ==
  /\ Len(Upgrades(q)) # 0 /\ Upgrades(q)[1].add \subseteq schema
  /\ command # "idle" => Upgrades(q)[1].add \subseteq begun.schema
  /\ command = "up" /\ revision + 1 = q => stmt = 1
Stuck ==
  /\ dialect = "sqlite" /\ (createdAll = TRUE \/ "up" \in broken)
  /\ \E q \in revision + 1 .. 12 : Bars(q)

SchemaInv == SMTypes /\ ("down" \in broken \/ Clean \/ Stuck)

\* The rows that came after the downgrade had counted them are known to be late.
EvidenceInv ==
  /\ evidenceRows # "lost"
  /\ command = "down" /\ revision = 11 /\ stmt > 1 /\ evidenceRows = "kept" => late = TRUE

\* A run's class; between the statement that adds the column and the one that
\* fills it every run is unverified.
RunShape(r) ==
  /\ r \in [origin : {"none", "synthetic", "real"}, legacy : BOOLEAN,
            class : {"none", "UNVERIFIED"} \cup SyntheticClass \cup RealClass]
  /\ r.class \in RealClass => r.origin = "real"
  /\ r.origin = "synthetic" => r.legacy = TRUE
Classed(r) == r.origin = "synthetic" /\ r.class # "none" => r.class \in SyntheticClass
RunInv ==
  broken = {} =>
    /\ RunShape(runRow)
    /\ Classed(runRow) \/ (command = "up" /\ revision = 10 /\ stmt = 3)
    /\ command # "idle" => RunShape(begun.run) /\ Classed(begun.run)

MigrationInv == SchemaInv /\ EvidenceInv /\ RunInv

LEMMA MigrationInvHolds ==
  ASSUME MigrationInv
  PROVE  EvidenceSurvives
<1>0. dialect \in {"postgresql", "sqlite"} /\ revision \in 0 .. 12
  BY DEF MigrationInv, SchemaInv, SMTypes
<1>1. SchemaIsRevision
  <2> SUFFICES ASSUME command = "idle", broken = {}, ~createdAll PROVE schema = SchemaAt[revision]
    BY DEF SchemaIsRevision
  <2>1. Clean
    BY DEF MigrationInv, SchemaInv, Stuck
  <2> QED BY <1>0, <2>1, SchemaAtIs DEF Clean
<1>2. HeadServesModels
  <2> SUFFICES ASSUME command = "idle", revision = 12, "down" \notin broken PROVE schema \ {"rls"} = ModelItems
    BY DEF HeadServesModels, HeadRevision
  <2>1. ~Stuck
    <3>1. revision + 1 .. 12 = {}
      OBVIOUS
    <3> QED BY <3>1 DEF Stuck
  <2>2. Clean
    BY <2>1 DEF MigrationInv, SchemaInv
  <2> QED BY <1>0, <2>2, HeadIsModels DEF Clean
<1>3. EvidenceIsNotDropped
  BY DEF MigrationInv, EvidenceInv, EvidenceIsNotDropped
<1>4. SyntheticStaysSynthetic
  BY DEF MigrationInv, RunInv, SyntheticStaysSynthetic, RunShape, Classed
<1> QED BY <1>1, <1>2, <1>3, <1>4 DEF EvidenceSurvives

LEMMA SMInitInv ==
  ASSUME SMInit
  PROVE  MigrationInv
<1>1. Items(dialect, 0) = {}
  <2>1. 1 .. 0 = {}
    OBVIOUS
  <2> QED BY <2>1 DEF Items
<1>2. SMTypes
  BY DEF SMInit, SMTypes
<1>3. Clean
  BY <1>1 DEF SMInit, Clean
<1>4. EvidenceInv
  BY DEF SMInit, EvidenceInv
<1>5. RunShape(NoRun) /\ Classed(NoRun)
  BY DEF NoRun, RunShape, Classed, SyntheticClass, RealClass
<1>6. RunInv
  BY <1>5 DEF SMInit, RunInv
<1> QED BY <1>2, <1>3, <1>4, <1>6 DEF MigrationInv, SchemaInv

\* The migrations of a dialect do not change.
LEMMA SameMigrations ==
  ASSUME dialect' = dialect
  PROVE  /\ \A q : Upgrades(q)' = Upgrades(q) /\ Downgrades(q)' = Downgrades(q)
         /\ UNCHANGED <<command, revision>> => Migration' = Migration
<1>1. OnPostgres(<<DDL({"rls"}, {})>>)' = OnPostgres(<<DDL({"rls"}, {})>>)
      /\ OnPostgres(<<DDL({"jsonb"}, {})>>)' = OnPostgres(<<DDL({"jsonb"}, {})>>)
      /\ OnPostgres(<<DDL({}, {"rls"})>>)' = OnPostgres(<<DDL({}, {"rls"})>>)
      /\ OnPostgres(<<DDL({}, {"jsonb"})>>)' = OnPostgres(<<DDL({}, {"jsonb"})>>)
  BY DEF OnPostgres
<1>2. UpDurable' = UpDurable /\ UpJsonb' = UpJsonb /\ DownDurable' = DownDurable
  BY <1>1 DEF UpDurable, UpJsonb, DownDurable
<1>3. ASSUME NEW q PROVE Upgrades(q)' = Upgrades(q)
  BY <1>1, <1>2 DEF Upgrades
<1>4. ASSUME NEW q PROVE Downgrades(q)' = Downgrades(q)
  BY <1>1, <1>2 DEF Downgrades
<1> QED BY <1>3, <1>4 DEF Migration
\* The migration a command is in.
LEMMA InMigration ==
  ASSUME SMTypes, command # "idle", revision # target
  PROVE  \/ /\ command = "up" /\ revision + 1 \in 1 .. 12 /\ Migration = Upgrades(revision + 1)
            /\ Shape(Migration, Brings(dialect, revision + 1), Takes(revision + 1))
         \/ /\ command = "down" /\ revision \in 1 .. 12 /\ Migration = Downgrades(revision)
            /\ Shape(Migration, Takes(revision), Brings(dialect, revision))
<1>1. CASE command = "up"
  <2>1. revision + 1 \in 1 .. 12 /\ Migration = Upgrades(revision + 1) /\ dialect \in {"postgresql", "sqlite"}
    BY <1>1 DEF SMTypes, Migration
  <2> QED BY <1>1, <2>1, UpShape
<1>2. CASE command = "down"
  <2>1. revision \in 1 .. 12 /\ Migration = Downgrades(revision) /\ dialect \in {"postgresql", "sqlite"}
    BY <1>2 DEF SMTypes, Migration
  <2> QED BY <1>2, <2>1, DownShape
<1> QED BY <1>1, <1>2 DEF SMTypes

\* A migration leaves alone what bars a later upgrade.
LEMMA BarStays ==
  ASSUME SMTypes, command # "idle", revision # target, stmt \in 1 .. Len(Migration),
         NEW q \in revision + 1 .. 12, Bars(q), Applies(Statement)
  PROVE  /\ ~(command = "up" /\ revision + 1 = q)
         /\ Upgrades(q)[1].add \cap Statement.drop = {}
<1>0. /\ dialect \in {"postgresql", "sqlite"} /\ q \in 1 .. 12 /\ revision \in 0 .. 12
      /\ Len(Upgrades(q)) # 0
  BY DEF SMTypes, Bars
<1>1. /\ Upgrades(q)[1].add # {} /\ (\A p \in 1 .. 12 : Upgrades(q)[1].add \cap Takes(p) = {})
  <2>1. Upgrades(q) # <<>>
    <3>1. Len(<<>>) = 0
      OBVIOUS
    <3> QED BY <1>0, <3>1
  <2> QED BY <1>0, <2>1, FirstStatement
<1>2. CASE command = "up"
  <2>1. /\ revision + 1 \in 1 .. 12 /\ Migration = Upgrades(revision + 1)
        /\ Shape(Migration, Brings(dialect, revision + 1), Takes(revision + 1))
    BY <1>2, InMigration
  <2>2. Statement.drop \subseteq Takes(revision + 1)
    <3>1. Brings(dialect, revision + 1) \cap Takes(revision + 1) = {}
      BY <2>1, ItemsUpAndDown
    <3> QED BY <2>1, <3>1, StatementShape DEF Statement
  <2>3. ~(revision + 1 = q)
    <3> SUFFICES ASSUME revision + 1 = q PROVE FALSE
      OBVIOUS
    <3>1. stmt = 1 /\ Upgrades(q)[1].add \subseteq schema
      BY <1>2 DEF Bars
    <3>2. Statement = Upgrades(q)[1]
      BY <2>1, <3>1 DEF Statement
    <3> QED BY <1>1, <3>1, <3>2 DEF Applies
  <2> QED BY <1>1, <2>1, <2>2, <2>3
<1>3. CASE command = "down"
  <2>1. /\ revision \in 1 .. 12 /\ Shape(Migration, Takes(revision), Brings(dialect, revision))
    BY <1>3, InMigration
  <2>2. Statement.drop \subseteq Brings(dialect, revision)
    <3>1. Takes(revision) \cap Brings(dialect, revision) = {}
      BY <2>1, ItemsUpAndDown
    <3> QED BY <2>1, <3>1, StatementShape DEF Statement
  <2>3. Upgrades(q)[1].add \subseteq Brings(dialect, q)
    <3>1. Shape(Upgrades(q), Brings(dialect, q), Takes(q)) /\ Brings(dialect, q) \cap Takes(q) = {}
      BY <1>0, UpShape, ItemsUpAndDown
    <3>2. 1 \in 1 .. Len(Upgrades(q))
      <4>1. Len(Upgrades(q)) \in Nat /\ DOMAIN Upgrades(q) = 1 .. Len(Upgrades(q))
        BY <3>1 DEF Shape
      <4> QED BY <1>0, <4>1
    <3> QED BY <3>1, <3>2, StatementShape
  <2>4. \A x \in Brings(dialect, q) : x \notin Brings(dialect, revision)
    <3>1. q # revision
      BY <1>0
    <3> QED BY <1>0, <2>1, <3>1, Belongs
  <2> QED BY <1>3, <2>2, <2>3, <2>4
<1> QED BY <1>2, <1>3 DEF SMTypes

LEMMA StatementRuns ==
  ASSUME SchemaInv, RunStatement
  PROVE  SchemaInv'
<1>0. /\ command # "idle" /\ revision # target /\ stmt <= Len(Migration) /\ Applies(Statement)
      /\ schema' = (schema \ Statement.drop) \cup Statement.add /\ stmt' = stmt + 1
      /\ UNCHANGED <<dialect, revision, command, target, begun, broken, createdAll>> /\ SMTypes
  BY DEF RunStatement, SchemaInv
<1>1. Migration' = Migration /\ (\A q : Upgrades(q)' = Upgrades(q))
  BY <1>0, SameMigrations
<1>2. PICK n : n = Len(Migration)
  OBVIOUS
<1>3. n \in Nat /\ stmt \in 1 .. n /\ stmt' \in 1 .. n + 1 /\ stmt' - 1 = stmt
  <2>1. n \in Nat
    BY <1>0, <1>2, InMigration DEF Shape
  <2> QED BY <1>0, <1>2, <2>1 DEF SMTypes
<1>4. SMTypes'
  BY <1>0, <1>1, <1>2, <1>3 DEF SMTypes
<1>5. ASSUME Clean PROVE Clean'
  <2>1. After(Migration, Items(dialect, revision), stmt) = (schema \ Statement.drop) \cup Statement.add
    <3>1. schema = After(Migration, Items(dialect, revision), stmt - 1)
      BY <1>0, <1>5 DEF Clean
    <3>2. PICK A, D : Shape(Migration, A, D) /\ A \cap D = {}
      BY <1>0, InMigration, ItemsUpAndDown
    <3>3. stmt \in 1 .. Len(Migration)
      BY <1>2, <1>3
    <3> QED BY <3>1, <3>2, <3>3, StatementAfter DEF Statement
  <2> QED BY <1>0, <1>1, <1>3, <1>5, <2>1 DEF Clean
<1>6. ASSUME Stuck PROVE Stuck'
  <2>1. PICK q \in revision + 1 .. 12 : Bars(q)
    BY <1>6 DEF Stuck
  <2>2. ~(command = "up" /\ revision + 1 = q) /\ Upgrades(q)[1].add \cap Statement.drop = {}
    BY <1>0, <1>2, <1>3, <2>1, BarStays
  <2>3. Bars(q)'
    BY <1>0, <1>1, <2>1, <2>2 DEF Bars
  <2> QED BY <1>0, <1>6, <2>3 DEF Stuck
<1> QED BY <1>0, <1>4, <1>5, <1>6 DEF SchemaInv
\* Whatever a command does next has a length.
LEMMA MigrationLength ==
  ASSUME dialect' \in {"postgresql", "sqlite"}, revision' \in 0 .. 12, command' \in {"up", "down"}, dialect' = dialect
  PROVE  Len(Migration') \in Nat
<1>0. \A q : Upgrades(q)' = Upgrades(q) /\ Downgrades(q)' = Downgrades(q)
  BY SameMigrations
<1>1. PICK v : v = revision'
  OBVIOUS
<1>2. Migration' = IF command' = "up" THEN Upgrades(v + 1) ELSE Downgrades(v)
  BY <1>0, <1>1 DEF Migration
<1>3. Upgrades(13) = <<>> /\ Downgrades(0) = <<>> /\ Len(<<>>) = 0
  BY DEF Upgrades, Downgrades
<1>4. CASE v \in 1 .. 11
  <2>1. v \in 1 .. 12 /\ v + 1 \in 1 .. 12
    BY <1>4
  <2> QED BY <1>2, <2>1, UpShape, DownShape DEF Shape
<1>5. CASE v = 0
  <2>1. v + 1 = 1 /\ 1 \in 1 .. 12
    BY <1>5
  <2> QED BY <1>2, <1>3, <1>5, <2>1, UpShape DEF Shape
<1>6. CASE v = 12
  <2>1. v + 1 = 13 /\ 12 \in 1 .. 12
    BY <1>6
  <2> QED BY <1>2, <1>3, <1>6, <2>1, DownShape DEF Shape
<1> QED BY <1>1, <1>4, <1>5, <1>6

LEMMA CommandBegins ==
  ASSUME SchemaInv, BeginCommand
  PROVE  SchemaInv'
<1>0. /\ command = "idle" /\ stmt' = 1 /\ begun' = Savepoint /\ SMTypes
      /\ UNCHANGED <<dialect, schema, revision, broken, createdAll>>
      /\ \/ revision < 12 /\ command' = "up" /\ target' = 12
         \/ revision > 0 /\ command' = "down" /\ target' \in {revision - 1, 0}
  BY DEF BeginCommand, SchemaInv, HeadRevision
<1>1. begun'.schema = schema /\ begun'.revision = revision
  BY <1>0 DEF Savepoint
<1>2. \A q : Upgrades(q)' = Upgrades(q)
  BY <1>0, SameMigrations
<1>3. SMTypes'
  <2>1. revision \in 0 .. 12 /\ target' \in 0 .. 12 /\ revision # target' /\ (command' = "down" => target' <= revision)
    BY <1>0 DEF SMTypes
  <2>2. Len(Migration') \in Nat
    BY <1>0, <2>1, MigrationLength DEF SMTypes
  <2>3. stmt' \in 1 .. Len(Migration') + 1
    BY <1>0, <2>2
  <2> QED BY <1>0, <1>1, <2>1, <2>3 DEF SMTypes
<1>4. ASSUME Clean PROVE Clean'
  BY <1>0, <1>1, <1>4, AfterNothing DEF Clean
<1>5. ASSUME Stuck PROVE Stuck'
  <2>1. PICK q \in revision + 1 .. 12 : Bars(q)
    BY <1>5 DEF Stuck
  <2>2. Bars(q)'
    BY <1>0, <1>1, <1>2, <2>1 DEF Bars
  <2> QED BY <1>0, <1>5, <2>2 DEF Stuck
<1> QED BY <1>0, <1>3, <1>4, <1>5 DEF SchemaInv

LEMMA MigrationStamped ==
  ASSUME SchemaInv, Stamp
  PROVE  SchemaInv'
<1>0. /\ command # "idle" /\ revision # target /\ stmt > Len(Migration) /\ stmt' = 1 /\ SMTypes
      /\ revision' = (IF command = "up" THEN revision + 1 ELSE revision - 1)
      /\ begun' = IF dialect = "sqlite" THEN [Savepoint EXCEPT !.revision = revision'] ELSE begun
      /\ UNCHANGED <<dialect, schema, command, target, broken, createdAll>>
  BY DEF Stamp, SchemaInv
<1>1. dialect = "sqlite" => begun'.schema = schema /\ begun'.revision = revision'
  BY <1>0 DEF Savepoint
<1>2. \A q : Upgrades(q)' = Upgrades(q)
  BY <1>0, SameMigrations
<1>3. revision' \in 0 .. 12 /\ (command = "down" => target <= revision')
  BY <1>0 DEF SMTypes
<1>4. Len(Migration) \in Nat /\ stmt - 1 = Len(Migration)
  <2>1. Len(Migration) \in Nat
    BY <1>0, InMigration DEF Shape
  <2> QED BY <1>0, <2>1 DEF SMTypes
<1>5. SMTypes'
  <2>1. Len(Migration') \in Nat
    BY <1>0, <1>3, MigrationLength DEF SMTypes
  <2> QED BY <1>0, <1>1, <1>3, <2>1 DEF SMTypes
<1>6. ASSUME Clean PROVE Clean'
  <2>1. schema = After(Migration, Items(dialect, revision), Len(Migration))
    BY <1>0, <1>4, <1>6 DEF Clean
  <2>2. schema = Items(dialect, revision')
    <3>1. CASE command = "up"
      <4>1. /\ revision + 1 \in 1 .. 12 /\ revision' = revision + 1 /\ (revision + 1) - 1 = revision
            /\ Shape(Migration, Brings(dialect, revision + 1), Takes(revision + 1))
        <5>1. revision + 1 \in 1 .. 12 /\ Shape(Migration, Brings(dialect, revision + 1), Takes(revision + 1))
          BY <1>0, <3>1, InMigration
        <5>2. revision \in 0 .. 12
          BY <1>0 DEF SMTypes
        <5> QED BY <1>0, <3>1, <5>1, <5>2
      <4>2. schema = (Items(dialect, revision) \ Takes(revision + 1)) \cup Brings(dialect, revision + 1)
        BY <2>1, <4>1 DEF After, Shape
      <4>3. Items(dialect, revision + 1) = (Items(dialect, (revision + 1) - 1) \ Takes(revision + 1)) \cup Brings(dialect, revision + 1)
        BY <4>1, ItemsUpAndDown
      <4> QED BY <4>1, <4>2, <4>3
    <3>2. CASE command = "down"
      <4>1. /\ revision \in 1 .. 12 /\ revision' = revision - 1
            /\ Shape(Migration, Takes(revision), Brings(dialect, revision))
        BY <1>0, <3>2, InMigration
      <4>2. schema = (Items(dialect, revision) \ Brings(dialect, revision)) \cup Takes(revision)
        BY <2>1, <4>1 DEF After, Shape
      <4> QED BY <4>1, <4>2, ItemsUpAndDown
    <3> QED BY <1>0, <3>1, <3>2 DEF SMTypes
  <2>3. begun'.schema = Items(dialect, begun'.revision)
    BY <1>0, <1>1, <1>6, <2>2 DEF Clean
  <2> QED BY <1>0, <1>6, <2>2, <2>3, AfterNothing DEF Clean
<1>7. ASSUME Stuck PROVE Stuck'
  <2>1. PICK q \in revision + 1 .. 12 : Bars(q)
    BY <1>7 DEF Stuck
  <2>2. revision \in 0 .. 12 /\ q \in 1 .. 12 /\ dialect \in {"postgresql", "sqlite"} /\ dialect = "sqlite"
    BY <1>0, <1>7, <2>1 DEF SMTypes, Stuck
  <2>3. ~(command = "up" /\ revision + 1 = q)
    <3> SUFFICES ASSUME command = "up", revision + 1 = q PROVE FALSE
      OBVIOUS
    <3>1. stmt = 1 /\ Len(Upgrades(q)) # 0 /\ Migration = Upgrades(q)
      BY <2>1 DEF Bars, Migration
    <3> QED BY <1>4, <3>1
  <2>4. q \in revision' + 1 .. 12
    BY <1>0, <2>1, <2>2, <2>3 DEF SMTypes
  <2>5. Bars(q)'
    BY <1>0, <1>1, <1>2, <2>1, <2>2 DEF Bars
  <2> QED BY <1>0, <1>7, <2>4, <2>5 DEF Stuck
<1> QED BY <1>0, <1>5, <1>6, <1>7 DEF SchemaInv
LEMMA CommandEnds ==
  ASSUME SchemaInv, EndCommand
  PROVE  SchemaInv'
<1>0. /\ command # "idle" /\ revision = target /\ command' = "idle" /\ stmt = 1 /\ SMTypes
      /\ UNCHANGED <<dialect, schema, revision, target, broken, createdAll>>
  BY DEF EndCommand, SchemaInv, SMTypes
<1>1. SMTypes'
  BY <1>0 DEF SMTypes
<1>2. ASSUME Clean PROVE Clean'
  <2>1. stmt - 1 = 0
    BY <1>0
  <2> QED BY <1>0, <1>2, <2>1, AfterNothing DEF Clean
<1>3. ASSUME Stuck PROVE Stuck'
  <2>1. PICK q \in revision + 1 .. 12 : Bars(q)
    BY <1>3 DEF Stuck
  <2>2. Upgrades(q)' = Upgrades(q)
    BY <1>0, SameMigrations
  <2>3. Bars(q)'
    BY <1>0, <2>1, <2>2 DEF Bars
  <2> QED BY <1>0, <1>3, <2>3 DEF Stuck
<1> QED BY <1>0, <1>1, <1>2, <1>3 DEF SchemaInv

\* What the first statement of an upgrade adds stays while the upgrade runs.
LEMMA FirstIsKept ==
  ASSUME SMTypes, Clean, command = "up", stmt > 1
  PROVE  /\ revision + 1 \in 1 .. 12 /\ Len(Upgrades(revision + 1)) # 0
         /\ Upgrades(revision + 1)[1].add \subseteq schema
<1>1. revision # target
  BY DEF SMTypes
<1>2. /\ revision + 1 \in 1 .. 12 /\ Migration = Upgrades(revision + 1)
      /\ Shape(Migration, Brings(dialect, revision + 1), Takes(revision + 1))
  BY <1>1, InMigration
<1>3. stmt \in 1 .. Len(Migration) + 1 /\ Len(Migration) \in Nat
  BY <1>2 DEF SMTypes, Shape
<1>4. Len(Migration) # 0 /\ 1 \in 1 .. stmt - 1 /\ 1 .. stmt - 1 \subseteq 1 .. Len(Migration)
  BY <1>3
<1>5. Migration[1].add \subseteq After(Migration, Items(dialect, revision), stmt - 1)
  BY <1>4 DEF After, AddedBy
<1> QED BY <1>2, <1>4, <1>5 DEF Clean

LEMMA CommandInterrupted ==
  ASSUME SchemaInv, command # "idle", command' = "idle", Interrupt, UNCHANGED <<dialect, target, begun, createdAll>>
  PROVE  SchemaInv'
<1>0. SMTypes
  BY DEF SchemaInv
<1>1. CASE dialect = "postgresql" /\ Rollback
  <2>1. schema' = begun.schema /\ revision' = begun.revision /\ broken' = broken
    BY <1>1 DEF Rollback
  <2>2. Clean
    BY <1>0, <1>1 DEF SchemaInv, Stuck, SMTypes
  <2>3. Clean'
    BY <2>1, <2>2 DEF Clean
  <2>4. SMTypes'
    BY <1>0, <1>1, <2>1 DEF SMTypes
  <2> QED BY <2>3, <2>4 DEF SchemaInv
<1>2. CASE /\ dialect = "sqlite" /\ broken' = broken \cup {x \in {command} : stmt > 1}
           /\ UNCHANGED <<schema, revision>>
  <2>1. SMTypes'
    BY <1>0, <1>2 DEF SMTypes
  <2>2. ASSUME Clean, "down" \notin broken' PROVE Clean' \/ Stuck'
    <3>1. CASE stmt > 1
      <4>1. command = "up" /\ broken' = {"up"}
        BY <1>0, <1>2, <2>2, <3>1 DEF SMTypes, Clean
      <4>2. PICK q : q = revision + 1
        OBVIOUS
      <4>3. q \in 1 .. 12 /\ Len(Upgrades(q)) # 0 /\ Upgrades(q)[1].add \subseteq schema
        BY <1>0, <2>2, <3>1, <4>1, <4>2, FirstIsKept
      <4>4. Upgrades(q)' = Upgrades(q)
        BY SameMigrations
      <4>5. Bars(q)'
        BY <1>2, <4>3, <4>4 DEF Bars
      <4>6. q \in revision' + 1 .. 12
        BY <1>0, <1>2, <4>2, <4>3 DEF SMTypes
      <4> QED BY <1>2, <4>1, <4>5, <4>6 DEF Stuck
    <3>2. CASE ~(stmt > 1)
      <4>1. stmt - 1 = 0
        BY <1>0, <3>2 DEF SMTypes
      <4>2. broken' = broken
        BY <1>2, <3>2
      <4> QED BY <1>2, <2>2, <4>1, <4>2, AfterNothing DEF Clean
    <3> QED BY <3>1, <3>2
  <2>3. ASSUME Stuck PROVE Stuck'
    <3>1. PICK q \in revision + 1 .. 12 : Bars(q)
      BY <2>3 DEF Stuck
    <3>2. Upgrades(q)' = Upgrades(q)
      BY SameMigrations
    <3>3. Bars(q)'
      BY <1>2, <3>1, <3>2 DEF Bars
    <3> QED BY <1>2, <2>3, <3>3 DEF Stuck
  <2> QED BY <1>2, <2>1, <2>2, <2>3 DEF SchemaInv
<1>3. CASE dialect = "sqlite" /\ schema' = begun.schema /\ UNCHANGED <<revision, broken>>
  <2>1. SMTypes'
    BY <1>0, <1>3 DEF SMTypes
  <2>2. ASSUME Clean PROVE Clean'
    BY <1>0, <1>3, <2>2 DEF Clean, SMTypes
  <2>3. ASSUME Stuck PROVE Stuck'
    <3>1. PICK q \in revision + 1 .. 12 : Bars(q)
      BY <2>3 DEF Stuck
    <3>2. Upgrades(q)' = Upgrades(q)
      BY SameMigrations
    <3>3. Bars(q)'
      BY <1>3, <3>1, <3>2 DEF Bars
    <3> QED BY <1>3, <2>3, <3>3 DEF Stuck
  <2> QED BY <1>3, <2>1, <2>2, <2>3 DEF SchemaInv
<1> QED BY <1>1, <1>2, <1>3 DEF Interrupt

LEMMA AllCreated ==
  ASSUME SchemaInv, CreateAll
  PROVE  SchemaInv'
<1>0. /\ dialect = "sqlite" /\ command = "idle" /\ ~(ModelTables \subseteq schema)
      /\ schema' = schema \cup UNION {ItemsOf(t) : t \in ModelTables \ schema}
      /\ createdAll' = TRUE /\ UNCHANGED <<dialect, revision, command, target, broken>> /\ SMTypes
  BY DEF CreateAll, SchemaInv
<1>1. SMTypes'
  BY <1>0 DEF SMTypes
<1>2. \A q : Upgrades(q)' = Upgrades(q)
  BY <1>0, SameMigrations
<1>3. ModelTables \subseteq schema'
  <2>1. \A t : t \in ItemsOf(t)
    BY DEF ItemsOf, ReplayModels
  <2> QED BY <1>0, <2>1
<1>4. ASSUME Clean PROVE Stuck'
  <2>1. revision # 12
    <3> SUFFICES ASSUME revision = 12 PROVE FALSE
      OBVIOUS
    <3>1. schema \ {"rls"} = ModelItems
      BY <1>0, <1>4, HeadIsModels DEF Clean
    <3> QED BY <1>0, <3>1 DEF ModelTables
  <2>2. 12 \in revision' + 1 .. 12
    BY <1>0, <2>1 DEF SMTypes
  <2>3. Len(Upgrades(12)) = 1 /\ Upgrades(12)[1].add = Admission
    BY DEF Upgrades, DDL
  <2>4. Admission \subseteq ModelTables
    BY DEF ModelTables, ModelItems, AdmissionModels, Admission, Columns, ManifestColumns, EvidenceColumns,
           ClassColumns, ReceiptLink
  <2>5. Bars(12)'
    BY <1>0, <1>2, <1>3, <2>3, <2>4 DEF Bars
  <2> QED BY <1>0, <2>2, <2>5 DEF Stuck
<1>5. ASSUME Stuck PROVE Stuck'
  <2>1. PICK q \in revision + 1 .. 12 : Bars(q)
    BY <1>5 DEF Stuck
  <2>2. Bars(q)'
    BY <1>0, <1>2, <2>1 DEF Bars
  <2> QED BY <1>0, <2>2 DEF Stuck
<1> QED BY <1>0, <1>1, <1>4, <1>5 DEF SchemaInv

\* Rows come and go under a schema that stays.
LEMMA SchemaStays ==
  ASSUME SchemaInv, UNCHANGED <<dialect, schema, revision, command, target, stmt, begun, broken, createdAll>>
  PROVE  SchemaInv'
<1>1. Migration' = Migration /\ (\A q : Upgrades(q)' = Upgrades(q))
  BY SameMigrations
<1>2. SMTypes'
  BY <1>1 DEF SchemaInv, SMTypes
<1>3. Clean => Clean'
  BY <1>1 DEF Clean
<1>4. Stuck => Stuck'
  BY <1>1 DEF Stuck, Bars
<1> QED BY <1>2, <1>3, <1>4 DEF SchemaInv
\* The rows of the evidence tables are dropped only by the downgrade that has
\* asked about them.
LEMMA EvidenceStep ==
  ASSUME SMTypes, EvidenceInv, RunStatement
  PROVE  EvidenceInv'
<1>0. /\ command # "idle" /\ revision # target /\ stmt <= Len(Migration) /\ Applies(Statement)
      /\ stmt' = stmt + 1 /\ UNCHANGED <<revision, command, late>>
      /\ evidenceRows' = IF Evidence \subseteq Statement.drop /\ evidenceRows = "kept"
                           THEN (IF late THEN "overtaken" ELSE "lost") ELSE evidenceRows
  BY DEF RunStatement
<1>1. dialect \in {"postgresql", "sqlite"} /\ revision \in 0 .. 12 /\ stmt \in Nat
  BY <1>0 DEF SMTypes
<1>2. stmt \in 1 .. Len(Migration)
  <2>1. Len(Migration) \in Nat
    BY <1>0, InMigration DEF Shape
  <2> QED BY <1>0, <2>1 DEF SMTypes
<1>3. Evidence \subseteq Brings(dialect, 11) /\ Evidence # {}
  BY DEF Brings, Evidence
<1>4. ASSUME Evidence \subseteq Statement.drop PROVE command = "down" /\ revision = 11 /\ stmt > 1
  <2>0. PICK x : x \in Evidence /\ Since(x) = 11
    <3>1. 11 \in 1 .. 12
      OBVIOUS
    <3> QED BY <1>3, <3>1, Belongs
  <2>1. CASE command = "up"
    <3>1. revision + 1 \in 1 .. 12 /\ Shape(Migration, Brings(dialect, revision + 1), Takes(revision + 1))
      BY <1>0, <2>1, InMigration
    <3>2. x \in Takes(revision + 1)
      BY <1>2, <1>4, <2>0, <3>1, StatementShape DEF Statement
    <3> QED BY <2>0, <3>1, <3>2, TakenIsOld
  <2>2. CASE command = "down"
    <3>1. revision \in 1 .. 12 /\ Migration = Downgrades(revision) /\ Shape(Migration, Takes(revision), Brings(dialect, revision))
      BY <1>0, <2>2, InMigration
    <3>2. x \in Brings(dialect, revision)
      BY <1>2, <1>4, <2>0, <3>1, StatementShape DEF Statement
    <3>3. revision = 11
      BY <2>0, <3>1, <3>2, Belongs
    <3>4. stmt # 1
      BY <1>3, <1>4, <3>1, <3>3, EvidenceStatements DEF Statement
    <3> QED BY <1>1, <1>2, <2>2, <3>3, <3>4
  <2> QED BY <1>0, <2>1, <2>2 DEF SMTypes
<1>5. evidenceRows' # "lost"
  BY <1>0, <1>4 DEF EvidenceInv
<1>6. ASSUME command = "down", revision = 11, evidenceRows' = "kept" PROVE late = TRUE
  <2>1. evidenceRows = "kept"
    BY <1>0, <1>6
  <2>2. CASE stmt = 1
    <3>1. Statement.do = "refuse"
      BY <1>6, <2>2, EvidenceStatements DEF Statement, Migration
    <3> QED BY <1>0, <2>1, <3>1 DEF Applies
  <2>3. CASE stmt > 1
    BY <1>6, <2>1, <2>3 DEF EvidenceInv
  <2>4. stmt = 1 \/ stmt > 1
    BY <1>1, <1>2
  <2> QED BY <2>2, <2>3, <2>4
<1> QED BY <1>0, <1>5, <1>6 DEF EvidenceInv

\* A statement leaves a run with its class, or unverified until the next one.
LEMMA RunStep ==
  ASSUME SMTypes, RunInv, RunStatement
  PROVE  RunInv'
<1>0. /\ command # "idle" /\ revision # target /\ stmt <= Len(Migration)
      /\ stmt' = stmt + 1 /\ UNCHANGED <<dialect, revision, command, begun, broken>>
      /\ runRow' = RunAfter(Statement)
  BY DEF RunStatement
<1> SUFFICES ASSUME broken = {}
             PROVE  /\ RunShape(runRow')
                    /\ Classed(runRow') \/ (command = "up" /\ revision = 10 /\ stmt' = 3)
  BY <1>0 DEF RunInv
<1>1. dialect \in {"postgresql", "sqlite"} /\ revision \in 0 .. 12 /\ stmt \in Nat
  BY <1>0 DEF SMTypes
<1>2. stmt \in 1 .. Len(Migration)
  <2>1. Len(Migration) \in Nat
    BY <1>0, InMigration DEF Shape
  <2> QED BY <1>0, <2>1 DEF SMTypes
<1>3. RunShape(runRow) /\ (Classed(runRow) \/ (command = "up" /\ revision = 10 /\ stmt = 3))
  BY DEF RunInv
<1>4. RunShape(NoRun) /\ Classed(NoRun)
  BY DEF NoRun, RunShape, Classed, SyntheticClass, RealClass
<1>5. ASSUME RunClass \subseteq Statement.add PROVE command = "up" /\ revision = 10 /\ stmt = 2
  <2>0. PICK x : x = "request_runs.evidence_class" /\ Since(x) = 11 /\ x \in Statement.add
    <3>1. 11 \in 1 .. 12 /\ ClassColumns \subseteq Brings(dialect, 11)
      BY DEF Brings
    <3>2. "request_runs.evidence_class" \in ClassColumns /\ "request_runs.evidence_class" \in RunClass
      BY DEF ClassColumns, RunClass
    <3> QED BY <1>5, <3>1, <3>2, Belongs
  <2>1. CASE command = "down"
    <3>1. revision \in 1 .. 12 /\ Shape(Migration, Takes(revision), Brings(dialect, revision))
      BY <1>0, <2>1, InMigration
    <3>2. x \in Takes(revision)
      BY <1>2, <1>5, <2>0, <3>1, StatementShape DEF Statement
    <3> QED BY <2>0, <3>1, <3>2, TakenIsOld
  <2>2. CASE command = "up"
    <3>1. /\ revision + 1 \in 1 .. 12 /\ Migration = Upgrades(revision + 1)
          /\ Shape(Migration, Brings(dialect, revision + 1), Takes(revision + 1))
      BY <1>0, <2>2, InMigration
    <3>2. x \in Brings(dialect, revision + 1)
      BY <1>2, <1>5, <2>0, <3>1, StatementShape DEF Statement
    <3>3. revision + 1 = 11
      BY <2>0, <3>1, <3>2, Belongs
    <3>4. stmt \in 1 .. 6 /\ "request_runs.evidence_class" \in Upgrades(11)[stmt].add
      BY <1>2, <2>0, <3>1, <3>3, EvidenceStatements DEF Statement
    <3>5. stmt = 2
      BY <3>4, EvidenceStatements
    <3> QED BY <1>1, <2>2, <3>3, <3>5
  <2> QED BY <1>0, <2>1, <2>2 DEF SMTypes
<1>6. CASE command = "up" /\ revision = 10 /\ stmt = 3
  <2>1. Statement.do = "classify" /\ ~(RunClass \subseteq Statement.add)
    <3>1. revision + 1 = 11
      BY <1>6
    <3> QED BY <1>5, <1>6, <3>1, EvidenceStatements DEF Statement, Migration
  <2>2. CASE runRow.legacy
    <3>1. runRow' = [runRow EXCEPT !.class = "SYNTHETIC_SIMULATION"]
      BY <1>0, <2>1, <2>2 DEF RunAfter
    <3> QED BY <1>3, <3>1 DEF RunShape, Classed, SyntheticClass, RealClass
  <2>3. CASE ~runRow.legacy
    <3>1. \/ runRow' = [runRow EXCEPT !.class = "none"] \/ runRow' = NoRun \/ runRow' = runRow
      BY <1>0, <2>1, <2>3 DEF RunAfter
    <3> QED BY <1>3, <1>4, <2>3, <3>1 DEF RunShape, Classed, SyntheticClass, RealClass
  <2> QED BY <2>2, <2>3
<1>7. CASE ~(command = "up" /\ revision = 10 /\ stmt = 3)
  <2>1. \/ runRow' = [runRow EXCEPT !.class = "SYNTHETIC_SIMULATION"]
        \/ runRow' = [runRow EXCEPT !.class = "UNVERIFIED"] /\ RunClass \subseteq Statement.add
        \/ runRow' = [runRow EXCEPT !.class = "none"] \/ runRow' = NoRun \/ runRow' = runRow
    BY <1>0 DEF RunAfter
  <2>2. CASE runRow' = [runRow EXCEPT !.class = "UNVERIFIED"] /\ RunClass \subseteq Statement.add
    <3>1. command = "up" /\ revision = 10 /\ stmt' = 3
      BY <1>0, <1>5, <2>2
    <3> QED BY <1>3, <2>2, <3>1 DEF RunShape, SyntheticClass, RealClass
  <2>3. CASE runRow' = [runRow EXCEPT !.class = "SYNTHETIC_SIMULATION"] \/ runRow' = [runRow EXCEPT !.class = "none"]
    BY <1>3, <2>3 DEF RunShape, Classed, SyntheticClass, RealClass
  <2> QED BY <1>3, <1>4, <1>7, <2>1, <2>2, <2>3
<1> QED BY <1>6, <1>7

\* A command that is cut short gives its run back, or is noted as broken.
LEMMA RowsInterrupted ==
  ASSUME SMTypes, EvidenceInv, RunInv, command # "idle", command' = "idle", Interrupt, begun' = begun
  PROVE  EvidenceInv' /\ RunInv'
<1>1. CASE dialect = "postgresql" /\ Rollback
  BY <1>1 DEF Rollback, EvidenceInv, RunInv
<1>2. CASE /\ dialect = "sqlite" /\ broken' = broken \cup {x \in {command} : stmt > 1}
           /\ UNCHANGED <<runRow, evidenceRows>>
  <2>1. EvidenceInv'
    BY <1>2 DEF EvidenceInv
  <2>2. ASSUME broken' = {} PROVE broken = {} /\ ~(stmt > 1)
    BY <1>2, <2>2
  <2> QED BY <1>2, <2>1, <2>2 DEF RunInv
<1>3. CASE dialect = "sqlite" /\ runRow = begun.run /\ UNCHANGED <<runRow, evidenceRows, broken>>
  BY <1>3 DEF EvidenceInv, RunInv
<1> QED BY <1>1, <1>2, <1>3 DEF Interrupt

LEMMA SMStepInv ==
  ASSUME MigrationInv, [SMNext]_smvars
  PROVE  MigrationInv'
<1>0. SchemaInv /\ SMTypes /\ EvidenceInv /\ RunInv
  BY DEF MigrationInv, SchemaInv
<1>1. CASE UNCHANGED smvars
  <2>1. SchemaInv'
    BY <1>0, <1>1, SchemaStays DEF smvars
  <2> QED BY <1>0, <1>1, <2>1 DEF smvars, MigrationInv, EvidenceInv, RunInv
<1>2. CASE BeginCommand
  <2>1. SchemaInv'
    BY <1>0, <1>2, CommandBegins
  <2>2. /\ command = "idle" /\ stmt' = 1 /\ begun' = Savepoint /\ UNCHANGED <<runRow, evidenceRows, broken>>
    BY <1>2 DEF BeginCommand
  <2>3. begun'.run = runRow
    BY <2>2 DEF Savepoint
  <2> QED BY <1>0, <2>1, <2>2, <2>3 DEF MigrationInv, EvidenceInv, RunInv
<1>3. CASE RunStatement
  BY <1>0, <1>3, StatementRuns, EvidenceStep, RunStep DEF MigrationInv
<1>4. CASE Stamp
  <2>1. SchemaInv'
    BY <1>0, <1>4, MigrationStamped
  <2>2. /\ stmt' = 1 /\ UNCHANGED <<runRow, evidenceRows, broken, command>> /\ command # "idle"
        /\ begun' = IF dialect = "sqlite" THEN [Savepoint EXCEPT !.revision = revision'] ELSE begun
    BY <1>4 DEF Stamp, rowVars
  <2>3. begun'.run = runRow \/ begun' = begun
    BY <2>2 DEF Savepoint
  <2>4. ~(command = "up" /\ revision = 10 /\ stmt = 3)
    <3> SUFFICES ASSUME command = "up", revision = 10, stmt = 3 PROVE FALSE
      OBVIOUS
    <3>1. revision + 1 = 11
      OBVIOUS
    <3>2. Len(Migration) = 6
      BY <3>1, EvidenceStatements DEF Migration
    <3> QED BY <1>4, <3>2 DEF Stamp
  <2>5. RunInv'
    BY <1>0, <2>2, <2>3, <2>4 DEF RunInv
  <2> QED BY <1>0, <2>1, <2>2, <2>5 DEF MigrationInv, EvidenceInv
<1>5. CASE EndCommand
  <2>1. SchemaInv'
    BY <1>0, <1>5, CommandEnds
  <2>2. stmt = 1 /\ command' = "idle" /\ UNCHANGED <<runRow, evidenceRows, broken>>
    BY <1>0, <1>5 DEF EndCommand, SMTypes, rowVars
  <2> QED BY <1>0, <2>1, <2>2 DEF MigrationInv, EvidenceInv, RunInv
<1>6. CASE FailCommand \/ CrashCommand
  <2>1. /\ command # "idle" /\ command' = "idle" /\ Interrupt /\ UNCHANGED <<dialect, target, begun, createdAll>>
    BY <1>6 DEF FailCommand, CrashCommand
  <2> QED BY <1>0, <2>1, CommandInterrupted, RowsInterrupted DEF MigrationInv
<1>7. CASE CreateAll
  <2>1. SchemaInv'
    BY <1>0, <1>7, AllCreated
  <2> QED BY <1>0, <1>7, <2>1 DEF CreateAll, rowVars, MigrationInv, EvidenceInv, RunInv
<1>8. CASE WriteRun
  <2>1. SchemaInv'
    BY <1>0, <1>8, SchemaStays DEF WriteRun
  <2>2. RunShape(runRow') /\ Classed(runRow')
    <3>1. PICK o \in {"synthetic", "real"}, l \in BOOLEAN, c \in {"none"} \cup SyntheticClass \cup RealClass :
            /\ runRow' = [origin |-> o, legacy |-> l, class |-> c]
            /\ c \in RealClass => o = "real"
            /\ o = "synthetic" => l = TRUE /\ c \notin RealClass
      <4>1. CASE "request_runs.evidence_class" \in schema
        <5>1. PICK c \in SyntheticClass \cup RealClass :
                runRow' = [origin |-> IF c \in SyntheticClass THEN "synthetic" ELSE "real",
                           legacy |-> TRUE, class |-> c]
          BY <1>8, <4>1 DEF WriteRun
        <5> QED BY <5>1 DEF SyntheticClass, RealClass
      <4>2. CASE "request_runs.evidence_class" \notin schema
        <5>1. PICK b \in BOOLEAN :
                runRow' = [origin |-> IF b THEN "synthetic" ELSE "real", legacy |-> b, class |-> "none"]
          BY <1>8, <4>2 DEF WriteRun
        <5>0. "none" \notin RealClass
          BY DEF RealClass
        <5>2. CASE b = TRUE
          <6>1. runRow' = [origin |-> "synthetic", legacy |-> TRUE, class |-> "none"]
            BY <5>1, <5>2
          <6> QED BY <5>0, <6>1
        <5>3. CASE b = FALSE
          <6>1. runRow' = [origin |-> "real", legacy |-> FALSE, class |-> "none"]
            BY <5>1, <5>3
          <6> QED BY <5>0, <6>1
        <5> QED BY <5>1, <5>2, <5>3
      <4> QED BY <4>1, <4>2
    <3> QED BY <3>1 DEF RunShape, Classed
  <2> QED BY <1>0, <1>8, <2>1, <2>2 DEF WriteRun, MigrationInv, EvidenceInv, RunInv
<1>9. CASE WriteEvidence \/ ExportEvidence \/ WriteSpans
  <2>1. SchemaInv'
    BY <1>0, <1>9, SchemaStays DEF WriteEvidence, ExportEvidence, WriteSpans
  <2>2. RunInv'
    BY <1>0, <1>9 DEF WriteEvidence, ExportEvidence, WriteSpans, RunInv
  <2>3. EvidenceInv'
    BY <1>0, <1>9 DEF WriteEvidence, ExportEvidence, WriteSpans, EvidenceInv
  <2> QED BY <2>1, <2>2, <2>3 DEF MigrationInv
<1> QED BY <1>1, <1>2, <1>3, <1>4, <1>5, <1>6, <1>7, <1>8, <1>9 DEF SMNext

\* The revisions of alembic/versions: whatever commands are run, refused, cut short and
\* repeated, the schema at rest is the one of the stamped revision unless create_all ran
\* or a SQLite command was cut within a migration, the head revision serves the models
\* unless a SQLite downgrade was cut, evidence is never dropped unasked, and a run written
\* as synthetic is never presented as a real one, unless a SQLite command was cut. That a
\* run written as real stays one is not said: a round trip makes it synthetic.
THEOREM EvidenceOutlivesMigrations == RecordsSpec => []EvidenceSurvives
<1>1. Init => MigrationInv
  BY RecordsInitial, SMInitInv
<1>2. MigrationInv /\ [Next]_allVars => MigrationInv'
  BY RecordsSteps, SMStepInv
<1>3. MigrationInv => EvidenceSurvives
  BY MigrationInvHolds
<1> QED BY <1>1, <1>2, <1>3, PTL DEF RecordsSpec

================================================================================
