----------------------------- MODULE TraceSpans -----------------------------
(***************************************************************************)
(* The trace SDK: trace_component (packages/trace_sdk/src/decorators.py)   *)
(* around nested and concurrent calls, and the TraceContext that collects  *)
(* their spans (tracer.py).  Tasks share one TraceContext; the parent span *)
(* is a context variable, copied when a task is created.                   *)
(*                                                                         *)
(* Spans are numbered in the order they start; payload hashes, attributes  *)
(* and latencies are left out.                                             *)
(***************************************************************************)
EXTENDS Naturals, Sequences, FiniteSets

CONSTANTS
  Task,        \* asyncio tasks
  MaxSpans,    \* spans of the trace
  MaxNesting   \* calls open in one task

ASSUME TraceAssumption == MaxSpans \in Nat /\ MaxNesting \in Nat

NoSpan == 0
SpanId == 1..MaxSpans

VARIABLES
  live,        \* tasks that run
  frames,      \* Task -> the spans of its open calls, innermost last
  parentVar,   \* Task -> _active_parent_span_id
  token,       \* SpanId -> the value to reset the variable to
  begunSpans,  \* spans started
  parentOf,    \* SpanId -> parent_span_id
  collected,   \* TraceContext._spans: sequence of [span, status]
  currentSpan, \* TraceContext._current_span_id
  callerOf,    \* SpanId -> the call that really made it, for the properties
  origin,      \* Task -> the call that created it
  fate,        \* SpanId -> how the function ended
  afterRecord  \* spans started when a span had been collected

cvars == <<live, frames, parentVar, token, begunSpans, parentOf, collected, currentSpan, callerOf, origin,
           fate, afterRecord>>

CInit ==
  \E t \in Task :
  /\ live = {t} /\ frames = [u \in Task |-> <<>>] /\ parentVar = [u \in Task |-> NoSpan]
  /\ token = [s \in SpanId |-> NoSpan] /\ begunSpans = 0 /\ parentOf = [s \in SpanId |-> NoSpan]
  /\ collected = <<>> /\ currentSpan = NoSpan /\ callerOf = [s \in SpanId |-> NoSpan]
  /\ origin = [u \in Task |-> NoSpan] /\ fate = [s \in SpanId |-> "open"] /\ afterRecord = {}

Top(t) == IF frames[t] = <<>> THEN origin[t] ELSE frames[t][Len(frames[t])]

\* start_span: the caller's span, else the span that was collected last.
ParentFor(t) == IF parentVar[t] # NoSpan THEN parentVar[t] ELSE currentSpan

\* The wrapper up to the call of the function.
EnterCall(t) ==
  /\ t \in live /\ begunSpans < MaxSpans /\ Len(frames[t]) < MaxNesting
  /\ LET s == begunSpans + 1 IN
     /\ begunSpans' = s /\ frames' = [frames EXCEPT ![t] = Append(@, s)]
     /\ parentOf' = [parentOf EXCEPT ![s] = ParentFor(t)]
     /\ callerOf' = [callerOf EXCEPT ![s] = Top(t)]
     /\ token' = [token EXCEPT ![s] = parentVar[t]]
     /\ parentVar' = [parentVar EXCEPT ![t] = s]
     /\ afterRecord' = IF collected # <<>> THEN afterRecord \cup {s} ELSE afterRecord
  /\ UNCHANGED <<live, collected, currentSpan, origin, fate>>

ResetParent(t, s) == parentVar' = [parentVar EXCEPT ![t] = token[s]]

\* set_error runs for an Exception; finish turns what is still UNSET to OK, a
\* cancelled call too.
SpanStatus(how) == IF how = "raised" THEN "ERROR" ELSE "OK"

\* The function returns, raises, or its task is cancelled in it; the finally
\* block resets the variable, finishes the span and collects it.
LeaveCall(t) ==
  /\ t \in live /\ frames[t] # <<>>
  /\ LET s == frames[t][Len(frames[t])] IN
     \E how \in {"returned", "raised", "cancelled"} :
       /\ fate' = [fate EXCEPT ![s] = how]
       /\ ResetParent(t, s)
       /\ collected' = Append(collected, [span |-> s, status |-> SpanStatus(how)])
       /\ currentSpan' = s
  /\ frames' = [frames EXCEPT ![t] = SubSeq(@, 1, Len(@) - 1)]
  /\ UNCHANGED <<live, token, begunSpans, parentOf, callerOf, origin, afterRecord>>

\* create_task or gather: the new task has a copy of the context.
SpawnTask(t) ==
  /\ t \in live
  /\ \E u \in Task \ live : /\ live' = live \cup {u} /\ origin' = [origin EXCEPT ![u] = Top(t)]
                            /\ parentVar' = [parentVar EXCEPT ![u] = parentVar[t]]
  /\ UNCHANGED <<frames, token, begunSpans, parentOf, collected, currentSpan, callerOf, fate, afterRecord>>

CNext == \E t \in Task : EnterCall(t) \/ LeaveCall(t) \/ SpawnTask(t)
CSpec == CInit /\ [][CNext]_cvars
-----------------------------------------------------------------------------
\* Whatever tasks interleave, the parent of a span is the call that made it; a
\* call that nothing traced made hangs on a span that was already collected.
ParentIsCaller ==
  \A s \in 1..begunSpans :
    IF callerOf[s] # NoSpan THEN parentOf[s] = callerOf[s]
    ELSE parentOf[s] # NoSpan => (parentOf[s] < s /\ fate[parentOf[s]] # "open")

\* The trace has one root as soon as a span was collected: a later call without
\* a caller is never a second root.
TraceIsConnected == \A s \in afterRecord : parentOf[s] # NoSpan

\* Every call that ended was collected once, as an error exactly if it raised.
CollectedOnce ==
  \A s \in 1..begunSpans :
    LET mine == {i \in DOMAIN collected : collected[i].span = s} IN
    /\ Cardinality(mine) = IF fate[s] = "open" THEN 0 ELSE 1
    /\ \A i \in mine : collected[i].status = "ERROR" <=> fate[s] = "raised"
=============================================================================
