----------------------------- MODULE SpanIngestion -----------------------------
(***************************************************************************)
(* Span ingestion end to end: batch_spans of the SDK client, which sends a *)
(* batch in chunks with up to three attempts each, and ingest_spans of the *)
(* API, which stores the spans of one attempt in one transaction, a        *)
(* savepoint per span.  An attempt the client gave up on keeps running in  *)
(* the server beside the next one, and answers before get_db commits it.   *)
(*                                                                         *)
(* A span stands for its (tenant, span_id), unique in span_records.        *)
(***************************************************************************)
EXTENDS Naturals, Sequences, FiniteSets, Functions

CONSTANTS
  Client,      \* callers of batch_spans
  Span,        \* spans
  Batches,     \* what they may be called with: chunks, each a sequence of spans
  Unscoped,    \* spans whose run is unknown or whose version id is no uuid
  Foreign,     \* spans of another tenant: the route refuses the whole chunk
  MaxChunks,   \* chunks in the longest batch
  MaxAttempts  \* attempts per chunk: range(3)

ASSUME BatchAssumption ==
  /\ MaxAttempts \in Nat \ {0} /\ MaxChunks \in Nat
  /\ Batches \subseteq [Client -> Seq(Seq(Span) \ {<<>>})]
  /\ \A b \in Batches, c \in Client : Len(b[c]) <= MaxChunks

Attempt == Client \X (1 .. MaxChunks) \X (1 .. MaxAttempts)

VARIABLES
  batch,     \* the clients' batches
  at,        \* the client's chunk and attempt, and whether it waits for an answer
  told,      \* what the client was told: counts, spans named by errors, failed chunks
  phase,     \* the server's side of an attempt
  pos,       \* the next span of the attempt
  inserted,  \* the spans its transaction has flushed
  named,     \* the spans its errors name
  lost,      \* spans a client was answered for that could not be committed
  stored     \* span_records, committed: the attempts that inserted the span

ivars == <<batch, at, told, phase, pos, inserted, named, lost, stored>>

Chunk(a) == batch[a[1]][a[2]]
BatchSpans(c) == UNION {Range(batch[c][i]) : i \in DOMAIN batch[c]}

Nothing == [ingested |-> 0, named |-> {}, failed |-> {}]

IInit ==
  /\ batch \in Batches
  /\ at = [c \in Client |-> [chunk |-> 1, attempt |-> 1, waits |-> FALSE]]
  /\ told = [c \in Client |-> Nothing]
  /\ phase = [a \in Attempt |-> "none"]
  /\ pos = [a \in Attempt |-> 1]
  /\ inserted = [a \in Attempt |-> {}]
  /\ named = [a \in Attempt |-> {}]
  /\ lost = {}
  /\ stored = [s \in Span |-> {}]

-----------------------------------------------------------------------------
(* batch_spans                                                             *)

Returned(c) == at[c].chunk > Len(batch[c])
Current(c) == <<c, at[c].chunk, at[c].attempt>>

NextChunk(c) == at' = [at EXCEPT ![c] = [chunk |-> @.chunk + 1, attempt |-> 1, waits |-> FALSE]]

Post(c) ==
  /\ ~Returned(c) /\ ~at[c].waits
  /\ at' = [at EXCEPT ![c].waits = TRUE]
  /\ phase' = [phase EXCEPT ![Current(c)] = "sent"]
  /\ UNCHANGED <<batch, told, pos, inserted, named, lost, stored>>

\* The chunk is given up: its spans go to failed_spans.
FailChunk(c) ==
  /\ told' = [told EXCEPT ![c].failed = @ \cup {at[c].chunk}]
  /\ NextChunk(c)

\* A server error, a timeout or a lost connection: the next attempt, or the end
\* of the chunk after the last.
RetryChunk(c) ==
  IF at[c].attempt < MaxAttempts
    THEN /\ at' = [at EXCEPT ![c].attempt = @ + 1, ![c].waits = FALSE]
         /\ UNCHANGED told
    ELSE FailChunk(c)

AcceptAnswer(c, a) ==
  /\ told' = [told EXCEPT ![c].ingested = @ + Cardinality(inserted[a]),
                          ![c].named = @ \cup named[a]]
  /\ NextChunk(c)

\* The client waits no longer; the server may not even have seen the request.
ClientTimeout(c) ==
  /\ at[c].waits
  /\ RetryChunk(c)
  /\ UNCHANGED <<batch, phase, pos, inserted, named, lost, stored>>

-----------------------------------------------------------------------------
(* The route and IngestionService.ingest_spans                             *)

Waits(a) == at[a[1]].waits /\ Current(a[1]) = a

\* The answer reaches the client if it still waits for this attempt.
Deliver(a, code) ==
  IF ~Waits(a) THEN UNCHANGED <<at, told>>
  ELSE CASE code = 200 -> AcceptAnswer(a[1], a)
         [] code = 403 -> FailChunk(a[1])
         [] code = 500 -> RetryChunk(a[1])

\* A span of another tenant refuses the request as a whole.
CheckTenant(a) ==
  /\ phase[a] = "sent"
  /\ IF Range(Chunk(a)) \cap Foreign # {}
       THEN phase' = [phase EXCEPT ![a] = "ended"] /\ Deliver(a, 403)
       ELSE phase' = [phase EXCEPT ![a] = "ingest"] /\ UNCHANGED <<at, told>>
  /\ UNCHANGED <<batch, pos, inserted, named, lost, stored>>

\* The payload is deduplicated by span_id before the loop.
Unique(a) ==
  LET s == Chunk(a)
      first == {i \in DOMAIN s : \A j \in 1 .. i - 1 : s[j] # s[i]}
      nth(n) == CHOOSE i \in first : Cardinality({j \in first : j <= i}) = n
  IN [n \in 1 .. Cardinality(first) |-> s[nth(n)]]

Ingesting(a) == phase[a] = "ingest" /\ pos[a] <= Len(Unique(a))
TheSpan(a) == Unique(a)[pos[a]]
Holder(s) == {a \in Attempt : s \in inserted[a] /\ phase[a] \in {"ingest", "commit"}}
NextSpan(a) == pos' = [pos EXCEPT ![a] = @ + 1]

\* A span that is stored already is skipped without an error.
SkipSpan(a) ==
  /\ Ingesting(a)
  /\ TheSpan(a) \notin Unscoped /\ stored[TheSpan(a)] # {}
  /\ NextSpan(a)
  /\ UNCHANGED <<batch, at, told, phase, inserted, named, lost, stored>>

\* Its savepoint is flushed.  An uncommitted insert of the same span by another
\* transaction has to end first.
InsertSpan(a) ==
  /\ Ingesting(a)
  /\ TheSpan(a) \notin Unscoped /\ stored[TheSpan(a)] = {} /\ Holder(TheSpan(a)) \subseteq {a}
  /\ inserted' = [inserted EXCEPT ![a] = @ \cup {TheSpan(a)}]
  /\ NextSpan(a)
  /\ UNCHANGED <<batch, at, told, phase, named, lost, stored>>

\* Transactions that wait for each other's spans in a circle: PostgreSQL ends
\* one wait with an error.
WaitsFor(a, b) == Ingesting(a) /\ a # b /\ b \in Holder(TheSpan(a))
Deadlocked(a) ==
  \E circle \in SUBSET {b \in Attempt : Ingesting(b)} :
    /\ a \in circle
    /\ \A b \in circle : (\E c \in circle : WaitsFor(b, c)) /\ (\E c \in circle : WaitsFor(c, b))

\* Mutant of RejectSpan: a span is skipped without an error that names it.
RejectSilently(a) ==
  /\ Ingesting(a)
  /\ TheSpan(a) \in Unscoped \/ stored[TheSpan(a)] # {} \/ Deadlocked(a)
  /\ NextSpan(a)
  /\ UNCHANGED <<batch, at, told, phase, inserted, named, lost, stored>>

\* Mutant of RejectSpan: the database does not resolve deadlocks.
RejectButNotDeadlock(a) ==
  /\ Ingesting(a)
  /\ TheSpan(a) \in Unscoped \/ stored[TheSpan(a)] # {}
  /\ named' = [named EXCEPT ![a] = @ \cup {TheSpan(a)}]
  /\ NextSpan(a)
  /\ UNCHANGED <<batch, at, told, phase, inserted, lost, stored>>

\* The run is out of scope, the row was inserted and committed by another
\* transaction between the lookup and the flush, or the wait is a deadlock: the
\* savepoint is rolled back and the span is skipped with an error.
RejectSpan(a) ==
  /\ Ingesting(a)
  /\ TheSpan(a) \in Unscoped \/ stored[TheSpan(a)] # {} \/ Deadlocked(a)
  /\ named' = [named EXCEPT ![a] = @ \cup {TheSpan(a)}]
  /\ NextSpan(a)
  /\ UNCHANGED <<batch, at, told, phase, inserted, lost, stored>>

\* The handler returns its counts; get_db has not committed yet.
AnswerSpans(a) ==
  /\ phase[a] = "ingest" /\ pos[a] > Len(Unique(a))
  /\ phase' = [phase EXCEPT ![a] = "commit"]
  /\ Deliver(a, 200)
  /\ UNCHANGED <<batch, pos, inserted, named, lost, stored>>

\* The session of the attempt is closed: what it held is gone.
Close(a, outcome) ==
  /\ phase' = [phase EXCEPT ![a] = outcome]
  /\ pos' = [pos EXCEPT ![a] = 1]
  /\ inserted' = [inserted EXCEPT ![a] = {}]
  /\ named' = [named EXCEPT ![a] = {}]

CommitSpans(a) ==
  /\ phase[a] = "commit"
  /\ Close(a, "ended")
  /\ stored' = [s \in DOMAIN stored |-> stored[s] \cup (IF s \in inserted[a] THEN {a} ELSE {})]
  /\ UNCHANGED <<batch, at, told, lost>>

\* The connection or the process is lost: the transaction is rolled back, and
\* the client, if it waits, sees an error.
AttemptDies(a) ==
  /\ phase[a] \in {"sent", "ingest", "commit"}
  /\ Close(a, "ended")
  /\ lost' = lost \cup (IF phase[a] = "commit" THEN {<<a[1], a[2], s>> : s \in inserted[a]} ELSE {})
  /\ Deliver(a, 500)
  /\ UNCHANGED <<batch, stored>>

ServerStep(a) ==
  \/ CheckTenant(a) \/ SkipSpan(a) \/ InsertSpan(a) \/ RejectSpan(a)
  \/ AnswerSpans(a) \/ CommitSpans(a)

INext ==
  \/ \E c \in Client : Post(c) \/ ClientTimeout(c)
  \/ \E a \in Attempt : ServerStep(a) \/ AttemptDies(a)

\* The client sends and gives up by its own clock; the server works on.
ISpec ==
  /\ IInit /\ [][INext]_ivars
  /\ \A c \in Client : WF_ivars(Post(c) \/ ClientTimeout(c))
  /\ \A a \in Attempt : WF_ivars(ServerStep(a))
-----------------------------------------------------------------------------
\* BatchResult.status as batch_spans computes it from what it was told.
Status(c) ==
  IF told[c].failed = {} /\ told[c].named = {} THEN "SUCCESS"
  ELSE IF told[c].failed = 1 .. Len(batch[c]) THEN "FAILURE" ELSE "PARTIAL_FAILURE"

\* Every variable keeps its type: positions, phases, and the rows by attempt.
ITypeOK ==
  /\ \A c \in Client : at[c].chunk \in 1 .. Len(batch[c]) + 1 /\ at[c].attempt \in 1 .. MaxAttempts
  /\ \A c \in Client : told[c].failed \subseteq 1 .. Len(batch[c]) /\ told[c].ingested \in Nat
  /\ phase \in [Attempt -> {"none", "sent", "ingest", "commit", "ended"}]
  /\ lost \subseteq Client \X (1 .. MaxChunks) \X Span
  /\ \A a \in Attempt : phase[a] # "none" => inserted[a] \cup named[a] \subseteq Range(Chunk(a))
  /\ \A s \in DOMAIN stored : stored[s] \subseteq Attempt

\* A span is stored once (uq_span_records_tenant_span, ingestion.py:53), however
\* often it is sent: in one chunk, in two, by overlapping attempts, by two
\* clients at once.
StoredOnce == \A s \in DOMAIN stored : Cardinality(stored[s]) <= 1

\* batch_spans (client.py:66) drops nothing silently: when it returns, a span is
\* stored, or it is named in errors or failed_spans, or the attempt that
\* answered for it had flushed it and has not committed, or could not.
NothingDropped ==
  \A c \in Client : Returned(c) =>
    \A i \in DOMAIN batch[c] : \A s \in Range(batch[c][i]) :
      \/ stored[s] # {}
      \/ s \in told[c].named \/ i \in told[c].failed
      \/ <<c, i, s>> \in lost \/ \E a \in Attempt : s \in inserted[a] /\ phase[a] = "commit"

\* A SUCCESS (client.py:126) is never given for a chunk that was refused, or for
\* a span out of scope.
SuccessIsClean ==
  \A c \in Client : Returned(c) /\ Status(c) = "SUCCESS" =>
    BatchSpans(c) \cap (Foreign \cup Unscoped) = {}

\* ingested_count is no more than what the attempts the client was answered by
\* stored, are about to store or could not commit: an attempt that timed out and
\* was repeated is not counted twice.
CountsOnce ==
  \A c \in Client :
    told[c].ingested <= Cardinality({x \in Attempt \X BatchSpans(c) :
                                       x[1][1] = c /\ x[1] \in stored[x[2]]})
                        + Cardinality({x \in Attempt \X BatchSpans(c) :
                                       x[1][1] = c /\ x[2] \in inserted[x[1]] /\ phase[x[1]] = "commit"})
                        + Cardinality({l \in lost : l[1] = c})

\* Every batch_spans returned, and every transaction of the server ended.
BatchesEnded ==
  /\ \A c \in Client : Returned(c)
  /\ \A a \in Attempt : phase[a] \in {"none", "ended"}

\* batch_spans against ingest_spans (client.py, services/ingestion.py): a span is
\* stored once and counted once, and the result accounts for every one of them.
SpansAreAccounted == ITypeOK /\ StoredOnce /\ NothingDropped /\ SuccessIsClean /\ CountsOnce
=============================================================================
