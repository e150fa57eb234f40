-------------------------------- MODULE RunApi --------------------------------
(***************************************************************************)
(* The run endpoints of the API (apps/api/src/routes/runs.py): create_run  *)
(* with its idempotency keys, register_run, finalize_run and create_replay.*)
(* A request is a process; it works in the one database transaction that   *)
(* database.get_db opens for it, at PostgreSQL's default isolation, where  *)
(* a read sees what is committed and the second insert of a unique value   *)
(* waits for the first transaction to end.  FastAPI runs the exit code of  *)
(* a dependency after the response is sent, so a handler that leaves the   *)
(* commit to get_db answers first and commits later.                       *)
(*                                                                         *)
(* The run a create_run request makes has a fresh uuid: it is named by the *)
(* request.  Spans, traces and digests are left out; what is kept of a run *)
(* is its status, its evidence class and whether it has a manifest.        *)
(***************************************************************************)
EXTENDS Naturals, FiniteSets

CONSTANTS
  Request,     \* the HTTP requests in flight
  Works,       \* what the requests may ask for: assignments of a request record
  Registered,  \* run ids that clients choose (RunRegisterRequest.run_id)
  Key,         \* idempotency keys
  Spec,        \* InterventionSpec.spec_id
  None         \* no key, no holder, no answer

Run == Request \cup Registered
Synthetic == {"SYNTHETIC_SIMULATION", "TEST_FIXTURE"}
KnownEvidence == Synthetic \cup {"PRODUCTION", "REAL_CONTROLLED_EXPERIMENT", "UNVERIFIED"}
FinalStatus == {"COMPLETED", "FAILED", "CANCELLED"}
RunStatus == {"pending", "running", "completed", "failed", "cancelled"}
Absent == [status |-> "absent", evidence |-> "UNVERIFIED", manifest |-> FALSE]

Work ==
       [op: {"create"}, key: Key \cup {None}, synthetic: BOOLEAN, evidence: STRING]
  \cup [op: {"register"}, run: Registered, synthetic: BOOLEAN, evidence: STRING]
  \cup [op: {"finalize"}, run: Run, status: FinalStatus, valid: BOOLEAN]
  \cup [op: {"replay"}, run: Run, spec: Spec]

ASSUME WorkAssumption ==
  \A w \in Works : DOMAIN w = Request /\ \A q \in Request : w[q] \in Work

\* The id of a created run is fresh; None is neither a request nor a key.
ASSUME NameAssumption == Request \cap Registered = {} /\ None \notin Request \cup Key

VARIABLES
  work,       \* the request's body
  step,       \* the handler's next step
  answer,     \* the response: an HTTP status, and the run it names
  seen,       \* the status finalize_run read when it locked the run
  runs,       \* request_runs with their manifests, committed
  keys,       \* idempotency_keys: the run of the stored response
  specs,      \* interventions.id of committed rows
  holder,     \* who has an uncommitted row, or a row lock, for a key, spec or run
  receipt,    \* the admission receipt of a replay request, in its store
  episodes,   \* replay requests whose episode is committed
  enforced    \* whether the database enforces foreign keys: PostgreSQL, not SQLite

rvars == <<work, step, answer, seen, runs, keys, specs, holder, receipt, episodes, enforced>>
tables == <<runs, keys, specs, episodes>>
fixed == <<work, seen, enforced>>

Reply(code, run) == [code |-> code, run |-> run]
Ended == {"done", "failed", "crashed"}

RInit ==
  /\ work \in Works
  /\ step = [q \in Request |-> "start"]
  /\ answer = [q \in Request |-> Reply(0, None)]
  /\ seen = [q \in Request |-> "absent"]
  /\ \E r \in [Run -> {Absent, [status |-> "completed", evidence |-> "SYNTHETIC_SIMULATION",
                                manifest |-> TRUE]}] :
        /\ \A q \in Request : r[q] = Absent
        /\ runs = r
  /\ keys = [k \in Key |-> None]
  /\ specs = {}
  /\ holder = [x \in Key \cup Spec \cup Run |-> None]
  /\ receipt = [q \in Request |-> "none"]
  /\ episodes = {}
  /\ enforced \in BOOLEAN

At(q, op, s) == work[q].op = op /\ step[q] = s
Goto(q, s) == step' = [step EXCEPT ![q] = s]
Free(x, q) == holder[x] \in {None, q}
Hold(x, q) == holder' = [holder EXCEPT ![x] = q]

\* The end of q's transaction: whatever it inserted or locked is let go.
Release(q) == holder' = [x \in DOMAIN holder |-> IF holder[x] = q THEN None ELSE holder[x]]

Answer(q, code, run) == answer' = [answer EXCEPT ![q] = Reply(code, run)]

\* An exception: get_db rolls the transaction back, the client gets an error.
Refuse(q, code) ==
  /\ Answer(q, code, None)
  /\ Goto(q, "failed")
  /\ Release(q)
  /\ UNCHANGED <<fixed, tables>>

-----------------------------------------------------------------------------
(* create_run                                                              *)

\* UNVERIFIED is replaced by what the execution mode says; anything else the
\* client claims is kept.
EvidenceClass(w) ==
  IF w.evidence # "UNVERIFIED" THEN w.evidence
  ELSE IF w.synthetic THEN "SYNTHETIC_SIMULATION" ELSE "PRODUCTION"

\* A key in the header and another in the body are refused, and so is a key stored
\* for another path (no route stores one); the stored response is returned, or the
\* request goes on.
LookupKey(q) ==
  /\ At(q, "create", "start")
  /\ LET k == work[q].key IN
       \/ k # None /\ \E code \in {400, 409} : Refuse(q, code)
       \/ /\ IF k # None /\ keys[k] # None
               THEN Answer(q, 201, keys[k]) /\ Goto(q, "done")
               ELSE UNCHANGED answer /\ Goto(q, "execute")
          /\ UNCHANGED <<fixed, tables, holder>>
  /\ UNCHANGED receipt

\* The policy denies.
PolicyDenies(q) ==
  /\ At(q, "create", "execute")
  /\ Refuse(q, 403)
  /\ UNCHANGED receipt

\* The mock pipeline runs, and raises for an evidence class it does not know.
ExecuteSynthetic(q) ==
  /\ At(q, "create", "execute") /\ work[q].synthetic
  /\ \/ EvidenceClass(work[q]) \notin KnownEvidence /\ Refuse(q, 500)
     \/ /\ EvidenceClass(work[q]) \in KnownEvidence
        /\ Goto(q, "persist")
        /\ UNCHANGED <<fixed, answer, tables, holder>>
  /\ UNCHANGED receipt

\* The retriever, the model and the artifact store are called: any may fail.
ExecuteReal(q) ==
  /\ At(q, "create", "execute") /\ ~work[q].synthetic
  /\ \/ Refuse(q, 500)
     \/ Goto(q, "persist") /\ UNCHANGED <<fixed, answer, tables, holder>>
  /\ UNCHANGED receipt

\* The manifest binds the run to files that have to be there: the lock file, the
\* replay engine and the route.  It fails closed.
BuildManifest == {"bound", "artifact missing"}

\* Run, spans, trace and manifest are flushed under the fresh run id.
PersistSynthetic(q) ==
  /\ At(q, "create", "persist") /\ work[q].synthetic
  /\ \E manifest \in BuildManifest :
       \/ manifest # "bound" /\ Refuse(q, 500)
       \/ /\ manifest = "bound"
          /\ Goto(q, IF work[q].key = None THEN "answer" ELSE "key")
          /\ UNCHANGED <<fixed, answer, tables, holder>>
  /\ UNCHANGED receipt

PersistReal(q) ==
  /\ At(q, "create", "persist") /\ ~work[q].synthetic
  /\ Goto(q, IF work[q].key = None THEN "answer" ELSE "key")
  /\ UNCHANGED <<fixed, answer, tables, holder, receipt>>

\* Mutant of InsertKey: no unique constraint on the key.
InsertKeyUnchecked(q) ==
  /\ At(q, "create", "key")
  /\ Goto(q, "answer")
  /\ UNCHANGED <<fixed, answer, tables, holder, receipt>>

\* The insert of the key waits for another insert of it, and fails if that one
\* was committed (uq_idempotency_tenant_key).
InsertKey(q) ==
  /\ At(q, "create", "key")
  /\ LET k == work[q].key IN
       /\ Free(k, q)
       /\ \/ keys[k] # None /\ Refuse(q, 500)
          \/ /\ keys[k] = None
             /\ Hold(k, q) /\ Goto(q, "answer")
             /\ UNCHANGED <<fixed, answer, tables>>
  /\ UNCHANGED receipt

AnswerCreate(q) ==
  /\ At(q, "create", "answer")
  /\ Answer(q, 201, q) /\ Goto(q, "commit")
  /\ UNCHANGED <<fixed, tables, holder, receipt>>

CommitCreate(q) ==
  /\ At(q, "create", "commit")
  /\ runs' = [runs EXCEPT ![q] = [status |-> "completed", evidence |-> EvidenceClass(work[q]),
                                  manifest |-> TRUE]]
  /\ keys' = [k \in Key |-> IF k = work[q].key THEN q ELSE keys[k]]
  /\ Goto(q, "done") /\ Release(q)
  /\ UNCHANGED <<fixed, answer, specs, episodes, receipt>>

-----------------------------------------------------------------------------
(* register_run                                                            *)

\* The client may choose the run id; a second row with it is a key violation.
InsertRun(q) ==
  /\ At(q, "register", "start")
  /\ LET r == work[q].run IN
       /\ Free(r, q)
       /\ \/ runs[r] # Absent /\ Refuse(q, 500)
          \/ /\ runs[r] = Absent
             /\ Hold(r, q) /\ Answer(q, 201, r) /\ Goto(q, "commit")
             /\ UNCHANGED <<fixed, tables>>
  /\ UNCHANGED receipt

CommitRegister(q) ==
  /\ At(q, "register", "commit")
  /\ runs' = [runs EXCEPT ![work[q].run] =
                [status |-> "running", evidence |-> EvidenceClass(work[q]), manifest |-> FALSE]]
  /\ Goto(q, "done") /\ Release(q)
  /\ UNCHANGED <<fixed, answer, keys, specs, episodes, receipt>>

-----------------------------------------------------------------------------
(* finalize_run                                                            *)

\* Mutant of LockRun: the row is read without FOR UPDATE.
LockRunNot(q) ==
  /\ At(q, "finalize", "start")
  /\ LET r == work[q].run IN
       \/ runs[r] = Absent /\ Refuse(q, 404)
       \/ /\ runs[r] # Absent /\ Goto(q, "finalize")
          /\ seen' = [seen EXCEPT ![q] = runs[r].status]
          /\ UNCHANGED <<work, enforced, answer, tables, holder>>
  /\ UNCHANGED receipt

\* SELECT ... FOR UPDATE: waits for the row, then sees its committed status.
LockRun(q) ==
  /\ At(q, "finalize", "start")
  /\ LET r == work[q].run IN
       /\ Free(r, q)
       /\ \/ runs[r] = Absent /\ Refuse(q, 404)
          \/ /\ runs[r] # Absent /\ Hold(r, q) /\ Goto(q, "finalize")
             /\ seen' = [seen EXCEPT ![q] = runs[r].status]
             /\ UNCHANGED <<work, enforced, answer, tables>>
  /\ UNCHANGED receipt

\* A final status is repeated or refused; a run in any other status takes the
\* new one unless a total is negative or the commit fails.  The handler commits
\* before it answers.
Finalize(q) ==
  /\ At(q, "finalize", "finalize")
  /\ LET r == work[q].run
         old == seen[q]
     IN \/ old \in FinalStatus /\ old # work[q].status /\ Refuse(q, 409)
        \/ old \notin FinalStatus /\ ~work[q].valid /\ Refuse(q, 422)
        \/ old \notin FinalStatus /\ work[q].valid /\ Refuse(q, 500)
        \/ /\ old \in FinalStatus => old = work[q].status
           /\ old \notin FinalStatus => work[q].valid
           /\ runs' = [runs EXCEPT ![r].status = work[q].status]
           /\ Answer(q, 200, r) /\ Goto(q, "done") /\ Release(q)
           /\ UNCHANGED <<fixed, keys, specs, episodes>>
  /\ UNCHANGED receipt

-----------------------------------------------------------------------------
(* create_replay                                                           *)

\* The run must be the tenant's, synthetic, with a status of RunStatus (the
\* final statuses finalize_run writes are not); the versions must be known.
LoadRun(q) ==
  /\ At(q, "replay", "start")
  /\ LET r == runs[work[q].run] IN
       \/ r = Absent /\ Refuse(q, 404)
       \/ r # Absent /\ r.evidence \notin Synthetic /\ Refuse(q, 400)
       \/ r # Absent /\ r.evidence \in Synthetic /\ r.status \notin RunStatus /\ Refuse(q, 500)
       \/ /\ r # Absent /\ r.evidence \in Synthetic /\ r.status \in RunStatus
          /\ Goto(q, "intervene")
          /\ UNCHANGED <<fixed, answer, tables, holder>>
  /\ UNCHANGED receipt

\* The intervention has the client's spec_id as its primary key.  The query for
\* the manifest flushes it, so a repeated spec_id waits here, and fails if the
\* other request was committed; a run without manifest is refused next.
InsertIntervention(q) ==
  /\ At(q, "replay", "intervene")
  /\ Free(work[q].spec, q)
  /\ \/ work[q].spec \in specs /\ Refuse(q, 500)
     \/ work[q].spec \notin specs /\ ~runs[work[q].run].manifest /\ Refuse(q, 404)
     \/ /\ work[q].spec \notin specs /\ runs[work[q].run].manifest
        /\ Hold(work[q].spec, q) /\ Goto(q, "issue")
        /\ UNCHANGED <<fixed, answer, tables>>
  /\ UNCHANGED receipt

\* The store commits each of its operations at once.  issue may fail, and a
\* refusal by verify leaves the row as it is: only the local copy is voided.
IssueReceipt(q) ==
  /\ At(q, "replay", "issue")
  /\ \/ Refuse(q, 500) /\ UNCHANGED receipt
     \/ /\ receipt' = [receipt EXCEPT ![q] = "ISSUED"]
        /\ Goto(q, "verify")
        /\ UNCHANGED <<fixed, answer, tables, holder>>

VerifyReceipt(q) ==
  /\ At(q, "replay", "verify")
  /\ \/ Refuse(q, 409) /\ UNCHANGED receipt
     \/ /\ receipt' = [receipt EXCEPT ![q] = "VERIFIED"]
        /\ Goto(q, "replay")
        /\ UNCHANGED <<fixed, answer, tables, holder>>

\* execute_replay raises: the receipt is voided in the store, then the request
\* fails.
ReplayRaises(q) ==
  /\ At(q, "replay", "replay")
  /\ receipt' = [receipt EXCEPT ![q] = "VOIDED"]
  /\ \E code \in {409, 500} : Refuse(q, code)

ReplayRuns(q) ==
  /\ At(q, "replay", "replay")
  /\ Goto(q, "consume")
  /\ UNCHANGED <<fixed, answer, tables, holder, receipt>>

\* The receipt is consumed before the episode is written, outside the try that
\* would void it.
ConsumeReceipt(q) ==
  /\ At(q, "replay", "consume")
  /\ \/ Refuse(q, 500) /\ UNCHANGED receipt
     \/ /\ receipt' = [receipt EXCEPT ![q] = "CONSUMED"]
        /\ Goto(q, "record")
        /\ UNCHANGED <<fixed, answer, tables, holder>>

\* The episode and its trace are flushed.  The trace's run_id is the replay's
\* id, which is not in request_runs: a database that enforces the foreign key
\* refuses it.
RecordEpisode(q) ==
  /\ At(q, "replay", "record")
  /\ \/ enforced /\ Refuse(q, 500)
     \/ /\ ~enforced
        /\ Answer(q, 201, work[q].run) /\ Goto(q, "commit")
        /\ UNCHANGED <<fixed, tables, holder>>
  /\ UNCHANGED receipt

CommitReplay(q) ==
  /\ At(q, "replay", "commit")
  /\ specs' = specs \cup {work[q].spec}
  /\ episodes' = episodes \cup {q}
  /\ Goto(q, "done") /\ Release(q)
  /\ UNCHANGED <<fixed, answer, runs, keys, receipt>>

-----------------------------------------------------------------------------
\* get_db's commit fails after the response was sent; the rows are lost.
CommitFails(q) ==
  /\ step[q] = "commit"
  /\ Goto(q, "failed") /\ Release(q)
  /\ UNCHANGED <<fixed, answer, tables, receipt>>

\* The server dies: the database rolls the transaction back.
Crash(q) ==
  /\ step[q] \notin Ended \cup {"start"}
  /\ Goto(q, "crashed") /\ Release(q)
  /\ UNCHANGED <<fixed, answer, tables, receipt>>

CreateStep(q) ==
  \/ LookupKey(q) \/ PolicyDenies(q) \/ ExecuteSynthetic(q) \/ ExecuteReal(q)
  \/ PersistSynthetic(q) \/ PersistReal(q) \/ InsertKey(q) \/ AnswerCreate(q) \/ CommitCreate(q)
RegisterStep(q) == InsertRun(q) \/ CommitRegister(q)
FinalizeStep(q) == LockRun(q) \/ Finalize(q)
ReplayStep(q) ==
  \/ LoadRun(q) \/ InsertIntervention(q) \/ IssueReceipt(q) \/ VerifyReceipt(q)
  \/ ReplayRaises(q) \/ ReplayRuns(q) \/ ConsumeReceipt(q) \/ RecordEpisode(q)
  \/ CommitReplay(q)

Handle(q) ==
  CreateStep(q) \/ RegisterStep(q) \/ FinalizeStep(q) \/ ReplayStep(q) \/ CommitFails(q)

RNext == \E q \in Request : Handle(q) \/ Crash(q)

\* The server's event loop runs every handler that is not blocked in the database.
RSpec == RInit /\ [][RNext]_rvars /\ \A q \in Request : WF_rvars(Handle(q))
-----------------------------------------------------------------------------
\* Every variable keeps its type: the rows, the handlers' steps and answers.
RTypeOK ==
  /\ work \in Works
  /\ seen \in [Request -> RunStatus \cup FinalStatus \cup {"absent"}]
  /\ \A r \in Run : runs[r].status \in RunStatus \cup FinalStatus \cup {"absent"}
  /\ keys \in [Key -> Request \cup {None}]
  /\ specs \subseteq Spec /\ episodes \subseteq Request
  /\ holder \in [Key \cup Spec \cup Run -> Request \cup {None}]
  /\ receipt \in [Request -> {"none", "ISSUED", "VERIFIED", "CONSUMED", "VOIDED"}]

\* create_run's idempotency (runs.py:303 and :718): however many requests carry
\* a key at once, fail and are sent again, the runs committed under the key are
\* the one its stored response names, and every request that was completed
\* answered with that run.
KeyNamesItsRun ==
  \A k \in Key :
    LET mine == {q \in Request : work[q].op = "create" /\ work[q].key = k}
    IN /\ {q \in mine : runs[q] # Absent} = {keys[k]} \ {None}
       /\ \A q \in mine : step[q] = "done" => answer[q].run = keys[k]

\* finalize_run (runs.py:1369 and :1376): a final status is never replaced, also
\* when two requests with different outcomes arrive together.
FinalIsFinal ==
  [][\A r \in Run : runs[r].status \in FinalStatus => runs'[r].status = runs[r].status]_rvars

\* create_replay ignores its idempotency key, yet a replay sent again with the
\* same intervention leaves at most one episode: its spec_id is the primary key
\* of the intervention (runs.py:1106), inserted before anything is admitted.
OneEpisodePerSpec ==
  \A s \in Spec : Cardinality({q \in episodes : work[q].spec = s}) <= 1

\* An episode is only recorded under a receipt that was consumed, and a receipt
\* that was voided or left unconsumed has none (runs.py:1247 to :1252).
EpisodeIsPaid == \A q \in episodes : receipt[q] = "CONSUMED"

\* Every request was answered: none waits for another's key, row or lock.
RequestsEnded == \A q \in Request : step[q] \in Ended

\* The run routes (runs.py): one run for a key, one episode for a specification,
\* and no episode without its receipt, whatever requests race, fail and retry.
RunsAreConsistent == RTypeOK /\ KeyNamesItsRun /\ OneEpisodePerSpec /\ EpisodeIsPaid
=============================================================================
