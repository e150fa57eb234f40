-------------------------------- MODULE MCApi --------------------------------
(***************************************************************************)
(* The services behind the HTTP API, checked together: run and replay      *)
(* requests, span batches, the in-process job orchestrator, the queue's    *)
(* jobs, approval decisions and the BCRB session.  They keep disjoint      *)
(* state, so a behaviour exercises one of them, the scenario, and the      *)
(* others stay in an initial state of theirs.                              *)
(***************************************************************************)
EXTENDS RunApi, SpanIngestion, JobOrchestrator, WorkerJobs, RecoveryApprovals, BcrbSession, TLC

CONSTANTS
  q1, q2, q3, r1, k1, p1,    \* requests, a registered run, a key, a specification
  c1, c2, s1, s2, s3, s4,    \* clients and spans
  j1, j2,                    \* jobs
  a1, a2                     \* approval requests

VARIABLE scenario

allVars == <<rvars, ivars, jvars, wvars, avars, bvars, scenario>>
-----------------------------------------------------------------------------
(* Inputs                                                                  *)

Create(k, syn, ev) == [op |-> "create", key |-> k, synthetic |-> syn, evidence |-> ev]
FinalizeAs(s, ok) == [op |-> "finalize", run |-> r1, status |-> s, valid |-> ok]
ReplayOf(r) == [op |-> "replay", run |-> r, spec |-> p1]

\* Keyed creations that retry one another, registrations of one id, conflicting
\* and invalid finalizations, and replays of a created and of a registered run.
WorkList ==
  <<Create(k1, TRUE, "UNVERIFIED"), Create(k1, FALSE, "UNVERIFIED"), Create(None, TRUE, "BENCHMARK"),
    [op |-> "register", run |-> r1, synthetic |-> FALSE, evidence |-> "TEST_FIXTURE"],
    FinalizeAs("COMPLETED", TRUE), FinalizeAs("FAILED", TRUE), FinalizeAs("FAILED", FALSE),
    ReplayOf(r1), ReplayOf(q1)>>

\* One assignment for every three of them: who sends which does not matter,
\* but that the run ReplayOf(q1) names is created by q1.
MCWorks ==
  {(q1 :> WorkList[t[1]]) @@ (q2 :> WorkList[t[2]]) @@ (q3 :> WorkList[t[3]]) :
     t \in {u \in (1 .. 9) \X (1 .. 9) \X (1 .. 9) : u[1] <= u[2] /\ u[2] <= u[3]}}

\* Chunks that overlap in opposite orders, within a batch, so that a late attempt
\* of the first meets the second; two clients with one span; chunks with a span
\* out of scope and of another tenant.
MCBatches ==
  {(c1 :> << <<s1, s2>>, <<s2, s1, s2>> >>) @@ (c2 :> <<>>),
   (c1 :> << <<s1, s1>> >>) @@ (c2 :> << <<s3, s1>> >>),
   (c1 :> << <<s4, s1>>, <<s2>> >>) @@ (c2 :> <<>>)}

MCKinds == {(j1 :> a) @@ (j2 :> b) : a \in {"graph", "diagnosis"}, b \in {"graph", "recovery", "bcrb"}}

MCCtx == {(a1 :> "seeded") @@ (a2 :> "pipeline")}
MCAsk ==
  [row : {a1}, says : Decision, blast : {FALSE}, tenant : {"own"}]
  \cup [row : {a2}, says : {"approve", "reject"}, blast : {FALSE}, tenant : {"own"}]
  \cup [row : {a1}, says : {"approve", "rollback"}, blast : {FALSE}, tenant : {"other"}]
  \cup [row : {a1}, says : {"approve"}, blast : {TRUE}, tenant : {"own"}]

Invocation(r, e, g, d) == [role |-> r, error |-> e, gat |-> g, diffusion |-> d]
MCTraces ==
  {<<>>} \cup
  {<<Invocation(a, FALSE, g, 60), Invocation("generator", TRUE, 50, d), Invocation("policy", FALSE, h, 10)>> :
      a \in {"retrieval", "retriever"}, g \in {0, 150}, d \in {0, 80}, h \in {0, 160}}
  \cup {<<Invocation("retriever", FALSE, g, 0)>> : g \in {0, 200}}
  \cup {<<Invocation("retriever", FALSE, 0, 4), Invocation("retrieval", FALSE, 0, 0),
          Invocation("policy", FALSE, 30, 20)>>,
        <<Invocation("generator", FALSE, 10, 4), Invocation("retriever", FALSE, 0, 20)>>}
-----------------------------------------------------------------------------
(* One initial state of each component, for the scenarios it is not in     *)

RIdle ==
  /\ work = (CHOOSE w \in Works : TRUE) /\ runs = [r \in Run |-> Absent] /\ enforced = TRUE
  /\ RInit
IIdle == batch = (CHOOSE b \in Batches : TRUE) /\ IInit
JIdle == arq = FALSE /\ tenantOk = {} /\ JInit
WJIdle == kind = (CHOOSE f \in Kinds : TRUE) /\ WJInit
AIdle == ctx = (CHOOSE f \in Ctx : TRUE) /\ AInit
BIdle == trace = <<>> /\ BInit

Init ==
  \/ scenario = "runs"      /\ RInit /\ IIdle /\ JIdle /\ WJIdle /\ AIdle /\ BIdle
  \/ scenario = "spans"     /\ RIdle /\ IInit /\ JIdle /\ WJIdle /\ AIdle /\ BIdle
  \/ scenario = "pipeline"  /\ RIdle /\ IIdle /\ JInit /\ WJIdle /\ AIdle /\ BIdle
  \/ scenario = "jobs"      /\ RIdle /\ IIdle /\ JIdle /\ WJInit /\ AIdle /\ BIdle
  \/ scenario = "approvals" /\ RIdle /\ IIdle /\ JIdle /\ WJIdle /\ AInit /\ BIdle
  \/ scenario = "bcrb"      /\ RIdle /\ IIdle /\ JIdle /\ WJIdle /\ AIdle /\ BInit

Next ==
  \/ scenario = "runs"      /\ RNext  /\ UNCHANGED <<ivars, jvars, wvars, avars, bvars, scenario>>
  \/ scenario = "spans"     /\ INext  /\ UNCHANGED <<rvars, jvars, wvars, avars, bvars, scenario>>
  \/ scenario = "pipeline"  /\ JNext  /\ UNCHANGED <<rvars, ivars, wvars, avars, bvars, scenario>>
  \/ scenario = "jobs"      /\ WJNext /\ UNCHANGED <<rvars, ivars, jvars, avars, bvars, scenario>>
  \/ scenario = "approvals" /\ ANext  /\ UNCHANGED <<rvars, ivars, jvars, wvars, bvars, scenario>>
  \/ scenario = "bcrb"      /\ BNext  /\ UNCHANGED <<rvars, ivars, jvars, wvars, avars, scenario>>

\* The fairness of each component's own specification, in its scenario.
Fairness ==
  /\ \A q \in Request : WF_rvars(scenario = "runs" /\ Handle(q))
  /\ \A c \in Client : WF_ivars(scenario = "spans" /\ (Post(c) \/ ClientTimeout(c)))
  /\ \A a \in Attempt : WF_ivars(scenario = "spans" /\ ServerStep(a))
  /\ WF_jvars(scenario = "pipeline" /\ TaskStep)
  /\ \A c \in Canceller : WF_jvars(scenario = "pipeline" /\ CancelStep(c))
  /\ \A j \in Job : WF_wvars(scenario = "jobs" /\ WorkerStep(j))
  /\ \A d \in Decider : WF_avars(scenario = "approvals" /\ DeciderStep(d))
  /\ WF_bvars(scenario = "bcrb" /\ BNext)

ApiSpec == Init /\ [][Next]_allVars /\ Fairness
-----------------------------------------------------------------------------
\* Jobs in process and on the queue (jobs/orchestrator.py, worker.py): a status is
\* never better than what was done, an accepted cancellation of a job in process
\* holds, no quarantine stands without a request to decide about it, and a handler
\* that ends leaves a final row, unless it raised where nothing catches.
JobsAreHonest ==
  /\ JTypeOK /\ CancelledNeverCompletes /\ OneCancelAccepted /\ RestAgrees
  /\ WJTypeOK /\ QuarantineIsAnswerable /\ CompletedDidWork /\ EndedIsFinal

\* What a certificate or an approval request stands on: a human's decision that was
\* theirs to make (routes/recovery.py), a diagnosis of generate_diagnosis that was
\* measured (bcrb).  That a decision is obtained at all is not said: the handler
\* answers 500 to the approval of a request the recovery pipeline made.
DecisionsAreBacked ==
  /\ ATypeOK /\ OneDecision /\ MintedIsAuthorised
  /\ BTypeOK /\ RootCauseIsMeasured /\ TestedOnce /\ ConfidenceDiagnoses

\* A final status of a run stays (runs.py:1369); a decided request is written over
\* only by a decider that read it pending (routes/recovery.py:188); a cancelled job is
\* not, like these, protected by what its handler read: a delivery that starts or
\* fails writes over it without looking (worker.py:145, :168), but completed is never
\* written over a cancellation that was read (:157).
StatusesStand == FinalIsFinal /\ CancelOvertaken /\ FinalDecision

\* Everything ends: requests that wait for each other's keys, rows and locks
\* (database.get_db); batches whose transactions wait for each other's spans
\* (client.py, services/ingestion.py); a cancelled job, even if its coroutine would
\* never return (jobs/orchestrator.py:268); queued jobs, unless their worker timed
\* out or died for good or the API died before it sent them (worker.py), where a job
\* whose handler raised has ended though its row may say running; decisions
\* (routes/recovery.py); and sessions, with a diagnosis or with the exception of
\* their canary (bcrb/orchestrator.py).
ApiSettles ==
  <>[](/\ scenario = "runs" => RequestsEnded
       /\ scenario = "spans" => BatchesEnded
       /\ scenario = "pipeline" => CancelHasStopped
       /\ scenario = "jobs" => JobsSettled
       /\ scenario = "approvals" => DecidersEnded
       /\ scenario = "bcrb" => SessionEnded)
=============================================================================
