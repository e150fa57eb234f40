------------------------------- MODULE ApiProofs -------------------------------
(***************************************************************************)
(* What the services behind the HTTP API guarantee, for any requests, jobs *)
(* and bodies: the run routes, the job orchestrator and the worker's jobs, *)
(* the approval routes, the BCRB session, and the ingestion of spans with  *)
(* what its client is told.                                                *)
(*                                                                         *)
(* The run routes (RunApi).  A handler is sound if it holds the row it has *)
(* written or locked but not committed, and if what it read under the lock *)
(* is still true: RSound says so for every kind of request.  A step of one *)
(* handler changes only what that handler holds, so the others stay sound. *)
(***************************************************************************)
EXTENDS MCApi, FiniteSetTheorems, SequenceTheorems, WellFoundedInduction, TLAPS

RStatus == RunStatus \cup FinalStatus \cup {"absent"}
EvidenceName == STRING \cup KnownEvidence
RRow == [status: RStatus, evidence: EvidenceName, manifest: BOOLEAN]
RStep == {"start", "execute", "persist", "key", "answer", "commit", "finalize", "intervene",
          "issue", "verify", "replay", "consume", "record"} \cup {"done", "failed", "crashed"}
InsertedSpec == {"issue", "verify", "replay", "consume", "record", "commit"}

RTypes ==
  /\ RTypeOK
  /\ step \in [Request -> RStep] /\ runs \in [Run -> RRow] /\ DOMAIN answer = Request
  /\ \A r \in Run : runs[r] = Absent \/ runs[r].status # "absent"

\* create_run holds the key it inserted, which nobody else has stored; a run that is
\* committed is the one of its key, and a request that is done answered with it.
CreateSound(q) ==
  work[q].op = "create" =>
    /\ step[q] = "key" => work[q].key # None
    /\ step[q] \in {"answer", "commit"} /\ work[q].key # None =>
         holder[work[q].key] = q /\ keys[work[q].key] = None
    /\ step[q] = "commit" => answer[q].run = q
    /\ runs[q] # Absent => step[q] = "done" /\ (work[q].key # None => keys[work[q].key] = q)
    /\ step[q] = "done" /\ work[q].key # None =>
         keys[work[q].key] # None /\ answer[q].run = keys[work[q].key]

\* register_run holds the id it inserted, and finalize_run the row it locked, whose
\* status is still the one it read.
RegisterSound(q) ==
  work[q].op = "register" /\ step[q] = "commit" =>
    holder[work[q].run] = q /\ runs[work[q].run] = Absent
FinalizeSound(q) ==
  work[q].op = "finalize" /\ step[q] = "finalize" =>
    holder[work[q].run] = q /\ runs[work[q].run] # Absent /\ seen[q] = runs[work[q].run].status

\* create_replay holds the spec_id it inserted, and has consumed its receipt before
\* it records an episode.
ReplaySound(q) ==
  /\ work[q].op = "replay" /\ step[q] \in InsertedSpec =>
       holder[work[q].spec] = q /\ work[q].spec \notin specs
  /\ work[q].op = "replay" /\ step[q] \in {"record", "commit"} => receipt[q] = "CONSUMED"
  /\ q \in episodes => /\ work[q].op = "replay" /\ step[q] = "done"
                       /\ receipt[q] = "CONSUMED" /\ work[q].spec \in specs

RSound(q) == CreateSound(q) /\ RegisterSound(q) /\ FinalizeSound(q) /\ ReplaySound(q)

\* A stored key names the run of a request that carried it.
KeyIsBacked(k) ==
  keys[k] # None => /\ keys[k] \in Request /\ work[keys[k]].op = "create"
                    /\ work[keys[k]].key = k /\ runs[keys[k]] # Absent

RInv ==
  /\ RTypes
  /\ \A q \in Request : RSound(q)
  /\ \A k \in Key : KeyIsBacked(k)
  /\ \A p, q \in episodes : work[p].spec = work[q].spec => p = q

\* A step of q: the other handlers are where they were and hold what they held.
ROwn(q) ==
  /\ work' = work /\ enforced' = enforced
  /\ step' \in [Request -> RStep] /\ DOMAIN answer' = Request
  /\ seen' \in [Request -> RStatus]
  /\ receipt' \in [Request -> {"none", "ISSUED", "VERIFIED", "CONSUMED", "VOIDED"}]
  /\ holder' \in [Key \cup Spec \cup Run -> Request \cup {None}]
  /\ \A p \in Request \ {q} : /\ step'[p] = step[p] /\ answer'[p] = answer[p]
                              /\ seen'[p] = seen[p] /\ receipt'[p] = receipt[p]
                              /\ \A x \in Key \cup Spec \cup Run : holder[x] = p => holder'[x] = p

\* What a step may never do: replace a final status.
FinalKept == \A r \in Run : runs[r].status \in FinalStatus => runs'[r].status = runs[r].status

-----------------------------------------------------------------------------
\* The bodies of requests, by their kind.
LEMMA WorkFacts ==
  ASSUME RInv, NEW q \in Request
  PROVE  /\ work[q].op \in {"create", "register", "finalize", "replay"}
         /\ work[q].op = "create" => /\ work[q].key \in Key \cup {None}
                                     /\ work[q].synthetic \in BOOLEAN /\ work[q].evidence \in STRING
         /\ work[q].op = "register" => /\ work[q].run \in Registered /\ work[q].run \in Run
                                       /\ work[q].synthetic \in BOOLEAN /\ work[q].evidence \in STRING
         /\ work[q].op = "finalize" => work[q].run \in Run /\ work[q].status \in FinalStatus
         /\ work[q].op = "replay" => work[q].run \in Run /\ work[q].spec \in Spec
         /\ q \in Run
<1>1. work[q] \in Work
  BY WorkAssumption DEF RInv, RTypes, RTypeOK
<1> QED BY <1>1 DEF Work, Run

\* What RInv says of the variables.
LEMMA RFacts ==
  ASSUME RInv
  PROVE  /\ step \in [Request -> RStep] /\ runs \in [Run -> RRow] /\ DOMAIN answer = Request
         /\ seen \in [Request -> RStatus] /\ keys \in [Key -> Request \cup {None}]
         /\ receipt \in [Request -> {"none", "ISSUED", "VERIFIED", "CONSUMED", "VOIDED"}]
         /\ holder \in [Key \cup Spec \cup Run -> Request \cup {None}]
         /\ specs \subseteq Spec /\ episodes \subseteq Request
         /\ \A r \in Run : runs[r] = Absent \/ runs[r].status # "absent"
         /\ \A q \in Request : RSound(q) /\ q # None
  BY NameAssumption DEF RInv, RTypes, RTypeOK, RStatus

\* A step of q that goes to s and lets q's rows go, takes one, or leaves them.
LEMMA RStepOwn ==
  ASSUME RInv, NEW q \in Request, NEW s \in RStep, Goto(q, s),
         work' = work, enforced' = enforced,
         answer' = answer \/ (\E code, run : Answer(q, code, run)),
         seen' = seen \/ (\E v \in RStatus : seen' = [seen EXCEPT ![q] = v]),
         receipt' = receipt \/ (\E v \in {"ISSUED", "VERIFIED", "CONSUMED", "VOIDED"} :
                                  receipt' = [receipt EXCEPT ![q] = v]),
         \/ holder' = holder \/ Release(q)
         \/ \E x \in Key \cup Spec \cup Run : Free(x, q) /\ Hold(x, q)
  PROVE  ROwn(q) /\ step'[q] = s
<1>1. /\ step' \in [Request -> RStep] /\ step'[q] = s
      /\ \A p \in Request \ {q} : step'[p] = step[p]
  BY RFacts DEF Goto
<1>2. DOMAIN answer' = Request /\ \A p \in Request \ {q} : answer'[p] = answer[p]
  BY RFacts DEF Answer
<1>3. seen' \in [Request -> RStatus] /\ \A p \in Request \ {q} : seen'[p] = seen[p]
  BY RFacts
<1>4. /\ receipt' \in [Request -> {"none", "ISSUED", "VERIFIED", "CONSUMED", "VOIDED"}]
      /\ \A p \in Request \ {q} : receipt'[p] = receipt[p]
  BY RFacts
<1>5. /\ holder' \in [Key \cup Spec \cup Run -> Request \cup {None}]
      /\ \A p \in Request \ {q} : \A x \in Key \cup Spec \cup Run : holder[x] = p => holder'[x] = p
  <2>1. CASE holder' = holder
    BY <2>1, RFacts
  <2>2. CASE Release(q)
    BY <2>2, RFacts DEF Release
  <2>3. CASE \E x \in Key \cup Spec \cup Run : Free(x, q) /\ Hold(x, q)
    BY <2>3, RFacts DEF Free, Hold
  <2> QED BY <2>1, <2>2, <2>3
<1> QED BY <1>1, <1>2, <1>3, <1>4, <1>5 DEF ROwn


\* What a step of q may do to the tables: it stores a key or a specification it
\* holds, makes its own run, or changes a row it holds.
RChange(q) ==
  /\ \A p \in Request \ {q} : runs'[p] # Absent => runs[p] # Absent
  /\ \A k \in Key : keys'[k] = keys[k] \/ (keys[k] = None /\ holder[k] = q)
  /\ \A r \in Run : \/ runs'[r] = runs[r] \/ holder[r] = q
                    \/ runs[r] = Absent /\ r \notin Registered
  /\ specs \subseteq specs' /\ \A s \in specs' \ specs : holder[s] = q
  /\ episodes' \subseteq episodes \cup {q}

\* Then every other handler stays sound: it holds what it relies on.
LEMMA ROthers ==
  ASSUME RInv, NEW q \in Request, ROwn(q), RChange(q), NEW p \in Request, p # q, RTypes'
  PROVE  RSound(p)'
<1>1. /\ work'[p] = work[p] /\ step'[p] = step[p] /\ answer'[p] = answer[p]
      /\ seen'[p] = seen[p] /\ receipt'[p] = receipt[p]
      /\ \A x \in Key \cup Spec \cup Run : holder[x] = p => holder'[x] = p
      /\ RSound(p) /\ p # None /\ q # None
  BY RFacts DEF ROwn
<1>2. CreateSound(p)'
  <2> SUFFICES ASSUME work[p].op = "create" PROVE CreateSound(p)'
    BY <1>1 DEF CreateSound
  <2>1. work[p].key \in Key \cup {None}
    BY WorkFacts
  <2>2. work[p].key # None => \/ keys'[work[p].key] = keys[work[p].key]
                              \/ keys[work[p].key] = None /\ holder[work[p].key] = q
    BY <2>1 DEF RChange
  <2>3. runs'[p] # Absent => runs[p] # Absent
    BY DEF RChange
  <2> QED BY <1>1, <2>1, <2>2, <2>3 DEF CreateSound, RSound
<1>3. RegisterSound(p)'
  <2> SUFFICES ASSUME work[p].op = "register", step[p] = "commit" PROVE RegisterSound(p)'
    BY <1>1 DEF RegisterSound
  <2>1. work[p].run \in Registered /\ work[p].run \in Run
    BY WorkFacts
  <2> QED BY <1>1, <2>1 DEF RegisterSound, RSound, RChange
<1>4. FinalizeSound(p)'
  <2> SUFFICES ASSUME work[p].op = "finalize", step[p] = "finalize" PROVE FinalizeSound(p)'
    BY <1>1 DEF FinalizeSound
  <2>1. work[p].run \in Run
    BY WorkFacts
  <2> QED BY <1>1, <2>1 DEF FinalizeSound, RSound, RChange
<1>5. ReplaySound(p)'
  <2>1. work[p].op = "replay" => work[p].spec \in Spec
    BY WorkFacts
  <2>2. p \in episodes' => p \in episodes
    BY DEF RChange
  <2> QED BY <1>1, <2>1, <2>2 DEF ReplaySound, RSound, RChange
<1> QED BY <1>2, <1>3, <1>4, <1>5 DEF RSound

\* A step of q that keeps q sound and the stored keys backed keeps the invariant.
LEMMA RCommit ==
  ASSUME RInv, NEW q \in Request, ROwn(q), RChange(q), RTypes', RSound(q)',
         \A k \in Key : KeyIsBacked(k)',
         q \in episodes' \ episodes => work[q].spec \notin specs
  PROVE  RInv'
<1>1. \A p \in Request : RSound(p)'
  BY ROthers
<1>2. ASSUME NEW p \in episodes', NEW o \in episodes', (work[p].spec = work[o].spec)'
      PROVE  p = o
  <2>1. work' = work /\ episodes' \subseteq episodes \cup {q} /\ episodes \subseteq Request
    BY RFacts DEF ROwn, RChange
  <2>2. \A e \in episodes : work[e].spec \in specs
    BY RFacts DEF RSound, ReplaySound
  <2> QED BY <1>2, <2>1, <2>2 DEF RInv
<1> QED BY <1>1, <1>2 DEF RInv

\* A step of q that leaves the tables alone.
LEMMA RLocal ==
  ASSUME RInv, NEW q \in Request, ROwn(q), UNCHANGED tables, RSound(q)'
  PROVE  RInv' /\ FinalKept
<1>1. /\ runs' = runs /\ keys' = keys /\ specs' = specs /\ episodes' = episodes
      /\ work' = work
  BY DEF tables, ROwn
<1>2. RTypes'
  BY <1>1 DEF RInv, RTypes, RTypeOK, ROwn, RStatus
<1>3. RChange(q)
  BY <1>1 DEF RChange
<1>4. \A k \in Key : KeyIsBacked(k)'
  BY <1>1 DEF RInv, KeyIsBacked
<1>5. RInv'
  BY <1>1, <1>2, <1>3, <1>4, RCommit
<1> QED BY <1>1, <1>5 DEF FinalKept

\* A request that fails before it is done leaves nothing behind.
LEMMA RAbort ==
  ASSUME RInv, NEW q \in Request, ROwn(q), UNCHANGED tables, step[q] # "done",
         step'[q] \in {"failed", "crashed"}
  PROVE  RInv' /\ FinalKept
<1>1. RSound(q) /\ work' = work /\ runs' = runs /\ episodes' = episodes
  BY RFacts DEF tables, ROwn
<1>2. RSound(q)'
  BY <1>1 DEF RSound, CreateSound, RegisterSound, FinalizeSound, ReplaySound, InsertedSpec
<1> QED BY <1>2, RLocal

LEMMA RRefuse ==
  ASSUME RInv, NEW q \in Request, step[q] # "done", NEW code, Refuse(q, code),
         receipt' = receipt \/ (\E v \in {"ISSUED", "VERIFIED", "CONSUMED", "VOIDED"} :
                                  receipt' = [receipt EXCEPT ![q] = v])
  PROVE  RInv' /\ FinalKept
<1>1. /\ Answer(q, code, None) /\ Goto(q, "failed") /\ Release(q) /\ UNCHANGED tables
      /\ work' = work /\ seen' = seen /\ enforced' = enforced
  BY DEF Refuse, fixed
<1>2. "failed" \in RStep
  BY DEF RStep
<1>3. ROwn(q) /\ step'[q] = "failed"
  BY <1>1, <1>2, RStepOwn
<1> QED BY <1>1, <1>3, RAbort

\* A step of a create_run handler that neither answers nor commits.
LEMMA RCreateGoto ==
  ASSUME RInv, NEW q \in Request, work[q].op = "create", step[q] # "done",
         NEW s \in {"execute", "persist", "key", "answer"}, Goto(q, s),
         s = "key" => work[q].key # None, s = "answer" => work[q].key = None,
         UNCHANGED <<fixed, answer, tables, holder, receipt>>
  PROVE  RInv' /\ FinalKept
<1>1. /\ s \in RStep /\ UNCHANGED tables /\ work' = work /\ seen' = seen /\ enforced' = enforced
      /\ answer' = answer /\ holder' = holder /\ receipt' = receipt
      /\ runs' = runs /\ episodes' = episodes
  BY DEF RStep, fixed, tables
<1>2. ROwn(q) /\ step'[q] = s
  BY <1>1, RStepOwn
<1>3. RSound(q)
  BY RFacts
<1>4. RSound(q)'
  BY <1>1, <1>2, <1>3 DEF RSound, CreateSound, RegisterSound, FinalizeSound, ReplaySound
<1> QED BY <1>1, <1>2, <1>4, RLocal

LEMMA RLookupKey ==
  ASSUME RInv, NEW q \in Request, LookupKey(q)
  PROVE  RInv' /\ FinalKept
<1> DEFINE k == work[q].key
<1>1. work[q].op = "create" /\ step[q] = "start" /\ receipt' = receipt
  BY DEF LookupKey, At
<1>0. CASE \E code : Refuse(q, code)
  BY <1>0, <1>1, RRefuse
<1>2. CASE /\ k # None /\ keys[k] # None
           /\ Answer(q, 201, keys[k]) /\ Goto(q, "done") /\ UNCHANGED <<fixed, tables, holder>>
  <2>1. /\ Answer(q, 201, keys[k]) /\ Goto(q, "done") /\ UNCHANGED tables
        /\ work' = work /\ seen' = seen /\ enforced' = enforced /\ holder' = holder /\ receipt' = receipt
        /\ runs' = runs /\ keys' = keys /\ episodes' = episodes
    BY <1>1, <1>2 DEF fixed, tables
  <2>2. "done" \in RStep
    BY DEF RStep
  <2>3. ROwn(q) /\ step'[q] = "done"
    BY <2>1, <2>2, RStepOwn
  <2>4. answer'[q].run = keys[k]
    BY <2>1, RFacts DEF Answer, Reply
  <2>5. RSound(q)
    BY RFacts
  <2>6. RSound(q)'
    BY <1>1, <1>2, <2>1, <2>3, <2>4, <2>5
       DEF RSound, CreateSound, RegisterSound, FinalizeSound, ReplaySound
  <2> QED BY <2>1, <2>3, <2>6, RLocal
<1>3. CASE UNCHANGED answer /\ Goto(q, "execute") /\ UNCHANGED <<fixed, tables, holder>>
  <2>1. UNCHANGED <<fixed, answer, tables, holder, receipt>>
    BY <1>1, <1>3
  <2> QED BY <1>1, <1>3, <2>1, RCreateGoto
<1> QED BY <1>0, <1>2, <1>3 DEF LookupKey

LEMMA RExecute ==
  ASSUME RInv, NEW q \in Request,
         PolicyDenies(q) \/ ExecuteSynthetic(q) \/ ExecuteReal(q) \/ PersistSynthetic(q) \/ PersistReal(q)
  PROVE  RInv' /\ FinalKept
<1>1. work[q].op = "create" /\ step[q] # "done" /\ receipt' = receipt
  BY DEF PolicyDenies, ExecuteSynthetic, ExecuteReal, PersistSynthetic, PersistReal, At
<1>2. CASE \E code : Refuse(q, code)
  BY <1>1, <1>2, RRefuse
<1>3. CASE Goto(q, "persist") /\ UNCHANGED <<fixed, answer, tables, holder, receipt>>
  BY <1>1, <1>3, RCreateGoto
<1>4. CASE /\ Goto(q, IF work[q].key = None THEN "answer" ELSE "key")
           /\ UNCHANGED <<fixed, answer, tables, holder, receipt>>
  BY <1>1, <1>4, RCreateGoto
<1> QED BY <1>2, <1>3, <1>4 DEF PolicyDenies, ExecuteSynthetic, ExecuteReal, PersistSynthetic, PersistReal

LEMMA RInsertKey ==
  ASSUME RInv, NEW q \in Request, InsertKey(q)
  PROVE  RInv' /\ FinalKept
<1> DEFINE k == work[q].key
<1>1. work[q].op = "create" /\ step[q] = "key" /\ receipt' = receipt /\ Free(k, q) /\ RSound(q)
  BY RFacts DEF InsertKey, At
<1>2. k \in Key /\ k # None
  BY <1>1, WorkFacts DEF RSound, CreateSound
<1>3. CASE Refuse(q, 500)
  BY <1>1, <1>3, RRefuse
<1>4. CASE /\ keys[k] = None /\ Hold(k, q) /\ Goto(q, "answer")
           /\ UNCHANGED <<fixed, answer, tables>>
  <2>1. /\ UNCHANGED tables /\ work' = work /\ seen' = seen /\ enforced' = enforced
        /\ answer' = answer /\ runs' = runs /\ keys' = keys /\ episodes' = episodes
    BY <1>4 DEF fixed, tables
  <2>2. "answer" \in RStep /\ k \in Key \cup Spec \cup Run
    BY <1>2 DEF RStep
  <2>3. ROwn(q) /\ step'[q] = "answer"
    BY <1>1, <1>4, <2>1, <2>2, RStepOwn
  <2>4. holder'[k] = q
    BY <1>4, <2>2, RFacts DEF Hold
  <2>5. RSound(q)'
    BY <1>1, <1>2, <1>4, <2>1, <2>3, <2>4
       DEF RSound, CreateSound, RegisterSound, FinalizeSound, ReplaySound
  <2> QED BY <2>1, <2>3, <2>5, RLocal
<1> QED BY <1>3, <1>4 DEF InsertKey

LEMMA RAnswerCreate ==
  ASSUME RInv, NEW q \in Request, AnswerCreate(q)
  PROVE  RInv' /\ FinalKept
<1>1. /\ work[q].op = "create" /\ step[q] = "answer" /\ Answer(q, 201, q) /\ Goto(q, "commit")
      /\ UNCHANGED tables /\ work' = work /\ seen' = seen /\ enforced' = enforced
      /\ holder' = holder /\ receipt' = receipt
      /\ runs' = runs /\ keys' = keys /\ episodes' = episodes /\ RSound(q)
  BY RFacts DEF AnswerCreate, At, fixed, tables
<1>2. "commit" \in RStep
  BY DEF RStep
<1>3. ROwn(q) /\ step'[q] = "commit"
  BY <1>1, <1>2, RStepOwn
<1>4. answer'[q].run = q
  BY <1>1, RFacts DEF Answer, Reply
<1>5. RSound(q)'
  BY <1>1, <1>3, <1>4 DEF RSound, CreateSound, RegisterSound, FinalizeSound, ReplaySound
<1> QED BY <1>1, <1>3, <1>5, RLocal

\* The evidence class of a row is the client's, or what the mode says.
LEMMA EvidenceIsNamed ==
  ASSUME NEW w, w.evidence \in STRING
  PROVE  EvidenceClass(w) \in EvidenceName
  BY DEF EvidenceClass, EvidenceName, KnownEvidence, Synthetic

\* The run and its key are stored: nobody else's key is, and the run is new.
LEMMA RCommitCreate ==
  ASSUME RInv, NEW q \in Request, CommitCreate(q)
  PROVE  RInv' /\ FinalKept
<1> DEFINE entry == [status |-> "completed", evidence |-> EvidenceClass(work[q]), manifest |-> TRUE]
<1>1. /\ work[q].op = "create" /\ step[q] = "commit" /\ Goto(q, "done") /\ Release(q)
      /\ runs' = [runs EXCEPT ![q] = entry]
      /\ keys' = [k \in Key |-> IF k = work[q].key THEN q ELSE keys[k]]
      /\ work' = work /\ seen' = seen /\ enforced' = enforced /\ answer' = answer
      /\ specs' = specs /\ episodes' = episodes /\ receipt' = receipt /\ RSound(q)
  BY RFacts DEF CommitCreate, At, fixed
<1>2. "done" \in RStep
  BY DEF RStep
<1>3. ROwn(q) /\ step'[q] = "done"
  BY <1>1, <1>2, RStepOwn
<1>4. /\ work[q].key \in Key \cup {None} /\ work[q].synthetic \in BOOLEAN /\ work[q].evidence \in STRING
      /\ q \in Run /\ q # None /\ q \notin Registered
  BY <1>1, WorkFacts, RFacts, NameAssumption
<1>5. entry \in RRow /\ entry.status = "completed" /\ entry # Absent
  <2>1. EvidenceClass(work[q]) \in EvidenceName
    BY <1>4, EvidenceIsNamed
  <2>2. entry.status = "completed" /\ Absent.status = "absent"
    BY DEF Absent
  <2> QED BY <2>1, <2>2 DEF RRow, RStatus, RunStatus
<1> HIDE DEF entry
<1>6. runs[q] = Absent /\ (work[q].key # None => holder[work[q].key] = q /\ keys[work[q].key] = None)
  BY <1>1 DEF RSound, CreateSound
<1>7. /\ \A r \in Run \ {q} : runs'[r] = runs[r]
      /\ runs'[q] = entry /\ runs' \in [Run -> RRow] /\ keys' \in [Key -> Request \cup {None}]
  BY <1>1, <1>4, <1>5, RFacts
<1>8. RTypes'
  BY <1>1, <1>3, <1>5, <1>7 DEF RInv, RTypes, RTypeOK, ROwn, RRow, RStatus
<1>9. RChange(q)
  <2>1. \A p \in Request \ {q} : runs'[p] = runs[p]
    BY <1>7 DEF Run
  <2>2. \A k \in Key : keys'[k] = keys[k] \/ (keys[k] = None /\ holder[k] = q)
    BY <1>1, <1>4, <1>6, NameAssumption
  <2>3. \A r \in Run : runs'[r] = runs[r] \/ (runs[r] = Absent /\ r \notin Registered)
    BY <1>4, <1>6, <1>7
  <2> QED BY <1>1, <2>1, <2>2, <2>3 DEF RChange
<1>10. \A k \in Key : KeyIsBacked(k)'
  BY <1>1, <1>4, <1>5, <1>7 DEF RInv, KeyIsBacked, Run
<1>11. RSound(q)'
  <2>1. answer[q].run = q
    BY <1>1 DEF RSound, CreateSound
  <2> QED BY <1>1, <1>3, <1>4, <1>7, <2>1
      DEF RSound, CreateSound, RegisterSound, FinalizeSound, ReplaySound
<1>12. RInv'
  BY <1>1, <1>3, <1>8, <1>9, <1>10, <1>11, RCommit
<1>13. FinalKept
  BY <1>6, <1>7 DEF FinalKept, Absent, FinalStatus
<1> QED BY <1>12, <1>13

-----------------------------------------------------------------------------
(* register_run and finalize_run                                           *)

LEMMA RInsertRun ==
  ASSUME RInv, NEW q \in Request, InsertRun(q)
  PROVE  RInv' /\ FinalKept
<1> DEFINE r == work[q].run
<1>1. work[q].op = "register" /\ step[q] = "start" /\ receipt' = receipt /\ Free(r, q) /\ RSound(q)
  BY RFacts DEF InsertRun, At
<1>2. r \in Run
  BY <1>1, WorkFacts
<1>3. CASE Refuse(q, 500)
  BY <1>1, <1>3, RRefuse
<1>4. CASE /\ runs[r] = Absent /\ Hold(r, q) /\ Answer(q, 201, r) /\ Goto(q, "commit")
           /\ UNCHANGED <<fixed, tables>>
  <2>1. /\ UNCHANGED tables /\ work' = work /\ seen' = seen /\ enforced' = enforced
        /\ runs' = runs /\ episodes' = episodes
    BY <1>4 DEF fixed, tables
  <2>2. "commit" \in RStep /\ r \in Key \cup Spec \cup Run
    BY <1>2 DEF RStep
  <2>3. ROwn(q) /\ step'[q] = "commit"
    BY <1>1, <1>4, <2>1, <2>2, RStepOwn
  <2>4. holder'[r] = q
    BY <1>4, <2>2, RFacts DEF Hold
  <2>5. RSound(q)'
    BY <1>1, <1>4, <2>1, <2>3, <2>4
       DEF RSound, CreateSound, RegisterSound, FinalizeSound, ReplaySound
  <2> QED BY <2>1, <2>3, <2>5, RLocal
<1> QED BY <1>3, <1>4 DEF InsertRun

LEMMA RLockRun ==
  ASSUME RInv, NEW q \in Request, LockRun(q)
  PROVE  RInv' /\ FinalKept
<1> DEFINE r == work[q].run
<1>1. work[q].op = "finalize" /\ step[q] = "start" /\ receipt' = receipt /\ Free(r, q) /\ RSound(q)
  BY RFacts DEF LockRun, At
<1>2. r \in Run
  BY <1>1, WorkFacts
<1>3. CASE Refuse(q, 404)
  BY <1>1, <1>3, RRefuse
<1>4. CASE /\ runs[r] # Absent /\ Hold(r, q) /\ Goto(q, "finalize")
           /\ seen' = [seen EXCEPT ![q] = runs[r].status]
           /\ UNCHANGED <<work, enforced, answer, tables>>
  <2>1. /\ UNCHANGED tables /\ work' = work /\ enforced' = enforced /\ answer' = answer
        /\ runs' = runs /\ episodes' = episodes
    BY <1>4 DEF tables
  <2>2. "finalize" \in RStep /\ r \in Key \cup Spec \cup Run /\ runs[r].status \in RStatus
    BY <1>2, RFacts DEF RStep, RRow
  <2>3. ROwn(q) /\ step'[q] = "finalize"
    BY <1>1, <1>4, <2>1, <2>2, RStepOwn
  <2>4. holder'[r] = q /\ seen'[q] = runs[r].status
    BY <1>4, <2>2, RFacts DEF Hold
  <2>5. RSound(q)'
    BY <1>1, <1>4, <2>1, <2>3, <2>4
       DEF RSound, CreateSound, RegisterSound, FinalizeSound, ReplaySound, InsertedSpec
  <2> QED BY <2>1, <2>3, <2>5, RLocal
<1> QED BY <1>3, <1>4 DEF LockRun

\* A step of q that writes the row it holds, and is done.
LEMMA RWriteRow ==
  ASSUME RInv, NEW q \in Request, work[q].op \in {"register", "finalize"}, step[q] # "done",
         ROwn(q), step'[q] = "done", NEW r \in Run, holder[r] = q, NEW entry \in RRow,
         entry.status # "absent", runs' = [runs EXCEPT ![r] = entry],
         r \in Request => runs[r] # Absent,
         UNCHANGED <<keys, specs, episodes>>
  PROVE  RInv'
<1>1. work' = work /\ RSound(q) /\ entry # Absent
  BY RFacts DEF ROwn, Absent
<1>2. /\ \A s \in Run \ {r} : runs'[s] = runs[s]
      /\ runs'[r] = entry /\ runs' \in [Run -> RRow]
  BY RFacts
<1>3. RTypes'
  BY <1>1, <1>2 DEF RInv, RTypes, RTypeOK, ROwn, RRow, RStatus
<1>4. RChange(q)
  BY <1>2 DEF RChange, Run
<1>5. \A k \in Key : KeyIsBacked(k)'
  BY <1>1, <1>2 DEF RInv, KeyIsBacked, Run
<1>6. RSound(q)'
  BY <1>1 DEF RSound, CreateSound, RegisterSound, FinalizeSound, ReplaySound, InsertedSpec
<1> QED BY <1>3, <1>4, <1>5, <1>6, RCommit

LEMMA RCommitRegister ==
  ASSUME RInv, NEW q \in Request, CommitRegister(q)
  PROVE  RInv' /\ FinalKept
<1> DEFINE r == work[q].run
           entry == [status |-> "running", evidence |-> EvidenceClass(work[q]), manifest |-> FALSE]
<1>1. /\ work[q].op = "register" /\ step[q] = "commit" /\ Goto(q, "done") /\ Release(q)
      /\ runs' = [runs EXCEPT ![r] = entry] /\ UNCHANGED <<keys, specs, episodes>>
      /\ work' = work /\ seen' = seen /\ enforced' = enforced /\ answer' = answer
      /\ receipt' = receipt /\ RSound(q)
  BY RFacts DEF CommitRegister, At, fixed
<1>2. "done" \in RStep
  BY DEF RStep
<1>3. ROwn(q) /\ step'[q] = "done"
  BY <1>1, <1>2, RStepOwn
<1>4. r \in Registered /\ r \in Run /\ r \notin Request /\ work[q].evidence \in STRING
  BY <1>1, WorkFacts, NameAssumption
<1>5. entry \in RRow /\ entry.status # "absent"
  BY <1>4, EvidenceIsNamed DEF RRow, RStatus, RunStatus
<1>6. holder[r] = q /\ runs[r] = Absent
  BY <1>1 DEF RSound, RegisterSound
<1> HIDE DEF r, entry
<1>7. RInv'
  BY <1>1, <1>3, <1>4, <1>5, <1>6, RWriteRow
<1>8. FinalKept
  BY <1>1, <1>4, <1>6, RFacts DEF FinalKept, Absent, FinalStatus
<1> QED BY <1>7, <1>8

\* The status that is written is the one that was there, if that was final: the row
\* has been locked since it was read.
LEMMA RFinalize ==
  ASSUME RInv, NEW q \in Request, Finalize(q)
  PROVE  RInv' /\ FinalKept
<1> DEFINE r == work[q].run
           entry == [runs[r] EXCEPT !.status = work[q].status]
<1>1. /\ work[q].op = "finalize" /\ step[q] = "finalize" /\ receipt' = receipt /\ RSound(q)
  BY RFacts DEF Finalize, At
<1>2. CASE \E code : Refuse(q, code)
  BY <1>1, <1>2, RRefuse
<1>3. CASE /\ seen[q] \in FinalStatus => seen[q] = work[q].status
           /\ runs' = [runs EXCEPT ![r].status = work[q].status]
           /\ Answer(q, 200, r) /\ Goto(q, "done") /\ Release(q)
           /\ UNCHANGED <<fixed, keys, specs, episodes>>
  <2>1. work' = work /\ seen' = seen /\ enforced' = enforced /\ UNCHANGED <<keys, specs, episodes>>
    BY <1>3 DEF fixed
  <2>2. "done" \in RStep
    BY DEF RStep
  <2>3. ROwn(q) /\ step'[q] = "done"
    BY <1>1, <1>3, <2>1, <2>2, RStepOwn
  <2>4. r \in Run /\ work[q].status \in FinalStatus
    BY <1>1, WorkFacts
  <2>5. /\ holder[r] = q /\ runs[r] # Absent /\ seen[q] = runs[r].status
    BY <1>1 DEF RSound, FinalizeSound
  <2>6. entry \in RRow /\ entry.status = work[q].status /\ entry.status # "absent"
    BY <2>4, RFacts DEF RRow, RStatus, FinalStatus
  <2>7. runs' = [runs EXCEPT ![r] = entry]
    BY <1>3
  <2> HIDE DEF r, entry
  <2>8. RInv'
    BY <1>1, <2>1, <2>3, <2>4, <2>5, <2>6, <2>7, RWriteRow
  <2>9. FinalKept
    BY <1>3, <2>4, <2>5, <2>6, <2>7, RFacts DEF FinalKept
  <2> QED BY <2>8, <2>9
<1> QED BY <1>2, <1>3 DEF Finalize

-----------------------------------------------------------------------------
(* create_replay                                                           *)

\* A step of a create_replay handler that stays in its transaction.
LEMMA RReplayGoto ==
  ASSUME RInv, NEW q \in Request, work[q].op = "replay", step[q] # "done",
         NEW s \in {"intervene", "issue", "verify", "replay", "consume", "record", "commit"},
         ROwn(q), step'[q] = s, UNCHANGED tables,
         s \in InsertedSpec => holder'[work[q].spec] = q /\ work[q].spec \notin specs,
         s \in {"record", "commit"} => receipt'[q] = "CONSUMED"
  PROVE  RInv' /\ FinalKept
<1>1. work' = work /\ specs' = specs /\ episodes' = episodes /\ RSound(q)
  BY RFacts DEF ROwn, tables
<1>2. RSound(q)'
  BY <1>1 DEF RSound, CreateSound, RegisterSound, FinalizeSound, ReplaySound
<1> QED BY <1>2, RLocal

LEMMA RLoadRun ==
  ASSUME RInv, NEW q \in Request, LoadRun(q)
  PROVE  RInv' /\ FinalKept
<1>1. work[q].op = "replay" /\ step[q] = "start" /\ receipt' = receipt
  BY DEF LoadRun, At
<1>2. CASE \E code : Refuse(q, code)
  BY <1>1, <1>2, RRefuse
<1>3. CASE Goto(q, "intervene") /\ UNCHANGED <<fixed, answer, tables, holder>>
  <2>1. /\ UNCHANGED tables /\ work' = work /\ seen' = seen /\ enforced' = enforced
        /\ answer' = answer /\ holder' = holder
    BY <1>3 DEF fixed
  <2>2. "intervene" \in RStep /\ "intervene" \notin InsertedSpec
    BY DEF RStep, InsertedSpec
  <2>3. ROwn(q) /\ step'[q] = "intervene"
    BY <1>1, <1>3, <2>1, <2>2, RStepOwn
  <2> QED BY <1>1, <2>1, <2>2, <2>3, RReplayGoto
<1> QED BY <1>2, <1>3 DEF LoadRun

LEMMA RInsertIntervention ==
  ASSUME RInv, NEW q \in Request, InsertIntervention(q)
  PROVE  RInv' /\ FinalKept
<1> DEFINE s == work[q].spec
<1>1. work[q].op = "replay" /\ step[q] = "intervene" /\ receipt' = receipt /\ Free(s, q)
  BY DEF InsertIntervention, At
<1>2. s \in Spec
  BY <1>1, WorkFacts
<1>3. CASE \E code : Refuse(q, code)
  BY <1>1, <1>3, RRefuse
<1>4. CASE s \notin specs /\ Hold(s, q) /\ Goto(q, "issue") /\ UNCHANGED <<fixed, answer, tables>>
  <2>1. /\ UNCHANGED tables /\ work' = work /\ seen' = seen /\ enforced' = enforced
        /\ answer' = answer
    BY <1>4 DEF fixed
  <2>2. "issue" \in RStep /\ s \in Key \cup Spec \cup Run
    BY <1>2 DEF RStep
  <2>3. ROwn(q) /\ step'[q] = "issue"
    BY <1>1, <1>4, <2>1, <2>2, RStepOwn
  <2>4. holder'[s] = q
    BY <1>4, <2>2, RFacts DEF Hold
  <2> QED BY <1>1, <1>4, <2>1, <2>3, <2>4, RReplayGoto
<1> QED BY <1>3, <1>4 DEF InsertIntervention

\* The steps between the intervention and the end of the transaction.
LEMMA RReceipt ==
  ASSUME RInv, NEW q \in Request,
         \/ IssueReceipt(q) \/ VerifyReceipt(q) \/ ReplayRaises(q) \/ ReplayRuns(q)
         \/ ConsumeReceipt(q) \/ RecordEpisode(q)
  PROVE  RInv' /\ FinalKept
<1> DEFINE kinds == {"ISSUED", "VERIFIED", "CONSUMED", "VOIDED"}
           left == receipt' = receipt \/ (\E v \in kinds : receipt' = [receipt EXCEPT ![q] = v])
<1>1. /\ work[q].op = "replay" /\ step[q] \in InsertedSpec /\ step[q] # "done"
      /\ RSound(q) /\ work[q].spec \in Spec
  BY RFacts, WorkFacts DEF IssueReceipt, VerifyReceipt, ReplayRaises, ReplayRuns, ConsumeReceipt,
     RecordEpisode, At, InsertedSpec
<1>2. holder[work[q].spec] = q /\ work[q].spec \notin specs
  BY <1>1 DEF RSound, ReplaySound
<1>3. ASSUME NEW s \in {"verify", "replay", "consume", "record", "commit"}, Goto(q, s), left,
             answer' = answer \/ (\E code, run : Answer(q, code, run)),
             UNCHANGED <<fixed, tables, holder>>,
             s \in {"record", "commit"} => receipt'[q] = "CONSUMED"
      PROVE  RInv' /\ FinalKept
  <2>1. /\ UNCHANGED tables /\ work' = work /\ seen' = seen /\ enforced' = enforced
        /\ holder' = holder /\ s \in RStep
    BY <1>3 DEF fixed, RStep
  <2>2. ROwn(q) /\ step'[q] = s
    BY <1>3, <2>1, RStepOwn
  <2> QED BY <1>1, <1>2, <1>3, <2>1, <2>2, RReplayGoto
<1>4. ASSUME NEW code, Refuse(q, code), left
      PROVE  RInv' /\ FinalKept
  BY <1>1, <1>4, RRefuse
<1>5. CASE IssueReceipt(q)
  BY <1>3, <1>4, <1>5 DEF IssueReceipt
<1>6. CASE VerifyReceipt(q)
  BY <1>3, <1>4, <1>6 DEF VerifyReceipt
<1>7. CASE ReplayRaises(q)
  BY <1>4, <1>7 DEF ReplayRaises
<1>8. CASE ReplayRuns(q)
  BY <1>3, <1>8 DEF ReplayRuns
<1>9. CASE ConsumeReceipt(q)
  <2>1. CASE Refuse(q, 500) /\ UNCHANGED receipt
    BY <1>4, <2>1
  <2>2. CASE /\ receipt' = [receipt EXCEPT ![q] = "CONSUMED"] /\ Goto(q, "record")
             /\ UNCHANGED <<fixed, answer, tables, holder>>
    <3>1. receipt'[q] = "CONSUMED"
      BY <2>2, RFacts
    <3> QED BY <1>3, <2>2, <3>1
  <2> QED BY <1>9, <2>1, <2>2 DEF ConsumeReceipt
<1>10. CASE RecordEpisode(q)
  <2>1. receipt[q] = "CONSUMED" /\ receipt' = receipt
    BY <1>1, <1>10 DEF RecordEpisode, At, RSound, ReplaySound
  <2>2. CASE \E code : Refuse(q, code)
    BY <1>4, <2>1, <2>2
  <2>3. CASE /\ Answer(q, 201, work[q].run) /\ Goto(q, "commit")
             /\ UNCHANGED <<fixed, tables, holder>>
    BY <1>3, <2>1, <2>3
  <2> QED BY <1>10, <2>2, <2>3 DEF RecordEpisode
<1> QED BY <1>5, <1>6, <1>7, <1>8, <1>9, <1>10

LEMMA RCommitReplay ==
  ASSUME RInv, NEW q \in Request, CommitReplay(q)
  PROVE  RInv' /\ FinalKept
<1> DEFINE s == work[q].spec
<1>1. /\ work[q].op = "replay" /\ step[q] = "commit" /\ Goto(q, "done") /\ Release(q)
      /\ specs' = specs \cup {s} /\ episodes' = episodes \cup {q}
      /\ work' = work /\ seen' = seen /\ enforced' = enforced /\ answer' = answer
      /\ runs' = runs /\ keys' = keys /\ receipt' = receipt /\ RSound(q)
  BY RFacts DEF CommitReplay, At, fixed
<1>2. "done" \in RStep
  BY DEF RStep
<1>3. ROwn(q) /\ step'[q] = "done"
  BY <1>1, <1>2, RStepOwn
<1>4. s \in Spec /\ holder[s] = q /\ s \notin specs /\ receipt[q] = "CONSUMED"
  BY <1>1, WorkFacts DEF RSound, ReplaySound, InsertedSpec
<1>5. RTypes'
  BY <1>1, <1>3, <1>4 DEF RInv, RTypes, RTypeOK, ROwn, RStatus
<1>6. RChange(q)
  BY <1>1, <1>4 DEF RChange
<1>7. \A k \in Key : KeyIsBacked(k)'
  BY <1>1 DEF RInv, KeyIsBacked
<1>8. RSound(q)'
  BY <1>1, <1>3, <1>4
     DEF RSound, CreateSound, RegisterSound, FinalizeSound, ReplaySound, InsertedSpec
<1>9. RInv'
  BY <1>3, <1>4, <1>5, <1>6, <1>7, <1>8, RCommit
<1> QED BY <1>1, <1>9 DEF FinalKept

-----------------------------------------------------------------------------
\* The transaction is lost, with the process or at its commit.
LEMMA RLost ==
  ASSUME RInv, NEW q \in Request, CommitFails(q) \/ Crash(q)
  PROVE  RInv' /\ FinalKept
<1>1. PICK s \in {"failed", "crashed"} : Goto(q, s)
  BY DEF CommitFails, Crash
<1>2. /\ step[q] # "done" /\ Release(q) /\ UNCHANGED tables /\ work' = work /\ seen' = seen
      /\ enforced' = enforced /\ answer' = answer /\ receipt' = receipt /\ s \in RStep
  BY DEF CommitFails, Crash, Ended, fixed, RStep
<1>3. ROwn(q) /\ step'[q] = s
  BY <1>1, <1>2, RStepOwn
<1> QED BY <1>2, <1>3, RAbort

LEMMA RStepInv ==
  ASSUME RInv, [RNext]_rvars
  PROVE  RInv' /\ FinalKept
<1>1. ASSUME NEW q \in Request, Handle(q) \/ Crash(q) PROVE RInv' /\ FinalKept
  <2>1. CASE CreateStep(q)
    BY <2>1, RLookupKey, RExecute, RInsertKey, RAnswerCreate, RCommitCreate DEF CreateStep
  <2>2. CASE RegisterStep(q)
    BY <2>2, RInsertRun, RCommitRegister DEF RegisterStep
  <2>3. CASE FinalizeStep(q)
    BY <2>3, RLockRun, RFinalize DEF FinalizeStep
  <2>4. CASE ReplayStep(q)
    BY <2>4, RLoadRun, RInsertIntervention, RReceipt, RCommitReplay DEF ReplayStep
  <2>5. CASE CommitFails(q) \/ Crash(q)
    BY <2>5, RLost
  <2> QED BY <1>1, <2>1, <2>2, <2>3, <2>4, <2>5 DEF Handle
<1>2. CASE UNCHANGED rvars
  <2>1. /\ work' = work /\ step' = step /\ answer' = answer /\ seen' = seen /\ runs' = runs
        /\ keys' = keys /\ specs' = specs /\ holder' = holder /\ receipt' = receipt
        /\ episodes' = episodes /\ enforced' = enforced
    BY <1>2 DEF rvars
  <2>2. RTypes'
    BY <2>1 DEF RInv, RTypes, RTypeOK
  <2>3. ASSUME NEW q \in Request PROVE RSound(q)'
    BY <2>1, RFacts DEF RSound, CreateSound, RegisterSound, FinalizeSound, ReplaySound
  <2>4. \A k \in Key : KeyIsBacked(k)'
    BY <2>1 DEF RInv, KeyIsBacked
  <2>5. \A p, q \in episodes' : (work[p].spec = work[q].spec)' => p = q
    BY <2>1 DEF RInv
  <2> QED BY <2>1, <2>2, <2>3, <2>4, <2>5 DEF RInv, FinalKept
<1> QED BY <1>1, <1>2 DEF RNext

LEMMA RInitInv ==
  ASSUME RInit
  PROVE  RInv
<1>1. /\ work \in Works /\ step = [q \in Request |-> "start"]
      /\ answer = [q \in Request |-> Reply(0, None)] /\ seen = [q \in Request |-> "absent"]
      /\ keys = [k \in Key |-> None] /\ specs = {} /\ episodes = {}
      /\ holder = [x \in Key \cup Spec \cup Run |-> None] /\ receipt = [q \in Request |-> "none"]
  BY DEF RInit
<1>2. PICK r \in [Run -> {Absent, [status |-> "completed", evidence |-> "SYNTHETIC_SIMULATION",
                                   manifest |-> TRUE]}] :
        runs = r /\ \A q \in Request : r[q] = Absent
  BY DEF RInit
<1>3. runs \in [Run -> RRow] /\ \A s \in Run : runs[s] = Absent \/ runs[s].status # "absent"
  <2> DEFINE kept == [status |-> "completed", evidence |-> "SYNTHETIC_SIMULATION", manifest |-> TRUE]
  <2>1. kept \in RRow /\ kept.status # "absent"
    BY DEF RRow, RStatus, RunStatus, EvidenceName, KnownEvidence, Synthetic
  <2>2. Absent \in RRow
    BY DEF Absent, RRow, RStatus, EvidenceName, KnownEvidence
  <2>3. runs \in [Run -> {Absent, kept}]
    BY <1>2
  <2> HIDE DEF kept
  <2> QED BY <2>1, <2>2, <2>3
<1>4. RTypes
  BY <1>1, <1>3 DEF RTypes, RTypeOK, RStep, RStatus, RRow
<1>5. \A q \in Request : RSound(q)
  BY <1>1, <1>2 DEF RSound, CreateSound, RegisterSound, FinalizeSound, ReplaySound, InsertedSpec
<1>6. \A k \in Key : KeyIsBacked(k)
  BY <1>1 DEF KeyIsBacked
<1> QED BY <1>1, <1>4, <1>5, <1>6 DEF RInv

\* The runs under a key: KeyIsBacked finds the one its response names, CreateSound
\* says that every other request with the key committed none.
LEMMA RInvKeys ==
  ASSUME RInv
  PROVE  KeyNamesItsRun
<1> SUFFICES ASSUME NEW k \in Key
             PROVE  LET mine == {q \in Request : work[q].op = "create" /\ work[q].key = k}
                    IN /\ {q \in mine : runs[q] # Absent} = {keys[k]} \ {None}
                       /\ \A q \in mine : step[q] = "done" => answer[q].run = keys[k]
  BY DEF KeyNamesItsRun
<1>1. k # None /\ KeyIsBacked(k) /\ \A q \in Request : CreateSound(q) /\ q # None
  BY RFacts, NameAssumption DEF RInv, RSound
<1> QED BY <1>1 DEF CreateSound, KeyIsBacked

\* At most one element: all of them are equal.
LEMMA AtMostOne ==
  ASSUME NEW S, \A x, y \in S : x = y
  PROVE  Cardinality(S) <= 1
<1>1. CASE S = {}
  BY <1>1, FS_EmptySet
<1>2. CASE S # {}
  <2>1. PICK x \in S : TRUE
    BY <1>2
  <2>2. S = {x}
    BY <2>1
  <2> QED BY <2>2, FS_Singleton
<1> QED BY <1>1, <1>2

LEMMA RInvRuns ==
  ASSUME RInv
  PROVE  RunsAreConsistent
<1>1. RTypeOK
  BY DEF RInv, RTypes
<1>2. OneEpisodePerSpec
  <2> SUFFICES ASSUME NEW s \in Spec PROVE Cardinality({q \in episodes : work[q].spec = s}) <= 1
    BY DEF OneEpisodePerSpec
  <2>1. \A p, q \in {e \in episodes : work[e].spec = s} : p = q
    BY DEF RInv
  <2> QED BY <2>1, AtMostOne
<1>3. EpisodeIsPaid
  BY RFacts DEF EpisodeIsPaid, RSound, ReplaySound
<1> QED BY <1>1, <1>2, <1>3, RInvKeys DEF RunsAreConsistent

\* The run routes (runs.py): whatever requests race, fail, crash and are sent again,
\* a key has the one run its stored response names, a specification has at most one
\* episode, and every episode a consumed receipt.
THEOREM RunsStayConsistent == RSpec => []RunsAreConsistent
<1>1. RInit => RInv
  BY RInitInv
<1>2. RInv /\ [RNext]_rvars => RInv'
  BY RStepInv
<1>3. RInv => RunsAreConsistent
  BY RInvRuns
<1> QED BY <1>1, <1>2, <1>3, PTL DEF RSpec

-----------------------------------------------------------------------------
(***************************************************************************)
(* The job orchestrator (JobOrchestrator).  The handle of a task follows   *)
(* the await the task is in, the row follows the handle, and an accepted   *)
(* cancellation has marked the handle before anything else.                *)
(***************************************************************************)

\* Nothing failed, and no cancellation came before the row or the first step.
Calm == ~arq /\ ~dbFailed /\ ~cutShort /\ ~early

\* The handle, by the await; a row is never ahead of it.
HandleFollows ==
  /\ task \in {"complete", "commit"} => handle = "completed"
  /\ handle = "completed" => task \in {"complete", "commit", "done"}
  /\ task = "fail" => handle = "failed"
  /\ handle = "failed" => task \in {"fail", "done"}
  /\ task = "cancelled" => handle = "cancelled"
  /\ row = "completed" =>
       /\ handle = "completed" \/ (early /\ handle = "cancelled")
       /\ task \in {"cancelled", "done"}
  /\ row = "failed" => handle = "failed"
  /\ row = "cancelled" /\ ~early => handle \in {"cancelled", "failed"}

\* A cancellation that is accepted after the first step keeps the handle cancelled,
\* or failed, so that the next one is refused.
CancelMarks ==
  /\ task = "created" /\ ~early => handle = "queued" /\ ~Accepted
  /\ Accepted /\ ~early => handle \in {"cancelled", "failed"}
  /\ interrupt => Accepted
  /\ OneCancelAccepted

\* Without failures the row is there from its insert on, and is left running under
\* a cancelled handle only while somebody is about to write it.
RowFollows ==
  Calm =>
    /\ row = "absent" <=> task \in {"created", "insert"}
    /\ task \in {"insert", "coro"} => handle \in {"running", "cancelled"}
    /\ row \in {"absent", "running"} /\ handle = "cancelled" =>
         task = "cancelled" \/ \E c \in Canceller : cancel[c] = "update"
    /\ task = "done" /\ row = "running" => handle = "cancelled"
    /\ task = "done" /\ handle = "completed" => row = "completed"

JInv == JTypeOK /\ HandleFollows /\ CancelMarks /\ RowFollows

LEMMA JTask ==
  ASSUME JInv, TaskStep \/ CoroReturns \/ CoroRaises
  PROVE  JInv'
<1>1. cancel' = cancel /\ early' = early /\ arq' = arq
  BY DEF TaskStep, StartTask, InsertRow, ReadRow, PersistCompleted, PersistFailed, Interrupted,
     PersistCancelled, EnqueueJob, CoroReturns, CoroRaises, env
<1>2. /\ Accepted' <=> Accepted
      /\ OneCancelAccepted' <=> OneCancelAccepted
      /\ (\E c \in Canceller : cancel'[c] = "update") <=> (\E c \in Canceller : cancel[c] = "update")
  BY <1>1 DEF Accepted, Accepts, OneCancelAccepted
<1> USE DEF JInv, JTypeOK, HandleFollows, CancelMarks, RowFollows, Calm, Running, HandleFinal
<1>3. CASE StartTask
  <2>1. JTypeOK'
    BY <1>1, <1>3 DEF StartTask, env
  <2>2. HandleFollows'
    BY <1>1, <1>3 DEF StartTask, env
  <2>3. CancelMarks'
    BY <1>1, <1>2, <1>3 DEF StartTask, env
  <2>4. RowFollows'
    BY <1>1, <1>2, <1>3 DEF StartTask, env
  <2> QED BY <2>1, <2>2, <2>3, <2>4
<1>4. CASE InsertRow
  <2>1. JTypeOK'
    BY <1>1, <1>4 DEF InsertRow, env
  <2>2. HandleFollows'
    BY <1>1, <1>4 DEF InsertRow, env
  <2>3. CancelMarks'
    BY <1>1, <1>2, <1>4 DEF InsertRow, env
  <2>4. RowFollows'
    BY <1>1, <1>2, <1>4 DEF InsertRow, env
  <2> QED BY <2>1, <2>2, <2>3, <2>4
<1>5. CASE ReadRow
  <2>1. JTypeOK'
    BY <1>1, <1>5 DEF ReadRow, env
  <2>2. HandleFollows'
    BY <1>1, <1>5 DEF ReadRow, env
  <2>3. CancelMarks'
    BY <1>1, <1>2, <1>5 DEF ReadRow, env
  <2>4. RowFollows'
    BY <1>1, <1>2, <1>5 DEF ReadRow, env
  <2> QED BY <2>1, <2>2, <2>3, <2>4
<1>6. CASE PersistCompleted
  <2>1. JTypeOK'
    BY <1>1, <1>6 DEF PersistCompleted, env
  <2>2. HandleFollows'
    BY <1>1, <1>6 DEF PersistCompleted, env
  <2>3. CancelMarks'
    BY <1>1, <1>2, <1>6 DEF PersistCompleted, env
  <2>4. RowFollows'
    BY <1>1, <1>2, <1>6 DEF PersistCompleted, env
  <2> QED BY <2>1, <2>2, <2>3, <2>4
<1>7. CASE PersistFailed
  <2>1. JTypeOK'
    BY <1>1, <1>7 DEF PersistFailed, env
  <2>2. HandleFollows'
    BY <1>1, <1>7 DEF PersistFailed, env
  <2>3. CancelMarks'
    BY <1>1, <1>2, <1>7 DEF PersistFailed, env
  <2>4. RowFollows'
    BY <1>1, <1>2, <1>7 DEF PersistFailed, env
  <2> QED BY <2>1, <2>2, <2>3, <2>4
<1>8. CASE Interrupted
  <2>1. JTypeOK'
    BY <1>1, <1>8 DEF Interrupted, env
  <2>2. HandleFollows'
    BY <1>1, <1>8 DEF Interrupted, env
  <2>3. CancelMarks'
    BY <1>1, <1>2, <1>8 DEF Interrupted, env
  <2>4. RowFollows'
    BY <1>1, <1>2, <1>8 DEF Interrupted, env
  <2> QED BY <2>1, <2>2, <2>3, <2>4
<1>9. CASE PersistCancelled
  <2>1. JTypeOK'
    BY <1>1, <1>9 DEF PersistCancelled, env
  <2>2. HandleFollows'
    BY <1>1, <1>9 DEF PersistCancelled, env
  <2>3. CancelMarks'
    BY <1>1, <1>2, <1>9 DEF PersistCancelled, env
  <2>4. RowFollows'
    BY <1>1, <1>2, <1>9 DEF PersistCancelled, env
  <2> QED BY <2>1, <2>2, <2>3, <2>4
<1>10. CASE EnqueueJob
  BY <1>1, <1>2, <1>10 DEF EnqueueJob, env
<1>11. CASE CoroReturns
  <2>1. JTypeOK'
    BY <1>1, <1>11 DEF CoroReturns, env
  <2>2. HandleFollows'
    BY <1>1, <1>11 DEF CoroReturns, env
  <2>3. CancelMarks'
    BY <1>1, <1>2, <1>11 DEF CoroReturns, env
  <2>4. RowFollows'
    BY <1>1, <1>2, <1>11 DEF CoroReturns, env
  <2> QED BY <2>1, <2>2, <2>3, <2>4
<1>12. CASE CoroRaises
  <2>1. JTypeOK'
    BY <1>1, <1>12 DEF CoroRaises, env
  <2>2. HandleFollows'
    BY <1>1, <1>12 DEF CoroRaises, env
  <2>3. CancelMarks'
    BY <1>1, <1>2, <1>12 DEF CoroRaises, env
  <2>4. RowFollows'
    BY <1>1, <1>2, <1>12 DEF CoroRaises, env
  <2> QED BY <2>1, <2>2, <2>3, <2>4
<1> QED BY <1>3, <1>4, <1>5, <1>6, <1>7, <1>8, <1>9, <1>10, <1>11, <1>12 DEF TaskStep

LEMMA JCancel ==
  ASSUME JInv, NEW c \in Canceller, CancelStart(c) \/ CancelUpdate(c) \/ CancelTask(c)
  PROVE  JInv'
<1> USE DEF JInv, JTypeOK, HandleFollows, CancelMarks, RowFollows, Calm, HandleFinal, Accepted,
        Accepts, OneCancelAccepted
<1>1. CASE CancelStart(c)
  <2>1. JTypeOK'
    BY <1>1 DEF CancelStart, env
  <2>2. HandleFollows'
    BY <1>1 DEF CancelStart, env
  <2>3. CancelMarks'
    BY <1>1 DEF CancelStart, env
  <2>4. RowFollows'
    BY <1>1 DEF CancelStart, env
  <2> QED BY <2>1, <2>2, <2>3, <2>4
<1>2. CASE CancelUpdate(c)
  BY <1>2 DEF CancelUpdate, env
<1>3. CASE CancelTask(c)
  BY <1>3 DEF CancelTask, env
<1> QED BY <1>1, <1>2, <1>3

LEMMA JStepInv ==
  ASSUME JInv, [JNext]_jvars
  PROVE  JInv'
<1>1. CASE UNCHANGED jvars
  BY <1>1 DEF jvars, JInv, JTypeOK, HandleFollows, CancelMarks, RowFollows, Calm, Accepted,
     Accepts, OneCancelAccepted
<1> QED BY <1>1, JTask, JCancel DEF JNext, CancelStep

LEMMA JInitInv ==
  ASSUME JInit
  PROVE  JInv
  BY DEF JInit, JInv, JTypeOK, HandleFollows, CancelMarks, RowFollows, Calm, Accepted,
     Accepts, OneCancelAccepted, HandleFinal

LEMMA JInvJobs ==
  ASSUME JInv
  PROVE  JTypeOK /\ CancelledNeverCompletes /\ OneCancelAccepted /\ RestAgrees
<1>1. CancelledNeverCompletes
  BY DEF JInv, CancelMarks, HandleFollows, CancelledNeverCompletes
<1>2. RestAgrees
  BY DEF JInv, JTypeOK, HandleFollows, RowFollows, Calm, RestAgrees, HandleFinal
<1> QED BY <1>1, <1>2 DEF JInv, CancelMarks

-----------------------------------------------------------------------------
(***************************************************************************)
(* The worker's jobs (WorkerJobs).  What a handler may rely on, by where   *)
(* it is: its kind, how often the job was delivered, that its work is      *)
(* committed before its row says so, and what it read in the row.          *)
(***************************************************************************)
Place == {"trigger", "enqueue", "orphan", "sent", "work", "validate", "commit", "insert",
          "commit graph", "read", "finish", "fail", "end", "escaped", "dead"}
QueueRow == {"queued", "running", "completed", "failed", "cancelled"}
DiagnosisRow == {"absent", "QUEUED", "RUNNING", "SUCCEEDED", "FAILED"}
Looked == JobEnded \cup {"none", "running", "queued"}

\* Which handler is where, and which statuses its row takes.
KindInPlace(j) ==
  /\ wpc[j] \in {"validate", "commit"} => InPipeline(j)
  /\ wpc[j] \in {"insert", "commit graph"} => kind[j] = "graph"
  /\ wpc[j] \in {"trigger", "enqueue", "orphan"} => kind[j] = "diagnosis"
  /\ wpc[j] = "read" => kind[j] # "diagnosis"
  /\ jrow[j] \in IF kind[j] = "diagnosis" THEN DiagnosisRow ELSE QueueRow

\* A job at work was delivered; one that waits may still be.
Delivered(j) ==
  /\ AtWork(j) => tries[j] >= 1
  /\ wpc[j] = "sent" => tries[j] < MaxDeliveries
  /\ wpc[j] \in {"trigger", "enqueue"} => tries[j] = 0

\* Before a row is marked completed the work is committed.
WorkIsDone(j) ==
  wpc[j] \in {"read", "finish"} \/ (wpc[j] = "end" /\ jrow[j] = Done(j)) =>
    /\ kind[j] = "graph" => graph = "present"
    /\ InPipeline(j) /\ result[j] = "approval" => <<j, tries[j]>> \in requests

RowIsRead(j) ==
  /\ wpc[j] = "end" => jrow[j] \in JobEnded
  /\ wpc[j] = "finish" /\ kind[j] # "diagnosis" => looked[j] # "cancelled"

WSound(j) == KindInPlace(j) /\ Delivered(j) /\ WorkIsDone(j) /\ RowIsRead(j)

WTypes == kind \in Kinds /\ wpc \in [Job -> Place] /\ WJTypeOK

WInv == WTypes /\ rules \subseteq requests /\ \A j \in Job : WSound(j)

\* A step of j: the other handlers and their rows are left alone, what is committed
\* stays.
WOwn(j) ==
  /\ kind' = kind /\ requests \subseteq requests' /\ (graph = "present" => graph' = "present")
  /\ \A i \in Job \ {j} : /\ wpc'[i] = wpc[i] /\ jrow'[i] = jrow[i] /\ tries'[i] = tries[i]
                          /\ result'[i] = result[i] /\ looked'[i] = looked[i]

\* What a step of WorkerJobs may do to a row that says cancelled.
OvertakenOnly ==
  \A j \in Job : jrow[j] = "cancelled" /\ jrow'[j] # "cancelled" =>
    \/ jrow'[j] = "running" /\ wpc[j] = "sent"
    \/ jrow'[j] = "failed" /\ wpc[j] = "fail"
    \/ jrow'[j] = "completed" /\ wpc[j] = "finish" /\ looked[j] # "cancelled"

LEMMA WFacts ==
  ASSUME WInv
  PROVE  /\ kind \in [Job -> Kind] /\ wpc \in [Job -> Place]
         /\ jrow \in [Job -> JobEnded \cup {"absent", "queued", "running", "QUEUED", "RUNNING"}]
         /\ tries \in [Job -> 0 .. MaxDeliveries] /\ result \in [Job -> Outcome]
         /\ rules \subseteq Job \X (1 .. MaxDeliveries)
         /\ requests \subseteq Job \X (1 .. MaxDeliveries)
         /\ graph \in Job \cup {"absent", "present"} /\ looked \in [Job -> Looked]
         /\ MaxDeliveries \in Nat \ {0} /\ "absent" \notin Job /\ "present" \notin Job
         /\ \A j \in Job : WSound(j)
  BY JobsAssumption DEF WInv, WTypes, WJTypeOK, Looked

LEMMA WStep ==
  ASSUME WInv, NEW j \in Job, WOwn(j), WTypes', WSound(j)', rules' \subseteq requests'
  PROVE  WInv'
<1>1. ASSUME NEW i \in Job, i # j PROVE WSound(i)'
  <2>1. /\ kind'[i] = kind[i] /\ wpc'[i] = wpc[i] /\ jrow'[i] = jrow[i] /\ tries'[i] = tries[i]
        /\ result'[i] = result[i] /\ looked'[i] = looked[i] /\ WSound(i)
    BY <1>1, WFacts DEF WOwn
  <2>2. KindInPlace(i)' /\ Delivered(i)' /\ RowIsRead(i)'
    BY <2>1 DEF WSound, KindInPlace, Delivered, RowIsRead, InPipeline, AtWork
  <2>3. WorkIsDone(i)'
    BY <2>1 DEF WSound, WorkIsDone, Done, InPipeline, WOwn
  <2> QED BY <2>2, <2>3 DEF WSound
<1> QED BY <1>1 DEF WInv

\* POST /recovery/trigger, and the delivery of a message.
LEMMA WTrigger ==
  ASSUME WInv, NEW j \in Job,
         TriggerCommit(j) \/ TriggerEnqueue(j) \/ TriggerCrash(j) \/ JobStart(j)
  PROVE  WInv' /\ OvertakenOnly
<1> USE WFacts DEF Move, SetRow, wdata
<1>1. CASE TriggerCommit(j)
  <2>1. WSound(j) /\ kind[j] \in Kind
    OBVIOUS
  <2>2. WOwn(j)
    BY <1>1 DEF TriggerCommit, WOwn
  <2>3. WTypes'
    BY <1>1, <2>1 DEF TriggerCommit, WInv, WTypes, WJTypeOK, Place
  <2>4. KindInPlace(j)' /\ Delivered(j)'
    BY <1>1, <2>1 DEF TriggerCommit, WSound, KindInPlace, Delivered, AtWork, DiagnosisRow
  <2>5. WorkIsDone(j)' /\ RowIsRead(j)'
    BY <1>1, <2>1 DEF TriggerCommit, WorkIsDone, RowIsRead
  <2>6. rules' \subseteq requests' /\ OvertakenOnly
    BY <1>1, <2>1 DEF TriggerCommit, WInv, OvertakenOnly, WSound, KindInPlace, DiagnosisRow
  <2> QED BY <2>2, <2>3, <2>4, <2>5, <2>6, WStep DEF WSound
<1>2. CASE TriggerEnqueue(j)
  <2>1. WSound(j) /\ kind[j] \in Kind
    OBVIOUS
  <2>2. WOwn(j)
    BY <1>2 DEF TriggerEnqueue, WOwn
  <2>3. WTypes'
    BY <1>2, <2>1 DEF TriggerEnqueue, WInv, WTypes, WJTypeOK, Place, JobEnded
  <2>4. KindInPlace(j)' /\ Delivered(j)'
    <3>1. 0 < MaxDeliveries
      OBVIOUS
    <3>2. CASE Move(j, "enqueue", "sent") /\ UNCHANGED jrow
      BY <1>2, <2>1, <3>1, <3>2 DEF TriggerEnqueue, WSound, KindInPlace, Delivered, AtWork
    <3>3. CASE Move(j, "enqueue", "end") /\ SetRow(j, "FAILED")
      BY <1>2, <2>1, <3>3 DEF TriggerEnqueue, WSound, KindInPlace, Delivered, AtWork,
         DiagnosisRow
    <3> QED BY <1>2, <3>2, <3>3 DEF TriggerEnqueue
  <2>5. WorkIsDone(j)' /\ RowIsRead(j)'
    BY <1>2, <2>1 DEF TriggerEnqueue, WorkIsDone, RowIsRead, Done, JobEnded
  <2>6. rules' \subseteq requests' /\ OvertakenOnly
    BY <1>2, <2>1 DEF TriggerEnqueue, WInv, OvertakenOnly, WSound, KindInPlace, DiagnosisRow
  <2> QED BY <2>2, <2>3, <2>4, <2>5, <2>6, WStep DEF WSound
<1>3. CASE TriggerCrash(j)
  <2>1. WSound(j) /\ kind[j] \in Kind
    OBVIOUS
  <2>2. WOwn(j)
    BY <1>3 DEF TriggerCrash, WOwn
  <2>3. WTypes'
    BY <1>3, <2>1 DEF TriggerCrash, WInv, WTypes, WJTypeOK, Place
  <2>4. KindInPlace(j)' /\ Delivered(j)'
    BY <1>3, <2>1 DEF TriggerCrash, WSound, KindInPlace, Delivered, AtWork
  <2>5. WorkIsDone(j)' /\ RowIsRead(j)'
    BY <1>3, <2>1 DEF TriggerCrash, WorkIsDone, RowIsRead
  <2>6. rules' \subseteq requests' /\ OvertakenOnly
    BY <1>3, <2>1 DEF TriggerCrash, WInv, OvertakenOnly
  <2> QED BY <2>2, <2>3, <2>4, <2>5, <2>6, WStep DEF WSound
<1>4. CASE JobStart(j)
  <2>1. WSound(j) /\ kind[j] \in Kind
    OBVIOUS
  <2>2. WOwn(j)
    BY <1>4 DEF JobStart, WOwn
  <2>3. WTypes'
    <3>1. tries[j] < MaxDeliveries
      BY <1>4, <2>1 DEF JobStart, WSound, Delivered
    <3>2. tries[j] + 1 \in 0 .. MaxDeliveries
      BY <3>1
    <3>3. tries' \in [Job -> 0 .. MaxDeliveries]
      BY <1>4, <3>2 DEF JobStart
    <3>4. wpc' \in [Job -> Place] /\ result' \in [Job -> Outcome]
      BY <1>4 DEF JobStart, Place, Outcome
    <3> QED BY <1>4, <3>3, <3>4 DEF JobStart, WInv, WTypes, WJTypeOK, Started
  <2>4. KindInPlace(j)' /\ Delivered(j)'
    <3>1. tries[j] \in Nat /\ tries'[j] = tries[j] + 1
      BY <1>4 DEF JobStart
    <3>2. tries'[j] >= 1
      BY <3>1
    <3> QED BY <1>4, <2>1, <3>2 DEF JobStart, KindInPlace, Delivered, QueueRow, DiagnosisRow,
        Started
  <2>5. WorkIsDone(j)' /\ RowIsRead(j)'
    BY <1>4, <2>1 DEF JobStart, WorkIsDone, RowIsRead
  <2>6. rules' \subseteq requests' /\ OvertakenOnly
    BY <1>4, <2>1 DEF JobStart, WInv, OvertakenOnly, Started, WSound, KindInPlace, DiagnosisRow
  <2> QED BY <2>2, <2>3, <2>4, <2>5, <2>6, WStep DEF WSound
<1> QED BY <1>1, <1>2, <1>3, <1>4

\* A handler that raises where nothing catches.
LEMMA WEscape ==
  ASSUME WInv, NEW j \in Job, HandlerEscapes(j)
  PROVE  WInv' /\ OvertakenOnly
<1> USE WFacts DEF Move, SetRow, wdata
<1>1. WSound(j) /\ kind[j] \in Kind
  OBVIOUS
<1>2. WOwn(j)
  BY DEF HandlerEscapes, WOwn
<1>3. tries' \in [Job -> 0 .. MaxDeliveries]
  <2>1. CASE wpc[j] = "sent"
    <3>1. tries[j] < MaxDeliveries
      BY <1>1, <2>1 DEF WSound, Delivered
    <3>2. tries[j] + 1 \in 0 .. MaxDeliveries
      BY <3>1
    <3> QED BY <2>1, <3>2 DEF HandlerEscapes
  <2>2. CASE wpc[j] # "sent"
    BY <2>2 DEF HandlerEscapes
  <2> QED BY <2>1, <2>2
<1>4. WTypes'
  BY <1>3 DEF HandlerEscapes, WInv, WTypes, WJTypeOK, Place
<1>5. KindInPlace(j)' /\ Delivered(j)'
  BY <1>1 DEF HandlerEscapes, WSound, KindInPlace, Delivered, AtWork
<1>6. WorkIsDone(j)' /\ RowIsRead(j)'
  BY <1>1 DEF HandlerEscapes, WorkIsDone, RowIsRead
<1>7. rules' \subseteq requests' /\ OvertakenOnly
  BY <1>1 DEF HandlerEscapes, WInv, OvertakenOnly
<1> QED BY <1>2, <1>4, <1>5, <1>6, <1>7, WStep DEF WSound

\* The recovery pipeline.
LEMMA WPipeline ==
  ASSUME WInv, NEW j \in Job,
         WorkRaises(j) \/ RunPipeline(j) \/ ApplyQuarantine(j) \/ ValidateQuarantine(j) \/ CommitPipeline(j)
  PROVE  WInv' /\ OvertakenOnly
<1> USE WFacts DEF Move, SetRow, wdata
<1>1. CASE WorkRaises(j)
  <2>1. WSound(j) /\ kind[j] \in Kind
    OBVIOUS
  <2>2. WOwn(j)
    BY <1>1 DEF WorkRaises, WOwn, ReleaseGraph
  <2>3. WTypes'
    BY <1>1, <2>1 DEF WorkRaises, WInv, WTypes, WJTypeOK, Place, ReleaseGraph
  <2>4. KindInPlace(j)' /\ Delivered(j)'
    BY <1>1, <2>1 DEF WorkRaises, WSound, KindInPlace, Delivered, AtWork
  <2>5. WorkIsDone(j)' /\ RowIsRead(j)'
    BY <1>1, <2>1 DEF WorkRaises, WorkIsDone, RowIsRead
  <2>6. rules' \subseteq requests' /\ OvertakenOnly
    BY <1>1, <2>1 DEF WorkRaises, WInv, OvertakenOnly
  <2> QED BY <2>2, <2>3, <2>4, <2>5, <2>6, WStep DEF WSound
<1>2. CASE RunPipeline(j)
  <2>1. WSound(j) /\ kind[j] \in Kind
    OBVIOUS
  <2>2. WOwn(j)
    BY <1>2 DEF RunPipeline, WOwn
  <2>3. WTypes'
    <3>1. PICK o \in {"none", "insufficient"} : result' = [result EXCEPT ![j] = o]
      BY <1>2 DEF RunPipeline
    <3>2. wpc' \in [Job -> Place] /\ result' \in [Job -> Outcome]
      BY <1>2, <3>1 DEF RunPipeline, Place, Outcome
    <3> QED BY <1>2, <3>2 DEF RunPipeline, WInv, WTypes, WJTypeOK
  <2>4. KindInPlace(j)' /\ Delivered(j)'
    BY <1>2, <2>1 DEF RunPipeline, WSound, KindInPlace, Delivered, InPipeline, AtWork
  <2>5. WorkIsDone(j)' /\ RowIsRead(j)'
    BY <1>2, <2>1 DEF RunPipeline, WorkIsDone, RowIsRead
  <2>6. rules' \subseteq requests' /\ OvertakenOnly
    BY <1>2, <2>1 DEF RunPipeline, WInv, OvertakenOnly
  <2> QED BY <2>2, <2>3, <2>4, <2>5, <2>6, WStep DEF WSound
<1>3. CASE ApplyQuarantine(j)
  <2>1. WSound(j) /\ kind[j] \in Kind
    OBVIOUS
  <2>2. WOwn(j)
    BY <1>3 DEF ApplyQuarantine, WOwn
  <2>3. WTypes'
    BY <1>3, <2>1 DEF ApplyQuarantine, WInv, WTypes, WJTypeOK, Place
  <2>4. KindInPlace(j)' /\ Delivered(j)'
    BY <1>3, <2>1 DEF ApplyQuarantine, WSound, KindInPlace, Delivered, InPipeline, AtWork
  <2>5. WorkIsDone(j)' /\ RowIsRead(j)'
    BY <1>3, <2>1 DEF ApplyQuarantine, WorkIsDone, RowIsRead
  <2>6. rules' \subseteq requests' /\ OvertakenOnly
    BY <1>3, <2>1 DEF ApplyQuarantine, WInv, OvertakenOnly
  <2> QED BY <2>2, <2>3, <2>4, <2>5, <2>6, WStep DEF WSound
<1>4. CASE ValidateQuarantine(j)
  <2>1. WSound(j) /\ kind[j] \in Kind
    OBVIOUS
  <2>2. WOwn(j)
    BY <1>4 DEF ValidateQuarantine, WOwn
  <2>3. WTypes'
    <3>1. PICK o \in {"refused", "approval"} : result' = [result EXCEPT ![j] = o]
      BY <1>4 DEF ValidateQuarantine
    <3>2. wpc' \in [Job -> Place] /\ result' \in [Job -> Outcome]
      BY <1>4, <3>1 DEF ValidateQuarantine, Place, Outcome
    <3> QED BY <1>4, <3>2 DEF ValidateQuarantine, WInv, WTypes, WJTypeOK
  <2>4. KindInPlace(j)' /\ Delivered(j)'
    BY <1>4, <2>1 DEF ValidateQuarantine, WSound, KindInPlace, Delivered, InPipeline, AtWork
  <2>5. WorkIsDone(j)' /\ RowIsRead(j)'
    BY <1>4, <2>1 DEF ValidateQuarantine, WorkIsDone, RowIsRead
  <2>6. rules' \subseteq requests' /\ OvertakenOnly
    BY <1>4, <2>1 DEF ValidateQuarantine, WInv, OvertakenOnly
  <2> QED BY <2>2, <2>3, <2>4, <2>5, <2>6, WStep DEF WSound
<1>5. CASE CommitPipeline(j)
  <2>1. WSound(j) /\ kind[j] \in Kind
    OBVIOUS
  <2>2. WOwn(j)
    BY <1>5 DEF CommitPipeline, WOwn
  <2>3. WTypes'
    <3>1. tries[j] >= 1 /\ tries[j] \in 0 .. MaxDeliveries
      BY <1>5, <2>1 DEF CommitPipeline, WSound, Delivered, AtWork
    <3>2. <<j, tries[j]>> \in Job \X (1 .. MaxDeliveries)
      <4>1. tries[j] \in 1 .. MaxDeliveries
        BY <3>1
      <4> QED BY <4>1
    <3>3. /\ rules' \subseteq Job \X (1 .. MaxDeliveries)
          /\ requests' \subseteq Job \X (1 .. MaxDeliveries)
      BY <1>5, <3>2 DEF CommitPipeline
    <3>4. wpc' \in [Job -> Place]
      BY <1>5 DEF CommitPipeline, Place
    <3> QED BY <1>5, <3>3, <3>4 DEF CommitPipeline, WInv, WTypes, WJTypeOK
  <2>4. KindInPlace(j)' /\ Delivered(j)'
    BY <1>5, <2>1 DEF CommitPipeline, WSound, KindInPlace, Delivered, AtWork
  <2>5. WorkIsDone(j)' /\ RowIsRead(j)'
    BY <1>5, <2>1 DEF CommitPipeline, WSound, WorkIsDone, RowIsRead, KindInPlace, InPipeline
  <2>6. rules' \subseteq requests' /\ OvertakenOnly
    BY <1>5, <2>1 DEF CommitPipeline, WInv, OvertakenOnly
  <2> QED BY <2>2, <2>3, <2>4, <2>5, <2>6, WStep DEF WSound
<1> QED BY <1>1, <1>2, <1>3, <1>4, <1>5

\* The graph and the board.
LEMMA WGraph ==
  ASSUME WInv, NEW j \in Job,
         LookupGraph(j) \/ InsertGraph(j) \/ CommitGraph(j) \/ RunBoard(j)
  PROVE  WInv' /\ OvertakenOnly
<1> USE WFacts DEF Move, SetRow, wdata
<1>1. CASE LookupGraph(j)
  <2>1. WSound(j) /\ kind[j] \in Kind
    OBVIOUS
  <2>2. WOwn(j)
    BY <1>1 DEF LookupGraph, WOwn
  <2>3. WTypes'
    BY <1>1, <2>1 DEF LookupGraph, WInv, WTypes, WJTypeOK, Place
  <2>4. KindInPlace(j)' /\ Delivered(j)'
    BY <1>1, <2>1 DEF LookupGraph, WSound, KindInPlace, Delivered, AtWork
  <2>5. WorkIsDone(j)' /\ RowIsRead(j)'
    BY <1>1, <2>1 DEF LookupGraph, WorkIsDone, RowIsRead, InPipeline
  <2>6. rules' \subseteq requests' /\ OvertakenOnly
    BY <1>1, <2>1 DEF LookupGraph, WInv, OvertakenOnly
  <2> QED BY <2>2, <2>3, <2>4, <2>5, <2>6, WStep DEF WSound
<1>2. CASE InsertGraph(j)
  <2>1. WSound(j) /\ kind[j] \in Kind
    OBVIOUS
  <2>2. WOwn(j)
    BY <1>2 DEF InsertGraph, WOwn
  <2>3. WTypes'
    BY <1>2, <2>1 DEF InsertGraph, WInv, WTypes, WJTypeOK, Place
  <2>4. KindInPlace(j)' /\ Delivered(j)'
    BY <1>2, <2>1 DEF InsertGraph, WSound, KindInPlace, Delivered, AtWork
  <2>5. WorkIsDone(j)' /\ RowIsRead(j)'
    BY <1>2, <2>1 DEF InsertGraph, WorkIsDone, RowIsRead
  <2>6. rules' \subseteq requests' /\ OvertakenOnly
    BY <1>2, <2>1 DEF InsertGraph, WInv, OvertakenOnly
  <2> QED BY <2>2, <2>3, <2>4, <2>5, <2>6, WStep DEF WSound
<1>3. CASE CommitGraph(j)
  <2>1. WSound(j) /\ kind[j] \in Kind
    OBVIOUS
  <2>2. WOwn(j)
    BY <1>3 DEF CommitGraph, WOwn
  <2>3. WTypes'
    BY <1>3, <2>1 DEF CommitGraph, WInv, WTypes, WJTypeOK, Place
  <2>4. KindInPlace(j)' /\ Delivered(j)'
    BY <1>3, <2>1 DEF CommitGraph, WSound, KindInPlace, Delivered, AtWork
  <2>5. WorkIsDone(j)' /\ RowIsRead(j)'
    BY <1>3, <2>1 DEF CommitGraph, WSound, WorkIsDone, RowIsRead, KindInPlace, InPipeline
  <2>6. rules' \subseteq requests' /\ OvertakenOnly
    BY <1>3, <2>1 DEF CommitGraph, WInv, OvertakenOnly
  <2> QED BY <2>2, <2>3, <2>4, <2>5, <2>6, WStep DEF WSound
<1>4. CASE RunBoard(j)
  <2>1. WSound(j) /\ kind[j] \in Kind
    OBVIOUS
  <2>2. WOwn(j)
    BY <1>4 DEF RunBoard, WOwn
  <2>3. WTypes'
    <3>1. PICK o \in {"insufficient", "named"} : result' = [result EXCEPT ![j] = o]
      BY <1>4 DEF RunBoard
    <3>2. wpc' \in [Job -> Place] /\ result' \in [Job -> Outcome]
      BY <1>4, <3>1 DEF RunBoard, Place, Outcome
    <3> QED BY <1>4, <3>2 DEF RunBoard, WInv, WTypes, WJTypeOK
  <2>4. KindInPlace(j)' /\ Delivered(j)'
    BY <1>4, <2>1 DEF RunBoard, WSound, KindInPlace, Delivered, AtWork
  <2>5. WorkIsDone(j)' /\ RowIsRead(j)'
    BY <1>4, <2>1 DEF RunBoard, WorkIsDone, RowIsRead, InPipeline
  <2>6. rules' \subseteq requests' /\ OvertakenOnly
    BY <1>4, <2>1 DEF RunBoard, WInv, OvertakenOnly
  <2> QED BY <2>2, <2>3, <2>4, <2>5, <2>6, WStep DEF WSound
<1> QED BY <1>1, <1>2, <1>3, <1>4

\* The end of a handler.
LEMMA WFinish ==
  ASSUME WInv, NEW j \in Job,
         ReadJob(j) \/ FinishJob(j) \/ FailJob(j)
  PROVE  WInv' /\ OvertakenOnly
<1> USE WFacts DEF Move, SetRow, wdata
<1>1. CASE ReadJob(j)
  <2>1. WSound(j) /\ kind[j] \in Kind
    OBVIOUS
  <2>2. WOwn(j)
    BY <1>1 DEF ReadJob, WOwn
  <2>3. WTypes'
    BY <1>1, <2>1 DEF ReadJob, WInv, WTypes, WJTypeOK, Place, WSound, KindInPlace, QueueRow
  <2>4. KindInPlace(j)' /\ Delivered(j)'
    BY <1>1, <2>1 DEF ReadJob, WSound, KindInPlace, Delivered, AtWork
  <2>5. WorkIsDone(j)' /\ RowIsRead(j)'
    BY <1>1, <2>1 DEF ReadJob, WSound, WorkIsDone, RowIsRead, InPipeline
  <2>6. rules' \subseteq requests' /\ OvertakenOnly
    BY <1>1, <2>1 DEF ReadJob, WInv, OvertakenOnly
  <2> QED BY <2>2, <2>3, <2>4, <2>5, <2>6, WStep DEF WSound
<1>2. CASE FinishJob(j)
  <2>1. WSound(j) /\ kind[j] \in Kind
    OBVIOUS
  <2>2. WOwn(j)
    BY <1>2 DEF FinishJob, WOwn
  <2>3. WTypes'
    BY <1>2, <2>1 DEF FinishJob, WInv, WTypes, WJTypeOK, Place, JobEnded, Done
  <2>4. KindInPlace(j)' /\ Delivered(j)'
    BY <1>2, <2>1 DEF FinishJob, KindInPlace, Delivered, AtWork, QueueRow, DiagnosisRow, Done
  <2>5. WorkIsDone(j)' /\ RowIsRead(j)'
    BY <1>2, <2>1 DEF FinishJob, WSound, WorkIsDone, RowIsRead, InPipeline, Done, JobEnded
  <2>6. rules' \subseteq requests' /\ OvertakenOnly
    BY <1>2, <2>1 DEF FinishJob, WInv, OvertakenOnly, WSound, RowIsRead, Done, KindInPlace, DiagnosisRow
  <2> QED BY <2>2, <2>3, <2>4, <2>5, <2>6, WStep DEF WSound
<1>3. CASE FailJob(j)
  <2>1. WSound(j) /\ kind[j] \in Kind
    OBVIOUS
  <2>2. WOwn(j)
    BY <1>3 DEF FailJob, WOwn
  <2>3. WTypes'
    BY <1>3, <2>1 DEF FailJob, WInv, WTypes, WJTypeOK, Place, JobEnded, Failed
  <2>4. KindInPlace(j)' /\ Delivered(j)'
    BY <1>3, <2>1 DEF FailJob, KindInPlace, Delivered, AtWork, QueueRow, DiagnosisRow, Failed
  <2>5. WorkIsDone(j)' /\ RowIsRead(j)'
    BY <1>3, <2>1 DEF FailJob, WorkIsDone, RowIsRead, Done, Failed, JobEnded
  <2>6. rules' \subseteq requests' /\ OvertakenOnly
    BY <1>3, <2>1 DEF FailJob, WInv, OvertakenOnly, Failed, WSound, KindInPlace, DiagnosisRow
  <2> QED BY <2>2, <2>3, <2>4, <2>5, <2>6, WStep DEF WSound
<1> QED BY <1>1, <1>2, <1>3

\* A worker that stops, and a cancellation of the row.
LEMMA WStopped ==
  ASSUME WInv, NEW j \in Job,
         WorkerCrash(j) \/ WorkerTimeout(j) \/ CancelRow(j)
  PROVE  WInv' /\ OvertakenOnly
<1> USE WFacts DEF Move, SetRow, wdata
<1>1. CASE WorkerCrash(j)
  <2>1. WSound(j) /\ kind[j] \in Kind
    OBVIOUS
  <2>2. WOwn(j)
    BY <1>1 DEF WorkerCrash, WOwn, ReleaseGraph
  <2>3. WTypes'
    BY <1>1, <2>1 DEF WorkerCrash, WInv, WTypes, WJTypeOK, ReleaseGraph, Place
  <2>4. KindInPlace(j)' /\ Delivered(j)'
    BY <1>1, <2>1 DEF WorkerCrash, WSound, KindInPlace, Delivered
  <2>5. WorkIsDone(j)' /\ RowIsRead(j)'
    BY <1>1, <2>1 DEF WorkerCrash, WorkIsDone, RowIsRead
  <2>6. rules' \subseteq requests' /\ OvertakenOnly
    BY <1>1, <2>1 DEF WorkerCrash, WInv, OvertakenOnly
  <2> QED BY <2>2, <2>3, <2>4, <2>5, <2>6, WStep DEF WSound
<1>2. CASE WorkerTimeout(j)
  <2>1. WSound(j) /\ kind[j] \in Kind
    OBVIOUS
  <2>2. WOwn(j)
    BY <1>2 DEF WorkerTimeout, WOwn, ReleaseGraph
  <2>3. WTypes'
    BY <1>2, <2>1 DEF WorkerTimeout, WInv, WTypes, WJTypeOK, ReleaseGraph, Place
  <2>4. KindInPlace(j)' /\ Delivered(j)'
    BY <1>2, <2>1 DEF WorkerTimeout, WSound, KindInPlace, Delivered
  <2>5. WorkIsDone(j)' /\ RowIsRead(j)'
    BY <1>2, <2>1 DEF WorkerTimeout, WorkIsDone, RowIsRead
  <2>6. rules' \subseteq requests' /\ OvertakenOnly
    BY <1>2, <2>1 DEF WorkerTimeout, WInv, OvertakenOnly
  <2> QED BY <2>2, <2>3, <2>4, <2>5, <2>6, WStep DEF WSound
<1>3. CASE CancelRow(j)
  <2>1. WSound(j) /\ kind[j] \in Kind
    OBVIOUS
  <2>2. WOwn(j)
    BY <1>3 DEF CancelRow, WOwn
  <2>3. WTypes'
    BY <1>3, <2>1 DEF CancelRow, WInv, WTypes, WJTypeOK, JobEnded
  <2>4. KindInPlace(j)' /\ Delivered(j)'
    BY <1>3, <2>1 DEF CancelRow, WSound, KindInPlace, Delivered, InPipeline, AtWork, QueueRow,
       DiagnosisRow
  <2>5. WorkIsDone(j)' /\ RowIsRead(j)'
    BY <1>3, <2>1 DEF CancelRow, WSound, WorkIsDone, RowIsRead, InPipeline, JobEnded, Done
  <2>6. rules' \subseteq requests' /\ OvertakenOnly
    BY <1>3, <2>1 DEF CancelRow, WInv, OvertakenOnly
  <2> QED BY <2>2, <2>3, <2>4, <2>5, <2>6, WStep DEF WSound
<1> QED BY <1>1, <1>2, <1>3

LEMMA WStepInv ==
  ASSUME WInv, [WJNext]_wvars
  PROVE  WInv' /\ OvertakenOnly
<1>1. CASE WJNext
  BY <1>1, WTrigger, WEscape, WPipeline, WGraph, WFinish, WStopped DEF WJNext, WorkerStep
<1>2. CASE UNCHANGED wvars
  <2>1. /\ kind' = kind /\ jrow' = jrow /\ wpc' = wpc /\ tries' = tries /\ result' = result
        /\ rules' = rules /\ requests' = requests /\ graph' = graph /\ looked' = looked
    BY <1>2 DEF wvars
  <2>2. WTypes' /\ rules' \subseteq requests'
    BY <2>1 DEF WInv, WTypes, WJTypeOK
  <2>3. ASSUME NEW j \in Job PROVE WSound(j)'
    BY <2>1, WFacts DEF WSound, KindInPlace, Delivered, WorkIsDone, RowIsRead, Done, InPipeline, AtWork
  <2> QED BY <2>1, <2>2, <2>3 DEF WInv, OvertakenOnly
<1> QED BY <1>1, <1>2

LEMMA WInitInv ==
  ASSUME WJInit
  PROVE  WInv
<1>1. /\ kind \in Kinds /\ kind \in [Job -> Kind]
      /\ jrow = [j \in Job |-> IF kind[j] = "diagnosis" THEN "absent" ELSE "queued"]
      /\ wpc = [j \in Job |-> IF kind[j] = "diagnosis" THEN "trigger" ELSE "sent"]
      /\ tries = [j \in Job |-> 0] /\ result = [j \in Job |-> "none"]
      /\ rules = {} /\ requests = {} /\ graph = "absent" /\ looked = [j \in Job |-> "none"]
      /\ MaxDeliveries \in Nat /\ 0 < MaxDeliveries
  BY JobsAssumption DEF WJInit
<1>2. WTypes
  <2>1. 0 \in 0 .. MaxDeliveries
    BY <1>1
  <2> QED BY <1>1, <2>1 DEF WTypes, WJTypeOK, Place, Outcome
<1>3. ASSUME NEW j \in Job PROVE WSound(j)
  BY <1>1 DEF WSound, KindInPlace, Delivered, WorkIsDone, RowIsRead, AtWork, DiagnosisRow, QueueRow
<1> QED BY <1>1, <1>2, <1>3 DEF WInv

LEMMA WInvJobs ==
  ASSUME WInv
  PROVE  WJTypeOK /\ QuarantineIsAnswerable /\ CompletedDidWork /\ EndedIsFinal
  BY WFacts DEF WInv, WTypes, QuarantineIsAnswerable, CompletedDidWork, EndedIsFinal, WSound,
     WorkIsDone, RowIsRead

-----------------------------------------------------------------------------
(***************************************************************************)
(* The decisions on a recovery (RecoveryApprovals).  A decider that is     *)
(* about to commit holds the row, which is still pending unless it changed *)
(* between the read and the lock, and then the race is on record.          *)
(***************************************************************************)
DPlace == {"idle", "read", "attempt", "rollback", "flush", "expire", "commit", "commit expired",
           "200", "202", "204", "400", "403", "500"}
Verdict == {"pending", "approved", "awaiting_promotion", "rejected", "expired"}

\* What a decider has checked, by where it is.
HasAsked(d) ==
  /\ dpc[d] # "idle" => ask[d] \in Ask
  /\ dpc[d] = "read" => ask[d].says = "rollback" \/ ~ask[d].blast
  /\ dpc[d] \in {"flush", "commit"} =>
       /\ ask[d].says # "rollback" /\ ask[d].tenant = "own" /\ ~ask[d].blast
       /\ ask[d].says = "approve" => ctx[ask[d].row] = "seeded"
HasRead(d) ==
  /\ dpc[d] \in {"flush", "expire", "commit", "commit expired"} => saw[d] = "pending"
  /\ dpc[d] \in {"commit", "commit expired"} =>
       /\ rowLock[ask[d].row] = d
       /\ status[ask[d].row] = "pending" \/ ask[d].row \in raced

\* A committed decision: its decider answered, and its row is no longer pending.
Stands(e) == dpc[e[2]] \in {"200", "202", "204"} /\ status[e[1]] # "pending"

\* A certificate: what MintedIsAuthorised says of it.
Authorised(e) ==
  /\ e \in decided /\ <<"RECOVERY_APPROVED", e[1], e[2]>> \in audit
  /\ ask[e[2]].says = "approve" /\ ask[e[2]].tenant = "own" /\ ~ask[e[2]].blast
  /\ status[e[1]] = "approved" \/ e[1] \in raced

ATypes ==
  /\ dpc \in [Decider -> DPlace] /\ ask \in [Decider -> Ask \cup {NoAsk}] /\ ctx \in Ctx
  /\ saw \in [Decider -> Verdict \cup {"none"}]
  /\ status \in [Approval -> Verdict]
  /\ rowLock \in [Approval -> Decider \cup {"free"}]
  /\ minted \subseteq Approval \X Decider /\ decided \subseteq Approval \X Decider

AInv ==
  /\ ATypes
  /\ \A d \in Decider : HasAsked(d) /\ HasRead(d)
  /\ \A r \in Approval : rowLock[r] # "free" =>
       dpc[rowLock[r]] \in {"commit", "commit expired"} /\ ask[rowLock[r]].row = r
  /\ \A e \in decided : Stands(e)
  /\ \A e, f \in decided : e[1] = f[1] /\ e[1] \notin raced => e = f
  /\ \A e \in minted : Authorised(e)

\* A step of d: the other deciders are where they were and hold what they held; only
\* a row that d holds changes its status, and races and audit events stay on record.
DOwn(d) ==
  /\ ctx' = ctx /\ raced \subseteq raced' /\ audit \subseteq audit'
  /\ \A i \in Decider \ {d} : /\ dpc'[i] = dpc[i] /\ ask'[i] = ask[i] /\ saw'[i] = saw[i]
                              /\ \A r \in Approval : rowLock[r] = i => rowLock'[r] = i
  /\ \A r \in Approval : status'[r] = status[r] \/ rowLock[r] = d

\* What a step may never do: decide again, but in a race.
DecidedStays ==
  \A r \in Approval : status[r] # "pending" /\ status'[r] # status[r] => r \in raced'

\* The bodies of deciders, and what the invariant says of the variables.
LEMMA AFacts ==
  ASSUME AInv
  PROVE  /\ ATypes /\ "free" \notin Decider /\ ctx \in [Approval -> Context]
         /\ \A d \in Decider : HasAsked(d) /\ HasRead(d)
         /\ \A a \in Ask : /\ a.row \in Approval /\ a.says \in Decision
                           /\ a.blast \in BOOLEAN /\ a.tenant \in {"own", "other"}
         /\ \A e \in decided : e[1] \in Approval /\ e[2] \in Decider /\ e = <<e[1], e[2]>>
         /\ \A e \in minted : e[1] \in Approval /\ e[2] \in Decider /\ e = <<e[1], e[2]>>
<1>1. \A a \in Ask : a \in [row : Approval, says : Decision, blast : BOOLEAN, tenant : {"own", "other"}]
  BY AskAssumption
<1>2. ATypes /\ \A d \in Decider : HasAsked(d) /\ HasRead(d)
  BY DEF AInv
<1>3. "free" \notin Decider /\ ctx \in [Approval -> Context]
  BY <1>2, AskAssumption DEF ATypes
<1>4. /\ \A e \in decided : e[1] \in Approval /\ e[2] \in Decider /\ e = <<e[1], e[2]>>
      /\ \A e \in minted : e[1] \in Approval /\ e[2] \in Decider /\ e = <<e[1], e[2]>>
  BY <1>2 DEF ATypes
<1> QED BY <1>1, <1>2, <1>3, <1>4

LEMMA AOthers ==
  ASSUME AInv, NEW d \in Decider, DOwn(d), NEW i \in Decider, i # d
  PROVE  HasAsked(i)' /\ HasRead(i)'
<1>1. /\ dpc'[i] = dpc[i] /\ ask'[i] = ask[i] /\ saw'[i] = saw[i] /\ ctx' = ctx
      /\ HasAsked(i) /\ HasRead(i)
  BY AFacts DEF DOwn
<1>2. HasAsked(i)'
  BY <1>1 DEF HasAsked
<1>3. HasRead(i)'
  <2> SUFFICES ASSUME dpc[i] \in {"commit", "commit expired"}
               PROVE  /\ rowLock'[ask[i].row] = i
                      /\ status'[ask[i].row] = "pending" \/ ask[i].row \in raced'
    BY <1>1 DEF HasRead
  <2>1. ask[i].row \in Approval /\ rowLock[ask[i].row] = i
    BY <1>1, AFacts DEF HasAsked, HasRead
  <2> QED BY <1>1, <2>1 DEF HasRead, DOwn
<1> QED BY <1>2, <1>3

\* A step of d that takes no lock and decides nothing.
LEMMA ALocal ==
  ASSUME AInv, NEW d \in Decider, DOwn(d), ATypes', HasAsked(d)', HasRead(d)',
         dpc[d] \notin {"commit", "commit expired", "200", "202", "204"},
         UNCHANGED <<status, rowLock, minted, decided, raced>>
  PROVE  AInv' /\ DecidedStays
<1>1. \A i \in Decider : HasAsked(i)' /\ HasRead(i)'
  BY AOthers
<1>2. ASSUME NEW r \in Approval, rowLock'[r] # "free"
      PROVE  (dpc[rowLock[r]] \in {"commit", "commit expired"} /\ ask[rowLock[r]].row = r)'
  <2>1. /\ rowLock'[r] = rowLock[r] /\ rowLock[r] \in Decider
        /\ dpc[rowLock[r]] \in {"commit", "commit expired"} /\ ask[rowLock[r]].row = r
    <3>1. rowLock'[r] = rowLock[r] /\ rowLock \in [Approval -> Decider \cup {"free"}]
      BY AFacts DEF ATypes
    <3> QED BY <1>2, <3>1 DEF AInv
  <2> QED BY <2>1 DEF DOwn
<1>3. ASSUME NEW e \in decided PROVE e[2] # d /\ Stands(e)'
  BY AFacts DEF AInv, Stands, DOwn
<1>4. ASSUME NEW e \in minted PROVE Authorised(e)'
  <2>1. e \in decided /\ e[2] # d /\ e[2] \in Decider /\ Authorised(e)
    BY <1>3, AFacts DEF AInv, Authorised
  <2> QED BY <2>1 DEF Authorised, DOwn
<1>5. AInv'
  BY <1>1, <1>2, <1>3, <1>4 DEF AInv
<1> QED BY <1>5 DEF DecidedStays

LEMMA AReceive ==
  ASSUME AInv, NEW d \in Decider, Receive(d)
  PROVE  AInv' /\ DecidedStays
<1>1. PICK a \in Ask :
        /\ dpc[d] = "idle" /\ ask' = [ask EXCEPT ![d] = a]
        /\ dpc' = [dpc EXCEPT ![d] = IF a.blast /\ a.says # "rollback" THEN "403" ELSE "read"]
        /\ saw' = saw /\ ctx' = ctx /\ audit' = audit
        /\ UNCHANGED <<status, rowLock, minted, decided, raced>>
  BY DEF Receive, DGoto, rows
<1>2. DOwn(d)
  BY <1>1, AFacts DEF DOwn, ATypes
<1>3. ATypes'
  BY <1>1, AFacts DEF ATypes, DPlace
<1>4. HasAsked(d)' /\ HasRead(d)'
  <2>1. /\ ask'[d] = a /\ a.blast \in BOOLEAN
        /\ dpc'[d] = IF a.blast /\ a.says # "rollback" THEN "403" ELSE "read"
    BY <1>1, AFacts DEF ATypes
  <2> QED BY <2>1 DEF HasAsked, HasRead
<1> QED BY <1>1, <1>2, <1>3, <1>4, ALocal

LEMMA AReadApproval ==
  ASSUME AInv, NEW d \in Decider, ReadApproval(d)
  PROVE  AInv' /\ DecidedStays
<1> DEFINE a == ask[d]
           to == IF a.tenant = "other" THEN (IF a.says = "rollback" THEN "403" ELSE "attempt")
                 ELSE IF a.says = "rollback" THEN "rollback"
                 ELSE IF status[a.row] # "pending" THEN "400"
                 ELSE IF a.row \in expired THEN "expire"
                 ELSE IF a.says = "approve" /\ ctx[a.row] = "pipeline" THEN "500"
                 ELSE "flush"
<1>1. /\ dpc[d] = "read" /\ dpc' = [dpc EXCEPT ![d] = to] /\ ask' = ask
      /\ saw' = [saw EXCEPT ![d] = status[a.row]] /\ ctx' = ctx /\ audit' = audit
      /\ UNCHANGED <<status, rowLock, minted, decided, raced>>
  BY DEF ReadApproval, DGoto, rows
<1>2. a \in Ask /\ a.row \in Approval /\ a.tenant \in {"own", "other"}
      /\ (a.says = "rollback" \/ ~a.blast) /\ ctx[a.row] \in {"pipeline", "seeded"}
      /\ status[a.row] \in Verdict
  BY <1>1, AFacts DEF HasAsked, Context, ATypes
<1>3. /\ to \in {"403", "attempt", "rollback", "400", "expire", "500", "flush"}
      /\ to = "expire" => status[a.row] = "pending"
      /\ to = "flush" => /\ status[a.row] = "pending" /\ a.says # "rollback" /\ a.tenant = "own"
                         /\ ~(a.says = "approve" /\ ctx[a.row] = "pipeline")
  BY <1>2
<1> HIDE DEF to
<1>4. DOwn(d)
  BY <1>1, AFacts DEF DOwn, ATypes
<1>5. ATypes'
  BY <1>1, <1>2, <1>3, AFacts DEF ATypes, DPlace
<1>6. dpc'[d] = to /\ saw'[d] = status[a.row] /\ ask'[d] = a
  BY <1>1, AFacts DEF ATypes
<1>7. HasAsked(d)' /\ HasRead(d)'
  BY <1>1, <1>2, <1>3, <1>6 DEF HasAsked, HasRead
<1> QED BY <1>1, <1>4, <1>5, <1>7, ALocal

LEMMA AAudited ==
  ASSUME AInv, NEW d \in Decider, AuditAttempt(d) \/ RollbackIntervention(d)
  PROVE  AInv' /\ DecidedStays
<1>1. PICK to \in {"403", "200"} : dpc' = [dpc EXCEPT ![d] = to]
  BY DEF AuditAttempt, RollbackIntervention, DGoto
<1>2. /\ dpc[d] \in {"attempt", "rollback"} /\ ask' = ask /\ saw' = saw /\ ctx' = ctx
      /\ audit \subseteq audit' /\ UNCHANGED <<status, rowLock, minted, decided, raced>>
  BY DEF AuditAttempt, RollbackIntervention
<1>3. DOwn(d)
  BY <1>1, <1>2, AFacts DEF DOwn, ATypes
<1>4. ATypes'
  BY <1>1, <1>2, AFacts DEF ATypes, DPlace
<1>5. HasAsked(d)' /\ HasRead(d)'
  <2>1. dpc'[d] = to /\ ask'[d] = ask[d] /\ ask[d] \in Ask
    BY <1>1, <1>2, AFacts DEF ATypes, HasAsked
  <2> QED BY <2>1 DEF HasAsked, HasRead
<1> QED BY <1>2, <1>3, <1>4, <1>5, ALocal

\* The row is taken; that it is no longer what was read is put on record.
LEMMA AFlush ==
  ASSUME AInv, NEW d \in Decider, FlushDecision(d)
  PROVE  AInv' /\ DecidedStays
<1> DEFINE r == ask[d].row
<1>1. PICK to \in {"commit expired", "commit"} :
        dpc' = [dpc EXCEPT ![d] = to] /\ (to = "commit" => dpc[d] = "flush")
  BY DEF FlushDecision, DGoto
<1>2. /\ dpc[d] \in {"flush", "expire"} /\ rowLock[r] = "free"
      /\ rowLock' = [rowLock EXCEPT ![r] = d]
      /\ raced' = IF status[r] # saw[d] THEN raced \cup {r} ELSE raced
      /\ saw' = saw /\ ask' = ask /\ ctx' = ctx /\ status' = status /\ audit' = audit
      /\ minted' = minted /\ decided' = decided
  BY DEF FlushDecision
<1>3. /\ HasAsked(d) /\ saw[d] = "pending" /\ ask[d] \in Ask /\ r \in Approval
      /\ raced \subseteq raced' /\ (status[r] = "pending" \/ r \in raced')
  BY <1>2, AFacts DEF HasAsked, HasRead
<1>4. /\ dpc'[d] = to /\ \A i \in Decider \ {d} : dpc'[i] = dpc[i]
      /\ rowLock'[r] = d /\ \A s \in Approval \ {r} : rowLock'[s] = rowLock[s]
  BY <1>1, <1>2, <1>3, AFacts DEF ATypes
<1>5. DOwn(d)
  BY <1>2, <1>3, <1>4, AFacts DEF DOwn
<1>6. ATypes'
  BY <1>1, <1>2, AFacts DEF ATypes, DPlace
<1>7. HasAsked(d)' /\ HasRead(d)'
  BY <1>1, <1>2, <1>3, <1>4 DEF HasAsked, HasRead
<1>8. \A i \in Decider : HasAsked(i)' /\ HasRead(i)'
  BY <1>5, <1>7, AOthers
<1>9. ASSUME NEW s \in Approval, rowLock'[s] # "free"
      PROVE  (dpc[rowLock[s]] \in {"commit", "commit expired"} /\ ask[rowLock[s]].row = s)'
  <2>1. CASE s = r
    BY <1>2, <1>4, <2>1
  <2>2. CASE s # r
    <3>1. /\ rowLock'[s] = rowLock[s] /\ rowLock[s] \in Decider
          /\ dpc[rowLock[s]] \in {"commit", "commit expired"} /\ ask[rowLock[s]].row = s
      <4>1. rowLock'[s] = rowLock[s] /\ rowLock \in [Approval -> Decider \cup {"free"}]
        BY <1>4, <2>2, AFacts DEF ATypes
      <4> QED BY <1>9, <4>1 DEF AInv
    <3> QED BY <1>2, <1>4, <3>1
  <2> QED BY <2>1, <2>2
<1>10. ASSUME NEW e \in decided PROVE Stands(e)'
  BY <1>2, <1>4, AFacts DEF AInv, Stands
<1>11. ASSUME NEW e \in minted PROVE Authorised(e)'
  BY <1>2, <1>3 DEF AInv, Authorised
<1>12. AInv'
  BY <1>2, <1>3, <1>6, <1>8, <1>9, <1>10, <1>11 DEF AInv
<1> QED BY <1>2, <1>12 DEF DecidedStays

\* A step of d that gives the row back: the other rows keep their holders.
LEMMA AUnlock ==
  ASSUME AInv, NEW d \in Decider, NEW to \in DPlace \ {"commit", "commit expired"},
         dpc' = [dpc EXCEPT ![d] = to], ask' = ask,
         rowLock' \in [Approval -> Decider \cup {"free"}],
         \A s \in Approval : rowLock'[s] = IF rowLock[s] = d THEN "free" ELSE rowLock[s]
  PROVE  \A s \in Approval : rowLock'[s] # "free" =>
           (dpc[rowLock[s]] \in {"commit", "commit expired"} /\ ask[rowLock[s]].row = s)'
<1> SUFFICES ASSUME NEW s \in Approval, rowLock'[s] # "free"
             PROVE  (dpc[rowLock[s]] \in {"commit", "commit expired"} /\ ask[rowLock[s]].row = s)'
  OBVIOUS
<1>1. rowLock'[s] = rowLock[s] /\ rowLock[s] \in Decider /\ rowLock[s] # d /\ rowLock[s] # "free"
  BY AFacts DEF ATypes
<1>2. dpc[rowLock[s]] \in {"commit", "commit expired"} /\ ask[rowLock[s]].row = s
  BY <1>1 DEF AInv
<1>3. dpc'[rowLock[s]] = dpc[rowLock[s]]
  BY <1>1, AFacts DEF ATypes
<1> QED BY <1>1, <1>2, <1>3

\* The row d is about to write is the only one it holds.
LEMMA AHolds ==
  ASSUME AInv, NEW d \in Decider, dpc[d] \in {"commit", "commit expired"}, NEW r, r = ask[d].row,
         rowLock' = [rowLock EXCEPT ![r] = "free"]
  PROVE  /\ r \in Approval /\ rowLock[r] = d /\ rowLock' \in [Approval -> Decider \cup {"free"}]
         /\ \A s \in Approval : rowLock'[s] = IF rowLock[s] = d THEN "free" ELSE rowLock[s]
<1>1. ask[d] \in Ask /\ r \in Approval /\ rowLock[r] = d
  BY AFacts DEF HasAsked, HasRead
<1>2. \A s \in Approval : rowLock[s] = d => s = r
  BY AFacts DEF AInv
<1> QED BY <1>1, <1>2, AFacts DEF ATypes

LEMMA ADies ==
  ASSUME AInv, NEW d \in Decider, DeciderDies(d)
  PROVE  AInv' /\ DecidedStays
<1>1. /\ dpc[d] \in {"read", "attempt", "flush", "expire", "commit", "commit expired", "rollback"}
      /\ dpc' = [dpc EXCEPT ![d] = "500"]
      /\ rowLock' = [r \in Approval |-> IF rowLock[r] = d THEN "free" ELSE rowLock[r]]
      /\ saw' = saw /\ ask' = ask /\ ctx' = ctx /\ status' = status /\ audit' = audit
      /\ minted' = minted /\ decided' = decided /\ raced' = raced
  BY DEF DeciderDies, DGoto
<1>2. /\ dpc'[d] = "500" /\ \A i \in Decider \ {d} : dpc'[i] = dpc[i]
      /\ rowLock' \in [Approval -> Decider \cup {"free"}]
      /\ ask[d] \in Ask
  BY <1>1, AFacts DEF ATypes, HasAsked
<1>3. DOwn(d)
  BY <1>1, <1>2, AFacts DEF DOwn
<1>4. ATypes'
  BY <1>1, <1>2, AFacts DEF ATypes, DPlace
<1>5. HasAsked(d)' /\ HasRead(d)'
  BY <1>1, <1>2 DEF HasAsked, HasRead
<1>6. \A i \in Decider : HasAsked(i)' /\ HasRead(i)'
  BY <1>3, <1>5, AOthers
<1>7. "500" \in DPlace \ {"commit", "commit expired"}
  BY DEF DPlace
<1>8. \A s \in Approval : rowLock'[s] # "free" =>
        (dpc[rowLock[s]] \in {"commit", "commit expired"} /\ ask[rowLock[s]].row = s)'
  BY <1>1, <1>2, <1>7, AUnlock
<1>9. ASSUME NEW e \in decided PROVE Stands(e)'
  BY <1>1, <1>2, AFacts DEF AInv, Stands
<1>10. ASSUME NEW e \in minted PROVE Authorised(e)'
  BY <1>1 DEF AInv, Authorised
<1>11. AInv'
  BY <1>1, <1>4, <1>6, <1>8, <1>9, <1>10 DEF AInv
<1> QED BY <1>1, <1>11 DEF DecidedStays

\* A status is written: the row was pending, or the race is on record.
LEMMA AExpire ==
  ASSUME AInv, NEW d \in Decider, CommitExpired(d)
  PROVE  AInv' /\ DecidedStays
<1> DEFINE r == ask[d].row
<1>1. /\ dpc[d] = "commit expired" /\ dpc' = [dpc EXCEPT ![d] = "400"]
      /\ status' = [status EXCEPT ![r] = "expired"] /\ rowLock' = [rowLock EXCEPT ![r] = "free"]
      /\ saw' = saw /\ ask' = ask /\ ctx' = ctx /\ audit' = audit
      /\ minted' = minted /\ decided' = decided /\ raced' = raced
  BY DEF CommitExpired, DGoto
<1>2. /\ r \in Approval /\ rowLock[r] = d /\ rowLock' \in [Approval -> Decider \cup {"free"}]
      /\ \A s \in Approval : rowLock'[s] = IF rowLock[s] = d THEN "free" ELSE rowLock[s]
  BY <1>1, AHolds
<1>3. /\ dpc'[d] = "400" /\ \A i \in Decider \ {d} : dpc'[i] = dpc[i]
      /\ status'[r] = "expired" /\ \A s \in Approval \ {r} : status'[s] = status[s]
      /\ ask[d] \in Ask /\ (status[r] = "pending" \/ r \in raced)
  <2>1. ATypes /\ HasAsked(d) /\ HasRead(d)
    BY AFacts
  <2>2. dpc'[d] = "400" /\ \A i \in Decider \ {d} : dpc'[i] = dpc[i]
    BY <1>1, <2>1 DEF ATypes
  <2>3. status'[r] = "expired" /\ \A s \in Approval \ {r} : status'[s] = status[s]
    BY <1>1, <1>2, <2>1 DEF ATypes
  <2> QED BY <1>1, <2>1, <2>2, <2>3 DEF HasAsked, HasRead
<1>4. DOwn(d)
  BY <1>1, <1>2, <1>3, AFacts DEF DOwn
<1>5. ATypes'
  BY <1>1, <1>2, AFacts DEF ATypes, DPlace, Verdict
<1>6. HasAsked(d)' /\ HasRead(d)'
  BY <1>1, <1>3 DEF HasAsked, HasRead
<1>7. \A i \in Decider : HasAsked(i)' /\ HasRead(i)'
  BY <1>4, <1>6, AOthers
<1>8. "400" \in DPlace \ {"commit", "commit expired"}
  BY DEF DPlace
<1>9. \A s \in Approval : rowLock'[s] # "free" =>
        (dpc[rowLock[s]] \in {"commit", "commit expired"} /\ ask[rowLock[s]].row = s)'
  BY <1>1, <1>2, <1>8, AUnlock
<1>10. ASSUME NEW e \in decided PROVE Stands(e)'
  <2>1. e[1] \in Approval /\ e[2] \in Decider /\ Stands(e)
    BY AFacts DEF AInv
  <2>2. e[2] # d
    BY <1>1, <2>1 DEF Stands
  <2> QED BY <1>3, <2>1, <2>2 DEF Stands
<1>11. ASSUME NEW e \in minted PROVE Authorised(e)'
  <2>1. e[1] \in Approval /\ Authorised(e)
    BY AFacts DEF AInv
  <2> QED BY <1>1, <1>3, <2>1 DEF Authorised
<1>12. AInv'
  BY <1>1, <1>5, <1>7, <1>9, <1>10, <1>11 DEF AInv
<1>13. DecidedStays
  BY <1>1, <1>3 DEF DecidedStays
<1> QED BY <1>12, <1>13

\* Status, decision, certificate and audit event together.
LEMMA ADecide ==
  ASSUME AInv, NEW d \in Decider, CommitDecision(d)
  PROVE  AInv' /\ DecidedStays
<1> DEFINE r == ask[d].row
           s == ask[d].says
<1>1. /\ dpc[d] = "commit" /\ dpc' = [dpc EXCEPT ![d] = CodeFor[s]]
      /\ status' = [status EXCEPT ![r] = StatusFor[s]] /\ rowLock' = [rowLock EXCEPT ![r] = "free"]
      /\ decided' = decided \cup {<<r, d>>} /\ audit' = audit \cup {<<ActionFor[s], r, d>>}
      /\ minted' = IF s = "approve" THEN minted \cup {<<r, d>>} ELSE minted
      /\ saw' = saw /\ ask' = ask /\ ctx' = ctx /\ raced' = raced
  BY DEF CommitDecision, DGoto
<1>2. /\ r \in Approval /\ rowLock[r] = d /\ rowLock' \in [Approval -> Decider \cup {"free"}]
      /\ \A x \in Approval : rowLock'[x] = IF rowLock[x] = d THEN "free" ELSE rowLock[x]
  BY <1>1, AHolds
<1>3. /\ ATypes /\ ask[d] \in Ask /\ s \in {"approve", "promote", "reject"}
      /\ ask[d].tenant = "own" /\ ~ask[d].blast /\ (s = "approve" => ctx[r] = "seeded")
      /\ status[r] = "pending" \/ r \in raced
  <2>1. ATypes /\ HasAsked(d) /\ HasRead(d)
    BY AFacts
  <2>2. ask[d] \in Ask /\ s \in Decision
    BY <1>1, <2>1, AFacts DEF HasAsked
  <2> QED BY <1>1, <2>1, <2>2 DEF HasAsked, HasRead, Decision
<1>4. /\ CodeFor[s] \in {"200", "202", "204"}
      /\ StatusFor[s] \in {"approved", "awaiting_promotion", "rejected"}
      /\ s = "approve" => StatusFor[s] = "approved" /\ ActionFor[s] = "RECOVERY_APPROVED"
  BY <1>3 DEF CodeFor, StatusFor, ActionFor
<1> HIDE DEF r, s
<1>5. /\ dpc'[d] = CodeFor[s] /\ \A i \in Decider \ {d} : dpc'[i] = dpc[i]
      /\ status'[r] = StatusFor[s] /\ \A x \in Approval \ {r} : status'[x] = status[x]
  BY <1>1, <1>2, <1>3 DEF ATypes
<1>6. DOwn(d)
  BY <1>1, <1>2, <1>5, AFacts DEF DOwn
<1>7. ATypes'
  <2>1. status' \in [Approval -> Verdict] /\ dpc' \in [Decider -> DPlace]
    BY <1>1, <1>3, <1>4 DEF ATypes, Verdict, DPlace
  <2>2. decided' \subseteq Approval \X Decider /\ minted' \subseteq Approval \X Decider
    BY <1>1, <1>2, <1>3 DEF ATypes
  <2> QED BY <1>1, <1>2, <1>3, <2>1, <2>2 DEF ATypes
<1>8. HasAsked(d)' /\ HasRead(d)'
  BY <1>1, <1>3, <1>4, <1>5 DEF HasAsked, HasRead
<1>9. \A i \in Decider : HasAsked(i)' /\ HasRead(i)'
  BY <1>6, <1>8, AOthers
<1>10. \A x \in Approval : rowLock'[x] # "free" =>
         (dpc[rowLock[x]] \in {"commit", "commit expired"} /\ ask[rowLock[x]].row = x)'
  <2>1. CodeFor[s] \in DPlace \ {"commit", "commit expired"}
    BY <1>4 DEF DPlace
  <2> QED BY <1>1, <1>2, <2>1, AUnlock
<1>11. ASSUME NEW e \in decided
       PROVE  e[1] \in Approval /\ e[2] \in Decider /\ e[2] # d /\ Stands(e)
  <2>1. e[1] \in Approval /\ e[2] \in Decider /\ Stands(e)
    BY AFacts DEF AInv
  <2> QED BY <1>1, <2>1 DEF Stands
<1>12. ASSUME NEW e \in decided' PROVE Stands(e)'
  <2>1. CASE e \in decided
    BY <1>4, <1>5, <1>11, <2>1 DEF Stands
  <2>2. CASE e = <<r, d>>
    BY <1>4, <1>5, <2>2 DEF Stands
  <2> QED BY <1>1, <2>1, <2>2
<1>13. ASSUME NEW e \in decided', NEW f \in decided', e[1] = f[1], e[1] \notin raced' PROVE e = f
  <2>1. ASSUME NEW g \in decided, g[1] = r PROVE r \in raced
    BY <1>3, <1>11, <2>1 DEF Stands
  <2>2. CASE e \in decided /\ f \in decided
    BY <1>1, <1>13, <2>2 DEF AInv
  <2>3. CASE e = <<r, d>> \/ f = <<r, d>>
    BY <1>1, <1>13, <2>1, <2>3
  <2> QED BY <1>1, <2>2, <2>3
<1>14. ASSUME NEW e \in minted' PROVE Authorised(e)'
  <2>1. CASE e \in minted
    <3>1. e[1] \in Approval /\ Authorised(e)
      BY <2>1, AFacts DEF AInv
    <3> QED BY <1>1, <1>3, <1>5, <3>1 DEF Authorised
  <2>2. CASE e = <<r, d>> /\ s = "approve"
    <3>1. e[1] = r /\ e[2] = d
      BY <2>2
    <3> QED BY <1>1, <1>3, <1>4, <1>5, <2>2, <3>1 DEF Authorised, r, s
  <2> QED BY <1>1, <2>1, <2>2
<1>15. AInv'
  BY <1>7, <1>9, <1>10, <1>12, <1>13, <1>14 DEF AInv
<1>16. DecidedStays
  BY <1>1, <1>3, <1>5 DEF DecidedStays
<1> QED BY <1>15, <1>16

LEMMA AStepInv ==
  ASSUME AInv, [ANext]_avars
  PROVE  AInv' /\ DecidedStays
<1>1. ASSUME NEW d \in Decider, Receive(d) \/ DeciderStep(d) \/ DeciderDies(d)
      PROVE  AInv' /\ DecidedStays
  BY <1>1, AReceive, AReadApproval, AAudited, AFlush, ADecide, AExpire, ADies DEF DeciderStep
<1>2. CASE TimePasses \/ UNCHANGED avars
  <2>1. /\ dpc' = dpc /\ ask' = ask /\ ctx' = ctx /\ status' = status /\ rowLock' = rowLock
        /\ minted' = minted /\ decided' = decided /\ audit' = audit /\ saw' = saw /\ raced' = raced
    BY <1>2 DEF TimePasses, avars
  <2>2. ATypes'
    BY <2>1 DEF AInv, ATypes
  <2>3. ASSUME NEW d \in Decider PROVE HasAsked(d)' /\ HasRead(d)'
    BY <2>1 DEF AInv, HasAsked, HasRead
  <2>4. (\A e \in decided : Stands(e))' /\ (\A e \in minted : Authorised(e))'
    BY <2>1 DEF AInv, Stands, Authorised
  <2> QED BY <2>1, <2>2, <2>3, <2>4 DEF AInv, DecidedStays
<1> QED BY <1>1, <1>2 DEF ANext

LEMMA AInitInv ==
  ASSUME AInit
  PROVE  AInv
  BY DEF AInit, AInv, ATypes, HasAsked, HasRead, DPlace, Verdict

LEMMA AInvDecisions ==
  ASSUME AInv
  PROVE  ATypeOK /\ OneDecision /\ MintedIsAuthorised
<1>1. ATypeOK
  BY DEF AInv, ATypes, ATypeOK, Verdict
<1>2. OneDecision
  <2> SUFFICES ASSUME NEW r \in Approval, r \notin raced
               PROVE  Cardinality({e \in decided : e[1] = r}) <= 1
    BY DEF OneDecision
  <2>1. \A e, f \in {g \in decided : g[1] = r} : e = f
    BY DEF AInv
  <2> QED BY <2>1, AtMostOne
<1>3. MintedIsAuthorised
  BY DEF AInv, Authorised, MintedIsAuthorised
<1> QED BY <1>1, <1>2, <1>3

-----------------------------------------------------------------------------
(***************************************************************************)
(* The diagnosis session (BcrbSession).  No cost is ever counted, so every *)
(* candidate is judged by the whole budget; a posterior is a percentage    *)
(* and stands on a measured canary of its candidate.                       *)
(***************************************************************************)
Canary == {"unavailable", "raises", "synthetic", "measured"}

BShape ==
  /\ trace \in Traces /\ btested \in Seq(Candidates) /\ outcome \in Seq(Canary)
  /\ Len(outcome) = IF stage = "canary" THEN Len(btested) - 1 ELSE Len(btested)
  /\ posterior \in [DOMAIN trace -> -1 .. 100]
  /\ stage \in {"loop", "canary", "diagnose", "ended", "raised"}
  /\ spent = 0
  /\ stage \in {"loop", "canary"} => stopping = "none"

\* The candidates tested are distinct, and each is within the budget.
BTested ==
  /\ IsFiniteSet(Tested) /\ Cardinality(Tested) = Len(btested)
  /\ \A i \in Tested : EstimatedCost(ComponentOf(i)) <= Budget

\* A posterior comes from a measured canary.
BMeasured ==
  \A i \in DOMAIN trace : posterior[i] # NoPosterior => \E k \in Measured : btested[k] = i

\* Why the session stopped.
BStopped ==
  stopping = "CONFIDENCE_REACHED" =>
    /\ \E i \in Tested : posterior[i] >= 90
    /\ stage = "ended" => rootCause # 0

BDiagnosed ==
  /\ stage # "ended" => rootCause = 0 /\ certified = 0
  /\ {rootCause, certified} \subseteq Tested \cup {0}
  /\ RootCauseIsMeasured

BInv == BShape /\ BTested /\ BMeasured /\ BStopped /\ BDiagnosed

\* A bounded set of integers has a largest element, and Max is it.
LEMMA MaxIsThere ==
  ASSUME NEW S, S \subseteq -1 .. 100, S # {}
  PROVE  Max(S) \in S /\ \A y \in S : y <= Max(S)
<1> DEFINE T == {100 - x : x \in S}
<1>1. T \subseteq Nat /\ T # {}
  <2>1. ASSUME NEW x \in S PROVE 100 - x \in Nat
    <3>1. x \in -1 .. 100
      OBVIOUS
    <3> HIDE DEF T
    <3> QED BY <3>1
  <2>2. T \subseteq Nat
    BY <2>1, Zenon
  <2>3. PICK x \in S : TRUE
    OBVIOUS
  <2>4. 100 - x \in T
    BY Zenon
  <2> HIDE DEF T
  <2> QED BY <2>2, <2>4, Zenon
<1>2. PICK m \in T : \A n \in T : ~(<<n, m>> \in OpToRel(<, Nat))
  <2> HIDE DEF T
  <2> QED BY <1>1, NatLessThanWellFounded, WFMin
<1>3. \A n \in T : m <= n
  <2>1. ASSUME NEW n \in T PROVE m <= n
    <3>1. n \in Nat /\ m \in Nat
      BY <1>1
    <3>2. <<n, m>> \in Nat \X Nat /\ ~(<<n, m>> \in OpToRel(<, Nat))
      BY <1>2, <3>1
    <3> QED BY <3>1, <3>2 DEF OpToRel
  <2> QED BY <2>1
<1>4. PICK x \in S : m = 100 - x
  BY <1>2
<1>5. \A y \in S : x >= y
  <2>1. ASSUME NEW y \in S PROVE x >= y
    <3>1. m <= 100 - y
      BY <1>3
    <3> QED BY <1>4, <3>1
  <2> QED BY <2>1
<1>6. \E z \in S : \A y \in S : z >= y
  BY <1>4, <1>5
<1> QED BY <1>6 DEF Max

\* A quotient of at most a hundred.
LEMMA DivBound ==
  ASSUME NEW a \in Nat, NEW b \in Nat, b > 0, a <= 100 * b
  PROVE  a \div b \in 0 .. 100
  OBVIOUS

LEMMA PriorIsPercent ==
  ASSUME trace \in Traces, NEW i \in DOMAIN trace
  PROVE  Prior(i) \in 0 .. 100
<1> DEFINE Shape == [role : {"retrieval", "retriever", "generator", "policy"},
                     error : BOOLEAN, gat : 0 .. 200, diffusion : 0 .. 100]
<1>1. trace[i] \in Shape
  <2>1. trace \in Seq(Shape)
    BY BcrbAssumption
  <2> HIDE DEF Shape
  <2> QED BY <2>1
<1>2. trace[i].gat \in Nat /\ trace[i].diffusion \in Nat /\ Symptom(i) \in Nat
  <2>1. trace[i].gat \in 0 .. 200 /\ trace[i].diffusion \in 0 .. 100
    BY <1>1
  <2>2. Symptom(i) \in Nat
    BY DEF Symptom
  <2> HIDE DEF Shape
  <2> QED BY <2>1, <2>2
<1> HIDE DEF Shape
<1>3. Combined(i) \in Nat
  <2>1. PICK g \in Nat, d \in Nat, y \in Nat : g = trace[i].gat /\ d = trace[i].diffusion /\ y = Symptom(i)
    BY <1>2
  <2>2. 45 * g + 35 * d + 20 * y \in Nat
    OBVIOUS
  <2> QED BY <2>1, <2>2 DEF Combined
<1>4. \A c \in Nat : (IF c > 10000 THEN 100 ELSE c \div 100) \in 0 .. 100
  OBVIOUS
<1> QED BY <1>3, <1>4 DEF Prior

LEMMA PosteriorIsPercent ==
  ASSUME NEW p \in 0 .. 100, NEW delta \in Delta
  PROVE  UpdatePosterior(p, Likelihoods(delta)) \in 0 .. 100
<1> DEFINE l == Likelihoods(delta)
<1>1. l \in {<<5, 95>>, <<11, 94>>, <<50, 55>>, <<94, 11>>}
  BY DEF Likelihoods, Delta
<1>2. l[1] \in {5, 11, 50, 94} /\ l[2] \in {95, 94, 55, 11}
  BY <1>1
<1> HIDE DEF l
<1>3. CASE p > 0 /\ p < 100
  <2> DEFINE a == l[1] * p
             b == l[2] * (100 - p)
  <2>1. a \in Nat /\ b \in Nat /\ a > 0 /\ b > 0
    BY <1>2, <1>3
  <2>2. 100 * l[1] * p = 100 * a
    BY <1>2
  <2>3. UpdatePosterior(p, l) = (100 * l[1] * p) \div (a + b)
    BY <1>3 DEF UpdatePosterior
  <2> HIDE DEF a, b
  <2>4. (100 * a) \div (a + b) \in 0 .. 100
    BY <2>1, DivBound
  <2> QED BY <2>2, <2>3, <2>4 DEF l
<1>4. CASE p <= 0 \/ p >= 100
  BY <1>4 DEF UpdatePosterior
<1> QED BY <1>3, <1>4

\* What planning gives: candidates are positions of the trace, costs are numbers.
LEMMA BFacts ==
  ASSUME BInv
  PROVE  /\ DOMAIN trace \subseteq Nat \ {0} /\ Candidates \subseteq DOMAIN trace
         /\ Tested \subseteq Candidates /\ Budget \in Nat
         /\ \A i \in DOMAIN trace : EstimatedCost(ComponentOf(i)) \in Nat
<1>1. trace \in Seq([role : {"retrieval", "retriever", "generator", "policy"},
                     error : BOOLEAN, gat : 0 .. 200, diffusion : 0 .. 100])
  BY BcrbAssumption DEF BInv, BShape
<1>2. DOMAIN trace \subseteq Nat \ {0}
  BY <1>1
<1>3. Tested \subseteq Candidates
  BY DEF Tested, BInv, BShape
<1>4. ASSUME NEW i \in DOMAIN trace PROVE EstimatedCost(ComponentOf(i)) \in Nat
  BY DEF EstimatedCost, ComponentOf
<1> QED BY <1>2, <1>3, <1>4, BcrbAssumption DEF Candidates

\* Planning depends on the trace alone.
LEMMA BPlan ==
  ASSUME trace' = trace
  PROVE  Candidates' = Candidates /\ \A i : ComponentOf(i)' = ComponentOf(i)
<1>1. Candidates' = Candidates
  BY DEF Candidates, Combined, Symptom
<1> QED BY <1>1 DEF ComponentOf

LEMMA BStop ==
  ASSUME BInv, StopSession
  PROVE  BInv'
<1>1. /\ stage = "loop" /\ stopping' = StopReason /\ stage' = "diagnose"
      /\ trace' = trace /\ btested' = btested /\ outcome' = outcome /\ posterior' = posterior
      /\ spent' = spent /\ rootCause' = rootCause /\ certified' = certified
  BY DEF StopSession
<1>2. Candidates' = Candidates /\ (\A i : ComponentOf(i)' = ComponentOf(i))
      /\ Tested' = Tested /\ Measured' = Measured
  BY <1>1, BPlan DEF Tested, Measured
<1>3. BShape' /\ BTested' /\ BMeasured' /\ BDiagnosed'
  BY <1>1, <1>2 DEF BInv, BShape, BTested, BMeasured, BDiagnosed, RootCauseIsMeasured, EstimatedCost
<1>4. StopReason # "CONFIDENCE_REACHED"
  BY DEF StopReason
<1>5. BStopped'
  BY <1>1, <1>4 DEF BStopped
<1> QED BY <1>3, <1>5 DEF BInv

LEMMA BSelect ==
  ASSUME BInv, SelectCandidate
  PROVE  BInv'
<1>1. PICK i \in Affordable : btested' = Append(btested, i)
  BY DEF SelectCandidate
<1>2. /\ stage = "loop" /\ stage' = "canary"
      /\ trace' = trace /\ outcome' = outcome /\ posterior' = posterior
      /\ spent' = spent /\ stopping' = stopping /\ rootCause' = rootCause /\ certified' = certified
  BY DEF SelectCandidate
<1>3. /\ btested \in Seq(Candidates) /\ i \in Candidates /\ i \notin Tested /\ spent = 0
      /\ EstimatedCost(ComponentOf(i)) <= Budget
      /\ rootCause = 0 /\ certified = 0 /\ stopping = "none" /\ Len(outcome) = Len(btested)
  <2>1. btested \in Seq(Candidates) /\ spent = 0 /\ i \in Candidates /\ i \notin Tested
    BY DEF BInv, BShape, Affordable, Untested
  <2>2. EstimatedCost(ComponentOf(i)) \in Nat /\ Budget \in Nat
    BY <2>1, BFacts
  <2> QED BY <1>2, <2>1, <2>2 DEF BInv, BShape, BDiagnosed, Affordable
<1>4. Candidates' = Candidates /\ (\A x : ComponentOf(x)' = ComponentOf(x)) /\ Measured' = Measured
  BY <1>2, BPlan DEF Measured
<1>5. /\ btested' \in Seq(Candidates) /\ Len(btested') = Len(btested) + 1
      /\ \A k \in DOMAIN btested : btested'[k] = btested[k]
      /\ DOMAIN btested' = DOMAIN btested \cup {Len(btested) + 1} /\ btested'[Len(btested) + 1] = i
  BY <1>1, <1>3
<1>6. Tested' = Tested \cup {i}
  BY <1>5 DEF Tested
<1>7. Measured \subseteq DOMAIN btested
  BY <1>3 DEF Measured, BInv, BShape
<1>8. BShape'
  BY <1>2, <1>3, <1>4, <1>5 DEF BInv, BShape
<1>9. BTested'
  <2>1. /\ IsFiniteSet(Tested \cup {i})
        /\ Cardinality(Tested \cup {i}) = Cardinality(Tested) + 1
    BY <1>3, FS_AddElement DEF BInv, BTested
  <2> QED BY <1>3, <1>4, <1>5, <1>6, <2>1 DEF BInv, BTested, EstimatedCost
<1>10. BMeasured'
  BY <1>2, <1>4, <1>5, <1>7 DEF BInv, BMeasured
<1>11. BStopped' /\ BDiagnosed'
  BY <1>2, <1>3 DEF BStopped, BDiagnosed, RootCauseIsMeasured
<1> QED BY <1>8, <1>9, <1>10, <1>11 DEF BInv

\* What any canary does: the outcome is appended, the loop goes on or ends.
LEMMA BCanary ==
  ASSUME BInv, stage = "canary", NEW o \in Canary, outcome' = Append(outcome, o),
         stage' \in {"loop", "diagnose", "raised"},
         UNCHANGED <<trace, btested, spent, rootCause, certified>>,
         posterior' \in [DOMAIN trace -> -1 .. 100],
         stage' = "loop" => stopping' = "none"
  PROVE  /\ BShape' /\ BTested' /\ BDiagnosed'
         /\ Candidates' = Candidates /\ Tested' = Tested
         /\ Measured \subseteq Measured' /\ Measured \subseteq DOMAIN btested
         /\ Len(btested) \in DOMAIN btested /\ (o = "measured" => Len(btested) \in Measured')
<1>1. /\ btested \in Seq(Candidates) /\ outcome \in Seq(Canary) /\ Len(outcome) = Len(btested) - 1
      /\ rootCause = 0 /\ certified = 0
  BY DEF BInv, BShape, BDiagnosed
<1>2. /\ outcome' \in Seq(Canary) /\ Len(outcome') = Len(btested)
      /\ \A k \in DOMAIN outcome : outcome'[k] = outcome[k]
      /\ DOMAIN outcome \subseteq DOMAIN outcome' /\ DOMAIN outcome \subseteq DOMAIN btested
      /\ Len(btested) \in DOMAIN outcome' /\ outcome'[Len(btested)] = o
      /\ Len(btested) \in DOMAIN btested
  BY <1>1
<1>3. Candidates' = Candidates /\ (\A x : ComponentOf(x)' = ComponentOf(x)) /\ Tested' = Tested
  BY BPlan DEF Tested
<1>4. BShape'
  BY <1>1, <1>2, <1>3 DEF BInv, BShape
<1>5. BTested'
  BY <1>3 DEF BInv, BTested, EstimatedCost
<1>6. BDiagnosed'
  BY <1>1 DEF BDiagnosed, RootCauseIsMeasured
<1>7. /\ Measured \subseteq Measured' /\ Measured \subseteq DOMAIN btested
      /\ (o = "measured" => Len(btested) \in Measured')
  BY <1>2 DEF Measured
<1> QED BY <1>2, <1>3, <1>4, <1>5, <1>6, <1>7

\* A canary without a measurement touches no posterior.
LEMMA BUnmeasured ==
  ASSUME BInv, CanaryUnavailable \/ CanarySynthetic \/ CanaryRaises
  PROVE  BInv'
<1>1. PICK o \in Canary : outcome' = Append(outcome, o)
  BY DEF CanaryUnavailable, CanarySynthetic, CanaryRaises, Canary
<1>2. /\ stage = "canary" /\ stage' \in {"loop", "diagnose", "raised"}
      /\ UNCHANGED <<trace, btested, spent, rootCause, certified>>
      /\ posterior' = posterior /\ stopping' = stopping
  BY DEF CanaryUnavailable, CanarySynthetic, CanaryRaises
<1>3. posterior' \in [DOMAIN trace -> -1 .. 100] /\ stopping = "none"
  BY <1>2 DEF BInv, BShape
<1>4. /\ BShape' /\ BTested' /\ BDiagnosed' /\ Measured \subseteq Measured'
  BY <1>1, <1>2, <1>3, BCanary
<1>5. BMeasured'
  BY <1>2, <1>4 DEF BInv, BMeasured
<1>6. BStopped'
  BY <1>2, <1>3 DEF BStopped
<1> QED BY <1>4, <1>5, <1>6 DEF BInv

LEMMA BMeasures ==
  ASSUME BInv, CanaryMeasures
  PROVE  BInv'
<1>1. PICK delta \in Delta :
        posterior' = [posterior EXCEPT ![InTest] = UpdatePosterior(Prior(InTest), Likelihoods(delta))]
  BY DEF CanaryMeasures
<1>2. /\ stage = "canary" /\ outcome' = Append(outcome, "measured")
      /\ UNCHANGED <<trace, btested, spent, rootCause, certified>>
      /\ \/ Highest(posterior') >= 90 /\ stopping' = "CONFIDENCE_REACHED" /\ stage' = "diagnose"
         \/ stage' = "loop" /\ stopping' = stopping
  BY DEF CanaryMeasures
<1>3. /\ btested \in Seq(Candidates) /\ Len(btested) \in DOMAIN btested
      /\ trace \in Traces /\ posterior \in [DOMAIN trace -> -1 .. 100] /\ stopping = "none"
  <2>1. /\ btested \in Seq(Candidates) /\ outcome \in Seq(Canary) /\ Len(outcome) = Len(btested) - 1
        /\ trace \in Traces /\ posterior \in [DOMAIN trace -> -1 .. 100] /\ stopping = "none"
    BY <1>2 DEF BInv, BShape
  <2>2. Len(btested) \in DOMAIN btested
    BY <2>1
  <2> QED BY <2>1, <2>2
<1>4. InTest \in DOMAIN trace /\ InTest = btested[Len(btested)]
  BY <1>3, BFacts DEF InTest
<1>5. posterior' \in [DOMAIN trace -> -1 .. 100] /\ \A i \in DOMAIN trace \ {InTest} : posterior'[i] = posterior[i]
  <2>1. UpdatePosterior(Prior(InTest), Likelihoods(delta)) \in 0 .. 100
    BY <1>3, <1>4, PriorIsPercent, PosteriorIsPercent
  <2>2. UpdatePosterior(Prior(InTest), Likelihoods(delta)) \in -1 .. 100
    BY <2>1
  <2> QED BY <1>1, <1>3, <2>2
<1>6. "measured" \in Canary
  BY DEF Canary
<1>7. /\ BShape' /\ BTested' /\ BDiagnosed' /\ Tested' = Tested
      /\ Measured \subseteq Measured' /\ Len(btested) \in Measured'
  BY <1>2, <1>3, <1>5, <1>6, BCanary
<1>8. BMeasured'
  <2> SUFFICES ASSUME NEW i \in DOMAIN trace, posterior'[i] # NoPosterior
               PROVE  \E k \in Measured' : btested[k] = i
    BY <1>2 DEF BMeasured, NoPosterior
  <2>1. CASE i = InTest
    BY <1>4, <1>7, <2>1
  <2>2. CASE i # InTest
    BY <1>5, <1>7, <2>2 DEF BInv, BMeasured
  <2> QED BY <2>1, <2>2
<1>9. Measured' \subseteq DOMAIN btested
  BY <1>2, <1>7 DEF BShape, Measured
<1>10. ASSUME Highest(posterior') >= 90 PROVE \E i \in Tested : posterior'[i] >= 90
  <2> DEFINE S == {posterior'[i] : i \in DOMAIN posterior'} \cup {0}
  <2>1. S \subseteq -1 .. 100 /\ S # {} /\ Highest(posterior') = Max(S)
    BY <1>5 DEF Highest
  <2>2. Max(S) \in S
    <3> HIDE DEF S
    <3> QED BY <2>1, MaxIsThere
  <2>3. PICK i \in DOMAIN trace : posterior'[i] = Max(S)
    <3>1. \A z \in S : z = 0 \/ \E i \in DOMAIN trace : posterior'[i] = z
      BY <1>5
    <3>2. Max(S) # 0
      BY <1>10, <2>1
    <3> HIDE DEF S
    <3> QED BY <2>2, <3>1, <3>2
  <2>4. posterior'[i] >= 90 /\ posterior'[i] # NoPosterior
    BY <1>10, <2>1, <2>3 DEF NoPosterior
  <2>5. PICK k \in Measured' : btested[k] = i
    BY <1>2, <1>8, <2>4 DEF BMeasured, NoPosterior
  <2> QED BY <1>9, <2>4, <2>5 DEF Tested
<1>11. BStopped'
  BY <1>2, <1>3, <1>7, <1>10 DEF BStopped
<1> QED BY <1>7, <1>8, <1>11 DEF BInv

LEMMA BDiagnose ==
  ASSUME BInv, Diagnose
  PROVE  BInv'
<1>1. /\ stage = "diagnose" /\ stage' = "ended" /\ trace' = trace /\ btested' = btested
      /\ outcome' = outcome /\ posterior' = posterior /\ spent' = spent /\ stopping' = stopping
  BY DEF Diagnose
<1>2. /\ Candidates' = Candidates /\ (\A i : ComponentOf(i)' = ComponentOf(i))
      /\ Tested' = Tested /\ Measured' = Measured
  BY <1>1, BPlan DEF Tested, Measured
<1>3. BShape' /\ BTested' /\ BMeasured'
  BY <1>1, <1>2 DEF BInv, BShape, BTested, BMeasured, EstimatedCost
<1>4. /\ rootCause = 0 /\ certified = 0 /\ Tested \subseteq DOMAIN trace /\ 0 \notin DOMAIN trace
      /\ posterior \in [DOMAIN trace -> -1 .. 100]
  BY <1>1, BFacts DEF BInv, BDiagnosed, BShape
<1>5. CASE \E i \in Tested : posterior[i] >= 80
  <2> DEFINE S == {posterior[i] : i \in DOMAIN posterior} \cup {0}
  <2>1. S \subseteq -1 .. 100 /\ S # {} /\ Highest(posterior) = Max(S)
    BY <1>4 DEF Highest
  <2>2. \A y \in S : y <= Max(S)
    <3> HIDE DEF S
    <3> QED BY <2>1, MaxIsThere
  <2>3. \A i \in Tested : posterior[i] <= Highest(posterior)
    BY <1>4, <2>1, <2>2
  <2>4. Highest(posterior) >= 80 /\ Highest(posterior) \in Int
    <3>1. Max(S) \in -1 .. 100
      <4> HIDE DEF S
      <4> QED BY <2>1, MaxIsThere
    <3>2. PICK i \in Tested : posterior[i] >= 80
      BY <1>5
    <3>3. posterior[i] \in -1 .. 100 /\ posterior[i] <= Highest(posterior)
      BY <1>4, <2>3
    <3> QED BY <2>1, <3>1, <3>2, <3>3
  <2>5. rootCause' \in Best
    BY <1>5 DEF Diagnose
  <2>6. /\ rootCause' \in Tested /\ posterior[rootCause'] # NoPosterior
        /\ posterior[rootCause'] = Highest(posterior)
    BY <2>5 DEF Best
  <2>7. rootCause' # 0 /\ \E k \in Measured : btested[k] = rootCause'
    BY <1>4, <2>6 DEF BInv, BMeasured
  <2>8. certified' = certified \/ \E k \in Measured : certified' = btested[k]
    BY <1>5 DEF Diagnose
  <2>9. Measured \subseteq DOMAIN btested
    BY <1>1 DEF BInv, BShape, Measured
  <2>10. certified' \in Tested \cup {0}
    BY <1>4, <2>8, <2>9 DEF Tested
  <2>11. BDiagnosed'
    BY <1>1, <1>2, <1>4, <2>3, <2>4, <2>6, <2>7, <2>8, <2>10 DEF BDiagnosed, RootCauseIsMeasured
  <2>12. BStopped'
    BY <1>1, <1>2, <2>7 DEF BInv, BStopped, EstimatedCost
  <2> QED BY <1>3, <2>11, <2>12 DEF BInv
<1>6. CASE ~(\E i \in Tested : posterior[i] >= 80)
  <2>1. rootCause' = 0 /\ certified' = 0
    BY <1>4, <1>6 DEF Diagnose
  <2>2. BDiagnosed'
    BY <2>1 DEF BDiagnosed, RootCauseIsMeasured
  <2>3. stopping # "CONFIDENCE_REACHED"
    BY <1>4, <1>6 DEF BInv, BStopped
  <2>4. BStopped'
    BY <1>1, <1>2, <2>3 DEF BInv, BStopped, EstimatedCost
  <2> QED BY <1>3, <2>2, <2>4 DEF BInv
<1> QED BY <1>5, <1>6

LEMMA BStepInv ==
  ASSUME BInv, [BNext]_bvars
  PROVE  BInv'
<1>1. CASE UNCHANGED bvars
  <2>1. /\ trace' = trace /\ btested' = btested /\ outcome' = outcome /\ posterior' = posterior
        /\ spent' = spent /\ stopping' = stopping /\ stage' = stage /\ rootCause' = rootCause
        /\ certified' = certified
    BY <1>1 DEF bvars
  <2>2. /\ Candidates' = Candidates /\ (\A i : ComponentOf(i)' = ComponentOf(i))
        /\ Tested' = Tested /\ Measured' = Measured
    BY <2>1, BPlan DEF Tested, Measured
  <2> QED BY <2>1, <2>2 DEF BInv, BShape, BTested, BMeasured, BStopped, BDiagnosed,
          RootCauseIsMeasured, EstimatedCost
<1> QED BY <1>1, BStop, BSelect, BUnmeasured, BMeasures, BDiagnose DEF BNext

LEMMA BInitInv ==
  ASSUME BInit
  PROVE  BInv
<1>1. /\ trace \in Traces /\ btested = <<>> /\ outcome = <<>> /\ spent = 0 /\ stopping = "none"
      /\ posterior = [i \in DOMAIN trace |-> NoPosterior] /\ stage = "loop"
      /\ rootCause = 0 /\ certified = 0
  BY DEF BInit
<1>2. Tested = {}
  BY <1>1 DEF Tested
<1>3. BShape
  BY <1>1 DEF BShape, NoPosterior
<1>4. BTested
  BY <1>1, <1>2, FS_EmptySet DEF BTested
<1>5. BMeasured /\ BStopped /\ BDiagnosed
  BY <1>1, <1>2 DEF BMeasured, BStopped, BDiagnosed, RootCauseIsMeasured
<1> QED BY <1>3, <1>4, <1>5 DEF BInv

LEMMA BInvSession ==
  ASSUME BInv
  PROVE  BTypeOK /\ RootCauseIsMeasured /\ TestedOnce /\ ConfidenceDiagnoses
<1>1. BTypeOK
  <2>1. Len(outcome) \in Len(btested) - 1 .. Len(btested)
    <3>1. Len(btested) \in Nat /\ (Len(outcome) = Len(btested) - 1 \/ Len(outcome) = Len(btested))
      BY DEF BInv, BShape
    <3> QED BY <3>1
  <2> QED BY <2>1, BFacts DEF BInv, BShape, BDiagnosed, BTypeOK
<1> QED BY <1>1 DEF BInv, BTested, BStopped, BDiagnosed, TestedOnce, ConfidenceDiagnoses

-----------------------------------------------------------------------------
(***************************************************************************)
(* Span ingestion (SpanIngestion): what the unique constraint gives.  An   *)
(* attempt that has not been sent holds nothing, a span has at most one    *)
(* transaction that has flushed it, and none once it is stored.            *)
(***************************************************************************)

\* The attempts the client of a has not come to.
Ahead(a) ==
  LET p == at[a[1]] IN
    a[2] > p.chunk \/ (a[2] = p.chunk /\ (a[3] > p.attempt \/ (a[3] = p.attempt /\ ~p.waits)))

ITypes ==
  /\ at \in [Client -> [chunk : Nat, attempt : Nat, waits : BOOLEAN]]
  /\ phase \in [Attempt -> {"none", "sent", "ingest", "commit", "ended"}]
  /\ DOMAIN inserted = Attempt /\ DOMAIN stored = Span

\* Only an attempt at work has flushed anything.
AttemptSound(a) ==
  /\ Ahead(a) => phase[a] = "none"
  /\ phase[a] \notin {"ingest", "commit"} => inserted[a] = {}

SpanSound(s) ==
  /\ stored[s] # {} => Holder(s) = {}
  /\ \A a, b \in Holder(s) : a = b
  /\ \A a, b \in stored[s] : a = b

SInv ==
  /\ ITypes
  /\ \A a \in Attempt : AttemptSound(a)
  /\ \A s \in Span : SpanSound(s)

\* The client only moves forward.
Forward ==
  /\ at' \in [Client -> [chunk : Nat, attempt : Nat, waits : BOOLEAN]]
  /\ \A a \in Attempt : Ahead(a)' => Ahead(a)

LEMMA IMoves ==
  ASSUME SInv, NEW c \in Client,
         \/ at' = at \/ NextChunk(c)
         \/ at' = [at EXCEPT ![c].attempt = @ + 1, ![c].waits = FALSE]
  PROVE  Forward
<1>1. at \in [Client -> [chunk : Nat, attempt : Nat, waits : BOOLEAN]]
  BY DEF SInv, ITypes
<1>2. CASE at' = at
  BY <1>1, <1>2 DEF Forward, Ahead
<1>3. CASE NextChunk(c)
  <2>1. /\ at' \in [Client -> [chunk : Nat, attempt : Nat, waits : BOOLEAN]]
        /\ at'[c].chunk = at[c].chunk + 1 /\ at'[c].attempt = 1
        /\ \A d \in Client \ {c} : at'[d] = at[d]
    BY <1>1, <1>3 DEF NextChunk
  <2>2. ASSUME NEW a \in Attempt, Ahead(a)' PROVE Ahead(a)
    <3>1. a[1] \in Client /\ a[2] \in Int /\ a[3] \in Int
      BY DEF Attempt
    <3>2. CASE a[1] = c
      <4>1. a[2] >= at'[c].chunk
        BY <2>1, <2>2, <3>1, <3>2 DEF Ahead
      <4>2. a[2] > at[c].chunk
        BY <1>1, <2>1, <3>1, <4>1
      <4> QED BY <3>2, <4>2 DEF Ahead
    <3>3. CASE a[1] # c
      BY <2>1, <2>2, <3>1, <3>3 DEF Ahead
    <3> QED BY <3>2, <3>3
  <2> QED BY <2>1, <2>2 DEF Forward
<1>4. CASE at' = [at EXCEPT ![c].attempt = @ + 1, ![c].waits = FALSE]
  <2> DEFINE moved == [at[c] EXCEPT !.attempt = at[c].attempt + 1]
             rested == [moved EXCEPT !.waits = FALSE]
  <2>a. at[c] \in [chunk : Nat, attempt : Nat, waits : BOOLEAN]
    BY <1>1
  <2>b. /\ moved \in [chunk : Nat, attempt : Nat, waits : BOOLEAN]
        /\ moved.chunk = at[c].chunk /\ moved.attempt = at[c].attempt + 1
    BY <2>a
  <2>c. /\ rested \in [chunk : Nat, attempt : Nat, waits : BOOLEAN]
        /\ rested.chunk = at[c].chunk /\ rested.attempt = at[c].attempt + 1
    <3> HIDE DEF moved
    <3> QED BY <2>b
  <2>d. at' = [at EXCEPT ![c] = rested]
    BY <1>1, <1>4
  <2>1. /\ at' \in [Client -> [chunk : Nat, attempt : Nat, waits : BOOLEAN]]
        /\ at'[c].chunk = at[c].chunk /\ at'[c].attempt = at[c].attempt + 1
        /\ \A d \in Client \ {c} : at'[d] = at[d]
    <3> HIDE DEF rested
    <3> QED BY <1>1, <2>c, <2>d
  <2>2. ASSUME NEW a \in Attempt, Ahead(a)' PROVE Ahead(a)
    <3>1. a[1] \in Client /\ a[2] \in Int /\ a[3] \in Int
      BY DEF Attempt
    <3>2. CASE a[1] = c
      <4>1. a[2] > at'[c].chunk \/ (a[2] = at'[c].chunk /\ a[3] >= at'[c].attempt)
        BY <2>1, <2>2, <3>1, <3>2 DEF Ahead
      <4>2. a[2] > at[c].chunk \/ (a[2] = at[c].chunk /\ a[3] > at[c].attempt)
        BY <1>1, <2>1, <3>1, <4>1
      <4> QED BY <3>2, <4>2 DEF Ahead
    <3>3. CASE a[1] # c
      BY <2>1, <2>2, <3>1, <3>3 DEF Ahead
    <3> QED BY <3>2, <3>3
  <2> QED BY <2>1, <2>2 DEF Forward
<1> QED BY <1>2, <1>3, <1>4

LEMMA IDelivers ==
  ASSUME SInv, NEW a \in Attempt, NEW code \in {200, 403, 500}, Deliver(a, code)
  PROVE  Forward
<1>1. a[1] \in Client
  BY DEF Attempt
<1>2. \/ at' = at \/ NextChunk(a[1])
      \/ at' = [at EXCEPT ![a[1]].attempt = @ + 1, ![a[1]].waits = FALSE]
  BY DEF Deliver, AcceptAnswer, FailChunk, RetryChunk
<1> QED BY <1>1, <1>2, IMoves

\* A step of attempt a that neither flushes nor stores: the holders get no more.
LEMMA IQuiet ==
  ASSUME SInv, NEW a \in Attempt, Forward, ~Ahead(a) \/ phase'[a] = "none",
         phase' \in [Attempt -> {"none", "sent", "ingest", "commit", "ended"}],
         \A b \in Attempt \ {a} : phase'[b] = phase[b] /\ inserted'[b] = inserted[b],
         DOMAIN inserted' = Attempt,
         phase'[a] \in {"ingest", "commit"} => inserted'[a] = inserted[a],
         phase'[a] \notin {"ingest", "commit"} => inserted'[a] = {},
         stored' = stored
  PROVE  SInv'
<1>1. ITypes'
  BY DEF SInv, ITypes, Forward
<1>2. ASSUME NEW b \in Attempt PROVE AttemptSound(b)'
  BY DEF SInv, AttemptSound, Forward
<1>3. ASSUME NEW s PROVE Holder(s)' \subseteq Holder(s)
  BY DEF Holder, SInv, AttemptSound
<1>4. ASSUME NEW s \in Span PROVE SpanSound(s)'
  BY <1>3 DEF SInv, SpanSound
<1> QED BY <1>1, <1>2, <1>4 DEF SInv

LEMMA SInitInv ==
  ASSUME IInit
  PROVE  SInv
<1>1. ITypes
  BY DEF IInit, ITypes
<1>2. ASSUME NEW a \in Attempt PROVE AttemptSound(a)
  BY DEF IInit, AttemptSound
<1>3. ASSUME NEW s \in Span PROVE SpanSound(s)
  BY DEF IInit, SpanSound, Holder
<1> QED BY <1>1, <1>2, <1>3 DEF SInv

\* The attempt that is sent is the one the client has come to, and no other's.
LEMMA IPosts ==
  ASSUME SInv, NEW c \in Client, Post(c)
  PROVE  SInv'
<1>1. /\ at \in [Client -> [chunk : Nat, attempt : Nat, waits : BOOLEAN]]
      /\ phase \in [Attempt -> {"none", "sent", "ingest", "commit", "ended"}]
  BY DEF SInv, ITypes
<1>2. /\ at[c] \in [chunk : Nat, attempt : Nat, waits : BOOLEAN] /\ ~at[c].waits
      /\ at' = [at EXCEPT ![c] = [at[c] EXCEPT !.waits = TRUE]]
      /\ phase' = [phase EXCEPT ![Current(c)] = "sent"]
      /\ inserted' = inserted /\ stored' = stored
  BY <1>1 DEF Post
<1>3. /\ at' \in [Client -> [chunk : Nat, attempt : Nat, waits : BOOLEAN]]
      /\ at'[c].chunk = at[c].chunk /\ at'[c].attempt = at[c].attempt /\ at'[c].waits
      /\ \A d \in Client \ {c} : at'[d] = at[d]
  BY <1>1, <1>2
<1>4. ASSUME NEW a \in Attempt, Ahead(a)'
      PROVE  Ahead(a) /\ a # Current(c)
  <2>1. a[1] \in Client /\ a[2] \in Int /\ a[3] \in Int
    BY DEF Attempt
  <2>2. CASE a[1] = c
    <3>1. a[2] > at[c].chunk \/ (a[2] = at[c].chunk /\ a[3] > at[c].attempt)
      BY <1>3, <1>4, <2>2 DEF Ahead
    <3>2. a # Current(c)
      BY <1>2, <2>1, <2>2, <3>1 DEF Current
    <3> QED BY <2>2, <3>1, <3>2 DEF Ahead
  <2>3. CASE a[1] # c
    BY <1>3, <1>4, <2>1, <2>3 DEF Ahead, Current
  <2> QED BY <2>2, <2>3
<1>5. Forward
  BY <1>3, <1>4 DEF Forward
<1>6. CASE Current(c) \notin Attempt
  <2>1. phase' = phase
    BY <1>1, <1>2, <1>6
  <2>2. ASSUME NEW a \in Attempt PROVE AttemptSound(a)'
    BY <1>2, <1>5, <2>1 DEF SInv, AttemptSound, Forward
  <2>3. ASSUME NEW s \in Span PROVE SpanSound(s)'
    BY <1>2, <2>1 DEF SInv, SpanSound, Holder
  <2> QED BY <1>2, <1>5, <2>1, <2>2, <2>3 DEF SInv, ITypes, Forward
<1>7. CASE Current(c) \in Attempt
  <2>1. /\ phase' \in [Attempt -> {"none", "sent", "ingest", "commit", "ended"}]
        /\ phase'[Current(c)] = "sent"
        /\ \A b \in Attempt \ {Current(c)} : phase'[b] = phase[b]
    BY <1>1, <1>2, <1>7
  <2>2. Ahead(Current(c)) /\ inserted[Current(c)] = {}
    <3>1. Ahead(Current(c))
      BY <1>2 DEF Ahead, Current
    <3> QED BY <1>7, <3>1 DEF SInv, AttemptSound
  <2>3. ASSUME NEW a \in Attempt PROVE AttemptSound(a)'
    BY <1>2, <1>4, <2>1, <2>2 DEF SInv, AttemptSound
  <2>4. ASSUME NEW s PROVE Holder(s)' \subseteq Holder(s)
    BY <1>2, <2>1, <2>2 DEF Holder
  <2>5. ASSUME NEW s \in Span PROVE SpanSound(s)'
    BY <1>2, <2>4 DEF SInv, SpanSound
  <2>6. ITypes'
    BY <1>2, <1>3, <2>1 DEF SInv, ITypes
  <2> QED BY <2>3, <2>5, <2>6 DEF SInv
<1> QED BY <1>6, <1>7

LEMMA ITimesOut ==
  ASSUME SInv, NEW c \in Client, ClientTimeout(c)
  PROVE  SInv'
<1>1. \/ NextChunk(c) \/ at' = [at EXCEPT ![c].attempt = @ + 1, ![c].waits = FALSE]
  BY DEF ClientTimeout, RetryChunk, FailChunk
<1>2. Forward
  BY <1>1, IMoves
<1>3. phase' = phase /\ inserted' = inserted /\ stored' = stored
  BY DEF ClientTimeout
<1>4. ASSUME NEW a \in Attempt PROVE AttemptSound(a)'
  BY <1>2, <1>3 DEF SInv, AttemptSound, Forward
<1>5. ASSUME NEW s \in Span PROVE SpanSound(s)'
  BY <1>3 DEF SInv, SpanSound, Holder
<1> QED BY <1>2, <1>3, <1>4, <1>5 DEF SInv, ITypes, Forward

\* An attempt the server works on is one the client has come to.
LEMMA IWorks ==
  ASSUME SInv, NEW a \in Attempt, phase[a] # "none"
  PROVE  ~Ahead(a)
  BY DEF SInv, AttemptSound

LEMMA IChecks ==
  ASSUME SInv, NEW a \in Attempt, CheckTenant(a)
  PROVE  SInv'
<1>1. ~Ahead(a) /\ phase \in [Attempt -> {"none", "sent", "ingest", "commit", "ended"}]
  BY IWorks DEF CheckTenant, SInv, ITypes
<1>2. Forward
  <2>1. CASE Deliver(a, 403)
    BY <2>1, IDelivers
  <2>2. CASE at' = at
    <3>1. a[1] \in Client
      BY DEF Attempt
    <3> QED BY <2>2, <3>1, IMoves
  <2> QED BY <2>1, <2>2 DEF CheckTenant
<1>3. /\ phase' \in [Attempt -> {"none", "sent", "ingest", "commit", "ended"}]
      /\ \A b \in Attempt \ {a} : phase'[b] = phase[b]
  BY <1>1 DEF CheckTenant
<1>4. inserted[a] = {} /\ DOMAIN inserted = Attempt
  BY DEF CheckTenant, SInv, AttemptSound, ITypes
<1>5. inserted' = inserted /\ stored' = stored
  BY DEF CheckTenant
<1> QED BY <1>1, <1>2, <1>3, <1>4, <1>5, IQuiet

\* A span that is skipped, with or without an error, changes nothing here.
LEMMA ISkips ==
  ASSUME SInv, NEW a \in Attempt, SkipSpan(a) \/ RejectSpan(a)
  PROVE  SInv'
<1>1. at' = at /\ phase' = phase /\ inserted' = inserted /\ stored' = stored
  BY DEF SkipSpan, RejectSpan
<1>2. ASSUME NEW b \in Attempt PROVE AttemptSound(b)'
  BY <1>1 DEF SInv, AttemptSound, Ahead
<1>3. ASSUME NEW s \in Span PROVE SpanSound(s)'
  BY <1>1 DEF SInv, SpanSound, Holder
<1> QED BY <1>1, <1>2, <1>3 DEF SInv, ITypes

\* A flush waits until no other transaction holds the span.
LEMMA IInserts ==
  ASSUME SInv, NEW a \in Attempt, InsertSpan(a)
  PROVE  SInv'
<1> DEFINE x == TheSpan(a)
<1>1. /\ phase[a] = "ingest" /\ stored[x] = {} /\ Holder(x) \subseteq {a}
      /\ inserted' = [inserted EXCEPT ![a] = inserted[a] \cup {x}]
      /\ at' = at /\ phase' = phase /\ stored' = stored
  BY DEF InsertSpan, Ingesting, SInv, ITypes
<1> HIDE DEF x
<1>2. /\ DOMAIN inserted' = Attempt /\ inserted'[a] = inserted[a] \cup {x}
      /\ \A b \in Attempt \ {a} : inserted'[b] = inserted[b]
  BY <1>1 DEF SInv, ITypes
<1>3. ASSUME NEW b \in Attempt PROVE AttemptSound(b)'
  BY <1>1, <1>2 DEF SInv, AttemptSound, Ahead
<1>4. ASSUME NEW s \in Span PROVE SpanSound(s)'
  <2>1. CASE s = x
    <3>1. Holder(s)' \subseteq {a}
      BY <1>1, <1>2, <2>1 DEF Holder
    <3> QED BY <1>1, <2>1, <3>1 DEF SpanSound
  <2>2. CASE s # x
    <3>1. Holder(s)' = Holder(s)
      BY <1>1, <1>2, <2>2 DEF Holder
    <3> QED BY <1>1, <3>1 DEF SInv, SpanSound
  <2> QED BY <2>1, <2>2
<1> QED BY <1>1, <1>2, <1>3, <1>4 DEF SInv, ITypes

LEMMA IAnswers ==
  ASSUME SInv, NEW a \in Attempt, AnswerSpans(a)
  PROVE  SInv'
<1>1. ~Ahead(a) /\ phase \in [Attempt -> {"none", "sent", "ingest", "commit", "ended"}]
  BY IWorks DEF AnswerSpans, SInv, ITypes
<1>2. Forward
  BY IDelivers DEF AnswerSpans
<1>3. /\ phase' \in [Attempt -> {"none", "sent", "ingest", "commit", "ended"}]
      /\ \A b \in Attempt \ {a} : phase'[b] = phase[b]
      /\ phase'[a] = "commit"
  BY <1>1 DEF AnswerSpans
<1>4. inserted' = inserted /\ stored' = stored /\ DOMAIN inserted = Attempt
  BY DEF AnswerSpans, SInv, ITypes
<1> QED BY <1>1, <1>2, <1>3, <1>4, IQuiet

LEMMA ICloses ==
  ASSUME SInv, NEW a \in Attempt, Close(a, "ended")
  PROVE  /\ phase' \in [Attempt -> {"none", "sent", "ingest", "commit", "ended"}]
         /\ phase'[a] = "ended" /\ inserted'[a] = {} /\ DOMAIN inserted' = Attempt
         /\ \A b \in Attempt \ {a} : phase'[b] = phase[b] /\ inserted'[b] = inserted[b]
<1>1. phase \in [Attempt -> {"none", "sent", "ingest", "commit", "ended"}]
      /\ DOMAIN inserted = Attempt
  BY DEF SInv, ITypes
<1>2. /\ phase' = [phase EXCEPT ![a] = "ended"]
      /\ inserted' = [inserted EXCEPT ![a] = {}]
  BY DEF Close
<1> QED BY <1>1, <1>2

\* The commit stores what the attempt alone had flushed.
LEMMA ICommits ==
  ASSUME SInv, NEW a \in Attempt, CommitSpans(a)
  PROVE  SInv'
<1>1. /\ phase[a] = "commit" /\ Close(a, "ended") /\ at' = at
      /\ stored' = [s \in Span |-> stored[s] \cup (IF s \in inserted[a] THEN {a} ELSE {})]
  BY DEF CommitSpans, SInv, ITypes
<1>2. /\ phase' \in [Attempt -> {"none", "sent", "ingest", "commit", "ended"}]
      /\ phase'[a] = "ended" /\ inserted'[a] = {} /\ DOMAIN inserted' = Attempt
      /\ \A b \in Attempt \ {a} : phase'[b] = phase[b] /\ inserted'[b] = inserted[b]
  BY <1>1, ICloses
<1>3. ASSUME NEW b \in Attempt PROVE AttemptSound(b)'
  BY <1>1, <1>2 DEF SInv, AttemptSound, Ahead
<1>4. ASSUME NEW s PROVE Holder(s)' = Holder(s) \ {a}
  BY <1>2 DEF Holder
<1>5. ASSUME NEW s \in Span PROVE SpanSound(s)'
  <2>1. SpanSound(s)
    BY DEF SInv
  <2>2. CASE s \in inserted[a]
    <3>1. a \in Holder(s)
      BY <1>1, <2>2 DEF Holder
    <3>2. stored[s] = {} /\ stored'[s] = {a}
      BY <1>1, <2>1, <2>2, <3>1 DEF SpanSound
    <3>3. Holder(s)' = {}
      BY <1>4, <2>1, <3>1 DEF SpanSound
    <3> QED BY <3>2, <3>3 DEF SpanSound
  <2>3. CASE s \notin inserted[a]
    <3>1. stored'[s] = stored[s]
      BY <1>1, <2>3
    <3> QED BY <1>4, <2>1, <3>1 DEF SpanSound
  <2> QED BY <2>2, <2>3
<1> QED BY <1>1, <1>2, <1>3, <1>5 DEF SInv, ITypes

LEMMA IDies ==
  ASSUME SInv, NEW a \in Attempt, AttemptDies(a)
  PROVE  SInv'
<1>1. ~Ahead(a)
  BY IWorks DEF AttemptDies
<1>2. Forward
  BY IDelivers DEF AttemptDies
<1>3. Close(a, "ended") /\ stored' = stored
  BY DEF AttemptDies
<1> QED BY <1>1, <1>2, <1>3, ICloses, IQuiet

LEMMA IStepInv ==
  ASSUME SInv, [INext]_ivars
  PROVE  SInv'
<1>1. CASE UNCHANGED ivars
  <2>1. at' = at /\ phase' = phase /\ inserted' = inserted /\ stored' = stored
    BY <1>1 DEF ivars
  <2>2. ASSUME NEW b \in Attempt PROVE AttemptSound(b)'
    BY <2>1 DEF SInv, AttemptSound, Ahead
  <2>3. ASSUME NEW s \in Span PROVE SpanSound(s)'
    BY <2>1 DEF SInv, SpanSound, Holder
  <2> QED BY <2>1, <2>2, <2>3 DEF SInv, ITypes
<1>2. CASE \E c \in Client : Post(c) \/ ClientTimeout(c)
  BY <1>2, IPosts, ITimesOut
<1>3. CASE \E a \in Attempt : ServerStep(a) \/ AttemptDies(a)
  BY <1>3, IChecks, ISkips, IInserts, IAnswers, ICommits, IDies DEF ServerStep
<1> QED BY <1>1, <1>2, <1>3 DEF INext

\* Span ingestion (ingestion.py:53, uq_span_records_tenant_span): whatever attempts,
\* retries and clients overlap, and however their transactions end, a span is stored
\* by one of them at most.
THEOREM SpansStoredOnce == ISpec => []StoredOnce
<1>1. IInit => SInv
  BY SInitInv
<1>2. SInv /\ [INext]_ivars => SInv'
  BY IStepInv
<1>3. SInv => StoredOnce
  BY AtMostOne DEF SInv, ITypes, SpanSound, StoredOnce
<1> QED BY <1>1, <1>2, <1>3, PTL DEF ISpec

-----------------------------------------------------------------------------
(***************************************************************************)
(* Span ingestion: what the client is told.  An attempt that answers has   *)
(* come past every span of its chunk, each of them stored, named or        *)
(* flushed; the client takes at most one answer for a chunk, and what was  *)
(* flushed when it did is stored, waits for its commit, or is lost.        *)
(***************************************************************************)

\* A set of natural numbers has a least one.
LEMMA LeastNumber ==
  ASSUME NEW C, C \subseteq Nat, C # {}
  PROVE  \E m \in C : \A j \in C : m <= j
<1>1. PICK m \in C : \A y \in C : ~(<<y, m>> \in OpToRel(<, Nat))
  BY NatLessThanWellFounded, WFMin
<1>2. \A y \in C : y \in Nat /\ m \in Nat /\ ~(y < m)
  BY <1>1 DEF OpToRel
<1> QED BY <1>2

\* The spans of a payload, each where it comes first, in their order.
FirstIn(s) == {i \in DOMAIN s : \A j \in 1 .. i - 1 : s[j] # s[i]}
Upto(F, i) == {j \in F : j <= i}

\* Deduplication keeps exactly the spans of the chunk.
LEMMA DeduplicationKeeps ==
  ASSUME NEW a, NEW S, Chunk(a) \in Seq(S)
  PROVE  /\ Len(Unique(a)) \in Nat
         /\ \A n \in 1 .. Len(Unique(a)) : Unique(a)[n] \in Range(Chunk(a))
         /\ \A x \in Range(Chunk(a)) : \E n \in 1 .. Len(Unique(a)) : Unique(a)[n] = x
<1>1. PICK s, F, N : s = Chunk(a) /\ F = FirstIn(s) /\ N = Cardinality(F)
  OBVIOUS
<1>2. DOMAIN s = 1 .. Len(s) /\ Len(s) \in Nat
  BY <1>1
<1>3. F \subseteq 1 .. Len(s) /\ IsFiniteSet(F) /\ N \in Nat
  <2>1. F \subseteq 1 .. Len(s)
    BY <1>1, <1>2 DEF FirstIn
  <2>2. IsFiniteSet(1 .. Len(s))
    BY <1>2, FS_Interval
  <2>3. IsFiniteSet(F)
    BY <2>1, <2>2, FS_Subset
  <2> QED BY <1>1, <2>1, <2>3, FS_CardinalityType
<1> DEFINE rank == [i \in F |-> Cardinality(Upto(F, i))]
<1>4. ASSUME NEW i \in F PROVE rank[i] \in 1 .. N
  <2>1. Upto(F, i) \subseteq F /\ i \in Upto(F, i) /\ IsFiniteSet(Upto(F, i))
    <3>1. Upto(F, i) \subseteq F /\ i \in Upto(F, i)
      BY <1>3 DEF Upto
    <3> QED BY <1>3, <3>1, FS_Subset
  <2>2. Cardinality(Upto(F, i)) \in Nat /\ Cardinality(Upto(F, i)) <= N /\ Cardinality(Upto(F, i)) # 0
    BY <1>1, <1>3, <2>1, FS_Subset, FS_CardinalityType, FS_EmptySet
  <2> QED BY <1>3, <2>2
<1>5. ASSUME NEW i \in F, NEW k \in F, i < k PROVE Cardinality(Upto(F, i)) # Cardinality(Upto(F, k))
  <2>1. Upto(F, i) \subseteq Upto(F, k) /\ k \in Upto(F, k) /\ k \notin Upto(F, i)
    <3>1. i \in Nat /\ k \in Nat
      BY <1>3
    <3>2. \A j \in F : j <= i => j <= k
      BY <1>3, <1>5, <3>1
    <3>3. k <= k /\ ~(k <= i)
      BY <1>5, <3>1
    <3> QED BY <3>2, <3>3 DEF Upto
  <2>2. IsFiniteSet(Upto(F, k))
    BY <1>3, FS_Subset DEF Upto
  <2> QED BY <2>1, <2>2, FS_Subset
<1>6. \A i, k \in F : rank[i] = rank[k] => i = k
  <2>1. \A i, k \in F : i = k \/ i < k \/ k < i
    BY <1>3
  <2> QED BY <1>5, <2>1
<1>7. rank \in Injection(F, 1 .. N)
  <2> HIDE DEF rank
  <2>1. rank \in [F -> 1 .. N]
    <3>1. rank = [i \in F |-> rank[i]]
      BY DEF rank
    <3> QED BY <1>4, <3>1
  <2> QED BY <1>6, <2>1 DEF Injection, IsInjective
<1>8. \A n \in 1 .. N : \E i \in F : rank[i] = n
  <2> HIDE DEF rank
  <2>1. IsFiniteSet(1 .. N) /\ Cardinality(1 .. N) = N
    BY <1>3, FS_Interval
  <2>2. rank \in Surjection(F, 1 .. N)
    BY <1>1, <1>7, <2>1, FS_Injection
  <2> QED BY <2>2 DEF Surjection
<1> DEFINE nth(n) == CHOOSE i \in F : Cardinality({j \in F : j <= i}) = n
<1>9. Unique(a) = [n \in 1 .. N |-> s[nth(n)]]
  BY <1>1 DEF Unique, FirstIn
<1>10. ASSUME NEW n \in 1 .. N PROVE nth(n) \in F /\ rank[nth(n)] = n
  <2>1. \E i \in F : Cardinality({j \in F : j <= i}) = n
    BY <1>8 DEF Upto
  <2>2. nth(n) \in F /\ Cardinality({j \in F : j <= nth(n)}) = n
    BY <2>1
  <2> QED BY <2>2 DEF Upto
<1> HIDE DEF nth, rank
<1>11. Len(Unique(a)) = N
  BY <1>3, <1>9
<1>12. ASSUME NEW n \in 1 .. N PROVE Unique(a)[n] \in Range(Chunk(a))
  <2>1. Unique(a)[n] = s[nth(n)] /\ nth(n) \in DOMAIN s
    BY <1>2, <1>3, <1>9, <1>10
  <2> QED BY <1>1, <2>1 DEF Range
<1>13. ASSUME NEW x \in Range(Chunk(a)) PROVE \E n \in 1 .. N : Unique(a)[n] = x
  <2>1. PICK C : C = {i \in DOMAIN s : s[i] = x}
    OBVIOUS
  <2>2. C \subseteq Nat /\ C # {}
    BY <1>1, <1>2, <2>1 DEF Range
  <2>3. PICK i \in C : \A j \in C : i <= j
    BY <2>2, LeastNumber
  <2>4. i \in F /\ s[i] = x
    <3>1. i \in DOMAIN s /\ s[i] = x /\ i \in Nat
      BY <2>1, <2>2
    <3>2. ASSUME NEW j \in 1 .. i - 1 PROVE s[j] # s[i]
      <4>1. j \in DOMAIN s /\ ~(i <= j)
        BY <1>2, <3>1
      <4> QED BY <2>1, <2>3, <3>1, <4>1
    <3> QED BY <1>1, <3>1, <3>2 DEF FirstIn
  <2>5. PICK n : n = rank[i]
    OBVIOUS
  <2>6. n \in 1 .. N /\ nth(n) = i
    BY <1>4, <1>6, <1>10, <2>4, <2>5
  <2> QED BY <1>9, <2>4, <2>6
<1> QED BY <1>3, <1>11, <1>12, <1>13

Positions == [Client -> [chunk : Nat, attempt : Nat, waits : BOOLEAN]]
Results == [Client -> [ingested : Nat, named : SUBSET Span, failed : SUBSET Nat]]

IMore ==
  /\ batch \in Batches /\ told \in Results /\ pos \in [Attempt -> Nat \ {0}] /\ DOMAIN named = Attempt
  /\ \A s \in Span : stored[s] \subseteq Attempt

ClientSound(c) ==
  /\ at[c].chunk \in 1 .. Len(batch[c]) + 1 /\ at[c].attempt \in 1 .. MaxAttempts
  /\ at[c].waits => ~Returned(c)
  /\ told[c].failed \subseteq 1 .. at[c].chunk - 1

\* A span that the loop of attempt a has come past.
Passed(a, s) ==
  /\ stored[s] # {} \/ s \in named[a] \/ s \in inserted[a]
  /\ s \in Unscoped => s \in named[a]

WorkSound(a) ==
  /\ phase[a] \notin {"ingest", "commit"} => pos[a] = 1 /\ named[a] = {}
  /\ phase[a] # "none" => a[2] \in DOMAIN batch[a[1]] /\ inserted[a] \cup named[a] \subseteq Range(Chunk(a))
  /\ phase[a] = "ingest" =>
       /\ Range(Chunk(a)) \cap Foreign = {}
       /\ \A n \in 1 .. Len(Unique(a)) : n < pos[a] => Passed(a, Unique(a)[n])

Flushed(a, s) == s \in inserted[a] /\ phase[a] = "commit"

\* A span of chunk i that its client was answered for.
Settled(c, i, s) ==
  /\ s \notin Foreign /\ (s \in Unscoped => s \in told[c].named)
  /\ \/ stored[s] # {} \/ s \in told[c].named \/ <<c, i, s>> \in lost
     \/ \E a \in Attempt : a[1] = c /\ a[2] = i /\ Flushed(a, s)
ChunksSound(c) ==
  \A i \in 1 .. at[c].chunk - 1 : i \in told[c].failed \/ \A s \in Range(batch[c][i]) : Settled(c, i, s)

LostSound ==
  \A l \in lost : /\ l \in Client \X (1 .. MaxChunks) \X Span
                  /\ l[2] \in DOMAIN batch[l[1]] /\ l[3] \in Range(batch[l[1]][l[2]])

\* What the client counted: attempts and spans, one attempt for a chunk.
CountedAs(c, K) ==
  /\ K \subseteq Attempt \X BatchSpans(c) /\ IsFiniteSet(K) /\ Cardinality(K) = told[c].ingested
  /\ \A x \in K : /\ x[1][1] = c /\ x[1][2] < at[c].chunk
                  /\ x[1] \in stored[x[2]] \/ Flushed(x[1], x[2]) \/ <<c, x[1][2], x[2]>> \in lost
  /\ \A x, y \in K : x[1][2] = y[1][2] => x[1] = y[1]
Counted(c) == \E K : CountedAs(c, K)

ToldInv ==
  /\ SInv /\ IMore /\ LostSound
  /\ \A a \in Attempt : WorkSound(a)
  /\ \A c \in Client : ClientSound(c) /\ ChunksSound(c) /\ Counted(c)

\* The batches are finite sequences of chunks.
LEMMA BatchShape ==
  ASSUME batch \in Batches, NEW c \in Client
  PROVE  /\ batch[c] \in Seq(Seq(Span) \ {<<>>}) /\ Len(batch[c]) \in Nat /\ Len(batch[c]) <= MaxChunks
         /\ DOMAIN batch[c] = 1 .. Len(batch[c]) /\ MaxChunks \in Nat
         /\ \A i \in DOMAIN batch[c] : batch[c][i] \in Seq(Span) /\ Range(batch[c][i]) \subseteq Span
<1>1. batch[c] \in Seq(Seq(Span) \ {<<>>}) /\ Len(batch[c]) <= MaxChunks /\ MaxChunks \in Nat
  BY BatchAssumption
<1>2. \A i \in DOMAIN batch[c] : batch[c][i] \in Seq(Span)
  BY <1>1
<1>3. \A i \in DOMAIN batch[c] : Range(batch[c][i]) \subseteq Span
  <2> SUFFICES ASSUME NEW i \in DOMAIN batch[c], NEW j \in DOMAIN batch[c][i] PROVE batch[c][i][j] \in Span
    BY DEF Range
  <2>1. PICK s : s = batch[c][i]
    OBVIOUS
  <2>2. s \in Seq(Span) /\ j \in 1 .. Len(s)
    BY <1>2, <2>1
  <2> QED BY <2>1, <2>2
<1> QED BY <1>1, <1>2, <1>3

\* How a step moves the client: not at all, to the wait for an answer, to the next
\* attempt, or to the next chunk, which failed or was answered for by attempt a.
StaysPut(c) ==
  /\ at'[c].chunk = at[c].chunk /\ at'[c].attempt = at[c].attempt /\ told'[c] = told[c]
  /\ at'[c].waits => at[c].waits \/ ~Returned(c)
Retries(c) ==
  /\ at[c].waits /\ at[c].attempt < MaxAttempts /\ told'[c] = told[c]
  /\ at'[c].chunk = at[c].chunk /\ at'[c].attempt = at[c].attempt + 1 /\ ~at'[c].waits
GoesOnTo(c) == at[c].waits /\ at'[c].chunk = at[c].chunk + 1 /\ at'[c].attempt = 1 /\ ~at'[c].waits
GivesUp(c) ==
  /\ GoesOnTo(c) /\ told'[c].failed = told[c].failed \cup {at[c].chunk}
  /\ told'[c].ingested = told[c].ingested /\ told'[c].named = told[c].named
TakesAnswer(c, a) ==
  /\ GoesOnTo(c) /\ a[1] = c /\ a[2] = at[c].chunk /\ told'[c].failed = told[c].failed
  /\ told'[c].ingested = told[c].ingested + Cardinality(inserted[a])
  /\ told'[c].named = told[c].named \cup named[a]
Others(c) ==
  /\ at' \in Positions /\ told' \in Results
  /\ \A d \in Client \ {c} : at'[d] = at[d] /\ told'[d] = told[d]

LEMMA NextChunkMoves ==
  ASSUME at \in Positions, NEW c \in Client, at[c].waits, NextChunk(c)
  PROVE  at' \in Positions /\ (\A d \in Client \ {c} : at'[d] = at[d]) /\ GoesOnTo(c)
<1>1. at' = [at EXCEPT ![c] = [chunk |-> at[c].chunk + 1, attempt |-> 1, waits |-> FALSE]]
  BY DEF NextChunk, Positions
<1>2. at[c].chunk \in Nat
  BY DEF Positions
<1>3. [chunk |-> at[c].chunk + 1, attempt |-> 1, waits |-> FALSE] \in [chunk : Nat, attempt : Nat, waits : BOOLEAN]
  BY <1>2
<1> QED BY <1>1, <1>3 DEF Positions, GoesOnTo

LEMMA FailTurns ==
  ASSUME at \in Positions, told \in Results, NEW c \in Client, at[c].waits, FailChunk(c)
  PROVE  Others(c) /\ GivesUp(c)
<1>1. at' \in Positions /\ (\A d \in Client \ {c} : at'[d] = at[d]) /\ GoesOnTo(c)
  BY NextChunkMoves DEF FailChunk
<1>2. told[c] \in [ingested : Nat, named : SUBSET Span, failed : SUBSET Nat] /\ at[c].chunk \in Nat
  BY DEF Results, Positions
<1>3. told' = [told EXCEPT ![c] = [told[c] EXCEPT !.failed = told[c].failed \cup {at[c].chunk}]]
  BY DEF FailChunk, Results
<1>4. PICK v : v = [told[c] EXCEPT !.failed = told[c].failed \cup {at[c].chunk}]
  OBVIOUS
<1>5. /\ v \in [ingested : Nat, named : SUBSET Span, failed : SUBSET Nat]
      /\ v.failed = told[c].failed \cup {at[c].chunk} /\ v.ingested = told[c].ingested /\ v.named = told[c].named
  BY <1>2, <1>4
<1>6. told' \in Results /\ told'[c] = v /\ \A d \in Client \ {c} : told'[d] = told[d]
  BY <1>3, <1>4, <1>5 DEF Results
<1> QED BY <1>1, <1>5, <1>6 DEF Others, GivesUp

LEMMA RetryTurns ==
  ASSUME at \in Positions, told \in Results, NEW c \in Client, at[c].waits, RetryChunk(c)
  PROVE  Others(c) /\ (Retries(c) \/ GivesUp(c))
<1>1. CASE ~(at[c].attempt < MaxAttempts)
  BY <1>1, FailTurns DEF RetryChunk
<1>2. CASE at[c].attempt < MaxAttempts
  <2>1. at' = [at EXCEPT ![c].attempt = @ + 1, ![c].waits = FALSE] /\ told' = told
    BY <1>2 DEF RetryChunk
  <2>2. PICK p, m, v : p = at[c] /\ m = [p EXCEPT !.attempt = p.attempt + 1] /\ v = [m EXCEPT !.waits = FALSE]
    OBVIOUS
  <2>3. p \in [chunk : Nat, attempt : Nat, waits : BOOLEAN]
    BY <2>2 DEF Positions
  <2>4. m \in [chunk : Nat, attempt : Nat, waits : BOOLEAN] /\ m.chunk = p.chunk /\ m.attempt = p.attempt + 1
    BY <2>2, <2>3
  <2>5. v \in [chunk : Nat, attempt : Nat, waits : BOOLEAN] /\ v.chunk = p.chunk /\ v.attempt = p.attempt + 1
        /\ v.waits = FALSE
    BY <2>2, <2>4
  <2>6. at' = [at EXCEPT ![c] = v]
    BY <2>1, <2>2 DEF Positions
  <2>7. at' \in Positions /\ at'[c] = v /\ \A d \in Client \ {c} : at'[d] = at[d]
    BY <2>5, <2>6 DEF Positions
  <2> QED BY <1>2, <2>1, <2>2, <2>5, <2>7 DEF Others, Retries
<1> QED BY <1>1, <1>2

LEMMA AcceptTurns ==
  ASSUME at \in Positions, told \in Results, NEW a \in Attempt, Waits(a), AcceptAnswer(a[1], a),
         IsFiniteSet(inserted[a]), named[a] \subseteq Span
  PROVE  Others(a[1]) /\ TakesAnswer(a[1], a)
<1>0. PICK c : c = a[1]
  OBVIOUS
<1>1. c \in Client /\ at[c].waits /\ a[2] = at[c].chunk
  BY <1>0 DEF Attempt, Waits, Current
<1>2. at' \in Positions /\ (\A d \in Client \ {c} : at'[d] = at[d]) /\ GoesOnTo(c)
  BY <1>0, <1>1, NextChunkMoves DEF AcceptAnswer
<1>3. told[c] \in [ingested : Nat, named : SUBSET Span, failed : SUBSET Nat] /\ Cardinality(inserted[a]) \in Nat
  BY <1>1, FS_CardinalityType DEF Results
<1>4. PICK p, m, v : /\ p = told[c] /\ m = [p EXCEPT !.ingested = p.ingested + Cardinality(inserted[a])]
                     /\ v = [m EXCEPT !.named = m.named \cup named[a]]
  OBVIOUS
<1>5. /\ m \in [ingested : Nat, named : SUBSET Span, failed : SUBSET Nat]
      /\ m.failed = p.failed /\ m.ingested = p.ingested + Cardinality(inserted[a]) /\ m.named = p.named
  BY <1>3, <1>4
<1>6. /\ v \in [ingested : Nat, named : SUBSET Span, failed : SUBSET Nat]
      /\ v.failed = p.failed /\ v.ingested = m.ingested /\ v.named = p.named \cup named[a]
  BY <1>4, <1>5
<1>7. told' = [told EXCEPT ![c] = v]
  BY <1>0, <1>4 DEF AcceptAnswer, Results
<1>8. told' \in Results /\ told'[c] = v /\ \A d \in Client \ {c} : told'[d] = told[d]
  BY <1>1, <1>6, <1>7 DEF Results
<1> QED BY <1>0, <1>1, <1>2, <1>4, <1>5, <1>6, <1>8 DEF Others, TakesAnswer

\* What the answer of an attempt does to its client.
LEMMA DeliverTurns ==
  ASSUME at \in Positions, told \in Results, NEW a \in Attempt, NEW code \in {200, 403, 500}, Deliver(a, code),
         IsFiniteSet(inserted[a]), named[a] \subseteq Span
  PROVE  /\ Others(a[1])
         /\ \/ StaysPut(a[1]) \/ Retries(a[1]) \/ GivesUp(a[1])
            \/ (code = 200 /\ TakesAnswer(a[1], a))
<1>0. a[1] \in Client
  BY DEF Attempt
<1>1. CASE ~Waits(a)
  <2>1. at' = at /\ told' = told
    BY <1>1 DEF Deliver
  <2> QED BY <2>1 DEF Others, StaysPut
<1>2. CASE Waits(a)
  <2>0. at[a[1]].waits
    BY <1>2 DEF Waits
  <2>1. CASE code = 200
    <3>1. AcceptAnswer(a[1], a)
      BY <1>2, <2>1 DEF Deliver
    <3> QED BY <1>2, <2>1, <3>1, AcceptTurns
  <2>2. CASE code = 403
    <3>1. FailChunk(a[1])
      BY <1>2, <2>2 DEF Deliver
    <3> QED BY <1>0, <2>0, <3>1, FailTurns
  <2>3. CASE code = 500
    <3>1. RetryChunk(a[1])
      BY <1>2, <2>3 DEF Deliver
    <3> QED BY <1>0, <2>0, <3>1, RetryTurns
  <2> QED BY <2>1, <2>2, <2>3
<1> QED BY <1>1, <1>2

\* What the server does to what it has answered for: it keeps it, or stores it, or
\* loses it on record.
Carries ==
  /\ batch' = batch /\ (\A s \in Span : stored[s] \subseteq stored'[s]) /\ lost \subseteq lost'
  /\ \A b \in Attempt : \A s \in Span :
       Flushed(b, s) => Flushed(b, s)' \/ b \in stored'[s] \/ <<b[1], b[2], s>> \in lost'

\* An attempt that answers has come past all its spans.
Complete(a) ==
  /\ a \in Attempt /\ a[2] \in DOMAIN batch[a[1]]
  /\ \A s \in Range(Chunk(a)) : s \notin Foreign /\ Passed(a, s)
  /\ IsFiniteSet(inserted[a]) /\ inserted[a] \subseteq Range(Chunk(a))
  /\ phase'[a] = "commit" /\ inserted'[a] = inserted[a]

Moved(c, a) == StaysPut(c) \/ Retries(c) \/ GivesUp(c) \/ (TakesAnswer(c, a) /\ Complete(a))

LEMMA ClientsStaySound ==
  ASSUME ToldInv, NEW c \in Client, NEW a, Others(c), Moved(c, a), batch' = batch, NEW d \in Client
  PROVE  ClientSound(d)'
<1>1. ClientSound(d) /\ ClientSound(c) /\ at \in Positions /\ MaxAttempts \in Nat \ {0}
  BY BatchAssumption DEF ToldInv, SInv, ITypes, Positions
<1>2. CASE d # c
  <2>1. at'[d] = at[d] /\ told'[d] = told[d]
    BY <1>2 DEF Others
  <2> QED BY <1>1, <2>1 DEF ClientSound, Returned
<1>3. CASE d = c
  <2>0. at[c].chunk \in 1 .. Len(batch[c]) + 1 /\ at[c].attempt \in 1 .. MaxAttempts /\ Len(batch[c]) \in Nat
        /\ (at[c].waits => at[c].chunk <= Len(batch[c])) /\ told[c].failed \subseteq 1 .. at[c].chunk - 1
    <3>1. Len(batch[c]) \in Nat
      BY BatchShape DEF ToldInv, IMore
    <3> QED BY <1>1, <3>1 DEF ClientSound, Returned
  <2>1. CASE StaysPut(c)
    BY <1>3, <2>0, <2>1 DEF StaysPut, ClientSound, Returned
  <2>2. CASE Retries(c)
    BY <1>1, <1>3, <2>0, <2>2 DEF Retries, ClientSound, Returned
  <2>3. CASE GivesUp(c) \/ TakesAnswer(c, a)
    <3>1. /\ at[c].waits /\ at'[c].chunk = at[c].chunk + 1 /\ at'[c].attempt = 1 /\ ~at'[c].waits
          /\ told'[c].failed \subseteq told[c].failed \cup {at[c].chunk}
      BY <2>3 DEF GivesUp, TakesAnswer, GoesOnTo
    <3>2. told'[c].failed \subseteq 1 .. at'[c].chunk - 1
      BY <2>0, <3>1
    <3> QED BY <1>1, <1>3, <2>0, <3>1, <3>2 DEF ClientSound, Returned
  <2> QED BY <2>1, <2>2, <2>3 DEF Moved
<1> QED BY <1>2, <1>3

LEMMA SettledStays ==
  ASSUME Carries, NEW d, NEW i, NEW s \in Span, Settled(d, i, s), told[d].named \subseteq told'[d].named
  PROVE  Settled(d, i, s)'
<1>1. s \notin Foreign /\ (s \in Unscoped => s \in told'[d].named)
  BY DEF Settled
<1>2. CASE stored[s] # {} \/ s \in told[d].named \/ <<d, i, s>> \in lost
  <2>1. stored'[s] # {} \/ s \in told'[d].named \/ <<d, i, s>> \in lost'
    BY <1>2 DEF Carries
  <2> QED BY <1>1, <2>1 DEF Settled
<1>3. CASE \E a \in Attempt : a[1] = d /\ a[2] = i /\ Flushed(a, s)
  <2>1. PICK a \in Attempt : a[1] = d /\ a[2] = i /\ Flushed(a, s)
    BY <1>3
  <2>2. Flushed(a, s)' \/ a \in stored'[s] \/ <<d, i, s>> \in lost'
    BY <2>1 DEF Carries
  <2> QED BY <1>1, <2>1, <2>2 DEF Settled
<1> QED BY <1>2, <1>3 DEF Settled

LEMMA ChunksStaySound ==
  ASSUME ToldInv, NEW c \in Client, NEW a, Others(c), Moved(c, a), Carries, NEW d \in Client
  PROVE  ChunksSound(d)'
<1>0. batch \in Batches /\ batch' = batch /\ at \in Positions /\ ChunksSound(d) /\ ClientSound(d)
  BY DEF ToldInv, IMore, Carries, SInv, ITypes, Positions
<1>1. told[d].failed \subseteq told'[d].failed /\ told[d].named \subseteq told'[d].named
  <2>1. CASE d # c
    BY <2>1 DEF Others
  <2>2. CASE d = c
    BY <2>2 DEF Moved, StaysPut, Retries, GivesUp, TakesAnswer
  <2> QED BY <2>1, <2>2
<1> SUFFICES ASSUME NEW i \in 1 .. at'[d].chunk - 1, i \notin told'[d].failed, NEW s \in Range(batch[d][i])
             PROVE  Settled(d, i, s)'
  BY <1>0 DEF ChunksSound
<1>2. CASE i \in 1 .. at[d].chunk - 1
  <2>1. i \in DOMAIN batch[d]
    BY <1>0, <1>2, BatchShape DEF ClientSound
  <2>2. s \in Span
    BY <1>0, <2>1, BatchShape
  <2> QED BY <1>0, <1>1, <1>2, <2>2, SettledStays DEF ChunksSound
<1>3. CASE i \notin 1 .. at[d].chunk - 1
  <2>1. d = c /\ i = at[c].chunk /\ (GivesUp(c) \/ (TakesAnswer(c, a) /\ Complete(a)))
    <3>1. at[d].chunk \in Nat
      BY <1>0 DEF Positions
    <3>2. at'[d].chunk # at[d].chunk
      BY <1>3
    <3>3. d = c
      BY <3>2 DEF Others
    <3>4. GivesUp(c) \/ (TakesAnswer(c, a) /\ Complete(a))
      BY <3>2, <3>3 DEF Moved, StaysPut, Retries
    <3>5. at'[c].chunk = at[c].chunk + 1
      BY <3>4 DEF GivesUp, TakesAnswer, GoesOnTo
    <3> QED BY <1>3, <3>1, <3>3, <3>4, <3>5
  <2>2. TakesAnswer(c, a) /\ Complete(a)
    BY <2>1 DEF GivesUp
  <2>3. Complete(a) /\ a[1] = c /\ a[2] = i /\ Chunk(a) = batch[d][i] /\ told'[c].named = told[c].named \cup named[a]
    BY <2>1, <2>2 DEF TakesAnswer, Chunk
  <2>4. s \notin Foreign /\ Passed(a, s) /\ s \in Span
    <3>1. s \notin Foreign /\ Passed(a, s) /\ i \in DOMAIN batch[d]
      BY <2>1, <2>3 DEF Complete
    <3> QED BY <1>0, <3>1, BatchShape
  <2>5. s \in Unscoped => s \in told'[c].named
    BY <2>3, <2>4 DEF Passed
  <2>6. CASE stored[s] # {} \/ s \in named[a]
    <3>1. stored'[s] # {} \/ s \in told'[c].named
      BY <2>3, <2>4, <2>6 DEF Carries
    <3> QED BY <2>1, <2>4, <2>5, <3>1 DEF Settled
  <2>7. CASE s \in inserted[a]
    <3>1. Flushed(a, s)' /\ a \in Attempt
      BY <2>3, <2>7 DEF Flushed, Complete
    <3> QED BY <2>1, <2>3, <2>4, <2>5, <3>1 DEF Settled
  <2> QED BY <2>4, <2>6, <2>7 DEF Passed
<1> QED BY <1>2, <1>3

\* What was counted stays where it can be found.
LEMMA TalliesStay ==
  ASSUME ToldInv, Carries, NEW d \in Client, at' \in Positions, at'[d].chunk >= at[d].chunk, NEW K, CountedAs(d, K)
  PROVE  /\ K \subseteq Attempt \X BatchSpans(d)' /\ BatchSpans(d)' = BatchSpans(d)
         /\ \A x \in K : /\ x[1][1] = d /\ x[1][2] < at'[d].chunk
                         /\ x[1] \in stored'[x[2]] \/ Flushed(x[1], x[2])' \/ <<d, x[1][2], x[2]>> \in lost'
<1>1. BatchSpans(d)' = BatchSpans(d)
  BY DEF Carries, BatchSpans
<1>2. BatchSpans(d) \subseteq Span /\ at \in Positions
  BY BatchShape DEF ToldInv, IMore, SInv, ITypes, Positions, BatchSpans
<1>3. ASSUME NEW x \in K
      PROVE  /\ x[1][1] = d /\ x[1][2] < at'[d].chunk
             /\ x[1] \in stored'[x[2]] \/ Flushed(x[1], x[2])' \/ <<d, x[1][2], x[2]>> \in lost'
  <2>1. /\ x[1] \in Attempt /\ x[2] \in Span /\ x[1][1] = d /\ x[1][2] < at[d].chunk
        /\ x[1] \in stored[x[2]] \/ Flushed(x[1], x[2]) \/ <<d, x[1][2], x[2]>> \in lost
    BY <1>2 DEF CountedAs
  <2>2. PICK b, s : b = x[1] /\ s = x[2]
    OBVIOUS
  <2>3. b \in stored'[s] \/ Flushed(b, s)' \/ <<d, b[2], s>> \in lost'
    BY <2>1, <2>2 DEF Carries
  <2>4. b[2] < at'[d].chunk
    <3>1. b[2] \in Nat /\ at[d].chunk \in Nat /\ at'[d].chunk \in Nat
      BY <1>2, <2>1, <2>2 DEF Attempt, Positions
    <3> QED BY <2>1, <2>2, <3>1
  <2> QED BY <2>1, <2>2, <2>3, <2>4
<1> QED BY <1>1, <1>3 DEF CountedAs

LEMMA CountsStay ==
  ASSUME ToldInv, NEW c \in Client, NEW a, Others(c), Moved(c, a), Carries, NEW d \in Client
  PROVE  Counted(d)'
<1>0. /\ at \in Positions /\ at' \in Positions /\ told \in Results /\ batch \in Batches /\ batch' = batch
  BY DEF ToldInv, IMore, SInv, ITypes, Positions, Others, Carries
<1>1. PICK K : CountedAs(d, K)
  BY DEF ToldInv, Counted
<1>2. at'[d].chunk >= at[d].chunk
  <2>1. at[d].chunk \in Nat
    BY <1>0 DEF Positions
  <2>2. at'[d].chunk = at[d].chunk \/ at'[d].chunk = at[d].chunk + 1
    <3>1. CASE d # c
      BY <3>1 DEF Others
    <3>2. CASE d = c
      BY <3>2 DEF Moved, StaysPut, Retries, GivesUp, TakesAnswer, GoesOnTo
    <3> QED BY <3>1, <3>2
  <2> QED BY <2>1, <2>2
<1>3. /\ K \subseteq Attempt \X BatchSpans(d)' /\ BatchSpans(d)' = BatchSpans(d)
      /\ \A x \in K : /\ x[1][1] = d /\ x[1][2] < at'[d].chunk
                      /\ x[1] \in stored'[x[2]] \/ Flushed(x[1], x[2])' \/ <<d, x[1][2], x[2]>> \in lost'
  BY <1>0, <1>1, <1>2, TalliesStay
<1>4. /\ IsFiniteSet(K) /\ Cardinality(K) = told[d].ingested
      /\ \A x, y \in K : x[1][2] = y[1][2] => x[1] = y[1]
  BY <1>1 DEF CountedAs
<1>5. CASE told'[d].ingested = told[d].ingested
  <2>1. CountedAs(d, K)'
    BY <1>3, <1>4, <1>5 DEF CountedAs
  <2> QED BY <2>1 DEF Counted
<1>6. CASE told'[d].ingested # told[d].ingested
  <2>1. d = c /\ TakesAnswer(c, a) /\ Complete(a)
    <3>1. d = c
      BY <1>6 DEF Others
    <3> QED BY <1>6, <3>1 DEF Moved, StaysPut, Retries, GivesUp
  <2>2. /\ Complete(a) /\ a[1] = d /\ a[2] = at[d].chunk /\ at'[d].chunk = at[d].chunk + 1
        /\ told'[d].ingested = told[d].ingested + Cardinality(inserted[a])
    BY <2>1 DEF TakesAnswer, GoesOnTo
  <2>3. PICK I : I = inserted[a]
    OBVIOUS
  <2>4. /\ a \in Attempt /\ IsFiniteSet(I) /\ I \subseteq BatchSpans(d) /\ phase'[a] = "commit" /\ inserted'[a] = I
    BY <2>2, <2>3 DEF Complete, Chunk, BatchSpans
  <2>5. PICK L : L = {a} \X I
    OBVIOUS
  <2>6. IsFiniteSet(L) /\ Cardinality(L) = Cardinality(I)
    <3>1. IsFiniteSet({a}) /\ Cardinality({a}) = 1
      BY FS_Singleton
    <3>2. IsFiniteSet(L) /\ Cardinality(L) = Cardinality({a}) * Cardinality(I)
      BY <2>4, <2>5, <3>1, FS_Product
    <3>3. Cardinality(I) \in Nat
      BY <2>4, FS_CardinalityType
    <3> QED BY <3>1, <3>2, <3>3
  <2>7. \A x \in L : x[1] = a /\ x[2] \in I /\ x \in Attempt \X BatchSpans(d)
    BY <2>4, <2>5
  <2>8. \A x \in K : x[1][2] # a[2]
    <3>1. at[d].chunk \in Nat
      BY <1>0 DEF Positions
    <3>2. \A x \in K : x[1] \in Attempt /\ x[1][2] < at[d].chunk
      BY <1>1 DEF CountedAs
    <3> QED BY <2>2, <3>1, <3>2
  <2>9. K \cap L = {}
    BY <2>7, <2>8
  <2>10. IsFiniteSet(K \cup L) /\ Cardinality(K \cup L) = told'[d].ingested
    <3>1. IsFiniteSet(K \cup L) /\ Cardinality(K \cup L) = Cardinality(K) + Cardinality(L) - Cardinality(K \cap L)
      BY <1>4, <2>6, FS_Union
    <3>2. Cardinality(K \cap L) = 0 /\ Cardinality(K) \in Nat /\ Cardinality(L) \in Nat
      BY <1>4, <2>6, <2>9, FS_EmptySet, FS_CardinalityType
    <3> QED BY <1>4, <2>2, <2>3, <2>6, <3>1, <3>2
  <2>11. ASSUME NEW x \in L
         PROVE  /\ x[1][1] = d /\ x[1][2] < at'[d].chunk
                /\ x[1] \in stored'[x[2]] \/ Flushed(x[1], x[2])' \/ <<d, x[1][2], x[2]>> \in lost'
    <3>1. at[d].chunk \in Nat
      BY <1>0 DEF Positions
    <3>2. x[1][1] = d /\ x[1][2] < at'[d].chunk
      BY <2>2, <2>7, <3>1
    <3>3. Flushed(a, x[2])'
      BY <2>4, <2>7 DEF Flushed
    <3> QED BY <2>7, <3>2, <3>3
  <2>12. \A x, y \in K \cup L : x[1][2] = y[1][2] => x[1] = y[1]
    BY <1>4, <2>7, <2>8
  <2>13. CountedAs(d, K \cup L)'
    BY <1>3, <2>7, <2>10, <2>11, <2>12 DEF CountedAs
  <2> QED BY <2>13 DEF Counted
<1> QED BY <1>5, <1>6

LEMMA RangeIsFinite ==
  ASSUME NEW S, NEW s \in Seq(S)
  PROVE  IsFiniteSet(Range(s))
<1>1. DOMAIN s = 1 .. Len(s) /\ Len(s) \in Nat /\ s \in [1 .. Len(s) -> S]
  OBVIOUS
<1>2. IsFiniteSet(DOMAIN s)
  BY <1>1, FS_Interval
<1>3. s \in Surjection(DOMAIN s, Range(s))
  BY <1>1 DEF Surjection, Range
<1> QED BY <1>2, <1>3, FS_Surjection

\* The spans that attempt a works on.
LEMMA UniqueShape ==
  ASSUME batch \in Batches, NEW a \in Attempt, a[2] \in DOMAIN batch[a[1]]
  PROVE  /\ Chunk(a) \in Seq(Span) /\ Range(Chunk(a)) \subseteq Span /\ IsFiniteSet(Range(Chunk(a)))
         /\ Len(Unique(a)) \in Nat
         /\ \A n \in 1 .. Len(Unique(a)) : Unique(a)[n] \in Range(Chunk(a)) /\ Unique(a)[n] \in Span
         /\ \A x \in Range(Chunk(a)) : \E n \in 1 .. Len(Unique(a)) : Unique(a)[n] = x
<1>1. a[1] \in Client
  BY DEF Attempt
<1>2. Chunk(a) \in Seq(Span) /\ Range(Chunk(a)) \subseteq Span
  BY <1>1, BatchShape DEF Chunk
<1>3. IsFiniteSet(Range(Chunk(a)))
  BY <1>2, RangeIsFinite
<1> QED BY <1>2, <1>3, DeduplicationKeeps

LEMMA SameWork ==
  ASSUME batch' = batch, NEW a
  PROVE  Chunk(a)' = Chunk(a) /\ Unique(a)' = Unique(a)
BY DEF Chunk, Unique

LEMMA PassedStays ==
  ASSUME Carries, NEW a, NEW s \in Span, Passed(a, s), named[a] \subseteq named'[a], inserted[a] \subseteq inserted'[a]
  PROVE  Passed(a, s)'
BY DEF Passed, Carries

\* An attempt that a step does not work on, and what the step adds to the rows.
LEMMA WorkStays ==
  ASSUME ToldInv, Carries, NEW b \in Attempt, phase'[b] = phase[b], pos'[b] = pos[b],
         inserted'[b] = inserted[b], named'[b] = named[b]
  PROVE  WorkSound(b)'
<1>1. WorkSound(b) /\ batch' = batch /\ batch \in Batches
  BY DEF ToldInv, IMore, Carries
<1>2. Chunk(b)' = Chunk(b) /\ Unique(b)' = Unique(b)
  BY <1>1, SameWork
<1>3. ASSUME phase[b] = "ingest", NEW n \in 1 .. Len(Unique(b)), n < pos[b]
      PROVE  Passed(b, Unique(b)[n])'
  <2>1. PICK s : s = Unique(b)[n]
    OBVIOUS
  <2>2. s \in Span /\ Passed(b, s)
    BY <1>1, <1>3, <2>1, UniqueShape DEF WorkSound
  <2>3. Passed(b, s)'
    BY <2>2, PassedStays
  <2> QED BY <1>2, <2>1, <2>3 DEF Passed
<1>4. phase[b] = "ingest" => \A n \in 1 .. Len(Unique(b)) : n < pos[b] => Passed(b, Unique(b)[n])'
  BY <1>3
<1>5. (phase[b] = "ingest" => \A n \in 1 .. Len(Unique(b)) : n < pos[b] => Passed(b, Unique(b)[n]))'
  BY <1>2, <1>4 DEF Passed
<1> QED BY <1>1, <1>2, <1>5 DEF WorkSound

\* A step that moves at most client c, and what is left to show of it.
LEMMA ToldMoves ==
  ASSUME ToldInv, NEW c \in Client, NEW a, Others(c), Moved(c, a), Carries,
         SInv', IMore', LostSound', \A b \in Attempt : WorkSound(b)'
  PROVE  ToldInv'
<1>1. batch' = batch
  BY DEF Carries
<1>2. \A d \in Client : ClientSound(d)'
  BY <1>1, ClientsStaySound
<1>3. \A d \in Client : ChunksSound(d)' /\ Counted(d)'
  BY ChunksStaySound, CountsStay
<1> QED BY <1>2, <1>3 DEF ToldInv

LEMMA ClientsRest ==
  ASSUME ToldInv, at' = at, told' = told, NEW c \in Client
  PROVE  Others(c) /\ StaysPut(c)
BY DEF ToldInv, IMore, SInv, ITypes, Others, StaysPut, Positions

\* What an attempt holds that was sent.
LEMMA AtWorkHolds ==
  ASSUME ToldInv, NEW a \in Attempt, phase[a] # "none"
  PROVE  /\ a[1] \in Client /\ a[2] \in DOMAIN batch[a[1]] /\ Range(Chunk(a)) \subseteq Span
         /\ inserted[a] \cup named[a] \subseteq Range(Chunk(a)) /\ IsFiniteSet(inserted[a]) /\ named[a] \subseteq Span
<1>1. batch \in Batches /\ a[2] \in DOMAIN batch[a[1]] /\ inserted[a] \cup named[a] \subseteq Range(Chunk(a))
  BY DEF ToldInv, IMore, WorkSound
<1>2. Range(Chunk(a)) \subseteq Span /\ IsFiniteSet(Range(Chunk(a)))
  BY <1>1, UniqueShape
<1>3. IsFiniteSet(inserted[a])
  BY <1>1, <1>2, FS_Subset
<1> QED BY <1>1, <1>2, <1>3 DEF Attempt

LEMMA TPosts ==
  ASSUME ToldInv, NEW c \in Client, Post(c)
  PROVE  ToldInv'
<1>0. SInv'
  BY IPosts DEF ToldInv
<1>1. /\ at \in Positions /\ phase \in [Attempt -> {"none", "sent", "ingest", "commit", "ended"}]
      /\ batch \in Batches /\ told \in Results
  BY DEF ToldInv, IMore, SInv, ITypes, Positions
<1>2. /\ ~Returned(c) /\ ~at[c].waits /\ at' = [at EXCEPT ![c] = [at[c] EXCEPT !.waits = TRUE]]
      /\ phase' = [phase EXCEPT ![Current(c)] = "sent"]
      /\ batch' = batch /\ told' = told /\ pos' = pos /\ inserted' = inserted /\ named' = named
      /\ lost' = lost /\ stored' = stored
  BY <1>1 DEF Post, Positions
<1>3. PICK a : a = Current(c)
  OBVIOUS
<1>4. a \in Attempt /\ a[1] = c /\ a[2] \in DOMAIN batch[c] /\ Ahead(a)
  <2>1. Len(batch[c]) \in Nat /\ Len(batch[c]) <= MaxChunks /\ DOMAIN batch[c] = 1 .. Len(batch[c]) /\ MaxChunks \in Nat
    BY <1>1, BatchShape
  <2>2. at[c].chunk \in 1 .. Len(batch[c]) + 1 /\ at[c].attempt \in 1 .. MaxAttempts /\ ~(at[c].chunk > Len(batch[c]))
    BY <1>2 DEF ToldInv, ClientSound, Returned
  <2>3. at[c].chunk \in 1 .. Len(batch[c]) /\ at[c].chunk \in 1 .. MaxChunks
    BY <2>1, <2>2
  <2> QED BY <1>2, <1>3, <2>1, <2>2, <2>3 DEF Current, Attempt, Ahead
<1>5. phase[a] = "none" /\ inserted[a] = {} /\ pos[a] = 1 /\ named[a] = {}
  BY <1>4 DEF ToldInv, SInv, AttemptSound, WorkSound
<1>6. phase'[a] = "sent" /\ \A b \in Attempt \ {a} : phase'[b] = phase[b]
  BY <1>1, <1>2, <1>3, <1>4
<1>7. Others(c) /\ StaysPut(c)
  <2>1. PICK p, v : p = at[c] /\ v = [p EXCEPT !.waits = TRUE]
    OBVIOUS
  <2>2. p \in [chunk : Nat, attempt : Nat, waits : BOOLEAN]
    BY <1>1, <2>1 DEF Positions
  <2>3. v \in [chunk : Nat, attempt : Nat, waits : BOOLEAN] /\ v.chunk = p.chunk /\ v.attempt = p.attempt
    BY <2>1, <2>2
  <2>4. at' \in Positions /\ at'[c] = v /\ \A d \in Client \ {c} : at'[d] = at[d]
    BY <1>1, <1>2, <2>1, <2>3 DEF Positions
  <2> QED BY <1>1, <1>2, <2>1, <2>3, <2>4 DEF Others, StaysPut
<1>8. Carries
  BY <1>2, <1>5, <1>6 DEF Carries, Flushed
<1>9. IMore' /\ LostSound'
  BY <1>2 DEF ToldInv, IMore, LostSound
<1>10. ASSUME NEW b \in Attempt PROVE WorkSound(b)'
  <2>1. CASE b # a
    BY <1>2, <1>6, <1>8, <2>1, WorkStays
  <2>2. CASE b = a
    BY <1>2, <1>4, <1>5, <1>6, <2>2 DEF WorkSound, Chunk
  <2> QED BY <2>1, <2>2
<1> QED BY <1>0, <1>7, <1>8, <1>9, <1>10, ToldMoves DEF Moved

LEMMA TTimesOut ==
  ASSUME ToldInv, NEW c \in Client, ClientTimeout(c)
  PROVE  ToldInv'
<1>0. SInv'
  BY ITimesOut DEF ToldInv
<1>1. at \in Positions /\ told \in Results
  BY DEF ToldInv, IMore, SInv, ITypes, Positions
<1>2. /\ at[c].waits /\ RetryChunk(c) /\ batch' = batch /\ phase' = phase /\ pos' = pos
      /\ inserted' = inserted /\ named' = named /\ lost' = lost /\ stored' = stored
  BY DEF ClientTimeout
<1>3. Others(c) /\ (Retries(c) \/ GivesUp(c))
  BY <1>1, <1>2, RetryTurns
<1>4. Carries
  BY <1>2 DEF Carries, Flushed
<1>5. IMore' /\ LostSound'
  BY <1>2, <1>3 DEF ToldInv, IMore, LostSound, Others
<1>6. \A b \in Attempt : WorkSound(b)'
  BY <1>2, <1>4, WorkStays
<1> QED BY <1>0, <1>3, <1>4, <1>5, <1>6, ToldMoves DEF Moved

LEMMA TChecks ==
  ASSUME ToldInv, NEW a \in Attempt, CheckTenant(a)
  PROVE  ToldInv'
<1>0. SInv'
  BY IChecks DEF ToldInv
<1>1. /\ at \in Positions /\ told \in Results /\ phase \in [Attempt -> {"none", "sent", "ingest", "commit", "ended"}]
  BY DEF ToldInv, IMore, SInv, ITypes, Positions
<1>2. /\ phase[a] = "sent" /\ batch' = batch /\ pos' = pos /\ inserted' = inserted /\ named' = named
      /\ lost' = lost /\ stored' = stored
  BY DEF CheckTenant
<1>3. /\ a[1] \in Client /\ a[2] \in DOMAIN batch[a[1]] /\ IsFiniteSet(inserted[a]) /\ named[a] \subseteq Span
      /\ pos[a] = 1 /\ named[a] = {} /\ inserted[a] = {}
  BY <1>2, AtWorkHolds DEF ToldInv, WorkSound, SInv, AttemptSound
<1>4. /\ \A b \in Attempt \ {a} : phase'[b] = phase[b]
      /\ phase'[a] \in {"ingest", "ended"} /\ (phase'[a] = "ingest" => Range(Chunk(a)) \cap Foreign = {})
  BY <1>1 DEF CheckTenant
<1>5. Others(a[1]) /\ Moved(a[1], a)
  <2>1. CASE Deliver(a, 403)
    <3>1. Others(a[1]) /\ (StaysPut(a[1]) \/ Retries(a[1]) \/ GivesUp(a[1]) \/ (403 = 200 /\ TakesAnswer(a[1], a)))
      BY <1>1, <1>3, <2>1, DeliverTurns
    <3> QED BY <3>1 DEF Moved
  <2>2. CASE at' = at /\ told' = told
    BY <1>3, <2>2, ClientsRest DEF Moved
  <2> QED BY <2>1, <2>2 DEF CheckTenant
<1>6. Carries
  BY <1>2, <1>4 DEF Carries, Flushed
<1>7. IMore' /\ LostSound'
  BY <1>2, <1>5 DEF ToldInv, IMore, LostSound, Others
<1>8. ASSUME NEW b \in Attempt PROVE WorkSound(b)'
  <2>1. CASE b # a
    BY <1>2, <1>4, <1>6, <2>1, WorkStays
  <2>2. CASE b = a
    <3>1. Chunk(a)' = Chunk(a) /\ Unique(a)' = Unique(a)
      BY <1>2, SameWork
    <3>2. \A n \in 1 .. Len(Unique(a)) : ~(n < 1)
      OBVIOUS
    <3>3. \A n \in 1 .. Len(Unique(a))' : n < pos'[a] => Passed(a, Unique(a)[n])'
      BY <1>2, <1>3, <3>1, <3>2
    <3> QED BY <1>2, <1>3, <1>4, <2>2, <3>1, <3>3 DEF WorkSound
  <2> QED BY <2>1, <2>2
<1> QED BY <1>0, <1>3, <1>5, <1>6, <1>7, <1>8, ToldMoves

\* One turn of the loop of ingest_spans: the span it is at is skipped, flushed or named.
LEMMA LoopAdvances ==
  ASSUME ToldInv, NEW a \in Attempt, Ingesting(a), SInv', NextSpan(a), batch' = batch, phase' = phase,
         at' = at, told' = told, lost' = lost, stored' = stored, DOMAIN named' = Attempt,
         \A b \in Attempt \ {a} : named'[b] = named[b] /\ inserted'[b] = inserted[b],
         named[a] \subseteq named'[a], named'[a] \subseteq named[a] \cup {TheSpan(a)},
         inserted[a] \subseteq inserted'[a], inserted'[a] \subseteq inserted[a] \cup {TheSpan(a)},
         NEW x, x = TheSpan(a), Passed(a, x)'
  PROVE  ToldInv'
<1>1. /\ phase[a] = "ingest" /\ WorkSound(a) /\ batch \in Batches /\ pos \in [Attempt -> Nat \ {0}]
      /\ pos[a] <= Len(Unique(a))
  BY DEF ToldInv, IMore, Ingesting
<1>2. a[1] \in Client /\ a[2] \in DOMAIN batch[a[1]]
  BY <1>1, AtWorkHolds
<1>3. pos' \in [Attempt -> Nat \ {0}] /\ pos'[a] = pos[a] + 1 /\ \A b \in Attempt \ {a} : pos'[b] = pos[b]
  BY <1>1 DEF NextSpan
<1>4. Chunk(a)' = Chunk(a) /\ Unique(a)' = Unique(a)
  BY SameWork
<1>5. Carries
  <2>1. \A b \in Attempt : inserted[b] \subseteq inserted'[b]
    OBVIOUS
  <2> QED BY <2>1 DEF Carries, Flushed
<1>6. \A n \in 1 .. Len(Unique(a)) : n < pos[a] \/ n = pos[a] \/ ~(n < pos'[a])
  <2>1. pos[a] \in Nat
    BY <1>1
  <2> QED BY <1>3, <2>1
<1>7. ASSUME NEW n \in 1 .. Len(Unique(a)), n < pos'[a]
      PROVE  Passed(a, Unique(a)[n])'
  <2>1. PICK s : s = Unique(a)[n]
    OBVIOUS
  <2>2. CASE n < pos[a]
    <3>1. s \in Span /\ Passed(a, s)
      BY <1>1, <1>2, <2>1, <2>2, UniqueShape DEF WorkSound
    <3>2. Passed(a, s)'
      BY <1>5, <3>1, PassedStays
    <3> QED BY <1>4, <2>1, <3>2 DEF Passed
  <2>3. CASE n = pos[a]
    <3>1. s = x
      BY <2>1, <2>3 DEF TheSpan
    <3> QED BY <1>4, <2>1, <3>1 DEF Passed
  <2> QED BY <1>6, <1>7, <2>2, <2>3
<1>8. x \in Range(Chunk(a))
  <2>1. pos[a] \in 1 .. Len(Unique(a))
    <3>1. Len(Unique(a)) \in Nat /\ pos[a] \in Nat
      BY <1>1, <1>2, UniqueShape
    <3>2. pos[a] # 0
      BY <1>1
    <3> QED BY <1>1, <3>1, <3>2
  <2> QED BY <1>1, <1>2, <2>1, UniqueShape DEF TheSpan
<1>9. inserted'[a] \cup named'[a] \subseteq Range(Chunk(a))
  BY <1>1, <1>8 DEF WorkSound
<1>10. ASSUME NEW b \in Attempt PROVE WorkSound(b)'
  <2>1. CASE b # a
    BY <1>3, <1>5, <2>1, WorkStays
  <2>2. CASE b = a
    <3>1. (\A n \in 1 .. Len(Unique(a)) : n < pos[a] => Passed(a, Unique(a)[n]))'
      BY <1>4, <1>7 DEF Passed
    <3> QED BY <1>1, <1>4, <1>9, <2>2, <3>1 DEF WorkSound
  <2> QED BY <2>1, <2>2
<1>11. IMore' /\ LostSound'
  BY <1>3 DEF ToldInv, IMore, LostSound
<1>12. Others(a[1]) /\ Moved(a[1], a)
  BY <1>2, ClientsRest DEF Moved
<1> QED BY <1>2, <1>5, <1>10, <1>11, <1>12, ToldMoves

LEMMA TLoops ==
  ASSUME ToldInv, NEW a \in Attempt, SkipSpan(a) \/ InsertSpan(a) \/ RejectSpan(a)
  PROVE  ToldInv'
<1>0. SInv'
  BY ISkips, IInserts DEF ToldInv
<1>1. DOMAIN named = Attempt /\ DOMAIN inserted = Attempt /\ Ingesting(a)
  BY DEF ToldInv, IMore, SInv, ITypes, SkipSpan, InsertSpan, RejectSpan
<1>2. PICK x : x = TheSpan(a)
  OBVIOUS
<1>3. CASE SkipSpan(a)
  <2>1. /\ x \notin Unscoped /\ stored[x] # {} /\ NextSpan(a) /\ batch' = batch /\ at' = at /\ told' = told
        /\ phase' = phase /\ inserted' = inserted /\ named' = named /\ lost' = lost /\ stored' = stored
    BY <1>2, <1>3 DEF SkipSpan
  <2>2. Passed(a, x)'
    BY <2>1 DEF Passed
  <2> QED BY <1>0, <1>1, <1>2, <2>1, <2>2, LoopAdvances
<1>4. CASE InsertSpan(a)
  <2>1. /\ x \notin Unscoped /\ NextSpan(a) /\ batch' = batch /\ at' = at /\ told' = told
        /\ phase' = phase /\ inserted' = [inserted EXCEPT ![a] = inserted[a] \cup {x}] /\ named' = named
        /\ lost' = lost /\ stored' = stored
    BY <1>1, <1>2, <1>4 DEF InsertSpan
  <2>2. inserted'[a] = inserted[a] \cup {x} /\ \A b \in Attempt \ {a} : inserted'[b] = inserted[b]
    BY <1>1, <2>1
  <2>3. Passed(a, x)'
    BY <2>1, <2>2 DEF Passed
  <2> QED BY <1>0, <1>1, <1>2, <2>1, <2>2, <2>3, LoopAdvances
<1>5. CASE RejectSpan(a)
  <2>1. /\ NextSpan(a) /\ batch' = batch /\ at' = at /\ told' = told
        /\ phase' = phase /\ inserted' = inserted /\ named' = [named EXCEPT ![a] = named[a] \cup {x}]
        /\ lost' = lost /\ stored' = stored
    BY <1>1, <1>2, <1>5 DEF RejectSpan
  <2>2. DOMAIN named' = Attempt /\ named'[a] = named[a] \cup {x} /\ \A b \in Attempt \ {a} : named'[b] = named[b]
    BY <1>1, <2>1
  <2>3. Passed(a, x)'
    BY <2>2 DEF Passed
  <2> QED BY <1>0, <1>1, <1>2, <2>1, <2>2, <2>3, LoopAdvances
<1> QED BY <1>3, <1>4, <1>5

\* The answer comes after the last span of the chunk.
LEMMA TAnswers ==
  ASSUME ToldInv, NEW a \in Attempt, AnswerSpans(a)
  PROVE  ToldInv'
<1>0. SInv'
  BY IAnswers DEF ToldInv
<1>1. /\ at \in Positions /\ told \in Results /\ phase \in [Attempt -> {"none", "sent", "ingest", "commit", "ended"}]
      /\ batch \in Batches /\ pos \in [Attempt -> Nat \ {0}] /\ WorkSound(a)
  BY DEF ToldInv, IMore, SInv, ITypes, Positions
<1>2. /\ phase[a] = "ingest" /\ pos[a] > Len(Unique(a)) /\ batch' = batch /\ pos' = pos /\ inserted' = inserted
      /\ named' = named /\ lost' = lost /\ stored' = stored /\ Deliver(a, 200)
  BY DEF AnswerSpans
<1>3. phase'[a] = "commit" /\ \A b \in Attempt \ {a} : phase'[b] = phase[b]
  BY <1>1 DEF AnswerSpans
<1>4. /\ a[1] \in Client /\ a[2] \in DOMAIN batch[a[1]] /\ IsFiniteSet(inserted[a]) /\ named[a] \subseteq Span
      /\ inserted[a] \cup named[a] \subseteq Range(Chunk(a))
  BY <1>2, AtWorkHolds
<1>5. ASSUME NEW s \in Range(Chunk(a)) PROVE s \notin Foreign /\ Passed(a, s)
  <2>1. PICK n \in 1 .. Len(Unique(a)) : Unique(a)[n] = s
    BY <1>1, <1>4, UniqueShape
  <2>2. Len(Unique(a)) \in Nat /\ pos[a] \in Nat
    BY <1>1, <1>4, UniqueShape
  <2>3. n < pos[a]
    BY <1>2, <2>1, <2>2
  <2> QED BY <1>1, <1>2, <2>1, <2>3 DEF WorkSound
<1>6. Complete(a)
  BY <1>2, <1>3, <1>4, <1>5 DEF Complete
<1>7. Others(a[1]) /\ Moved(a[1], a)
  <2>1. Others(a[1]) /\ (StaysPut(a[1]) \/ Retries(a[1]) \/ GivesUp(a[1]) \/ TakesAnswer(a[1], a))
    BY <1>1, <1>2, <1>4, DeliverTurns
  <2> QED BY <1>6, <2>1 DEF Moved
<1>8. Carries
  BY <1>2, <1>3 DEF Carries, Flushed
<1>9. IMore' /\ LostSound'
  BY <1>2, <1>7 DEF ToldInv, IMore, LostSound, Others
<1>10. ASSUME NEW b \in Attempt PROVE WorkSound(b)'
  <2>1. CASE b # a
    BY <1>2, <1>3, <1>8, <2>1, WorkStays
  <2>2. CASE b = a
    BY <1>2, <1>3, <1>4, <2>2 DEF WorkSound, Chunk
  <2> QED BY <2>1, <2>2
<1> QED BY <1>0, <1>4, <1>7, <1>8, <1>9, <1>10, ToldMoves

\* The session of attempt a ends.
LEMMA CloseEnds ==
  ASSUME ToldInv, NEW a \in Attempt, phase[a] # "none", Close(a, "ended"), Carries
  PROVE  /\ \A b \in Attempt : WorkSound(b)'
         /\ pos' \in [Attempt -> Nat \ {0}] /\ DOMAIN named' = Attempt
<1>1. SInv /\ pos \in [Attempt -> Nat \ {0}] /\ DOMAIN named = Attempt
  BY DEF ToldInv, IMore
<1>2. /\ phase'[a] = "ended" /\ inserted'[a] = {}
      /\ \A b \in Attempt \ {a} : phase'[b] = phase[b] /\ inserted'[b] = inserted[b]
  BY <1>1, ICloses
<1>3. pos' = [pos EXCEPT ![a] = 1] /\ named' = [named EXCEPT ![a] = {}]
  BY DEF Close
<1>4. /\ pos'[a] = 1 /\ named'[a] = {} /\ \A b \in Attempt \ {a} : pos'[b] = pos[b] /\ named'[b] = named[b]
      /\ pos' \in [Attempt -> Nat \ {0}] /\ DOMAIN named' = Attempt
  BY <1>1, <1>3
<1>5. a[2] \in DOMAIN batch[a[1]] /\ batch' = batch
  BY AtWorkHolds DEF Carries
<1>6. ASSUME NEW b \in Attempt PROVE WorkSound(b)'
  <2>1. CASE b # a
    BY <1>2, <1>4, <2>1, WorkStays
  <2>2. CASE b = a
    BY <1>2, <1>4, <1>5, <2>2 DEF WorkSound
  <2> QED BY <2>1, <2>2
<1> QED BY <1>4, <1>6

LEMMA TCommits ==
  ASSUME ToldInv, NEW a \in Attempt, CommitSpans(a)
  PROVE  ToldInv'
<1>0. SInv' /\ SInv
  BY ICommits DEF ToldInv
<1>1. /\ phase[a] = "commit" /\ Close(a, "ended") /\ batch' = batch /\ at' = at /\ told' = told /\ lost' = lost
      /\ stored' = [s \in Span |-> stored[s] \cup (IF s \in inserted[a] THEN {a} ELSE {})]
  BY <1>0 DEF CommitSpans, SInv, ITypes
<1>2. a[1] \in Client
  BY <1>1, AtWorkHolds
<1>3. \A b \in Attempt \ {a} : phase'[b] = phase[b] /\ inserted'[b] = inserted[b]
  BY <1>0, <1>1, ICloses
<1>4. Carries
  <2>1. ASSUME NEW b \in Attempt, NEW s \in Span, Flushed(b, s) PROVE Flushed(b, s)' \/ b \in stored'[s]
    BY <1>1, <1>3, <2>1 DEF Flushed
  <2> QED BY <1>1, <2>1 DEF Carries
<1>5. /\ \A b \in Attempt : WorkSound(b)'
      /\ pos' \in [Attempt -> Nat \ {0}] /\ DOMAIN named' = Attempt
  BY <1>1, <1>4, CloseEnds
<1>6. IMore' /\ LostSound'
  <2>1. \A s \in Span : stored'[s] \subseteq Attempt
    BY <1>1 DEF ToldInv, IMore
  <2> QED BY <1>1, <1>5, <2>1 DEF ToldInv, IMore, LostSound
<1>7. Others(a[1]) /\ Moved(a[1], a)
  BY <1>1, <1>2, ClientsRest DEF Moved
<1> QED BY <1>0, <1>2, <1>4, <1>5, <1>6, <1>7, ToldMoves

LEMMA TDies ==
  ASSUME ToldInv, NEW a \in Attempt, AttemptDies(a)
  PROVE  ToldInv'
<1>0. SInv' /\ SInv /\ at \in Positions /\ told \in Results
  BY IDies DEF ToldInv, SInv, ITypes, Positions, IMore
<1>1. /\ phase[a] # "none" /\ Close(a, "ended") /\ batch' = batch /\ stored' = stored /\ Deliver(a, 500)
      /\ lost' = lost \cup (IF phase[a] = "commit" THEN {<<a[1], a[2], s>> : s \in inserted[a]} ELSE {})
  BY DEF AttemptDies
<1>2. /\ a[1] \in Client /\ a[2] \in DOMAIN batch[a[1]] /\ IsFiniteSet(inserted[a]) /\ named[a] \subseteq Span
      /\ inserted[a] \subseteq Range(Chunk(a)) /\ Range(Chunk(a)) \subseteq Span
  BY <1>1, AtWorkHolds
<1>3. \A b \in Attempt \ {a} : phase'[b] = phase[b] /\ inserted'[b] = inserted[b]
  BY <1>0, <1>1, ICloses
<1>4. Carries
  <2>1. ASSUME NEW b \in Attempt, NEW s \in Span, Flushed(b, s) PROVE Flushed(b, s)' \/ <<b[1], b[2], s>> \in lost'
    <3>1. CASE b # a
      BY <1>3, <2>1, <3>1 DEF Flushed
    <3>2. CASE b = a
      BY <1>1, <2>1, <3>2 DEF Flushed
    <3> QED BY <3>1, <3>2
  <2> QED BY <1>1, <2>1 DEF Carries
<1>5. /\ \A b \in Attempt : WorkSound(b)'
      /\ pos' \in [Attempt -> Nat \ {0}] /\ DOMAIN named' = Attempt
  BY <1>1, <1>4, CloseEnds
<1>6. Others(a[1]) /\ Moved(a[1], a)
  <2>1. Others(a[1]) /\ (StaysPut(a[1]) \/ Retries(a[1]) \/ GivesUp(a[1]) \/ (500 = 200 /\ TakesAnswer(a[1], a)))
    BY <1>0, <1>1, <1>2, DeliverTurns
  <2> QED BY <2>1 DEF Moved
<1>7. IMore'
  BY <1>1, <1>5, <1>6 DEF ToldInv, IMore, Others
<1>8. LostSound'
  <2> SUFFICES ASSUME NEW l \in lost'
               PROVE  /\ l \in Client \X (1 .. MaxChunks) \X Span
                      /\ l[2] \in DOMAIN batch[l[1]] /\ l[3] \in Range(batch[l[1]][l[2]])
    BY <1>1 DEF LostSound
  <2>1. CASE l \in lost
    BY <2>1 DEF ToldInv, LostSound
  <2>2. CASE l \notin lost
    <3>1. PICK s \in inserted[a] : l = <<a[1], a[2], s>>
      BY <1>1, <2>2
    <3>2. s \in Span /\ s \in Range(batch[a[1]][a[2]]) /\ a[2] \in 1 .. MaxChunks
      BY <1>2 DEF Chunk, Attempt
    <3> QED BY <1>2, <3>1, <3>2
  <2> QED BY <2>1, <2>2
<1> QED BY <1>0, <1>2, <1>4, <1>5, <1>6, <1>7, <1>8, ToldMoves

LEMMA TRests ==
  ASSUME ToldInv, UNCHANGED ivars
  PROVE  ToldInv'
<1>1. /\ batch' = batch /\ at' = at /\ told' = told /\ phase' = phase /\ pos' = pos /\ inserted' = inserted
      /\ named' = named /\ lost' = lost /\ stored' = stored
  BY DEF ivars
<1>2. SInv' /\ IMore' /\ LostSound'
  BY <1>1, IStepInv DEF ToldInv, IMore, LostSound
<1>3. Carries
  BY <1>1 DEF Carries, Flushed
<1>4. \A b \in Attempt : WorkSound(b)'
  BY <1>1, <1>3, WorkStays
<1>5. CASE Client = {}
  BY <1>2, <1>4, <1>5 DEF ToldInv
<1>6. CASE Client # {}
  <2>1. PICK c \in Client : TRUE
    BY <1>6
  <2>2. Others(c) /\ Moved(c, c)
    BY <1>1, ClientsRest DEF Moved
  <2> QED BY <1>2, <1>3, <1>4, <2>2, ToldMoves
<1> QED BY <1>5, <1>6

LEMMA ToldSteps ==
  ASSUME ToldInv, [INext]_ivars
  PROVE  ToldInv'
<1>1. CASE UNCHANGED ivars
  BY <1>1, TRests
<1>2. CASE \E c \in Client : Post(c) \/ ClientTimeout(c)
  BY <1>2, TPosts, TTimesOut
<1>3. CASE \E a \in Attempt : ServerStep(a) \/ AttemptDies(a)
  BY <1>3, TChecks, TLoops, TAnswers, TCommits, TDies DEF ServerStep
<1> QED BY <1>1, <1>2, <1>3 DEF INext

LEMMA ToldInit ==
  ASSUME IInit
  PROVE  ToldInv
<1>1. SInv
  BY SInitInv
<1>2. IMore /\ LostSound
  <2>1. told \in Results
    <3>1. Nothing \in [ingested : Nat, named : SUBSET Span, failed : SUBSET Nat]
      BY DEF Nothing
    <3> QED BY <3>1 DEF IInit, Results
  <2> QED BY <2>1 DEF IInit, IMore, LostSound
<1>3. \A a \in Attempt : WorkSound(a)
  BY DEF IInit, WorkSound
<1>4. ASSUME NEW c \in Client PROVE ClientSound(c) /\ ChunksSound(c) /\ Counted(c)
  <2>1. at[c].chunk = 1 /\ at[c].attempt = 1 /\ at[c].waits = FALSE /\ told[c] = Nothing
    BY DEF IInit
  <2>2. Len(batch[c]) \in Nat /\ MaxAttempts \in Nat \ {0}
    BY BatchShape, BatchAssumption DEF IInit
  <2>3. ClientSound(c)
    BY <2>1, <2>2 DEF ClientSound, Nothing
  <2>4. ChunksSound(c)
    BY <2>1 DEF ChunksSound
  <2>5. CountedAs(c, {})
    BY <2>1, FS_EmptySet DEF CountedAs, Nothing
  <2> QED BY <2>3, <2>4, <2>5 DEF Counted
<1> QED BY <1>1, <1>2, <1>3, <1>4 DEF ToldInv

\* The result of a client that returned accounts for the spans of every chunk.
LEMMA ReturnedIsSettled ==
  ASSUME ToldInv, NEW c \in Client, Returned(c), NEW i \in DOMAIN batch[c], NEW s \in Range(batch[c][i]),
         i \notin told[c].failed
  PROVE  Settled(c, i, s)
<1>1. batch \in Batches /\ at[c].chunk \in 1 .. Len(batch[c]) + 1 /\ at[c].chunk > Len(batch[c])
  BY DEF ToldInv, IMore, ClientSound, Returned
<1>2. i \in 1 .. at[c].chunk - 1
  BY <1>1, BatchShape
<1> QED BY <1>2 DEF ToldInv, ChunksSound

LEMMA BatchSpansFinite ==
  ASSUME batch \in Batches, NEW c \in Client
  PROVE  IsFiniteSet(BatchSpans(c))
<1>1. PICK U : U = {Range(batch[c][i]) : i \in DOMAIN batch[c]}
  OBVIOUS
<1>2. IsFiniteSet(DOMAIN batch[c])
  BY BatchShape, FS_Interval
<1>3. PICK f : f = [i \in DOMAIN batch[c] |-> Range(batch[c][i])]
  OBVIOUS
<1>4. f \in Surjection(DOMAIN batch[c], U)
  BY <1>1, <1>3 DEF Surjection
<1>5. IsFiniteSet(U)
  BY <1>2, <1>4, FS_Surjection
<1>6. \A t \in U : IsFiniteSet(t)
  BY <1>1, BatchShape, RangeIsFinite
<1>7. IsFiniteSet(UNION U)
  BY <1>5, <1>6, FS_UNION
<1> QED BY <1>1, <1>7 DEF BatchSpans

LEMMA UnionBound ==
  ASSUME NEW S, NEW T, IsFiniteSet(S), IsFiniteSet(T)
  PROVE  IsFiniteSet(S \cup T) /\ Cardinality(S \cup T) <= Cardinality(S) + Cardinality(T)
<1>1. IsFiniteSet(S \cup T) /\ Cardinality(S \cup T) = Cardinality(S) + Cardinality(T) - Cardinality(S \cap T)
  BY FS_Union
<1>2. IsFiniteSet(S \cap T)
  BY FS_Intersection
<1>3. Cardinality(S) \in Nat /\ Cardinality(T) \in Nat /\ Cardinality(S \cap T) \in Nat
  BY <1>2, FS_CardinalityType
<1> QED BY <1>1, <1>3

\* What a client counted is no more than what can be found.
LEMMA CountIsCovered ==
  ASSUME ToldInv, NEW c \in Client, NEW A, NEW B, NEW D,
         A = {x \in Attempt \X BatchSpans(c) : x[1][1] = c /\ x[1] \in stored[x[2]]},
         B = {x \in Attempt \X BatchSpans(c) : x[1][1] = c /\ x[2] \in inserted[x[1]] /\ phase[x[1]] = "commit"},
         D = {l \in lost : l[1] = c}
  PROVE  told[c].ingested <= Cardinality(A) + Cardinality(B) + Cardinality(D)
<1>0. batch \in Batches /\ LostSound
  BY DEF ToldInv, IMore
<1>1. PICK S : S = BatchSpans(c)
  OBVIOUS
<1>2. IsFiniteSet(S) /\ IsFiniteSet(1 .. MaxChunks) /\ IsFiniteSet(1 .. MaxAttempts)
  BY <1>0, <1>1, BatchSpansFinite, BatchAssumption, FS_Interval
<1>3. IsFiniteSet((1 .. MaxChunks) \X (1 .. MaxAttempts)) /\ IsFiniteSet((1 .. MaxChunks) \X S)
  BY <1>2, FS_Product
<1>4. PICK Q : Q = ((1 .. MaxChunks) \X (1 .. MaxAttempts)) \X S
  OBVIOUS
<1>5. IsFiniteSet(Q)
  BY <1>2, <1>3, <1>4, FS_Product
<1>6. PICK P : P = {x \in Attempt \X S : x[1][1] = c}
  OBVIOUS
<1>7. IsFiniteSet(P)
  <2>1. PICK g : g = [x \in P |-> <<<<x[1][2], x[1][3]>>, x[2]>>]
    OBVIOUS
  <2>2. \A x \in P : x[1] \in Attempt /\ x[2] \in S /\ x[1][1] = c /\ x = <<x[1], x[2]>>
    BY <1>6
  <2>3. \A x \in P : /\ x[1][2] \in 1 .. MaxChunks /\ x[1][3] \in 1 .. MaxAttempts
                     /\ x[1] = <<c, x[1][2], x[1][3]>>
    <3>1. \A b \in Attempt : b[2] \in 1 .. MaxChunks /\ b[3] \in 1 .. MaxAttempts /\ b = <<b[1], b[2], b[3]>>
      BY DEF Attempt
    <3> QED BY <2>2, <3>1
  <2>4. g \in [P -> Q]
    BY <1>4, <2>1, <2>2, <2>3
  <2>5. ASSUME NEW x \in P, NEW y \in P, g[x] = g[y] PROVE x = y
    <3>1. x[1][2] = y[1][2] /\ x[1][3] = y[1][3] /\ x[2] = y[2]
      BY <2>1, <2>5
    <3> QED BY <2>2, <2>3, <3>1
  <2>6. g \in Injection(P, Q)
    BY <2>4, <2>5 DEF Injection, IsInjective
  <2> QED BY <1>5, <2>6, FS_Injection
<1>8. IsFiniteSet(A) /\ IsFiniteSet(B)
  <2>1. A \subseteq P /\ B \subseteq P
    BY <1>1, <1>6
  <2> QED BY <1>7, <2>1, FS_Subset
<1>9. IsFiniteSet(D)
  <2>1. PICK h : h = [l \in D |-> <<l[2], l[3]>>]
    OBVIOUS
  <2>2. \A l \in D : l[1] = c /\ l \in Client \X (1 .. MaxChunks) \X Span /\ l[2] \in DOMAIN batch[c] /\ l[3] \in Range(batch[c][l[2]])
    BY <1>0 DEF LostSound
  <2>3. \A l \in D : l[1] = c /\ l[2] \in 1 .. MaxChunks /\ l[3] \in S /\ l = <<c, l[2], l[3]>>
    BY <1>1, <2>2 DEF BatchSpans
  <2>4. h \in [D -> (1 .. MaxChunks) \X S]
    BY <2>1, <2>3
  <2>5. ASSUME NEW l \in D, NEW m \in D, h[l] = h[m] PROVE l = m
    <3>1. l[2] = m[2] /\ l[3] = m[3]
      BY <2>1, <2>5
    <3> QED BY <2>3, <3>1
  <2>6. h \in Injection(D, (1 .. MaxChunks) \X S)
    BY <2>4, <2>5 DEF Injection, IsInjective
  <2> QED BY <1>3, <2>6, FS_Injection
<1>10. PICK K : CountedAs(c, K)
  BY DEF ToldInv, Counted
<1>11. PICK R : R = K \ (A \cup B)
  OBVIOUS
<1>12. IsFiniteSet(R) /\ Cardinality(R) <= Cardinality(D)
  <2>1. PICK j : j = [x \in R |-> <<c, x[1][2], x[2]>>]
    OBVIOUS
  <2>2. \A x \in R : /\ x \in K /\ x \in Attempt \X BatchSpans(c) /\ x = <<x[1], x[2]>>
                     /\ <<c, x[1][2], x[2]>> \in D
    <3> SUFFICES ASSUME NEW x \in R
                 PROVE /\ x \in K /\ x \in Attempt \X BatchSpans(c) /\ x = <<x[1], x[2]>>
                       /\ <<c, x[1][2], x[2]>> \in D
      OBVIOUS
    <3>1. x \in K /\ x \in Attempt \X BatchSpans(c) /\ x = <<x[1], x[2]>> /\ x \notin A /\ x \notin B
      BY <1>10, <1>11 DEF CountedAs
    <3>2. x[1][1] = c /\ (x[1] \in stored[x[2]] \/ Flushed(x[1], x[2]) \/ <<c, x[1][2], x[2]>> \in lost)
      BY <1>10, <3>1 DEF CountedAs
    <3>3. <<c, x[1][2], x[2]>> \in lost
      BY <3>1, <3>2 DEF Flushed
    <3> QED BY <3>1, <3>3
  <2>3. j \in [R -> D]
    BY <2>1, <2>2
  <2>4. ASSUME NEW x \in R, NEW y \in R, j[x] = j[y] PROVE x = y
    <3>1. x[1][2] = y[1][2] /\ x[2] = y[2]
      BY <2>1, <2>4
    <3>2. x[1] = y[1]
      BY <1>10, <2>2, <3>1 DEF CountedAs
    <3> QED BY <2>2, <3>1, <3>2
  <2>5. j \in Injection(R, D)
    BY <2>3, <2>4 DEF Injection, IsInjective
  <2> QED BY <1>9, <2>5, FS_Injection
<1>13. Cardinality(K) <= Cardinality((A \cup B) \cup R)
  <2>1. K \subseteq (A \cup B) \cup R
    BY <1>11
  <2>2. IsFiniteSet((A \cup B) \cup R)
    BY <1>8, <1>12, UnionBound
  <2> QED BY <2>1, <2>2, FS_Subset
<1>14. /\ IsFiniteSet(A \cup B) /\ Cardinality(A \cup B) <= Cardinality(A) + Cardinality(B)
  BY <1>8, UnionBound
<1>15. IsFiniteSet((A \cup B) \cup R) /\ Cardinality((A \cup B) \cup R) <= Cardinality(A \cup B) + Cardinality(R)
  BY <1>12, <1>14, UnionBound
<1>16. IsFiniteSet(K) /\ Cardinality(K) = told[c].ingested
  BY <1>10 DEF CountedAs
<1>17. /\ Cardinality(K) \in Nat /\ Cardinality(A) \in Nat /\ Cardinality(B) \in Nat /\ Cardinality(D) \in Nat
       /\ Cardinality(R) \in Nat /\ Cardinality(A \cup B) \in Nat /\ Cardinality((A \cup B) \cup R) \in Nat
  BY <1>8, <1>9, <1>12, <1>14, <1>15, <1>16, FS_CardinalityType
<1> QED BY <1>12, <1>13, <1>14, <1>15, <1>16, <1>17

LEMMA ToldIsAccounted ==
  ASSUME ToldInv
  PROVE  SpansAreAccounted
<1>0. SInv /\ IMore /\ LostSound /\ batch \in Batches
  BY DEF ToldInv, IMore
<1>1. ITypeOK
  <2>1. ASSUME NEW c \in Client
        PROVE  /\ at[c].chunk \in 1 .. Len(batch[c]) + 1 /\ at[c].attempt \in 1 .. MaxAttempts
               /\ told[c].failed \subseteq 1 .. Len(batch[c]) /\ told[c].ingested \in Nat
    <3>1. ClientSound(c) /\ told[c].ingested \in Nat /\ Len(batch[c]) \in Nat
      BY <1>0, BatchShape DEF ToldInv, IMore, Results
    <3> QED BY <3>1 DEF ClientSound
  <2>2. phase \in [Attempt -> {"none", "sent", "ingest", "commit", "ended"}] /\ DOMAIN stored = Span
    BY <1>0 DEF SInv, ITypes
  <2>3. lost \subseteq Client \X (1 .. MaxChunks) \X Span
    BY <1>0 DEF LostSound
  <2>4. \A a \in Attempt : phase[a] # "none" => inserted[a] \cup named[a] \subseteq Range(Chunk(a))
    BY DEF ToldInv, WorkSound
  <2>5. \A s \in DOMAIN stored : stored[s] \subseteq Attempt
    BY <1>0, <2>2 DEF IMore
  <2> QED BY <2>1, <2>2, <2>3, <2>4, <2>5 DEF ITypeOK
<1>2. StoredOnce
  BY <1>0, AtMostOne DEF StoredOnce, SInv, ITypes, SpanSound
<1>3. NothingDropped
  <2> SUFFICES ASSUME NEW c \in Client, Returned(c), NEW i \in DOMAIN batch[c], NEW s \in Range(batch[c][i])
               PROVE  \/ stored[s] # {}
                      \/ s \in told[c].named \/ i \in told[c].failed
                      \/ <<c, i, s>> \in lost \/ \E a \in Attempt : s \in inserted[a] /\ phase[a] = "commit"
    BY DEF NothingDropped
  <2> QED BY ReturnedIsSettled DEF Settled, Flushed
<1>4. SuccessIsClean
  <2> SUFFICES ASSUME NEW c \in Client, Returned(c), Status(c) = "SUCCESS", NEW s \in BatchSpans(c)
               PROVE  s \notin Foreign /\ s \notin Unscoped
    BY DEF SuccessIsClean
  <2>1. told[c].failed = {} /\ told[c].named = {}
    BY DEF Status
  <2>2. PICK i \in DOMAIN batch[c] : s \in Range(batch[c][i])
    BY DEF BatchSpans
  <2>3. Settled(c, i, s)
    BY <2>1, <2>2, ReturnedIsSettled
  <2> QED BY <2>1, <2>3 DEF Settled
<1>5. CountsOnce
  BY CountIsCovered DEF CountsOnce
<1> QED BY <1>1, <1>2, <1>3, <1>4, <1>5 DEF SpansAreAccounted

-----------------------------------------------------------------------------
(***************************************************************************)
(* The components together (MCApi): every initial state is one of each     *)
(* component, every step is a step of one of them or leaves it alone.      *)
(***************************************************************************)
LEMMA ApiInitial ==
  ASSUME Init
  PROVE  RInit /\ IInit /\ JInit /\ WJInit /\ AInit /\ BInit
  BY DEF Init, RIdle, IIdle, JIdle, WJIdle, AIdle, BIdle

LEMMA ApiSteps ==
  ASSUME [Next]_allVars
  PROVE  /\ [RNext]_rvars /\ [INext]_ivars /\ [JNext]_jvars
         /\ [WJNext]_wvars /\ [ANext]_avars /\ [BNext]_bvars
<1>1. CASE UNCHANGED allVars
  BY <1>1 DEF allVars
<1>2. CASE Next
  BY <1>2 DEF Next
<1> QED BY <1>1, <1>2

\* Jobs in process and on the queue (jobs/orchestrator.py, worker.py): however awaits,
\* cancellations, crashes and redeliveries interleave, a status is never better than
\* what was done, an accepted cancellation holds and is the only one, and no quarantine
\* stands without a request to decide about it.
THEOREM JobsStayHonest == ApiSpec => []JobsAreHonest
<1> DEFINE Inv == JInv /\ WInv
<1>1. Init => Inv
  BY ApiInitial, JInitInv, WInitInv
<1>2. Inv /\ [Next]_allVars => Inv'
  BY ApiSteps, JStepInv, WStepInv
<1>3. Inv => JobsAreHonest
  BY JInvJobs, WInvJobs DEF JobsAreHonest
<1> QED BY <1>1, <1>2, <1>3, PTL DEF ApiSpec

\* Statuses (runs.py:1369, worker.py:145 to :171, routes/recovery.py:188), whatever runs
\* in between: a final status of a run stays; a decided request is written over only by
\* a decider that read it pending; a cancelled job only by a delivery that starts or
\* fails, and never by completed once the cancellation was read.
THEOREM StatusesAreKept == ApiSpec => StatusesStand
<1> DEFINE Inv == RInv /\ WInv /\ AInv
           RKeep == \A r \in Run : runs[r].status \in FinalStatus => runs'[r].status = runs[r].status
           WKeep == \A j \in Job : jrow[j] = "cancelled" /\ jrow'[j] # "cancelled" =>
                      \/ jrow'[j] = "running" /\ wpc[j] = "sent"
                      \/ jrow'[j] = "failed" /\ wpc[j] = "fail"
                      \/ jrow'[j] = "completed" /\ wpc[j] = "finish" /\ looked[j] # "cancelled"
           AKeep == \A r \in Approval : status[r] # "pending" /\ status'[r] # status[r] => r \in raced'
<1>1. Init => Inv
  BY ApiInitial, RInitInv, WInitInv, AInitInv
<1>2. Inv /\ [Next]_allVars => Inv'
  BY ApiSteps, RStepInv, WStepInv, AStepInv
<1>3. Inv /\ [Next]_allVars => [RKeep]_rvars /\ [WKeep]_wvars /\ [AKeep]_avars
  BY ApiSteps, RStepInv, WStepInv, AStepInv DEF FinalKept, OvertakenOnly, DecidedStays
<1>4. Init /\ [][Next]_allVars => [][RKeep]_rvars /\ [][WKeep]_wvars /\ [][AKeep]_avars
  BY <1>1, <1>2, <1>3, PTL
<1> QED BY <1>4 DEF ApiSpec, StatusesStand, FinalIsFinal, CancelOvertaken, FinalDecision

\* What decisions stand on (routes/recovery.py, bcrb/orchestrator.py): a certificate on
\* the one human decision that was that human's to make, unless a race is on record; a
\* root cause of generate_diagnosis on a canary that was measured and is the best of
\* those tested.
THEOREM DecisionsStayBacked == ApiSpec => []DecisionsAreBacked
<1> DEFINE Inv == AInv /\ BInv
<1>1. Init => Inv
  BY ApiInitial, AInitInv, BInitInv
<1>2. Inv /\ [Next]_allVars => Inv'
  BY ApiSteps, AStepInv, BStepInv
<1>3. Inv => DecisionsAreBacked
  BY AInvDecisions, BInvSession DEF DecisionsAreBacked
<1> QED BY <1>1, <1>2, <1>3, PTL DEF ApiSpec

\* batch_spans (client.py:66) against ingest_spans (services/ingestion.py:53), for any
\* clients, batches and numbers of attempts: a span is stored once; when the client
\* returns, every span of its batch is stored, named, failed, or flushed by the attempt
\* that answered for it; a SUCCESS covers no refused chunk; and no span is counted twice.
THEOREM SpansStayAccounted == ApiSpec => []SpansAreAccounted
<1>1. Init => ToldInv
  BY ApiInitial, ToldInit
<1>2. ToldInv /\ [Next]_allVars => ToldInv'
  BY ApiSteps, ToldSteps
<1>3. ToldInv => SpansAreAccounted
  BY ToldIsAccounted
<1> QED BY <1>1, <1>2, <1>3, PTL DEF ApiSpec
================================================================================
