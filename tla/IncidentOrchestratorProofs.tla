---------------------- MODULE IncidentOrchestratorProofs ----------------------
(***************************************************************************)
(* process_incident recovers on evidence only, fails closed and keeps to   *)
(* its budget, for any incidents, candidates, costs and budgets.           *)
(*                                                                         *)
(* None of the three is inductive alone.  Where the active incident stands *)
(* (Staged) says which of its steps may come next; an outcome "confirmed"  *)
(* must be known to rest on evidence before it is acted upon               *)
(* (OutcomeIsEarned); and the budget may be overrun by the last replay     *)
(* only because a reservation was taken within it (ReservedInBudget).      *)
(***************************************************************************)
EXTENDS IncidentOrchestrator, FiniteSetTheorems, TLAPS

\* Where the call of process_incident stands; a replay is under way only in the
\* loop.
Staged ==
  /\ active # NoIncident =>
       status[active] = "replaying" \/ (status[active] \in Recovering /\ outcome = "confirmed")
  /\ experiment # NoCandidate => active # NoIncident /\ outcome = "none"

\* The loop ends confirmed only with evidence of the incident itself and the
\* minimum over all of them.
OutcomeIsEarned ==
  active # NoIncident /\ outcome = "confirmed" =>
    evidence[active] >= 1 /\ iterations >= MinReplays

\* A reservation is only taken within the budget.
ReservedInBudget == experiment # NoCandidate => spent + reserved <= Budget

\* Every validated replay is counted once by the stopping rule.
Counted == IsFiniteSet(Validated) /\ iterations = Cardinality(Validated)

Supported ==
  \A i \in Incident : status[i] \in Recovering => evidence[i] >= 1 /\ iterations >= MinReplays

Inv ==
  /\ TypeOK /\ Staged /\ OutcomeIsEarned /\ Supported /\ Counted
  /\ FailsClosed /\ ReservedInBudget /\ BudgetHolds

\* The sets of statuses do not overlap where the proofs tell them apart.
LEMMA StatusFacts ==
  /\ Recovering \subseteq IncidentStatus /\ Final \subseteq IncidentStatus
  /\ Recovering \cap ({"observing", "replaying"} \cup Final) = {}
  /\ {"observing", "replaying"} \subseteq IncidentStatus
  BY DEF IncidentStatus, Recovering, Final

\* The initial state satisfies the invariant: nothing was validated yet.
LEMMA InitInv == Init => Inv
<1> SUFFICES ASSUME Init PROVE Inv
  OBVIOUS
<1>1. TypeOK
  BY DEF Init, TypeOK, IncidentStatus
<1>2. Validated = {}
  BY DEF Init, Validated
<1>3. Counted
  BY <1>2, FS_EmptySet DEF Init, Counted
<1>4. Staged /\ OutcomeIsEarned /\ Supported /\ FailsClosed /\ ReservedInBudget /\ BudgetHolds
  BY ResourceAssumption DEF Init, Staged, OutcomeIsEarned, Supported, FailsClosed,
     ReservedInBudget, BudgetHolds, Recovering, Final
<1> QED
  BY <1>1, <1>3, <1>4 DEF Inv

\* A step that leaves the evidence alone leaves the count alone.
LEMMA CountKept ==
  ASSUME Counted, UNCHANGED <<evidence, iterations>>
  PROVE  Counted'
<1>1. Validated' = Validated
  BY DEF Validated
<1> QED
  BY <1>1 DEF Counted

\* One more validated replay of an incident is one more element.
LEMMA CountGrows ==
  ASSUME TypeOK, Counted, NEW i \in Incident,
         evidence' = [evidence EXCEPT ![i] = @ + 1], iterations' = iterations + 1
  PROVE  Counted'
<1> DEFINE n == evidence[i] + 1
<1>1. evidence[i] \in Nat /\ evidence'[i] = n /\ \A j \in Incident \ {i} : evidence'[j] = evidence[j]
  BY DEF TypeOK
<1>2. 1 .. n = (1 .. evidence[i]) \cup {n}
  BY <1>1
<1>3. Validated' = Validated \cup {<<i, n>>}
  <2>1. ASSUME NEW x \in Validated' PROVE x \in Validated \cup {<<i, n>>}
    <3>1. PICK j \in Incident : x \in {j} \X (1 .. evidence'[j])
      BY <2>1 DEF Validated
    <3>2. CASE j = i
      BY <1>1, <1>2, <3>1, <3>2 DEF Validated
    <3>3. CASE j # i
      BY <1>1, <3>1, <3>3 DEF Validated
    <3> QED BY <3>2, <3>3
  <2>2. ASSUME NEW x \in Validated PROVE x \in Validated'
    <3>1. PICK j \in Incident : x \in {j} \X (1 .. evidence[j])
      BY <2>2 DEF Validated
    <3>2. x \in {j} \X (1 .. evidence'[j])
      BY <1>1, <1>2, <3>1
    <3> QED BY <3>2 DEF Validated
  <2>3. <<i, n>> \in Validated'
    <3>1. <<i, n>> \in {i} \X (1 .. evidence'[i])
      BY <1>1
    <3> QED BY <3>1 DEF Validated
  <2> QED BY <2>1, <2>2, <2>3
<1>4. <<i, n>> \notin Validated
  BY <1>1 DEF Validated
<1>5. IsFiniteSet(Validated') /\ Cardinality(Validated') = Cardinality(Validated) + 1
  BY <1>3, <1>4, FS_AddElement DEF Counted
<1> QED
  BY <1>5 DEF Counted

\* The loop's own steps, which plan or stop, and the clock: status and evidence
\* stay.
LEMMA LoopStep ==
  ASSUME Inv, Stop \/ Exhaust \/ TimePasses \/ \E c \in Candidate : Plan(c)
  PROVE  Inv'
<1> USE ResourceAssumption, CandidateAssumption DEF Inv
<1>1. UNCHANGED <<status, evidence, active, iterations, belief, spent, remaining>>
  BY DEF Stop, Exhaust, TimePasses, Plan, resources, shared, local
<1>2. Counted' /\ Supported' /\ FailsClosed'
  BY <1>1, CountKept DEF Supported, FailsClosed
<1>3. CASE Stop \/ Exhaust
  <2>1. UNCHANGED <<experiment, resources, shared>>
    BY <1>3 DEF Stop, Exhaust
  <2>2. /\ outcome' \in Outcome
        /\ outcome' = "confirmed" => evidence[active] >= 1 /\ iterations >= MinReplays
    <3>1. active \in Incident /\ evidence[active] \in Nat
      BY <1>3 DEF Stop, Exhaust, Looping, TypeOK
    <3>2. CASE Stop
      BY <3>1, <3>2 DEF Stop, MayStop, Sufficient, Outcome
    <3>3. CASE Exhaust
      BY <3>1, <3>3 DEF Exhaust, Sufficient, Outcome
    <3> QED BY <1>3, <3>2, <3>3
  <2>3. TypeOK'
    BY <1>1, <2>1, <2>2 DEF TypeOK, resources, shared
  <2>4. Staged' /\ OutcomeIsEarned' /\ ReservedInBudget' /\ BudgetHolds'
    BY <1>1, <1>3, <2>1, <2>2 DEF Stop, Exhaust, Looping, Staged, OutcomeIsEarned,
       ReservedInBudget, BudgetHolds, resources
  <2> QED BY <1>2, <2>3, <2>4
<1>4. CASE TimePasses
  BY <1>1, <1>2, <1>4 DEF TimePasses, TypeOK, Staged, OutcomeIsEarned, ReservedInBudget,
     BudgetHolds, local, shared
<1>5. ASSUME NEW c \in Candidate, Plan(c) PROVE Inv'
  <2>1. /\ reserved = 0 /\ reserved' = Cost[c] /\ Cost[c] \in Nat
        /\ spent + Cost[c] <= Budget /\ c # NoCandidate
    BY <1>5 DEF Plan, Looping, Reservable, BudgetHolds, TypeOK
  <2>2. TypeOK'
    BY <1>1, <1>5, <2>1 DEF Plan, TypeOK
  <2>3. ReservedInBudget' /\ BudgetHolds'
    BY <1>1, <1>5, <2>1 DEF Plan, ReservedInBudget, BudgetHolds, TypeOK
  <2>4. Staged' /\ OutcomeIsEarned'
    BY <1>1, <1>5 DEF Plan, Looping, Staged, OutcomeIsEarned
  <2> QED BY <1>2, <2>2, <2>3, <2>4
<1> QED BY <1>3, <1>4, <1>5

\* A replay raises, diverges or confirms: the reservation is settled, and what it
\* cost beyond the estimate is bounded.
LEMMA ReplayStep ==
  ASSUME Inv, ExecuteFails \/ ExecuteDiverges \/ ExecuteConfirms
  PROVE  Inv'
<1> USE ResourceAssumption, CandidateAssumption, StatusFacts DEF Inv
<1> DEFINE c == experiment
<1>1. /\ c \in Candidate /\ active \in Incident /\ active # NoIncident
      /\ Cost[c] \in Nat \ {0} /\ reserved = Cost[c] /\ spent + Cost[c] <= Budget
  BY DEF ExecuteFails, ExecuteDiverges, ExecuteConfirms, TypeOK, Staged, BudgetHolds,
     ReservedInBudget
<1>2. /\ experiment' = NoCandidate /\ reserved' = 0
      /\ spent' \in Nat /\ spent' <= Budget + MaxOverrun
      /\ replays' \in Nat /\ remaining' \in SUBSET Candidate
  <2>1. CASE ExecuteFails
    BY <1>1, <2>1 DEF ExecuteFails, TypeOK
  <2>2. CASE Reconcile
    <3>1. PICK actual \in 1 .. Cost[c] + MaxOverrun : spent' = spent + actual
      BY <2>2 DEF Reconcile
    <3> QED BY <1>1, <2>2, <3>1 DEF Reconcile, TypeOK
  <2> QED BY <2>1, <2>2 DEF ExecuteDiverges, ExecuteConfirms
<1>3. ReservedInBudget' /\ BudgetHolds'
  <2>1. \A x, y : x \in Nat /\ y = 0 => x + y = x
    OBVIOUS
  <2>2. spent' + reserved' <= Budget + MaxOverrun
    BY <1>2, <2>1, Zenon
  <2> QED
    BY <1>2, <2>2 DEF ReservedInBudget, BudgetHolds
<1>4. CASE ExecuteFails \/ ExecuteDiverges
  <2>1. UNCHANGED <<evidence, outcome, timeUp, shared>>
    BY <1>4 DEF ExecuteFails, ExecuteDiverges
  <2>2. \/ UNCHANGED <<status, active>>
        \/ /\ active' = NoIncident
           /\ \E s \in Final : status' = [status EXCEPT ![active] = s]
    BY <1>4 DEF ExecuteFails, ExecuteDiverges, Finish, Final
  <2>3. TypeOK'
    BY <1>1, <1>2, <2>1, <2>2 DEF TypeOK, shared
  <2>4. Counted'
    BY <2>1, CountKept DEF shared
  <2>5. Staged' /\ OutcomeIsEarned' /\ Supported' /\ FailsClosed'
    BY <1>1, <1>2, <2>1, <2>2 DEF TypeOK, Staged, OutcomeIsEarned, Supported, FailsClosed, shared
  <2> QED BY <1>3, <2>3, <2>4, <2>5
<1>5. CASE ExecuteConfirms
  <2>1. /\ UNCHANGED <<status, active, outcome, timeUp, tested>>
        /\ evidence' = [evidence EXCEPT ![active] = @ + 1]
        /\ iterations' = iterations + 1
        /\ belief' \in {"open", "confident", "converged"}
    BY <1>5 DEF ExecuteConfirms
  <2>2. TypeOK'
    BY <1>1, <1>2, <2>1 DEF TypeOK
  <2>3. Counted'
    BY <1>1, <2>1, CountGrows
  <2>4. \A i \in Incident : evidence'[i] >= evidence[i] /\ iterations' >= iterations
    BY <1>1, <2>1 DEF TypeOK
  <2>5. Staged' /\ OutcomeIsEarned' /\ Supported' /\ FailsClosed'
    BY <1>1, <1>2, <2>1, <2>2, <2>4 DEF TypeOK, Staged, OutcomeIsEarned, Supported, FailsClosed
  <2> QED BY <1>3, <2>2, <2>3, <2>5
<1> QED BY <1>4, <1>5

\* The stages after the loop: recovery begins on a confirmed outcome, and every
\* other way out is final.
LEMMA StageStep ==
  ASSUME Inv, Conclude \/ PlanRecovery \/ Canary \/ \E s \in Stages : Recover(s[1], s[2])
  PROVE  Inv'
<1> USE StatusFacts DEF Inv
<1>1. UNCHANGED <<evidence, local, resources, shared>> /\ active \in Incident /\ active # NoIncident
  BY DEF Conclude, PlanRecovery, Canary, Recover, TypeOK
<1>2. \/ /\ active' = active
         /\ \E s \in Recovering : status' = [status EXCEPT ![active] = s]
         /\ status[active] \in Recovering \/ outcome = "confirmed"
      \/ active' = NoIncident /\ \E s \in Final : status' = [status EXCEPT ![active] = s]
  <2>1. CASE Conclude
    BY <2>1 DEF Conclude, GoTo, Finish, Recovering, Final
  <2>2. CASE PlanRecovery
    BY <2>2 DEF PlanRecovery, GoTo, Recovering
  <2>3. CASE Canary
    BY <2>3 DEF Canary, Finish, Final
  <2>4. ASSUME NEW s \in Stages, Recover(s[1], s[2])
        PROVE  \/ /\ active' = active
                  /\ \E t \in Recovering : status' = [status EXCEPT ![active] = t]
                  /\ status[active] \in Recovering
               \/ active' = NoIncident /\ \E t \in Final : status' = [status EXCEPT ![active] = t]
    <3>1. s[1] \in Recovering /\ s[2] \in Recovering
      BY DEF Stages, Recovering
    <3> QED BY <2>4, <3>1 DEF Recover, GoTo, Finish, Final
  <2> QED BY <2>1, <2>2, <2>3, <2>4
<1>3. TypeOK'
  BY <1>1, <1>2 DEF TypeOK, local, resources, shared
<1>4. Counted' /\ ReservedInBudget' /\ BudgetHolds'
  BY <1>1, CountKept DEF ReservedInBudget, BudgetHolds, local, resources, shared
<1>5. experiment = NoCandidate /\ (status[active] \in Recovering => outcome = "confirmed")
  BY DEF Conclude, PlanRecovery, Canary, Recover, Staged, Stages
<1>6. Staged' /\ OutcomeIsEarned' /\ Supported' /\ FailsClosed'
  <2>1. UNCHANGED <<evidence, outcome, experiment, iterations>>
    BY <1>1 DEF local, shared
  <2> QED
    BY <1>1, <1>2, <1>5, <2>1 DEF TypeOK, Staged, OutcomeIsEarned, Supported, FailsClosed
<1> QED BY <1>3, <1>4, <1>6

\* process_incident is called: it closes the incident at once or enters the loop
\* with a fresh resource context.
LEMMA BeginStep ==
  ASSUME Inv, NEW i \in Incident, Begin(i)
  PROVE  Inv'
<1> USE ResourceAssumption, CandidateAssumption, StatusFacts DEF Inv
<1>1. /\ UNCHANGED <<evidence, experiment, shared>> /\ active = NoIncident
      /\ spent' = 0 /\ reserved' = 0 /\ replays' = 0 /\ timeUp' = FALSE /\ outcome' = "none"
      /\ experiment = NoCandidate
  BY DEF Begin, Staged
<1>2. \/ /\ \E s \in Final : status' = [status EXCEPT ![i] = s]
         /\ UNCHANGED <<active, remaining>>
      \/ /\ status' = [status EXCEPT ![i] = "replaying"]
         /\ active' = i /\ remaining' = CandidatesOf[i]
  BY DEF Begin, Final
<1>3. TypeOK'
  BY <1>1, <1>2 DEF TypeOK, shared
<1>4. Counted' /\ ReservedInBudget' /\ BudgetHolds'
  BY <1>1, CountKept DEF ReservedInBudget, BudgetHolds, shared
<1>5. Staged' /\ OutcomeIsEarned' /\ Supported' /\ FailsClosed'
  BY <1>1, <1>2 DEF TypeOK, Staged, OutcomeIsEarned, Supported, FailsClosed, shared
<1> QED BY <1>3, <1>4, <1>5

\* Every step keeps the invariant.
LEMMA NextInv == Inv /\ [Next]_vars => Inv'
<1> SUFFICES ASSUME Inv, [Next]_vars PROVE Inv'
  OBVIOUS
<1>1. CASE UNCHANGED vars
  <2>1. UNCHANGED <<status, evidence, active, experiment, remaining, outcome, spent, reserved,
                    replays, timeUp, tested, iterations, belief>>
    BY <1>1 DEF vars, local, resources, shared
  <2>2. Counted'
    BY <2>1, CountKept DEF Inv
  <2> QED
    BY <2>1, <2>2 DEF Inv, TypeOK, Staged, OutcomeIsEarned, Supported, FailsClosed,
       ReservedInBudget, BudgetHolds
<1> QED
  BY <1>1, LoopStep, ReplayStep, StageStep, BeginStep DEF Next, Process

\* The invariant holds in every reachable state.
LEMMA Invariant == Spec => []Inv
  BY InitInv, NextInv, PTL DEF Spec

\* Recovery begins only on validated evidence: of the incident itself, and of the
\* minimum that the stopping rule counts over all incidents of the orchestrator.
THEOREM EvidenceBeforeRecovery == Spec => []EvidenceComesFirst
<1>1. Inv => EvidenceComesFirst
  BY DEF Inv, EvidenceComesFirst, RecoveryNeedsEvidence, MinimumEvidence, Supported, Counted
<1> QED BY Invariant, <1>1, PTL

\* process_incident leaves no incident half way.
THEOREM IncidentsFailClosed == Spec => []FailsClosed
<1>1. Inv => FailsClosed
  BY DEF Inv
<1> QED BY Invariant, <1>1, PTL

\* The budget is exceeded by the overrun of the last replay at most.
THEOREM BudgetIsKept == Spec => []BudgetHolds
<1>1. Inv => BudgetHolds
  BY DEF Inv
<1> QED BY Invariant, <1>1, PTL
=============================================================================
