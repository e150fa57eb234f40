------------------------- MODULE RecoveryEngineProofs -------------------------
(***************************************************************************)
(* What a recovery run leaves behind, for any proposals, settings, engine  *)
(* configurations and number of runs.                                      *)
(*                                                                         *)
(* The properties speak of proposals between runs; the invariant adds what *)
(* holds inside one.  Running says, for every step of run, which status    *)
(* the machine has (or that its timeout forced it into COMPENSATING), what *)
(* the policy let through, and how the settings relate to those the run    *)
(* found.  Settled says what a run leaves of the proposals not running.    *)
(***************************************************************************)
EXTENDS RecoveryEngine, SequenceTheorems, FiniteSetTheorems, TLAPS

\* Policy let the proposal through.
Cleared(p) ==
  /\ Info[p].decision # "deny" /\ Info[p].mode # "dry_run"
  /\ Info[p].decision = "needs_approval" => p \in approved

\* The machine is where the run took it, or where its timeout forced it.
At(status) ==
  machine[active] = status \/ (machine[active] = "compensating" /\ active \in late)

\* The settings are those of the beginning, but for the one that the only capsule
\* of the proposal can restore.
CoveredBy(p, i) ==
  /\ CapsulesOf(p) = {i} /\ capsules[i].status = "active"
  /\ capsules[i].previous = before[capsules[i].setting]
  /\ \E v \in Value : live = [before EXCEPT ![capsules[i].setting] = v]
Recoverable(p) ==
  \/ CapsulesOf(p) = {} /\ live = before
  \/ \E i \in DOMAIN capsules : CoveredBy(p, i)

\* The idempotency key stands for the one application there was.
Accounted(p) ==
  /\ applied[p] = IF p \in used THEN 1 ELSE 0
  /\ p \in used => CapsulesOf(p) # {} /\ Cleared(p)

\* What holds of a proposal that is not running.
Settled(p) ==
  /\ machine[p] = "committed" /\ Info[p].mode # "dry_run" => verdict[p] = "pass" /\ p \in used
  /\ p \in raised =>
       \/ Info[p].mode = "dry_run"
       \/ CapsulesOf(p) # {} /\ (machine[p] = "verifying" => verdict[p] = "fail" /\ ~AutoCompensate)
  /\ machine[p] = "compensating" => p \in late \cup raised

\* The steps before anything was executed, and those that follow the execution.
Early == {"policy", "dry_prepared", "dry_execute", "dry_verified", "certificate", "execute"}
Late == {"verify", "canary", "compensate", "rollback"}

\* What holds of the active run.
Running ==
  /\ active \in Proposal \ raised
  /\ pc = "policy" => machine[active] = "policy_checking"
  /\ pc \in {"dry_prepared", "certificate"} => At("preparing")
  /\ pc \in {"dry_execute", "execute", "verify"} => At("executing")
  /\ pc \in {"dry_verified", "canary"} => At("verifying")
  /\ pc = "compensate" => At("executing") \/ At("verifying")
  /\ pc = "rollback" => machine[active] = "compensating"
  /\ pc \in {"dry_prepared", "dry_execute", "dry_verified"} => Info[active].mode = "dry_run"
  /\ pc \in Late \cup {"certificate", "execute"} => Cleared(active)
  /\ pc = "execute" => CapsulesOf(active) = {}
  /\ pc \in {"verify", "canary"} => active \in used
  /\ pc \in Early => live = before
  /\ pc \in Late => Recoverable(active)

Inv ==
  /\ TypeOK
  /\ \A p \in Proposal : Accounted(p)
  /\ \A p \in Proposal \ {active} : Settled(p)
  /\ pc # "idle" => Running

\* How a run may end: what it changed is undone or covered by an unused capsule.
EndsWell(p) ==
  /\ machine'[p] = "compensated" => live' = before
  /\ machine'[p] = "failed" /\ CapsulesOf(p) = {} => live' = before
  /\ live' # before =>
       \E i \in CapsulesOf(p)' :
         capsules'[i].status = "active" /\ capsules'[i].previous = before[capsules'[i].setting]

-----------------------------------------------------------------------------
\* The table of the state machine, as far as run relies on it.
LEMMA Edges ==
  /\ {"pending_approval", "preparing", "failed"} \subseteq AllowedTransitions["policy_checking"]
  /\ {"executing", "failed"} \subseteq AllowedTransitions["preparing"]
  /\ {"verifying", "compensating"} \subseteq AllowedTransitions["executing"]
  /\ {"committed", "compensating"} \subseteq AllowedTransitions["verifying"]
  /\ "failed" \notin AllowedTransitions["verifying"]
  /\ {"compensated", "failed"} \subseteq AllowedTransitions["compensating"]
  /\ {"policy_checking", "preparing", "executing", "verifying", "compensating"}
       \subseteq DOMAIN AllowedTransitions
  BY DEF AllowedTransitions

\* No edge of the table is called "raise", and none leaves a terminal state.
LEMMA TableFacts ==
  ASSUME NEW from \in DOMAIN AllowedTransitions
  PROVE  /\ from \notin TerminalStates
         /\ AllowedTransitions[from] \subseteq RecoveryStatus
         /\ "raise" \notin AllowedTransitions[from]
         /\ "none" \notin AllowedTransitions[from]
  BY DEF AllowedTransitions, TerminalStates, RecoveryStatus

\* transition along an edge of the table: the machine arrives, or its timeout
\* forces it; either way run goes on.
LEMMA Moves ==
  ASSUME NEW p \in Proposal, active = p, machine \in [Proposal -> RecoveryStatus \cup {"none"}],
         NEW from \in DOMAIN AllowedTransitions, NEW to \in AllowedTransitions[from], NEW next,
         machine[p] = from \/ (machine[p] = "compensating" /\ p \in late),
         Move(to, next)
  PROVE  /\ machine' = [machine EXCEPT ![p] = IF p \in late THEN "compensating" ELSE to]
         /\ machine' \in [Proposal -> RecoveryStatus \cup {"none"}]
         /\ raised' = raised
         /\ next = "return" => Return
         /\ next # "return" => pc' = next /\ active' = p
<1>1. /\ from \notin TerminalStates /\ to # "raise" /\ to \in RecoveryStatus
      /\ "compensating" \notin TerminalStates /\ "compensating" \in RecoveryStatus
  BY TableFacts, Edges DEF RecoveryStatus
<1>2. Transition(p, to) = IF p \in late THEN "compensating" ELSE to
  BY <1>1 DEF Transition
<1>3. Transition(p, to) # "raise"
  BY <1>1, <1>2
<1> QED BY <1>1, <1>2, <1>3 DEF Move

\* A run that ends without having touched the settings in its last step.
LEMMA EndUntouched ==
  ASSUME Inv, NEW p \in Proposal, active = p, UNCHANGED <<live, capsules, before>>,
         machine'[p] # "compensated"
  PROVE  EndsWell(p)
<1>1. Running /\ pc \in Early \cup Late
  BY SetupAssumption DEF Inv, TypeOK, Early, Late
<1>2. CapsulesOf(p)' = CapsulesOf(p)
  BY DEF CapsulesOf
<1>3. CASE live = before
  BY <1>2, <1>3 DEF EndsWell
<1>4. CASE Recoverable(p) /\ live # before
  <2>1. PICK i \in DOMAIN capsules : CoveredBy(p, i)
    BY <1>4 DEF Recoverable
  <2> QED BY <1>2, <2>1 DEF EndsWell, CoveredBy
<1> QED BY <1>1, <1>3, <1>4 DEF Running

\* A proposal that is not running stays settled while another one runs.
LEMMA OthersSettled ==
  ASSUME Inv, NEW q \in Proposal, q # active,
         machine'[q] = machine[q], verdict'[q] = verdict[q], q \in raised' <=> q \in raised,
         used \subseteq used', q \in late => q \in late', setup' = setup,
         CapsulesOf(q) # {} => CapsulesOf(q)' # {}
  PROVE  Settled(q)'
<1>1. Settled(q)
  BY DEF Inv
<1> QED BY <1>1 DEF Settled, Info, AutoCompensate

\* A step of run that changes the machine, the canary's verdict or what was raised,
\* of its own proposal only, and goes on with a sound run or ends settled.
LEMMA ControlStep ==
  ASSUME Inv, NEW p \in Proposal, active = p,
         UNCHANGED <<setup, saga, late, approved, runs, before>>,
         machine' \in [Proposal -> RecoveryStatus \cup {"none"}],
         verdict' \in [Proposal -> {"none", "pass", "fail"}], raised' \in SUBSET Proposal,
         \A q \in Proposal \ {p} : /\ machine'[q] = machine[q] /\ verdict'[q] = verdict[q]
                                   /\ q \in raised' <=> q \in raised,
         \/ active' = p /\ pc' \in Early \cup Late /\ Running'
         \/ Return /\ Settled(p)'
  PROVE  Inv'
<1>1. UNCHANGED <<live, capsules, used, applied>>
  BY DEF saga
<1>2. \A q \in Proposal : CapsulesOf(q)' = CapsulesOf(q)
  BY <1>1 DEF CapsulesOf
<1>3. TypeOK'
  BY <1>1, SetupAssumption DEF Inv, TypeOK, Return, Early, Late
<1>4. \A q \in Proposal : Accounted(q)'
  BY <1>1, <1>2 DEF Inv, Accounted, Cleared, Info
<1>5. \A q \in Proposal \ {p} : Settled(q)'
  <2> SUFFICES ASSUME NEW q \in Proposal \ {p} PROVE Settled(q)'
    OBVIOUS
  <2> QED BY <1>1, <1>2, OthersSettled
<1>6. CASE active' = p /\ pc' \in Early \cup Late /\ Running'
  BY <1>3, <1>4, <1>5, <1>6 DEF Inv
<1>7. CASE Return /\ Settled(p)'
  BY <1>3, <1>4, <1>5, <1>7 DEF Inv, Return
<1> QED BY <1>6, <1>7

\* A run that raises: the machine stays where it is.
LEMMA RaiseStep ==
  ASSUME Inv, NEW p \in Proposal, active = p, Raise,
         UNCHANGED <<setup, saga, late, approved, runs, before>>,
         verdict' \in [Proposal -> {"none", "pass", "fail"}],
         \A q \in Proposal \ {p} : verdict'[q] = verdict[q],
         machine[p] \notin {"committed", "compensated"},
         \/ Info[p].mode = "dry_run"
         \/ CapsulesOf(p) # {} /\ (machine[p] = "verifying" => verdict'[p] = "fail" /\ ~AutoCompensate)
  PROVE  Inv' /\ EndsWell(p)
<1>1. /\ machine' = machine /\ machine \in [Proposal -> RecoveryStatus \cup {"none"}]
      /\ raised' = raised \cup {p} /\ raised' \in SUBSET Proposal /\ Return
      /\ UNCHANGED <<live, capsules, used, applied>>
  BY DEF Raise, Inv, TypeOK, saga
<1>2. CapsulesOf(p)' = CapsulesOf(p)
  BY <1>1 DEF CapsulesOf
<1>3. Settled(p)'
  BY <1>1, <1>2 DEF Settled, Info, AutoCompensate
<1>4. Inv'
  BY <1>1, <1>3, ControlStep
<1>5. EndsWell(p)
  BY <1>1, EndUntouched
<1> QED BY <1>4, <1>5

\* A run that returns with a status that needs no repair, or past its timeout.
LEMMA ReturnStep ==
  ASSUME Inv, NEW p \in Proposal, active = p, Return, NEW to,
         UNCHANGED <<setup, saga, late, approved, runs, before>>, raised' = raised,
         verdict' \in [Proposal -> {"none", "pass", "fail"}],
         \A q \in Proposal \ {p} : verdict'[q] = verdict[q],
         machine' = [machine EXCEPT ![p] = IF p \in late THEN "compensating" ELSE to],
         machine' \in [Proposal -> RecoveryStatus \cup {"none"}],
         to \notin {"compensated", "compensating"},
         to = "committed" => Info[p].mode = "dry_run" \/ (verdict'[p] = "pass" /\ p \in used)
  PROVE  Inv' /\ EndsWell(p)
<1>1. /\ raised' \in SUBSET Proposal /\ UNCHANGED <<live, capsules, used, applied>> /\ p \notin raised
      /\ machine'[p] = IF p \in late THEN "compensating" ELSE to
      /\ \A q \in Proposal \ {p} : machine'[q] = machine[q]
  BY SetupAssumption DEF Inv, TypeOK, saga, Running
<1>2. Settled(p)'
  BY <1>1 DEF Settled, Info
<1>3. Inv'
  BY <1>1, <1>2, ControlStep
<1>4. EndsWell(p)
  BY <1>1, EndUntouched
<1> QED BY <1>3, <1>4

\* A step of run that takes the machine along an edge and goes on.
LEMMA AdvanceStep ==
  ASSUME Inv, NEW p \in Proposal, active = p, active' = p,
         UNCHANGED <<setup, saga, late, approved, runs, before, verdict, raised>>, NEW to,
         machine' = [machine EXCEPT ![p] = IF p \in late THEN "compensating" ELSE to],
         machine' \in [Proposal -> RecoveryStatus \cup {"none"}],
         \/ pc' \in {"dry_prepared", "certificate"} /\ to = "preparing"
         \/ pc' \in {"dry_execute", "execute"} /\ to = "executing"
         \/ pc' \in {"dry_verified", "canary"} /\ to = "verifying"
         \/ pc' = "rollback" /\ to = "compensating",
         pc' \in {"dry_prepared", "dry_execute", "dry_verified"} => Info[p].mode = "dry_run",
         pc' \in Late \cup {"certificate", "execute"} => Cleared(p),
         pc' = "execute" => CapsulesOf(p) = {},
         pc' = "canary" => p \in used,
         pc' \in Early => live = before,
         pc' \in Late => Recoverable(p)
  PROVE  Inv'
<1>1. /\ UNCHANGED <<live, capsules, used, applied>>
      /\ machine'[p] = IF p \in late THEN "compensating" ELSE to
      /\ \A q \in Proposal \ {p} : machine'[q] = machine[q]
      /\ verdict \in [Proposal -> {"none", "pass", "fail"}] /\ raised \in SUBSET Proposal
      /\ p \in Proposal \ raised
  BY SetupAssumption DEF Inv, TypeOK, saga, Running
<1>2. CapsulesOf(p)' = CapsulesOf(p) /\ CapsulesOf(active)' = CapsulesOf(p)
  BY <1>1 DEF CapsulesOf
<1>3. Recoverable(p) => Recoverable(active)'
  BY <1>1, <1>2 DEF Recoverable, CoveredBy
<1>4. (Cleared(p) => Cleared(active)') /\ Info' = Info
  BY DEF Cleared, Info
<1>5. At(to)'
  BY <1>1 DEF At
<1>6. pc' \in Early \cup Late
  BY DEF Early, Late
<1>7. Running'
  BY <1>1, <1>2, <1>3, <1>4, <1>5 DEF Running
<1> QED BY <1>1, <1>6, <1>7, ControlStep

-----------------------------------------------------------------------------
\* What every step of run starts from.
LEMMA ActiveRun ==
  ASSUME Inv, pc # "idle"
  PROVE  /\ active \in Proposal /\ Running /\ active \notin raised
         /\ machine \in [Proposal -> RecoveryStatus \cup {"none"}]
         /\ verdict \in [Proposal -> {"none", "pass", "fail"}]
         /\ Info[active] \in Ask
  BY SetupAssumption DEF Inv, TypeOK, Running, Info

LEMMA PolicyStep ==
  ASSUME Inv, NEW p \in Proposal, active = p, Policy, setup' = setup
  PROVE  Inv' /\ (active' = NoProposal => EndsWell(p))
<1>1. /\ pc = "policy" /\ UNCHANGED <<saga, late, approved, verdict, runs, before>>
      /\ machine \in [Proposal -> RecoveryStatus \cup {"none"}]
      /\ verdict \in [Proposal -> {"none", "pass", "fail"}]
  BY ActiveRun DEF Policy
<1>2. machine[p] = "policy_checking" /\ live = before
  BY <1>1, ActiveRun DEF Running, Early
<1>3. ASSUME NEW to \in {"failed", "pending_approval"}, Move(to, "return")
      PROVE  Inv' /\ EndsWell(p)
  <2>1. /\ machine' = [machine EXCEPT ![p] = IF p \in late THEN "compensating" ELSE to]
        /\ machine' \in [Proposal -> RecoveryStatus \cup {"none"}]
        /\ raised' = raised /\ Return
    BY <1>1, <1>2, <1>3, Moves, Edges
  <2> QED BY <1>1, <2>1, ReturnStep
<1>4. ASSUME Info[p].decision # "deny",
             ~(Info[p].decision = "needs_approval" /\ p \notin approved),
             Move("preparing", IF Info[p].mode = "dry_run" THEN "dry_prepared" ELSE "certificate")
      PROVE  Inv' /\ active' = p
  <2> DEFINE next == IF Info[p].mode = "dry_run" THEN "dry_prepared" ELSE "certificate"
  <2>1. next # "return"
    OBVIOUS
  <2>2. /\ machine' = [machine EXCEPT ![p] = IF p \in late THEN "compensating" ELSE "preparing"]
        /\ machine' \in [Proposal -> RecoveryStatus \cup {"none"}]
        /\ raised' = raised /\ pc' = next /\ active' = p
    <3> HIDE DEF next
    <3>1. Move("preparing", next)
      BY <1>4 DEF next
    <3> QED BY <1>1, <1>2, <2>1, <3>1, Moves, Edges
  <2>3. pc' = "certificate" => Cleared(p)
    BY <1>4, <2>2 DEF Cleared
  <2>4. pc' \notin Late /\ pc' # "execute"
    BY <2>2 DEF Late
  <2> QED BY <1>1, <1>2, <2>2, <2>3, <2>4, AdvanceStep
<1>5. p # NoProposal
  BY SetupAssumption
<1> QED BY <1>3, <1>4, <1>5 DEF Policy

LEMMA DryRunStep ==
  ASSUME Inv, NEW p \in Proposal, active = p, DryRun, setup' = setup
  PROVE  Inv' /\ (active' = NoProposal => EndsWell(p))
<1>1. /\ pc \in {"dry_prepared", "dry_execute", "dry_verified"}
      /\ UNCHANGED <<saga, late, approved, verdict, runs, before>>
      /\ machine \in [Proposal -> RecoveryStatus \cup {"none"}]
      /\ verdict \in [Proposal -> {"none", "pass", "fail"}]
  BY ActiveRun DEF DryRun
<1>2. Info[p].mode = "dry_run" /\ live = before /\ p # NoProposal
  BY <1>1, ActiveRun, SetupAssumption DEF Running, Early
<1>3. CASE pc = "dry_prepared"
  <2>1. At("preparing") /\ Move("executing", "dry_execute")
    BY <1>3, ActiveRun DEF Running, DryRun
  <2>2. /\ machine' = [machine EXCEPT ![p] = IF p \in late THEN "compensating" ELSE "executing"]
        /\ machine' \in [Proposal -> RecoveryStatus \cup {"none"}]
        /\ raised' = raised /\ pc' = "dry_execute" /\ active' = p
    BY <1>1, <2>1, Moves, Edges DEF At
  <2> QED BY <1>1, <1>2, <2>2, AdvanceStep DEF Late
<1>4. CASE pc = "dry_execute"
  <2>1. At("executing")
    BY <1>4, ActiveRun DEF Running
  <2>2. CASE Move("verifying", "dry_verified")
    <3>1. /\ machine' = [machine EXCEPT ![p] = IF p \in late THEN "compensating" ELSE "verifying"]
          /\ machine' \in [Proposal -> RecoveryStatus \cup {"none"}]
          /\ raised' = raised /\ pc' = "dry_verified" /\ active' = p
      BY <1>1, <2>1, <2>2, Moves, Edges DEF At
    <3> QED BY <1>1, <1>2, <3>1, AdvanceStep DEF Late
  <2>3. CASE Raise
    <3>1. machine[p] \notin {"committed", "compensated"}
      BY <2>1 DEF At
    <3> QED BY <1>1, <1>2, <2>3, <3>1, RaiseStep
  <2> QED BY <1>4, <2>2, <2>3 DEF DryRun
<1>5. ASSUME pc = "dry_verified", NEW to \in {"committed"}, Move(to, "return")
      PROVE  Inv' /\ EndsWell(p)
  <2>1. At("verifying")
    BY <1>5, ActiveRun DEF Running
  <2>2. /\ machine' = [machine EXCEPT ![p] = IF p \in late THEN "compensating" ELSE to]
        /\ machine' \in [Proposal -> RecoveryStatus \cup {"none"}]
        /\ raised' = raised /\ Return
    BY <1>1, <1>5, <2>1, Moves, Edges DEF At
  <2> QED BY <1>1, <1>2, <2>2, ReturnStep
<1> QED BY <1>1, <1>3, <1>4, <1>5 DEF DryRun

LEMMA CertificateStep ==
  ASSUME Inv, NEW p \in Proposal, active = p, Certificate, setup' = setup
  PROVE  Inv' /\ (active' = NoProposal => EndsWell(p))
<1>1. /\ pc = "certificate" /\ UNCHANGED <<saga, late, approved, verdict, runs, before>>
      /\ machine \in [Proposal -> RecoveryStatus \cup {"none"}]
      /\ verdict \in [Proposal -> {"none", "pass", "fail"}]
  BY ActiveRun DEF Certificate
<1>2. At("preparing") /\ Cleared(p) /\ live = before /\ p # NoProposal
  BY <1>1, ActiveRun, SetupAssumption DEF Running, Early
<1>3. ASSUME NEW to \in {"failed"}, Move(to, "return") PROVE Inv' /\ EndsWell(p)
  <2>1. /\ machine' = [machine EXCEPT ![p] = IF p \in late THEN "compensating" ELSE to]
        /\ machine' \in [Proposal -> RecoveryStatus \cup {"none"}]
        /\ raised' = raised /\ Return
    BY <1>1, <1>2, <1>3, Moves, Edges DEF At
  <2> QED BY <1>1, <2>1, ReturnStep
<1>4. CASE CapsulesOf(p) # {} /\ Raise
  <2>1. machine[p] \notin {"committed", "compensated", "verifying"}
    BY <1>2 DEF At
  <2> QED BY <1>1, <1>4, <2>1, RaiseStep
<1>5. CASE CapsulesOf(p) = {} /\ Move("executing", "execute")
  <2>1. /\ machine' = [machine EXCEPT ![p] = IF p \in late THEN "compensating" ELSE "executing"]
        /\ machine' \in [Proposal -> RecoveryStatus \cup {"none"}]
        /\ raised' = raised /\ pc' = "execute" /\ active' = p
    BY <1>1, <1>2, <1>5, Moves, Edges DEF At
  <2> QED BY <1>1, <1>2, <1>5, <2>1, AdvanceStep DEF Late
<1> QED BY <1>3, <1>4, <1>5 DEF Certificate

\* Capsule is the type of a rollback capsule.
Capsule == [proposal: Proposal, setting: Setting, previous: Value,
            status: {"active", "used", "voided", "expired"}]

\* Sealing, voiding or expiring a capsule leaves it with its proposal.
LEMMA SealedCapsule ==
  ASSUME capsules \in Seq(Capsule), NEW i \in DOMAIN capsules,
         NEW s \in {"used", "voided", "expired"},
         capsules' = [capsules EXCEPT ![i].status = s]
  PROVE  /\ capsules' \in Seq(Capsule)
         /\ \A q \in Proposal : CapsulesOf(q)' = CapsulesOf(q)
<1>1. /\ DOMAIN capsules = 1 .. Len(capsules) /\ Len(capsules) \in Nat
      /\ capsules[i] \in Capsule
  BY ElementOfSeq, LenProperties
<1> DEFINE c == [capsules[i] EXCEPT !.status = s]
<1>2. c \in Capsule /\ c.proposal = capsules[i].proposal /\ capsules' = [capsules EXCEPT ![i] = c]
  BY <1>1 DEF Capsule
<1> HIDE DEF c
<1>3. capsules' \in Seq(Capsule)
  BY <1>1, <1>2, ExceptSeq
<1>4. DOMAIN capsules' = DOMAIN capsules
      /\ \A k \in DOMAIN capsules : capsules'[k].proposal = capsules[k].proposal
  BY <1>2
<1> QED BY <1>3, <1>4 DEF CapsulesOf

\* The capsule executor.execute writes is one more of its proposal, and of no other.
LEMMA NewCapsule ==
  ASSUME capsules \in Seq(Capsule), NEW c \in Capsule, capsules' = Append(capsules, c)
  PROVE  LET n == Len(capsules) + 1
         IN /\ capsules' \in Seq(Capsule) /\ n \in DOMAIN capsules' /\ capsules'[n] = c
            /\ CapsulesOf(c.proposal)' = CapsulesOf(c.proposal) \cup {n}
            /\ \A q \in Proposal \ {c.proposal} : CapsulesOf(q)' = CapsulesOf(q)
<1> DEFINE n == Len(capsules) + 1
<1>1. /\ capsules' \in Seq(Capsule) /\ n \in DOMAIN capsules' /\ capsules'[n] = c
      /\ DOMAIN capsules' = DOMAIN capsules \cup {n} /\ n \notin DOMAIN capsules
      /\ \A k \in DOMAIN capsules : capsules'[k] = capsules[k]
  OBVIOUS
<1> HIDE DEF n
<1> SUFFICES /\ CapsulesOf(c.proposal)' = CapsulesOf(c.proposal) \cup {n}
             /\ \A q \in Proposal \ {c.proposal} : CapsulesOf(q)' = CapsulesOf(q)
  BY <1>1 DEF n
<1> QED BY <1>1 DEF CapsulesOf

LEMMA ExecuteStep ==
  ASSUME Inv, NEW p \in Proposal, active = p, Execute, setup' = setup
  PROVE  Inv' /\ active' = p
<1>1. /\ pc = "execute" /\ pc' \in {"verify", "compensate"} /\ active' = p
      /\ UNCHANGED <<machine, raised, late, approved, verdict, runs, before>>
      /\ machine \in [Proposal -> RecoveryStatus \cup {"none"}]
      /\ verdict \in [Proposal -> {"none", "pass", "fail"}] /\ raised \in SUBSET Proposal
      /\ p \in Proposal \ raised /\ p # NoProposal
  BY ActiveRun, SetupAssumption DEF Execute, Inv, TypeOK
<1>2. /\ At("executing") /\ Cleared(p) /\ live = before /\ CapsulesOf(p) = {}
      /\ p \notin used /\ applied[p] = 0
  BY <1>1, ActiveRun DEF Running, Early, Inv, Accounted
<1>3. At("executing")' /\ Cleared(active)' /\ Cleared(p)' /\ Info' = Info
  BY <1>1, <1>2 DEF At, Cleared, Info
<1>4. CASE UNCHANGED saga /\ pc' = "compensate"
  <2>1. CapsulesOf(active)' = {} /\ live' = before'
    BY <1>1, <1>2, <1>4 DEF saga, CapsulesOf
  <2>2. Recoverable(active)'
    BY <2>1 DEF Recoverable
  <2>3. Running'
    BY <1>1, <1>3, <1>4, <2>2 DEF Running, Early
  <2>4. pc' \in Early \cup Late
    BY <1>4 DEF Late
  <2> QED BY <1>1, <1>4, <2>3, <2>4, ControlStep
<1>5. CASE ~UNCHANGED saga \/ pc' = "verify"
  <2> DEFINE c == [proposal |-> p, setting |-> Info[p].setting,
                   previous |-> live[Info[p].setting], status |-> "active"]
             n == Len(capsules) + 1
             done == /\ live' = [live EXCEPT ![Info[p].setting] = Info[p].target]
                     /\ used' = used \cup {p}
                     /\ applied' = [applied EXCEPT ![p] = @ + 1]
             undone == pc' = "compensate" /\ UNCHANGED <<live, used, applied>>
  <2>1. capsules' = Append(capsules, c) /\ (done \/ undone)
    BY <1>5 DEF Execute, saga
  <2>2. /\ Info[p].setting \in Setting /\ Info[p].target \in Value
        /\ live \in [Setting -> Value] /\ before \in [Setting -> Value]
        /\ capsules \in Seq(Capsule) /\ c \in Capsule
    BY <1>1, ActiveRun DEF Ask, Inv, TypeOK, Capsule
  <2>3. c.proposal = p /\ c.status = "active" /\ c.setting = Info[p].setting
        /\ c.previous = before[c.setting]
    BY <1>2
  <2>4. \E v \in Value : live' = [before EXCEPT ![c.setting] = v]
    <3>1. CASE done
      BY <1>2, <2>2, <2>3, <3>1
    <3>2. CASE undone
      <4>1. live[c.setting] \in Value /\ live = [live EXCEPT ![c.setting] = live[c.setting]]
        BY <2>2, <2>3
      <4> QED BY <1>2, <3>2, <4>1
    <3> QED BY <2>1, <3>1, <3>2
  <2>5. live' \in [Setting -> Value]
    BY <2>1, <2>2
  <2>6. /\ p \notin used' => undone
        /\ applied'[p] = IF p \in used' THEN 1 ELSE 0
        /\ \A q \in Proposal \ {p} : applied'[q] = applied[q] /\ (q \in used' <=> q \in used)
        /\ used' \in SUBSET Proposal /\ applied' \in [Proposal -> Nat]
        /\ used \subseteq used'
    <3>1. used \in SUBSET Proposal /\ applied \in [Proposal -> Nat]
      BY DEF Inv, TypeOK
    <3>2. CASE done
      BY <1>2, <3>1, <3>2
    <3>3. CASE undone
      BY <1>2, <3>1, <3>3
    <3> QED BY <2>1, <3>2, <3>3
  <2>7. pc' = "verify" => p \in used'
    BY <1>1, <2>1, <2>6
  <2> HIDE DEF c, done, undone
  <2>8. /\ capsules' \in Seq(Capsule) /\ n \in DOMAIN capsules' /\ capsules'[n] = c
        /\ CapsulesOf(p)' = {n}
        /\ \A q \in Proposal \ {p} : CapsulesOf(q)' = CapsulesOf(q)
    BY <1>2, <2>1, <2>2, <2>3, NewCapsule
  <2> HIDE DEF n
  <2>9. CapsulesOf(active)' = {n}
    BY <1>1, <2>8 DEF CapsulesOf
  <2>10. Recoverable(active)'
    BY <1>1, <2>3, <2>4, <2>8, <2>9 DEF Recoverable, CoveredBy
  <2>11. Running'
    BY <1>1, <1>3, <2>7, <2>10 DEF Running, Early
  <2>12. TypeOK'
    BY <1>1, <2>2, <2>5, <2>6, <2>8 DEF Inv, TypeOK, Capsule
  <2>13. \A q \in Proposal : Accounted(q)'
    BY <1>1, <1>3, <2>6, <2>8 DEF Inv, Accounted, Cleared
  <2>14. \A q \in Proposal \ {p} : Settled(q)'
    <3> SUFFICES ASSUME NEW q \in Proposal \ {p} PROVE Settled(q)'
      OBVIOUS
    <3> QED BY <1>1, <2>6, <2>8, OthersSettled
  <2> QED BY <1>1, <2>11, <2>12, <2>13, <2>14 DEF Inv
<1> QED BY <1>1, <1>4, <1>5

LEMMA VerifyStep ==
  ASSUME Inv, NEW p \in Proposal, active = p, Verify, setup' = setup
  PROVE  Inv' /\ active' = p
<1>1. /\ pc = "verify" /\ UNCHANGED <<saga, late, approved, verdict, runs, before>>
      /\ machine \in [Proposal -> RecoveryStatus \cup {"none"}]
  BY ActiveRun DEF Verify
<1>2. At("executing") /\ Cleared(p) /\ p \in used /\ Recoverable(p)
  BY <1>1, ActiveRun DEF Running, Late
<1>3. /\ machine' = [machine EXCEPT ![p] = IF p \in late THEN "compensating" ELSE "verifying"]
      /\ machine' \in [Proposal -> RecoveryStatus \cup {"none"}]
      /\ raised' = raised /\ pc' = "canary" /\ active' = p
  BY <1>1, <1>2, Moves, Edges DEF At, Verify
<1> QED BY <1>1, <1>2, <1>3, AdvanceStep DEF Early

LEMMA CompensateStep ==
  ASSUME Inv, NEW p \in Proposal, active = p, Compensate, setup' = setup
  PROVE  Inv' /\ active' = p
<1>1. /\ pc = "compensate" /\ UNCHANGED <<saga, late, approved, verdict, runs, before>>
      /\ machine \in [Proposal -> RecoveryStatus \cup {"none"}]
  BY ActiveRun DEF Compensate
<1>2. (At("executing") \/ At("verifying")) /\ Cleared(p) /\ Recoverable(p)
  BY <1>1, ActiveRun DEF Running, Late
<1>3. /\ machine' = [machine EXCEPT ![p] = IF p \in late THEN "compensating" ELSE "compensating"]
      /\ machine' \in [Proposal -> RecoveryStatus \cup {"none"}]
      /\ raised' = raised /\ pc' = "rollback" /\ active' = p
  BY <1>1, <1>2, Moves, Edges DEF At, Compensate
<1> QED BY <1>1, <1>2, <1>3, AdvanceStep DEF Early

LEMMA CanaryStep ==
  ASSUME Inv, NEW p \in Proposal, active = p, Canary, setup' = setup
  PROVE  Inv' /\ (active' = NoProposal => EndsWell(p))
<1>1. /\ pc = "canary" /\ UNCHANGED <<saga, late, approved, runs, before>>
      /\ machine \in [Proposal -> RecoveryStatus \cup {"none"}]
      /\ verdict \in [Proposal -> {"none", "pass", "fail"}]
      /\ p # NoProposal /\ p \notin raised /\ raised \in SUBSET Proposal
  BY ActiveRun, SetupAssumption DEF Canary, Inv, TypeOK
<1>2. At("verifying") /\ Cleared(p) /\ p \in used /\ Recoverable(p) /\ CapsulesOf(p) # {}
  BY <1>1, ActiveRun DEF Running, Late, Inv, Accounted
<1>3. PICK pass \in BOOLEAN :
        /\ verdict' = [verdict EXCEPT ![p] = IF pass THEN "pass" ELSE "fail"]
        /\ IF pass THEN Move("committed", "return")
           ELSE IF AutoCompensate /\ CapsulesOf(p) # {}
             THEN pc' = "compensate" /\ UNCHANGED <<machine, active, raised>>
           ELSE Move("failed", "return")
  BY DEF Canary
<1>4. /\ verdict' \in [Proposal -> {"none", "pass", "fail"}]
      /\ verdict'[p] = IF pass THEN "pass" ELSE "fail"
      /\ \A q \in Proposal \ {p} : verdict'[q] = verdict[q]
  BY <1>1, <1>3
<1>5. ASSUME pass, NEW to \in {"committed"}, Move(to, "return")
      PROVE  Inv' /\ EndsWell(p)
  <2>1. /\ machine' = [machine EXCEPT ![p] = IF p \in late THEN "compensating" ELSE to]
        /\ machine' \in [Proposal -> RecoveryStatus \cup {"none"}]
        /\ raised' = raised /\ Return
    BY <1>1, <1>2, <1>5, Moves, Edges DEF At
  <2> QED BY <1>1, <1>2, <1>4, <1>5, <2>1, ReturnStep
<1>6. CASE pc' = "compensate" /\ UNCHANGED <<machine, active, raised>>
  <2>1. UNCHANGED <<live, capsules, used, applied>> /\ active' = p
    BY <1>1, <1>6 DEF saga
  <2>2. CapsulesOf(active)' = CapsulesOf(p)
    BY <2>1 DEF CapsulesOf
  <2>3. Recoverable(active)'
    BY <1>1, <1>2, <2>1, <2>2 DEF Recoverable, CoveredBy
  <2>4. At("verifying")' /\ Cleared(active)'
    BY <1>1, <1>2, <1>6 DEF At, Cleared, Info
  <2>5. Running'
    BY <1>1, <1>6, <2>1, <2>3, <2>4 DEF Running, Early
  <2>6. pc' \in Early \cup Late
    BY <1>6 DEF Late
  <2>7. Inv'
    BY <1>1, <1>4, <1>6, <2>1, <2>5, <2>6, ControlStep
  <2> QED BY <1>1, <2>1, <2>7
<1>7. ASSUME ~pass, ~AutoCompensate, NEW to \in {"failed"}, Move(to, "return")
      PROVE  Inv' /\ EndsWell(p)
  <2>1. CASE p \in late
    <3>1. Transition(p, to) = "compensating"
      BY <1>2, <2>1 DEF At, Transition, TerminalStates
    <3>2. /\ machine' = [machine EXCEPT ![p] = IF p \in late THEN "compensating" ELSE to]
          /\ raised' = raised /\ Return
      BY <1>7, <2>1, <3>1 DEF Move
    <3>3. machine' \in [Proposal -> RecoveryStatus \cup {"none"}]
      BY <1>1, <2>1, <3>2, Edges DEF RecoveryStatus
    <3> QED BY <1>1, <1>4, <3>2, <3>3, ReturnStep
  <2>2. CASE p \notin late
    <3>1. machine[p] = "verifying" /\ Transition(p, to) = "raise"
      BY <1>2, <2>2, Edges DEF At, Transition, TerminalStates
    <3>2. Raise
      BY <1>7, <3>1 DEF Move
    <3> QED BY <1>1, <1>2, <1>4, <1>7, <3>1, <3>2, RaiseStep
  <2> QED BY <2>1, <2>2
<1> QED BY <1>2, <1>3, <1>5, <1>6, <1>7

\* The first of the only capsule there is.
LEMMA OnlyCapsule ==
  ASSUME NEW i \in Nat, NEW S, S = {i}
  PROVE  (CHOOSE k \in S : \A j \in S : k <= j) = i
  OBVIOUS

LEMMA RollbackStep ==
  ASSUME Inv, NEW p \in Proposal, active = p, Rollback, setup' = setup
  PROVE  Inv' /\ EndsWell(p)
<1>1. /\ pc = "rollback" /\ UNCHANGED <<used, applied, late, approved, verdict, runs, before>>
      /\ machine \in [Proposal -> RecoveryStatus \cup {"none"}]
      /\ verdict \in [Proposal -> {"none", "pass", "fail"}]
      /\ p # NoProposal /\ p \notin raised /\ raised \in SUBSET Proposal
  BY ActiveRun, SetupAssumption DEF Rollback, Inv, TypeOK
<1>2. machine[p] = "compensating" /\ Cleared(p) /\ Recoverable(p)
  BY <1>1, ActiveRun DEF Running, Late
<1>3. ASSUME UNCHANGED <<live, capsules>>, NEW to \in {"failed"}, Move(to, "return")
      PROVE  Inv' /\ EndsWell(p)
  <2>1. /\ machine' = [machine EXCEPT ![p] = IF p \in late THEN "compensating" ELSE to]
        /\ machine' \in [Proposal -> RecoveryStatus \cup {"none"}]
        /\ raised' = raised /\ Return
    BY <1>1, <1>2, <1>3, Moves, Edges
  <2>2. UNCHANGED saga
    BY <1>1, <1>3 DEF saga
  <2> QED BY <1>1, <2>1, <2>2, ReturnStep
<1>4. CASE CapsulesOf(p) # {} /\ Raise /\ UNCHANGED <<live, capsules>>
  <2>1. UNCHANGED saga
    BY <1>1, <1>4 DEF saga
  <2> QED BY <1>1, <1>2, <1>4, <2>1, RaiseStep
<1>5. ASSUME CapsulesOf(p) # {},
             RollbackWith(CHOOSE i \in CapsulesOf(p) : \A k \in CapsulesOf(p) : i <= k),
             Move("compensated", "return")
      PROVE  Inv' /\ EndsWell(p)
  <2>1. PICK i \in DOMAIN capsules : CoveredBy(p, i)
    BY <1>2, <1>5 DEF Recoverable
  <2>2. capsules \in Seq(Capsule) /\ i \in Nat
    BY DEF Inv, TypeOK, Capsule
  <2>3. RollbackWith(i)
    <3>1. CapsulesOf(p) = {i}
      BY <2>1 DEF CoveredBy
    <3>2. (CHOOSE k \in CapsulesOf(p) : \A j \in CapsulesOf(p) : k <= j) = i
      BY <2>2, <3>1, OnlyCapsule
    <3> QED BY <1>5, <3>2
  <2>4. /\ capsules[i].setting \in Setting /\ capsules[i].previous = before[capsules[i].setting]
        /\ live \in [Setting -> Value] /\ before \in [Setting -> Value]
    BY <2>1, <2>2 DEF CoveredBy, Inv, TypeOK, Capsule
  <2>5. live' = before
    BY <2>1, <2>3, <2>4 DEF RollbackWith, CoveredBy
  <2>6. /\ capsules' \in Seq(Capsule)
        /\ \A q \in Proposal : CapsulesOf(q)' = CapsulesOf(q)
    BY <2>2, <2>3, SealedCapsule DEF RollbackWith
  <2>7. /\ machine' = [machine EXCEPT ![p] = IF p \in late THEN "compensating" ELSE "compensated"]
        /\ machine' \in [Proposal -> RecoveryStatus \cup {"none"}]
        /\ raised' = raised /\ Return
    BY <1>1, <1>2, <1>5, Moves, Edges
  <2>8. TypeOK'
    BY <1>1, <2>4, <2>5, <2>6, <2>7 DEF Inv, TypeOK, Return, Capsule
  <2>9. \A q \in Proposal : Accounted(q)'
    BY <1>1, <2>6 DEF Inv, Accounted, Cleared, Info
  <2>10. \A q \in Proposal \ {p} : Settled(q)'
    <3> SUFFICES ASSUME NEW q \in Proposal \ {p} PROVE Settled(q)'
      OBVIOUS
    <3>1. machine'[q] = machine[q]
      BY <1>1, <2>7
    <3> QED BY <1>1, <2>6, <2>7, <3>1, OthersSettled
  <2>11. Settled(p)'
    BY <1>1, <2>7 DEF Settled
  <2>12. Inv'
    BY <2>7, <2>8, <2>9, <2>10, <2>11 DEF Inv, Return
  <2> QED BY <2>5, <2>12 DEF EndsWell
<1> QED BY <1>3, <1>4, <1>5 DEF Rollback

-----------------------------------------------------------------------------
\* run: the proposal it starts with.
LEMMA RunStep ==
  ASSUME Inv, NEW p \in Proposal, Run(p), setup' = setup
  PROVE  Inv' /\ active = NoProposal
<1>1. /\ pc = "idle" /\ active = NoProposal /\ pc' = "policy" /\ active' = p
      /\ UNCHANGED <<live, capsules, used, applied, approved>> /\ before' = live
      /\ machine' = [machine EXCEPT ![p] = "policy_checking"]
      /\ late' = late \ {p} /\ raised' = raised \ {p}
      /\ verdict' = [verdict EXCEPT ![p] = "none"]
      /\ runs' = [runs EXCEPT ![p] = @ + 1]
      /\ p # NoProposal /\ NoProposal \notin Proposal
  BY SetupAssumption DEF Run, saga, Inv, TypeOK
<1>2. \A q \in Proposal : CapsulesOf(q)' = CapsulesOf(q)
  BY <1>1 DEF CapsulesOf
<1>3. TypeOK'
  BY <1>1, Edges DEF Inv, TypeOK, RecoveryStatus
<1>4. \A q \in Proposal : Accounted(q)'
  BY <1>1, <1>2 DEF Inv, Accounted, Cleared, Info
<1>5. ASSUME NEW q \in Proposal \ {p} PROVE Settled(q)'
  <2>1. machine'[q] = machine[q] /\ verdict'[q] = verdict[q]
    BY <1>1 DEF Inv, TypeOK
  <2> QED BY <1>1, <1>2, <2>1, OthersSettled
<1>6. Running'
  BY <1>1 DEF Running, Late, Inv, TypeOK
<1> QED BY <1>1, <1>3, <1>4, <1>5, <1>6 DEF Inv

\* The clock: lateness only weakens what is said of a machine.
LEMMA TimeStep ==
  ASSUME Inv, late \subseteq late', late' \in SUBSET Proposal,
         UNCHANGED <<setup, machine, pc, active, saga, approved, verdict, runs, before, raised>>
  PROVE  Inv'
<1>1. UNCHANGED <<machine, pc, active, live, capsules, used, applied, approved, verdict, runs,
                  before, raised>>
  BY DEF saga
<1>2. CapsulesOf(active)' = CapsulesOf(active)
      /\ \A q \in Proposal : CapsulesOf(q)' = CapsulesOf(q)
  BY <1>1 DEF CapsulesOf
<1>3. TypeOK'
  BY <1>1 DEF Inv, TypeOK
<1>4. \A q \in Proposal : Accounted(q)'
  BY <1>1, <1>2 DEF Inv, Accounted, Cleared, Info
<1>5. ASSUME NEW q \in Proposal \ {active} PROVE Settled(q)'
  BY <1>1, <1>2, OthersSettled
<1>6. ASSUME Running PROVE Running'
  <2>1. \A s : At(s) => At(s)'
    BY <1>1 DEF At
  <2>2. Recoverable(active) => Recoverable(active)'
    BY <1>1, <1>2 DEF Recoverable, CoveredBy
  <2>3. (Cleared(active) => Cleared(active)') /\ Info' = Info
    BY <1>1 DEF Cleared, Info
  <2> QED BY <1>1, <1>2, <1>6, <2>1, <2>2, <2>3 DEF Running
<1> QED BY <1>1, <1>3, <1>4, <1>5, <1>6 DEF Inv

\* Between runs: a step that leaves every proposal settled.
LEMMA IdleStep ==
  ASSUME Inv, pc = "idle", UNCHANGED <<pc, active, setup, used, applied>>, TypeOK',
         approved \subseteq approved',
         \A q \in Proposal : CapsulesOf(q)' = CapsulesOf(q) /\ Settled(q)'
  PROVE  Inv'
<1>1. \A q \in Proposal : Accounted(q)'
  BY DEF Inv, Accounted, Cleared, Info
<1> QED BY <1>1 DEF Inv

\* engine.cancel, the approval, the revert and the retirement of a capsule.
LEMMA OperatorStep ==
  ASSUME Inv, pc = "idle", setup' = setup,
         \/ \E p \in Proposal : Approve(p) \/ Cancel(p)
         \/ \E i \in DOMAIN capsules : Revert(i) \/ Retire(i)
  PROVE  Inv' /\ active' = active
<1>0. active = NoProposal /\ NoProposal \notin Proposal
  BY SetupAssumption DEF Inv, TypeOK
<1>1. ASSUME NEW p \in Proposal, Approve(p) PROVE Inv' /\ active' = active
  <2>1. /\ approved' = approved \cup {p}
        /\ UNCHANGED <<machine, late, pc, active, live, capsules, used, applied, verdict, runs,
                       before, raised>>
    BY <1>1 DEF Approve, saga
  <2>2. TypeOK'
    BY <2>1 DEF Inv, TypeOK
  <2>3. ASSUME NEW q \in Proposal PROVE CapsulesOf(q)' = CapsulesOf(q) /\ Settled(q)'
    <3>1. CapsulesOf(q)' = CapsulesOf(q)
      BY <2>1 DEF CapsulesOf
    <3> QED BY <1>0, <2>1, <3>1, OthersSettled
  <2> QED BY <2>1, <2>2, <2>3, IdleStep
<1>2. ASSUME NEW p \in Proposal, Cancel(p) PROVE Inv' /\ active' = active
  <2> DEFINE s == Transition(p, "cancelled")
  <2>1. /\ machine' = [machine EXCEPT ![p] = s] /\ s # "raise"
        /\ machine[p] \notin TerminalStates \cup {"none"}
        /\ UNCHANGED <<late, pc, active, live, capsules, used, applied, approved, verdict, runs,
                       before, raised>>
    BY <1>2 DEF Cancel, saga
  <2>2. s = "cancelled" \/ (s = "compensating" /\ p \in late)
    BY <2>1 DEF Transition
  <2>3. machine \in [Proposal -> RecoveryStatus \cup {"none"}] /\ s \in RecoveryStatus
    BY <2>2, Edges DEF Inv, TypeOK, RecoveryStatus, TerminalStates
  <2> HIDE DEF s
  <2>4. TypeOK'
    BY <2>1, <2>3 DEF Inv, TypeOK
  <2>5. ASSUME NEW q \in Proposal PROVE CapsulesOf(q)' = CapsulesOf(q) /\ Settled(q)'
    <3>1. CapsulesOf(q)' = CapsulesOf(q)
      BY <2>1 DEF CapsulesOf
    <3>2. CASE q # p
      <4>1. machine'[q] = machine[q]
        BY <2>1, <2>3, <3>2
      <4> QED BY <1>0, <2>1, <3>1, <4>1, OthersSettled
    <3>3. CASE q = p
      <4>1. machine'[q] = s /\ Settled(q)
        BY <1>0, <2>1, <2>3, <3>3 DEF Inv
      <4> QED BY <2>1, <2>2, <3>1, <3>3, <4>1 DEF Settled, Info, AutoCompensate
    <3> QED BY <3>1, <3>2, <3>3
  <2> QED BY <2>1, <2>4, <2>5, IdleStep
<1>3. ASSUME NEW i \in DOMAIN capsules, Revert(i) \/ Retire(i) PROVE Inv' /\ active' = active
  <2>1. UNCHANGED <<machine, late, pc, active, used, applied, approved, verdict, runs, before, raised>>
    BY <1>3 DEF Revert, Retire
  <2>2. capsules \in Seq(Capsule) /\ capsules[i] \in Capsule
    <3>1. capsules \in Seq(Capsule)
      BY DEF Inv, TypeOK, Capsule
    <3> QED BY <3>1, ElementOfSeq, LenProperties
  <2>3. /\ capsules' \in Seq(Capsule)
        /\ \A q \in Proposal : CapsulesOf(q)' = CapsulesOf(q)
    BY <1>3, <2>2, SealedCapsule DEF Revert, Retire, RollbackWith
  <2>4. live' \in [Setting -> Value]
    BY <1>3, <2>2 DEF Revert, Retire, RollbackWith, Capsule, Inv, TypeOK
  <2>5. TypeOK'
    BY <2>1, <2>3, <2>4 DEF Inv, TypeOK, Capsule
  <2>6. ASSUME NEW q \in Proposal PROVE Settled(q)'
    BY <1>0, <2>1, <2>3, OthersSettled
  <2> QED BY <2>1, <2>3, <2>5, <2>6, IdleStep
<1> QED BY <1>1, <1>2, <1>3

-----------------------------------------------------------------------------
LEMMA InitInv == Init => Inv
<1> SUFFICES ASSUME Init PROVE Inv
  OBVIOUS
<1>1. TypeOK
  BY SetupAssumption, EngineAssumption DEF Init, TypeOK
<1>2. \A p \in Proposal : Accounted(p) /\ Settled(p)
  BY DEF Init, Accounted, Settled
<1>3. pc = "idle"
  BY DEF Init
<1> QED BY <1>1, <1>2, <1>3 DEF Inv

\* Every step keeps the invariant, and a run that ends in it ends well.
LEMMA NextInv ==
  ASSUME Inv, [Next]_vars
  PROVE  Inv' /\ (active \in Proposal /\ active' = NoProposal => EndsWell(active))
<1>1. active \in Proposal \/ active = NoProposal
  BY DEF Inv, TypeOK
<1>2. NoProposal \notin Proposal /\ (pc = "idle" <=> active = NoProposal)
  BY SetupAssumption DEF Inv, TypeOK
<1>3. CASE Engine
  <2>1. active \in Proposal /\ setup' = setup
    BY <1>1, <1>2, <1>3 DEF Engine, Policy, DryRun, Certificate, Execute, Verify, Canary,
                            Compensate, Rollback
  <2>2. CASE Policy
    BY <2>1, <2>2, PolicyStep
  <2>3. CASE DryRun
    BY <2>1, <2>3, DryRunStep
  <2>4. CASE Certificate
    BY <2>1, <2>4, CertificateStep
  <2>5. CASE Execute
    BY <1>2, <2>1, <2>5, ExecuteStep
  <2>6. CASE Verify
    BY <1>2, <2>1, <2>6, VerifyStep
  <2>7. CASE Canary
    BY <2>1, <2>7, CanaryStep
  <2>8. CASE Compensate
    BY <1>2, <2>1, <2>8, CompensateStep
  <2>9. CASE Rollback
    BY <2>1, <2>9, RollbackStep
  <2> QED BY <1>3, <2>2, <2>3, <2>4, <2>5, <2>6, <2>7, <2>8, <2>9 DEF Engine
<1>4. CASE Callers
  <2>1. setup' = setup
    BY <1>4 DEF Callers
  <2>2. CASE \E p \in Proposal : Run(p)
    BY <1>2, <2>1, <2>2, RunStep
  <2>3. CASE \E p \in Proposal : TimePasses(p)
    <3>1. /\ late \subseteq late' /\ late' \in SUBSET Proposal
          /\ UNCHANGED <<machine, pc, active, saga, approved, verdict, runs, before, raised>>
      BY <2>3 DEF TimePasses, Inv, TypeOK
    <3> QED BY <1>2, <2>1, <3>1, TimeStep
  <2>4. CASE \/ \E p \in Proposal : Approve(p) \/ Cancel(p)
             \/ \E i \in DOMAIN capsules : Revert(i) \/ Retire(i)
    <3>1. pc = "idle"
      BY <2>4 DEF Approve, Cancel, Revert, Retire
    <3> QED BY <1>2, <2>1, <2>4, <3>1, OperatorStep
  <2> QED BY <1>4, <2>2, <2>3, <2>4 DEF Callers
<1>5. CASE UNCHANGED vars
  <2>1. /\ UNCHANGED <<setup, machine, pc, active, saga, approved, verdict, runs, before, raised>>
        /\ late' = late /\ late \in SUBSET Proposal
    BY <1>5 DEF vars, saga, Inv, TypeOK
  <2> QED BY <1>2, <2>1, TimeStep
<1> QED BY <1>3, <1>4, <1>5 DEF Next

LEMMA InvHolds == Spec => []Inv
  BY InitInv, NextInv, PTL DEF Spec

-----------------------------------------------------------------------------
\* engine.py, run: in every behaviour, what is committed was let through by policy,
\* applied exactly once and passed its canary, however often proposals are run.
THEOREM CommitsAreEarned == Spec => []CommitIsEarned
<1>1. Inv => CommitIsEarned
  <2> SUFFICES ASSUME Inv PROVE CommitIsEarned
    OBVIOUS
  <2>1. TypeOK /\ \A p \in Proposal : Accounted(p)
    BY DEF Inv
  <2>2. AppliedAtMostOnce
    BY <2>1 DEF AppliedAtMostOnce, Accounted, Cleared
  <2>3. ASSUME NEW p \in Proposal, machine[p] = "committed", Info[p].mode # "dry_run"
        PROVE  verdict[p] = "pass" /\ applied[p] = 1 /\ p \in used
    <3>1. CASE p # active
      BY <2>1, <2>3, <3>1 DEF Inv, Settled, Accounted
    <3>2. CASE p = active
      <4>1. Running /\ pc \in Early \cup Late
        BY <3>2, SetupAssumption DEF Inv, TypeOK, Early, Late
      <4> QED BY <2>3, <3>2, <4>1 DEF Running, At, Early, Late
    <3> QED BY <3>1, <3>2
  <2> QED BY <2>1, <2>2, <2>3 DEF CommitIsEarned, CommittedIsVerified
<1> QED BY <1>1, InvHolds, PTL

\* engine.py, run and state_machine.py, transition: in every behaviour, a run leaves
\* by an exception, or its machine in COMPENSATING, only for the reasons named.
THEOREM ExitsHaveReasons == Spec => []ExitsForAReason
<1>1. Inv => ExitsForAReason
  <2> SUFFICES ASSUME Inv PROVE ExitsForAReason
    OBVIOUS
  <2>1. \A p \in raised : p \in Proposal /\ p # active
    BY SetupAssumption DEF Inv, TypeOK, Running
  <2>2. \A p \in raised : Settled(p)
    BY <2>1 DEF Inv
  <2>3. RaisesForAReason
    BY <2>2 DEF RaisesForAReason, Settled
  <2>4. StuckForAReason
    BY SetupAssumption DEF StuckForAReason, Inv, TypeOK, Settled
  <2> QED BY <2>3, <2>4 DEF ExitsForAReason
<1> QED BY <1>1, InvHolds, PTL

\* executor.py and engine.py, _compensate: in every behaviour, a run that ends
\* compensated, or failed before it executed, leaves the settings as it found them;
\* any other end that changed them leaves an unused capsule that restores them.
THEOREM EndsAreRecoverable == Spec => EndIsRecoverable
<1> DEFINE Restored == \A p \in Proposal :
             active = p /\ active' = NoProposal =>
               /\ machine'[p] = "compensated" => live' = before
               /\ machine'[p] = "failed" /\ Cardinality(CapsulesOf(p)) = 0 => live' = before
           Covered == \A p \in Proposal :
             active = p /\ active' = NoProposal /\ live' # before =>
               \E i \in CapsulesOf(p)' :
                 capsules'[i].status = "active"
                   /\ capsules'[i].previous = before[capsules'[i].setting]
<1>1. ASSUME Inv, [Next]_vars PROVE Restored /\ Covered
  <2> SUFFICES ASSUME NEW p \in Proposal, active = p, active' = NoProposal, EndsWell(p)
               PROVE  /\ machine'[p] = "compensated" => live' = before
                      /\ machine'[p] = "failed" /\ Cardinality(CapsulesOf(p)) = 0 => live' = before
                      /\ live' # before =>
                           \E i \in CapsulesOf(p)' :
                             capsules'[i].status = "active"
                               /\ capsules'[i].previous = before[capsules'[i].setting]
    BY <1>1, NextInv
  <2>1. Cardinality(CapsulesOf(p)) = 0 => CapsulesOf(p) = {}
    <3>1. capsules \in Seq(Capsule)
      BY <1>1 DEF Inv, TypeOK, Capsule
    <3>2. Len(capsules) \in Nat /\ CapsulesOf(p) \subseteq 1 .. Len(capsules)
      BY <3>1, LenProperties DEF CapsulesOf
    <3>3. IsFiniteSet(CapsulesOf(p))
      <4>1. IsFiniteSet(1 .. Len(capsules))
        BY <3>2, FS_Interval
      <4> QED BY <3>2, <4>1, FS_Subset
    <3> QED BY <3>3, FS_EmptySet
  <2> QED BY <2>1 DEF EndsWell
<1>2. Spec => [][Restored /\ Covered]_vars
  BY <1>1, InvHolds, PTL DEF Spec
<1>3. Spec => [][Restored]_vars /\ [][Covered]_vars
  BY <1>2, PTL
<1> QED BY <1>3 DEF EndIsRecoverable, CompensationRestores, FailureKeepsCapsule
===============================================================================
