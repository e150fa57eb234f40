---------------------------- MODULE ExecutionProofs ----------------------------
(***************************************************************************)
(* What holds of the execution components for every number of workers,     *)
(* oracles, traces, tasks, controllers and spans (MCExecution): the        *)
(* sandbox and the coordinator of its effects, the dependency scheduler,   *)
(* the container executor with the exogenous controllers, and the replay   *)
(* engine.                                                                 *)
(***************************************************************************)
EXTENDS MCExecution, FiniteSetTheorems, SequenceTheorems, WellFoundedInduction, TLAPS

-----------------------------------------------------------------------------
(***************************************************************************)
(* The sandbox and its coordinator (VtiSandbox).  What happened to an      *)
(* action is told by the thread that holds it: its worker has handed it    *)
(* over, an oracle has it in its eye or behind it, or a race took it.      *)
(***************************************************************************)

SettledStatus == {"none", "STAGED", "COMMITTED", "ROLLED_BACK"}
ListNo == 1 .. Cardinality(Action)

VTypes ==
  /\ of \in [Worker \cup Oracle -> Trace]
  /\ DOMAIN spc = Worker /\ staged \in [Worker -> Nat] /\ sent \in [Worker -> Nat]
  /\ call \in [Worker -> {"none", "create", "append"}] /\ sink \in [Worker -> Nat]
  /\ fresh \in Nat /\ escrow \in [Trace -> 0 .. fresh] /\ lists \in [ListNo -> SUBSET Action]
  /\ settled \in [Action -> SettledStatus] /\ commits \in [Action -> Nat]
  /\ DOMAIN opc = Oracle /\ held \in [Oracle -> Nat] /\ raced \subseteq Action
  /\ visited \in [Oracle -> SUBSET Action] /\ eyed \in [Oracle -> SUBSET Action]

\* A call of stage_action is under way only for an action the envelope brought.
WorkerSound(w) ==
  /\ staged[w] <= MaxStaged /\ sent[w] <= staged[w]
  /\ call[w] # "none" => spc[w] \in Envelope /\ sent[w] < staged[w]
  /\ spc[w] \in Relayed => sent[w] = staged[w]
  /\ sent[w] # 0 => spc[w] \in Envelope \cup Relayed \cup {"raised KeyError"}

\* The actions whose call of stage_action got past the look at the dictionary:
\* each made one list at most.
Made ==
  {a \in Action : \/ a[2] <= sent[a[1]]
                  \/ a[2] = sent[a[1]] + 1 /\ (call[a[1]] = "append" \/ spc[a[1]] = "raised KeyError")}

\* What an oracle went through is settled; what it has in its eye is staged, and
\* at the end of its loop the list holds nothing else.
OracleSound(o) ==
  /\ opc[o] \in {"commit", "rollback", "delete"} => held[o] \in 1 .. fresh
  /\ \A a \in visited[o] : settled[a] \notin {"none", "STAGED"}
  /\ \A a \in eyed[o] : settled[a] # "none" /\ (a \in raced \/ settled[a] = "STAGED")
  /\ eyed[o] # {} => opc[o] = "commit"
  /\ opc[o] = "delete" => lists[held[o]] \subseteq visited[o] \cup raced

ActionSound(a) ==
  /\ settled[a] # "none" <=> a[2] <= sent[a[1]]
  /\ a \notin raced => commits[a] = IF settled[a] = "COMMITTED" THEN 1 ELSE 0
  /\ settled[a] = "STAGED" => a \in raced \/ \E t \in Trace : escrow[t] # 0 /\ a \in lists[escrow[t]]

VInv ==
  /\ VTypes /\ fresh <= Cardinality(Made)
  /\ \A w \in Worker : WorkerSound(w)
  /\ \A o \in Oracle : OracleSound(o)
  /\ \A l \in ListNo : \A a \in lists[l] : settled[a] # "none"
  /\ \A a \in Action : ActionSound(a)

LEMMA ActionsAreFinite ==
  /\ IsFiniteSet(Action) /\ Cardinality(Action) \in Nat
  /\ \A S : S \subseteq Action => IsFiniteSet(S) /\ Cardinality(S) \in Nat /\ Cardinality(S) <= Cardinality(Action)
<1>1. IsFiniteSet(1 .. MaxStaged)
  BY SandboxAssumption, FS_Interval
<1>2. IsFiniteSet(Action)
  BY <1>1, SandboxAssumption, FS_Product DEF Action
<1> QED BY <1>2, FS_Subset, FS_CardinalityType

\* Every list of the dictionary has a number the model provides for.
LEMMA ListsAreThere ==
  ASSUME VInv
  PROVE  /\ fresh <= Cardinality(Action)
         /\ \A t \in Trace : escrow[t] # 0 => escrow[t] \in ListNo /\ escrow[t] \in 1 .. fresh
         /\ \A l \in 1 .. fresh : l \in ListNo
<1>1. Cardinality(Made) \in Nat /\ Cardinality(Made) <= Cardinality(Action) /\ Cardinality(Action) \in Nat
  BY ActionsAreFinite DEF Made
<1>2. fresh \in Nat /\ escrow \in [Trace -> 0 .. fresh] /\ fresh <= Cardinality(Made)
  BY DEF VInv, VTypes
<1> QED BY <1>1, <1>2 DEF ListNo

LEMMA VInitInv ==
  ASSUME VInit
  PROVE  VInv
<1>1. VTypes
  <2>1. of \in [Worker \cup Oracle -> Trace]
    BY SandboxAssumption DEF VInit
  <2> QED BY <2>1 DEF VInit, VTypes, SettledStatus, ListNo
<1>2. fresh <= Cardinality(Made)
  <2>1. Cardinality(Made) \in Nat
    BY ActionsAreFinite DEF Made
  <2> QED BY <2>1 DEF VInit
<1>3. ASSUME NEW w \in Worker PROVE WorkerSound(w)
  BY SandboxAssumption DEF VInit, WorkerSound
<1>4. ASSUME NEW o \in Oracle PROVE OracleSound(o)
  BY DEF VInit, OracleSound
<1>5. ASSUME NEW a \in Action PROVE ActionSound(a)
  <2>1. a[1] \in Worker /\ a[2] \in 1 .. MaxStaged
    BY DEF Action
  <2> QED BY <2>1, SandboxAssumption DEF VInit, ActionSound
<1> QED BY <1>1, <1>2, <1>3, <1>4, <1>5 DEF VInv, VInit, ListNo

\* A step of a worker that leaves the coordinator alone.
LEMMA VOutside ==
  ASSUME VInv, VTypes', UNCHANGED <<of, sent, vti>>, Made \subseteq Made',
         \A w \in Worker : WorkerSound(w)'
  PROVE  VInv'
<1>1. fresh' <= Cardinality(Made')
  <2>1. Cardinality(Made) <= Cardinality(Made') /\ Cardinality(Made) \in Nat /\ Cardinality(Made') \in Nat
    <3>1. Made' \subseteq Action
      BY DEF Made
    <3> QED BY <3>1, ActionsAreFinite, FS_Subset
  <2> QED BY <2>1 DEF VInv, VTypes, vti
<1>2. ASSUME NEW o \in Oracle PROVE OracleSound(o)'
  BY DEF VInv, OracleSound, vti
<1>3. ASSUME NEW a \in Action PROVE ActionSound(a)'
  BY DEF VInv, ActionSound, vti
<1> QED BY <1>1, <1>2, <1>3 DEF VInv, vti

\* The child and the end of a run: the coordinator is not called.
LEMMA VChild ==
  ASSUME VInv, NEW w \in Worker,
         ChildEffect(w) \/ ChildLeaves(w) \/ ParentKills(w) \/ ParentReads(w) \/ ParentRaises(w) \/ RunEnds(w)
  PROVE  VInv'
<1>1. /\ UNCHANGED <<of, sent, call, vti>>
      /\ \A v \in Worker \ {w} : spc'[v] = spc[v] /\ staged'[v] = staged[v]
      /\ DOMAIN spc' = Worker
  BY DEF ChildEffect, ChildLeaves, ParentKills, ParentReads, ParentRaises, RunEnds, SGoto, VInv, VTypes
<1>2. /\ staged' \in [Worker -> Nat] /\ sink' \in [Worker -> Nat]
      /\ (staged'[w] # staged[w] =>
            staged'[w] = staged[w] + 1 /\ staged[w] < MaxStaged /\ spc[w] = "func")
      /\ staged'[w] # staged[w] => spc'[w] \in {"func", "error"}
  <2>1. staged \in [Worker -> Nat] /\ sink \in [Worker -> Nat] /\ MaxStaged \in Nat
    BY SandboxAssumption DEF VInv, VTypes
  <2>2. CASE ChildEffect(w)
    <3>1. PICK e \in Effect :
            \/ sink' = [sink EXCEPT ![w] = @ + 1] /\ UNCHANGED <<spc, staged>>
            \/ /\ staged' = [staged EXCEPT ![w] = @ + IF e \in Stages THEN 1 ELSE 0]
               /\ (\E l \in {"func", "error"} : SGoto(w, l)) /\ UNCHANGED sink
      BY <2>2 DEF ChildEffect
    <3>2. spc[w] = "func" /\ staged[w] + sink[w] < MaxStaged
      BY <2>2 DEF ChildEffect
    <3>3. CASE sink' = [sink EXCEPT ![w] = @ + 1] /\ UNCHANGED <<spc, staged>>
      <4>1. staged' = staged /\ sink' = [sink EXCEPT ![w] = sink[w] + 1]
        BY <3>3
      <4>2. sink' \in [Worker -> Nat]
        BY <2>1, <4>1
      <4> QED BY <2>1, <4>1, <4>2
    <3>4. CASE /\ staged' = [staged EXCEPT ![w] = @ + IF e \in Stages THEN 1 ELSE 0]
               /\ (\E l \in {"func", "error"} : SGoto(w, l)) /\ UNCHANGED sink
      <4>1. spc'[w] \in {"func", "error"}
        BY <3>4 DEF SGoto, VInv, VTypes
      <4>2. staged'[w] = staged[w] + (IF e \in Stages THEN 1 ELSE 0) /\ staged' \in [Worker -> Nat]
        BY <2>1, <3>4
      <4>3. staged[w] < MaxStaged
        BY <2>1, <3>2
      <4> QED BY <2>1, <3>2, <3>4, <4>1, <4>2, <4>3
    <3> QED BY <3>1, <3>3, <3>4
  <2>3. CASE ~ChildEffect(w)
    <3>1. staged' = staged /\ sink' = sink
      BY <2>3 DEF ChildLeaves, ParentKills, ParentReads, ParentRaises, RunEnds
    <3> QED BY <2>1, <3>1
  <2> QED BY <2>2, <2>3
<1>3. VTypes'
  BY <1>1, <1>2 DEF VInv, VTypes, vti
<1>4. Made \subseteq Made'
  <2>1. spc[w] # "raised KeyError"
    BY DEF ChildEffect, ChildLeaves, ParentKills, ParentReads, ParentRaises, RunEnds, Envelope, Unread
  <2> QED BY <1>1, <2>1 DEF Made, Action
<1>5. ASSUME NEW v \in Worker PROVE WorkerSound(v)'
  <2>1. CASE v # w
    BY <1>1, <2>1 DEF VInv, WorkerSound
  <2>2. CASE v = w
    <3>1. call[w] = "none"
      BY DEF ChildEffect, ChildLeaves, ParentKills, ParentReads, ParentRaises, RunEnds, Envelope, Unread, VInv, WorkerSound
    <3>2. staged'[w] <= MaxStaged /\ sent'[w] <= staged'[w]
      <4>1. staged[w] \in Nat /\ sent[w] \in Nat /\ MaxStaged \in Nat /\ staged[w] <= MaxStaged /\ sent[w] <= staged[w]
        BY SandboxAssumption DEF VInv, VTypes, WorkerSound
      <4> QED BY <1>1, <1>2, <4>1
    <3>3. spc'[w] \in Relayed => sent'[w] = staged'[w]
      BY <1>1, <1>2 DEF ChildEffect, ChildLeaves, ParentKills, ParentReads, ParentRaises, RunEnds, SGoto, VInv, VTypes,
                        Relayed, Unread
    <3>4. sent[w] # 0 => RunEnds(w) /\ spc'[w] \in Relayed
      BY DEF ChildEffect, ChildLeaves, ParentKills, ParentReads, ParentRaises, RunEnds, SGoto, VInv, VTypes,
             WorkerSound, Relayed, Unread, Envelope
    <3> QED BY <1>1, <2>2, <3>1, <3>2, <3>3, <3>4 DEF WorkerSound
  <2> QED BY <2>1, <2>2
<1> QED BY <1>1, <1>3, <1>4, <1>5, VOutside

\* The look at the dictionary.
LEMMA VStageLooks ==
  ASSUME VInv, NEW w \in Worker, StageLooks(w)
  PROVE  VInv'
<1>1. /\ UNCHANGED <<of, spc, staged, sent, sink, vti>> /\ spc[w] \in Envelope /\ sent[w] < staged[w]
      /\ call' \in [Worker -> {"none", "create", "append"}] /\ call[w] = "none"
      /\ \A v \in Worker \ {w} : call'[v] = call[v]
  BY DEF StageLooks, VInv, VTypes
<1>2. VTypes'
  BY <1>1 DEF VInv, VTypes, vti
<1>3. Made \subseteq Made'
  BY <1>1 DEF Made, Action
<1>4. ASSUME NEW v \in Worker PROVE WorkerSound(v)'
  BY <1>1 DEF VInv, WorkerSound
<1> QED BY <1>1, <1>2, <1>3, <1>4, VOutside

\* A new list; what the one it replaces holds is lost to the race.
LEMMA VStageCreates ==
  ASSUME VInv, NEW w \in Worker, StageCreates(w)
  PROVE  VInv'
<1> DEFINE t == of[w]
           x == <<w, sent[w] + 1>>
<1>1. /\ call[w] = "create" /\ call' = [call EXCEPT ![w] = "append"]
      /\ fresh' = fresh + 1 /\ escrow' = [escrow EXCEPT ![t] = fresh + 1]
      /\ raced' = raced \cup (IF escrow[t] # 0 THEN lists[escrow[t]] ELSE {})
      /\ UNCHANGED <<of, spc, staged, sent, sink, lists, settled, commits, opc, held, visited, eyed>>
  BY DEF StageCreates
<1>2. /\ t \in Trace /\ sent[w] \in Nat /\ staged[w] \in Nat /\ fresh \in Nat
      /\ sent[w] < staged[w] /\ staged[w] <= MaxStaged /\ spc[w] \in Envelope
      /\ escrow \in [Trace -> 0 .. fresh] /\ call \in [Worker -> {"none", "create", "append"}]
      /\ lists \in [ListNo -> SUBSET Action] /\ raced \subseteq Action
      /\ MaxStaged \in Nat
  BY <1>1, SandboxAssumption DEF VInv, VTypes, WorkerSound
<1> HIDE DEF t
<1>3. raced' \subseteq Action /\ raced \subseteq raced'
  BY <1>1, <1>2, ListsAreThere
<1>4. /\ escrow' \in [Trace -> 0 .. fresh'] /\ fresh' \in Nat
      /\ \A u \in Trace \ {t} : escrow'[u] = escrow[u]
      /\ call' \in [Worker -> {"none", "create", "append"}]
      /\ call'[w] = "append" /\ \A v \in Worker \ {w} : call'[v] = call[v]
  BY <1>1, <1>2
<1>5. VTypes'
  BY <1>1, <1>3, <1>4 DEF VInv, VTypes
<1>6. fresh' <= Cardinality(Made')
  <2>1. x \in Action
    BY <1>2 DEF Action
  <2>2. x \notin Made /\ x \in Made'
    <3>1. x[1] = w /\ x[2] = sent[w] + 1
      OBVIOUS
    <3>2. ~(sent[w] + 1 <= sent[w])
      BY <1>2
    <3>3. spc[w] # "raised KeyError"
      BY <1>2 DEF Envelope
    <3> QED BY <1>1, <1>4, <2>1, <3>1, <3>2, <3>3 DEF Made
  <2>3. Made \cup {x} \subseteq Made'
    <3>1. Made \subseteq Made'
      BY <1>1, <1>4 DEF Made, Action
    <3> QED BY <2>2, <3>1
  <2> HIDE DEF x
  <2>4. IsFiniteSet(Made) /\ IsFiniteSet(Made')
    <3>1. Made \subseteq Action /\ Made' \subseteq Action
      BY DEF Made
    <3> QED BY <3>1, ActionsAreFinite
  <2>5. Cardinality(Made \cup {x}) = Cardinality(Made) + 1
    BY <2>2, <2>4, FS_AddElement
  <2>6. Cardinality(Made \cup {x}) <= Cardinality(Made') /\ Cardinality(Made') \in Nat /\ Cardinality(Made) \in Nat
    BY <2>3, <2>4, FS_Subset, FS_CardinalityType
  <2>7. fresh <= Cardinality(Made)
    BY DEF VInv
  <2> QED BY <1>1, <1>2, <2>5, <2>6, <2>7
<1>7. ASSUME NEW v \in Worker PROVE WorkerSound(v)'
  BY <1>1, <1>2, <1>4 DEF VInv, WorkerSound
<1>8. ASSUME NEW o \in Oracle PROVE OracleSound(o)'
  <2>1. opc[o] \in {"commit", "rollback", "delete"} => held[o] \in 1 .. fresh'
    BY <1>1, <1>2 DEF VInv, OracleSound
  <2> QED BY <1>1, <1>3, <2>1 DEF VInv, OracleSound
<1>9. ASSUME NEW a \in Action PROVE ActionSound(a)'
  <2>1. settled[a] = "STAGED" => a \in raced' \/ \E u \in Trace : escrow'[u] # 0 /\ a \in lists'[escrow'[u]]
    <3> SUFFICES ASSUME settled[a] = "STAGED", a \notin raced'
                 PROVE  \E u \in Trace : escrow'[u] # 0 /\ a \in lists'[escrow'[u]]
      OBVIOUS
    <3>1. PICK u \in Trace : escrow[u] # 0 /\ a \in lists[escrow[u]]
      BY <1>3 DEF VInv, ActionSound
    <3>2. u # t
      BY <1>1, <3>1
    <3> QED BY <1>1, <1>4, <3>1, <3>2
  <2> QED BY <1>1, <1>3, <2>1 DEF VInv, ActionSound
<1> QED BY <1>1, <1>5, <1>6, <1>7, <1>8, <1>9 DEF VInv

\* The append: on the list of the trace by now, or a KeyError without one.
LEMMA VStageAppends ==
  ASSUME VInv, NEW w \in Worker, StageAppends(w)
  PROVE  VInv'
<1> DEFINE t == of[w]
           l == escrow[t]
           x == <<w, sent[w] + 1>>
<1>1. /\ t \in Trace /\ sent[w] \in Nat /\ staged[w] \in Nat /\ fresh \in Nat /\ MaxStaged \in Nat
      /\ sent[w] < staged[w] /\ staged[w] <= MaxStaged /\ spc[w] \in Envelope /\ call[w] = "append"
      /\ call \in [Worker -> {"none", "create", "append"}] /\ sent \in [Worker -> Nat] /\ DOMAIN spc = Worker
  BY SandboxAssumption DEF VInv, VTypes, WorkerSound, StageAppends
<1>2. /\ call' \in [Worker -> {"none", "create", "append"}] /\ call'[w] = "none"
      /\ \A v \in Worker \ {w} : call'[v] = call[v]
      /\ UNCHANGED <<of, staged, sink, escrow, fresh, commits, opc, held, visited, eyed>>
  BY <1>1 DEF StageAppends
<1>3. CASE l = 0
  <2>1. /\ spc' = [spc EXCEPT ![w] = "raised KeyError"] /\ UNCHANGED <<lists, settled, sent, raced>>
    BY <1>3 DEF StageAppends, SGoto
  <2>2. /\ DOMAIN spc' = Worker /\ spc'[w] = "raised KeyError"
        /\ \A v \in Worker \ {w} : spc'[v] = spc[v]
    BY <1>1, <2>1
  <2>3. VTypes'
    BY <1>2, <2>1, <2>2 DEF VInv, VTypes
  <2>4. Made \subseteq Made'
    BY <1>2, <2>1, <2>2 DEF Made, Action
  <2>5. ASSUME NEW v \in Worker PROVE WorkerSound(v)'
    BY <1>2, <2>1, <2>2 DEF VInv, WorkerSound, Relayed
  <2> QED BY <1>2, <2>1, <2>3, <2>4, <2>5, VOutside DEF vti
<1>4. CASE l # 0
  <2>1. /\ sent' = [sent EXCEPT ![w] = sent[w] + 1]
        /\ lists' = [lists EXCEPT ![l] = lists[l] \cup {x}]
        /\ settled' = [settled EXCEPT ![x] = "STAGED"]
        /\ raced' = raced \cup (IF \E o \in Oracle : opc[o] = "delete" /\ held[o] = l THEN {x} ELSE {})
        /\ UNCHANGED spc
    BY <1>1, <1>4, ListsAreThere DEF StageAppends, VInv, VTypes
  <2>2. x \in Action /\ x[1] = w /\ x[2] = sent[w] + 1
    BY <1>1 DEF Action
  <2>3. l \in ListNo
    BY <1>1, <1>4, ListsAreThere
  <2>4. settled[x] = "none" /\ ActionSound(x)
    <3>1. ~(sent[w] + 1 <= sent[w])
      BY <1>1
    <3> QED BY <2>2, <3>1 DEF VInv, ActionSound
  <2> HIDE DEF x, l
  <2>5. /\ lists' \in [ListNo -> SUBSET Action] /\ lists'[l] = lists[l] \cup {x}
        /\ \A k \in ListNo \ {l} : lists'[k] = lists[k]
    BY <2>1, <2>2, <2>3 DEF VInv, VTypes
  <2>6. /\ settled' \in [Action -> SettledStatus] /\ settled'[x] = "STAGED"
        /\ \A a \in Action \ {x} : settled'[a] = settled[a]
    BY <2>1, <2>2 DEF VInv, VTypes, SettledStatus
  <2>7. /\ sent' \in [Worker -> Nat] /\ sent'[w] = sent[w] + 1
        /\ \A v \in Worker \ {w} : sent'[v] = sent[v]
    BY <1>1, <2>1
  <2>8. raced' \subseteq Action /\ raced \subseteq raced'
    BY <2>1, <2>2 DEF VInv, VTypes
  <2>9. VTypes'
    BY <1>2, <2>1, <2>5, <2>6, <2>7, <2>8 DEF VInv, VTypes
  <2>10. fresh' <= Cardinality(Made')
    <3>1. Made \subseteq Made'
      <4>1. ASSUME NEW a \in Made PROVE a \in Made'
        <5>1. a \in Action /\ a[1] \in Worker /\ a[2] \in Nat
          <6>1. a \in Worker \X (1 .. MaxStaged)
            BY <4>1 DEF Made, Action
          <6> QED BY <6>1 DEF Action
        <5>2. CASE a[1] # w
          BY <1>2, <2>1, <2>7, <4>1, <5>1, <5>2 DEF Made
        <5>3. CASE a[1] = w
          <6>1. a[2] <= sent[w] + 1
            <7>1. a[2] <= sent[a[1]] \/ a[2] = sent[a[1]] + 1
              BY <4>1 DEF Made
            <7> QED BY <1>1, <5>1, <5>3, <7>1
          <6> QED BY <2>7, <5>1, <5>3, <6>1 DEF Made
        <5> QED BY <5>2, <5>3
      <4> QED BY <4>1
    <3>2. Made' \subseteq Action /\ Made \subseteq Action
      BY DEF Made
    <3>3. Cardinality(Made) <= Cardinality(Made') /\ Cardinality(Made) \in Nat /\ Cardinality(Made') \in Nat
      BY <3>1, <3>2, ActionsAreFinite, FS_Subset
    <3>4. fresh <= Cardinality(Made)
      BY DEF VInv
    <3> QED BY <1>1, <1>2, <3>3, <3>4
  <2>11. ASSUME NEW v \in Worker PROVE WorkerSound(v)'
    <3>1. CASE v # w
      BY <1>2, <2>1, <2>7, <3>1 DEF VInv, WorkerSound
    <3>2. CASE v = w
      <4>1. staged'[w] = staged[w] /\ sent'[w] <= staged[w] /\ staged'[w] <= MaxStaged
        BY <1>1, <1>2, <2>7
      <4>2. spc'[w] \notin Relayed /\ spc'[w] \in Envelope
        BY <1>1, <2>1 DEF Envelope, Relayed
      <4> QED BY <1>2, <3>2, <4>1, <4>2 DEF WorkerSound
    <3> QED BY <3>1, <3>2
  <2>12. ASSUME NEW o \in Oracle PROVE OracleSound(o)'
    <3>1. OracleSound(o) /\ visited[o] \subseteq Action /\ eyed[o] \subseteq Action
      BY DEF VInv, VTypes
    <3>2. x \notin visited[o] /\ x \notin eyed[o]
      BY <2>4, <3>1 DEF OracleSound
    <3>3. opc[o] = "delete" => lists'[held[o]] \subseteq visited[o] \cup raced'
      <4> SUFFICES ASSUME opc[o] = "delete"
                   PROVE  lists'[held[o]] \subseteq visited[o] \cup raced'
        OBVIOUS
      <4>1. held[o] \in ListNo /\ lists[held[o]] \subseteq visited[o] \cup raced
        BY <3>1, ListsAreThere DEF OracleSound
      <4>2. CASE held[o] = l
        BY <2>1, <2>5, <4>1, <4>2
      <4>3. CASE held[o] # l
        BY <2>5, <2>8, <4>1, <4>3
      <4> QED BY <4>2, <4>3
    <3>4. \A a \in visited[o] : settled'[a] \notin {"none", "STAGED"}
      BY <2>6, <3>1, <3>2 DEF OracleSound
    <3>5. \A a \in eyed[o] : settled'[a] # "none" /\ (a \in raced' \/ settled'[a] = "STAGED")
      BY <2>6, <2>8, <3>1, <3>2 DEF OracleSound
    <3> QED BY <1>2, <3>1, <3>3, <3>4, <3>5 DEF OracleSound
  <2>13. ASSUME NEW k \in ListNo, NEW a \in lists'[k] PROVE settled'[a] # "none"
    <3>1. lists[k] \subseteq Action /\ (a \in lists[k] \/ a = x)
      BY <2>5 DEF VInv, VTypes
    <3> QED BY <2>6, <3>1 DEF VInv
  <2>14. ASSUME NEW a \in Action PROVE ActionSound(a)'
    <3>1. a[1] \in Worker /\ a[2] \in Nat /\ ActionSound(a)
      BY DEF Action, VInv
    <3>2. CASE a = x
      <4>1. settled'[a] # "none" /\ a[2] <= sent'[a[1]]
        BY <1>1, <2>2, <2>6, <2>7, <3>2
      <4>2. a \notin raced' => commits'[a] = 0
        BY <1>2, <2>4, <2>8, <3>2 DEF ActionSound
      <4>3. escrow'[t] = l /\ a \in lists'[l] /\ t' = t
        BY <1>2, <2>5, <3>2 DEF l
      <4> QED BY <1>1, <1>4, <2>6, <3>2, <4>1, <4>2, <4>3 DEF ActionSound
    <3>3. CASE a # x
      <4>1. settled'[a] = settled[a]
        BY <2>6, <3>3
      <4>2. a[2] <= sent'[a[1]] <=> a[2] <= sent[a[1]]
        <5>1. CASE a[1] # w
          BY <2>7, <3>1, <5>1
        <5>2. CASE a[1] = w
          <6>1. a[2] # sent[w] + 1
            BY <2>2, <3>3, <5>2 DEF Action, x
          <6> QED BY <1>1, <2>7, <3>1, <5>2, <6>1
        <5> QED BY <5>1, <5>2
      <4>3. settled'[a] = "STAGED" => a \in raced' \/ \E u \in Trace : escrow'[u] # 0 /\ a \in lists'[escrow'[u]]
        <5> SUFFICES ASSUME settled[a] = "STAGED", a \notin raced
                     PROVE  \E u \in Trace : escrow'[u] # 0 /\ a \in lists'[escrow'[u]]
          BY <2>8, <4>1
        <5>1. PICK u \in Trace : escrow[u] # 0 /\ a \in lists[escrow[u]]
          BY <3>1 DEF ActionSound
        <5>2. escrow[u] \in ListNo
          BY <5>1, ListsAreThere
        <5> QED BY <1>2, <2>5, <5>1, <5>2
      <4> QED BY <1>2, <2>8, <3>1, <4>1, <4>2, <4>3 DEF ActionSound
    <3> QED BY <3>2, <3>3
  <2> QED BY <2>9, <2>10, <2>11, <2>12, <2>13, <2>14 DEF VInv
<1> QED BY <1>3, <1>4

\* A step of an oracle leaves the workers and their lists alone.
LEMMA VOracle ==
  ASSUME VInv, UNCHANGED oracleFrame, VTypes',
         \A o \in Oracle : OracleSound(o)', \A a \in Action : ActionSound(a)'
  PROVE  VInv'
<1>1. UNCHANGED <<of, spc, staged, sent, call, sink, fresh, lists>>
  BY DEF oracleFrame
<1>2. fresh' <= Cardinality(Made')
  <2>1. Made' = Made
    BY <1>1 DEF Made
  <2> QED BY <1>1, <2>1 DEF VInv
<1>3. ASSUME NEW w \in Worker PROVE WorkerSound(w)'
  BY <1>1 DEF VInv, WorkerSound
<1>4. ASSUME NEW l \in ListNo, NEW a \in lists'[l] PROVE settled'[a] # "none"
  <2>1. a \in Action /\ settled[a] # "none" /\ a[1] \in Worker
    BY <1>1 DEF VInv, VTypes, Action
  <2> QED BY <1>1, <2>1 DEF VInv, ActionSound
<1> QED BY <1>2, <1>3, <1>4 DEF VInv

\* Looking at the trace, at its next escrow, or at the end of its list.
LEMMA VLooks ==
  ASSUME VInv, NEW o \in Oracle, OracleReads(o) \/ OracleLooks(o) \/ OracleFinishes(o)
  PROVE  VInv'
<1>1. UNCHANGED <<oracleFrame, escrow, settled, commits, raced>>
  BY DEF OracleReads, OracleLooks, OracleFinishes
<1>2. UNCHANGED <<of, fresh, lists, sent>>
  BY <1>1 DEF oracleFrame
<1>3. OracleSound(o) /\ of[o] \in Trace /\ visited[o] \subseteq Action /\ eyed[o] \subseteq Action
  BY DEF VInv, VTypes
<1>4. VTypes' /\ OracleSound(o)' /\ \A p \in Oracle \ {o} : OracleSound(p)'
  <2>1. CASE OracleReads(o)
    <3>1. /\ DOMAIN opc' = Oracle /\ held' \in [Oracle -> Nat]
          /\ \A p \in Oracle \ {o} : opc'[p] = opc[p] /\ held'[p] = held[p]
          /\ visited' = visited /\ eyed' = eyed
          /\ opc'[o] # "delete" /\ (opc'[o] # "done" => escrow[of[o]] # 0 /\ held'[o] = escrow[of[o]])
      <4>1. /\ DOMAIN opc = Oracle /\ held \in [Oracle -> Nat] /\ (escrow[of[o]] \in 0 .. fresh) /\ fresh \in Nat
        BY <1>3 DEF VInv, VTypes
      <4>2. visited' = visited /\ eyed' = eyed
        BY <2>1 DEF OracleReads
      <4>3. CASE escrow[of[o]] = 0 \/ lists[escrow[of[o]]] = {}
        <5>1. opc' = [opc EXCEPT ![o] = "done"] /\ held' = held
          BY <2>1, <4>3 DEF OracleReads
        <5> QED BY <4>1, <4>2, <5>1
      <4>4. CASE ~(escrow[of[o]] = 0 \/ lists[escrow[of[o]]] = {})
        <5>1. PICK d \in {"commit", "rollback"} : opc' = [opc EXCEPT ![o] = d]
          BY <2>1, <4>4 DEF OracleReads
        <5>2. held' = [held EXCEPT ![o] = escrow[of[o]]]
          BY <2>1, <4>4 DEF OracleReads
        <5>3. escrow[of[o]] \in Nat
          BY <4>1
        <5> QED BY <4>1, <4>2, <4>4, <5>1, <5>2, <5>3
      <4> QED BY <4>3, <4>4
    <3>2. VTypes'
      BY <1>1, <3>1 DEF oracleFrame, VInv, VTypes
    <3>3. escrow[of[o]] # 0 => escrow[of[o]] \in 1 .. fresh
      BY <1>3, ListsAreThere
    <3>4. OracleSound(o)'
      <4>1. eyed[o] = {}
        BY <1>3, <2>1 DEF OracleReads, OracleSound
      <4> QED BY <1>1, <1>2, <1>3, <3>1, <3>3, <4>1 DEF OracleSound
    <3> QED BY <1>1, <1>2, <3>1, <3>2, <3>4 DEF VInv, OracleSound
  <2>2. CASE OracleLooks(o)
    <3>1. opc[o] = "commit" /\ opc' = opc /\ held' = held
      BY <2>2 DEF OracleLooks
    <3>2. PICK a \in Unvisited(o) :
            IF settled[a] = "STAGED" THEN eyed' = [eyed EXCEPT ![o] = {a}] /\ UNCHANGED visited
            ELSE visited' = [visited EXCEPT ![o] = visited[o] \cup {a}] /\ UNCHANGED eyed
      BY <2>2 DEF OracleLooks, VInv, VTypes
    <3>3. a \in Action /\ settled[a] # "none"
      <4>1. held[o] \in ListNo
        BY <1>3, <3>1, ListsAreThere DEF OracleSound
      <4> QED BY <3>2, <4>1 DEF Unvisited, VInv, VTypes
    <3>4. VTypes'
      BY <1>1, <3>1, <3>2, <3>3 DEF oracleFrame, VInv, VTypes
    <3>5. \A p \in Oracle \ {o} : visited'[p] = visited[p] /\ eyed'[p] = eyed[p]
      BY <3>2 DEF VInv, VTypes
    <3>6. OracleSound(o)'
      <4>1. CASE settled[a] = "STAGED"
        <5>1. eyed'[o] = {a} /\ visited'[o] = visited[o]
          BY <3>2, <4>1 DEF VInv, VTypes
        <5> QED BY <1>1, <1>2, <1>3, <3>1, <3>3, <4>1, <5>1 DEF OracleSound
      <4>2. CASE settled[a] # "STAGED"
        <5>1. eyed'[o] = eyed[o] /\ visited'[o] = visited[o] \cup {a}
          BY <3>2, <4>2 DEF VInv, VTypes
        <5> QED BY <1>1, <1>2, <1>3, <3>1, <3>3, <4>2, <5>1 DEF OracleSound
      <4> QED BY <4>1, <4>2
    <3> QED BY <1>1, <1>2, <3>1, <3>4, <3>5, <3>6 DEF VInv, OracleSound
  <2>3. CASE OracleFinishes(o)
    <3>1. /\ opc[o] \in {"commit", "rollback"} /\ Unvisited(o) = {}
          /\ DOMAIN opc' = Oracle /\ opc'[o] = "delete"
          /\ \A p \in Oracle \ {o} : opc'[p] = opc[p]
          /\ UNCHANGED <<held, visited, eyed>>
      BY <2>3 DEF OracleFinishes, VInv, VTypes
    <3>2. VTypes'
      BY <1>1, <3>1 DEF oracleFrame, VInv, VTypes
    <3>3. lists[held[o]] \subseteq visited[o]
      BY <3>1 DEF Unvisited
    <3>4. eyed[o] = {}
      BY <2>3 DEF OracleFinishes
    <3> QED BY <1>1, <1>2, <1>3, <3>1, <3>2, <3>3, <3>4 DEF VInv, OracleSound
  <2> QED BY <2>1, <2>2, <2>3
<1>5. ASSUME NEW a \in Action PROVE ActionSound(a)'
  BY <1>1, <1>2 DEF VInv, ActionSound
<1> QED BY <1>1, <1>4, <1>5, VOracle

\* Settling an action: whoever else is about to settle it has lost a race.
LEMMA VSettles ==
  ASSUME VInv, NEW o \in Oracle, OracleCommits(o) \/ OracleRollsBack(o)
  PROVE  VInv'
<1>1. UNCHANGED <<oracleFrame, escrow, opc, held>>
  BY DEF OracleCommits, OracleRollsBack
<1>2. UNCHANGED <<of, fresh, lists, sent>>
  BY <1>1 DEF oracleFrame
<1>3. PICK a \in Action, st \in {"COMMITTED", "ROLLED_BACK"} :
        /\ settled[a] # "none"
        /\ settled' = [settled EXCEPT ![a] = st]
        /\ visited' = [visited EXCEPT ![o] = visited[o] \cup {a}]
        /\ \/ /\ st = "COMMITTED" /\ a \in eyed[o]
              /\ commits' = [commits EXCEPT ![a] = commits[a] + 1]
              /\ eyed' = [eyed EXCEPT ![o] = {}] /\ raced' = raced \cup Eyed(o, a)
           \/ /\ st = "ROLLED_BACK" /\ UNCHANGED <<commits, eyed>>
              /\ opc[o] = "rollback"
              /\ raced' = raced \cup Eyed(o, a) \cup (IF settled[a] = "COMMITTED" THEN {a} ELSE {})
  <2>1. CASE OracleCommits(o)
    <3>1. PICK a \in eyed[o] :
            /\ settled' = [settled EXCEPT ![a] = "COMMITTED"] /\ commits' = [commits EXCEPT ![a] = @ + 1]
            /\ visited' = [visited EXCEPT ![o] = @ \cup {a}] /\ eyed' = [eyed EXCEPT ![o] = {}]
            /\ raced' = raced \cup Eyed(o, a)
      BY <2>1 DEF OracleCommits
    <3>2. a \in Action /\ settled[a] # "none"
      BY DEF VInv, VTypes, OracleSound
    <3>3. /\ visited' = [visited EXCEPT ![o] = visited[o] \cup {a}]
          /\ commits' = [commits EXCEPT ![a] = commits[a] + 1]
      BY <3>1, <3>2 DEF VInv, VTypes
    <3> QED BY <3>1, <3>2, <3>3
  <2>2. CASE OracleRollsBack(o)
    <3>1. opc[o] = "rollback" /\ UNCHANGED <<commits, eyed>>
      BY <2>2 DEF OracleRollsBack
    <3>2. PICK a \in Unvisited(o) :
            /\ settled' = [settled EXCEPT ![a] = "ROLLED_BACK"]
            /\ visited' = [visited EXCEPT ![o] = @ \cup {a}]
            /\ raced' = raced \cup Eyed(o, a) \cup (IF settled[a] = "COMMITTED" THEN {a} ELSE {})
      BY <2>2 DEF OracleRollsBack
    <3>3. a \in Action /\ settled[a] # "none"
      <4>1. held[o] \in ListNo
        BY <3>1, ListsAreThere DEF VInv, OracleSound
      <4> QED BY <3>2, <4>1 DEF Unvisited, VInv, VTypes
    <3>4. visited' = [visited EXCEPT ![o] = visited[o] \cup {a}]
      BY <3>2 DEF VInv, VTypes
    <3> QED BY <3>1, <3>2, <3>3, <3>4
  <2> QED BY <2>1, <2>2
<1>4. Eyed(o, a) \subseteq {a} /\ \A p \in Oracle \ {o} : a \in eyed[p] => a \in Eyed(o, a)
  BY DEF Eyed
<1>5. /\ settled' \in [Action -> SettledStatus] /\ settled'[a] = st
      /\ \A b \in Action \ {a} : settled'[b] = settled[b]
  BY <1>3 DEF VInv, VTypes, SettledStatus
<1>6. /\ visited' \in [Oracle -> SUBSET Action] /\ visited'[o] = visited[o] \cup {a}
      /\ \A p \in Oracle \ {o} : visited'[p] = visited[p]
  BY <1>3 DEF VInv, VTypes
<1>7. /\ commits' \in [Action -> Nat]
      /\ \A b \in Action \ {a} : commits'[b] = commits[b]
  BY <1>3 DEF VInv, VTypes
<1>8. /\ eyed' \in [Oracle -> SUBSET Action]
      /\ \A p \in Oracle : eyed'[p] = eyed[p] \/ (p = o /\ eyed'[p] = {})
  BY <1>3 DEF VInv, VTypes
<1>9. raced \subseteq raced' /\ raced' \subseteq Action /\ Eyed(o, a) \subseteq raced' /\ raced' \subseteq raced \cup {a}
  BY <1>3, <1>4 DEF VInv, VTypes
<1>10. VTypes'
  BY <1>1, <1>5, <1>6, <1>7, <1>8, <1>9 DEF oracleFrame, VInv, VTypes
<1>11. ASSUME NEW p \in Oracle PROVE OracleSound(p)'
  <2>1. OracleSound(p) /\ visited[p] \subseteq Action /\ eyed[p] \subseteq Action
    BY DEF VInv, VTypes
  <2>2. \A b \in visited'[p] : settled'[b] \notin {"none", "STAGED"}
    BY <1>3, <1>5, <1>6, <2>1 DEF OracleSound
  <2>3. ASSUME NEW b \in eyed'[p] PROVE settled'[b] # "none" /\ (b \in raced' \/ settled'[b] = "STAGED")
    <3>1. b \in eyed[p] /\ b \in Action
      BY <1>8, <2>1, <2>3
    <3>2. CASE b = a
      <4>1. CASE p # o
        BY <1>3, <1>4, <1>5, <1>9, <3>1, <3>2, <4>1
      <4>2. CASE p = o
        <5>1. opc[o] = "rollback"
          BY <1>3, <2>3, <4>2 DEF VInv, VTypes
        <5>2. FALSE
          BY <2>1, <3>1, <4>2, <5>1 DEF OracleSound
        <5> QED BY <5>2
      <4> QED BY <4>1, <4>2
    <3>3. CASE b # a
      BY <1>5, <1>9, <2>1, <3>1, <3>3 DEF OracleSound
    <3> QED BY <3>2, <3>3
  <2>4. opc'[p] = "delete" => lists'[held'[p]] \subseteq visited'[p] \cup raced'
    <3>1. visited[p] \subseteq visited'[p]
      BY <1>6
    <3> QED BY <1>1, <1>2, <1>9, <2>1, <3>1 DEF OracleSound
  <2> QED BY <1>1, <1>2, <1>8, <2>1, <2>2, <2>3, <2>4 DEF OracleSound
<1>12. ASSUME NEW b \in Action PROVE ActionSound(b)'
  <2>1. ActionSound(b)
    BY DEF VInv
  <2>2. CASE b # a
    BY <1>1, <1>2, <1>5, <1>7, <1>9, <2>1, <2>2 DEF ActionSound
  <2>3. CASE b = a
    <3>1. settled'[a] \notin {"none", "STAGED"} /\ a[2] <= sent'[a[1]]
      BY <1>2, <1>3, <1>5, <2>1, <2>3 DEF ActionSound
    <3>2. a \notin raced' => commits'[a] = IF settled'[a] = "COMMITTED" THEN 1 ELSE 0
      <4> SUFFICES ASSUME a \notin raced'
                   PROVE  commits'[a] = IF st = "COMMITTED" THEN 1 ELSE 0
        BY <1>5
      <4>1. a \notin raced /\ commits[a] = IF settled[a] = "COMMITTED" THEN 1 ELSE 0
        BY <1>9, <2>1, <2>3 DEF ActionSound
      <4>2. CASE st = "COMMITTED"
        <5>1. settled[a] = "STAGED" /\ commits'[a] = commits[a] + 1
          BY <1>3, <4>1, <4>2 DEF VInv, OracleSound, VTypes
        <5> QED BY <4>1, <4>2, <5>1
      <4>3. CASE st = "ROLLED_BACK"
        BY <1>3, <4>1, <4>3
      <4> QED BY <1>3, <4>2, <4>3
    <3> QED BY <2>3, <3>1, <3>2 DEF ActionSound
  <2> QED BY <2>2, <2>3
<1> QED BY <1>1, <1>10, <1>11, <1>12, VOracle

\* The key is deleted: what its list still holds is settled, or lost to a race.
LEMMA VDeletes ==
  ASSUME VInv, NEW o \in Oracle, OracleDeletes(o)
  PROVE  VInv'
<1> DEFINE t == of[o]
<1>1. /\ opc[o] = "delete" /\ t \in Trace /\ OracleSound(o) /\ held[o] \in ListNo
      /\ UNCHANGED <<oracleFrame, held, visited, eyed, settled, commits>>
  BY ListsAreThere DEF OracleDeletes, VInv, VTypes, OracleSound
<1>2. UNCHANGED <<of, fresh, lists, sent>>
  BY <1>1 DEF oracleFrame
<1>3. /\ DOMAIN opc' = Oracle /\ opc'[o] \in {"done", "KeyError"}
      /\ \A p \in Oracle \ {o} : opc'[p] = opc[p]
  BY DEF OracleDeletes, VInv, VTypes
<1>4. /\ escrow' \in [Trace -> 0 .. fresh] /\ \A u \in Trace \ {t} : escrow'[u] = escrow[u]
      /\ raced \subseteq raced' /\ raced' \subseteq Action
      /\ escrow'[t] = escrow[t] \/ escrow[t] = held[o] \/ lists[escrow[t]] \subseteq raced'
  <2>1. CASE escrow[t] = 0
    BY <1>1, <2>1 DEF OracleDeletes, VInv, VTypes
  <2>2. CASE escrow[t] # 0
    <3>1. /\ escrow' = [escrow EXCEPT ![t] = 0]
          /\ raced' = raced \cup (IF escrow[t] # held[o] THEN lists[escrow[t]] ELSE {})
      BY <2>2 DEF OracleDeletes
    <3>2. escrow[t] \in ListNo
      BY <1>1, <2>2, ListsAreThere
    <3> QED BY <1>1, <3>1, <3>2 DEF VInv, VTypes
  <2> QED BY <2>1, <2>2
<1>5. VTypes'
  BY <1>1, <1>3, <1>4 DEF oracleFrame, VInv, VTypes
<1>6. ASSUME NEW p \in Oracle PROVE OracleSound(p)'
  <2>1. OracleSound(p) /\ (p = o => eyed[p] = {})
    BY <1>1 DEF VInv, OracleSound
  <2>2. CASE p = o
    BY <1>1, <1>2, <1>3, <2>1, <2>2 DEF OracleSound
  <2>3. CASE p # o
    BY <1>1, <1>2, <1>3, <1>4, <2>1, <2>3 DEF OracleSound
  <2> QED BY <2>2, <2>3
<1>7. ASSUME NEW a \in Action PROVE ActionSound(a)'
  <2>1. ActionSound(a)
    BY DEF VInv
  <2>2. settled[a] = "STAGED" => a \in raced' \/ \E u \in Trace : escrow'[u] # 0 /\ a \in lists[escrow'[u]]
    <3> SUFFICES ASSUME settled[a] = "STAGED", a \notin raced'
                 PROVE  \E u \in Trace : escrow'[u] # 0 /\ a \in lists[escrow'[u]]
      OBVIOUS
    <3>1. PICK u \in Trace : escrow[u] # 0 /\ a \in lists[escrow[u]]
      BY <1>4, <2>1 DEF ActionSound
    <3>2. ~(u = t /\ escrow[t] = held[o])
      BY <1>1, <1>4, <3>1 DEF OracleSound
    <3> QED BY <1>4, <3>1, <3>2
  <2> QED BY <1>1, <1>2, <1>4, <2>1, <2>2 DEF ActionSound
<1> QED BY <1>1, <1>5, <1>6, <1>7, VOracle

LEMMA VStepInv ==
  ASSUME VInv, [VNext]_vvars
  PROVE  VInv'
<1>1. CASE UNCHANGED vvars
  <2>1. VTypes' /\ Made' = Made /\ \A w \in Worker : WorkerSound(w)'
    BY <1>1 DEF vvars, VInv, VTypes, Made, WorkerSound
  <2> QED BY <1>1, <2>1, VOutside DEF vvars, vti
<1>2. ASSUME NEW w \in Worker, ChildEffect(w) \/ ChildLeaves(w) \/ ParentKills(w) \/ RunStep(w)
      PROVE  VInv'
  BY <1>2, VChild, VStageLooks, VStageCreates, VStageAppends DEF RunStep
<1>3. ASSUME NEW o \in Oracle, OracleReads(o) \/ OracleStep(o)
      PROVE  VInv'
  BY <1>3, VLooks, VSettles, VDeletes DEF OracleStep
<1> QED BY <1>1, <1>2, <1>3 DEF VNext

LEMMA VInvEffects ==
  ASSUME VInv
  PROVE  EffectsAreSettled
<1>1. VTypeOK
  <2>1. staged \in [Worker -> 0 .. MaxStaged] /\ \A w \in Worker : sent[w] <= staged[w]
    <3>1. staged \in [Worker -> Nat] /\ \A w \in Worker : staged[w] <= MaxStaged /\ sent[w] <= staged[w]
      BY DEF VInv, VTypes, WorkerSound
    <3> QED BY <3>1, SandboxAssumption
  <2> QED BY <2>1, ListsAreThere DEF VInv, VTypes, VTypeOK, SettledStatus
<1>2. StagedIsHandedOver
  <2>0. SUFFICES ASSUME NEW w \in Worker, NEW n, n \in 1 .. staged[w]
                 PROVE  /\ spc[w] \in Relayed => settled[<<w, n>>] # "none"
                        /\ spc[w] \in Lost => settled[<<w, n>>] = "none"
    BY DEF StagedIsHandedOver
  <2>1. PICK k \in Nat : k = staged[w] /\ k <= MaxStaged
    BY <2>0 DEF VInv, VTypes, WorkerSound
  <2>2. n \in 1 .. MaxStaged /\ n <= k
    <3>1. n \in 1 .. k
      BY <2>0, <2>1
    <3> QED BY <2>1, <3>1, SandboxAssumption
  <2>3. <<w, n>> \in Action /\ <<w, n>>[1] = w /\ <<w, n>>[2] = n
    BY <2>2 DEF Action
  <2>4. ActionSound(<<w, n>>)
    BY <2>3 DEF VInv
  <2>5. sent[w] \in Nat /\ (spc[w] \in Relayed => sent[w] = k) /\ (spc[w] \in Lost => sent[w] = 0)
    BY <2>1 DEF VInv, VTypes, WorkerSound, Relayed, Lost, Envelope
  <2> QED BY <2>2, <2>3, <2>4, <2>5 DEF ActionSound
<1>3. SettledOnce /\ NothingVanishes
  BY DEF VInv, ActionSound, SettledOnce, NothingVanishes
<1> QED BY <1>1, <1>2, <1>3 DEF EffectsAreSettled

\* The sandbox and its coordinator (sandbox.py, vti_coordinator.py): for any number
\* of workers and oracles without a lock between them, what a child staged is handed
\* over as a whole, or lost as a whole with a run that raises without an envelope;
\* what is handed over is committed or rolled back once, and stays until then, but
\* for the actions whose threads overlapped.
THEOREM EffectsStaySettled == VSpec => []EffectsAreSettled
<1>1. VInit => VInv
  BY VInitInv
<1>2. VInv /\ [VNext]_vvars => VInv'
  BY VStepInv
<1>3. VInv => EffectsAreSettled
  BY VInvEffects
<1> QED BY <1>1, <1>2, <1>3, PTL DEF VSpec

-----------------------------------------------------------------------------
(***************************************************************************)
(* The dependency scheduler (AorScheduler).  One pass of _get_ready_tasks  *)
(* is a recursion over the order of the tasks; that it is well defined,    *)
(* and that it marks only what waits for a broken task, is an induction,   *)
(* done with the least counterexample.                                     *)
(***************************************************************************)

TaskState == {"PENDING", "RUNNING", "COMPLETED", "DIAGNOSING", "FAILED", "BLOCKED"}
PoolPlace == {"none", "queued", "lost", "diag queued", "diagnosing"} \cup Busy

SchedTypes ==
  /\ order \in Seq(Task) /\ needs \in [Task -> Seq(Task)] /\ mainPc \in {"loop", "waiting", "returned"}
  /\ taskStatus \in [Task -> TaskState] /\ thread \in [Task -> PoolPlace] /\ known \in [Task -> SUBSET Task]

LEMMA AddedAreTasks ==
  ASSUME SchedTypes
  PROVE  Added \subseteq Task
  BY DEF SchedTypes, Added

\* A set of numbers that holds 0 and the successor of every number below n that
\* it holds goes up to n.
LEMMA UpTo ==
  ASSUME NEW n \in Nat, NEW S, 0 \in S, \A i \in 0 .. n - 1 : i \in S => i + 1 \in S
  PROVE  0 .. n \subseteq S
<1> DEFINE T == (0 .. n) \ S
<1>1. SUFFICES ASSUME T # {} PROVE FALSE
  BY <1>1
<1>2. T \subseteq Nat
  OBVIOUS
<1>3. PICK m \in T : \A y \in T : ~(<<y, m>> \in OpToRel(<, Nat))
  BY <1>1, <1>2, NatLessThanWellFounded, WFMin
<1>4. m \in 0 .. n /\ m \notin S /\ m # 0
  BY <1>3
<1>5. m - 1 \in 0 .. n - 1 /\ m - 1 \in Nat /\ m \in Nat /\ (m - 1) + 1 = m /\ m - 1 < m
  BY <1>4
<1>6. m - 1 \notin T
  BY <1>3, <1>5 DEF OpToRel
<1>7. m - 1 \in S
  BY <1>5, <1>6
<1> QED BY <1>4, <1>5, <1>7

\* The statuses after the first i tasks of the order.
LEMMA PassIsDefined ==
  ASSUME SchedTypes
  PROVE  \E g : /\ g = [i \in 0 .. Len(order) |-> IF i = 0 THEN taskStatus ELSE Mark(g[i - 1], order[i])]
                /\ Pass = g[Len(order)]
<1> DEFINE Upto(m, g) == g = [i \in 0 .. m |-> IF i = 0 THEN taskStatus ELSE Mark(g[i - 1], order[i])]
           Defined == {m \in Nat : \E g : Upto(m, g)}
           n == Len(order)
<1>1. n \in Nat
  BY DEF SchedTypes
<1>2. 0 \in Defined
  <2>1. Upto(0, [i \in 0 .. 0 |-> taskStatus])
    OBVIOUS
  <2> QED BY <2>1
<1>3. ASSUME NEW m \in 0 .. n - 1, m \in Defined PROVE m + 1 \in Defined
  <2>1. PICK g : Upto(m, g)
    BY <1>3
  <2> DEFINE h == [i \in 0 .. m + 1 |-> IF i <= m THEN g[i] ELSE Mark(g[m], order[m + 1])]
  <2>2. m \in Nat
    BY <1>1
  <2>3. \A i \in 0 .. m : h[i] = g[i]
    BY <2>2
  <2>4. ASSUME NEW i \in 0 .. m + 1
        PROVE  h[i] = IF i = 0 THEN taskStatus ELSE Mark(h[i - 1], order[i])
    <3>1. CASE i = 0
      BY <2>1, <2>2, <2>3, <3>1
    <3>2. CASE i # 0 /\ i <= m
      <4>1. i \in 0 .. m /\ i - 1 \in 0 .. m
        BY <2>2, <2>4, <3>2
      <4>2. g[i] = Mark(g[i - 1], order[i])
        BY <2>1, <3>2, <4>1
      <4> QED BY <2>3, <3>2, <4>1, <4>2
    <3>3. CASE i = m + 1
      <4>1. h[i] = Mark(g[m], order[m + 1]) /\ i - 1 = m /\ i # 0 /\ h[m] = g[m]
        BY <2>2, <2>3, <3>3
      <4> QED BY <3>3, <4>1
    <3> QED BY <2>2, <2>4, <3>1, <3>2, <3>3
  <2>5. Upto(m + 1, h)
    BY <2>2, <2>4
  <2>6. m + 1 \in Nat
    BY <2>2
  <2>7. \E k : Upto(m + 1, k)
    <3> HIDE DEF h, Upto
    <3> QED BY <2>5
  <2> HIDE DEF Upto
  <2> QED BY <2>6, <2>7
<1> HIDE DEF Defined
<1>4. n \in Defined
  <2>1. \A m \in 0 .. n - 1 : m \in Defined => m + 1 \in Defined
    BY <1>3
  <2> HIDE DEF n
  <2>2. 0 .. n \subseteq Defined
    BY <1>1, <1>2, <2>1, UpTo
  <2> QED BY <1>1, <2>2
<1>5. \E g : Upto(n, g)
  BY <1>4 DEF Defined
<1> DEFINE after == CHOOSE g : Upto(n, g)
<1>6. Upto(n, after)
  BY <1>5
<1>7. Pass = after[n]
  BY DEF Pass
<1> QED BY <1>6, <1>7

\* What a pass may do to the statuses: block a task that is pending, is not ready
\* and has a broken dependency.
Marked(st) ==
  /\ st \in [Task -> TaskState]
  /\ \A t \in Task :
       \/ st[t] = taskStatus[t]
       \/ /\ taskStatus[t] = "PENDING" /\ st[t] = "BLOCKED" /\ t \in Added \ Ready
          /\ \E d \in Known(t) : st[d] \in Broken

LEMMA MarkKeeps ==
  ASSUME SchedTypes, NEW st, Marked(st), NEW x \in Added
  PROVE  Marked(Mark(st, x))
<1>1. x \in Task /\ Added \subseteq Task
  BY AddedAreTasks
<1>2. CASE ~(st[x] = "PENDING" /\ Blocks(st, x))
  BY <1>2 DEF Mark
<1>3. CASE st[x] = "PENDING" /\ Blocks(st, x)
  <2> DEFINE nt == [st EXCEPT ![x] = "BLOCKED"]
  <2>1. Mark(st, x) = nt
    BY <1>3 DEF Mark
  <2>2. /\ nt \in [Task -> TaskState] /\ nt[x] = "BLOCKED"
        /\ \A t \in Task \ {x} : nt[t] = st[t]
    BY <1>1 DEF Marked, TaskState
  <2>3. taskStatus[x] = "PENDING"
    BY <1>1, <1>3 DEF Marked
  <2>4. PICK i \in Open(st, x) : st[needs[x][i]] \in Broken
    BY <1>3 DEF Blocks
  <2> DEFINE e == needs[x][i]
  <2>5. i \in DOMAIN needs[x] /\ e \in Known(x) /\ e \in Task
    BY <1>1, <2>4 DEF Open, Known
  <2>6. x \notin Ready
    <3> SUFFICES ASSUME x \in Ready PROVE FALSE
      OBVIOUS
    <3>1. i \notin Open(taskStatus, x)
      BY DEF Ready, CanRun
    <3>2. taskStatus[e] = "COMPLETED"
      BY <2>5, <3>1 DEF Open, Known
    <3>3. st[e] = "COMPLETED"
      BY <2>5, <3>2 DEF Marked
    <3> QED BY <2>4, <3>3 DEF Broken
  <2>7. \A d \in Task : st[d] \in Broken => nt[d] \in Broken
    BY <2>2 DEF Broken
  <2>8. \A t \in Task : Known(t) \subseteq Task
    BY <1>1 DEF Known
  <2> HIDE DEF nt, e
  <2>9. \E d \in Known(x) : nt[d] \in Broken
    BY <2>4, <2>5, <2>7 DEF e
  <2>10. ASSUME NEW t \in Task
         PROVE  \/ nt[t] = taskStatus[t]
                \/ /\ taskStatus[t] = "PENDING" /\ nt[t] = "BLOCKED" /\ t \in Added \ Ready
                   /\ \E d \in Known(t) : nt[d] \in Broken
    <3>1. CASE t = x
      BY <2>2, <2>3, <2>6, <2>9, <3>1
    <3>2. CASE t # x
      BY <2>2, <2>7, <2>8, <3>2 DEF Marked
    <3> QED BY <3>1, <3>2
  <2>11. Marked(nt)
    BY <2>2, <2>10 DEF Marked
  <2> QED BY <2>1, <2>11
<1> QED BY <1>2, <1>3

LEMMA PassMarks ==
  ASSUME SchedTypes
  PROVE  Marked(Pass)
<1> DEFINE n == Len(order)
<1>1. PICK g : /\ g = [i \in 0 .. n |-> IF i = 0 THEN taskStatus ELSE Mark(g[i - 1], order[i])]
               /\ Pass = g[n]
  BY PassIsDefined
<1>2. n \in Nat /\ \A i \in 1 .. n : order[i] \in Added
  BY DEF SchedTypes, Added
<1> DEFINE S == {i \in 0 .. n : Marked(g[i])}
<1>3. 0 \in S
  <2>1. g[0] = taskStatus
    BY <1>1, <1>2
  <2>2. Marked(taskStatus)
    BY DEF Marked, SchedTypes
  <2> QED BY <1>2, <2>1, <2>2
<1>4. ASSUME NEW i \in 0 .. n - 1, i \in S PROVE i + 1 \in S
  <2>1. i + 1 \in 1 .. n /\ i + 1 \in 0 .. n /\ i + 1 # 0 /\ (i + 1) - 1 = i
    BY <1>2
  <2>2. g[i + 1] = Mark(g[i], order[i + 1])
    BY <1>1, <2>1
  <2>3. Marked(g[i + 1])
    BY <1>2, <1>4, <2>1, <2>2, MarkKeeps
  <2> QED BY <2>1, <2>3
<1> HIDE DEF n, S
<1>5. 0 .. n \subseteq S
  BY <1>2, <1>3, <1>4, UpTo
<1>6. n \in S
  BY <1>2, <1>5
<1> QED BY <1>1, <1>6 DEF S

\* A task has a place in a pool exactly while it runs or is diagnosed, and is
\* anything but pending only after it was added.
TaskSound(t) ==
  /\ thread[t] \in {"queued", "lost"} \cup Busy <=> taskStatus[t] = "RUNNING"
  /\ thread[t] \in {"diag queued", "diagnosing"} <=> taskStatus[t] = "DIAGNOSING"
  /\ t \notin Added => taskStatus[t] = "PENDING"
  /\ taskStatus[t] \notin {"PENDING", "BLOCKED"} => \A d \in known[t] : taskStatus[d] = "COMPLETED"
  /\ taskStatus[t] = "BLOCKED" => \E d \in Known(t) : taskStatus[d] \in Broken

\* A pool has no more tasks under way than threads.
PoolSound(place, max) == IsFiniteSet(In(place)) /\ Cardinality(In(place)) <= max

SchedInv ==
  /\ SchedTypes
  /\ PoolSound(Busy, MaxWorkers) /\ PoolSound({"diagnosing"}, MaxDiagnostics)
  /\ \A t \in Task : TaskSound(t)
  /\ mainPc = "returned" => \A t \in Added : taskStatus[t] \notin Unsettled

LEMMA SchedInitInv ==
  ASSUME SchedInit
  PROVE  SchedInv
<1>1. SchedTypes
  <2>1. order \in Seq(Task) /\ needs \in [Task -> Seq(Task)]
    BY SchedulerAssumption DEF SchedInit
  <2> QED BY <2>1 DEF SchedInit, SchedTypes, TaskState, PoolPlace
<1>2. In(Busy) = {} /\ In({"diagnosing"}) = {}
  BY DEF SchedInit, In, Busy
<1>3. PoolSound(Busy, MaxWorkers) /\ PoolSound({"diagnosing"}, MaxDiagnostics)
  <2>1. MaxWorkers \in Nat /\ MaxDiagnostics \in Nat /\ IsFiniteSet({}) /\ Cardinality({}) = 0
    BY SchedulerAssumption, FS_EmptySet
  <2>2. 0 <= MaxWorkers /\ 0 <= MaxDiagnostics
    BY <2>1
  <2> QED BY <1>2, <2>1, <2>2 DEF PoolSound
<1>4. ASSUME NEW t \in Task PROVE TaskSound(t)
  BY DEF SchedInit, TaskSound, Busy
<1> QED BY <1>1, <1>3, <1>4 DEF SchedInv, SchedInit

\* A pool gains a task only through a guard on its size.
LEMMA PoolGains ==
  ASSUME NEW place, NEW max \in Nat, PoolSound(place, max), NEW t,
         \/ In(place)' \subseteq In(place)
         \/ In(place)' \subseteq In(place) \cup {t} /\ Cardinality(In(place)) < max
  PROVE  PoolSound(place, max)'
<1>1. IsFiniteSet(In(place)) /\ Cardinality(In(place)) \in Nat /\ Cardinality(In(place)) <= max
  BY FS_CardinalityType DEF PoolSound
<1>2. CASE In(place)' \subseteq In(place)
  BY <1>1, <1>2, FS_Subset, FS_CardinalityType DEF PoolSound
<1>3. CASE In(place)' \subseteq In(place) \cup {t} /\ Cardinality(In(place)) < max
  <2>1. /\ IsFiniteSet(In(place) \cup {t}) /\ Cardinality(In(place) \cup {t}) \in Nat
        /\ Cardinality(In(place) \cup {t}) <= Cardinality(In(place)) + 1
    <3>1. IsFiniteSet(In(place) \cup {t})
      BY <1>1, FS_AddElement
    <3>2. Cardinality(In(place) \cup {t}) \in {Cardinality(In(place)), Cardinality(In(place)) + 1}
      BY <1>1, FS_AddElement
    <3> QED BY <1>1, <3>1, <3>2
  <2>2. IsFiniteSet(In(place)') /\ Cardinality(In(place)') <= Cardinality(In(place) \cup {t})
    BY <1>3, <2>1, FS_Subset
  <2>3. Cardinality(In(place)') \in Nat
    BY <2>2, FS_CardinalityType
  <2> QED BY <1>1, <1>3, <2>1, <2>2, <2>3 DEF PoolSound
<1> QED BY <1>2, <1>3

\* A step that moves one task t of a pool to another status and place.
LEMMA PoolMoves ==
  ASSUME SchedInv, NEW t \in Task, NEW st \in TaskState, NEW place \in PoolPlace,
         UNCHANGED <<order, needs, mainPc, known>>,
         taskStatus' = [taskStatus EXCEPT ![t] = st], thread' = [thread EXCEPT ![t] = place],
         taskStatus[t] \in {"RUNNING", "DIAGNOSING"},
         taskStatus[t] = "DIAGNOSING" => st \in {"DIAGNOSING", "FAILED"},
         st \in {"RUNNING", "DIAGNOSING", "COMPLETED", "FAILED"},
         place \in {"queued", "lost"} \cup Busy <=> st = "RUNNING",
         place \in {"diag queued", "diagnosing"} <=> st = "DIAGNOSING",
         place \in Busy => thread[t] \in Busy \/ Cardinality(In(Busy)) < MaxWorkers,
         place = "diagnosing" => Cardinality(In({"diagnosing"})) < MaxDiagnostics
  PROVE  SchedInv'
<1>1. /\ taskStatus' \in [Task -> TaskState] /\ taskStatus'[t] = st
      /\ thread' \in [Task -> PoolPlace] /\ thread'[t] = place
      /\ \A u \in Task \ {t} : taskStatus'[u] = taskStatus[u] /\ thread'[u] = thread[u]
  BY DEF SchedInv, SchedTypes
<1>2. SchedTypes'
  BY <1>1 DEF SchedInv, SchedTypes
<1>3. PoolSound(Busy, MaxWorkers)' /\ PoolSound({"diagnosing"}, MaxDiagnostics)'
  <2>1. ASSUME NEW q PROVE In(q)' \subseteq In(q) \cup {t} /\ (place \notin q \/ thread[t] \in q => In(q)' \subseteq In(q))
    BY <1>1 DEF In
  <2>2. MaxWorkers \in Nat /\ MaxDiagnostics \in Nat
    BY SchedulerAssumption
  <2>3. PoolSound(Busy, MaxWorkers)'
    <3>1. \/ In(Busy)' \subseteq In(Busy)
          \/ In(Busy)' \subseteq In(Busy) \cup {t} /\ Cardinality(In(Busy)) < MaxWorkers
      BY <2>1
    <3> QED BY <2>2, <3>1, PoolGains DEF SchedInv
  <2>4. PoolSound({"diagnosing"}, MaxDiagnostics)'
    <3>1. \/ In({"diagnosing"})' \subseteq In({"diagnosing"})
          \/ In({"diagnosing"})' \subseteq In({"diagnosing"}) \cup {t} /\ Cardinality(In({"diagnosing"})) < MaxDiagnostics
      BY <2>1
    <3> QED BY <2>2, <3>1, PoolGains DEF SchedInv
  <2> QED BY <2>3, <2>4
<1>4. Added' = Added /\ Added \subseteq Task /\ \A u \in Task : Known(u)' = Known(u) /\ Known(u) \subseteq Task
  <2>1. Added' = Added /\ Added \subseteq Task
    <3>1. Added \subseteq Task
      BY AddedAreTasks DEF SchedInv
    <3>2. Added' = Added
      BY DEF Added
    <3> QED BY <3>1, <3>2
  <2>2. ASSUME NEW u \in Task PROVE Known(u)' = Known(u) /\ Known(u) \subseteq Task
    BY <2>1 DEF Known
  <2> QED BY <2>1, <2>2
<1>5. t \in Added /\ \A u \in Task : TaskSound(u) /\ known[u] \subseteq Task
  BY DEF SchedInv, TaskSound, SchedTypes
<1>6. /\ \A d \in Task : taskStatus[d] = "COMPLETED" => taskStatus'[d] = "COMPLETED"
      /\ \A d \in Task : taskStatus[d] \in Broken => taskStatus'[d] \in Broken
  BY <1>1 DEF Broken
<1>7. ASSUME NEW u \in Task PROVE TaskSound(u)'
  <2>1. CASE u = t
    <3>1. /\ thread'[t] \in {"queued", "lost"} \cup Busy <=> taskStatus'[t] = "RUNNING"
          /\ thread'[t] \in {"diag queued", "diagnosing"} <=> taskStatus'[t] = "DIAGNOSING"
      BY <1>1
    <3>2. t \in Added' /\ taskStatus'[t] # "BLOCKED"
      BY <1>1, <1>4, <1>5
    <3>3. \A d \in known'[t] : taskStatus'[d] = "COMPLETED"
      BY <1>5, <1>6 DEF TaskSound
    <3> QED BY <2>1, <3>1, <3>2, <3>3 DEF TaskSound
  <2>2. CASE u # t
    <3>1. taskStatus'[u] = taskStatus[u] /\ thread'[u] = thread[u] /\ TaskSound(u)
      BY <1>1, <1>5, <2>2
    <3>2. ASSUME taskStatus'[u] \notin {"PENDING", "BLOCKED"}, NEW d \in known'[u]
          PROVE  taskStatus'[d] = "COMPLETED"
      <4>1. taskStatus[u] \notin {"PENDING", "BLOCKED"}
        BY <3>1, <3>2
      <4>2. d \in known[u] /\ d \in Task
        BY <1>5, <3>2
      <4>3. taskStatus[d] = "COMPLETED"
        BY <3>1, <4>1, <4>2 DEF TaskSound
      <4> QED BY <1>6, <4>2, <4>3
    <3>3. taskStatus'[u] = "BLOCKED" => \E d \in Known(u)' : taskStatus'[d] \in Broken
      BY <1>4, <1>6, <3>1 DEF TaskSound
    <3> QED BY <1>4, <3>1, <3>2, <3>3 DEF TaskSound
  <2> QED BY <2>1, <2>2
<1>8. mainPc # "returned"
  BY <1>5 DEF SchedInv, Unsettled
<1> QED BY <1>2, <1>3, <1>7, <1>8 DEF SchedInv

LEMMA PoolSteps ==
  ASSUME SchedInv, NEW t \in Task, PoolStep(t) \/ FunctionEnds(t) \/ TaskExits(t)
  PROVE  SchedInv'
<1>1. /\ TaskSound(t) /\ taskStatus \in [Task -> TaskState] /\ thread \in [Task -> PoolPlace]
      /\ taskStatus = [taskStatus EXCEPT ![t] = taskStatus[t]]
  BY DEF SchedInv, SchedTypes
<1>2. CASE TaskBegins(t)
  <2>1. /\ thread[t] = "queued" /\ taskStatus[t] = "RUNNING" /\ Cardinality(In(Busy)) < MaxWorkers
        /\ thread' = [thread EXCEPT ![t] = "executing"] /\ taskStatus' = [taskStatus EXCEPT ![t] = "RUNNING"]
        /\ UNCHANGED <<order, needs, mainPc, known>>
    BY <1>1, <1>2 DEF TaskBegins, ToThread, TaskSound, Busy
  <2> QED BY <2>1, PoolMoves DEF TaskState, PoolPlace, Busy
<1>3. CASE TaskCompletes(t)
  <2>1. /\ taskStatus[t] = "RUNNING"
        /\ thread' = [thread EXCEPT ![t] = "none"] /\ taskStatus' = [taskStatus EXCEPT ![t] = "COMPLETED"]
        /\ UNCHANGED <<order, needs, mainPc, known>>
    BY <1>1, <1>3 DEF TaskCompletes, ToThread, TaskSound, Busy
  <2> QED BY <2>1, PoolMoves DEF TaskState, PoolPlace, Busy
<1>4. CASE TaskFails(t)
  <2>1. /\ taskStatus[t] = "RUNNING"
        /\ thread' = [thread EXCEPT ![t] = "diag queued"] /\ taskStatus' = [taskStatus EXCEPT ![t] = "DIAGNOSING"]
        /\ UNCHANGED <<order, needs, mainPc, known>>
    BY <1>1, <1>4 DEF TaskFails, ToThread, TaskSound, Busy
  <2> QED BY <2>1, PoolMoves DEF TaskState, PoolPlace, Busy
<1>5. CASE TaskExits(t)
  <2>1. /\ taskStatus[t] = "RUNNING"
        /\ thread' = [thread EXCEPT ![t] = "lost"] /\ taskStatus' = [taskStatus EXCEPT ![t] = "RUNNING"]
        /\ UNCHANGED <<order, needs, mainPc, known>>
    BY <1>1, <1>5 DEF TaskExits, ToThread, TaskSound, Busy
  <2> QED BY <2>1, PoolMoves DEF TaskState, PoolPlace, Busy
<1>6. CASE DiagnosisBegins(t)
  <2>1. /\ taskStatus[t] = "DIAGNOSING" /\ Cardinality(In({"diagnosing"})) < MaxDiagnostics
        /\ thread' = [thread EXCEPT ![t] = "diagnosing"] /\ taskStatus' = [taskStatus EXCEPT ![t] = "DIAGNOSING"]
        /\ UNCHANGED <<order, needs, mainPc, known>>
    BY <1>1, <1>6 DEF DiagnosisBegins, ToThread, TaskSound, Busy
  <2> QED BY <2>1, PoolMoves DEF TaskState, PoolPlace, Busy
<1>7. CASE DiagnosisEnds(t)
  <2>1. /\ taskStatus[t] = "DIAGNOSING"
        /\ thread' = [thread EXCEPT ![t] = "none"] /\ taskStatus' = [taskStatus EXCEPT ![t] = "FAILED"]
        /\ UNCHANGED <<order, needs, mainPc, known>>
    BY <1>1, <1>7 DEF DiagnosisEnds, ToThread, TaskSound, Busy
  <2> QED BY <2>1, PoolMoves DEF TaskState, PoolPlace, Busy
<1>8. CASE FunctionEnds(t)
  <2>1. PICK place \in {"returned", "raised"} : thread' = [thread EXCEPT ![t] = place]
    BY <1>8 DEF FunctionEnds, ToThread
  <2>2. /\ taskStatus[t] = "RUNNING" /\ thread[t] \in Busy /\ taskStatus' = [taskStatus EXCEPT ![t] = "RUNNING"]
        /\ UNCHANGED <<order, needs, mainPc, known>>
    BY <1>1, <1>8 DEF FunctionEnds, TaskSound, Busy
  <2> QED BY <2>1, <2>2, PoolMoves DEF TaskState, PoolPlace, Busy
<1> QED BY <1>2, <1>3, <1>4, <1>5, <1>6, <1>7, <1>8 DEF PoolStep

\* add_task: a task that arrives late is pending, and is a dependency from now on.
LEMMA TaskArrives ==
  ASSUME SchedInv, AddTask
  PROVE  SchedInv'
<1>1. PICK x \in Task : x \notin Added /\ order' = Append(order, x)
  BY DEF AddTask
<1>2. UNCHANGED <<needs, taskStatus, thread, mainPc, known>> /\ mainPc = "waiting"
  BY DEF AddTask
<1>3. order \in Seq(Task) /\ order' \in Seq(Task)
  BY <1>1 DEF SchedInv, SchedTypes
<1>4. Added \subseteq Added'
  <2>1. ASSUME NEW i \in DOMAIN order PROVE i \in DOMAIN order' /\ order'[i] = order[i]
    BY <1>1, <1>3
  <2> QED BY <2>1 DEF Added
<1>5. SchedTypes'
  BY <1>2, <1>3 DEF SchedInv, SchedTypes
<1>6. PoolSound(Busy, MaxWorkers)' /\ PoolSound({"diagnosing"}, MaxDiagnostics)'
  BY <1>2 DEF SchedInv, PoolSound, In
<1>7. ASSUME NEW t \in Task PROVE TaskSound(t)'
  <2>1. Known(t) \subseteq Known(t)'
    BY <1>2, <1>4 DEF Known
  <2>2. t \notin Added' => t \notin Added
    BY <1>4
  <2> QED BY <1>2, <2>1, <2>2 DEF SchedInv, TaskSound
<1> QED BY <1>2, <1>5, <1>6, <1>7 DEF SchedInv

\* One turn of the loop: ready tasks are submitted, the pass blocks others.
LEMMA LoopTurns ==
  ASSUME SchedInv, LoopSubmits
  PROVE  SchedInv'
<1>1. Marked(Pass) /\ SchedTypes
  BY PassMarks DEF SchedInv
<1> DEFINE P == Pass
<1> HIDE DEF P
<1>2. /\ mainPc' = "waiting" /\ order' = order /\ needs' = needs
      /\ taskStatus' = [t \in Task |-> IF t \in Ready THEN "RUNNING" ELSE P[t]]
      /\ thread' = [t \in Task |-> IF t \in Ready THEN "queued" ELSE thread[t]]
      /\ known' = [t \in Task |-> IF t \in Ready THEN Known(t) ELSE known[t]]
  BY DEF LoopSubmits, P
<1>3. /\ P \in [Task -> TaskState]
      /\ \A t \in Task :
           \/ P[t] = taskStatus[t]
           \/ /\ taskStatus[t] = "PENDING" /\ P[t] = "BLOCKED" /\ t \in Added \ Ready
              /\ \E d \in Known(t) : P[d] \in Broken
  BY <1>1 DEF Marked, P
<1>4. /\ Added' = Added /\ Added \subseteq Task
      /\ \A t \in Task : Known(t) \subseteq Task
      /\ \A t \in Ready : t \in Added /\ taskStatus[t] = "PENDING"
      /\ \A t \in Ready : \A d \in Known(t) : taskStatus[d] = "COMPLETED"
  <2>2. Added \subseteq Task
    BY <1>1, AddedAreTasks
  <2>3. Added' = Added
    BY <1>2 DEF Added
  <2>4. ASSUME NEW t \in Ready, NEW d \in Known(t) PROVE taskStatus[d] = "COMPLETED"
    BY DEF Ready, CanRun, Open, Known
  <2> QED BY <2>2, <2>3, <2>4 DEF Ready, CanRun, Known
<1>5. ASSUME NEW t \in Task PROVE Known(t)' = Known(t)
  BY <1>2, <1>4 DEF Known
<1>6. SchedTypes'
  <2>1. taskStatus' \in [Task -> TaskState]
    BY <1>2, <1>3 DEF TaskState
  <2>2. thread' \in [Task -> PoolPlace]
    BY <1>1, <1>2 DEF SchedTypes, PoolPlace
  <2>3. known' \in [Task -> SUBSET Task]
    BY <1>1, <1>2, <1>4 DEF SchedTypes
  <2> QED BY <1>1, <1>2, <2>1, <2>2, <2>3 DEF SchedTypes
<1>7. PoolSound(Busy, MaxWorkers)' /\ PoolSound({"diagnosing"}, MaxDiagnostics)'
  <2>1. \A t \in Ready : thread[t] \notin Busy \cup {"diagnosing"}
    BY <1>4 DEF SchedInv, TaskSound
  <2>2. In(Busy)' = In(Busy) /\ In({"diagnosing"})' = In({"diagnosing"})
    BY <1>2, <1>4, <2>1 DEF In, Busy
  <2> QED BY <2>2 DEF SchedInv, PoolSound
<1>8. ASSUME NEW d \in Task
      PROVE  /\ taskStatus[d] = "COMPLETED" => taskStatus'[d] = "COMPLETED"
             /\ P[d] \in Broken => taskStatus'[d] \in Broken
             /\ taskStatus[d] \in Broken => taskStatus'[d] \in Broken
  <2>1. d \in Ready => taskStatus[d] = "PENDING" /\ P[d] = "PENDING"
    BY <1>3, <1>4
  <2> QED BY <1>2, <1>3, <2>1 DEF Broken
<1>9. ASSUME NEW t \in Task PROVE TaskSound(t)'
  <2>1. TaskSound(t) /\ known[t] \subseteq Task
    BY DEF SchedInv, SchedTypes
  <2>2. CASE t \in Ready
    <3>1. taskStatus'[t] = "RUNNING" /\ thread'[t] = "queued" /\ known'[t] = Known(t) /\ t \in Added
      BY <1>2, <1>4, <2>2
    <3>2. \A d \in known'[t] : taskStatus'[d] = "COMPLETED"
      BY <1>4, <1>8, <2>2, <3>1
    <3> QED BY <1>4, <3>1, <3>2 DEF TaskSound
  <2>3. CASE t \notin Ready /\ P[t] = taskStatus[t]
    <3>1. taskStatus'[t] = taskStatus[t] /\ thread'[t] = thread[t] /\ known'[t] = known[t]
      BY <1>2, <2>3
    <3>2. taskStatus'[t] \notin {"PENDING", "BLOCKED"} => \A d \in known'[t] : taskStatus'[d] = "COMPLETED"
      BY <1>8, <2>1, <3>1 DEF TaskSound
    <3>3. taskStatus'[t] = "BLOCKED" => \E d \in Known(t)' : taskStatus'[d] \in Broken
      BY <1>4, <1>5, <1>8, <2>1, <3>1 DEF TaskSound
    <3> QED BY <1>4, <2>1, <3>1, <3>2, <3>3 DEF TaskSound
  <2>4. CASE t \notin Ready /\ P[t] # taskStatus[t]
    <3>1. /\ taskStatus[t] = "PENDING" /\ taskStatus'[t] = "BLOCKED" /\ thread'[t] = thread[t] /\ t \in Added
          /\ \E d \in Known(t) : P[d] \in Broken
      BY <1>2, <1>3, <2>4
    <3>2. \E d \in Known(t)' : taskStatus'[d] \in Broken
      BY <1>4, <1>5, <1>8, <3>1
    <3> QED BY <1>4, <2>1, <3>1, <3>2 DEF TaskSound
  <2> QED BY <2>2, <2>3, <2>4
<1> QED BY <1>2, <1>6, <1>7, <1>9 DEF SchedInv

LEMMA SchedStepInv ==
  ASSUME SchedInv, [SchedNext]_sched
  PROVE  SchedInv'
<1>1. CASE /\ UNCHANGED <<order, needs, taskStatus, thread, known>>
           /\ \/ mainPc' = mainPc
              \/ mainPc' \in {"loop", "returned"} /\ (mainPc' = "returned" => AllDone)
  <2>1. Added' = Added
    BY <1>1 DEF Added
  <2>2. ASSUME NEW t \in Task PROVE TaskSound(t)'
    <3>1. Known(t)' = Known(t)
      BY <1>1, <2>1 DEF Known
    <3> QED BY <1>1, <2>1, <3>1 DEF SchedInv, TaskSound
  <2>3. PoolSound(Busy, MaxWorkers)' /\ PoolSound({"diagnosing"}, MaxDiagnostics)'
    BY <1>1 DEF SchedInv, PoolSound, In
  <2>4. SchedTypes'
    BY <1>1 DEF SchedInv, SchedTypes
  <2> QED BY <1>1, <2>1, <2>2, <2>3, <2>4 DEF SchedInv, AllDone
<1>2. CASE LoopStep
  BY <1>1, <1>2, LoopTurns DEF LoopStep, LoopReturns, LoopWakes
<1>3. CASE UNCHANGED sched
  BY <1>1, <1>3 DEF sched
<1> QED BY <1>2, <1>3, TaskArrives, PoolSteps DEF SchedNext

\* The scheduler (aor_scheduler.py): whatever fails, is diagnosed or arrives late, a
\* task runs only after the dependencies that were known had completed, is blocked only
\* behind a broken one, and run returns with every task it has settled.
THEOREM ScheduleStaysRespected == SchedSpec => []ScheduleIsRespected
<1>1. SchedInit => SchedInv
  BY SchedInitInv
<1>2. SchedInv /\ [SchedNext]_sched => SchedInv'
  BY SchedStepInv
<1>3. SchedInv => ScheduleIsRespected
  <2> SUFFICES ASSUME SchedInv PROVE ScheduleIsRespected
    OBVIOUS
  <2>1. Added \subseteq Task
    BY AddedAreTasks DEF SchedInv
  <2>2. SchedTypeOK
    <3>1. Cardinality(In(Busy)) <= MaxWorkers /\ Cardinality(In({"diagnosing"})) <= MaxDiagnostics
      BY DEF SchedInv, PoolSound
    <3>2. mainPc \in {"loop", "waiting", "returned"}
      BY DEF SchedInv, SchedTypes
    <3>3. ASSUME NEW t \in Task
          PROVE  /\ taskStatus[t] \in Unsettled \cup {"COMPLETED", "FAILED", "BLOCKED"}
                 /\ thread[t] \in {"queued", "lost"} \cup Busy <=> taskStatus[t] = "RUNNING"
      <4>1. taskStatus[t] \in TaskState /\ TaskSound(t)
        BY DEF SchedInv, SchedTypes
      <4> QED BY <4>1 DEF TaskState, Unsettled, TaskSound
    <3> QED BY <3>1, <3>2, <3>3 DEF SchedTypeOK
  <2>3. RunsAfterDependencies
    BY <2>1 DEF SchedInv, TaskSound, RunsAfterDependencies
  <2>4. BlockedForAReason
    <3>1. \A t \in Added : taskStatus[t] = "BLOCKED" => \E d \in Known(t) : taskStatus[d] \in Broken
      BY <2>1 DEF SchedInv, TaskSound
    <3>2. mainPc = "returned" => \A t \in Added : taskStatus[t] \in {"COMPLETED", "FAILED", "BLOCKED"}
      BY <2>1 DEF SchedInv, SchedTypes, TaskState, Unsettled
    <3> QED BY <3>1, <3>2 DEF BlockedForAReason
  <2> QED BY <2>2, <2>3, <2>4 DEF ScheduleIsRespected
<1> QED BY <1>1, <1>2, <1>3, PTL DEF SchedSpec

-----------------------------------------------------------------------------
(***************************************************************************)
(* The container executor (ContainerExecutor).  What the container wrote   *)
(* and what execute has read of it are told by where each of them is.      *)
(***************************************************************************)

Stopped == {"collect", "cleanup"} \cup Over

\* No container is held any more, or a call to the daemon failed.
BoxGone == box \in {"none", "removed"} \/ marks \cap {"run", "stop", "remove"} # {}

ContainerInv ==
  /\ payload \in BOOLEAN /\ (payload => failure = "none")
  /\ cpc \in {"pickle", "prepare"} => exchange = "none"
  /\ cpc \in {"run", "poll", "sleep", "kill", "stop", "collect", "cleanup"} => exchange = "there"
  /\ cpc \in {"pickle", "prepare", "run"} => box = "none" /\ failure = "none"
  /\ cpc \notin {"cleanup", "returned"} => payload = FALSE
  /\ file # "none" => box # "none"
  /\ file = "success" => program = "done"
  /\ cpc \in {"cleanup", "returned"} /\ failure = "none" => payload = TRUE /\ file = "success"
  /\ "kill" \in marks => failure # "none"
  /\ cpc \in Stopped => BoxGone
  /\ (cpc = "returned" /\ exchange = "there") => "rmtree" \in marks

LEMMA CInitInv ==
  ASSUME CInit
  PROVE  ContainerInv
  BY DEF CInit, ContainerInv, Stopped, Over, BoxGone

\* Until the container is stopped.
LEMMA CBefore ==
  ASSUME ContainerInv, Pickle \/ Prepare \/ RunContainer
  PROVE  ContainerInv'
<1>1. CASE Pickle
  BY <1>1 DEF Pickle, ContainerInv, Stopped, Over, BoxGone, disk, container, verdict
<1>2. CASE Prepare
  BY <1>2 DEF Prepare, ContainerInv, Stopped, Over, BoxGone, disk, container, verdict
<1>3. CASE RunContainer
  BY <1>3 DEF RunContainer, ContainerInv, Stopped, Over, BoxGone, disk, container, verdict
<1> QED BY <1>1, <1>2, <1>3

LEMMA CPolls ==
  ASSUME ContainerInv,
         PollExited \/ PollFails \/ PollExpired \/ PollSleeps \/ Wake \/ CancelExecute \/ KillContainer
  PROVE  ContainerInv'
<1>1. CASE PollExited \/ PollExpired \/ PollSleeps \/ Wake \/ CancelExecute
  <2>1. /\ cpc \in {"poll", "sleep"} /\ cpc' \in {"poll", "sleep", "kill", "stop", "stop cancelled"}
        /\ UNCHANGED <<disk, container, verdict>>
    BY <1>1 DEF PollExited, PollExpired, PollSleeps, Wake, CancelExecute
  <2> QED BY <2>1 DEF ContainerInv, Stopped, Over, BoxGone, disk, container, verdict
<1>2. CASE PollFails
  BY <1>2 DEF PollFails, ContainerInv, Stopped, Over, BoxGone, disk, container, verdict
<1>3. CASE KillContainer
  BY <1>3 DEF KillContainer, ContainerInv, Stopped, Over, BoxGone, disk, container, verdict
<1> QED BY <1>1, <1>2, <1>3

\* The container is stopped, its answer read, the directory removed.
LEMMA CEnds ==
  ASSUME ContainerInv, StopContainer \/ Collect \/ Cleanup
  PROVE  ContainerInv'
<1>1. CASE StopContainer
  BY <1>1 DEF StopContainer, AfterStop, ContainerInv, Stopped, Over, BoxGone, disk, container, verdict
<1>2. CASE Collect
  BY <1>2 DEF Collect, ContainerInv, Stopped, Over, BoxGone, disk, container, verdict
<1>3. CASE Cleanup
  BY <1>3 DEF Cleanup, ContainerInv, Stopped, Over, BoxGone, disk, container, verdict
<1> QED BY <1>1, <1>2, <1>3

\* The container's own steps, and the clock.
LEMMA CRuns ==
  ASSUME ContainerInv, FuncEnds \/ WriteEnds \/ RewriteEnds \/ BoxExits \/ BudgetExpires
  PROVE  ContainerInv'
<1>1. CASE FuncEnds \/ WriteEnds \/ RewriteEnds
  BY <1>1 DEF FuncEnds, WriteEnds, RewriteEnds, Program, ContainerInv, Stopped, Over, BoxGone, verdict
<1>2. CASE BoxExits \/ BudgetExpires
  BY <1>2 DEF BoxExits, BudgetExpires, ContainerInv, Stopped, Over, BoxGone, disk, container, verdict
<1> QED BY <1>1, <1>2

LEMMA CStepInv ==
  ASSUME ContainerInv, [CNext]_cvars
  PROVE  ContainerInv'
<1>1. CASE UNCHANGED cvars
  BY <1>1 DEF cvars, ContainerInv, BoxGone
<1>2. CASE CNext
  BY <1>2, CBefore, CPolls, CEnds, CRuns DEF CNext, ExecuteStep
<1> QED BY <1>1, <1>2

LEMMA CInvCleaned ==
  ASSUME ContainerInv
  PROVE  CTypeOK /\ SuccessIsWhole /\ NothingIsLeft
  BY DEF ContainerInv, Stopped, Over, BoxGone, CTypeOK, SuccessIsWhole, NothingIsLeft

-----------------------------------------------------------------------------
(***************************************************************************)
(* The exogenous-state controllers (ExogenousState).  As long as they are  *)
(* nested, the stubs in a slot are a stack: what a slot holds, and what a  *)
(* patch will put back, is the stub of the innermost controller around     *)
(* that patched the slot, or of one whose enter failed within it.          *)
(***************************************************************************)

XPlace == {"out", "entering", "inside", "leaving", "raised"}
Stub == Controller \cup {"original"}

XTypes ==
  /\ installed \subseteq Slot /\ slot \in [Slot -> Stub] /\ xpc \in [Controller -> XPlace]
  /\ xpos \in [Controller -> Nat] /\ patches \in [Controller -> Seq(Slot \X Stub)]
  /\ around \in [Controller -> SUBSET Controller] /\ crossed \in BOOLEAN

\* The slots a controller has patched, and those of its plan before a position.
PSlots(c) == {patches[c][i][1] : i \in DOMAIN patches[c]}
Planned(c, n) == {PatchPlan(c)[j] : j \in {k \in DOMAIN PatchPlan(c) : k < n}}

ControllerSound(c) ==
  /\ xpos[c] = 0 => xpc[c] = "out" /\ \A d \in Controller : c \notin around[d]
  /\ xpc[c] = "out" => patches[c] = <<>>
  /\ Len(patches[c]) < xpos[c] \/ patches[c] = <<>>
  /\ \A i, j \in DOMAIN patches[c] : patches[c][i][1] = patches[c][j][1] => i = j
  /\ xpc[c] = "entering" => xpos[c] > 0 /\ PSlots(c) = Planned(c, xpos[c]) \cap installed
  /\ xpc[c] = "inside" => PSlots(c) = {PatchPlan(c)[i] : i \in DOMAIN PatchPlan(c)} \cap installed

ActiveSet == {c \in Controller : Active(c)}

\* What slot s may hold when the controllers of A are around: H are the slots they
\* patched, F the controllers whose enter failed, and ar what was around each.
Legal(v, A, s, H, F, ar) ==
  \/ v = "original" /\ \A e \in A : s \notin H[e]
  \/ v \in A /\ s \in H[v] /\ \A e \in A \ {v} : s \in H[e] => e \in ar[v]
  \/ v \in F /\ s \in H[v] /\ \A e \in A : s \in H[e] => e \in ar[v]

Patched == [c \in Controller |-> PSlots(c)]
Fallen == {c \in Controller : xpc[c] = "raised"}

\* Of two active controllers one is around the other; one that enters or leaves
\* is the innermost.
Nested ==
  /\ \A c, d \in ActiveSet : c # d => c \in around[d] \/ d \in around[c]
  /\ \A c \in ActiveSet : c \notin around[c]
  /\ \A c \in ActiveSet, d \in ActiveSet :
       c # d /\ xpc[c] # "inside" => xpc[d] = "inside" /\ d \in around[c] /\ c \notin around[d]

StackSound ==
  /\ \A s \in Slot : Legal(slot[s], ActiveSet, s, Patched, Fallen, around)
  /\ \A c \in ActiveSet : \A i \in DOMAIN patches[c] :
       Legal(patches[c][i][2], ActiveSet \cap around[c], patches[c][i][1], Patched, Fallen, around)

XInv ==
  /\ XTypes
  /\ \A c \in Controller : ControllerSound(c)
  /\ ~crossed => Nested /\ StackSound

\* The plan patches seven slots, or six without a frozen clock, each once.
LEMMA PlanIsOneToOne ==
  ASSUME NEW c \in Controller
  PROVE  /\ PatchPlan(c) \in Seq(Slot)
         /\ \A i, j \in DOMAIN PatchPlan(c) : PatchPlan(c)[i] = PatchPlan(c)[j] => i = j
<1>1. Slot = {"time.time", "httpx.get", "httpx.post", "requests.get", "requests.post",
              "Completions.create", "AsyncCompletions.create"}
  <2>1. {Http[i] : i \in 1 .. 4} = {"httpx.get", "httpx.post", "requests.get", "requests.post"}
    BY DEF Http
  <2>2. Optional = {"Completions.create", "AsyncCompletions.create"}
    BY DEF Optional, Llm
  <2> QED BY <2>1, <2>2 DEF Slot, Clock
<1> DEFINE tail == <<"httpx.get", "httpx.post", "requests.get", "requests.post",
                      "Completions.create", "AsyncCompletions.create">>
           all == <<"time.time", "httpx.get", "httpx.post", "requests.get", "requests.post",
                    "Completions.create", "AsyncCompletions.create">>
<1>2. Http \o Llm = tail
  <2>1. Http \in Seq(Slot) /\ Llm \in Seq(Slot) /\ Len(Http) = 4 /\ Len(Llm) = 2
    BY <1>1 DEF Http, Llm
  <2>2. /\ Http \o Llm \in Seq(Slot) /\ Len(Http \o Llm) = 6
        /\ \A i \in 1 .. 6 : (Http \o Llm)[i] = IF i <= 4 THEN Http[i] ELSE Llm[i - 4]
    <3>1. /\ Http \o Llm \in Seq(Slot) /\ Len(Http \o Llm) = Len(Http) + Len(Llm)
          /\ \A i \in 1 .. Len(Http) + Len(Llm) :
               (Http \o Llm)[i] = IF i <= Len(Http) THEN Http[i] ELSE Llm[i - Len(Http)]
      BY <2>1, ConcatProperties, Zenon
    <3>2. Len(Http) + Len(Llm) = 6
      BY <2>1
    <3> QED BY <2>1, <3>1, <3>2
  <2>3. tail \in Seq(Slot) /\ Len(tail) = 6
    BY <1>1
  <2>4. \A i \in 1 .. 6 : (Http \o Llm)[i] = tail[i]
    BY <2>2 DEF Http, Llm
  <2> QED BY <2>2, <2>3, <2>4, SeqEqual
<1>3. <<"time.time">> \o tail = all
  <2>1. <<"time.time">> \in Seq(Slot) /\ tail \in Seq(Slot) /\ Len(<<"time.time">>) = 1 /\ Len(tail) = 6
    BY <1>1
  <2>2. /\ <<"time.time">> \o tail \in Seq(Slot) /\ Len(<<"time.time">> \o tail) = 7
        /\ \A i \in 1 .. 7 : (<<"time.time">> \o tail)[i] = IF i <= 1 THEN <<"time.time">>[i] ELSE tail[i - 1]
    <3> DEFINE clock == <<"time.time">>
    <3>1. clock \in Seq(Slot) /\ Len(clock) = 1
      BY <2>1
    <3> HIDE DEF tail, clock
    <3>2. /\ clock \o tail \in Seq(Slot) /\ Len(clock \o tail) = Len(clock) + Len(tail)
          /\ \A i \in 1 .. Len(clock) + Len(tail) :
               (clock \o tail)[i] = IF i <= Len(clock) THEN clock[i] ELSE tail[i - Len(clock)]
      BY <2>1, <3>1, ConcatProperties, Zenon
    <3>3. Len(clock) + Len(tail) = 7
      BY <2>1, <3>1
    <3> QED BY <3>1, <3>2, <3>3 DEF clock
  <2>3. all \in Seq(Slot) /\ Len(all) = 7
    BY <1>1
  <2>4. \A i \in 1 .. 7 : (<<"time.time">> \o tail)[i] = all[i]
    BY <2>2
  <2> QED BY <2>2, <2>3, <2>4, SeqEqual
<1>4. <<>> \o tail = tail
  <2>1. tail \in Seq(Slot)
    BY <1>1
  <2> HIDE DEF tail
  <2> QED BY <2>1, ConcatEmptySeq
<1>5. CASE c \in Freezes
  <2>1. PatchPlan(c) = <<"time.time">> \o (Http \o Llm)
    BY <1>5 DEF PatchPlan, Clock
  <2>2. PatchPlan(c) = all
    BY <1>2, <1>3, <2>1
  <2>3. DOMAIN PatchPlan(c) = 1 .. 7
    BY <2>2
  <2> QED BY <1>1, <2>2, <2>3
<1>6. CASE c \notin Freezes
  <2>1. PatchPlan(c) = <<>> \o (Http \o Llm)
    BY <1>6 DEF PatchPlan
  <2>2. PatchPlan(c) = tail
    BY <1>2, <1>4, <2>1
  <2>3. DOMAIN PatchPlan(c) = 1 .. 6
    BY <2>2
  <2> QED BY <1>1, <2>2, <2>3
<1> QED BY <1>5, <1>6

LEMMA XInitInv ==
  ASSUME XInit
  PROVE  XInv
<1>1. XTypes
  <2>1. installed \subseteq Slot
    BY ExogenousAssumption DEF XInit
  <2>2. patches \in [Controller -> Seq(Slot \X Stub)]
    <3>1. <<>> \in Seq(Slot \X Stub)
      OBVIOUS
    <3> QED BY <3>1 DEF XInit
  <2>3. slot \in [Slot -> Stub] /\ xpc \in [Controller -> XPlace] /\ xpos \in [Controller -> Nat]
    BY DEF XInit, XPlace, Stub
  <2> QED BY <2>1, <2>2, <2>3 DEF XInit, XTypes
<1>2. ActiveSet = {}
  BY DEF XInit, ActiveSet, Active
<1>3. ASSUME NEW c \in Controller PROVE ControllerSound(c)
  BY DEF XInit, ControllerSound
<1>4. Nested /\ StackSound
  BY <1>2 DEF XInit, Nested, StackSound, Legal
<1> QED BY <1>1, <1>3, <1>4 DEF XInv

\* What a slot holds stays legal when controllers that patched nothing come or go,
\* and when one of them fails.
LEMMA LegalStays ==
  ASSUME NEW v, NEW A, NEW B, NEW s, NEW H, NEW G, NEW F, NEW E, NEW ar, NEW br,
         Legal(v, A, s, H, F, ar),
         \A e \in B : s \in G[e] => e \in A /\ s \in H[e],
         v \in A /\ s \in H[v] => s \in G[v] /\ (v \in B \/ v \in E \ B),
         v \in F => v \in E /\ (s \in H[v] => s \in G[v]),
         v \in A \cup F => br[v] = ar[v]
  PROVE  Legal(v, B, s, G, E, br)
<1>1. CASE v = "original" /\ \A e \in A : s \notin H[e]
  BY <1>1 DEF Legal
<1>2. CASE v \in A /\ s \in H[v] /\ \A e \in A \ {v} : s \in H[e] => e \in ar[v]
  BY <1>2 DEF Legal
<1>3. CASE v \in F /\ s \in H[v] /\ \A e \in A : s \in H[e] => e \in ar[v]
  BY <1>3 DEF Legal
<1> QED BY <1>1, <1>2, <1>3 DEF Legal

\* A controller that takes no step stays as it is.
LEMMA XOthers ==
  ASSUME XInv, NEW c \in Controller, installed' = installed,
         \A d \in Controller \ {c} : xpc'[d] = xpc[d] /\ xpos'[d] = xpos[d] /\ patches'[d] = patches[d],
         \A d \in Controller \ {c}, e \in Controller : xpos[d] = 0 /\ d \in around'[e] => d \in around[e]
  PROVE  \A d \in Controller \ {c} : ControllerSound(d)' /\ PSlots(d)' = PSlots(d)
<1> SUFFICES ASSUME NEW d \in Controller \ {c}
             PROVE  ControllerSound(d)' /\ PSlots(d)' = PSlots(d)
  OBVIOUS
<1>1. xpc'[d] = xpc[d] /\ xpos'[d] = xpos[d] /\ patches'[d] = patches[d] /\ ControllerSound(d)
  BY DEF XInv
<1>2. PSlots(d)' = PSlots(d)
  BY <1>1 DEF PSlots
<1>3. xpos'[d] = 0 => xpc'[d] = "out" /\ \A e \in Controller : d \notin around'[e]
  BY <1>1 DEF ControllerSound
<1>4. xpc'[d] = "entering" => xpos'[d] > 0 /\ PSlots(d)' = (Planned(d, xpos[d]) \cap installed)'
  BY <1>1, <1>2 DEF ControllerSound, Planned, PatchPlan
<1>5. xpc'[d] = "inside" => PSlots(d)' = ({PatchPlan(d)[i] : i \in DOMAIN PatchPlan(d)} \cap installed)'
  BY <1>1, <1>2 DEF ControllerSound, PatchPlan
<1> QED BY <1>1, <1>2, <1>3, <1>4, <1>5 DEF ControllerSound

\* A step that moves controller c to another place and patches nothing: the stacks
\* stay, if c comes with no patch, goes with none, or fails as the innermost.
LEMMA XMoves ==
  ASSUME XInv, NEW c \in Controller, NEW place \in XPlace,
         xpc' = [xpc EXCEPT ![c] = place], patches' = patches, slot' = slot,
         ~crossed, \A d \in ActiveSet \ {c} : c \notin around[d],
         \A d \in Controller \ {c} : around'[d] = around[d],
         Active(c) => around'[c] = around[c], xpc[c] # "raised",
         Active(c) \/ place \in {"entering", "inside", "leaving"},
         PSlots(c) = {} \/ place # "out",
         ~Active(c) => PSlots(c) = {}
  PROVE  StackSound'
<1> DEFINE A == ActiveSet
           B == ActiveSet'
<1>1. /\ \A d \in Controller \ {c} : xpc'[d] = xpc[d]
      /\ xpc'[c] = place /\ xpc \in [Controller -> XPlace]
  BY DEF XInv, XTypes
<1>2. B \subseteq A \cup {c} /\ A \subseteq B \cup {c} /\ A \subseteq Controller /\ B \subseteq Controller
  BY <1>1 DEF ActiveSet, Active
<1>3. Patched' = Patched /\ \A d \in Controller : Patched[d] = PSlots(d)
  BY DEF Patched, PSlots
<1>4. /\ Fallen \subseteq Fallen' /\ c \notin Fallen /\ Fallen \cap A = {} /\ Fallen \subseteq Controller
      /\ c \in Controller /\ (c \in A \/ c \in B) /\ (c \in A /\ c \notin B => Patched[c] = {} \/ c \in Fallen')
  <2>1. Fallen \subseteq Fallen' /\ c \notin Fallen /\ Fallen \cap A = {} /\ Fallen \subseteq Controller
    BY <1>1 DEF Fallen, ActiveSet, Active
  <2>2. (c \in A \/ c \in B) /\ (c \notin B => place \in {"out", "raised"})
    BY <1>1 DEF ActiveSet, Active, XPlace
  <2>3. c \in A /\ c \notin B => Patched[c] = {} \/ c \in Fallen'
    BY <1>1, <1>3, <2>2 DEF Fallen
  <2> QED BY <2>1, <2>2, <2>3
<1>5. /\ \A s \in Slot : Legal(slot[s], A, s, Patched, Fallen, around)
      /\ \A d \in A : \A i \in DOMAIN patches[d] :
           Legal(patches[d][i][2], A \cap around[d], patches[d][i][1], Patched, Fallen, around)
  BY DEF XInv, StackSound
<1>6. c \notin A => Patched[c] = {}
  BY <1>3 DEF ActiveSet
<1> HIDE DEF A, B
<1>7. ASSUME NEW s \in Slot PROVE Legal(slot'[s], B, s, Patched', Fallen', around')
  <2>1. \A e \in B : s \in Patched[e] => e \in A
    BY <1>2, <1>6
  <2>2. slot[s] \in A /\ s \in Patched[slot[s]] => slot[s] \in B \/ slot[s] \in Fallen' \ B
    BY <1>2, <1>4
  <2>3. slot[s] \in A \cup Fallen => around'[slot[s]] = around[slot[s]]
    BY <1>2, <1>4 DEF A, ActiveSet
  <2> HIDE DEF Legal
  <2>4. Legal(slot[s], B, s, Patched, Fallen', around')
    BY <1>4, <1>5, <2>1, <2>2, <2>3, LegalStays
  <2> QED BY <1>3, <2>4
<1>8. ASSUME NEW d \in B, NEW i \in DOMAIN patches[d]
      PROVE  Legal(patches[d][i][2], B \cap around'[d], patches[d][i][1], Patched', Fallen', around')
  <2> DEFINE v == patches[d][i][2]
             s == patches[d][i][1]
             P == A \cap around[d]
             Q == B \cap around'[d]
  <2>0. d \in A
    <3>1. s \in Patched[d]
      BY <1>2, <1>3 DEF PSlots
    <3> QED BY <1>2, <1>6, <3>1
  <2>1. around'[d] = around[d] /\ Legal(v, P, s, Patched, Fallen, around)
    BY <1>2, <1>5, <2>0 DEF A, ActiveSet
  <2>3. P \ {c} = Q \ {c} /\ (c \in Q => Patched[c] = {} \/ c \in P) /\ (c \in P /\ c \notin Q => Patched[c] = {} \/ c \in Fallen')
    BY <1>2, <1>4, <1>6, <2>0, <2>1
  <2> HIDE DEF v, s, P, Q
  <2>4. \A e \in Q : s \in Patched[e] => e \in P
    BY <2>3
  <2>5. v \in P /\ s \in Patched[v] => v \in Q \/ v \in Fallen' \ Q
    BY <2>3
  <2>6. v \in P \cup Fallen => around'[v] = around[v]
    BY <1>2, <1>4 DEF P, A, ActiveSet
  <2> HIDE DEF Legal
  <2>7. Legal(v, Q, s, Patched, Fallen', around')
    BY <1>4, <2>1, <2>4, <2>5, <2>6, LegalStays
  <2> QED BY <1>3, <2>7 DEF v, s, Q
<1> QED BY <1>7, <1>8 DEF StackSound, B

LEMMA XEntering ==
  ASSUME XInv, NEW c \in Controller, Entering(c)
  PROVE  XInv'
<1>1. /\ xpc[c] = "out" /\ xpos[c] = 0 /\ ControllerSound(c) /\ patches[c] = <<>>
      /\ xpc' = [xpc EXCEPT ![c] = "entering"] /\ xpos' = [xpos EXCEPT ![c] = 1]
      /\ around' = [around EXCEPT ![c] = ActiveSet]
      /\ crossed' = (crossed \/ \E d \in Controller : xpc[d] \in {"entering", "leaving"})
      /\ UNCHANGED <<installed, slot, patches>>
  BY DEF Entering, XInv, ControllerSound, ActiveSet
<1>2. /\ \A d \in Controller \ {c} : xpc'[d] = xpc[d] /\ xpos'[d] = xpos[d] /\ around'[d] = around[d]
      /\ xpc'[c] = "entering" /\ xpos'[c] = 1 /\ around'[c] = ActiveSet
      /\ xpc' \in [Controller -> XPlace] /\ xpos' \in [Controller -> Nat]
      /\ around' \in [Controller -> SUBSET Controller] /\ ActiveSet \subseteq Controller
  <2>1. ActiveSet \in SUBSET Controller
    BY DEF ActiveSet
  <2> QED BY <1>1, <2>1 DEF XInv, XTypes, XPlace
<1>3. XTypes'
  BY <1>1, <1>2 DEF XInv, XTypes
<1>4. \A d \in ActiveSet : xpos[d] # 0
  BY DEF XInv, ControllerSound, ActiveSet, Active
<1>5. \A d \in Controller \ {c} : ControllerSound(d)'
  BY <1>1, <1>2, <1>4, XOthers
<1>6. ControllerSound(c)'
  <2>1. PSlots(c)' = {} /\ Planned(c, 1)' = {}
    <3>1. PSlots(c)' = {}
      BY <1>1 DEF PSlots
    <3>2. DOMAIN PatchPlan(c) \subseteq Nat \ {0}
      BY PlanIsOneToOne
    <3>3. Planned(c, 1)' = {}
      BY <3>2 DEF Planned, PatchPlan
    <3> QED BY <3>1, <3>3
  <2>2. PSlots(c)' = (Planned(c, xpos[c]) \cap installed)'
    BY <1>2, <2>1
  <2> QED BY <1>1, <1>2, <2>2 DEF ControllerSound
<1>7. ASSUME ~crossed' PROVE Nested' /\ StackSound'
  <2>1. ~crossed /\ Nested /\ \A d \in ActiveSet : xpc[d] = "inside" /\ d # c /\ c \notin around[d]
    BY <1>1, <1>7 DEF XInv, ActiveSet, Active, ControllerSound
  <2>2. ActiveSet' = ActiveSet \cup {c} /\ ~Active(c)
    BY <1>1, <1>2 DEF ActiveSet, Active
  <2>3. Nested'
    BY <1>2, <2>1, <2>2 DEF Nested
  <2>4. PSlots(c) = {}
    BY <1>1 DEF PSlots
  <2>5. StackSound'
    BY <1>1, <1>2, <2>1, <2>2, <2>4, XMoves DEF XPlace
  <2> QED BY <2>3, <2>5
<1> QED BY <1>3, <1>5, <1>6, <1>7 DEF XInv

\* The steps of an entered controller that patch nothing.
LEMMA XPlaces ==
  ASSUME XInv, NEW c \in Controller, StartRaises(c) \/ Entered(c) \/ Leaving(c) \/ Left(c)
  PROVE  XInv'
<1>1. PICK place \in {"raised", "inside", "leaving", "out"} :
        /\ xpc' = [xpc EXCEPT ![c] = place]
        /\ place = "raised" => xpc[c] = "entering"
        /\ place = "inside" => xpc[c] = "entering" /\ xpos[c] > Len(PatchPlan(c))
        /\ place = "leaving" => xpc[c] = "inside"
        /\ place = "out" => xpc[c] = "leaving" /\ patches[c] = <<>>
        /\ place # "leaving" => crossed' = crossed
  BY DEF StartRaises, Entered, Leaving, Left
<1>2. /\ UNCHANGED <<installed, slot, xpos, patches, around>>
      /\ place = "leaving" => crossed' = (crossed \/ \E d \in Controller \ {c} :
                                            Active(d) /\ (c \in around[d] \/ xpc[d] # "inside"))
  <2>1. UNCHANGED <<installed, slot, xpos, patches, around>>
    BY DEF StartRaises, Entered, Leaving, Left
  <2>2. xpc'[c] = place /\ c \in DOMAIN xpc
    BY <1>1 DEF XInv, XTypes
  <2>3. place = "leaving" => Leaving(c)
    BY <2>2 DEF StartRaises, Entered, Left
  <2> QED BY <2>1, <2>3 DEF Leaving
<1>3. /\ \A d \in Controller \ {c} : xpc'[d] = xpc[d]
      /\ xpc'[c] = place /\ xpc' \in [Controller -> XPlace] /\ Active(c) /\ ControllerSound(c)
      /\ crossed' \in BOOLEAN /\ xpos[c] \in Nat /\ xpos[c] # 0
  BY <1>1, <1>2 DEF XInv, XTypes, XPlace, Active, ControllerSound
<1>4. XTypes'
  BY <1>2, <1>3 DEF XInv, XTypes
<1>5. \A d \in Controller \ {c} : ControllerSound(d)'
  BY <1>2, <1>3, XOthers
<1>6. ControllerSound(c)'
  <2>1. PSlots(c)' = PSlots(c)
    BY <1>2 DEF PSlots
  <2>2. place = "inside" => PSlots(c)' = ({PatchPlan(c)[i] : i \in DOMAIN PatchPlan(c)} \cap installed)'
    <3> SUFFICES ASSUME place = "inside"
                 PROVE  PSlots(c)' = ({PatchPlan(c)[i] : i \in DOMAIN PatchPlan(c)} \cap installed)'
      OBVIOUS
    <3>1. PSlots(c) = Planned(c, xpos[c]) \cap installed
      BY <1>1, <1>3 DEF ControllerSound
    <3>2. {k \in DOMAIN PatchPlan(c) : k < xpos[c]} = DOMAIN PatchPlan(c)
      <4>1. PICK n \in Nat : n = Len(PatchPlan(c)) /\ DOMAIN PatchPlan(c) = 1 .. n
        BY PlanIsOneToOne
      <4>2. xpos[c] > n
        BY <1>1, <4>1
      <4> QED BY <1>3, <4>1, <4>2
    <3>3. Planned(c, xpos[c]) = {PatchPlan(c)[i] : i \in DOMAIN PatchPlan(c)}
      BY <3>2 DEF Planned
    <3>4. ({PatchPlan(c)[i] : i \in DOMAIN PatchPlan(c)} \cap installed)'
            = {PatchPlan(c)[i] : i \in DOMAIN PatchPlan(c)} \cap installed
      BY <1>2 DEF PatchPlan
    <3> QED BY <2>1, <3>1, <3>3, <3>4
  <2> QED BY <1>1, <1>2, <1>3, <2>1, <2>2 DEF ControllerSound
<1>7. ASSUME ~crossed' PROVE Nested' /\ StackSound'
  <2>1. ~crossed /\ Nested
    <3>1. CASE place = "leaving"
      BY <1>2, <1>7, <3>1 DEF XInv
    <3>2. CASE place # "leaving"
      <4>1. crossed' = crossed
        BY <1>1, <3>2
      <4> QED BY <1>7, <4>1 DEF XInv
    <3> QED BY <3>1, <3>2
  <2>2. /\ c \in ActiveSet /\ ActiveSet' \subseteq ActiveSet /\ ActiveSet \subseteq Controller
        /\ \A d \in ActiveSet \ {c} : xpc'[d] = xpc[d]
    BY <1>1, <1>3 DEF ActiveSet, Active
  <2>3. \A d \in ActiveSet \ {c} : c \notin around[d] /\ xpc[d] = "inside" /\ d \in around[c]
    <3>1. CASE place = "leaving"
      BY <1>2, <1>7, <2>1, <2>2, <3>1 DEF Nested, ActiveSet
    <3>2. CASE place # "leaving"
      BY <1>1, <2>1, <2>2, <3>2 DEF Nested
    <3> QED BY <3>1, <3>2
  <2>4. Nested'
    BY <1>2, <2>1, <2>2, <2>3 DEF Nested
  <2>5. StackSound'
    <3>1. place \in XPlace /\ xpc[c] # "raised" /\ (PSlots(c) = {} \/ place # "out")
      BY <1>1, <1>3 DEF XPlace, PSlots, Active
    <3> QED BY <1>1, <1>2, <1>3, <2>1, <2>3, <3>1, XMoves
  <2> QED BY <2>4, <2>5
<1> QED BY <1>4, <1>5, <1>6, <1>7 DEF XInv

\* patcher.start(): the new stub is the innermost, what it hides is kept.
LEMMA XStarts ==
  ASSUME XInv, NEW c \in Controller, StartPatch(c)
  PROVE  XInv'
<1>0. PICK n, x : n = xpos[c] /\ x = PatchPlan(c)[n]
  OBVIOUS
<1>1. /\ xpc[c] = "entering" /\ n \in Nat /\ n > 0 /\ n <= Len(PatchPlan(c)) /\ ControllerSound(c)
      /\ xpos' = [xpos EXCEPT ![c] = n + 1] /\ UNCHANGED <<installed, xpc, around, crossed>>
      /\ PSlots(c) = Planned(c, n) \cap installed
  BY <1>0 DEF StartPatch, XInv, XTypes, ControllerSound
<1>2. n \in DOMAIN PatchPlan(c) /\ x \in Slot
  BY <1>0, <1>1, PlanIsOneToOne
<1>3. /\ \A d \in Controller \ {c} : xpos'[d] = xpos[d]
      /\ xpos'[c] = n + 1 /\ xpos' \in [Controller -> Nat]
  BY <1>1 DEF XInv, XTypes
<1>4. Planned(c, n + 1) = Planned(c, n) \cup {x} /\ x \notin Planned(c, n)
  <2>1. {k \in DOMAIN PatchPlan(c) : k < n + 1} = {k \in DOMAIN PatchPlan(c) : k < n} \cup {n}
    <3>1. DOMAIN PatchPlan(c) \subseteq Int
      BY PlanIsOneToOne
    <3> QED BY <1>1, <1>2, <3>1
  <2>2. Planned(c, n + 1) = Planned(c, n) \cup {x}
    BY <1>0, <2>1 DEF Planned
  <2>4. x \notin Planned(c, n)
    <3> SUFFICES ASSUME x \in Planned(c, n) PROVE FALSE
      OBVIOUS
    <3>1. PICK k \in DOMAIN PatchPlan(c) : k < n /\ x = PatchPlan(c)[k]
      BY DEF Planned
    <3>2. k = n
      BY <1>0, <1>2, <3>1, PlanIsOneToOne
    <3> QED BY <1>1, <3>1, <3>2
  <2> QED BY <2>2, <2>4
<1>5. (Planned(c, xpos[c]) \cap installed)' = Planned(c, n + 1) \cap installed
  BY <1>1, <1>3 DEF Planned, PatchPlan
<1>6. CASE x \notin installed
  <2>1. patches' = patches /\ slot' = slot
    BY <1>0, <1>6 DEF StartPatch
  <2>2. XTypes'
    BY <1>1, <1>3, <2>1 DEF XInv, XTypes
  <2>3. \A d \in Controller \ {c} : ControllerSound(d)'
    BY <1>1, <1>3, <2>1, XOthers
  <2>4. ControllerSound(c)'
    <3>1. PSlots(c)' = PSlots(c)
      BY <2>1 DEF PSlots
    <3>2. (Planned(c, xpos[c]) \cap installed)' = Planned(c, n) \cap installed
      BY <1>4, <1>6, <1>5
    <3>3. Len(patches[c]) \in Nat /\ (Len(patches[c]) < n + 1 \/ patches[c] = <<>>)
      <4>1. Len(patches[c]) \in Nat
        BY DEF XInv, XTypes
      <4>2. Len(patches[c]) < n \/ patches[c] = <<>>
        BY <1>0, <1>1 DEF ControllerSound
      <4> QED BY <1>1, <4>1, <4>2
    <3> QED BY <1>1, <1>3, <2>1, <3>1, <3>2, <3>3 DEF ControllerSound
  <2>5. ASSUME ~crossed' PROVE Nested' /\ StackSound'
    <3>1. ~crossed /\ Nested /\ StackSound
      BY <1>1, <2>5 DEF XInv
    <3>2. ActiveSet' = ActiveSet /\ Patched' = Patched /\ Fallen' = Fallen
      BY <1>1, <2>1 DEF ActiveSet, Active, Patched, PSlots, Fallen
    <3>3. Nested'
      BY <1>1, <3>1, <3>2 DEF Nested
    <3> QED BY <1>1, <2>1, <3>1, <3>2, <3>3 DEF StackSound
  <2> QED BY <2>2, <2>3, <2>4, <2>5 DEF XInv
<1>7. CASE x \in installed
  <2>1. /\ slot' = [slot EXCEPT ![x] = c]
        /\ patches' = [patches EXCEPT ![c] = Append(patches[c], <<x, slot[x]>>)]
    BY <1>0, <1>7 DEF StartPatch, XInv, XTypes
  <2>2. patches[c] \in Seq(Slot \X Stub) /\ <<x, slot[x]>> \in Slot \X Stub
    BY <1>2 DEF XInv, XTypes
  <2> DEFINE m == Len(patches[c])
  <2>3. /\ m \in Nat /\ patches' \in [Controller -> Seq(Slot \X Stub)]
        /\ DOMAIN patches[c] = 1 .. m /\ DOMAIN patches'[c] = 1 .. m + 1 /\ Len(patches'[c]) = m + 1
        /\ \A i \in 1 .. m : patches'[c][i] = patches[c][i]
        /\ patches'[c][m + 1] = <<x, slot[x]>>
        /\ \A d \in Controller \ {c} : patches'[d] = patches[d]
    <3>1. Append(patches[c], <<x, slot[x]>>) \in Seq(Slot \X Stub)
      BY <2>2
    <3>2. patches' \in [Controller -> Seq(Slot \X Stub)] /\ patches'[c] = Append(patches[c], <<x, slot[x]>>)
          /\ \A d \in Controller \ {c} : patches'[d] = patches[d]
      BY <2>1, <3>1 DEF XInv, XTypes
    <3> QED BY <2>2, <3>2
  <2>4. /\ slot' \in [Slot -> Stub] /\ slot'[x] = c /\ \A s \in Slot \ {x} : slot'[s] = slot[s]
    BY <1>2, <2>1 DEF XInv, XTypes, Stub
  <2> HIDE DEF m
  <2>5. XTypes'
    BY <1>1, <1>3, <2>3, <2>4 DEF XInv, XTypes
  <2>6. \A d \in Controller \ {c} : ControllerSound(d)' /\ PSlots(d)' = PSlots(d)
    BY <1>1, <1>3, <2>3, XOthers
  <2>7. PSlots(c)' = PSlots(c) \cup {x} /\ x \notin PSlots(c)
    <3>1. PSlots(c)' \subseteq PSlots(c) \cup {x}
      BY <2>3 DEF PSlots
    <3>2. PSlots(c) \cup {x} \subseteq PSlots(c)'
      <4>1. x \in PSlots(c)'
        BY <2>3 DEF PSlots
      <4>2. PSlots(c) \subseteq PSlots(c)'
        <5> SUFFICES ASSUME NEW i \in DOMAIN patches[c] PROVE patches[c][i][1] \in PSlots(c)'
          BY DEF PSlots
        <5>1. i \in DOMAIN patches'[c] /\ patches'[c][i] = patches[c][i]
          BY <2>3
        <5> QED BY <5>1 DEF PSlots
      <4> QED BY <4>1, <4>2
    <3>3. x \notin PSlots(c)
      BY <1>1, <1>4
    <3> QED BY <3>1, <3>2, <3>3
  <2>8. ControllerSound(c)'
    <3>1. (Planned(c, xpos[c]) \cap installed)' = PSlots(c)'
      BY <1>1, <1>4, <1>7, <1>5, <2>7
    <3>2. Len(patches'[c]) < xpos'[c]
      <4>1. m < n
        BY <1>0, <1>1, <2>2, <2>3 DEF ControllerSound, m
      <4> QED BY <1>1, <1>3, <2>3, <4>1
    <3>3. \A i, j \in DOMAIN patches'[c] : patches'[c][i][1] = patches'[c][j][1] => i = j
      <4>1. \A i \in 1 .. m : patches'[c][i][1] # x
        BY <2>3, <2>7 DEF PSlots
      <4>2. patches'[c][m + 1][1] = x
        BY <2>3
      <4>3. \A i \in 1 .. m + 1 : i \in 1 .. m \/ i = m + 1
        BY <2>3
      <4>4. \A i, j \in 1 .. m : patches'[c][i][1] = patches'[c][j][1] => i = j
        BY <1>1, <2>3 DEF ControllerSound
      <4> QED BY <2>3, <4>1, <4>2, <4>3, <4>4
    <3>4. xpos'[c] > 0 /\ xpc'[c] = "entering"
      BY <1>1, <1>3
    <3> QED BY <3>1, <3>2, <3>3, <3>4 DEF ControllerSound
  <2>9. ASSUME ~crossed' PROVE Nested' /\ StackSound'
    <3> DEFINE A == ActiveSet
    <3>1. ~crossed /\ Nested /\ StackSound
      BY <1>1, <2>9 DEF XInv
    <3>2. /\ ActiveSet' = A /\ Fallen' = Fallen /\ c \in A /\ A \subseteq Controller
          /\ c \notin Fallen /\ Fallen \cap A = {} /\ Fallen \subseteq Controller
      BY <1>1 DEF ActiveSet, Active, Fallen
    <3>3. /\ Patched'[c] = Patched[c] \cup {x} /\ x \notin Patched[c]
          /\ \A d \in Controller \ {c} : Patched'[d] = Patched[d]
      BY <2>6, <2>7 DEF Patched
    <3>4. Nested'
      BY <1>1, <3>1, <3>2 DEF Nested
    <3>5. \A d \in A \ {c} : d \in around[c] /\ c \notin around[d]
      BY <1>1, <3>1, <3>2 DEF Nested
    <3>6. c \notin around[c]
      BY <3>1, <3>2 DEF Nested
    <3>7. /\ \A s \in Slot : Legal(slot[s], A, s, Patched, Fallen, around)
          /\ \A d \in A : \A i \in DOMAIN patches[d] :
               Legal(patches[d][i][2], A \cap around[d], patches[d][i][1], Patched, Fallen, around)
      BY <3>1 DEF StackSound
    <3> HIDE DEF A
    <3>8. ASSUME NEW s \in Slot PROVE Legal(slot'[s], A, s, Patched', Fallen, around)
      <4>1. CASE s = x
        BY <2>4, <3>2, <3>3, <3>5, <4>1 DEF Legal
      <4>2. CASE s # x
        <5>1. slot'[s] = slot[s] /\ \A e \in Controller : s \in Patched'[e] <=> s \in Patched[e]
          BY <2>4, <3>3, <4>2
        <5>2. Legal(slot[s], A, s, Patched', Fallen, around)
          BY <3>2, <3>7, <5>1, LegalStays
        <5> QED BY <5>1, <5>2
      <4> QED BY <4>1, <4>2
    <3>9. ASSUME NEW d \in A, NEW i \in DOMAIN patches'[d]
          PROVE  Legal(patches'[d][i][2], A \cap around[d], patches'[d][i][1], Patched', Fallen, around)
      <4> DEFINE v == patches'[d][i][2]
                 s == patches'[d][i][1]
                 Q == A \cap around[d]
      <4>1. c \notin Q /\ Q \subseteq Controller
        BY <3>2, <3>5, <3>6
      <4>2. CASE d = c /\ i = m + 1
        <5>1. v = slot[x] /\ s = x /\ Q = A \ {c}
          BY <2>3, <3>5, <3>6, <4>2
        <5>2. Legal(slot[x], A, x, Patched, Fallen, around)
          BY <1>2, <3>7
        <5> HIDE DEF v, s, Q
        <5>3. \A e \in Q : x \in Patched'[e] => e \in A /\ x \in Patched[e]
          BY <3>2, <3>3, <5>1
        <5>4. slot[x] \in A /\ x \in Patched[slot[x]] => x \in Patched'[slot[x]] /\ slot[x] \in Q
          BY <3>2, <3>3, <5>1
        <5>5. slot[x] \in Fallen => (x \in Patched[slot[x]] => x \in Patched'[slot[x]])
          BY <3>2, <3>3
        <5>6. Legal(slot[x], Q, x, Patched', Fallen, around)
          BY <5>2, <5>3, <5>4, <5>5, LegalStays
        <5> QED BY <5>1, <5>6 DEF v, s, Q
      <4>3. CASE ~(d = c /\ i = m + 1)
        <5>1. i \in DOMAIN patches[d] /\ patches'[d][i] = patches[d][i]
          <6>1. CASE d = c
            <7>1. i \in 1 .. m
              BY <2>3, <4>3, <6>1
            <7> QED BY <2>3, <6>1, <7>1
          <6>2. CASE d # c
            BY <2>3, <3>2, <6>2
          <6> QED BY <6>1, <6>2
        <5>2. Legal(v, Q, s, Patched, Fallen, around)
          BY <3>7, <5>1
        <5> HIDE DEF v, s, Q
        <5>3. \A e \in Q : s \in Patched'[e] => s \in Patched[e]
          BY <3>3, <4>1
        <5>4. v \in Q /\ s \in Patched[v] => s \in Patched'[v]
          BY <3>3, <4>1
        <5>5. v \in Fallen => (s \in Patched[v] => s \in Patched'[v])
          BY <3>2, <3>3
        <5>6. Legal(v, Q, s, Patched', Fallen, around)
          BY <5>2, <5>3, <5>4, <5>5, LegalStays
        <5> QED BY <5>6 DEF v, s, Q
      <4> QED BY <4>2, <4>3
    <3> QED BY <1>1, <3>2, <3>4, <3>8, <3>9 DEF StackSound, A
  <2> QED BY <2>5, <2>6, <2>8, <2>9 DEF XInv
<1> QED BY <1>6, <1>7

\* patcher.stop(): the innermost stub goes, and what it hid is back.
LEMMA XStops ==
  ASSUME XInv, NEW c \in Controller, StopPatch(c)
  PROVE  XInv'
<1>1. PICK m, x, w : m = Len(patches[c]) /\ x = patches[c][m][1] /\ w = patches[c][m][2]
  OBVIOUS
<1>2. /\ xpc[c] = "leaving" /\ m > 0 /\ ControllerSound(c)
      /\ slot' = [slot EXCEPT ![x] = w] /\ patches' = [patches EXCEPT ![c] = SubSeq(patches[c], 1, m - 1)]
      /\ UNCHANGED <<installed, xpc, xpos, around, crossed>>
  BY <1>1 DEF StopPatch, XInv, XTypes
<1>3. patches[c] \in Seq(Slot \X Stub) /\ m \in Nat /\ DOMAIN patches[c] = 1 .. m /\ m - 1 \in Nat
  BY <1>1, <1>2 DEF XInv, XTypes
<1>4. x \in Slot /\ w \in Stub /\ m \in DOMAIN patches[c]
  BY <1>1, <1>2, <1>3
<1>5. /\ SubSeq(patches[c], 1, m - 1) \in Seq(Slot \X Stub) /\ Len(SubSeq(patches[c], 1, m - 1)) = m - 1
      /\ DOMAIN SubSeq(patches[c], 1, m - 1) = 1 .. m - 1
      /\ \A i \in 1 .. m - 1 : SubSeq(patches[c], 1, m - 1)[i] = patches[c][i]
  BY <1>1, <1>3
<1>6. /\ patches' \in [Controller -> Seq(Slot \X Stub)]
      /\ patches'[c] = SubSeq(patches[c], 1, m - 1)
      /\ \A d \in Controller \ {c} : patches'[d] = patches[d]
  BY <1>2, <1>5 DEF XInv, XTypes
<1>7. /\ Len(patches'[c]) = m - 1 /\ DOMAIN patches'[c] = 1 .. m - 1
      /\ \A i \in 1 .. m - 1 : patches'[c][i] = patches[c][i] /\ i \in DOMAIN patches[c] /\ i # m
  <2>1. \A i \in 1 .. m - 1 : i \in 1 .. m /\ i # m
    BY <1>3
  <2> QED BY <1>3, <1>5, <1>6, <2>1
<1>8. slot' \in [Slot -> Stub] /\ slot'[x] = w /\ \A s \in Slot \ {x} : slot'[s] = slot[s]
  BY <1>2, <1>4 DEF XInv, XTypes
<1>9. XTypes'
  BY <1>2, <1>6, <1>8 DEF XInv, XTypes
<1>10. \A d \in Controller \ {c} : ControllerSound(d)' /\ PSlots(d)' = PSlots(d)
  BY <1>2, <1>6, XOthers
<1>11. PSlots(c)' = PSlots(c) \ {x}
  <2>1. \A i \in DOMAIN patches[c] : patches[c][i][1] = x => i = m
    BY <1>1, <1>2, <1>4 DEF ControllerSound
  <2>2. PSlots(c)' \subseteq PSlots(c) \ {x}
    <3> SUFFICES ASSUME NEW i \in DOMAIN patches'[c] PROVE patches'[c][i][1] \in PSlots(c) \ {x}
      BY DEF PSlots
    <3>1. patches'[c][i] = patches[c][i] /\ i \in DOMAIN patches[c] /\ i # m
      BY <1>7
    <3> QED BY <2>1, <3>1 DEF PSlots
  <2>3. PSlots(c) \ {x} \subseteq PSlots(c)'
    <3> SUFFICES ASSUME NEW i \in DOMAIN patches[c], patches[c][i][1] # x PROVE patches[c][i][1] \in PSlots(c)'
      BY DEF PSlots
    <3>1. i # m
      BY <1>1
    <3>2. i \in 1 .. m - 1
      BY <1>3, <3>1
    <3>3. i \in DOMAIN patches'[c] /\ patches'[c][i] = patches[c][i]
      BY <1>7, <3>2
    <3> QED BY <3>3 DEF PSlots
  <2> QED BY <2>2, <2>3
<1>12. ControllerSound(c)'
  <2>1. xpos[c] \in Nat /\ xpos'[c] = xpos[c] /\ m < xpos[c]
    BY <1>1, <1>2, <1>3 DEF XInv, XTypes, ControllerSound
  <2>2. Len(patches'[c]) < xpos'[c] /\ xpos'[c] # 0
    BY <1>3, <1>7, <2>1
  <2>3. \A i, j \in DOMAIN patches'[c] : patches'[c][i][1] = patches'[c][j][1] => i = j
    <3>1. \A i, j \in DOMAIN patches[c] : patches[c][i][1] = patches[c][j][1] => i = j
      BY <1>2 DEF ControllerSound
    <3>2. \A i \in DOMAIN patches'[c] : patches'[c][i] = patches[c][i] /\ i \in DOMAIN patches[c]
      BY <1>7
    <3> QED BY <3>1, <3>2
  <2> QED BY <1>2, <2>2, <2>3 DEF ControllerSound
<1>13. ASSUME ~crossed' PROVE Nested' /\ StackSound'
  <2> DEFINE A == ActiveSet
  <2>1. ~crossed /\ Nested /\ StackSound
    BY <1>2, <1>13 DEF XInv
  <2>2. /\ ActiveSet' = A /\ Fallen' = Fallen /\ c \in A /\ A \subseteq Controller
        /\ c \notin Fallen /\ Fallen \subseteq Controller
    BY <1>2 DEF ActiveSet, Active, Fallen
  <2>3. /\ Patched'[c] = Patched[c] \ {x} /\ \A d \in Controller \ {c} : Patched'[d] = Patched[d]
    BY <1>10, <1>11 DEF Patched
  <2>4. Nested'
    BY <1>2, <2>1, <2>2 DEF Nested
  <2>5. \A d \in A \ {c} : d \in around[c] /\ c \notin around[d]
    BY <1>2, <2>1, <2>2 DEF Nested
  <2>6. c \notin around[c]
    BY <2>1, <2>2 DEF Nested
  <2>7. /\ \A s \in Slot : Legal(slot[s], A, s, Patched, Fallen, around)
        /\ \A d \in A : \A i \in DOMAIN patches[d] :
             Legal(patches[d][i][2], A \cap around[d], patches[d][i][1], Patched, Fallen, around)
    BY <2>1 DEF StackSound
  <2> HIDE DEF A
  <2>8. ASSUME NEW s \in Slot PROVE Legal(slot'[s], A, s, Patched', Fallen, around)
    <3>1. CASE s = x
      <4>1. Legal(w, A \cap around[c], x, Patched, Fallen, around)
        BY <1>1, <1>4, <2>2, <2>7
      <4>2. \A e \in A : x \in Patched'[e] => e \in A \cap around[c] /\ x \in Patched[e]
        BY <2>2, <2>3, <2>5
      <4>3. w \in A \cap around[c] /\ x \in Patched[w] => x \in Patched'[w] /\ w \in A
        BY <2>2, <2>3, <2>6
      <4>4. w \in Fallen => (x \in Patched[w] => x \in Patched'[w])
        BY <2>2, <2>3
      <4>5. Legal(w, A, x, Patched', Fallen, around)
        BY <4>1, <4>2, <4>3, <4>4, LegalStays
      <4> QED BY <1>8, <3>1, <4>5
    <3>2. CASE s # x
      <4>1. slot'[s] = slot[s] /\ \A e \in Controller : s \in Patched'[e] <=> s \in Patched[e]
        BY <1>8, <2>3, <3>2
      <4>2. Legal(slot[s], A, s, Patched', Fallen, around)
        BY <2>2, <2>7, <4>1, LegalStays
      <4> QED BY <4>1, <4>2
    <3> QED BY <3>1, <3>2
  <2>9. ASSUME NEW d \in A, NEW i \in DOMAIN patches'[d]
        PROVE  Legal(patches'[d][i][2], A \cap around[d], patches'[d][i][1], Patched', Fallen, around)
    <3> DEFINE v == patches'[d][i][2]
               s == patches'[d][i][1]
               Q == A \cap around[d]
    <3>1. c \notin Q /\ Q \subseteq Controller
      BY <2>2, <2>5, <2>6
    <3>2. i \in DOMAIN patches[d] /\ patches'[d][i] = patches[d][i]
      BY <1>6, <1>7, <2>2
    <3>3. Legal(v, Q, s, Patched, Fallen, around)
      BY <2>7, <3>2
    <3> HIDE DEF v, s, Q
    <3>4. \A e \in Q : s \in Patched'[e] => s \in Patched[e]
      BY <2>3, <3>1
    <3>5. v \in Q /\ s \in Patched[v] => s \in Patched'[v]
      BY <2>3, <3>1
    <3>6. v \in Fallen => (s \in Patched[v] => s \in Patched'[v])
      BY <2>2, <2>3
    <3>7. Legal(v, Q, s, Patched', Fallen, around)
      BY <3>3, <3>4, <3>5, <3>6, LegalStays
    <3> QED BY <3>7 DEF v, s, Q
  <2> QED BY <1>2, <2>2, <2>4, <2>8, <2>9 DEF StackSound, A
<1> QED BY <1>9, <1>10, <1>12, <1>13 DEF XInv

LEMMA XStepInv ==
  ASSUME XInv, [XNext]_xvars
  PROVE  XInv'
<1>1. CASE XNext
  BY <1>1, XEntering, XPlaces, XStarts, XStops DEF XNext
<1>2. CASE UNCHANGED xvars
  <2>1. UNCHANGED <<installed, slot, xpc, xpos, patches, around, crossed>>
    BY <1>2 DEF xvars
  <2>2. XTypes'
    BY <2>1 DEF XInv, XTypes
  <2>3. ASSUME NEW c \in Controller PROVE ControllerSound(c)'
    <3>1. ControllerSound(c)
      BY DEF XInv
    <3>2. PSlots(c)' = PSlots(c)
      BY <2>1 DEF PSlots
    <3>3. (Planned(c, xpos[c]) \cap installed)' = Planned(c, xpos[c]) \cap installed
      BY <2>1 DEF Planned, PatchPlan
    <3>4. ({PatchPlan(c)[i] : i \in DOMAIN PatchPlan(c)} \cap installed)'
            = {PatchPlan(c)[i] : i \in DOMAIN PatchPlan(c)} \cap installed
      BY <2>1 DEF PatchPlan
    <3> QED BY <2>1, <3>1, <3>2, <3>3, <3>4 DEF ControllerSound
  <2>4. ActiveSet' = ActiveSet /\ Patched' = Patched /\ Fallen' = Fallen
    BY <2>1 DEF ActiveSet, Active, Patched, PSlots, Fallen
  <2>5. ASSUME ~crossed PROVE Nested' /\ StackSound'
    <3>1. Nested /\ StackSound
      BY <2>5 DEF XInv
    <3>2. Nested'
      BY <2>1, <2>4, <3>1 DEF Nested
    <3> QED BY <2>1, <2>4, <3>1, <3>2 DEF StackSound
  <2> QED BY <2>1, <2>2, <2>3, <2>5 DEF XInv
<1> QED BY <1>1, <1>2

\* What CleanedUp says of the controllers.
LEMMA XInvCleaned ==
  ASSUME XInv
  PROVE  XTypeOK /\ Restored /\ SeesOwnStubs
<1>1. XTypeOK
  BY DEF XInv, XTypes, Stub, ControllerSound, PSlots, XTypeOK
<1>2. Restored
  <2> SUFFICES ASSUME ~crossed, \A c \in Controller : ~Active(c), NEW s \in Slot, slot[s] # "original"
               PROVE  \E c \in Controller : xpc[c] = "raised" /\ \E i \in DOMAIN patches[c] : patches[c][i][1] = s
    BY DEF Restored
  <2>1. ActiveSet = {} /\ Legal(slot[s], ActiveSet, s, Patched, Fallen, around)
    BY DEF XInv, StackSound, ActiveSet
  <2>2. slot[s] \in Fallen /\ s \in Patched[slot[s]]
    BY <2>1 DEF Legal
  <2> QED BY <2>2 DEF Fallen, Patched, PSlots
<1>3. SeesOwnStubs
  <2> SUFFICES ASSUME NEW c \in Controller, ~crossed, xpc[c] = "inside",
                      \A d \in Controller : Active(d) => c \notin around[d],
                      NEW i \in DOMAIN patches[c]
               PROVE  \/ slot[patches[c][i][1]] = c
                      \/ \E d \in Controller : xpc[d] = "raised" /\ c \in around[d]
    BY DEF SeesOwnStubs
  <2>1. PICK s : s = patches[c][i][1]
    OBVIOUS
  <2>2. s \in Slot /\ c \in ActiveSet /\ s \in Patched[c]
    <3>1. s \in Slot
      BY <2>1 DEF XInv, XTypes
    <3> QED BY <2>1, <3>1 DEF ActiveSet, Active, Patched, PSlots
  <2>3. Legal(slot[s], ActiveSet, s, Patched, Fallen, around)
    BY <2>2 DEF XInv, StackSound
  <2>4. \A d \in ActiveSet : c \notin around[d]
    BY DEF ActiveSet
  <2>5. slot[s] = c \/ (slot[s] \in Fallen /\ c \in around[slot[s]])
    BY <2>2, <2>3, <2>4 DEF Legal
  <2> QED BY <2>1, <2>5 DEF Fallen
<1> QED BY <1>1, <1>2, <1>3

LEMMA ExecutionInitial ==
  ASSUME Init
  PROVE  CInit /\ XInit
  BY DEF Init, XIdle

LEMMA ExecutionSteps ==
  ASSUME [Next]_allVars
  PROVE  [CNext]_cvars /\ [XNext]_xvars
<1>1. CASE UNCHANGED allVars
  BY <1>1 DEF allVars
<1>2. CASE Next
  BY <1>2 DEF Next
<1> QED BY <1>1, <1>2

\* What ran is cleaned up (executor.py, exogenous_controller.py): whatever the daemon, a
\* cancellation or the budget does, a container and its directory are left behind only
\* when a step that should remove them was prevented; and for any number of nested
\* controllers, whatever slots the installed modules give them, each sees its own stubs
\* while it is the innermost and every slot holds the original once none is active.
THEOREM ExecutionIsCleanedUp == ExecutionSpec => []CleanedUp
<1> DEFINE Inv == ContainerInv /\ XInv
<1>1. Init => Inv
  BY ExecutionInitial, CInitInv, XInitInv
<1>2. Inv /\ [Next]_allVars => Inv'
  BY ExecutionSteps, CStepInv, XStepInv
<1>3. Inv => CleanedUp
  BY CInvCleaned, XInvCleaned DEF CleanedUp
<1> QED BY <1>1, <1>2, <1>3, PTL DEF ExecutionSpec

-----------------------------------------------------------------------------
(***************************************************************************)
(* The replay engine (ReplayEngine).  The plan is an induction over the    *)
(* spans; what was executed is a prefix of it, and every type occurs once, *)
(* so a generator that failed is not one that succeeded before.            *)
(***************************************************************************)

\* What a replay of q may execute: the components of its spans, and the swap.
Origin(q) ==
  {Component(q, q.spans[j]) : j \in {k \in DOMAIN q.spans : q.spans[k].type # "none"}}
    \cup {<<q.target, q.candidate>>}
Untyped(q) == \A j \in DOMAIN q.spans : q.spans[j].type = "none"

PlanSound(q, p) ==
  /\ p \in Seq(Origin(q))
  /\ \A i, j \in DOMAIN p : p[i][1] = p[j][1] => i = j

LEMMA AddKeeps ==
  ASSUME NEW q, NEW p, PlanSound(q, p), NEW j \in DOMAIN q.spans
  PROVE  /\ PlanSound(q, AddComponent(q, p, q.spans[j]))
         /\ q.spans[j].type # "none" \/ p # <<>> => AddComponent(q, p, q.spans[j]) # <<>>
<1> DEFINE s == q.spans[j]
<1>1. CASE s.type = "none" \/ \E i \in DOMAIN p : p[i][1] = s.type
  BY <1>1 DEF AddComponent, PlanSound
<1>2. CASE s.type # "none" /\ ~\E i \in DOMAIN p : p[i][1] = s.type
  <2>1. PICK e, n : e = Component(q, s) /\ n = Len(p)
    OBVIOUS
  <2>2. AddComponent(q, p, s) = Append(p, e) /\ e[1] = s.type /\ e \in Origin(q)
    BY <1>2, <2>1 DEF AddComponent, Component, Origin
  <2>3. /\ Append(p, e) \in Seq(Origin(q)) /\ Append(p, e) # <<>> /\ n \in Nat /\ DOMAIN p = 1 .. n
        /\ DOMAIN Append(p, e) = 1 .. n + 1 /\ Append(p, e)[n + 1] = e
        /\ \A i \in 1 .. n : Append(p, e)[i] = p[i]
    BY <2>1, <2>2 DEF PlanSound
  <2>4. \A i \in 1 .. n + 1 : i \in 1 .. n \/ i = n + 1
    BY <2>3
  <2>5. \A i, k \in DOMAIN Append(p, e) : Append(p, e)[i][1] = Append(p, e)[k][1] => i = k
    BY <1>2, <2>2, <2>3, <2>4 DEF PlanSound
  <2> QED BY <2>2, <2>3, <2>5 DEF PlanSound
<1> QED BY <1>1, <1>2

\* The plan after the first i spans.
LEMMA PlanIsDefined ==
  ASSUME NEW q, q.spans \in Seq(SpanSet)
  PROVE  \E g : /\ g = [i \in 0 .. Len(q.spans) |-> IF i = 0 THEN <<>> ELSE AddComponent(q, g[i - 1], q.spans[i])]
                /\ PlanOf(q) = IF g[Len(q.spans)] = <<>> THEN Fallback(q) ELSE g[Len(q.spans)]
<1> DEFINE Upto(m, g) == g = [i \in 0 .. m |-> IF i = 0 THEN <<>> ELSE AddComponent(q, g[i - 1], q.spans[i])]
           Defined == {m \in Nat : \E g : Upto(m, g)}
           n == Len(q.spans)
<1>1. n \in Nat
  OBVIOUS
<1>2. 0 \in Defined
  <2>1. Upto(0, [i \in 0 .. 0 |-> <<>>])
    OBVIOUS
  <2> QED BY <2>1
<1>3. ASSUME NEW m \in 0 .. n - 1, m \in Defined PROVE m + 1 \in Defined
  <2>1. PICK g : Upto(m, g)
    BY <1>3
  <2> DEFINE h == [i \in 0 .. m + 1 |-> IF i <= m THEN g[i] ELSE AddComponent(q, g[m], q.spans[m + 1])]
  <2>2. m \in Nat
    BY <1>1
  <2>3. \A i \in 0 .. m : h[i] = g[i]
    BY <2>2
  <2>4. ASSUME NEW i \in 0 .. m + 1
        PROVE  h[i] = IF i = 0 THEN <<>> ELSE AddComponent(q, h[i - 1], q.spans[i])
    <3>1. CASE i = 0
      BY <2>1, <2>2, <2>3, <3>1
    <3>2. CASE i # 0 /\ i <= m
      <4>1. i \in 0 .. m /\ i - 1 \in 0 .. m
        BY <2>2, <2>4, <3>2
      <4>2. g[i] = AddComponent(q, g[i - 1], q.spans[i])
        BY <2>1, <3>2, <4>1
      <4> QED BY <2>3, <3>2, <4>1, <4>2
    <3>3. CASE i = m + 1
      <4>1. h[i] = AddComponent(q, g[m], q.spans[m + 1]) /\ i - 1 = m /\ i # 0 /\ h[m] = g[m]
        BY <2>2, <2>3, <3>3
      <4> QED BY <3>3, <4>1
    <3> QED BY <2>2, <2>4, <3>1, <3>2, <3>3
  <2>5. Upto(m + 1, h)
    BY <2>2, <2>4
  <2>6. m + 1 \in Nat
    BY <2>2
  <2>7. \E k : Upto(m + 1, k)
    <3> HIDE DEF h, Upto
    <3> QED BY <2>5
  <2> HIDE DEF Upto
  <2> QED BY <2>6, <2>7
<1> HIDE DEF Defined
<1>4. n \in Defined
  <2>1. \A m \in 0 .. n - 1 : m \in Defined => m + 1 \in Defined
    BY <1>3
  <2> HIDE DEF n
  <2>2. 0 .. n \subseteq Defined
    BY <1>1, <1>2, <2>1, UpTo
  <2> QED BY <1>1, <2>2
<1>5. \E g : Upto(n, g)
  BY <1>4 DEF Defined
<1> DEFINE after == CHOOSE g : Upto(n, g)
<1>6. Upto(n, after)
  BY <1>5
<1>7. PlanOf(q) = IF after[n] = <<>> THEN Fallback(q) ELSE after[n]
  BY DEF PlanOf
<1> QED BY <1>6, <1>7

\* Every component of a plan comes from a span or is the swap, each type once; a plan
\* is empty only for a trace without types and a target outside the fallback.
LEMMA PlanIsSound ==
  ASSUME NEW q \in Requests
  PROVE  /\ PlanSound(q, PlanOf(q))
         /\ PlanOf(q) = <<>> => Untyped(q) /\ q.target \notin FallbackPipeline
<1> DEFINE n == Len(q.spans)
<1>1. q.spans \in Seq(SpanSet)
  BY EngineAssumption DEF RequestOK
<1>2. PICK g : /\ g = [i \in 0 .. n |-> IF i = 0 THEN <<>> ELSE AddComponent(q, g[i - 1], q.spans[i])]
               /\ PlanOf(q) = IF g[n] = <<>> THEN Fallback(q) ELSE g[n]
  BY <1>1, PlanIsDefined
<1>3. n \in Nat /\ DOMAIN q.spans = 1 .. n
  BY <1>1
<1> DEFINE NoneTo(i) == \A j \in 1 .. i : q.spans[j].type = "none"
           Good(i) == PlanSound(q, g[i]) /\ (g[i] = <<>> => NoneTo(i))
           S == {i \in 0 .. n : Good(i)}
<1> HIDE DEF n
<1>4. 0 \in S
  <2>1. Good(0)
    BY <1>2, <1>3 DEF PlanSound
  <2> HIDE DEF Good
  <2> QED BY <1>3, <2>1
<1>5. ASSUME NEW i \in 0 .. n - 1, i \in S PROVE i + 1 \in S
  <2>1. i + 1 \in 0 .. n /\ i + 1 # 0 /\ (i + 1) - 1 = i /\ i + 1 \in DOMAIN q.spans
    BY <1>3
  <2>2. g[i + 1] = AddComponent(q, g[i], q.spans[i + 1])
    BY <1>2, <2>1
  <2>0. Good(i)
    <3> HIDE DEF Good
    <3> QED BY <1>5
  <2>3. /\ PlanSound(q, g[i + 1])
        /\ q.spans[i + 1].type # "none" \/ g[i] # <<>> => g[i + 1] # <<>>
    <3>1. PICK p : p = g[i]
      OBVIOUS
    <3>2. PlanSound(q, p)
      BY <2>0, <3>1
    <3>3. PICK k \in DOMAIN q.spans : k = i + 1
      BY <2>1
    <3>4. /\ PlanSound(q, AddComponent(q, p, q.spans[k]))
          /\ q.spans[k].type # "none" \/ p # <<>> => AddComponent(q, p, q.spans[k]) # <<>>
      BY <3>2, AddKeeps
    <3> QED BY <2>2, <3>1, <3>3, <3>4
  <2>4. \A j \in 1 .. i + 1 : j \in 1 .. i \/ j = i + 1
    BY <1>3
  <2>5. Good(i + 1)
    BY <2>0, <2>3, <2>4
  <2> HIDE DEF Good
  <2> QED BY <2>1, <2>5
<1>6. n \in S
  <2>1. \A i \in 0 .. n - 1 : i \in S => i + 1 \in S
    BY <1>5
  <2>2. 0 .. n \subseteq S
    <3> HIDE DEF S
    <3> QED BY <1>3, <1>4, <2>1, UpTo
  <2> QED BY <1>3, <2>2
<1>9. Good(n)
  <2> HIDE DEF Good
  <2> QED BY <1>6
<1> HIDE DEF S
<1>7. CASE g[n] # <<>>
  BY <1>2, <1>7, <1>9
<1>8. CASE g[n] = <<>>
  <2>1. PlanOf(q) = Fallback(q) /\ Untyped(q)
    BY <1>2, <1>3, <1>8, <1>9 DEF Untyped
  <2>2. PlanSound(q, Fallback(q)) /\ (Fallback(q) = <<>> => q.target \notin FallbackPipeline)
    BY DEF Fallback, PlanSound, Origin
  <2> QED BY <2>1, <2>2
<1> QED BY <1>7, <1>8

Doc == {"none", "fresh", "stale"}
Frame == {"D", "E", "X"}
Polling == {"poll", "alive?"}

ETypes ==
  /\ req \in Requests /\ epc \in {"check", "next", "refused", "raised", "done"} \cup Polling
  /\ child \in {"none", "running", "dead"} /\ pipe \in Seq(Frame) /\ got \in 0 .. MaxOutput
  /\ docs \in [documents : Doc, ranked : Doc] /\ faith \in {"unmeasured", "low", "high"}
  /\ trail \in Seq([comp : Origin(req), ok : BOOLEAN])

\* What was executed is the plan up to the step; the plan is made for an admitted
\* request.
PlanKept ==
  /\ PlanSound(req, plan) /\ step \in 1 .. Len(plan) + 1 /\ Len(trail) = step - 1
  /\ epc \in Polling => step <= Len(plan)
  /\ epc \notin {"check", "refused"} => Admits(req)
  /\ epc \notin {"check", "refused"} /\ plan = <<>> => Untyped(req) /\ req.target \notin FallbackPipeline
  /\ epc \in {"check", "refused"} => trail = <<>>
  /\ epc # "done" => episode = "none"
  /\ \A i \in DOMAIN trail : trail[i].comp = plan[i]

Ran(t) == \E i \in DOMAIN trail : trail[i].comp[1] = t /\ trail[i].ok
RanStale == \E i \in DOMAIN trail : trail[i].comp = <<"retriever", "v2-exp">> /\ trail[i].ok

\* Where stale documents and a score come from.
ScoreSound ==
  /\ docs.documents = "stale" => RanStale
  /\ docs.ranked = "stale" => RanStale /\ Ran("reranker")
  /\ faith # "unmeasured" <=> Ran("generator")
  /\ faith = "low" => RanStale /\ Ran("reranker")

EInv == ETypes /\ PlanKept /\ ScoreSound /\ NoOrphanChild /\ NeverRealEvidence

LEMMA EInitInv ==
  ASSUME EInit
  PROVE  EInv
<1>1. MaxOutput \in Nat
  BY EngineAssumption
<1>2. ETypes
  BY <1>1 DEF EInit, ETypes, Doc
<1>3. PlanKept
  BY DEF EInit, PlanKept, PlanSound, Polling
<1>4. ScoreSound
  BY DEF EInit, ScoreSound, Ran, RanStale
<1> QED BY <1>2, <1>3, <1>4 DEF EInit, EInv, NoOrphanChild, NeverRealEvidence

\* The end of a component: its span is the next of the plan, and the only one of its
\* type.
LEMMA EEnds ==
  ASSUME EInv, epc \in Polling, NEW ok \in BOOLEAN, EndComponent(ok)
  PROVE  EInv'
<1>1. PICK comp, n : comp = plan[step] /\ n = step
  OBVIOUS
<1>2. /\ n \in Nat /\ n >= 1 /\ n <= Len(plan) /\ Len(trail) = n - 1
      /\ Len(plan) \in Nat /\ DOMAIN plan = 1 .. Len(plan) /\ n \in DOMAIN plan /\ comp \in Origin(req)
  BY <1>1 DEF EInv, PlanKept, PlanSound
<1>3. /\ child' = "none" /\ pipe' = <<>> /\ epc' = "next" /\ step' = n + 1
      /\ trail' = Append(trail, [comp |-> comp, ok |-> ok])
      /\ docs' = DocsAfter(comp, ok) /\ faith' = FaithAfter(comp, ok)
      /\ UNCHANGED <<req, plan, got, episode>>
  BY <1>1 DEF EndComponent, Reap
<1>4. /\ trail \in Seq([comp : Origin(req), ok : BOOLEAN]) /\ trail' \in Seq([comp : Origin(req), ok : BOOLEAN])
      /\ Len(trail') = n /\ DOMAIN trail = 1 .. n - 1 /\ DOMAIN trail' = 1 .. n
      /\ \A i \in 1 .. n - 1 : trail'[i] = trail[i]
      /\ trail'[n] = [comp |-> comp, ok |-> ok]
  <2>1. trail \in Seq([comp : Origin(req), ok : BOOLEAN])
    BY DEF EInv, ETypes
  <2>2. [comp |-> comp, ok |-> ok] \in [comp : Origin(req), ok : BOOLEAN]
    BY <1>2
  <2> QED BY <1>2, <1>3, <2>1, <2>2
<1>5. \A i \in 1 .. n : i \in 1 .. n - 1 \/ i = n
  BY <1>2
<1>6. \A i \in 1 .. n - 1 : i \in 1 .. n /\ i # n /\ i \in DOMAIN plan
  BY <1>2
<1>7. n \in 1 .. n
  BY <1>2
<1>8. docs \in [documents : Doc, ranked : Doc] /\ faith \in {"unmeasured", "low", "high"}
  BY DEF EInv, ETypes
<1>9. docs' \in [documents : Doc, ranked : Doc] /\ faith' \in {"unmeasured", "low", "high"}
  BY <1>3, <1>8 DEF DocsAfter, FaithAfter, Doc
<1>10. ETypes'
  BY <1>3, <1>4, <1>9 DEF EInv, ETypes
<1>11. PlanKept'
  <2>1. \A i \in DOMAIN trail' : trail'[i].comp = plan[i]
    BY <1>1, <1>4, <1>5 DEF EInv, PlanKept
  <2>2. step' \in 1 .. Len(plan) + 1 /\ Len(trail') = step' - 1
    BY <1>2, <1>3, <1>4
  <2>3. plan # <<>> /\ Admits(req) /\ PlanSound(req, plan)
    BY <1>2 DEF EInv, PlanKept, Polling
  <2>4. episode' = "none"
    BY <1>3 DEF EInv, PlanKept, Polling
  <2> QED BY <1>3, <2>1, <2>2, <2>3, <2>4 DEF PlanKept, Polling
<1>12. /\ \A t : Ran(t)' <=> Ran(t) \/ (comp[1] = t /\ ok)
       /\ RanStale' <=> RanStale \/ (comp = <<"retriever", "v2-exp">> /\ ok)
  <2>1. ASSUME NEW t PROVE Ran(t)' <=> Ran(t) \/ (comp[1] = t /\ ok)
    BY <1>4, <1>5, <1>6, <1>7 DEF Ran
  <2>2. RanStale' <=> RanStale \/ (comp = <<"retriever", "v2-exp">> /\ ok)
    <3>1. PICK st : st = <<"retriever", "v2-exp">>
      OBVIOUS
    <3>2. RanStale <=> \E i \in DOMAIN trail : trail[i].comp = st /\ trail[i].ok
      BY <3>1 DEF RanStale
    <3>3. RanStale' <=> \E i \in DOMAIN trail' : trail'[i].comp = st /\ trail'[i].ok
      BY <3>1 DEF RanStale
    <3>4. RanStale' => RanStale \/ (comp = st /\ ok)
      BY <1>4, <1>5, <3>2, <3>3
    <3>5. RanStale => RanStale'
      BY <1>4, <1>6, <3>2, <3>3
    <3>6. (comp = st /\ ok) => RanStale'
      BY <1>4, <1>7, <3>3
    <3> QED BY <3>1, <3>4, <3>5, <3>6
  <2> QED BY <2>1, <2>2
<1>13. comp[1] = "generator" => ~Ran("generator")
  <2> SUFFICES ASSUME comp[1] = "generator", NEW i \in DOMAIN trail, trail[i].comp[1] = "generator" PROVE FALSE
    BY DEF Ran
  <2>1. plan[i][1] = plan[n][1] /\ i \in DOMAIN plan /\ i # n
    BY <1>1, <1>4, <1>6 DEF EInv, PlanKept
  <2> QED BY <1>2, <2>1 DEF EInv, PlanKept, PlanSound
<1>14. ScoreSound'
  <2>1. docs'.documents = "stale" => RanStale'
    BY <1>3, <1>8, <1>12 DEF DocsAfter, EInv, ScoreSound
  <2>2. docs'.ranked = "stale" => RanStale' /\ Ran("reranker")'
    BY <1>3, <1>8, <1>12 DEF DocsAfter, EInv, ScoreSound
  <2>3. faith' # "unmeasured" <=> Ran("generator")'
    BY <1>3, <1>8, <1>12, <1>13 DEF FaithAfter, EInv, ScoreSound
  <2>4. faith' = "low" => RanStale' /\ Ran("reranker")'
    BY <1>3, <1>8, <1>12 DEF FaithAfter, EInv, ScoreSound
  <2> QED BY <2>1, <2>2, <2>3, <2>4 DEF ScoreSound
<1> QED BY <1>3, <1>10, <1>11, <1>14 DEF EInv, PlanKept, NoOrphanChild, NeverRealEvidence

\* The parent's other steps.
LEMMA EParent ==
  ASSUME EInv, Parent
  PROVE  EInv'
<1>1. CASE CheckRequest
  <2>1. epc = "check" /\ trail = <<>> /\ req \in Requests /\ step \in 1 .. Len(plan) + 1 /\ Len(trail) = step - 1
    BY <1>1 DEF CheckRequest, EInv, PlanKept, ETypes
  <2>2. step = 1
    BY <2>1 DEF EInv, PlanKept, PlanSound
  <2>3. UNCHANGED <<req, step, child, pipe, got, docs, faith, trail, episode>>
    BY <1>1 DEF CheckRequest
  <2>4. CASE Admits(req)
    <3>1. epc' = "next" /\ plan' = PlanOf(req)
      BY <1>1, <2>4 DEF CheckRequest
    <3>2. /\ PlanSound(req, PlanOf(req)) /\ Len(PlanOf(req)) \in Nat
          /\ PlanOf(req) = <<>> => Untyped(req) /\ req.target \notin FallbackPipeline
      BY <2>1, PlanIsSound DEF PlanSound
    <3>4. episode' = "none"
      BY <2>1, <2>3 DEF EInv, PlanKept
    <3>3. PlanKept'
      BY <2>1, <2>2, <2>3, <2>4, <3>1, <3>2, <3>4 DEF PlanKept, Polling
    <3> QED BY <2>1, <2>3, <3>1, <3>3 DEF EInv, ETypes, ScoreSound, Ran, RanStale, NoOrphanChild, NeverRealEvidence, Polling
  <2>5. CASE ~Admits(req)
    <3>1. epc' = "refused" /\ plan' = plan
      BY <1>1, <2>5 DEF CheckRequest
    <3>2. PlanKept'
      BY <2>1, <2>3, <3>1 DEF EInv, PlanKept, Polling
    <3> QED BY <2>1, <2>3, <3>1, <3>2 DEF EInv, ETypes, ScoreSound, Ran, RanStale, NoOrphanChild, NeverRealEvidence, Polling
  <2> QED BY <2>4, <2>5
<1>2. CASE StartChild
  <2>1. /\ epc = "next" /\ step <= Len(plan) /\ UNCHANGED <<req, plan, step, docs, faith, trail, episode>>
        /\ \/ epc' = "poll" /\ child' = "running" /\ pipe' = <<>> /\ got' = 0
           \/ epc' = "raised" /\ UNCHANGED <<child, pipe, got>>
    BY <1>2 DEF StartChild
  <2>2. MaxOutput \in Nat
    BY EngineAssumption
  <2>3. ETypes'
    <3>1. CASE epc' = "poll" /\ child' = "running" /\ pipe' = <<>> /\ got' = 0
      BY <2>1, <2>2, <3>1 DEF EInv, ETypes, Polling
    <3>2. CASE epc' = "raised" /\ UNCHANGED <<child, pipe, got>>
      BY <2>1, <3>2 DEF EInv, ETypes
    <3> QED BY <2>1, <3>1, <3>2
  <2>4. PlanKept'
    BY <2>1 DEF EInv, PlanKept, Polling
  <2> QED BY <2>1, <2>3, <2>4 DEF EInv, ScoreSound, Ran, RanStale, NoOrphanChild, NeverRealEvidence
<1>3. CASE ReceiveFrame
  <2>1. epc = "poll" /\ pipe # <<>>
    BY <1>3 DEF ReceiveFrame
  <2>2. CASE EndComponent(TRUE) \/ EndComponent(FALSE)
    BY <2>1, <2>2, EEnds DEF Polling
  <2>3. CASE ~(EndComponent(TRUE) \/ EndComponent(FALSE))
    <3>1. /\ got < MaxOutput /\ got' = got + 1 /\ pipe' = Tail(pipe)
          /\ UNCHANGED <<req, epc, plan, step, child, docs, faith, trail, episode>>
      BY <1>3, <2>3 DEF ReceiveFrame
    <3>2. MaxOutput \in Nat /\ got \in Nat /\ pipe' \in Seq(Frame)
      BY <2>1, <3>1, EngineAssumption DEF EInv, ETypes
    <3>3. got' \in 0 .. MaxOutput
      BY <3>1, <3>2
    <3>4. ETypes'
      BY <3>1, <3>2, <3>3 DEF EInv, ETypes
    <3>5. PlanKept'
      BY <3>1 DEF EInv, PlanKept
    <3> QED BY <2>1, <3>1, <3>4, <3>5 DEF EInv, ScoreSound, Ran, RanStale, NoOrphanChild, NeverRealEvidence
  <2> QED BY <2>2, <2>3
<1>4. CASE ReceiveEof \/ PollEmpty \/ (CheckAlive /\ child # "dead")
  <2>1. /\ UNCHANGED <<req, plan, step, got, docs, faith, trail, episode>> /\ epc \in Polling
        /\ \/ child' = "none" /\ pipe' = <<>> /\ epc' = "raised"
           \/ UNCHANGED <<child, pipe>> /\ epc' \in Polling
    BY <1>4 DEF ReceiveEof, PollEmpty, CheckAlive, Reap, Polling
  <2>2. ETypes'
    <3>1. CASE child' = "none" /\ pipe' = <<>> /\ epc' = "raised"
      BY <2>1, <3>1 DEF EInv, ETypes
    <3>2. CASE UNCHANGED <<child, pipe>> /\ epc' \in Polling
      BY <2>1, <3>2 DEF EInv, ETypes
    <3> QED BY <2>1, <3>1, <3>2
  <2>3. PlanKept'
    BY <2>1 DEF EInv, PlanKept, Polling
  <2> QED BY <2>1, <2>2, <2>3 DEF EInv, ScoreSound, Ran, RanStale, NoOrphanChild, NeverRealEvidence, Polling
<1>5. CASE CheckAlive /\ child = "dead"
  BY <1>5, EEnds DEF CheckAlive, Polling
<1>6. CASE FinishReplay
  <2>1. /\ epc = "next" /\ step > Len(plan) /\ epc' = "done" /\ episode' = EvidenceOf(req, trail)
        /\ UNCHANGED <<req, plan, step, child, pipe, got, docs, faith, trail>>
    BY <1>6 DEF FinishReplay
  <2>2. NeverRealEvidence'
    <3>1. /\ plan \in Seq(Origin(req)) /\ step \in 1 .. Len(plan) + 1 /\ Len(trail) = step - 1
          /\ plan = <<>> => Untyped(req) /\ req.target \notin FallbackPipeline
      BY <2>1 DEF EInv, PlanKept, PlanSound
    <3>2. CASE plan = <<>>
      <4>1. trail = <<>>
        BY <3>1, <3>2 DEF EInv, ETypes
      <4> QED BY <2>1, <3>1, <3>2, <4>1 DEF NeverRealEvidence, Untyped
    <3>3. CASE plan # <<>>
      <4>1. trail # <<>>
        BY <2>1, <3>1, <3>3
      <4> QED BY <2>1, <4>1 DEF EvidenceOf, NeverRealEvidence
    <3> QED BY <3>2, <3>3
  <2>3. PlanKept'
    BY <2>1 DEF EInv, PlanKept, Polling
  <2> QED BY <2>1, <2>2, <2>3 DEF EInv, ETypes, ScoreSound, Ran, RanStale, NoOrphanChild, NeverRealEvidence, Polling
<1> QED BY <1>1, <1>2, <1>3, <1>4, <1>5, <1>6 DEF Parent

LEMMA EStepInv ==
  ASSUME EInv, [ENext]_evars
  PROVE  EInv'
<1>1. CASE Parent
  BY <1>1, EParent
<1>2. CASE KillChild
  BY <1>2, EEnds DEF KillChild, Polling
<1>3. CASE ChildSends \/ ChildEnds \/ ChildFails \/ ChildKilled
  <2>1. UNCHANGED <<req, epc, plan, step, got, docs, faith, trail, episode>> /\ epc \in Polling
    BY <1>3 DEF ChildSends, ChildEnds, ChildFails, ChildKilled, childFrame, Sending, Polling
  <2>2. child' \in {"none", "running", "dead"} /\ pipe' \in Seq(Frame)
    <3>1. child \in {"none", "running", "dead"} /\ pipe \in Seq(Frame)
      BY DEF EInv, ETypes
    <3>2. \A f \in Frame : Append(pipe, f) \in Seq(Frame)
      BY <3>1
    <3> QED BY <1>3, <3>1, <3>2 DEF ChildSends, ChildEnds, ChildFails, ChildKilled, Frame
  <2>3. PlanKept'
    BY <2>1 DEF EInv, PlanKept
  <2> QED BY <2>1, <2>2, <2>3 DEF EInv, ETypes, ScoreSound, Ran, RanStale, NoOrphanChild, NeverRealEvidence, Polling
<1>4. CASE UNCHANGED evars
  <2>1. PlanKept'
    BY <1>4 DEF evars, EInv, PlanKept
  <2> QED BY <1>4, <2>1 DEF evars, EInv, ETypes, ScoreSound, Ran, RanStale, NoOrphanChild, NeverRealEvidence
<1> QED BY <1>1, <1>2, <1>3, <1>4 DEF ENext

\* execute_replay (engine.py), for every registry, every request and every size of the
\* pipe, whatever a child sends, however it dies and whenever it is killed: no child is
\* left, only the swapped component runs another version than the one recorded, the
\* evidence of mock executors is called synthetic unless nothing was executed at all,
\* and a score is explained by the components that ran.
THEOREM ReplayStaysFaithful == ESpec => []ReplayIsFaithful
<1>1. EInit => EInv
  BY EInitInv
<1>2. EInv /\ [ENext]_evars => EInv'
  BY EStepInv
<1>3. EInv => ReplayIsFaithful
  <2> SUFFICES ASSUME EInv PROVE ReplayIsFaithful
    OBVIOUS
  <2>1. ETypeOK
    BY DEF EInv, ETypes, PlanKept, ETypeOK, Polling
  <2>2. OnlyTheSwap
    <3> SUFFICES ASSUME NEW i \in DOMAIN trail, NEW j \in DOMAIN req.spans,
                        req.spans[j].type = trail[i].comp[1]
                 PROVE  trail[i].comp[2] = IF req.spans[j].type = req.target THEN req.candidate
                                           ELSE Registry[req.spans[j].version].tag
      BY DEF OnlyTheSwap
    <3>1. Admits(req) /\ trail[i].comp \in Origin(req)
      <4>1. trail # <<>> /\ trail \in Seq([comp : Origin(req), ok : BOOLEAN])
        BY DEF EInv, ETypes
      <4>2. i \in 1 .. Len(trail)
        BY <4>1
      <4>3. trail[i] \in [comp : Origin(req), ok : BOOLEAN]
        BY <4>1, <4>2, ElementOfSeq
      <4>4. Admits(req)
        BY <4>1 DEF EInv, PlanKept
      <4> QED BY <4>3, <4>4
    <3>2. CASE trail[i].comp = <<req.target, req.candidate>>
      BY <3>2
    <3>3. CASE trail[i].comp # <<req.target, req.candidate>>
      <4>1. PICK k \in DOMAIN req.spans :
               trail[i].comp = Component(req, req.spans[k]) /\ req.spans[k].type # "none"
        BY <3>1, <3>3 DEF Origin
      <4>2. /\ req.spans[k].type = req.spans[j].type
            /\ trail[i].comp[2] = TagOf(req, req.spans[k])
        BY <4>1 DEF Component
      <4>3. CASE req.spans[j].type = req.target
        BY <4>2, <4>3 DEF TagOf
      <4>4. CASE req.spans[j].type # req.target
        <5>1. req.spans[k].version = req.spans[j].version
          BY <3>1, <4>1, <4>2, <4>4 DEF Admits, Preserved
        <5> QED BY <4>2, <4>4, <5>1 DEF TagOf
      <4> QED BY <4>3, <4>4
    <3> QED BY <3>2, <3>3
  <2>3. ScoreIsExplained
    <3> SUFFICES ASSUME epc = "done"
                 PROVE  /\ faith # "unmeasured" <=> Ran("generator")
                        /\ faith = "low" => \E i, j \in DOMAIN trail :
                             /\ trail[i].comp = <<"retriever", "v2-exp">> /\ trail[i].ok
                             /\ trail[j].comp[1] = "reranker" /\ trail[j].ok
      BY DEF ScoreIsExplained, Ran
    <3> QED BY DEF EInv, ScoreSound, Ran, RanStale
  <2> QED BY <2>1, <2>2, <2>3 DEF EInv, ReplayIsFaithful
<1> QED BY <1>1, <1>2, <1>3, PTL DEF ESpec
================================================================================
