---------------------------- MODULE AdmissionProofs ----------------------------
(***************************************************************************)
(* Proofs about the admission store and the replay workers that use it.    *)
(*                                                                         *)
(* The store (AdmissionStore), for every set of receipts, bindings, pools  *)
(* and payloads and every budget: its counters, its audit trail, and the   *)
(* single-use grant it implements.  The workers (ReplayWorker), for any    *)
(* number of jobs, receipts and deliveries and with every fault: a receipt *)
(* pays for at most one execution, claims are exclusive, completed jobs    *)
(* are paid for, and the workers use the store only as the store           *)
(* specifies.                                                              *)
(***************************************************************************)
EXTENDS ReplayWorker, FiniteSetTheorems, SequenceTheorems, TLAPS

\* What the row of an issued receipt gives: a canonical payload with a natural
\* cost, and the pool its binding names.
LEMMA RowFacts ==
  ASSUME TypeOK, NEW r \in Receipt, status[r] # "ABSENT"
  PROVE  /\ payload[r] \in Payload
         /\ payload[r].cost \in Nat
         /\ payload[r].binding \in Binding
         /\ PoolOfReceipt(r) \in Pool
  BY PayloadAssumption, PoolAssumption DEF TypeOK, PoolOfReceipt

\* A payload offered to issue has a natural cost and names a pool.
LEMMA PayloadFacts ==
  ASSUME NEW p \in Payload
  PROVE  p.cost \in Nat /\ p.binding \in Binding /\ PoolOf[p.binding] \in Pool
  BY PayloadAssumption, PoolAssumption

\* Appending events to one receipt's trail keeps every trail a sequence of events.
LEMMA TrailType ==
  ASSUME TypeOK, NEW r \in Receipt, NEW es \in Seq(EventType), AppendEvents(r, es)
  PROVE  /\ events' \in [Receipt -> Seq(EventType)]
         /\ events'[r] = events[r] \o es
         /\ \A q \in Receipt \ {r} : events'[q] = events[q]
<1>1. events[r] \o es \in Seq(EventType)
  BY ConcatProperties DEF TypeOK
<1> QED BY <1>1 DEF TypeOK, AppendEvents

\* The one- and two-event trails that operations append are event sequences.
LEMMA EventSeqs ==
  /\ <<"ISSUE">> \in Seq(EventType) /\ <<"VERIFY">> \in Seq(EventType)
  /\ <<"ATTEST">> \in Seq(EventType) /\ <<"CONSUME">> \in Seq(EventType)
  /\ <<"RELEASE">> \in Seq(EventType) /\ <<"VOID">> \in Seq(EventType)
  /\ \A x, y \in EventType : <<x>> \in Seq(EventType) /\ <<x, y>> \in Seq(EventType)
  BY DEF EventType, RefusalEvent

\* Settling a receipt keeps statuses and counters well typed.
LEMMA SettleType ==
  ASSUME TypeOK, NEW r \in Receipt, status[r] # "ABSENT",
         NEW target \in ReceiptStatus, ReleaseReservation(r, target)
  PROVE  /\ status' \in [Receipt -> ReceiptStatus \cup {"ABSENT"}]
         /\ \A q \in Receipt : status'[q] = "ABSENT" <=> status[q] = "ABSENT"
         /\ reserved' \in [Pool -> Nat]
         /\ spent' \in [Pool -> Nat]
<1>1. payload[r].cost \in Nat /\ PoolOfReceipt(r) \in Pool
  BY RowFacts
<1>2. status' = [status EXCEPT ![r] = target]
  BY DEF ReleaseReservation
<1>3. reserved' \in [Pool -> Nat] /\ spent' \in [Pool -> Nat]
  BY <1>1 DEF ReleaseReservation, TypeOK
<1> QED BY <1>2, <1>3 DEF TypeOK, ReceiptStatus

\* Every operation preserves the type invariant.
LEMMA TypeStep == TypeOK /\ [Next]_vars => TypeOK'
<1> SUFFICES ASSUME TypeOK, [Next]_vars PROVE TypeOK'
  OBVIOUS
<1> USE EventSeqs
<1>1. ASSUME NEW r \in Receipt, NEW p \in Payload, Issue(r, p), UNCHANGED now
      PROVE  TypeOK'
  <2>1. CASE UNCHANGED storeVars
    BY <1>1, <2>1 DEF storeVars, TypeOK
  <2>2. CASE ~UNCHANGED storeVars
    <3> DEFINE pool == PoolOf[p.binding]
    <3>1. /\ status[r] = "ABSENT"
          /\ status' = [status EXCEPT ![r] = "ISSUED"]
          /\ payload' = [payload EXCEPT ![r] = p]
          /\ reserved' = [reserved EXCEPT ![pool] = @ + p.cost]
          /\ AppendEvents(r, <<"ISSUE">>)
          /\ UNCHANGED <<spent, attested>>
      BY <1>1, <2>2 DEF Issue
    <3>2. events' \in [Receipt -> Seq(EventType)]
      BY <3>1, TrailType
    <3>3. reserved' \in [Pool -> Nat]
      BY <3>1, PayloadFacts DEF TypeOK
    <3> QED BY <1>1, <3>1, <3>2, <3>3, PayloadAssumption DEF TypeOK, ReceiptStatus
  <2> QED BY <2>1, <2>2
<1>2. ASSUME NEW r \in Receipt, NEW a \in Binding \cup {Incomplete}, NEW e \in Evidence,
             Verify(r, a, e), UNCHANGED now
      PROVE  TypeOK'
  <2>1. CASE UNCHANGED storeVars
    BY <1>2, <2>1 DEF storeVars, TypeOK
  <2>2. CASE /\ Admits(r, a, e)
             /\ status' = [status EXCEPT ![r] = "VERIFIED"]
             /\ AppendEvents(r, <<"VERIFY">>)
             /\ UNCHANGED <<payload, reserved, spent, attested>>
    <3>1. events' \in [Receipt -> Seq(EventType)]
      BY <2>2, TrailType
    <3> QED BY <1>2, <2>2, <3>1 DEF TypeOK, Admits, ReceiptStatus
  <2>3. CASE /\ status[r] # "ABSENT"
             /\ RefuseVerification(r, EvaluateVerification(r, a, e))
    <3> DEFINE d == EvaluateVerification(r, a, e)
               refusal == IF d = "signature" THEN "SIGNATURE_REFUSAL" ELSE "MISMATCH_REFUSAL"
               end == IF d = "expired" THEN "EXPIRE" ELSE "VOID"
    <3>0. refusal \in EventType /\ end \in EventType
      BY DEF EventType, RefusalEvent
    <3>1. CASE /\ AppendEvents(r, <<refusal>>)
               /\ UNCHANGED <<status, payload, reserved, spent, attested>>
      <4>1. events' \in [Receipt -> Seq(EventType)]
        BY <3>0, <3>1, TrailType
      <4> QED BY <1>2, <3>1, <4>1 DEF TypeOK
    <3>2. CASE /\ ReleaseReservation(r, IF d = "expired" THEN "EXPIRED" ELSE "VOIDED")
               /\ AppendEvents(r, <<refusal, end>>)
               /\ UNCHANGED <<payload, attested>>
      <4>1. events' \in [Receipt -> Seq(EventType)]
        BY <3>0, <3>2, TrailType
      <4>2. (IF d = "expired" THEN "EXPIRED" ELSE "VOIDED") \in ReceiptStatus
        BY DEF ReceiptStatus
      <4> HIDE DEF d
      <4> QED BY <1>2, <2>3, <3>2, <4>1, <4>2, SettleType DEF TypeOK
    <3> QED BY <2>3, <3>1, <3>2 DEF RefuseVerification
  <2> QED BY <1>2, <2>1, <2>2, <2>3 DEF Verify
<1>3. ASSUME NEW r \in Receipt, NEW t \in Terminal \ {"EXPIRED"}, NEW ev \in EventType,
             TerminalTransition(r, t, ev), UNCHANGED now
      PROVE  TypeOK'
  <2>1. CASE UNCHANGED storeVars
    BY <1>3, <2>1 DEF storeVars, TypeOK
  <2>2. CASE /\ status[r] \in Allowed(t)
             /\ ReleaseReservation(r, t)
             /\ AppendEvents(r, <<ev>>)
             /\ UNCHANGED <<payload, attested>>
    <3>1. status[r] # "ABSENT" /\ t \in ReceiptStatus
      BY <2>2 DEF Allowed, Terminal
    <3>2. events' \in [Receipt -> Seq(EventType)]
      BY <2>2, TrailType
    <3> QED BY <1>3, <2>2, <3>1, <3>2, SettleType DEF TypeOK
  <2> QED BY <1>3, <2>1, <2>2 DEF TerminalTransition
<1>4. ASSUME NEW r \in Receipt, NEW p \in Payload, NEW t \in BOOLEAN,
             RecordAttestation(r, p, t), UNCHANGED now
      PROVE  TypeOK'
  <2>1. CASE UNCHANGED storeVars
    BY <1>4, <2>1 DEF storeVars, TypeOK
  <2>2. CASE /\ attested' = attested \cup {r}
             /\ AppendEvents(r, <<"ATTEST">>)
             /\ UNCHANGED <<status, payload, reserved, spent>>
    <3>1. events' \in [Receipt -> Seq(EventType)]
      BY <2>2, TrailType
    <3> QED BY <1>4, <2>2, <3>1 DEF TypeOK
  <2> QED BY <1>4, <2>1, <2>2 DEF RecordAttestation
<1>5. CASE Tick
  BY <1>5 DEF Tick, storeVars, TypeOK
<1>6. CASE UNCHANGED vars
  BY <1>6 DEF vars, TypeOK
<1>7. /\ {"CONSUMED", "RELEASED", "VOIDED"} \subseteq Terminal \ {"EXPIRED"}
      /\ {"CONSUME", "RELEASE", "VOID"} \subseteq EventType
  BY DEF Terminal, ReceiptStatus, Active, EventType
<1> QED
  BY <1>1, <1>2, <1>3, <1>4, <1>5, <1>6, <1>7 DEF Next, Consume, Release, Void

\* The store's rows keep their types in every behaviour.
THEOREM TypeCorrect == Spec => []TypeOK
<1>1. Init => TypeOK
  BY PayloadAssumption DEF Init, TypeOK, ReceiptStatus
<1> QED BY <1>1, TypeStep, PTL DEF Spec
-----------------------------------------------------------------------------
\* The cost of one receipt as a set of units, and its size.
Share(r, c) == {r} \X (1 .. c)

\* A share of c units has c elements.
LEMMA ShareSize ==
  ASSUME NEW r, NEW c \in Nat
  PROVE  IsFiniteSet(Share(r, c)) /\ Cardinality(Share(r, c)) = c
<1>1. IsFiniteSet({r}) /\ Cardinality({r}) = 1
  BY FS_Singleton
<1>2. IsFiniteSet(1 .. c) /\ Cardinality(1 .. c) = c
  BY FS_Interval
<1>3. /\ IsFiniteSet({r} \X (1 .. c))
      /\ Cardinality({r} \X (1 .. c)) = Cardinality({r}) * Cardinality(1 .. c)
  BY <1>1, <1>2, FS_Product
<1> QED BY <1>1, <1>2, <1>3 DEF Share

\* The receipts that count for pool p in the states ss.
Counted(p, ss) == {q \in Receipt : status[q] \in ss /\ PoolOfReceipt(q) = p}

\* The units of a pool, element by element.
LEMMA UnitsElements ==
  ASSUME NEW p, NEW ss
  PROVE  \A x : x \in Units(p, ss) <=> \E q \in Counted(p, ss) : x \in Share(q, payload[q].cost)
  BY DEF Units, Counted, Share

\* When only r changes and it neither counted nor counts, the units stay.
LEMMA UnitsSame ==
  ASSUME NEW p, NEW ss, NEW r \in Receipt,
         \A q \in Receipt \ {r} : status'[q] = status[q] /\ payload'[q] = payload[q],
         r \in Counted(p, ss) <=> r \in Counted(p, ss)',
         r \in Counted(p, ss) => payload'[r].cost = payload[r].cost
  PROVE  Units(p, ss)' = Units(p, ss)
<1>1. Counted(p, ss)' = Counted(p, ss)
  BY DEF Counted, PoolOfReceipt
<1>2. \A q \in Counted(p, ss) : payload'[q].cost = payload[q].cost
  BY DEF Counted
<1> QED BY <1>1, <1>2 DEF Units, Counted

\* When r begins to count, its share is added and was not there before.
LEMMA UnitsAdd ==
  ASSUME NEW p, NEW ss, NEW r \in Receipt,
         \A q \in Receipt \ {r} : status'[q] = status[q] /\ payload'[q] = payload[q],
         r \notin Counted(p, ss), r \in Counted(p, ss)',
         payload'[r].cost \in Nat, IsFiniteSet(Units(p, ss))
  PROVE  /\ IsFiniteSet(Units(p, ss)')
         /\ Cardinality(Units(p, ss)') = Cardinality(Units(p, ss)) + payload'[r].cost
<1> DEFINE S == Share(r, payload'[r].cost)
<1>1. Counted(p, ss)' = Counted(p, ss) \cup {r}
  BY DEF Counted, PoolOfReceipt
<1>2. \A q \in Counted(p, ss) : payload'[q].cost = payload[q].cost
  BY DEF Counted
<1>3. \A x : x \in Units(p, ss)' <=>
               \E q \in Counted(p, ss)' : x \in Share(q, payload'[q].cost)
  BY DEF Units, Counted, Share
<1>4. Units(p, ss)' = Units(p, ss) \cup S
  BY <1>1, <1>2, <1>3, UnitsElements
<1>5. Units(p, ss) \cap S = {}
  <2>1. ASSUME NEW x, x \in Units(p, ss), x \in S PROVE FALSE
    <3>1. PICK q \in Counted(p, ss) : x \in Share(q, payload[q].cost)
      BY <2>1, UnitsElements
    <3> QED BY <2>1, <3>1 DEF Share
  <2> QED BY <2>1
<1>6. IsFiniteSet(S) /\ Cardinality(S) = payload'[r].cost
  BY ShareSize
<1>7. Cardinality(Units(p, ss)) \in Nat
  BY FS_CardinalityType
<1> HIDE DEF S
<1>8. /\ IsFiniteSet(Units(p, ss) \cup S)
      /\ Cardinality(Units(p, ss) \cup S) =
           Cardinality(Units(p, ss)) + Cardinality(S) - Cardinality(Units(p, ss) \cap S)
  BY <1>6, FS_Union
<1>9. Cardinality(Units(p, ss) \cap S) = 0
  BY <1>5, FS_EmptySet
<1> QED BY <1>4, <1>6, <1>7, <1>8, <1>9

\* When r ceases to count, its share is taken away, and was there before.
LEMMA UnitsRemove ==
  ASSUME NEW p, NEW ss, NEW r \in Receipt,
         \A q \in Receipt \ {r} : status'[q] = status[q] /\ payload'[q] = payload[q],
         r \in Counted(p, ss), r \notin Counted(p, ss)',
         payload[r].cost \in Nat, IsFiniteSet(Units(p, ss))
  PROVE  /\ IsFiniteSet(Units(p, ss)')
         /\ Cardinality(Units(p, ss)') = Cardinality(Units(p, ss)) - payload[r].cost
         /\ payload[r].cost <= Cardinality(Units(p, ss))
<1> DEFINE S == Share(r, payload[r].cost)
<1>1. Counted(p, ss)' = Counted(p, ss) \ {r}
  BY DEF Counted, PoolOfReceipt
<1>2. \A q \in Counted(p, ss)' : payload'[q].cost = payload[q].cost
  BY <1>1 DEF Counted
<1>3. \A x : x \in Units(p, ss)' <=>
               \E q \in Counted(p, ss)' : x \in Share(q, payload'[q].cost)
  BY DEF Units, Counted, Share
<1>4. \A q \in Counted(p, ss) \ {r} : Share(q, payload[q].cost) \cap S = {}
  BY DEF Share
<1>5. Units(p, ss)' = Units(p, ss) \ S
  <2>1. ASSUME NEW x PROVE x \in Units(p, ss)' => x \in Units(p, ss) \ S
    BY <1>1, <1>2, <1>3, <1>4, UnitsElements
  <2>2. ASSUME NEW x PROVE x \in Units(p, ss) \ S => x \in Units(p, ss)'
    BY <1>1, <1>2, <1>3, UnitsElements
  <2> QED BY <2>1, <2>2
<1>6. S \subseteq Units(p, ss)
  BY UnitsElements
<1>7. IsFiniteSet(S) /\ Cardinality(S) = payload[r].cost
  BY ShareSize
<1>8. Units(p, ss) \cap S = S
  BY <1>6
<1>9. Cardinality(Units(p, ss)) \in Nat
  BY FS_CardinalityType
<1> HIDE DEF S
<1>10. payload[r].cost <= Cardinality(Units(p, ss))
  BY <1>6, <1>7, FS_Subset
<1>11. /\ IsFiniteSet(Units(p, ss) \ S)
       /\ Cardinality(Units(p, ss) \ S) = Cardinality(Units(p, ss)) - Cardinality(S)
  BY <1>8, FS_Difference
<1> QED BY <1>5, <1>7, <1>10, <1>11

-----------------------------------------------------------------------------
\* The inductive invariant of the pool accounting: the sums are sums of finite
\* sets, the counters equal them, and together they fit the budget.  The last
\* conjunct is not inductive alone: that a settlement does not drive reserved
\* below zero, where the clamp would lose money, needs the exact sums.
UnitsFinite ==
  \A p \in Pool : IsFiniteSet(Units(p, Active)) /\ IsFiniteSet(Units(p, {"CONSUMED"}))
AccountingInv == UnitsFinite /\ PoolAccounting /\ NeverOversubscribed

\* Steps that change neither a status nor a payload nor a counter.
LEMMA AccountingStutter ==
  ASSUME AccountingInv, UNCHANGED <<status, payload, reserved, spent>>
  PROVE  AccountingInv'
<1>1. ASSUME NEW p, NEW ss PROVE Units(p, ss)' = Units(p, ss)
  BY DEF Units, PoolOfReceipt
<1> QED BY <1>1 DEF AccountingInv, UnitsFinite, PoolAccounting, NeverOversubscribed

\* Settling an active receipt moves its share out of the reservation and, when
\* it was consumed, into what is spent.
LEMMA AccountingSettle ==
  ASSUME TypeOK, AccountingInv, NEW r \in Receipt, status[r] \in Active,
         NEW target \in Terminal, ReleaseReservation(r, target), UNCHANGED payload
  PROVE  AccountingInv'
<1> DEFINE pool == PoolOfReceipt(r)
           cost == payload[r].cost
<1>1. cost \in Nat /\ pool \in Pool /\ Budget \in Nat
  BY RowFacts, BudgetAssumption DEF Active
<1>2. /\ status' = [status EXCEPT ![r] = target]
      /\ reserved' = [reserved EXCEPT ![pool] =
                        IF reserved[pool] - cost > 0 THEN reserved[pool] - cost ELSE 0]
      /\ spent' = [spent EXCEPT ![pool] = @ + IF target = "CONSUMED" THEN cost ELSE 0]
  BY DEF ReleaseReservation
<1>3. /\ \A q \in Receipt \ {r} : status'[q] = status[q] /\ payload'[q] = payload[q]
      /\ status'[r] = target
      /\ payload'[r].cost = cost
      /\ PoolOfReceipt(r)' = pool
  BY <1>2 DEF TypeOK, PoolOfReceipt
<1>4. ASSUME NEW p \in Pool
      PROVE  /\ IsFiniteSet(Units(p, Active)')
             /\ IsFiniteSet(Units(p, {"CONSUMED"})')
             /\ reserved'[p] = Cardinality(Units(p, Active)')
             /\ spent'[p] = Cardinality(Units(p, {"CONSUMED"})')
             /\ reserved'[p] + spent'[p] <= Budget
  <2>0. /\ IsFiniteSet(Units(p, Active)) /\ IsFiniteSet(Units(p, {"CONSUMED"}))
        /\ reserved[p] = Cardinality(Units(p, Active))
        /\ spent[p] = Cardinality(Units(p, {"CONSUMED"}))
        /\ reserved[p] + spent[p] <= Budget
        /\ reserved[p] \in Nat /\ spent[p] \in Nat
    BY DEF AccountingInv, UnitsFinite, PoolAccounting, NeverOversubscribed, TypeOK
  <2>1. CASE p # pool
    <3>1. Units(p, Active)' = Units(p, Active)
      <4>1. r \notin Counted(p, Active) /\ r \notin Counted(p, Active)'
        BY <1>3, <2>1 DEF Counted
      <4> QED BY <1>3, <4>1, UnitsSame
    <3>2. Units(p, {"CONSUMED"})' = Units(p, {"CONSUMED"})
      <4>1. r \notin Counted(p, {"CONSUMED"}) /\ r \notin Counted(p, {"CONSUMED"})'
        BY <1>3, <2>1 DEF Counted
      <4> QED BY <1>3, <4>1, UnitsSame
    <3>3. reserved'[p] = reserved[p] /\ spent'[p] = spent[p]
      BY <1>2, <2>1 DEF TypeOK
    <3> QED BY <2>0, <3>1, <3>2, <3>3
  <2>2. CASE p = pool
    <3>1. r \in Counted(p, Active) /\ r \notin Counted(p, Active)'
      BY <1>3, <2>2 DEF Counted, Terminal, Active
    <3>2. /\ IsFiniteSet(Units(p, Active)')
          /\ Cardinality(Units(p, Active)') = Cardinality(Units(p, Active)) - cost
          /\ cost <= Cardinality(Units(p, Active))
      BY <1>1, <1>3, <2>0, <3>1, UnitsRemove
    <3>3. reserved'[p] = reserved[p] - cost
      BY <1>1, <1>2, <2>0, <2>2, <3>2 DEF TypeOK
    <3>4. r \notin Counted(p, {"CONSUMED"})
      BY DEF Counted, Active
    <3>5. CASE target = "CONSUMED"
      <4>1. r \in Counted(p, {"CONSUMED"})'
        BY <1>3, <2>2, <3>5 DEF Counted
      <4>2. /\ IsFiniteSet(Units(p, {"CONSUMED"})')
            /\ Cardinality(Units(p, {"CONSUMED"})') =
                 Cardinality(Units(p, {"CONSUMED"})) + payload'[r].cost
        BY <1>1, <1>3, <2>0, <3>4, <4>1, UnitsAdd
      <4>3. spent'[p] = spent[p] + cost
        BY <1>1, <1>2, <2>2, <3>5 DEF TypeOK
      <4> QED BY <1>1, <1>3, <2>0, <3>2, <3>3, <4>2, <4>3
    <3>6. CASE target # "CONSUMED"
      <4>1. r \notin Counted(p, {"CONSUMED"})'
        BY <1>3, <3>6 DEF Counted
      <4>2. Units(p, {"CONSUMED"})' = Units(p, {"CONSUMED"})
        BY <1>3, <3>4, <4>1, UnitsSame
      <4>3. spent'[p] = spent[p]
        BY <1>2, <2>0, <2>2, <3>6 DEF TypeOK
      <4> QED BY <1>1, <2>0, <3>2, <3>3, <4>2, <4>3
    <3> QED BY <3>5, <3>6
  <2> QED BY <2>1, <2>2
<1> QED BY <1>4 DEF AccountingInv, UnitsFinite, PoolAccounting, NeverOversubscribed

\* A successful issue adds the share of the new receipt to the reservation.
LEMMA AccountingIssue ==
  ASSUME TypeOK, AccountingInv, NEW r \in Receipt, NEW p \in Payload,
         status[r] = "ABSENT",
         p.cost <= Budget - reserved[PoolOf[p.binding]] - spent[PoolOf[p.binding]],
         status' = [status EXCEPT ![r] = "ISSUED"],
         payload' = [payload EXCEPT ![r] = p],
         reserved' = [reserved EXCEPT ![PoolOf[p.binding]] = @ + p.cost],
         UNCHANGED spent
  PROVE  AccountingInv'
<1> DEFINE pool == PoolOf[p.binding]
<1>1. p.cost \in Nat /\ pool \in Pool /\ Budget \in Nat
  BY PayloadFacts, BudgetAssumption
<1>2. /\ \A q \in Receipt \ {r} : status'[q] = status[q] /\ payload'[q] = payload[q]
      /\ status'[r] = "ISSUED"
      /\ payload'[r] = p
      /\ PoolOfReceipt(r)' = pool
  BY DEF TypeOK, PoolOfReceipt
<1>3. ASSUME NEW x \in Pool
      PROVE  /\ IsFiniteSet(Units(x, Active)')
             /\ IsFiniteSet(Units(x, {"CONSUMED"})')
             /\ reserved'[x] = Cardinality(Units(x, Active)')
             /\ spent'[x] = Cardinality(Units(x, {"CONSUMED"})')
             /\ reserved'[x] + spent'[x] <= Budget
  <2>0. /\ IsFiniteSet(Units(x, Active)) /\ IsFiniteSet(Units(x, {"CONSUMED"}))
        /\ reserved[x] = Cardinality(Units(x, Active))
        /\ spent[x] = Cardinality(Units(x, {"CONSUMED"}))
        /\ reserved[x] + spent[x] <= Budget
        /\ reserved[x] \in Nat /\ spent[x] \in Nat
    BY DEF AccountingInv, UnitsFinite, PoolAccounting, NeverOversubscribed, TypeOK
  <2>1. Units(x, {"CONSUMED"})' = Units(x, {"CONSUMED"})
    <3>1. r \notin Counted(x, {"CONSUMED"}) /\ r \notin Counted(x, {"CONSUMED"})'
      BY <1>2 DEF Counted
    <3> QED BY <1>2, <3>1, UnitsSame
  <2>2. r \notin Counted(x, Active)
    BY DEF Counted, Active
  <2>3. CASE x # pool
    <3>1. r \notin Counted(x, Active)'
      BY <1>2, <2>3 DEF Counted
    <3>2. Units(x, Active)' = Units(x, Active)
      BY <1>2, <2>2, <3>1, UnitsSame
    <3>3. reserved'[x] = reserved[x] /\ spent'[x] = spent[x]
      BY <2>3 DEF TypeOK
    <3> QED BY <2>0, <2>1, <3>2, <3>3
  <2>4. CASE x = pool
    <3>1. r \in Counted(x, Active)'
      BY <1>2, <2>4 DEF Counted, Active
    <3>2. /\ IsFiniteSet(Units(x, Active)')
          /\ Cardinality(Units(x, Active)') = Cardinality(Units(x, Active)) + payload'[r].cost
      BY <1>1, <1>2, <2>0, <2>2, <3>1, UnitsAdd
    <3>3. reserved'[x] = reserved[x] + p.cost /\ spent'[x] = spent[x]
      BY <2>4 DEF TypeOK
    <3>4. p.cost <= Budget - reserved[x] - spent[x]
      BY <2>4
    <3> QED BY <1>1, <1>2, <2>0, <2>1, <3>2, <3>3, <3>4
  <2> QED BY <2>3, <2>4
<1> QED BY <1>3 DEF AccountingInv, UnitsFinite, PoolAccounting, NeverOversubscribed

\* A claim moves no money: the receipt stays active.
LEMMA AccountingClaim ==
  ASSUME TypeOK, AccountingInv, NEW r \in Receipt, status[r] = "ISSUED",
         status' = [status EXCEPT ![r] = "VERIFIED"],
         UNCHANGED <<payload, reserved, spent>>
  PROVE  AccountingInv'
<1>1. /\ \A q \in Receipt \ {r} : status'[q] = status[q] /\ payload'[q] = payload[q]
      /\ status'[r] = "VERIFIED" /\ payload'[r] = payload[r]
  BY DEF TypeOK
<1>2. ASSUME NEW p \in Pool
      PROVE  /\ Units(p, Active)' = Units(p, Active)
             /\ Units(p, {"CONSUMED"})' = Units(p, {"CONSUMED"})
  <2>1. r \in Counted(p, Active) <=> r \in Counted(p, Active)'
    BY <1>1 DEF Counted, Active, PoolOfReceipt
  <2>2. r \in Counted(p, {"CONSUMED"}) <=> r \in Counted(p, {"CONSUMED"})'
    BY <1>1 DEF Counted, PoolOfReceipt
  <2> QED BY <1>1, <2>1, <2>2, UnitsSame
<1> QED BY <1>2 DEF AccountingInv, UnitsFinite, PoolAccounting, NeverOversubscribed

-----------------------------------------------------------------------------
\* The five ways in which an operation changes the store, for every proof below.
IssueStep(r, p) ==
  /\ status[r] = "ABSENT"
  /\ p.cost <= Budget - reserved[PoolOf[p.binding]] - spent[PoolOf[p.binding]]
  /\ status' = [status EXCEPT ![r] = "ISSUED"]
  /\ payload' = [payload EXCEPT ![r] = p]
  /\ reserved' = [reserved EXCEPT ![PoolOf[p.binding]] = @ + p.cost]
  /\ AppendEvents(r, <<"ISSUE">>)
  /\ UNCHANGED <<spent, attested>>

ClaimStep(r) ==
  /\ status[r] = "ISSUED"
  /\ status' = [status EXCEPT ![r] = "VERIFIED"]
  /\ AppendEvents(r, <<"VERIFY">>)
  /\ UNCHANGED <<payload, reserved, spent, attested>>

RefusalStep(r, e) ==
  /\ status[r] \notin {"ABSENT", "ISSUED"}
  /\ AppendEvents(r, <<e>>)
  /\ UNCHANGED <<status, payload, reserved, spent, attested>>

AttestStep(r) ==
  /\ status[r] = "VERIFIED"
  /\ r \notin attested
  /\ attested' = attested \cup {r}
  /\ AppendEvents(r, <<"ATTEST">>)
  /\ UNCHANGED <<status, payload, reserved, spent>>

SettleStep(r, target) ==
  /\ status[r] \in Active
  /\ target = "CONSUMED" => status[r] = "VERIFIED"
  /\ ReleaseReservation(r, target)
  /\ \/ AppendEvents(r, <<TerminalEvent(target)>>)
     \/ /\ status[r] = "ISSUED"
        /\ \E e \in RefusalEvent : AppendEvents(r, <<e, TerminalEvent(target)>>)
  /\ UNCHANGED <<payload, attested>>

\* Every step of the store has one of these shapes or changes no row.
LEMMA StepShape ==
  ASSUME TypeOK, [Next]_vars
  PROVE  \/ UNCHANGED storeVars
         \/ \E r \in Receipt, p \in Payload : IssueStep(r, p)
         \/ \E r \in Receipt : ClaimStep(r) \/ AttestStep(r)
         \/ \E r \in Receipt, e \in RefusalEvent : RefusalStep(r, e)
         \/ \E r \in Receipt, t \in Terminal : SettleStep(r, t)
<1>0. /\ {"CONSUMED", "RELEASED", "VOIDED", "EXPIRED"} \subseteq Terminal
      /\ TerminalEvent("CONSUMED") = "CONSUME" /\ TerminalEvent("RELEASED") = "RELEASE"
      /\ TerminalEvent("VOIDED") = "VOID" /\ TerminalEvent("EXPIRED") = "EXPIRE"
  BY DEF Terminal, ReceiptStatus, Active, TerminalEvent
<1>1. ASSUME NEW r \in Receipt, NEW p \in Payload, Issue(r, p)
      PROVE  UNCHANGED storeVars \/ IssueStep(r, p)
  BY <1>1 DEF Issue, IssueStep
<1>2. ASSUME NEW r \in Receipt, NEW a, NEW e, Verify(r, a, e)
      PROVE  \/ UNCHANGED storeVars
             \/ ClaimStep(r)
             \/ \E x \in RefusalEvent : RefusalStep(r, x)
             \/ \E t \in Terminal : SettleStep(r, t)
  <2>1. CASE UNCHANGED storeVars
    BY <2>1
  <2>2. CASE /\ Admits(r, a, e)
             /\ status' = [status EXCEPT ![r] = "VERIFIED"]
             /\ AppendEvents(r, <<"VERIFY">>)
             /\ UNCHANGED <<payload, reserved, spent, attested>>
    <3>1. status[r] = "ISSUED"
      BY <2>2 DEF Admits, EvaluateVerification
    <3> QED BY <2>2, <3>1 DEF ClaimStep
  <2>3. CASE /\ status[r] # "ABSENT"
             /\ RefuseVerification(r, EvaluateVerification(r, a, e))
    <3> DEFINE d == EvaluateVerification(r, a, e)
    <3> HIDE DEF d
    <3>1. RefuseVerification(r, d)
      BY <2>3 DEF d
    <3>2. PICK x \in RefusalEvent :
            \/ /\ status[r] # "ISSUED"
               /\ AppendEvents(r, <<x>>)
               /\ UNCHANGED <<status, payload, reserved, spent, attested>>
            \/ /\ status[r] = "ISSUED"
               /\ \/ /\ ReleaseReservation(r, "EXPIRED")
                     /\ AppendEvents(r, <<x, "EXPIRE">>)
                  \/ /\ ReleaseReservation(r, "VOIDED")
                     /\ AppendEvents(r, <<x, "VOID">>)
               /\ UNCHANGED <<payload, attested>>
      BY <3>1, Zenon DEF RefuseVerification, RefusalEvent
    <3> QED BY <1>0, <2>3, <3>2 DEF RefusalStep, SettleStep, Active
  <2> QED BY <1>2, <2>1, <2>2, <2>3 DEF Verify
<1>3. ASSUME NEW r \in Receipt, NEW t \in {"CONSUMED", "RELEASED", "VOIDED"},
             TerminalTransition(r, t, TerminalEvent(t))
      PROVE  UNCHANGED storeVars \/ SettleStep(r, t)
  BY <1>3 DEF TerminalTransition, SettleStep, Allowed, Active
<1>4. ASSUME NEW r \in Receipt, NEW p, NEW t, RecordAttestation(r, p, t)
      PROVE  UNCHANGED storeVars \/ AttestStep(r)
  BY <1>4 DEF RecordAttestation, AttestationAccepted, AttestStep
<1>5. ASSUME Tick PROVE UNCHANGED storeVars
  BY <1>5 DEF Tick
<1>6. ASSUME UNCHANGED vars PROVE UNCHANGED storeVars
  BY <1>6 DEF vars, storeVars
<1> QED BY <1>0, <1>1, <1>2, <1>3, <1>4, <1>5, <1>6 DEF Next, Consume, Release, Void

\* The inductive invariant of the accounting holds in every behaviour.
LEMMA AccountingHolds == Spec => []AccountingInv
<1>1. Init => AccountingInv
  <2> SUFFICES ASSUME Init PROVE AccountingInv
    OBVIOUS
  <2>1. ASSUME NEW p \in Pool, NEW ss, "ABSENT" \notin ss PROVE Units(p, ss) = {}
    <3>1. Counted(p, ss) = {}
      BY <2>1 DEF Init, Counted
    <3> QED BY <3>1, UnitsElements
  <2>2. \A p \in Pool : Units(p, Active) = {} /\ Units(p, {"CONSUMED"}) = {}
    BY <2>1 DEF Active
  <2>3. IsFiniteSet({}) /\ Cardinality({}) = 0
    BY FS_EmptySet
  <2>4. \A p \in Pool : reserved[p] = 0 /\ spent[p] = 0 /\ 0 + 0 <= Budget
    BY BudgetAssumption DEF Init
  <2> QED
    BY <2>2, <2>3, <2>4
    DEF AccountingInv, UnitsFinite, PoolAccounting, NeverOversubscribed
<1>2. TypeOK /\ AccountingInv /\ [Next]_vars => AccountingInv'
  <2> SUFFICES ASSUME TypeOK, AccountingInv, [Next]_vars PROVE AccountingInv'
    OBVIOUS
  <2>1. CASE UNCHANGED storeVars
    BY <2>1, AccountingStutter DEF storeVars
  <2>2. ASSUME NEW r \in Receipt, NEW p \in Payload, IssueStep(r, p) PROVE AccountingInv'
    BY <2>2, AccountingIssue DEF IssueStep
  <2>3. ASSUME NEW r \in Receipt, ClaimStep(r) PROVE AccountingInv'
    BY <2>3, AccountingClaim DEF ClaimStep
  <2>4. ASSUME NEW r \in Receipt, NEW e, RefusalStep(r, e) \/ AttestStep(r)
        PROVE  AccountingInv'
    BY <2>4, AccountingStutter DEF RefusalStep, AttestStep
  <2>5. ASSUME NEW r \in Receipt, NEW t \in Terminal, SettleStep(r, t) PROVE AccountingInv'
    BY <2>5, AccountingSettle DEF SettleStep
  <2> QED BY <2>1, <2>2, <2>3, <2>4, <2>5, StepShape
<1> QED BY <1>1, <1>2, TypeCorrect, PTL DEF Spec

\* The pool counters equal the sums over the receipts, and never exceed the
\* budget, in every behaviour, for any number of receipts and any costs.
THEOREM PoolsBalance == Spec => [](PoolAccounting /\ NeverOversubscribed)
<1>1. AccountingInv => PoolAccounting /\ NeverOversubscribed
  BY DEF AccountingInv
<1> QED BY <1>1, AccountingHolds, PTL

-----------------------------------------------------------------------------
\* What appending to one trail does to the events that occur in the trails.
LEMMA OccursAppend ==
  ASSUME TypeOK, NEW r \in Receipt, NEW es \in Seq(EventType), AppendEvents(r, es)
  PROVE  /\ \A e : Occurs(r, e)' <=> Occurs(r, e) \/ \E i \in 1 .. Len(es) : es[i] = e
         /\ \A q \in Receipt \ {r} : \A e : Occurs(q, e)' <=> Occurs(q, e)
<1>1. /\ events'[r] = events[r] \o es
      /\ \A q \in Receipt \ {r} : events'[q] = events[q]
  BY TrailType
<1>2. /\ events[r] \in Seq(EventType)
      /\ Len(events[r] \o es) = Len(events[r]) + Len(es)
      /\ \A i \in 1 .. Len(events[r]) + Len(es) :
           (events[r] \o es)[i] =
             IF i <= Len(events[r]) THEN events[r][i] ELSE es[i - Len(events[r])]
      /\ Len(events[r]) \in Nat /\ Len(es) \in Nat
  BY ConcatProperties, LenProperties DEF TypeOK
<1>3. ASSUME NEW e PROVE Occurs(r, e)' <=> Occurs(r, e) \/ \E i \in 1 .. Len(es) : es[i] = e
  <2>1. ASSUME NEW i \in 1 .. Len(events[r]) + Len(es), (events[r] \o es)[i] = e
        PROVE  Occurs(r, e) \/ \E j \in 1 .. Len(es) : es[j] = e
    <3>1. CASE i <= Len(events[r])
      BY <1>2, <2>1, <3>1 DEF Occurs
    <3>2. CASE ~(i <= Len(events[r]))
      <4>1. i - Len(events[r]) \in 1 .. Len(es) /\ es[i - Len(events[r])] = e
        BY <1>2, <2>1, <3>2
      <4> QED BY <4>1
    <3> QED BY <3>1, <3>2
  <2>2. ASSUME NEW i \in 1 .. Len(events[r]), events[r][i] = e
        PROVE  i \in 1 .. Len(events[r]) + Len(es) /\ (events[r] \o es)[i] = e
    BY <1>2, <2>2
  <2>3. ASSUME NEW i \in 1 .. Len(es), es[i] = e
        PROVE  \E j \in 1 .. Len(events[r]) + Len(es) : (events[r] \o es)[j] = e
    <3>1. /\ Len(events[r]) + i \in 1 .. Len(events[r]) + Len(es)
          /\ ~(Len(events[r]) + i <= Len(events[r]))
          /\ (Len(events[r]) + i) - Len(events[r]) = i
      BY <1>2
    <3>2. (events[r] \o es)[Len(events[r]) + i] = es[i]
      BY <1>2, <3>1
    <3> QED BY <2>3, <3>1, <3>2
  <2> QED BY <1>1, <1>2, <2>1, <2>2, <2>3 DEF Occurs
<1> QED BY <1>1, <1>3 DEF Occurs

\* Appending one event that did not occur, or a refusal, keeps single use; and
\* so does a refusal followed by one event that did not occur.
LEMMA SingleUseAppend ==
  ASSUME TypeOK, SingleUse, NEW r \in Receipt, NEW es \in Seq(EventType), AppendEvents(r, es),
         \A i \in 1 .. Len(es) : es[i] \in RefusalEvent \/ ~Occurs(r, es[i]),
         \A i, j \in 1 .. Len(es) : es[i] = es[j] /\ es[i] \notin RefusalEvent => i = j
  PROVE  SingleUse'
<1>1. /\ events'[r] = events[r] \o es
      /\ \A q \in Receipt \ {r} : events'[q] = events[q]
  BY TrailType
<1>2. /\ Len(events[r] \o es) = Len(events[r]) + Len(es)
      /\ \A i \in 1 .. Len(events[r]) + Len(es) :
           (events[r] \o es)[i] =
             IF i <= Len(events[r]) THEN events[r][i] ELSE es[i - Len(events[r])]
      /\ Len(events[r]) \in Nat /\ Len(es) \in Nat
  BY ConcatProperties, LenProperties DEF TypeOK
<1> DEFINE n == Len(events[r])
           t == events[r] \o es
<1>3. ASSUME NEW i \in 1 .. Len(t), NEW j \in 1 .. Len(t), t[i] = t[j], t[i] \notin RefusalEvent
      PROVE  i = j
  <2>1. CASE i <= n /\ j <= n
    BY <1>2, <1>3, <2>1 DEF SingleUse
  <2>2. CASE ~(i <= n) /\ ~(j <= n)
    <3>1. i - n \in 1 .. Len(es) /\ j - n \in 1 .. Len(es) /\ es[i - n] = es[j - n]
          /\ es[i - n] \notin RefusalEvent
      BY <1>2, <1>3, <2>2
    <3>2. i - n = j - n
      BY <3>1
    <3> QED BY <1>2, <3>2
  <2>3. ASSUME NEW a \in 1 .. Len(t), NEW b \in 1 .. Len(t), a <= n, ~(b <= n),
               t[a] = t[b], t[b] \notin RefusalEvent
        PROVE  FALSE
    <3>1. b - n \in 1 .. Len(es) /\ t[b] = es[b - n] /\ a \in 1 .. n /\ t[a] = events[r][a]
      BY <1>2, <2>3
    <3>2. ~Occurs(r, es[b - n])
      BY <2>3, <3>1
    <3> QED BY <2>3, <3>1, <3>2 DEF Occurs
  <2> QED BY <1>3, <2>1, <2>2, <2>3
<1> QED BY <1>1, <1>3 DEF SingleUse

\* Logging one new event, seen through the events that occur.
LEMMA LogOne ==
  ASSUME TypeOK, SingleUse, NEW r \in Receipt, NEW x \in EventType, AppendEvents(r, <<x>>),
         x \in RefusalEvent \/ ~Occurs(r, x)
  PROVE  /\ \A e : Occurs(r, e)' <=> Occurs(r, e) \/ e = x
         /\ \A q \in Receipt \ {r} : \A e : Occurs(q, e)' <=> Occurs(q, e)
         /\ SingleUse'
<1> DEFINE es == <<x>>
<1>1. es \in Seq(EventType) /\ Len(es) = 1 /\ es[1] = x
  OBVIOUS
<1> HIDE DEF es
<1>2. \A e : (\E i \in 1 .. Len(es) : es[i] = e) <=> e = x
  BY <1>1
<1>3. AppendEvents(r, es)
  BY DEF es
<1> QED BY <1>1, <1>2, <1>3, OccursAppend, SingleUseAppend

\* Logging a refusal and then one new event.
LEMMA LogTwo ==
  ASSUME TypeOK, SingleUse, NEW r \in Receipt, NEW y \in RefusalEvent, NEW x \in EventType \ RefusalEvent,
         AppendEvents(r, <<y, x>>), ~Occurs(r, x)
  PROVE  /\ \A e : Occurs(r, e)' <=> Occurs(r, e) \/ e \in {x, y}
         /\ \A q \in Receipt \ {r} : \A e : Occurs(q, e)' <=> Occurs(q, e)
         /\ SingleUse'
<1> DEFINE es == <<y, x>>
<1>0. y \in EventType
  BY DEF EventType
<1>1. es \in Seq(EventType) /\ Len(es) = 2 /\ es[1] = y /\ es[2] = x
  BY <1>0
<1> HIDE DEF es
<1>2. 1 .. Len(es) = {1, 2}
  BY <1>1
<1>3. \A e : (\E i \in 1 .. Len(es) : es[i] = e) <=> e \in {x, y}
  BY <1>1, <1>2
<1>4. /\ AppendEvents(r, es)
      /\ \A i \in 1 .. Len(es) : es[i] \in RefusalEvent \/ ~Occurs(r, es[i])
      /\ \A i, j \in 1 .. Len(es) : es[i] = es[j] /\ es[i] \notin RefusalEvent => i = j
  BY <1>1, <1>2 DEF es
<1> QED BY <1>1, <1>3, <1>4, OccursAppend, SingleUseAppend

\* What AuditTellsStatus says of one receipt.
AuditOf(r) ==
  /\ Occurs(r, "ISSUE") <=> status[r] # "ABSENT"
  /\ \A s \in Terminal : Occurs(r, TerminalEvent(s)) <=> status[r] = s
  /\ status[r] \in {"ABSENT", "ISSUED"} => ~Occurs(r, "VERIFY")
  /\ status[r] \in {"VERIFIED", "CONSUMED"} => Occurs(r, "VERIFY")
  /\ Occurs(r, "ATTEST") <=> r \in attested

\* The events that close a receipt are pairwise different and no others.
LEMMA TerminalEvents ==
  /\ \A s, t \in Terminal : TerminalEvent(s) = TerminalEvent(t) <=> s = t
  /\ \A s \in Terminal : /\ TerminalEvent(s) \in EventType \ RefusalEvent
                         /\ TerminalEvent(s) \notin {"ISSUE", "VERIFY", "ATTEST"}
  /\ Terminal = {"CONSUMED", "RELEASED", "VOIDED", "EXPIRED"}
<1>1. Terminal = {"CONSUMED", "RELEASED", "VOIDED", "EXPIRED"}
  BY DEF Terminal, ReceiptStatus, Active
<1>2. /\ TerminalEvent("CONSUMED") = "CONSUME" /\ TerminalEvent("RELEASED") = "RELEASE"
      /\ TerminalEvent("VOIDED") = "VOID" /\ TerminalEvent("EXPIRED") = "EXPIRE"
  BY DEF TerminalEvent
<1> QED BY <1>1, <1>2 DEF EventType, RefusalEvent

\* The audit trail of a receipt always tells its status, and no receipt is
\* claimed, attested or settled twice.
THEOREM AuditIsFaithful == Spec => [](AuditTellsStatus /\ SingleUse)
<1>1. Init => AuditTellsStatus /\ SingleUse
  <2> SUFFICES ASSUME Init PROVE AuditTellsStatus /\ SingleUse
    OBVIOUS
  <2>1. \A r \in Receipt : 1 .. Len(events[r]) = {} /\ status[r] = "ABSENT" /\ attested = {}
    BY DEF Init
  <2>2. \A r \in Receipt : \A e : ~Occurs(r, e)
    BY <2>1 DEF Occurs
  <2> QED BY <2>1, <2>2, TerminalEvents DEF AuditTellsStatus, SingleUse
<1>2. TypeOK /\ AuditTellsStatus /\ SingleUse /\ [Next]_vars => (AuditTellsStatus /\ SingleUse)'
  <2> SUFFICES ASSUME TypeOK, AuditTellsStatus, SingleUse, [Next]_vars
               PROVE  AuditTellsStatus' /\ SingleUse'
    OBVIOUS
  <2>0. /\ \A r \in Receipt : AuditOf(r)
        /\ (\A r \in Receipt : AuditOf(r)') => AuditTellsStatus'
    BY DEF AuditTellsStatus, AuditOf
  <2> USE TerminalEvents DEF AuditOf
  <2>1. CASE UNCHANGED storeVars
    BY <2>1 DEF storeVars, AuditTellsStatus, SingleUse, Occurs
  <2>2. ASSUME NEW r \in Receipt, NEW p \in Payload, IssueStep(r, p)
        PROVE  AuditTellsStatus' /\ SingleUse'
    <3>1. /\ \A e : Occurs(r, e)' <=> Occurs(r, e) \/ e = "ISSUE"
          /\ \A q \in Receipt \ {r} : \A e : Occurs(q, e)' <=> Occurs(q, e)
          /\ SingleUse'
      BY <2>0, <2>2, LogOne DEF IssueStep, EventType
    <3>2. /\ status'[r] = "ISSUED" /\ status[r] = "ABSENT" /\ attested' = attested
          /\ \A q \in Receipt \ {r} : status'[q] = status[q]
      BY <2>2 DEF IssueStep, TypeOK
    <3>3. \A q \in Receipt : AuditOf(q)'
      BY <2>0, <3>1, <3>2
    <3> QED BY <2>0, <3>1, <3>3
  <2>3. ASSUME NEW r \in Receipt, ClaimStep(r) PROVE AuditTellsStatus' /\ SingleUse'
    <3>1. /\ \A e : Occurs(r, e)' <=> Occurs(r, e) \/ e = "VERIFY"
          /\ \A q \in Receipt \ {r} : \A e : Occurs(q, e)' <=> Occurs(q, e)
          /\ SingleUse'
      BY <2>0, <2>3, LogOne DEF ClaimStep, EventType
    <3>2. /\ status'[r] = "VERIFIED" /\ status[r] = "ISSUED" /\ attested' = attested
          /\ \A q \in Receipt \ {r} : status'[q] = status[q]
      BY <2>3 DEF ClaimStep, TypeOK
    <3>3. \A q \in Receipt : AuditOf(q)'
      BY <2>0, <3>1, <3>2
    <3> QED BY <2>0, <3>1, <3>3
  <2>4. ASSUME NEW r \in Receipt, NEW y \in RefusalEvent, RefusalStep(r, y)
        PROVE  AuditTellsStatus' /\ SingleUse'
    <3>1. /\ \A e : Occurs(r, e)' <=> Occurs(r, e) \/ e = y
          /\ \A q \in Receipt \ {r} : \A e : Occurs(q, e)' <=> Occurs(q, e)
          /\ SingleUse'
      BY <2>0, <2>4, LogOne DEF RefusalStep, EventType
    <3>2. status' = status /\ attested' = attested
      BY <2>4 DEF RefusalStep
    <3>3. y \notin {"ISSUE", "VERIFY", "ATTEST"} /\ \A s \in Terminal : TerminalEvent(s) # y
      BY DEF RefusalEvent
    <3>4. \A q \in Receipt : AuditOf(q)'
      BY <2>0, <3>1, <3>2, <3>3
    <3> QED BY <2>0, <3>1, <3>4
  <2>5. ASSUME NEW r \in Receipt, AttestStep(r) PROVE AuditTellsStatus' /\ SingleUse'
    <3>1. /\ \A e : Occurs(r, e)' <=> Occurs(r, e) \/ e = "ATTEST"
          /\ \A q \in Receipt \ {r} : \A e : Occurs(q, e)' <=> Occurs(q, e)
          /\ SingleUse'
      BY <2>0, <2>5, LogOne DEF AttestStep, EventType
    <3>2. status' = status /\ attested' = attested \cup {r}
      BY <2>5 DEF AttestStep
    <3>3. \A q \in Receipt : AuditOf(q)'
      BY <2>0, <3>1, <3>2
    <3> QED BY <2>0, <3>1, <3>3
  <2>6. ASSUME NEW r \in Receipt, NEW t \in Terminal, SettleStep(r, t)
        PROVE  AuditTellsStatus' /\ SingleUse'
    <3> DEFINE x == TerminalEvent(t)
    <3>1. ~Occurs(r, x) /\ x \in EventType \ RefusalEvent
      BY <2>0, <2>6 DEF SettleStep, Active
    <3> HIDE DEF x
    <3>2. \E y \in RefusalEvent \cup {x} :
            /\ \A e : Occurs(r, e)' <=> Occurs(r, e) \/ e \in {x, y}
            /\ \A q \in Receipt \ {r} : \A e : Occurs(q, e)' <=> Occurs(q, e)
            /\ SingleUse'
      <4>1. CASE AppendEvents(r, <<x>>)
        BY <3>1, <4>1, LogOne
      <4>2. ASSUME NEW y \in RefusalEvent, AppendEvents(r, <<y, x>>)
            PROVE  /\ \A e : Occurs(r, e)' <=> Occurs(r, e) \/ e \in {x, y}
                   /\ \A q \in Receipt \ {r} : \A e : Occurs(q, e)' <=> Occurs(q, e)
                   /\ SingleUse'
        BY <3>1, <4>2, LogTwo
      <4> QED BY <2>6, <4>1, <4>2 DEF SettleStep, x
    <3>3. PICK y \in RefusalEvent \cup {x} :
            /\ \A e : Occurs(r, e)' <=> Occurs(r, e) \/ e \in {x, y}
            /\ \A q \in Receipt \ {r} : \A e : Occurs(q, e)' <=> Occurs(q, e)
            /\ SingleUse'
      BY <3>2
    <3>4. /\ status'[r] = t /\ attested' = attested
          /\ \A q \in Receipt \ {r} : status'[q] = status[q]
          /\ t = "CONSUMED" => status[r] = "VERIFIED"
          /\ status[r] \in {"ISSUED", "VERIFIED"}
      BY <2>6 DEF SettleStep, ReleaseReservation, TypeOK, Active
    <3>5. /\ y \notin {"ISSUE", "VERIFY", "ATTEST"}
          /\ \A s \in Terminal : TerminalEvent(s) \in {x, y} <=> s = t
      BY DEF RefusalEvent, x
    <3>6. \A q \in Receipt \ {r} : AuditOf(q)'
      BY <2>0, <3>3, <3>4
    <3>7. AuditOf(r)'
      <4>1. \A s \in Terminal : Occurs(r, TerminalEvent(s))' <=> status'[r] = s
        BY <2>0, <3>3, <3>4, <3>5
      <4>2. x \notin {"ISSUE", "VERIFY", "ATTEST"}
        BY DEF x
      <4> QED BY <2>0, <3>3, <3>4, <3>5, <4>1, <4>2
    <3> QED BY <2>0, <3>3, <3>6, <3>7
  <2> QED BY <2>1, <2>2, <2>3, <2>4, <2>5, <2>6, StepShape
<1> QED BY <1>1, <1>2, TypeCorrect, PTL DEF Spec

\* No refusal, in any interleaving, takes a claimed receipt from its worker.
THEOREM RefusalKeepsClaim == Spec => ClaimSurvivesRefusal
<1> DEFINE Keeps(r) == (/\ status[r] = "VERIFIED"
                        /\ Len(events'[r]) > Len(events[r])
                        /\ events'[r][Len(events[r]) + 1] \in RefusalEvent)
                       => UNCHANGED <<status, payload, reserved, spent>>
<1>1. ASSUME TypeOK, [Next]_vars, NEW r \in Receipt PROVE Keeps(r)
  <2> SUFFICES ASSUME status[r] = "VERIFIED", Len(events'[r]) > Len(events[r]),
                      events'[r][Len(events[r]) + 1] \in RefusalEvent
               PROVE  UNCHANGED <<status, payload, reserved, spent>>
    OBVIOUS
  <2>0. Len(events[r]) \in Nat /\ events'[r] # events[r]
    BY <1>1, LenProperties DEF TypeOK
  <2>1. CASE UNCHANGED storeVars
    BY <2>1 DEF storeVars
  <2>2. ASSUME NEW q \in Receipt, NEW p \in Payload, IssueStep(q, p) \/ ClaimStep(q)
        PROVE  FALSE
    <3>1. q # r
      BY <2>2 DEF IssueStep, ClaimStep
    <3> QED BY <1>1, <2>0, <2>2, <3>1 DEF IssueStep, ClaimStep, AppendEvents, TypeOK
  <2>3. ASSUME NEW q \in Receipt, ClaimStep(q) PROVE FALSE
    <3>1. q # r
      BY <2>3 DEF ClaimStep
    <3> QED BY <1>1, <2>0, <2>3, <3>1 DEF ClaimStep, AppendEvents, TypeOK
  <2>4. ASSUME NEW q \in Receipt, NEW e, RefusalStep(q, e) \/ AttestStep(q)
        PROVE  UNCHANGED <<status, payload, reserved, spent>>
    BY <2>4 DEF RefusalStep, AttestStep
  <2>5. ASSUME NEW q \in Receipt, NEW t \in Terminal, SettleStep(q, t) PROVE FALSE
    <3>1. q = r
      BY <1>1, <2>0, <2>5 DEF SettleStep, AppendEvents, TypeOK
    <3>2. AppendEvents(r, <<TerminalEvent(t)>>)
      BY <2>5, <3>1 DEF SettleStep
    <3> DEFINE es == <<TerminalEvent(t)>>
    <3>3. es \in Seq(EventType) /\ Len(es) = 1 /\ es[1] = TerminalEvent(t)
      BY TerminalEvents
    <3> HIDE DEF es
    <3>4. events'[r] = events[r] \o es
      BY <1>1, <3>2, <3>3, TrailType DEF es
    <3>5. (events[r] \o es)[Len(events[r]) + 1] = es[1]
      <4>0. events[r] \in Seq(EventType)
        BY <1>1 DEF TypeOK
      <4>1. \A i \in 1 .. Len(events[r]) + Len(es) :
              (events[r] \o es)[i] =
                IF i <= Len(events[r]) THEN events[r][i] ELSE es[i - Len(events[r])]
        BY <3>3, <4>0, ConcatProperties, Zenon
      <4>2. /\ Len(events[r]) + 1 \in 1 .. Len(events[r]) + Len(es)
            /\ ~(Len(events[r]) + 1 <= Len(events[r]))
            /\ (Len(events[r]) + 1) - Len(events[r]) = 1
        BY <2>0, <3>3
      <4> QED BY <4>1, <4>2
    <3> QED BY <3>3, <3>4, <3>5, TerminalEvents
  <2> QED BY <1>1, <2>1, <2>2, <2>3, <2>4, <2>5, StepShape
<1>2. TypeOK /\ [Next]_vars => [\A r \in Receipt : Keeps(r)]_vars
  BY <1>1
<1> QED BY <1>2, TypeCorrect, PTL DEF Spec, ClaimSurvivesRefusal

-----------------------------------------------------------------------------
\* The values of the abstract variables in a state of the store.
GrantNow == [r \in Receipt |-> GrantOf(status[r])]
ChargeNow == [r \in Receipt |->
                IF status[r] = "ABSENT" THEN NoPayload
                ELSE [pool |-> PoolOfReceipt(r), cost |-> payload[r].cost]]

\* The capacity taken in the abstract pool is what the two counters say.
LEMMA TakenIsCounted ==
  ASSUME TypeOK, AccountingInv, NEW p \in Pool
  PROVE  Cardinality(Grants!Taken(p)) = reserved[p] + spent[p]
<1> DEFINE A == Units(p, Active)
           C == Units(p, {"CONSUMED"})
           Live == {q \in Receipt : GrantNow[q] \in {"open", "held", "used"} /\ ChargeNow[q].pool = p}
<1>1. Grants!Taken(p) = UNION {{r} \X (1 .. ChargeNow[r].cost) : r \in Live}
  BY DEF Grants!Taken, GrantNow, ChargeNow
<1>2. Live = Counted(p, Active) \cup Counted(p, {"CONSUMED"})
  BY DEF GrantNow, ChargeNow, GrantOf, Counted, Active, TypeOK, ReceiptStatus
<1>3. \A q \in Live : ChargeNow[q].cost = payload[q].cost
  BY DEF GrantNow, ChargeNow, GrantOf
<1>4. \A x : x \in Grants!Taken(p) <=> \E q \in Live : x \in Share(q, payload[q].cost)
  BY <1>1, <1>3 DEF Share
<1> HIDE DEF Live
<1>5. Grants!Taken(p) = A \cup C
  BY <1>2, <1>4, UnitsElements
<1>6. A \cap C = {}
  <2>1. ASSUME NEW x, x \in A, x \in C PROVE FALSE
    <3>1. PICK q \in Counted(p, Active) : x \in Share(q, payload[q].cost)
      BY <2>1, UnitsElements
    <3>2. PICK s \in Counted(p, {"CONSUMED"}) : x \in Share(s, payload[s].cost)
      BY <2>1, UnitsElements
    <3>3. q = s
      BY <3>1, <3>2 DEF Share
    <3> QED BY <3>3 DEF Counted, Active
  <2> QED BY <2>1
<1>7. /\ IsFiniteSet(A) /\ IsFiniteSet(C)
      /\ reserved[p] = Cardinality(A) /\ spent[p] = Cardinality(C)
      /\ reserved[p] \in Nat /\ spent[p] \in Nat
  BY DEF AccountingInv, UnitsFinite, PoolAccounting, TypeOK
<1>8. Cardinality(A \cup C) = Cardinality(A) + Cardinality(C) - Cardinality(A \cap C)
  BY <1>7, FS_Union
<1>9. Cardinality(A \cap C) = 0
  BY <1>6, FS_EmptySet
<1> HIDE DEF A, C
<1> QED BY <1>5, <1>7, <1>8, <1>9

\* The cardinality of the instanced module is the one this module uses.
LEMMA SameCardinality ==
  ASSUME NEW S PROVE Grants!Cardinality(S) = Cardinality(S)
  BY DEF Grants!Cardinality, Cardinality

\* Every step of the store is a step of the abstract authority, or invisible.
LEMMA GrantStep ==
  ASSUME TypeOK, AccountingInv, [Next]_vars
  PROVE  [Grants!GNext]_(Grants!grantVars)
<1> USE DEF GrantNow, ChargeNow
<1>0. Grants!grantVars = <<GrantNow, ChargeNow>>
  BY DEF Grants!grantVars
<1>1. CASE UNCHANGED <<status, payload>>
  BY <1>1 DEF Grants!grantVars, PoolOfReceipt
<1>2. ASSUME NEW r \in Receipt, NEW p \in Payload, IssueStep(r, p)
      PROVE  Grants!GNext
  <2> DEFINE pool == PoolOf[p.binding]
  <2>1. p.cost \in Nat /\ pool \in Pool /\ Budget \in Nat
    BY PayloadFacts, BudgetAssumption
  <2>2. Cardinality(Grants!Taken(pool)) = reserved[pool] + spent[pool]
    BY <2>1, TakenIsCounted
  <2>3. reserved[pool] \in Nat /\ spent[pool] \in Nat
    BY <2>1 DEF TypeOK
  <2>4. /\ Cardinality(Grants!Taken(pool)) + p.cost <= Budget
        /\ p.cost \in 0 .. Budget
    BY <1>2, <2>1, <2>2, <2>3 DEF IssueStep
  <2>5. /\ status[r] = "ABSENT" /\ status' = [status EXCEPT ![r] = "ISSUED"]
        /\ payload' = [payload EXCEPT ![r] = p]
    BY <1>2 DEF IssueStep
  <2>6. GrantNow[r] = "none" /\ GrantNow' = [GrantNow EXCEPT ![r] = "open"]
    BY <2>5 DEF GrantOf, TypeOK
  <2>7. ChargeNow' = [ChargeNow EXCEPT ![r] = [pool |-> pool, cost |-> p.cost]]
    BY <2>5 DEF TypeOK, PoolOfReceipt
  <2>8. Grants!Grant(r, pool, p.cost)
    BY <2>4, <2>6, <2>7, SameCardinality DEF Grants!Grant
  <2> QED BY <2>1, <2>4, <2>8 DEF Grants!GNext
<1>3. ASSUME NEW r \in Receipt, NEW t \in Terminal \cup {"VERIFIED"},
             status[r] \in Active, status' = [status EXCEPT ![r] = t], UNCHANGED payload,
             t = "VERIFIED" => status[r] = "ISSUED",
             t = "CONSUMED" => status[r] = "VERIFIED"
      PROVE  Grants!GNext
  <2>1. GrantNow' = [GrantNow EXCEPT ![r] = GrantOf(t)]
    BY <1>3 DEF TypeOK
  <2>2. ChargeNow' = ChargeNow
    BY <1>3, TerminalEvents DEF TypeOK, PoolOfReceipt, Active
  <2>3. \/ t = "VERIFIED" /\ GrantNow[r] = "open" /\ GrantOf(t) = "held"
        \/ t = "CONSUMED" /\ GrantNow[r] = "held" /\ GrantOf(t) = "used"
        \/ GrantNow[r] \in {"open", "held"} /\ GrantOf(t) = "closed"
    BY <1>3, TerminalEvents DEF GrantOf, Active
  <2>4. Grants!Claim(r) \/ Grants!Use(r) \/ Grants!Close(r)
    BY <2>1, <2>2, <2>3 DEF Grants!Claim, Grants!Use, Grants!Close, Grants!Move
  <2> QED BY <2>4 DEF Grants!GNext
<1>4. ASSUME NEW r \in Receipt, ClaimStep(r) PROVE Grants!GNext
  BY <1>3, <1>4 DEF ClaimStep, Active
<1>5. ASSUME NEW r \in Receipt, NEW t \in Terminal, SettleStep(r, t) PROVE Grants!GNext
  BY <1>3, <1>5, TerminalEvents DEF SettleStep, ReleaseReservation
<1>6. ASSUME NEW r \in Receipt, NEW e, RefusalStep(r, e) \/ AttestStep(r)
      PROVE  UNCHANGED <<status, payload>>
  BY <1>6 DEF RefusalStep, AttestStep
<1>7. UNCHANGED storeVars => UNCHANGED <<status, payload>>
  BY DEF storeVars
<1> QED BY <1>1, <1>2, <1>4, <1>5, <1>6, <1>7, StepShape

\* The store implements the abstract authority: single-use grants within budget.
THEOREM StoreRefinesGrant == Spec => ImplementsSingleUseGrant
<1>1. Init => Grants!GInit
  BY DEF Init, Grants!GInit, GrantOf
<1>2. TypeOK /\ AccountingInv /\ [Next]_vars => [Grants!GNext]_(Grants!grantVars)
  BY GrantStep
<1> QED BY <1>1, <1>2, TypeCorrect, AccountingHolds, PTL DEF Spec, ImplementsSingleUseGrant, Grants!GSpec

-----------------------------------------------------------------------------
(* The workers                                                             *)

\* A job that has got its receipt past the admission boundary and not yet lost
\* sight of it: it runs under the claim, ends it, or is recorded as completed.
Settled(j) == pc[j] \in {"check_cancelled", "mark_completed"} \/ job[j] = "completed"
Holds(j) == pc[j] \in Claimed \cup {"void"} \/ Settled(j)

\* At most one job ever holds a given receipt.
SoleHolder ==
  \A j, k \in Job : Holds(j) /\ Holds(k) /\ ReceiptOf[j] = ReceiptOf[k] => j = k

\* What a job knows about its receipt at each of its steps.
Progress(j) ==
  LET r == ReceiptOf[j]
  IN /\ Holds(j) => status[r] \notin {"ABSENT", "ISSUED"}
     /\ pc[j] \in Claimed => /\ status[r] = "VERIFIED"
                             /\ loaded[j].binding = payload[r].binding
                             /\ loaded[j].evidence <= payload[r].ceiling
     /\ pc[j] \in {"resolve", "execute"} => executions[r] = 0
     /\ pc[j] = "persist" => executions[r] = 1 /\ episodes[r] = 0
     /\ pc[j] \in {"attest", "consume"} => executions[r] = 1 /\ episodes[r] = 1
     /\ pc[j] = "consume" => r \in attested
     /\ Settled(j) => /\ status[r] = "CONSUMED" /\ r \in attested
                      /\ executions[r] = 1 /\ episodes[r] = 1

\* Nothing has been executed for a receipt that nobody has claimed.
Counters ==
  \A r \in Receipt :
    /\ executions[r] <= 1 /\ episodes[r] <= executions[r]
    /\ status[r] \in {"ABSENT", "ISSUED"} => executions[r] = 0

WInv ==
  /\ TypeOK /\ WTypeOK
  /\ SoleHolder
  /\ \A j \in Job : Progress(j)
  /\ Counters

-----------------------------------------------------------------------------
\* What each operation of the store does to statuses, payloads and attestations.
LEMMA VerifyEffect ==
  ASSUME TypeOK, NEW r \in Receipt, NEW a, NEW e, Verify(r, a, e)
  PROVE  /\ UNCHANGED <<payload, attested>>
         /\ \A q \in Receipt \ {r} : status'[q] = status[q]
         /\ Admits(r, a, e) => /\ status[r] = "ISSUED" /\ status'[r] = "VERIFIED"
                               /\ a = payload[r].binding /\ ~(e > payload[r].ceiling)
         /\ status[r] # "ISSUED" => status'[r] = status[r] /\ ~Admits(r, a, e)
         /\ status[r] = "ISSUED" => status'[r] # "ABSENT"
         /\ ~Admits(r, a, e) /\ status[r] = "ISSUED" => status'[r] \in {"EXPIRED", "VOIDED"}
<1>1. CASE status[r] = "ABSENT" /\ UNCHANGED storeVars
  BY <1>1 DEF storeVars, Admits
<1>2. CASE /\ Admits(r, a, e)
           /\ status' = [status EXCEPT ![r] = "VERIFIED"]
           /\ UNCHANGED <<payload, attested>>
  BY <1>2 DEF Admits, EvaluateVerification, TypeOK
<1>3. CASE /\ status[r] # "ABSENT" /\ ~Admits(r, a, e)
           /\ RefuseVerification(r, EvaluateVerification(r, a, e))
  BY <1>3 DEF RefuseVerification, ReleaseReservation, Admits, EvaluateVerification, TypeOK
<1> QED BY <1>1, <1>2, <1>3 DEF Verify

LEMMA TerminalEffect ==
  ASSUME TypeOK, NEW r \in Receipt, NEW target \in {"CONSUMED", "VOIDED"}, NEW ev,
         TerminalTransition(r, target, ev)
  PROVE  /\ UNCHANGED <<payload, attested>>
         /\ \A q \in Receipt \ {r} : status'[q] = status[q]
         /\ status[r] = "VERIFIED" => status'[r] = target
         /\ status[r] \notin {"ISSUED", "VERIFIED"} => status'[r] = status[r]
         /\ status[r] # "ABSENT" => status'[r] # "ABSENT"
         /\ status[r] = "ISSUED" => status'[r] \in {"ISSUED", target}
  BY DEF TerminalTransition, Allowed, ReleaseReservation, storeVars, TypeOK

LEMMA AttestEffect ==
  ASSUME TypeOK, NEW r \in Receipt, NEW b, NEW t, RecordAttestation(r, b, t)
  PROVE  /\ UNCHANGED <<status, payload>>
         /\ attested \subseteq attested'
         /\ AttestationAccepted(r, b, t) => r \in attested'
  BY DEF RecordAttestation, storeVars

LEMMA IssueEffect ==
  ASSUME TypeOK, NEW r \in Receipt, NEW p, Issue(r, p)
  PROVE  /\ UNCHANGED attested
         /\ \A q \in Receipt : status[q] # "ABSENT" => status'[q] = status[q] /\ payload'[q] = payload[q]
         /\ \A q \in Receipt : status[q] = "ABSENT" => status'[q] \in {"ABSENT", "ISSUED"}
  BY DEF Issue, storeVars, TypeOK

\* Every step of the workers and of their environment is a step of the store.
LEMMA WorkerStepIsStoreStep ==
  ASSUME WInv, [WNext]_wvars
  PROVE  [Next]_vars
<1>1. CASE UNCHANGED vars
  BY <1>1
<1>2. ASSUME NEW j \in Job, VerifyAdmission(j) PROVE Next
  <2>1. /\ ReceiptOf[j] \in Receipt
        /\ loaded[j].binding \in Binding /\ loaded[j].evidence \in Evidence
    BY JobAssumption DEF WInv, WTypeOK
  <2> QED BY <1>2, <2>1 DEF VerifyAdmission, Next
<1>3. ASSUME NEW j \in Job, Attest(j) PROVE Next
  <2>1. ReceiptOf[j] \in Receipt /\ status[ReceiptOf[j]] = "VERIFIED"
    BY <1>3, JobAssumption DEF WInv, Progress, Attest, At, Claimed
  <2>2. payload[ReceiptOf[j]] \in Payload
    BY <2>1, RowFacts DEF WInv
  <2> QED BY <1>3, <2>1, <2>2 DEF Attest, Next
<1>4. ASSUME NEW j \in Job, ConsumeReceipt(j) \/ VoidReceipt(j) PROVE Next
  BY <1>4, JobAssumption DEF ConsumeReceipt, VoidReceipt, Next
<1>5. ASSUME Environment PROVE Next
  BY <1>5 DEF Environment, Next
<1>6. ASSUME NEW j \in Job,
             \/ Deliver(j) \/ MarkRunning(j) \/ Load(j) \/ Resolve(j) \/ Execute(j)
             \/ Persist(j) \/ CheckCancelled(j) \/ MarkCompleted(j) \/ MarkFailed(j)
             \/ DatabaseError(j) \/ Timeout(j) \/ Crash(j) \/ CancelJob(j)
      PROVE  UNCHANGED vars
  BY <1>6 DEF Deliver, MarkRunning, Load, Resolve, Execute, Persist, CheckCancelled,
              MarkCompleted, MarkFailed, DatabaseError, Timeout, Crash, CancelJob
<1>7. Drift => UNCHANGED vars
  BY DEF Drift
<1>8. UNCHANGED wvars => UNCHANGED vars
  BY DEF wvars
<1> QED BY <1>1, <1>2, <1>3, <1>4, <1>5, <1>6, <1>7, <1>8 DEF WNext, Run

-----------------------------------------------------------------------------
\* The steps of the handler stay within its control points and statuses.
LEMMA WorkerTypeStep ==
  ASSUME WInv, [WNext]_wvars
  PROVE  TypeOK' /\ WTypeOK'
<1> USE DEF Step, Claimed, JobStatus
<1>0. TypeOK'
  BY WorkerStepIsStoreStep, TypeStep DEF WInv
<1> SUFFICES WTypeOK'
  BY <1>0
<1> USE DEF WInv, WTypeOK
<1>1. ASSUME NEW j \in Job, Deliver(j) PROVE WTypeOK'
  BY <1>1 DEF Deliver, Goto
<1>2. ASSUME NEW j \in Job,
             \/ MarkRunning(j) \/ MarkCompleted(j) \/ MarkFailed(j) \/ CancelJob(j)
      PROVE  WTypeOK'
  BY <1>2 DEF MarkRunning, MarkCompleted, MarkFailed, CancelJob, SetJob, Goto, Advance, Handler
<1>3. ASSUME NEW j \in Job, Load(j) PROVE WTypeOK'
  BY <1>3 DEF Load, Goto, Handler
<1>4. ASSUME NEW j \in Job,
             \/ VerifyAdmission(j) \/ Resolve(j) \/ Attest(j) \/ ConsumeReceipt(j)
             \/ CheckCancelled(j) \/ VoidReceipt(j) \/ DatabaseError(j) \/ Timeout(j) \/ Crash(j)
      PROVE  WTypeOK'
  <2>1. \A step \in Step : Handler(step) \in Step
    BY DEF Handler
  <2>2. \E step \in Step : Goto(j, step)
    <3>1. CASE VerifyAdmission(j) \/ Resolve(j)
      BY <3>1, <2>1 DEF VerifyAdmission, Resolve, Advance
    <3>2. CASE Attest(j) \/ ConsumeReceipt(j) \/ VoidReceipt(j)
      BY <3>2, <2>1 DEF Attest, ConsumeReceipt, VoidReceipt, Advance
    <3>3. CASE CheckCancelled(j) \/ DatabaseError(j) \/ Timeout(j) \/ Crash(j)
      BY <3>3, <2>1 DEF CheckCancelled, DatabaseError, Timeout, Crash
    <3> QED BY <1>4, <3>1, <3>2, <3>3
  <2>3. UNCHANGED <<job, live, loaded, tries, durable, executions, episodes>>
    BY <1>4 DEF VerifyAdmission, Resolve, Attest, ConsumeReceipt, CheckCancelled, VoidReceipt,
                DatabaseError, Timeout, Crash
  <2> QED BY <2>2, <2>3 DEF Goto
<1>5. ASSUME NEW j \in Job, Execute(j) \/ Persist(j) PROVE WTypeOK'
  <2>1. CASE Execute(j)
    BY <1>5, <2>1, JobAssumption DEF Execute, Goto, Handler
  <2>2. CASE Persist(j)
    BY <1>5, <2>2, JobAssumption DEF Persist, Goto, Advance, Handler, At
  <2> QED BY <1>5, <2>1, <2>2
<1>6. Drift \/ Environment \/ UNCHANGED wvars => WTypeOK'
  BY DEF Drift, Environment, wvars, workerVars
<1> QED BY <1>1, <1>2, <1>3, <1>4, <1>5, <1>6 DEF WNext, Run

\* A step that leaves the store, the counters and what the others loaded alone,
\* and takes one job to a step at which it knows no more than before.
Retreat(j) ==
  /\ UNCHANGED <<status, payload, attested, executions, episodes>>
  /\ \A k \in Job \ {j} : pc'[k] = pc[k] /\ job'[k] = job[k] /\ loaded'[k] = loaded[k]
  /\ job'[j] = "completed" => job[j] = "completed"
  /\ \/ pc'[j] \notin Claimed \cup {"void", "check_cancelled", "mark_completed"}
     \/ pc'[j] = pc[j] /\ loaded'[j] = loaded[j]
     \/ pc'[j] = "void" /\ pc[j] \in Claimed \cup {"check_cancelled", "mark_completed"}

LEMMA RetreatKeeps ==
  ASSUME WInv, NEW j \in Job, Retreat(j)
  PROVE  SoleHolder' /\ (\A k \in Job : Progress(k)') /\ Counters'
<1>1. \A k \in Job : Holds(k)' => Holds(k)
  BY DEF Retreat, Holds, Settled, Claimed
<1>2. SoleHolder'
  BY <1>1 DEF WInv, SoleHolder
<1>3. ASSUME NEW k \in Job, k # j PROVE Progress(k)'
  BY <1>3 DEF WInv, Retreat, Progress, Holds, Settled
<1>4. Progress(j)'
  BY <1>1 DEF WInv, Retreat, Progress, Holds, Settled, Claimed
<1>5. Counters'
  BY DEF WInv, Retreat, Counters
<1> QED BY <1>2, <1>3, <1>4, <1>5

\* The handler gives up, or takes a step that tells it nothing about its receipt.
LEMMA RetreatSteps ==
  ASSUME WInv, NEW j \in Job,
         \/ Deliver(j) \/ MarkRunning(j) \/ Load(j) \/ MarkFailed(j)
         \/ DatabaseError(j) \/ Timeout(j) \/ Crash(j) \/ CancelJob(j)
  PROVE  Retreat(j)
<1> USE DEF WInv, WTypeOK, Retreat, Goto, Claimed, vars
<1>1. CASE Deliver(j)
  BY <1>1 DEF Deliver
<1>2. CASE MarkRunning(j) \/ MarkFailed(j) \/ CancelJob(j)
  BY <1>2 DEF MarkRunning, MarkFailed, CancelJob, SetJob, Advance, Handler, At
<1>3. CASE Load(j)
  BY <1>3 DEF Load, Handler, At
<1>4. CASE DatabaseError(j)
  BY <1>4 DEF DatabaseError, Handler, Step
<1>5. CASE Timeout(j) \/ Crash(j)
  BY <1>5 DEF Timeout, Crash
<1> QED BY <1>1, <1>2, <1>3, <1>4, <1>5

\* A refused or a successful call of verify.
LEMMA VerifyKeeps ==
  ASSUME WInv, NEW j \in Job, VerifyAdmission(j)
  PROVE  SoleHolder' /\ (\A k \in Job : Progress(k)') /\ Counters'
<1> DEFINE r == ReceiptOf[j]
           a == loaded[j]
<1>0. /\ r \in Receipt /\ TypeOK
      /\ Verify(r, a.binding, a.evidence) /\ pc[j] = "verify"
      /\ UNCHANGED <<job, loaded, executions, episodes>>
      /\ \A k \in Job \ {j} : pc'[k] = pc[k]
  BY JobAssumption DEF WInv, WTypeOK, VerifyAdmission, At, Advance, Goto
<1>1. /\ UNCHANGED <<payload, attested>>
      /\ \A q \in Receipt \ {r} : status'[q] = status[q]
      /\ Admits(r, a.binding, a.evidence) =>
           /\ status[r] = "ISSUED" /\ status'[r] = "VERIFIED"
           /\ a.binding = payload[r].binding /\ ~(a.evidence > payload[r].ceiling)
      /\ status[r] # "ISSUED" => status'[r] = status[r] /\ ~Admits(r, a.binding, a.evidence)
      /\ status[r] = "ISSUED" => status'[r] # "ABSENT"
      /\ ~Admits(r, a.binding, a.evidence) /\ status[r] = "ISSUED" => status'[r] \in {"EXPIRED", "VOIDED"}
  BY <1>0, VerifyEffect
<1>2. /\ pc'[j] \in {"resolve", "mark_failed"}
      /\ pc'[j] = "resolve" => Admits(r, a.binding, a.evidence)
  BY <1>0 DEF VerifyAdmission, Advance, Goto, Handler, WInv, WTypeOK
<1>3. ASSUME NEW k \in Job, k # j PROVE Progress(k)' /\ (Holds(k)' <=> Holds(k))
  BY <1>0, <1>1, <1>3, JobAssumption DEF WInv, Progress, Holds, Settled, Claimed
<1>4. Counters'
  <2>1. \A q \in Receipt : status'[q] \in {"ABSENT", "ISSUED"} => status[q] \in {"ABSENT", "ISSUED"}
    BY <1>0, <1>1 DEF TypeOK
  <2> QED BY <1>0, <2>1 DEF WInv, Counters
<1>5. CASE pc'[j] = "mark_failed"
  <2>1. Holds(j)' => Settled(j)
    BY <1>0, <1>5 DEF Holds, Settled, Claimed
  <2>2. Progress(j)'
    BY <1>0, <1>1, <1>5, <2>1 DEF WInv, Progress, Holds, Settled, Claimed
  <2>3. SoleHolder'
    BY <1>3, <2>1 DEF WInv, SoleHolder, Holds
  <2> QED BY <1>3, <1>4, <2>2, <2>3
<1>6. CASE pc'[j] = "resolve"
  <2>1. /\ status[r] = "ISSUED" /\ status'[r] = "VERIFIED"
        /\ a.binding = payload[r].binding /\ ~(a.evidence > payload[r].ceiling)
    BY <1>1, <1>2, <1>6
  <2>2. \A k \in Job : ReceiptOf[k] = r => ~Holds(k)
    BY <2>1 DEF WInv, Progress
  <2>3. SoleHolder'
    BY <1>3, <2>2 DEF WInv, SoleHolder
  <2>4. executions[r] = 0 /\ job[j] # "completed"
    BY <1>0, <2>1, <2>2 DEF WInv, Counters, Holds, Settled
  <2>5. a.evidence <= payload[r].ceiling
    <3>1. payload[r].ceiling \in Nat /\ a.evidence \in Nat
      BY <1>0, <2>1, RowFacts, PayloadAssumption, EvidenceAssumption DEF WInv, WTypeOK
    <3> QED BY <2>1, <3>1
  <2>6. Progress(j)'
    BY <1>0, <1>1, <1>6, <2>1, <2>4, <2>5 DEF Progress, Holds, Settled, Claimed
  <2> QED BY <1>3, <1>4, <2>3, <2>6
<1> QED BY <1>2, <1>5, <1>6

\* The steps taken under the claim that leave the store alone.
LEMMA ExecuteKeeps ==
  ASSUME WInv, NEW j \in Job, Resolve(j) \/ Execute(j) \/ Persist(j)
  PROVE  SoleHolder' /\ (\A k \in Job : Progress(k)') /\ Counters'
<1> DEFINE r == ReceiptOf[j]
<1>0. /\ r \in Receipt /\ TypeOK
      /\ UNCHANGED <<status, payload, attested, job, loaded>>
      /\ \A k \in Job \ {j} : pc'[k] = pc[k]
      /\ \A q \in Receipt \ {r} : executions'[q] = executions[q] /\ episodes'[q] = episodes[q]
      /\ pc[j] \in {"resolve", "execute", "persist"}
      /\ pc'[j] \in {"execute", "persist", "attest", "void"}
      /\ executions[r] \in Nat /\ episodes[r] \in Nat
  BY JobAssumption DEF WInv, WTypeOK, Resolve, Execute, Persist, At, Advance, Goto, Handler, vars
<1>1. Holds(j) /\ status[r] = "VERIFIED" /\ ~Settled(j)
  BY <1>0 DEF WInv, Progress, Holds, Claimed
<1>2. \A k \in Job : Holds(k)' => Holds(k)
  BY <1>0, <1>1 DEF Holds, Settled
<1>3. SoleHolder'
  BY <1>2 DEF WInv, SoleHolder
<1>4. ASSUME NEW k \in Job, k # j PROVE Progress(k)'
  <2>1. CASE ReceiptOf[k] = r
    <3>1. ~Holds(k)
      BY <1>1, <1>4, <2>1 DEF WInv, SoleHolder
    <3> QED BY <1>0, <1>2, <1>4, <2>1, <3>1 DEF Progress, Holds, Settled, Claimed
  <2>2. CASE ReceiptOf[k] # r
    BY <1>0, <1>4, <2>2, JobAssumption DEF WInv, Progress, Holds, Settled
  <2> QED BY <2>1, <2>2
<1>5. /\ executions'[r] = IF pc[j] = "execute" THEN 1 ELSE executions[r]
      /\ episodes'[r] = IF pc[j] = "persist" THEN 1 ELSE episodes[r]
  BY <1>0 DEF WInv, WTypeOK, Progress, Resolve, Execute, Persist, At
<1>6. Counters'
  BY <1>0, <1>1, <1>5 DEF WInv, Counters, Progress
<1>7. Progress(j)'
  <2>1. CASE pc'[j] = "void"
    BY <1>0, <1>1, <2>1 DEF Progress, Holds, Settled, Claimed
  <2>2. CASE pc'[j] # "void"
    <3>1. \/ pc[j] = "resolve" /\ pc'[j] = "execute"
          \/ pc[j] = "execute" /\ pc'[j] = "persist"
          \/ pc[j] = "persist" /\ pc'[j] = "attest"
      BY <2>2 DEF WInv, WTypeOK, Resolve, Execute, Persist, At, Advance, Goto, Handler
    <3>2. executions[r] = 0 => episodes[r] = 0
      BY <1>0 DEF WInv, Counters
    <3> QED BY <1>0, <1>1, <1>5, <3>1, <3>2 DEF WInv, Progress, Holds, Settled, Claimed
  <2> QED BY <2>1, <2>2
<1> QED BY <1>3, <1>4, <1>6, <1>7

\* The steps that attest, consume and void: only the holder's receipt changes.
LEMMA SettleKeeps ==
  ASSUME WInv, NEW j \in Job, Attest(j) \/ ConsumeReceipt(j) \/ VoidReceipt(j)
  PROVE  SoleHolder' /\ (\A k \in Job : Progress(k)') /\ Counters'
<1> DEFINE r == ReceiptOf[j]
<1>0. /\ r \in Receipt /\ TypeOK
      /\ UNCHANGED <<job, loaded, executions, episodes>>
      /\ \A k \in Job \ {j} : pc'[k] = pc[k]
      /\ pc[j] \in {"attest", "consume", "void"}
  BY JobAssumption DEF WInv, WTypeOK, Attest, ConsumeReceipt, VoidReceipt, At, Advance, Goto
<1>1. Holds(j) /\ status[r] \notin {"ABSENT", "ISSUED"}
  BY <1>0 DEF WInv, Progress, Holds, Claimed
<1>2. \/ /\ pc[j] = "attest" /\ status' = status /\ pc'[j] \in {"consume", "void"}
         /\ pc'[j] = "consume" => r \in attested'
      \/ /\ pc[j] = "consume" /\ status'[r] = "CONSUMED"
         /\ pc'[j] \in {"check_cancelled", "void"}
      \/ /\ pc[j] = "void" /\ (status[r] # "VERIFIED" => status'[r] = status[r])
         /\ (status[r] = "VERIFIED" => status'[r] = "VOIDED") /\ pc'[j] \in {"mark_failed", "done"}
  <2>1. CASE Attest(j)
    BY <1>0, <2>1, AttestEffect DEF WInv, WTypeOK, Attest, At, Advance, Goto, Handler
  <2>2. CASE ConsumeReceipt(j)
    <3>1. status[r] = "VERIFIED"
      BY <2>2 DEF WInv, Progress, ConsumeReceipt, At, Claimed
    <3>2. status'[r] = "CONSUMED"
      BY <1>0, <2>2, <3>1, TerminalEffect DEF ConsumeReceipt, Consume
    <3> QED BY <1>0, <2>2, <3>2 DEF WInv, WTypeOK, ConsumeReceipt, At, Advance, Goto, Handler
  <2>3. CASE VoidReceipt(j)
    <3>1. /\ status[r] # "VERIFIED" => status'[r] = status[r]
          /\ status[r] = "VERIFIED" => status'[r] = "VOIDED"
      BY <1>0, <1>1, <2>3, TerminalEffect DEF VoidReceipt, Void
    <3> QED BY <1>0, <2>3, <3>1 DEF WInv, WTypeOK, VoidReceipt, At, Advance, Goto, Handler
  <2> QED BY <2>1, <2>2, <2>3
<1>3. /\ payload' = payload /\ attested \subseteq attested'
      /\ \A q \in Receipt \ {r} : status'[q] = status[q]
      /\ status'[r] \notin {"ABSENT", "ISSUED"}
  <2>1. CASE Attest(j)
    BY <1>0, <1>1, <2>1, AttestEffect DEF Attest
  <2>2. CASE ConsumeReceipt(j)
    BY <1>0, <1>1, <1>2, <2>2, TerminalEffect DEF ConsumeReceipt, Consume
  <2>3. CASE VoidReceipt(j)
    BY <1>0, <1>1, <1>2, <2>3, TerminalEffect DEF VoidReceipt, Void
  <2> QED BY <2>1, <2>2, <2>3
<1>4. \A k \in Job : Holds(k)' => Holds(k)
  BY <1>0, <1>1 DEF Holds, Settled
<1>5. SoleHolder'
  BY <1>4 DEF WInv, SoleHolder
<1>6. ASSUME NEW k \in Job, k # j PROVE Progress(k)'
  <2>1. CASE ReceiptOf[k] = r
    <3>1. ~Holds(k)
      BY <1>1, <1>6, <2>1 DEF WInv, SoleHolder
    <3> QED BY <1>0, <1>4, <1>6, <2>1, <3>1 DEF Progress, Holds, Settled, Claimed
  <2>2. CASE ReceiptOf[k] # r
    BY <1>0, <1>3, <1>6, <2>2, JobAssumption DEF WInv, Progress, Holds, Settled
  <2> QED BY <2>1, <2>2
<1>7. Counters'
  BY <1>0, <1>3 DEF WInv, Counters
<1>8. Progress(j)'
  BY <1>0, <1>1, <1>2, <1>3 DEF WInv, Progress, Holds, Settled, Claimed
<1> QED BY <1>5, <1>6, <1>7, <1>8

\* _mark_completed, in its two parts.
LEMMA CompleteKeeps ==
  ASSUME WInv, NEW j \in Job, CheckCancelled(j) \/ MarkCompleted(j)
  PROVE  SoleHolder' /\ (\A k \in Job : Progress(k)') /\ Counters'
<1>0. /\ UNCHANGED <<status, payload, attested, loaded, executions, episodes>>
      /\ \A k \in Job \ {j} : pc'[k] = pc[k] /\ job'[k] = job[k]
      /\ pc[j] \in {"check_cancelled", "mark_completed"}
      /\ pc'[j] \in {"mark_completed", "done", "void"}
  BY DEF WInv, WTypeOK, CheckCancelled, MarkCompleted, At, Advance, Goto, Handler, SetJob, vars
<1>1. Settled(j) /\ Holds(j)
  BY <1>0 DEF Holds, Settled
<1>2. \A k \in Job : Holds(k)' => Holds(k)
  BY <1>0, <1>1 DEF Holds, Settled
<1>3. SoleHolder'
  BY <1>2 DEF WInv, SoleHolder
<1>4. ASSUME NEW k \in Job PROVE Progress(k)'
  BY <1>0, <1>1, <1>4 DEF WInv, Progress, Holds, Settled, Claimed
<1>5. Counters'
  BY <1>0 DEF WInv, Counters
<1> QED BY <1>3, <1>4, <1>5

\* The clock, the coordinator and other writers.
LEMMA EnvironmentKeeps ==
  ASSUME WInv, Environment \/ Drift \/ UNCHANGED wvars
  PROVE  SoleHolder' /\ (\A k \in Job : Progress(k)') /\ Counters'
<1>0. /\ UNCHANGED <<pc, job, loaded, executions, episodes>> /\ attested' = attested
      /\ \A q \in Receipt : status[q] # "ABSENT" => status'[q] = status[q] /\ payload'[q] = payload[q]
      /\ \A q \in Receipt : status[q] = "ABSENT" => status'[q] \in {"ABSENT", "ISSUED"}
  <2>1. CASE Drift \/ UNCHANGED wvars
    BY <2>1 DEF Drift, wvars, vars, workerVars
  <2>2. CASE Environment
    <3>1. CASE Tick
      BY <2>2, <3>1 DEF Environment, Tick, storeVars, workerVars
    <3>2. ASSUME NEW q \in Receipt, NEW p \in Payload, Issue(q, p), UNCHANGED workerVars
          PROVE  <1>0!1 /\ <1>0!2 /\ <1>0!3
      BY <3>2, IssueEffect DEF workerVars, WInv
    <3> QED BY <2>2, <3>1, <3>2 DEF Environment
  <2> QED BY <2>1, <2>2
<1>1. \A k \in Job : Holds(k)' <=> Holds(k)
  BY <1>0 DEF Holds, Settled
<1>2. SoleHolder'
  BY <1>1 DEF WInv, SoleHolder
<1>3. ASSUME NEW k \in Job PROVE Progress(k)'
  BY <1>0, <1>1, <1>3, JobAssumption DEF WInv, Progress, Holds, Settled, Claimed
<1>4. Counters'
  BY <1>0 DEF WInv, Counters
<1> QED BY <1>2, <1>3, <1>4

\* WInv is inductive.
LEMMA WorkerInvStep == WInv /\ [WNext]_wvars => WInv'
<1> SUFFICES ASSUME WInv, [WNext]_wvars
             PROVE  SoleHolder' /\ (\A k \in Job : Progress(k)') /\ Counters'
  BY WorkerTypeStep DEF WInv
<1>1. CASE Environment \/ Drift \/ UNCHANGED wvars
  BY <1>1, EnvironmentKeeps
<1>2. ASSUME NEW j \in Job,
             \/ Deliver(j) \/ MarkRunning(j) \/ Load(j) \/ MarkFailed(j)
             \/ DatabaseError(j) \/ Timeout(j) \/ Crash(j) \/ CancelJob(j)
      PROVE  SoleHolder' /\ (\A k \in Job : Progress(k)') /\ Counters'
  BY <1>2, RetreatSteps, RetreatKeeps
<1> QED BY <1>1, <1>2, VerifyKeeps, ExecuteKeeps, SettleKeeps, CompleteKeeps DEF WNext, Run

\* The invariant holds of every behaviour of the workers.
LEMMA WorkerInvariant == WSpec => []WInv
<1>1. WInit => WInv
  <2> SUFFICES ASSUME WInit PROVE WInv
    OBVIOUS
  <2>1. TypeOK
    BY PayloadAssumption DEF WInit, Init, TypeOK, ReceiptStatus
  <2>2. WTypeOK
    BY DEF WInit, WTypeOK, JobStatus, Step
  <2>3. SoleHolder /\ \A j \in Job : Progress(j)
    BY DEF WInit, SoleHolder, Progress, Holds, Settled, Claimed
  <2>4. Counters
    BY DEF WInit, Counters
  <2> QED BY <2>1, <2>2, <2>3, <2>4 DEF WInv
<1> QED BY <1>1, WorkerInvStep, PTL DEF WSpec

-----------------------------------------------------------------------------
\* However jobs are duplicated, redelivered, cancelled, timed out or cut short, a
\* receipt pays for at most one execution and one episode (AtMostOnce).
THEOREM OneExecutionPerReceipt == WSpec => []AtMostOnce
<1>1. WInv => AtMostOnce
  BY DEF WInv, Counters, AtMostOnce
<1> QED BY <1>1, WorkerInvariant, PTL

\* A worker past the admission boundary is the only one, under a live claim, with
\* the state the receipt was issued for (ClaimIsExclusive).
THEOREM ClaimsAreExclusive == WSpec => []ClaimIsExclusive
<1>1. WInv => ClaimIsExclusive
  BY DEF WInv, SoleHolder, Progress, Holds, ClaimIsExclusive
<1> QED BY <1>1, WorkerInvariant, PTL

\* A job recorded as completed has executed, persisted, attested and consumed, and
\* shares its receipt with no other completed job (CompletedIsPaid).
THEOREM CompletedJobsArePaid == WSpec => []CompletedIsPaid
<1>1. WInv => CompletedIsPaid
  BY DEF WInv, SoleHolder, Progress, Holds, Settled, CompletedIsPaid
<1> QED BY <1>1, WorkerInvariant, PTL

\* The workers and their environment are users of the store: every behaviour of
\* theirs is one of AdmissionStore!Spec (UsesStore), so all that is proved of the
\* store holds under them.
THEOREM WorkersUseStore == WSpec => UsesStore
<1>1. WInit => Init
  BY DEF WInit
<1>2. WInv /\ [WNext]_wvars => [Next]_vars
  BY WorkerStepIsStoreStep
<1> QED BY <1>1, <1>2, WorkerInvariant, PTL DEF WSpec, UsesStore, Spec

-----------------------------------------------------------------------------
\* A message that left the queue was delivered at least once.
Delivered == \A j \in Job : pc[j] # "queued" => tries[j] >= 1

LEMMA DeliveredStep ==
  ASSUME WInv, Delivered, [WNext]_wvars
  PROVE  /\ Delivered'
         /\ \A j \in Job : Died(j) => Died(j)'
<1>1. ASSUME NEW k \in Job, Deliver(k)
      PROVE  /\ tries' = [tries EXCEPT ![k] = @ + 1] /\ pc[k] = "queued"
             /\ pc' = [pc EXCEPT ![k] = "mark_running"]
  BY <1>1 DEF Deliver, At, Goto
<1>2. ASSUME NEW k \in Job, Run(k) \/ DatabaseError(k) \/ Timeout(k) \/ Crash(k) \/ CancelJob(k)
      PROVE  /\ tries' = tries
             /\ pc' = pc \/ (pc[k] # "queued" /\ \E s \in Step : pc' = [pc EXCEPT ![k] = s])
  BY <1>2
  DEF Run, MarkRunning, Load, VerifyAdmission, Resolve, Execute, Persist, Attest, ConsumeReceipt,
      CheckCancelled, MarkCompleted, VoidReceipt, MarkFailed, DatabaseError, Timeout, Crash,
      CancelJob, Advance, Goto, Handler, At, Step, Claimed
<1>3. Drift \/ Environment \/ UNCHANGED wvars => UNCHANGED <<pc, tries>>
  BY DEF Drift, Environment, wvars, workerVars
<1>4. pc \in [Job -> Step] /\ tries \in [Job -> Nat]
  BY DEF WInv, WTypeOK
<1>5. CASE UNCHANGED <<pc, tries>>
  BY <1>5 DEF Delivered, Died
<1>6. ASSUME NEW k \in Job, Deliver(k) PROVE Delivered' /\ \A j \in Job : Died(j) => Died(j)'
  BY <1>1, <1>4, <1>6 DEF Delivered, Died
<1>7. ASSUME NEW k \in Job, Run(k) \/ DatabaseError(k) \/ Timeout(k) \/ Crash(k) \/ CancelJob(k)
      PROVE  Delivered' /\ \A j \in Job : Died(j) => Died(j)'
  BY <1>2, <1>4, <1>7 DEF Delivered, Died
<1> QED BY <1>3, <1>5, <1>6, <1>7 DEF WNext

\* Unless it dies, the worker that owns a claim keeps it until it settles the
\* receipt.
LEMMA OwnerStep ==
  ASSUME Faults \subseteq {"crash"}, MaxTries > 1, WInv, Delivered, ClaimHasWorker, [WNext]_wvars
  PROVE  ClaimHasWorker'
<1> DEFINE Owns(j, r) == ReceiptOf[j] = r /\ pc[j] \in Claimed \cup {"void"}
<1> SUFFICES ASSUME NEW r \in Receipt, status'[r] = "VERIFIED"
             PROVE  \E j \in Job : ReceiptOf[j] = r /\ (pc'[j] \in Claimed \cup {"void"} \/ Died(j)')
  BY DEF ClaimHasWorker
<1>1. ASSUME NEW k \in Job, VerifyAdmission(k), status[r] # "VERIFIED"
      PROVE  \E j \in Job : ReceiptOf[j] = r /\ pc'[j] \in Claimed \cup {"void"}
  <2>1. /\ ReceiptOf[k] \in Receipt /\ TypeOK
        /\ Verify(ReceiptOf[k], loaded[k].binding, loaded[k].evidence)
    BY <1>1, JobAssumption DEF VerifyAdmission, WInv
  <2>2. r = ReceiptOf[k] /\ Admits(r, loaded[k].binding, loaded[k].evidence)
    BY <1>1, <2>1, VerifyEffect
  <2>3. pc'[k] = "resolve"
    BY <1>1, <2>2 DEF VerifyAdmission, Advance, Goto, WInv, WTypeOK
  <2> QED BY <2>2, <2>3 DEF Claimed
<1>2. ASSUME NEW k \in Job, Attest(k) \/ ConsumeReceipt(k) \/ VoidReceipt(k)
      PROVE  status[r] = "VERIFIED"
  <2>1. ReceiptOf[k] \in Receipt /\ TypeOK /\ status[ReceiptOf[k]] \notin {"ABSENT", "ISSUED"}
    BY <1>2, JobAssumption
    DEF WInv, Progress, Holds, Attest, ConsumeReceipt, VoidReceipt, At, Claimed
  <2>2. CASE Attest(k)
    BY <2>1, <2>2, AttestEffect DEF Attest
  <2>3. CASE ConsumeReceipt(k)
    BY <2>1, <2>3, TerminalEffect DEF ConsumeReceipt, Consume
  <2>4. CASE VoidReceipt(k)
    BY <2>1, <2>4, TerminalEffect DEF VoidReceipt, Void
  <2> QED BY <1>2, <2>2, <2>3, <2>4
<1>3. ASSUME NEW k \in Job,
             \/ Deliver(k) \/ MarkRunning(k) \/ Load(k) \/ Resolve(k) \/ Execute(k)
             \/ Persist(k) \/ CheckCancelled(k) \/ MarkCompleted(k) \/ MarkFailed(k)
             \/ DatabaseError(k) \/ Timeout(k) \/ Crash(k) \/ CancelJob(k)
      PROVE  status[r] = "VERIFIED"
  BY <1>3 DEF Deliver, MarkRunning, Load, Resolve, Execute, Persist, CheckCancelled,
              MarkCompleted, MarkFailed, DatabaseError, Timeout, Crash, CancelJob, vars
<1>4. Environment \/ Drift \/ UNCHANGED wvars => status[r] = "VERIFIED" /\ pc' = pc
  <2>1. CASE Drift \/ UNCHANGED wvars
    BY <2>1 DEF Drift, wvars, vars, workerVars
  <2>2. ASSUME NEW q \in Receipt, NEW p \in Payload, Issue(q, p) PROVE status[r] = "VERIFIED"
    BY <2>2, IssueEffect DEF WInv
  <2>3. Tick => status[r] = "VERIFIED"
    BY DEF Tick, storeVars
  <2> QED BY <2>1, <2>2, <2>3 DEF Environment, workerVars
<1>5. ASSUME NEW j \in Job, Owns(j, r), status[r] = "VERIFIED"
      PROVE  pc'[j] \in Claimed \cup {"void"} \/ Died(j)'
  <2>1. Owns(j, r)
    BY <1>5
  <2>2. ASSUME NEW k \in Job, k # j,
               \/ Deliver(k) \/ Run(k) \/ DatabaseError(k) \/ Timeout(k) \/ Crash(k) \/ CancelJob(k)
        PROVE  pc'[j] = pc[j]
    BY <2>1, <2>2
    DEF Deliver, Run, MarkRunning, Load, VerifyAdmission, Resolve, Execute, Persist, Attest,
        ConsumeReceipt, CheckCancelled, MarkCompleted, VoidReceipt, MarkFailed, DatabaseError,
        Timeout, Crash, CancelJob, Advance, Goto, WInv, WTypeOK
  <2>3. ASSUME Resolve(j) \/ Execute(j) \/ Persist(j) \/ Attest(j)
        PROVE  pc'[j] \in Claimed \cup {"void"}
    BY <2>1, <2>3
    DEF Resolve, Execute, Persist, Attest, Advance, Goto, Handler, At, Claimed, WInv, WTypeOK
  <2>4. ASSUME ConsumeReceipt(j) \/ VoidReceipt(j) PROVE FALSE
    <3>1. TypeOK /\ (Consume(r) \/ Void(r))
      BY <2>1, <2>4 DEF ConsumeReceipt, VoidReceipt, WInv
    <3> QED BY <1>5, <3>1, TerminalEffect DEF Consume, Void
  <2>5. ASSUME \/ Deliver(j) \/ MarkRunning(j) \/ Load(j) \/ VerifyAdmission(j)
               \/ CheckCancelled(j) \/ MarkCompleted(j) \/ MarkFailed(j)
        PROVE  FALSE
    BY <2>1, <2>5 DEF Deliver, MarkRunning, Load, VerifyAdmission, CheckCancelled,
                      MarkCompleted, MarkFailed, At, Claimed
  <2>6. ASSUME DatabaseError(j) \/ Timeout(j) PROVE FALSE
    BY <2>6 DEF DatabaseError, Timeout
  <2>8. ASSUME Crash(j) PROVE Died(j)'
    BY <2>8, TryAssumption DEF Crash, Died, Delivered, Goto, WInv, WTypeOK
  <2>7. CancelJob(j) => pc' = pc
    BY DEF CancelJob
  <2> QED BY <1>4, <2>1, <2>2, <2>3, <2>4, <2>5, <2>6, <2>7, <2>8 DEF WNext, Run
<1>6. CASE status[r] = "VERIFIED"
  <2>1. PICK j \in Job : ReceiptOf[j] = r /\ (pc[j] \in Claimed \cup {"void"} \/ Died(j))
    BY <1>6 DEF ClaimHasWorker
  <2>2. Died(j) => Died(j)'
    BY DeliveredStep
  <2>3. pc[j] \in Claimed \cup {"void"} => pc'[j] \in Claimed \cup {"void"} \/ Died(j)'
    BY <1>5, <1>6, <2>1
  <2> QED BY <2>1, <2>2, <2>3
<1> QED BY <1>1, <1>2, <1>3, <1>4, <1>6 DEF WNext, Run

\* When workers may die but the handler is neither cancelled nor cut off from its
\* database, a claim is orphaned by the death of its worker only (ClaimHasWorker).
THEOREM ClaimsAreOwned ==
  ASSUME Faults \subseteq {"crash"}, MaxTries > 1
  PROVE  WSpec => []ClaimHasWorker
<1>1. WInit => ClaimHasWorker /\ Delivered
  BY DEF WInit, Init, ClaimHasWorker, Delivered
<1>2. WInv /\ ClaimHasWorker /\ Delivered /\ [WNext]_wvars => ClaimHasWorker' /\ Delivered'
  BY OwnerStep, DeliveredStep
<1> QED BY <1>1, <1>2, WorkerInvariant, PTL DEF WSpec
================================================================================
