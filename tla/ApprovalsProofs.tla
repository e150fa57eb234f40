---------------------------- MODULE ApprovalsProofs ----------------------------
(***************************************************************************)
(* What an approval rests on, for any actors, actions, policies and bounds.*)
(*                                                                         *)
(* The argument is about one request and its log at a time: SoundRequest   *)
(* holds when a request is created and is kept by everything that can      *)
(* happen to it (Changes).  ApprovedByEnough is not inductive: the request *)
(* that becomes approved must be known to hold approvals only, by people   *)
(* who may give them, while it is still pending; and an override that is   *)
(* cited must be known to be in the log.                                   *)
(***************************************************************************)
EXTENDS Approvals, SequenceTheorems, FiniteSetTheorems, TLAPS

LogEntry == Event \X (Actor \cup {System})

\* The event a status is told by.
Tells(event, s) ==
  s = CASE event = "STATUS_APPROVED" -> "approved" [] event = "DENIED" -> "denied"
        [] event = "EXPIRED" -> "expired" [] event = "BREAK_GLASS" -> "break_glass"
        [] OTHER -> "pending"

\* All decisions are approvals, by actors who are authorised and not the requester.
Clean(q) ==
  /\ \A k \in DOMAIN q.decisions : q.decisions[k].decision = "approved"
  /\ \A a \in ApprovedBy(q.decisions) :
       a # q.requester /\ (q.delegates # {} => a \in q.delegates)

\* Somebody else broke the glass, and the log says so.
Overridden(q, log) ==
  \E k \in DOMAIN log : log[k][1] = "BREAK_GLASS" /\ log[k][2] # q.requester

\* What holds of every request q with its log.
SoundRequest(q, log) ==
  /\ q \in Request /\ log \in Seq(LogEntry) /\ log # <<>>
  /\ Tells(log[Len(log)][1], q.status)
  /\ q.status \in {"pending", "approved"} => Clean(q)
  /\ q.status = "approved" => Cardinality(ApprovedBy(q.decisions)) >= q.required
  /\ q.status = "break_glass" => Overridden(q, log)

\* What an allowed action may rest on.
Backs(q, log, action) ==
  \/ q.status = "approved" /\ q.action = action
  \/ Overridden(q, log)

Inv ==
  /\ TypeOK
  /\ \A r \in DOMAIN requests : SoundRequest(requests[r], audit[r])
  /\ \A g \in granted : g.request # NoRequest => Backs(requests[g.request], audit[g.request], g.action)

-----------------------------------------------------------------------------
\* Recording one more decision adds its actor if it is an approval.
LEMMA RecordedDecision ==
  ASSUME NEW ds \in Seq(Decision), NEW d \in Decision
  PROVE  LET es == Append(ds, d)
         IN /\ es \in Seq(Decision)
            /\ \A k \in DOMAIN es : es[k] = d \/ (k \in DOMAIN ds /\ es[k] = ds[k])
            /\ ApprovedBy(es) \subseteq ApprovedBy(ds) \cup {d.actor}
<1> DEFINE es == Append(ds, d)
<1>1. /\ es \in Seq(Decision) /\ Len(es) = Len(ds) + 1 /\ Len(ds) \in Nat
      /\ \A k \in 1 .. Len(ds) : es[k] = ds[k]
      /\ es[Len(ds) + 1] = d
      /\ DOMAIN es = 1 .. Len(ds) + 1 /\ DOMAIN ds = 1 .. Len(ds)
  OBVIOUS
<1>2. \A k \in DOMAIN es : es[k] = d \/ (k \in DOMAIN ds /\ es[k] = ds[k])
  BY <1>1
<1>3. ApprovedBy(es) \subseteq ApprovedBy(ds) \cup {d.actor}
  BY <1>2 DEF ApprovedBy
<1> QED BY <1>1, <1>2, <1>3

\* A log that grows by entries keeps what it says, and ends with the new one.
LEMMA LoggedEntry ==
  ASSUME NEW log \in Seq(LogEntry), NEW e \in LogEntry
  PROVE  LET new == Append(log, e)
         IN /\ new \in Seq(LogEntry) /\ new # <<>>
            /\ new[Len(new)] = e
            /\ \E k \in DOMAIN new : new[k] = e
            /\ \A k \in DOMAIN log : k \in DOMAIN new /\ new[k] = log[k]
  OBVIOUS

\* An override stays an override when the log grows and the requester is the same.
LEMMA OverrideStays ==
  ASSUME NEW q, NEW p, p.requester = q.requester,
         NEW log \in Seq(LogEntry), NEW e \in LogEntry, Overridden(q, log)
  PROVE  Overridden(p, Append(log, e))
  BY LoggedEntry DEF Overridden

\* approve on a pending request q makes it p, approved or still pending.
LEMMA ApprovedRequest ==
  ASSUME NEW q, NEW log, SoundRequest(q, log), q.status = "pending",
         NEW actor \in Actor, actor # q.requester, q.delegates # {} => actor \in q.delegates,
         NEW p \in Request, p.requester = q.requester, p.delegates = q.delegates,
         p.decisions = Append(q.decisions, [actor |-> actor, decision |-> "approved",
                                            breakGlass |-> FALSE]),
         NEW new,
         \/ /\ p.status = "approved" /\ Cardinality(ApprovedBy(p.decisions)) >= p.required
            /\ new = log \o <<<<"APPROVED", actor>>>> \o <<<<"STATUS_APPROVED", System>>>>
         \/ /\ p.status = "pending"
            /\ new = log \o <<<<"APPROVED", actor>>>> \o <<>>
  PROVE  SoundRequest(p, new) /\ (Overridden(q, log) => Overridden(p, new))
<1> DEFINE d == [actor |-> actor, decision |-> "approved", breakGlass |-> FALSE]
           one == Append(log, <<"APPROVED", actor>>)
<1>1. q \in Request /\ log \in Seq(LogEntry) /\ Clean(q)
  BY DEF SoundRequest
<1>2. q.decisions \in Seq(Decision) /\ d \in Decision
  BY <1>1 DEF Request, Decision
<1>3. /\ \A k \in DOMAIN p.decisions :
           p.decisions[k] = d \/ (k \in DOMAIN q.decisions /\ p.decisions[k] = q.decisions[k])
      /\ ApprovedBy(p.decisions) \subseteq ApprovedBy(q.decisions) \cup {actor}
  <2> HIDE DEF d
  <2>1. p.decisions = Append(q.decisions, d) /\ d.actor = actor
    BY DEF d
  <2> DEFINE es == Append(q.decisions, d)
  <2>2. /\ \A k \in DOMAIN es : es[k] = d \/ (k \in DOMAIN q.decisions /\ es[k] = q.decisions[k])
        /\ ApprovedBy(es) \subseteq ApprovedBy(q.decisions) \cup {d.actor}
    BY <1>2, RecordedDecision
  <2>3. p.decisions = es
    BY <2>1
  <2> QED BY <2>1, <2>2, <2>3, Zenon
<1>4. Clean(p)
  <2>1. \A k \in DOMAIN p.decisions : p.decisions[k].decision = "approved"
    BY <1>1, <1>3 DEF Clean
  <2>2. \A a \in ApprovedBy(p.decisions) :
          a # p.requester /\ (p.delegates # {} => a \in p.delegates)
    BY <1>1, <1>3 DEF Clean
  <2> QED BY <2>1, <2>2 DEF Clean
<1>5. <<"APPROVED", actor>> \in LogEntry /\ <<"STATUS_APPROVED", System>> \in LogEntry
  BY DEF LogEntry, Event
<1>6. /\ one \in Seq(LogEntry) /\ one # <<>> /\ one[Len(one)] = <<"APPROVED", actor>>
      /\ Overridden(q, log) => Overridden(p, one)
  <2>1. one \in Seq(LogEntry) /\ one # <<>> /\ one[Len(one)] = <<"APPROVED", actor>>
    BY <1>1, <1>5, LoggedEntry
  <2>2. ASSUME Overridden(q, log) PROVE Overridden(p, one)
    BY <1>1, <1>5, <2>2, OverrideStays
  <2> QED BY <2>1, <2>2
<1>7. log \o <<<<"APPROVED", actor>>>> = one
  BY <1>1, <1>5, AppendIsConcat
<1>8. CASE p.status = "approved"
  <2> DEFINE two == Append(one, <<"STATUS_APPROVED", System>>)
  <2>1. one \o <<<<"STATUS_APPROVED", System>>>> = two
    BY <1>5, <1>6, AppendIsConcat
  <2>2. new = two
    BY <1>7, <1>8, <2>1
  <2>3. two \in Seq(LogEntry) /\ two # <<>> /\ two[Len(two)] = <<"STATUS_APPROVED", System>>
    BY <1>5, <1>6, LoggedEntry
  <2>4. Overridden(p, one) => Overridden(p, two)
    BY <1>5, <1>6, OverrideStays
  <2>5. Tells(two[Len(two)][1], p.status)
    BY <1>8, <2>3 DEF Tells
  <2>6. Cardinality(ApprovedBy(p.decisions)) >= p.required
    BY <1>8
  <2> QED BY <1>4, <1>6, <1>8, <2>2, <2>3, <2>4, <2>5, <2>6 DEF SoundRequest
<1>9. CASE p.status = "pending"
  <2>1. new = one
    BY <1>6, <1>7, <1>9, ConcatEmptySeq
  <2>2. Tells(one[Len(one)][1], p.status)
    BY <1>6, <1>9 DEF Tells
  <2> QED BY <1>4, <1>6, <1>9, <2>1, <2>2 DEF SoundRequest
<1> QED BY <1>8, <1>9

\* deny, break_glass and the expiry: one entry, and a status that it tells.
LEMMA ClosedRequest ==
  ASSUME NEW q, NEW log, SoundRequest(q, log), NEW e \in LogEntry, NEW p \in Request,
         p.requester = q.requester, p.status \in {"denied", "expired", "break_glass"},
         Tells(e[1], p.status), p.status = "break_glass" => e[2] # q.requester
  PROVE  /\ SoundRequest(p, Append(log, e))
         /\ Overridden(q, log) => Overridden(p, Append(log, e))
<1> DEFINE new == Append(log, e)
<1>1. log \in Seq(LogEntry)
  BY DEF SoundRequest
<1>2. /\ new \in Seq(LogEntry) /\ new # <<>> /\ new[Len(new)] = e
      /\ \E k \in DOMAIN new : new[k] = e
  BY <1>1, LoggedEntry
<1>3. p.status = "break_glass" => Overridden(p, new)
  <2> SUFFICES ASSUME p.status = "break_glass" PROVE Overridden(p, new)
    OBVIOUS
  <2>1. e[1] = "BREAK_GLASS"
    BY DEF Tells
  <2> QED BY <1>2, <2>1 DEF Overridden
<1>4. Overridden(q, log) => Overridden(p, new)
  BY <1>1, OverrideStays
<1> QED BY <1>2, <1>3, <1>4 DEF SoundRequest

-----------------------------------------------------------------------------
\* What a step may do to one request: nothing, or a sound change that leaves
\* overrides in the log, decisions to break_glass alone, and late requests closed.
Kept(r) == requests'[r] = requests[r] /\ audit'[r] = audit[r]
Moved(r) ==
  /\ SoundRequest(requests'[r], audit'[r])
  /\ Overridden(requests[r], audit[r]) => Overridden(requests'[r], audit'[r])
  /\ requests[r].status # "pending" => requests'[r].status = "break_glass"
  /\ requests[r].status = "pending" /\ r \in late =>
       requests'[r].status \in {"expired", "break_glass"}

\* All requests at once: none disappears.
Changes ==
  /\ DOMAIN requests' = DOMAIN requests /\ DOMAIN audit' = DOMAIN audit
  /\ \A r \in DOMAIN requests : Kept(r) \/ Moved(r)
  /\ requests' \in Seq(Request) /\ audit' \in Seq(Seq(LogEntry))

\* Facts about the stored request r that the cases below start from.
LEMMA RequestFacts ==
  ASSUME Inv, NEW r \in DOMAIN requests
  PROVE  /\ DOMAIN requests = 1 .. Len(requests) /\ Len(requests) \in Nat
         /\ DOMAIN audit = DOMAIN requests
         /\ requests \in Seq(Request) /\ audit \in Seq(Seq(LogEntry))
         /\ requests[r] \in Request /\ audit[r] \in Seq(LogEntry)
         /\ requests[r].decisions \in Seq(Decision)
         /\ SoundRequest(requests[r], audit[r])
<1>1. requests \in Seq(Request) /\ audit \in Seq(Seq(LogEntry)) /\ Len(audit) = Len(requests)
  BY DEF Inv, TypeOK, LogEntry
<1>2. /\ DOMAIN requests = 1 .. Len(requests) /\ Len(requests) \in Nat
      /\ DOMAIN audit = DOMAIN requests
  BY <1>1, LenProperties
<1>3. requests[r] \in Request /\ SoundRequest(requests[r], audit[r])
  BY <1>1, <1>2, ElementOfSeq DEF Inv
<1> QED BY <1>1, <1>2, <1>3 DEF SoundRequest, Request

\* A change of one request that is sound is a change of all.
LEMMA OneChanges ==
  ASSUME Inv, NEW r \in DOMAIN requests, NEW p \in Request, NEW log \in Seq(LogEntry),
         requests' = [requests EXCEPT ![r] = p], audit' = [audit EXCEPT ![r] = log],
         SoundRequest(p, log),
         Overridden(requests[r], audit[r]) => Overridden(p, log),
         requests[r].status # "pending" => p.status = "break_glass",
         requests[r].status = "pending" /\ r \in late => p.status \in {"expired", "break_glass"}
  PROVE  Changes
<1>1. /\ DOMAIN requests = 1 .. Len(requests) /\ DOMAIN audit = DOMAIN requests
      /\ requests \in Seq(Request) /\ audit \in Seq(Seq(LogEntry)) /\ r \in 1 .. Len(audit)
  BY RequestFacts, LenProperties
<1>2. requests' \in Seq(Request) /\ audit' \in Seq(Seq(LogEntry))
  BY <1>1, ExceptSeq
<1>3. requests'[r] = p /\ audit'[r] = log
  BY <1>1
<1>4. \A k \in DOMAIN requests \ {r} : Kept(k)
  BY <1>1 DEF Kept
<1>5. Moved(r)
  BY <1>3 DEF Moved
<1> QED BY <1>1, <1>2, <1>4, <1>5 DEF Changes

\* approve, as a change.
LEMMA ApproveChanges ==
  ASSUME Inv, NEW r \in DOMAIN requests, NEW actor \in Actor, Approve(r, actor)
  PROVE  Changes
<1> DEFINE q == requests[r]
           ds == Record(r, actor, "approved", FALSE)
           enough == Cardinality(ApprovedBy(ds)) >= q.required
           p == [q EXCEPT !.decisions = ds, !.status = IF enough THEN "approved" ELSE @]
           log == audit[r] \o <<<<"APPROVED", actor>>>>
                    \o (IF enough THEN <<<<"STATUS_APPROVED", System>>>> ELSE <<>>)
<1>1. /\ q \in Request /\ SoundRequest(q, audit[r]) /\ audit[r] \in Seq(LogEntry)
      /\ q.decisions \in Seq(Decision)
      /\ DOMAIN audit = DOMAIN requests
  BY RequestFacts
<1>2. /\ q.status = "pending" /\ r \notin late /\ actor # q.requester
      /\ q.delegates # {} => actor \in q.delegates
      /\ requests' = [requests EXCEPT ![r] = p] /\ audit' = [audit EXCEPT ![r] = log]
  BY DEF Approve, Active, Authorized, NotSelf
<1>3. ds \in Seq(Decision)
  <2>1. [actor |-> actor, decision |-> "approved", breakGlass |-> FALSE] \in Decision
    BY DEF Decision
  <2> QED BY <1>1, <2>1, RecordedDecision DEF Record
<1>4. /\ p \in Request /\ p.requester = q.requester /\ p.delegates = q.delegates
      /\ p.decisions = ds /\ p.required = q.required
      /\ p.status = IF enough THEN "approved" ELSE "pending"
  BY <1>1, <1>2, <1>3 DEF Request, ApprovalStatus
<1> HIDE DEF p, q, ds
<1>5. SoundRequest(p, log) /\ (Overridden(q, audit[r]) => Overridden(p, log))
  <2>1. p.decisions = Append(q.decisions, [actor |-> actor, decision |-> "approved",
                                           breakGlass |-> FALSE])
    BY <1>4 DEF ds, Record, q
  <2>2. \/ /\ p.status = "approved" /\ Cardinality(ApprovedBy(p.decisions)) >= p.required
           /\ log = audit[r] \o <<<<"APPROVED", actor>>>> \o <<<<"STATUS_APPROVED", System>>>>
        \/ /\ p.status = "pending"
           /\ log = audit[r] \o <<<<"APPROVED", actor>>>> \o <<>>
    BY <1>4
  <2> HIDE DEF log
  <2> QED BY <1>1, <1>2, <1>4, <2>1, <2>2, ApprovedRequest
<1>6. log \in Seq(LogEntry)
  BY <1>5 DEF SoundRequest
<1> HIDE DEF log
<1> QED BY <1>2, <1>4, <1>5, <1>6, OneChanges DEF q

\* deny, as a change.
LEMMA DenyChanges ==
  ASSUME Inv, NEW r \in DOMAIN requests, NEW actor \in Actor, Deny(r, actor)
  PROVE  Changes
<1> DEFINE q == requests[r]
           ds == Record(r, actor, "denied", FALSE)
           p == [q EXCEPT !.decisions = ds, !.status = "denied"]
           e == <<"DENIED", actor>>
           log == Append(audit[r], e)
<1>1. /\ q \in Request /\ SoundRequest(q, audit[r]) /\ audit[r] \in Seq(LogEntry)
      /\ q.decisions \in Seq(Decision)
      /\ DOMAIN audit = DOMAIN requests
  BY RequestFacts
<1>2. /\ q.status = "pending" /\ r \notin late
      /\ requests' = [requests EXCEPT ![r] = p] /\ audit' = [audit EXCEPT ![r] = log]
  BY DEF Deny, Active
<1>3. ds \in Seq(Decision)
  <2>1. [actor |-> actor, decision |-> "denied", breakGlass |-> FALSE] \in Decision
    BY DEF Decision
  <2> QED BY <1>1, <2>1, RecordedDecision DEF Record
<1>4. p \in Request /\ p.requester = q.requester /\ p.status = "denied"
  BY <1>1, <1>3 DEF Request, ApprovalStatus
<1>5. e \in LogEntry /\ Tells(e[1], "denied")
  BY DEF LogEntry, Event, Tells
<1> HIDE DEF p, q, ds, e
<1>6. SoundRequest(p, log) /\ (Overridden(q, audit[r]) => Overridden(p, log))
  BY <1>1, <1>4, <1>5, ClosedRequest
<1>7. log \in Seq(LogEntry)
  BY <1>6 DEF SoundRequest
<1> HIDE DEF log
<1> QED BY <1>2, <1>4, <1>6, <1>7, OneChanges DEF q

\* break_glass, as a change: the only one of a request that is no longer pending.
LEMMA BreakGlassChanges ==
  ASSUME Inv, NEW r \in DOMAIN requests, NEW actor \in Actor, BreakGlass(r, actor)
  PROVE  Changes
<1> DEFINE q == requests[r]
           ds == Record(r, actor, "approved", TRUE)
           p == [q EXCEPT !.decisions = ds, !.status = "break_glass"]
           e == <<"BREAK_GLASS", actor>>
           log == Append(audit[r], e)
<1>1. /\ q \in Request /\ SoundRequest(q, audit[r]) /\ audit[r] \in Seq(LogEntry)
      /\ q.decisions \in Seq(Decision)
      /\ DOMAIN audit = DOMAIN requests
  BY RequestFacts
<1>2. /\ actor # q.requester
      /\ requests' = [requests EXCEPT ![r] = p] /\ audit' = [audit EXCEPT ![r] = log]
  BY DEF BreakGlass, NotSelf
<1>3. ds \in Seq(Decision)
  <2>1. [actor |-> actor, decision |-> "approved", breakGlass |-> TRUE] \in Decision
    BY DEF Decision
  <2> QED BY <1>1, <2>1, RecordedDecision DEF Record
<1>4. p \in Request /\ p.requester = q.requester /\ p.status = "break_glass"
  BY <1>1, <1>3 DEF Request, ApprovalStatus
<1>5. e \in LogEntry /\ Tells(e[1], "break_glass") /\ e[2] = actor
  BY DEF LogEntry, Event, Tells
<1> HIDE DEF p, q, ds, e
<1>6. SoundRequest(p, log) /\ (Overridden(q, audit[r]) => Overridden(p, log))
  BY <1>1, <1>2, <1>4, <1>5, ClosedRequest
<1>7. log \in Seq(LogEntry)
  BY <1>6 DEF SoundRequest
<1> HIDE DEF log
<1> QED BY <1>2, <1>4, <1>6, <1>7, OneChanges DEF q

\* A pending request whose time has passed becomes an expired one, soundly.
LEMMA ExpiredRequest ==
  ASSUME Inv, NEW r \in DOMAIN requests
  PROVE  LET p == [requests[r] EXCEPT !.status = "expired"]
             log == Append(audit[r], <<"EXPIRED", System>>)
         IN /\ p \in Request /\ log \in Seq(LogEntry) /\ p.status = "expired"
            /\ SoundRequest(p, log)
            /\ Overridden(requests[r], audit[r]) => Overridden(p, log)
<1> DEFINE q == requests[r]
           p == [q EXCEPT !.status = "expired"]
           e == <<"EXPIRED", System>>
           log == Append(audit[r], e)
<1>1. q \in Request /\ SoundRequest(q, audit[r]) /\ audit[r] \in Seq(LogEntry)
  BY RequestFacts
<1>2. p \in Request /\ p.requester = q.requester /\ p.status = "expired"
  BY <1>1 DEF Request, ApprovalStatus
<1>3. e \in LogEntry /\ Tells(e[1], "expired")
  BY DEF LogEntry, Event, Tells
<1>4. SoundRequest(p, log) /\ (Overridden(q, audit[r]) => Overridden(p, log))
  <2> HIDE DEF p, q, e
  <2> QED BY <1>1, <1>2, <1>3, ClosedRequest
<1>5. log \in Seq(LogEntry)
  BY <1>4 DEF SoundRequest
<1> QED BY <1>2, <1>4, <1>5, Zenon

\* _get_active on a request past its expiry, as a change.
LEMMA ExpireChanges ==
  ASSUME Inv, NEW r \in DOMAIN requests, Expire(r)
  PROVE  Changes
<1> DEFINE p == [requests[r] EXCEPT !.status = "expired"]
           log == Append(audit[r], <<"EXPIRED", System>>)
<1>1. /\ p \in Request /\ log \in Seq(LogEntry) /\ p.status = "expired"
      /\ SoundRequest(p, log)
      /\ Overridden(requests[r], audit[r]) => Overridden(p, log)
  BY ExpiredRequest, Zenon
<1>2. /\ requests[r].status = "pending" /\ DOMAIN audit = DOMAIN requests
      /\ requests' = [requests EXCEPT ![r] = p] /\ audit' = [audit EXCEPT ![r] = log]
  BY RequestFacts DEF Expire
<1> HIDE DEF p, log
<1> QED BY <1>1, <1>2, OneChanges

\* expire_stale, as a change of many requests at once.
LEMMA ExpireStaleChanges ==
  ASSUME Inv, ExpireStale
  PROVE  Changes
<1>1. PICK r0 : r0 \in Stale
  BY DEF ExpireStale
<1>2. /\ DOMAIN requests = 1 .. Len(requests) /\ DOMAIN audit = DOMAIN requests
      /\ Len(requests) \in Nat
  BY <1>1, RequestFacts DEF Stale
<1>3. /\ DOMAIN requests' = DOMAIN requests /\ DOMAIN audit' = DOMAIN audit
  BY DEF ExpireStale
<1>4. ASSUME NEW r \in DOMAIN requests
      PROVE  /\ Kept(r) \/ Moved(r)
             /\ requests'[r] \in Request /\ audit'[r] \in Seq(LogEntry)
  <2>1. CASE r \in Stale
    <3> DEFINE p == [requests[r] EXCEPT !.status = "expired"]
               log == Append(audit[r], <<"EXPIRED", System>>)
    <3>1. /\ p \in Request /\ log \in Seq(LogEntry) /\ p.status = "expired"
          /\ SoundRequest(p, log)
          /\ Overridden(requests[r], audit[r]) => Overridden(p, log)
      BY ExpiredRequest, Zenon
    <3>2. requests'[r] = p /\ audit'[r] = log /\ requests[r].status = "pending"
      BY <1>2, <2>1 DEF ExpireStale, Stale
    <3> HIDE DEF p, log
    <3> QED BY <3>1, <3>2 DEF Moved
  <2>2. CASE r \notin Stale
    <3>1. Kept(r)
      BY <1>2, <2>2 DEF ExpireStale, Kept
    <3> QED BY <3>1, RequestFacts DEF Kept
  <2> QED BY <2>1, <2>2
<1>5. requests' \in Seq(Request) /\ audit' \in Seq(Seq(LogEntry))
  <2>1. /\ requests' = [r \in 1 .. Len(requests) |-> requests'[r]]
        /\ audit' = [r \in 1 .. Len(requests) |-> audit'[r]]
    BY <1>2 DEF ExpireStale
  <2> QED BY <1>2, <1>4, <2>1, IsASeq
<1> QED BY <1>3, <1>4, <1>5 DEF Changes

-----------------------------------------------------------------------------
\* A change of the requests keeps the invariant: what was allowed on an approved
\* request rests on it still, or on the override that followed.
LEMMA ChangesKeep ==
  ASSUME Inv, Changes, UNCHANGED <<late, granted>>
  PROVE  Inv'
<1>1. /\ requests \in Seq(Request) /\ audit \in Seq(Seq(LogEntry))
      /\ Len(audit) = Len(requests) /\ late \in SUBSET DOMAIN requests
      /\ granted \in SUBSET [action: Action, request: {NoRequest} \cup DOMAIN requests]
  BY DEF Inv, TypeOK, LogEntry
<1>2. TypeOK'
  <2>1. /\ requests' \in Seq(Request) /\ audit' \in Seq(Seq(LogEntry))
        /\ DOMAIN requests' = DOMAIN requests /\ DOMAIN audit' = DOMAIN audit
    BY DEF Changes
  <2>2. Len(audit') = Len(requests')
    BY <1>1, <2>1, LenProperties
  <2> QED BY <1>1, <2>1, <2>2 DEF TypeOK, LogEntry
<1>3. ASSUME NEW r \in DOMAIN requests
      PROVE  /\ SoundRequest(requests'[r], audit'[r])
             /\ \A action : Backs(requests[r], audit[r], action) =>
                             Backs(requests'[r], audit'[r], action)
  <2>1. CASE Kept(r)
    BY <2>1 DEF Inv, Kept
  <2>2. CASE Moved(r)
    <3>1. SoundRequest(requests'[r], audit'[r])
      BY <2>2 DEF Moved
    <3>2. requests[r].status = "approved" => Overridden(requests'[r], audit'[r])
      BY <2>2, <3>1 DEF Moved, SoundRequest
    <3> QED BY <2>2, <3>1, <3>2 DEF Moved, Backs
  <2> QED BY <2>1, <2>2 DEF Changes
<1>4. \A r \in DOMAIN requests' : SoundRequest(requests'[r], audit'[r])
  BY <1>3 DEF Changes
<1>5. ASSUME NEW g \in granted', g.request # NoRequest
      PROVE  Backs(requests'[g.request], audit'[g.request], g.action)
  <2>1. g \in granted /\ g.request \in DOMAIN requests
    BY <1>1, <1>5
  <2>2. Backs(requests[g.request], audit[g.request], g.action)
    BY <1>5, <2>1 DEF Inv
  <2> QED BY <1>3, <2>1, <2>2
<1> QED BY <1>2, <1>4, <1>5 DEF Inv

\* create_request, for a required number of approvers that is a natural number.
LEMMA CreateKeeps ==
  ASSUME Inv, NEW action \in Action, NEW actor \in Actor, NEW required \in Nat,
         NEW delegates \in SUBSET Actor, CreateRequest(action, actor, required, delegates)
  PROVE  /\ Inv'
         /\ \A r \in DOMAIN requests : requests'[r] = requests[r]
<1> DEFINE p == [action |-> action, requester |-> actor, required |-> required,
                 delegates |-> delegates, status |-> "pending", decisions |-> <<>>]
           e == <<"CREATED", actor>>
           n == Len(requests) + 1
<1>1. /\ requests \in Seq(Request) /\ audit \in Seq(Seq(LogEntry))
      /\ Len(audit) = Len(requests) /\ late \in SUBSET DOMAIN requests
      /\ granted \in SUBSET [action: Action, request: {NoRequest} \cup DOMAIN requests]
      /\ late' = late /\ granted' = granted
  BY DEF Inv, TypeOK, LogEntry, CreateRequest
<1>2. /\ p \in Request /\ p.status = "pending" /\ p.decisions = <<>>
  <2>1. <<>> \in Seq(Decision)
    OBVIOUS
  <2> QED BY <2>1 DEF Request, ApprovalStatus
<1>3. /\ e \in LogEntry /\ <<e>> \in Seq(LogEntry) /\ <<e>> # <<>>
      /\ Len(<<e>>) = 1 /\ <<e>>[1] = e
  BY DEF LogEntry, Event
<1>4. SoundRequest(p, <<e>>)
  <2>1. ApprovedBy(<<>>) = {} /\ DOMAIN <<>> = {}
    BY DEF ApprovedBy
  <2>2. Clean(p)
    BY <1>2, <2>1, Zenon DEF Clean
  <2>3. Tells(e[1], "pending")
    BY DEF Tells
  <2> HIDE DEF p, e
  <2> QED BY <1>2, <1>3, <2>2, <2>3 DEF SoundRequest
<1>5. requests' = Append(requests, p) /\ audit' = Append(audit, <<e>>)
  BY DEF CreateRequest
<1> HIDE DEF p, e
<1>6. /\ requests' \in Seq(Request) /\ Len(requests') = n /\ DOMAIN requests' = 1 .. n
      /\ requests'[n] = p /\ \A r \in 1 .. Len(requests) : requests'[r] = requests[r]
      /\ DOMAIN requests = 1 .. Len(requests) /\ Len(requests) \in Nat
  BY <1>1, <1>2, <1>5
<1>7. /\ audit' \in Seq(Seq(LogEntry)) /\ Len(audit') = n
      /\ audit'[n] = <<e>> /\ \A r \in 1 .. Len(requests) : audit'[r] = audit[r]
  BY <1>1, <1>3, <1>5
<1>8. TypeOK'
  BY <1>1, <1>6, <1>7 DEF TypeOK, LogEntry
<1>9. ASSUME NEW r \in DOMAIN requests' PROVE SoundRequest(requests'[r], audit'[r])
  <2>1. CASE r = n
    BY <1>4, <1>6, <1>7, <2>1
  <2>2. CASE r \in DOMAIN requests
    BY <1>6, <1>7, <2>2 DEF Inv
  <2> QED BY <1>6, <2>1, <2>2
<1>10. ASSUME NEW g \in granted', g.request # NoRequest
       PROVE  Backs(requests'[g.request], audit'[g.request], g.action)
  <2>1. g \in granted /\ g.request \in DOMAIN requests
    BY <1>1, <1>10
  <2>2. Backs(requests[g.request], audit[g.request], g.action)
    BY <1>10, <2>1 DEF Inv
  <2> QED BY <1>6, <1>7, <2>1, <2>2
<1> QED BY <1>6, <1>8, <1>9, <1>10 DEF Inv

\* evaluate: what is allowed on a cited request rests on it.
LEMMA AllowKeeps ==
  ASSUME Inv, NEW action \in Action, NEW r \in {NoRequest} \cup DOMAIN requests,
         r # NoRequest => Cites(r, action),
         granted' = granted \cup {[action |-> action, request |-> r]},
         UNCHANGED <<requests, late, audit>>
  PROVE  Inv'
<1> DEFINE g0 == [action |-> action, request |-> r]
<1>1. g0 \in [action: Action, request: {NoRequest} \cup DOMAIN requests]
  OBVIOUS
<1>2. TypeOK'
  BY <1>1 DEF Inv, TypeOK
<1>3. r # NoRequest => Backs(requests[r], audit[r], action)
  <2> SUFFICES ASSUME r # NoRequest, r \in DOMAIN requests
               PROVE  Backs(requests[r], audit[r], action)
    OBVIOUS
  <2>1. SoundRequest(requests[r], audit[r])
    BY DEF Inv
  <2> QED BY <2>1 DEF Cites, Backs, SoundRequest
<1>4. \A g \in granted' : g.request # NoRequest =>
                           Backs(requests[g.request], audit[g.request], g.action)
  BY <1>3 DEF Inv
<1> QED BY <1>2, <1>4 DEF Inv

\* What one step may do to the requests that exist.
Final ==
  \A r \in DOMAIN requests :
    /\ requests[r].status # "pending" =>
         requests'[r].status \in {requests[r].status, "break_glass"}
    /\ requests[r].status = "pending" /\ r \in late =>
         requests'[r].status \in {"pending", "expired", "break_glass"}

\* One step keeps the invariant and the decisions that were made.
LEMMA NextInv ==
  ASSUME Inv, [Next]_vars
  PROVE  Inv' /\ Final
<1>1. ASSUME Changes, UNCHANGED <<late, granted>> PROVE Inv' /\ Final
  <2>1. Inv'
    BY <1>1, ChangesKeep
  <2>2. Final
    BY <1>1 DEF Changes, Kept, Moved, Final
  <2> QED BY <2>1, <2>2
<1>2. ASSUME NEW action \in Action, NEW actor \in Actor, NEW required \in Nat,
             NEW delegates \in SUBSET Actor, CreateRequest(action, actor, required, delegates)
      PROVE  Inv' /\ Final
  BY <1>2, CreateKeeps DEF Final
<1>3. CASE \E action \in Action, actor \in Actor, required \in {1, 2} :
             CreateRequest(action, actor, required, Delegates)
  BY <1>2, <1>3, PolicyAssumption
<1>4. CASE \E action \in Action, actor \in Actor : EvaluateAsk(action, actor)
  <2>1. PICK action \in Action, actor \in Actor : EvaluateAsk(action, actor)
    BY <1>4
  <2> DEFINE rule == RuleApprovers[action]
             tier == TierApprovers[Tier[action]]
  <2>2. rule \in Nat /\ tier \in Nat
    BY PolicyAssumption DEF TierApprovers
  <2>3. CreateRequest(action, actor, IF rule > tier THEN rule ELSE tier, {})
    BY <2>1 DEF EvaluateAsk
  <2>4. (IF rule > tier THEN rule ELSE tier) \in Nat
    BY <2>2
  <2> QED BY <1>2, <2>3, <2>4
<1>5. CASE \E action \in Action : EvaluatePermit(action)
  BY <1>5, AllowKeeps DEF EvaluatePermit, Final
<1>6. CASE \E action \in Action : \E r \in DOMAIN requests : EvaluateAllow(action, r)
  BY <1>6, AllowKeeps DEF EvaluateAllow, Final
<1>7. CASE \E r \in DOMAIN requests : Expire(r)
  BY <1>1, <1>7, ExpireChanges DEF Expire
<1>8. CASE \E r \in DOMAIN requests : TimePasses(r)
  BY <1>8 DEF TimePasses, Inv, TypeOK, Final
<1>9. CASE \E r \in DOMAIN requests, actor \in Actor : Approve(r, actor)
  BY <1>1, <1>9, ApproveChanges DEF Approve
<1>10. CASE \E r \in DOMAIN requests, actor \in Actor : Deny(r, actor)
  BY <1>1, <1>10, DenyChanges DEF Deny
<1>11. CASE \E r \in DOMAIN requests, actor \in Actor : BreakGlass(r, actor)
  BY <1>1, <1>11, BreakGlassChanges DEF BreakGlass
<1>12. CASE ExpireStale
  BY <1>1, <1>12, ExpireStaleChanges DEF ExpireStale
<1>13. CASE UNCHANGED vars
  BY <1>13 DEF vars, Inv, TypeOK, Final
<1> QED BY <1>3, <1>4, <1>5, <1>6, <1>7, <1>8, <1>9, <1>10, <1>11, <1>12, <1>13 DEF Next

LEMMA InitInv == Init => Inv
  BY DEF Init, Inv, TypeOK, LogEntry

LEMMA InvHolds == Spec => []Inv
  BY InitInv, NextInv, PTL DEF Spec

-----------------------------------------------------------------------------
\* approvals.py, approve/deny/break_glass: in every behaviour, an approved request
\* was approved by as many distinct, authorised others as it requires and denied by
\* nobody, and the last event of its log tells its status.
THEOREM ApprovalsHold == Spec => []ApprovalsAreSound
<1>1. Inv => ApprovalsAreSound
  <2> SUFFICES ASSUME Inv PROVE ApprovalsAreSound
    OBVIOUS
  <2>1. ASSUME NEW r \in DOMAIN requests PROVE SoundRequest(requests[r], audit[r])
    BY DEF Inv
  <2>2. ApprovedByEnough
    BY <2>1 DEF ApprovedByEnough, SoundRequest, Clean, Authorized
  <2>3. AuditTellsStatus
    BY <2>1 DEF AuditTellsStatus, SoundRequest, Tells
  <2> QED BY <2>2, <2>3 DEF Inv, ApprovalsAreSound
<1> QED BY <1>1, InvHolds, PTL

\* engine.py, evaluate: in every behaviour, an action allowed on a request rests on
\* enough approvals by others, or on an override by somebody else that the log shows.
THEOREM AllowsAreBacked == Spec => []AllowIsBacked
<1>1. Inv => AllowIsBacked
  <2> SUFFICES ASSUME Inv, NEW g \in granted, g.request # NoRequest
               PROVE  LET q == requests[g.request]
                      IN \/ q.status = "approved" /\ q.action = g.action
                            /\ Cardinality(ApprovedBy(q.decisions) \ {q.requester}) >= q.required
                         \/ \E k \in DOMAIN audit[g.request] :
                              /\ audit[g.request][k][1] = "BREAK_GLASS"
                              /\ audit[g.request][k][2] # q.requester
    BY DEF AllowIsBacked
  <2> DEFINE q == requests[g.request]
  <2>1. Backs(q, audit[g.request], g.action) /\ g.request \in DOMAIN requests
    BY DEF Inv, TypeOK
  <2>2. SoundRequest(q, audit[g.request])
    BY <2>1 DEF Inv
  <2>3. CASE q.status = "approved" /\ q.action = g.action
    <3>1. Cardinality(ApprovedBy(q.decisions)) >= q.required /\ Clean(q)
      BY <2>2, <2>3 DEF SoundRequest
    <3>2. ApprovedBy(q.decisions) \ {q.requester} = ApprovedBy(q.decisions)
      BY <3>1 DEF Clean
    <3> QED BY <2>3, <3>1, <3>2
  <2>4. CASE Overridden(q, audit[g.request])
    BY <2>4 DEF Overridden
  <2> QED BY <2>1, <2>3, <2>4 DEF Backs
<1> QED BY <1>1, InvHolds, PTL

\* approvals.py: in every behaviour, only breaking the glass changes a decision
\* that was made, and a request past its expiry is never approved or denied.
THEOREM DecisionsAreFinal == Spec => DecisionsStand
<1>1. Inv /\ [Next]_vars => [Final]_vars
  BY NextInv
<1>2. Spec => [][Final]_vars
  BY <1>1, InvHolds, PTL DEF Spec
<1> QED BY <1>2 DEF DecisionsStand, Final
=============================================================================
