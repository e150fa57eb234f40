-------------------------- MODULE TransparencyStore --------------------------
(***************************************************************************)
(* The transparency ledger (packages/ledger/src/store.py).  Every process  *)
(* has its own store object on one SQLite file; the recovery engine and    *)
(* the certificate witness (packages/ledger/src/witness.py) append to it.  *)
(*                                                                         *)
(* sqlite3 opens its EXCLUSIVE transaction at the first statement that     *)
(* writes: the SELECT that reads the head runs before it, so an append is  *)
(* two steps, and only the primary key stands between two appends that     *)
(* have read the same head.                                                *)
(***************************************************************************)
EXTENDS Integers, FiniteSets, TLAPS

CONSTANTS
  Process, Payload,
  Genesis,     \* "GENESIS-DGX-LEDGER-V1"
  MaxEntries   \* bound on the entries of the ledger

ASSUME BoundAssumption == MaxEntries \in Nat

VARIABLES
  ledger,   \* the rows of the table
  append,   \* the row a process is about to insert: {} or {row}
  acked     \* history: the rows whose append returned to its caller

vars == <<ledger, append, acked>>

\* compute_entry_hash: SHA-256 over length-prefixed fields, so free of
\* collisions; the hash of an entry is the tuple of what it covers.
EntryHash(n, prev, payload) == <<n, prev, payload>>

NewRow(n, prev, payload) ==
  [seq |-> n, prev |-> prev, payload |-> payload, hash |-> EntryHash(n, prev, payload)]

Init == ledger = {} /\ append = [w \in Process |-> {}] /\ acked = {}

-----------------------------------------------------------------------------
\* ORDER BY sequence_number DESC LIMIT 1
IsLast(r) == r \in ledger /\ \A s \in ledger : s.seq <= r.seq

\* append, first half: the SELECT, and the row computed from what it read.
ReadHead(w, payload) ==
  /\ append[w] = {}
  /\ \/ ledger = {} /\ append' = [append EXCEPT ![w] = {NewRow(0, Genesis, payload)}]
     \/ \E r \in ledger :
          /\ IsLast(r) /\ r.seq + 1 < MaxEntries
          /\ append' = [append EXCEPT ![w] = {NewRow(r.seq + 1, r.hash, payload)}]
  /\ UNCHANGED <<ledger, acked>>

\* Mutant: no primary key on sequence_number.
InsertAnywhere(w, row) ==
  /\ append[w] = {row}
  /\ ledger' = ledger \cup {row}
  /\ acked' \in {acked, acked \cup {row}}
  /\ append' = [append EXCEPT ![w] = {}]

\* Mutant: INSERT OR REPLACE.
InsertOrReplace(w, row) ==
  /\ append[w] = {row}
  /\ ledger' = {r \in ledger : r.seq # row.seq} \cup {row}
  /\ acked' \in {acked, acked \cup {row}}
  /\ append' = [append EXCEPT ![w] = {}]

\* append, second half: the INSERT and its commit.  The process may die after
\* the commit and before its caller hears of it.
Insert(w, row) ==
  /\ append[w] = {row}
  /\ \A r \in ledger : r.seq # row.seq /\ r.hash # row.hash
  /\ ledger' = ledger \cup {row}
  /\ acked' \in {acked, acked \cup {row}}
  /\ append' = [append EXCEPT ![w] = {}]

\* LedgerIntegrityError, a locked database, or a crash before the commit.
Abort(w) ==
  /\ append[w] # {}
  /\ append' = [append EXCEPT ![w] = {}]
  /\ UNCHANGED <<ledger, acked>>

Next ==
  \E w \in Process :
    \/ \E payload \in Payload : ReadHead(w, payload)
    \/ \E row \in append[w] : Insert(w, row)
    \/ Abort(w)

Spec == Init /\ [][Next]_vars

-----------------------------------------------------------------------------
\* The walk of verify_full_chain: rows in the order of their sequence numbers,
\* without a gap, each naming its predecessor and carrying its own hash.
VerifyFullChain ==
  \A r \in ledger :
    /\ r.hash = EntryHash(r.seq, r.prev, r.payload)
    /\ IF r.seq = 0 THEN r.prev = Genesis
       ELSE \E q \in ledger : q.seq = r.seq - 1 /\ r.prev = q.hash
    /\ \A q \in ledger : q.seq = r.seq => q = r

IsRow(r) == r.seq \in Nat /\ r.payload \in Payload /\ r = NewRow(r.seq, r.prev, r.payload)

\* Type invariant.
TypeOK ==
  /\ \A r \in ledger \cup acked : IsRow(r)
  /\ DOMAIN append = Process
  /\ \A w \in Process : append[w] = {} \/ \E row \in append[w] : append[w] = {row} /\ IsRow(row)

\* verify_full_chain never reports tampering that did not happen: whatever the
\* processes interleave, lose and abort, the table is one chain from genesis.
LedgerIsOneChain == VerifyFullChain

\* append: what returned to its caller is in the ledger, under the sequence number
\* it was told, and stays there: no other process takes its place.
AckedIsWitnessed == acked \subseteq ledger

-----------------------------------------------------------------------------
(***************************************************************************)
(* Proofs: the ledger is one chain, for any processes and payloads.        *)
(*                                                                         *)
(* VerifyFullChain alone is not inductive: a row is computed from a head   *)
(* that may be out of date when the row is inserted.  What saves the chain *)
(* is that a pending row names a predecessor that is in the table and will *)
(* stay there (PendingIsLinked), while the primary key leaves its sequence *)
(* number to one of the rows that compete for it.                          *)
(***************************************************************************)

\* What a row names as its predecessor is in the ledger, one position before it.
Linked(r) ==
  IF r.seq = 0 THEN r.prev = Genesis
  ELSE \E q \in ledger : q.seq = r.seq - 1 /\ r.prev = q.hash

PendingIsLinked == \A w \in Process : \A row \in append[w] : Linked(row)
Inv == TypeOK /\ LedgerIsOneChain /\ PendingIsLinked /\ AckedIsWitnessed

\* A row made by append has the fields it was made from.
LEMMA NewRowIsRow ==
  ASSUME NEW n \in Nat, NEW prev, NEW payload \in Payload
  PROVE  LET r == NewRow(n, prev, payload)
         IN IsRow(r) /\ r.seq = n /\ r.prev = prev /\ r.hash = EntryHash(n, prev, payload)
  BY DEF NewRow, IsRow

\* The empty ledger satisfies the invariant.
LEMMA InitInv == Init => Inv
  BY DEF Init, Inv, TypeOK, LedgerIsOneChain, VerifyFullChain, PendingIsLinked, AckedIsWitnessed

\* Every step of append keeps the invariant.
LEMMA NextInv == Inv /\ [Next]_vars => Inv'
<1> SUFFICES ASSUME Inv, [Next]_vars PROVE Inv'
  OBVIOUS
<1> USE DEF Inv
<1>1. CASE UNCHANGED vars
  BY <1>1 DEF vars, TypeOK, LedgerIsOneChain, VerifyFullChain, PendingIsLinked, Linked,
     AckedIsWitnessed, IsRow, NewRow, EntryHash
<1>2. ASSUME NEW w \in Process, NEW payload \in Payload, ReadHead(w, payload) PROVE Inv'
  <2>1. /\ ledger' = ledger /\ acked' = acked /\ DOMAIN append' = Process
        /\ \A v \in Process \ {w} : append'[v] = append[v]
    BY <1>2 DEF ReadHead, TypeOK
  <2>2. PICK row : append'[w] = {row} /\ IsRow(row) /\ Linked(row)
    <3>1. CASE ledger = {} /\ append' = [append EXCEPT ![w] = {NewRow(0, Genesis, payload)}]
      BY <3>1, NewRowIsRow DEF TypeOK, Linked
    <3>2. ASSUME NEW r \in ledger,
                 append' = [append EXCEPT ![w] = {NewRow(r.seq + 1, r.hash, payload)}]
          PROVE  \E row : append'[w] = {row} /\ IsRow(row) /\ Linked(row)
      <4>1. r.seq \in Nat
        BY DEF TypeOK, IsRow
      <4> DEFINE row == NewRow(r.seq + 1, r.hash, payload)
      <4>2. IsRow(row) /\ row.seq = r.seq + 1 /\ row.prev = r.hash
        BY <4>1, NewRowIsRow
      <4>3. Linked(row)
        BY <4>1, <4>2 DEF Linked
      <4>4. append'[w] = {row}
        BY <3>2 DEF TypeOK
      <4> QED
        BY <4>2, <4>3, <4>4
    <3> QED
      BY <1>2, <3>1, <3>2 DEF ReadHead
  <2>3. TypeOK'
    BY <2>1, <2>2 DEF TypeOK, IsRow, NewRow, EntryHash
  <2>4. PendingIsLinked'
    <3> SUFFICES ASSUME NEW v \in Process, NEW x \in append'[v] PROVE Linked(x)'
      BY DEF PendingIsLinked
    <3>1. Linked(x)
      BY <2>1, <2>2 DEF PendingIsLinked
    <3> QED
      BY <2>1, <3>1 DEF Linked
  <2>5. LedgerIsOneChain' /\ AckedIsWitnessed'
    BY <2>1 DEF LedgerIsOneChain, VerifyFullChain, AckedIsWitnessed, EntryHash
  <2> QED
    BY <2>3, <2>4, <2>5
<1>3. ASSUME NEW w \in Process, NEW row \in append[w], Insert(w, row) PROVE Inv'
  <2>1. /\ ledger' = ledger \cup {row} /\ acked' \subseteq acked \cup {row}
        /\ append' = [append EXCEPT ![w] = {}]
        /\ \A r \in ledger : r.seq # row.seq
    BY <1>3 DEF Insert
  <2>2. IsRow(row) /\ Linked(row)
    BY DEF TypeOK, PendingIsLinked
  <2>3. /\ DOMAIN append' = Process
        /\ append'[w] = {} /\ \A v \in Process \ {w} : append'[v] = append[v]
    BY <2>1 DEF TypeOK
  <2>4. TypeOK'
    BY <2>1, <2>2, <2>3 DEF TypeOK, IsRow, NewRow, EntryHash
  <2>5. ASSUME NEW r, Linked(r) PROVE Linked(r)'
    BY <2>1, <2>5 DEF Linked
  <2>6. PendingIsLinked'
    BY <2>3, <2>5 DEF PendingIsLinked
  <2>7. LedgerIsOneChain'
    <3> SUFFICES ASSUME NEW r \in ledger'
                 PROVE  /\ r.hash = EntryHash(r.seq, r.prev, r.payload)
                        /\ Linked(r)'
                        /\ \A q \in ledger' : q.seq = r.seq => q = r
      BY DEF LedgerIsOneChain, VerifyFullChain, Linked, EntryHash
    <3>1. r.hash = EntryHash(r.seq, r.prev, r.payload)
      BY <2>4 DEF TypeOK, IsRow, NewRow, EntryHash
    <3>2. Linked(r)
      BY <2>1, <2>2 DEF LedgerIsOneChain, VerifyFullChain, Linked
    <3>3. \A q \in ledger' : q.seq = r.seq => q = r
      BY <2>1 DEF LedgerIsOneChain, VerifyFullChain
    <3> QED
      BY <3>1, <3>2, <3>3, <2>5
  <2>8. AckedIsWitnessed'
    BY <2>1 DEF AckedIsWitnessed
  <2> QED
    BY <2>4, <2>6, <2>7, <2>8
<1>4. ASSUME NEW w \in Process, Abort(w) PROVE Inv'
  <2>1. /\ ledger' = ledger /\ acked' = acked /\ DOMAIN append' = Process
        /\ append'[w] = {} /\ \A v \in Process \ {w} : append'[v] = append[v]
    BY <1>4 DEF Abort, TypeOK
  <2>2. TypeOK'
    BY <2>1 DEF TypeOK, IsRow, NewRow, EntryHash
  <2>3. LedgerIsOneChain' /\ AckedIsWitnessed'
    BY <2>1 DEF LedgerIsOneChain, VerifyFullChain, AckedIsWitnessed, EntryHash
  <2>4. PendingIsLinked'
    BY <2>1 DEF PendingIsLinked, Linked
  <2> QED
    BY <2>2, <2>3, <2>4
<1> QED
  BY <1>1, <1>2, <1>3, <1>4 DEF Next

\* verify_full_chain finds one unbroken chain in every reachable ledger, for any
\* number of processes that append, abort and die.
THEOREM ChainIsUnbroken == Spec => []LedgerIsOneChain
<1>1. Inv => LedgerIsOneChain
  BY DEF Inv
<1> QED
  BY InitInv, NextInv, <1>1, PTL DEF Spec

\* What an append returned to its caller is in the ledger from then on.
THEOREM AppendsAreKept == Spec => []AckedIsWitnessed
<1>1. Inv => AckedIsWitnessed
  BY DEF Inv
<1> QED
  BY InitInv, NextInv, <1>1, PTL DEF Spec
=============================================================================
