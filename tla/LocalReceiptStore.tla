-------------------------- MODULE LocalReceiptStore --------------------------
(***************************************************************************)
(* The SQLite receipt store of development and test                        *)
(* (packages/replay/src/admission_store.py) and the receipt object with    *)
(* its in-memory reservation (admission_receipt.py).  Module               *)
(* AdmissionStore is its PostgreSQL replacement, "with the same transition *)
(* contract": both implement SingleUseGrant.                               *)
(*                                                                         *)
(* Every operation is one BEGIN IMMEDIATE transaction, so an action.  The  *)
(* hash of an audit event is modelled by what it covers: the event's type, *)
(* its number and the hash before it.                                      *)
(***************************************************************************)
EXTENDS Naturals, Sequences

CONSTANTS
  LReceipt,    \* receipts
  MaxRefusals  \* refused verifications of one receipt

ASSUME LocalStoreAssumption == MaxRefusals \in Nat

VARIABLES
  row,          \* admission_receipts: the status, "ABSENT" before the insert
  trail,        \* admission_audit_events: [seq, type, prev, hash], in their order
  attestedRow,  \* receipts with a row of admission_execution_attestations
  refusals,     \* refused verifications so far
  object,       \* the receipt object of the process that issued it: its status
  reservation,  \* its ResourceReservation: "none", "open", "committed", "released"
  tampered      \* what was done to the trail behind the store's back

lrvars == <<row, trail, attestedRow, refusals, object, reservation, tampered>>
storedVars == <<row, trail, attestedRow, refusals, tampered>>
objectVars == <<object, reservation>>
NoHash == <<>>
OpenStatus == {"ISSUED", "VERIFIED"}

LRInit ==
  /\ row = [r \in LReceipt |-> "ABSENT"] /\ trail = [r \in LReceipt |-> <<>>]
  /\ attestedRow = {} /\ refusals = [r \in LReceipt |-> 0]
  /\ object = [r \in LReceipt |-> "ABSENT"] /\ reservation = [r \in LReceipt |-> "none"]
  /\ tampered = [r \in LReceipt |-> "no"]
-----------------------------------------------------------------------------
(* The audit trail                                                         *)
EventHash(n, type, prev) == <<n, type, prev>>

\* _append_event: numbered and chained after the last event that is there.
WithEvent(s, type) ==
  LET n == IF s = <<>> THEN 1 ELSE s[Len(s)].seq + 1
      prev == IF s = <<>> THEN NoHash ELSE s[Len(s)].hash
  IN Append(s, [seq |-> n, type |-> type, prev |-> prev, hash |-> EventHash(n, type, prev)])
AppendEvent(r, type) == trail' = [trail EXCEPT ![r] = WithEvent(@, type)]

\* verify_event_chain
TrailVerifies(s) ==
  /\ s # <<>>
  /\ \A i \in DOMAIN s :
       /\ s[i].seq = i /\ s[i].prev = IF i = 1 THEN NoHash ELSE s[i - 1].hash
       /\ s[i].hash = EventHash(s[i].seq, s[i].type, s[i].prev)

\* Somebody changes or deletes an event in the file.
TamperEvent(r) ==
  /\ tampered[r] = "no" /\ Len(trail[r]) > 1
  /\ \E i \in DOMAIN trail[r] :
       \/ /\ trail' = [trail EXCEPT ![r][i].type = "CONSUME"] /\ trail[r][i].type # "CONSUME"
          /\ tampered' = [tampered EXCEPT ![r] = "altered"]
       \/ /\ trail' = [trail EXCEPT ![r] = SubSeq(@, 1, i - 1) \o SubSeq(@, i + 1, Len(@))]
          /\ tampered' = [tampered EXCEPT ![r] = IF i = Len(trail[r]) THEN "cut" ELSE "removed"]
  /\ UNCHANGED <<row, attestedRow, refusals, objectVars>>
-----------------------------------------------------------------------------
(* The store                                                               *)

\* issue: a receipt that is there already is answered or refused, unchanged.
IssueRow(r) ==
  /\ object[r] # "ABSENT" /\ row[r] = "ABSENT"
  /\ row' = [row EXCEPT ![r] = "ISSUED"] /\ AppendEvent(r, "ISSUE")
  /\ UNCHANGED <<attestedRow, refusals, tampered, objectVars>>

ClaimRow(r) ==
  /\ row[r] = "ISSUED" /\ row' = [row EXCEPT ![r] = "VERIFIED"] /\ AppendEvent(r, "VERIFY")
  /\ UNCHANGED <<attestedRow, refusals, tampered, objectVars>>

\* verify refuses a bad signature, a receipt that is not ISSUED, an expired one, a
\* binding that differs or is incomplete, evidence above the ceiling. An unclaimed
\* receipt ends there, a claimed one does not.
Refuse(r) ==
  /\ row[r] # "ABSENT" /\ refusals[r] < MaxRefusals
  /\ refusals' = [refusals EXCEPT ![r] = @ + 1]
  /\ \E why \in {"SIGNATURE_REFUSAL", "MISMATCH_REFUSAL"}, expired \in BOOLEAN :
       /\ why = "SIGNATURE_REFUSAL" => ~expired
       /\ IF row[r] = "ISSUED"
            THEN /\ row' = [row EXCEPT ![r] = IF expired THEN "EXPIRED" ELSE "VOIDED"]
                 /\ trail' = [trail EXCEPT ![r] = WithEvent(WithEvent(@, why), IF expired THEN "EXPIRE" ELSE "VOID")]
            ELSE /\ ~expired /\ UNCHANGED row /\ AppendEvent(r, why)
  /\ UNCHANGED <<attestedRow, tampered, objectVars>>

\* Mutant of SettleRow: one rule for all targets.
SettleRowOpen(r, target, event) ==
  /\ row[r] \in OpenStatus /\ row' = [row EXCEPT ![r] = target] /\ AppendEvent(r, event)
  /\ UNCHANGED <<attestedRow, refusals, tampered, objectVars>>

\* _terminal_transition: from a status that is not allowed it does nothing.
SettleRow(r, target, event) ==
  /\ row[r] \in (IF target = "CONSUMED" THEN {"VERIFIED"} ELSE OpenStatus)
  /\ row' = [row EXCEPT ![r] = target] /\ AppendEvent(r, event)
  /\ UNCHANGED <<attestedRow, refusals, tampered, objectVars>>

\* record_attestation: its row is unique; a second one is rolled back.
RecordAttestation(r) ==
  /\ row[r] = "VERIFIED" /\ r \notin attestedRow
  /\ attestedRow' = attestedRow \cup {r} /\ AppendEvent(r, "ATTEST")
  /\ UNCHANGED <<row, refusals, tampered, objectVars>>
-----------------------------------------------------------------------------
(* The receipt object of the issuing process                               *)

\* issue: the reservation is made before the receipt is stored, or it raises.
IssueObject(r) ==
  /\ object[r] = "ABSENT" /\ object' = [object EXCEPT ![r] = "ISSUED"]
  /\ reservation' = [reservation EXCEPT ![r] = "open"] /\ UNCHANGED storedVars

MarkVerified(r) ==
  /\ object[r] = "ISSUED" /\ object' = [object EXCEPT ![r] = "VERIFIED"] /\ UNCHANGED <<reservation, storedVars>>

\* commit: from ISSUED too, where the store wants VERIFIED.
CommitObject(r) ==
  /\ object[r] \in OpenStatus /\ object' = [object EXCEPT ![r] = "CONSUMED"]
  /\ reservation' = [reservation EXCEPT ![r] = "committed"] /\ UNCHANGED storedVars

ReleaseObject(r) ==
  /\ object[r] \in OpenStatus /\ object' = [object EXCEPT ![r] = "RELEASED"]
  /\ reservation' = [reservation EXCEPT ![r] = "released"] /\ UNCHANGED storedVars

\* void, also by a verify_binding that finds the receipt expired: a claimed
\* object is left alone.
VoidObject(r) ==
  /\ object[r] = "ISSUED" /\ object' = [object EXCEPT ![r] = "VOIDED"]
  /\ reservation' = [reservation EXCEPT ![r] = "released"] /\ UNCHANGED storedVars

LRNext ==
  \E r \in LReceipt :
    \/ IssueRow(r) \/ ClaimRow(r) \/ Refuse(r) \/ RecordAttestation(r) \/ TamperEvent(r)
    \/ SettleRow(r, "CONSUMED", "CONSUME") \/ SettleRow(r, "RELEASED", "RELEASE") \/ SettleRow(r, "VOIDED", "VOID")
    \/ IssueObject(r) \/ MarkVerified(r) \/ CommitObject(r) \/ ReleaseObject(r) \/ VoidObject(r)
LRSpec == LRInit /\ [][LRNext]_lrvars
-----------------------------------------------------------------------------
LifecycleEvent(s) ==
  CASE s = "ISSUED" -> {"ISSUE"} [] s = "VERIFIED" -> {"VERIFY", "ATTEST"} [] s = "CONSUMED" -> {"CONSUME"}
    [] s = "RELEASED" -> {"RELEASE"} [] s = "VOIDED" -> {"VOID"} [] OTHER -> {"EXPIRE"}
RefusalEvent == {"SIGNATURE_REFUSAL", "MISMATCH_REFUSAL"}

\* The last event of a receipt that is no refusal tells its status, whatever late
\* and duplicate verifications left in between.
TrailTellsRow ==
  \A r \in LReceipt : (tampered[r] = "no" /\ row[r] # "ABSENT") =>
    \E i \in DOMAIN trail[r] :
      /\ trail[r][i].type \in LifecycleEvent(row[r])
      /\ \A j \in i + 1 .. Len(trail[r]) : trail[r][j].type \in RefusalEvent

\* verify_event_chain finds an event that was altered, and a gap, also after the
\* store appended to the trail; events cut off the end are not missed.
ChainFindsTampering ==
  \A r \in LReceipt : row[r] # "ABSENT" =>
    (TrailVerifies(trail[r]) <=> tampered[r] \in {"no", "cut"})

\* Capacity is reserved exactly as long as the receipt object is open, and
\* spent exactly if it was consumed.
ReservationFollowsObject ==
  \A r \in LReceipt :
    /\ reservation[r] = "open" <=> object[r] \in OpenStatus
    /\ reservation[r] = "committed" <=> object[r] = "CONSUMED"

LocalGrantOf(s) ==
  CASE s = "ABSENT" -> "none" [] s = "ISSUED" -> "open" [] s = "VERIFIED" -> "held"
    [] s = "CONSUMED" -> "used" [] OTHER -> "closed"
LocalGrants == INSTANCE SingleUseGrant WITH
  Receipt <- LReceipt, Pool <- {"local"}, Budget <- 0, NoCharge <- 0,
  grant <- [r \in LReceipt |-> LocalGrantOf(row[r])],
  charge <- [r \in LReceipt |-> IF row[r] = "ABSENT" THEN 0 ELSE [pool |-> "local", cost |-> 0]]

\* The SQLite store gives a receipt one holder and one use, as its PostgreSQL
\* replacement does (admission_store.py:7, "the same transition contract").
LocalImplementsGrant == LocalGrants!GSpec
=============================================================================
