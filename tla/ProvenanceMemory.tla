--------------------------- MODULE ProvenanceMemory ---------------------------
(***************************************************************************)
(* The provenance memory store (packages/memory/src/store.py) and its      *)
(* signed capabilities (capabilities.py, auth.py).  Every process has its  *)
(* own partitions in memory, a lock around its operations and its own set  *)
(* of revoked capabilities; the quarantine state and the chained audit log *)
(* are in one SQLite file, the revocations in one append-only file.        *)
(*                                                                         *)
(* sqlite3 begins a transaction at the first INSERT or UPDATE: the SELECT  *)
(* of the last audit hash is outside of it.  The model has one partition   *)
(* of one tenant; an audit event's hash is its position in the log.        *)
(***************************************************************************)
EXTENDS Naturals, Sequences, FiniteSets

CONSTANTS
  Proc,        \* processes with a store on the same files
  Right,       \* the rights whose capability may be revoked
  MaxLog,      \* audit events
  MaxCrashes

ASSUME MemoryAssumption ==
  Right \subseteq {"FORENSIC_READ", "QUARANTINE", "UNQUARANTINE"} /\ MaxLog \in Nat /\ MaxCrashes \in Nat

VARIABLES
  mpc,         \* where the operation of a process is
  mop,         \* the operation
  entry,       \* what it will log
  prev,        \* the last hash it saw
  quarantined, \* the row of the partition is ACTIVE
  auditLog,    \* sequence of [prev, what]
  revokedIn,   \* Proc -> the rights whose capability it holds as revoked
  revokedFile, \* the persisted ones
  acked,       \* <<p, r>>: p acknowledged the revocation of r, or started after it
  crashed,     \* crashes so far
  changed,     \* Proc -> another process changed the quarantine since the check
  overlapped,  \* what two processes did at once: "log", "quarantine"
  unlogged,    \* quarantine changes whose audit event was lost
  leaks        \* what happened although it should not, and without an excuse

pmvars == <<mpc, mop, entry, prev, quarantined, auditLog, revokedIn, revokedFile, acked,
            crashed, changed, overlapped, unlogged, leaks>>
keys == <<revokedIn, revokedFile, acked>>
history == <<crashed, changed, overlapped, unlogged, leaks>>

PMInit ==
  /\ mpc = [p \in Proc |-> "idle"] /\ mop = [p \in Proc |-> "none"] /\ entry = [p \in Proc |-> "none"]
  /\ prev = [p \in Proc |-> 0] /\ quarantined = FALSE /\ auditLog = <<>>
  /\ revokedIn = [p \in Proc |-> {}] /\ revokedFile = {} /\ acked = {}
  /\ crashed = 0 /\ changed = [p \in Proc |-> FALSE]
  /\ overlapped = {} /\ unlogged = {} /\ leaks = {}

Changes == {"quarantine", "unquarantine"}
To(p, l) == mpc' = [mpc EXCEPT ![p] = l]
\* The locals of the operation are gone.
Return(p) ==
  /\ To(p, "idle") /\ mop' = [mop EXCEPT ![p] = "none"] /\ entry' = [entry EXCEPT ![p] = "none"]
  /\ prev' = [prev EXCEPT ![p] = 0] /\ changed' = [changed EXCEPT ![p] = FALSE]
-----------------------------------------------------------------------------
(* Entry: context, tenant and capability                                   *)

\* verify: requester, tenant, action, resource, expiry and signature are the
\* context's business; the revocation is the process's.
Holds(p, r) == r \notin revokedIn[p]

\* Accepting a capability that the process must know to be revoked.
Accepts(p, r) == leaks \cup {x \in {r} : <<p, x>> \in acked}

\* A caller with a valid context of the tenant; any other raises and changes
\* nothing. Quarantine operations ask for their capability first.
Enter(p) ==
  /\ mpc[p] = "idle" /\ Len(auditLog) < MaxLog
  /\ \E o \in {"write", "read", "quarantine", "unquarantine"} :
       LET r == IF o = "quarantine" THEN "QUARANTINE" ELSE "UNQUARANTINE" IN
       /\ mop' = [mop EXCEPT ![p] = o]
       /\ IF o \in {"write", "read"} THEN To(p, "check") /\ UNCHANGED leaks
          ELSE /\ Holds(p, r) /\ To(p, "change")
               /\ leaks' = Accepts(p, r)
  /\ changed' = [changed EXCEPT ![p] = FALSE]
  /\ UNCHANGED <<entry, prev, quarantined, auditLog, keys, crashed, overlapped, unlogged>>

-----------------------------------------------------------------------------
(* write and read                                                          *)
LogNext(p, what) == To(p, "select") /\ entry' = [entry EXCEPT ![p] = what]

\* Mutant of CheckQuarantine: a quarantined partition may be written.
CheckQuarantineReadsOnly(p) ==
  /\ mpc[p] = "check"
  /\ IF mop[p] = "write" THEN To(p, "append") /\ UNCHANGED entry
     ELSE LogNext(p, IF quarantined THEN "DENIED" ELSE "ALLOWED")
  /\ UNCHANGED <<mop, prev, quarantined, auditLog, keys, history>>

\* _is_quarantined, and for a quarantined partition the forensic capability.
CheckQuarantine(p) ==
  /\ mpc[p] = "check"
  /\ \/ ~quarantined /\ mop[p] = "write" /\ To(p, "append") /\ UNCHANGED <<entry, leaks>>
     \/ ~quarantined /\ mop[p] = "read" /\ LogNext(p, "ALLOWED") /\ UNCHANGED leaks
     \/ quarantined /\ LogNext(p, "DENIED") /\ UNCHANGED leaks
     \/ /\ quarantined /\ mop[p] = "read" /\ Holds(p, "FORENSIC_READ")
        /\ LogNext(p, "FORENSIC") /\ leaks' = Accepts(p, "FORENSIC_READ")
  /\ UNCHANGED <<mop, prev, quarantined, auditLog, keys, crashed, changed, overlapped, unlogged>>

\* The entry is in memory before it is in the audit log.
AppendData(p) ==
  /\ mpc[p] = "append" /\ LogNext(p, "ALLOWED")
  /\ leaks' = leaks \cup {x \in {"write"} : quarantined /\ ~changed[p]}
  /\ UNCHANGED <<mop, prev, quarantined, auditLog, keys, crashed, changed, overlapped, unlogged>>

\* quarantine_partition and unquarantine_partition commit the row, then log.
ChangeQuarantine(p) ==
  /\ mpc[p] = "change" /\ quarantined' = (mop[p] = "quarantine") /\ LogNext(p, mop[p])
  /\ changed' = [q \in Proc |-> changed[q] \/ (q # p /\ mpc[q] # "idle")]
  /\ overlapped' = overlapped \cup
       {x \in {"quarantine"} : \E q \in Proc \ {p} : mpc[q] \in {"select", "insert"} /\ mop[q] \in Changes}
  /\ UNCHANGED <<mop, prev, auditLog, keys, crashed, unlogged, leaks>>
-----------------------------------------------------------------------------
(* _log_audit                                                              *)

SelectLast(p) ==
  /\ mpc[p] = "select" /\ To(p, "insert") /\ prev' = [prev EXCEPT ![p] = Len(auditLog)]
  /\ UNCHANGED <<mop, entry, quarantined, auditLog, keys, history>>

\* The operation returns after its event is committed.
InsertEvent(p) ==
  /\ mpc[p] = "insert" /\ Return(p)
  /\ auditLog' = Append(auditLog, [prev |-> prev[p], what |-> entry[p]])
  /\ overlapped' = overlapped \cup {x \in {"log"} : \E q \in Proc \ {p} : mpc[q] = "insert"}
  /\ leaks' = leaks \cup {x \in {"read"} : mop[p] = x /\ entry[p] = "ALLOWED" /\ quarantined /\ ~changed[p]}
  /\ UNCHANGED <<quarantined, keys, crashed, unlogged>>

\* The file stays locked: the error passes through the operation, whose effect
\* remains.
InsertLocked(p) ==
  /\ mpc[p] = "insert" /\ \E q \in Proc \ {p} : mpc[q] = "insert"
  /\ Return(p)
  /\ unlogged' = IF mop[p] \in Changes THEN unlogged \cup {mop[p]} ELSE unlogged
  /\ UNCHANGED <<quarantined, auditLog, keys, crashed, overlapped, leaks>>
-----------------------------------------------------------------------------
(* Revocation, crash and restart                                           *)
Revoke(p) ==
  /\ mpc[p] = "idle"
  /\ \E r \in Right \ revokedIn[p] :
       /\ revokedIn' = [revokedIn EXCEPT ![p] = @ \cup {r}] /\ mop' = [mop EXCEPT ![p] = r]
  /\ To(p, "persist")
  /\ UNCHANGED <<entry, prev, quarantined, auditLog, revokedFile, acked, history>>

PersistRevocation(p) ==
  /\ mpc[p] = "persist" /\ Return(p)
  /\ revokedFile' = revokedFile \cup {mop[p]} /\ acked' = acked \cup {<<p, mop[p]>>}
  /\ UNCHANGED <<quarantined, auditLog, revokedIn, crashed, overlapped, unlogged, leaks>>

\* The memory is lost; the file of revocations is loaded by the new process.
CrashProcess(p) ==
  /\ crashed < MaxCrashes /\ crashed' = crashed + 1
  /\ Return(p)
  /\ revokedIn' = [revokedIn EXCEPT ![p] = revokedFile]
  /\ acked' = acked \cup {<<p, a[2]>> : a \in acked}
  /\ unlogged' = IF mpc[p] \in {"select", "insert"} /\ mop[p] \in Changes
                   THEN unlogged \cup {mop[p]} ELSE unlogged
  /\ UNCHANGED <<quarantined, auditLog, revokedFile, overlapped, leaks>>

PMNext ==
  \E p \in Proc :
    \/ Enter(p) \/ CheckQuarantine(p) \/ AppendData(p) \/ ChangeQuarantine(p)
    \/ SelectLast(p) \/ InsertEvent(p) \/ InsertLocked(p) \/ Revoke(p) \/ PersistRevocation(p)
    \/ CrashProcess(p)
PMSpec == PMInit /\ [][PMNext]_pmvars
-----------------------------------------------------------------------------
\* verify_audit_chain
ChainVerifies == \A i \in DOMAIN auditLog : auditLog[i].prev = i - 1

\* The audit chain verifies unless two processes were between the read of the
\* last hash and the insert at the same time (store.py:87); a crash, a locked
\* file or a denied operation never breaks it.
ChainBreaksOnlyByOverlap == ChainVerifies \/ "log" \in overlapped

\* No operation writes to or reads from a quarantined partition without the
\* forensic capability, unless another process quarantined it after the check;
\* and no process accepts a capability whose revocation it acknowledged,
\* restarts included.
QuarantineHolds == leaks = {}

\* When every process is idle, the last change in the audit log is the state of
\* the partition, unless an event was lost with a crash or a locked file, or two
\* processes changed the quarantine at once.
ChangesLogged == {i \in DOMAIN auditLog : auditLog[i].what \in Changes}
QuarantineIsAudited ==
  ((\A p \in Proc : mpc[p] = "idle") /\ unlogged = {} /\ "quarantine" \notin overlapped) =>
    (quarantined <=> \E i \in ChangesLogged : /\ auditLog[i].what = "quarantine"
                                             /\ \A j \in ChangesLogged : j <= i)
=============================================================================
