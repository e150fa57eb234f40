--------------------------- MODULE CertificateChain ---------------------------
(***************************************************************************)
(* The certificate ledger LedgerChain (packages/ledger/src/chain.py): a    *)
(* chain object caches the hash of its head, a caller builds and signs a   *)
(* certificate on head_hash, and append_certificate compares the two       *)
(* before it awaits the database.                                          *)
(*                                                                         *)
(* Calls are the coroutines that append one certificate each; they run on  *)
(* chain objects that share one file.                                      *)
(***************************************************************************)
EXTENDS Integers, Sequences

CONSTANTS
  Call, Chain,
  ChainOf,     \* the chain object a call runs on
  Genesis,     \* "GENESIS"
  Closed       \* _head_hash is None: the object is not initialized

VARIABLES
  table,   \* the rows, by id: certificates
  head,    \* _head_hash of a chain object
  pc,      \* the next step of a call
  cert     \* the certificate of a call: {} until it is built

vars == <<table, head, pc, cert>>

\* compute_hash covers the identity, the content and the previous hash.
HashOf(c) == <<c.id, c.prev>>

Init ==
  /\ table = <<>>
  /\ head = [o \in Chain |-> Closed]
  /\ pc = [c \in Call |-> "build"]
  /\ cert = [c \in Call |-> {}]

-----------------------------------------------------------------------------
LoadedHead == IF table = <<>> THEN Genesis ELSE HashOf(table[Len(table)])

\* initialize, _load_head: of a new object, or of one made again after a crash.
Initialize(o) ==
  /\ head[o] = Closed
  /\ head' = [head EXCEPT ![o] = LoadedHead]
  /\ UNCHANGED <<table, pc, cert>>

\* The caller signs a certificate on the head it sees.
Build(c) ==
  /\ pc[c] = "build" /\ head[ChainOf[c]] # Closed
  /\ cert' = [cert EXCEPT ![c] = {[id |-> c, prev |-> head[ChainOf[c]]]}]
  /\ pc' = [pc EXCEPT ![c] = "check"]
  /\ UNCHANGED <<table, head>>

\* append_certificate up to its first await: signature and head, or an error.
Check(c, x) ==
  /\ pc[c] = "check" /\ cert[c] = {x}
  /\ pc' = [pc EXCEPT ![c] = IF x.prev = head[ChainOf[c]] THEN "insert" ELSE "done"]
  /\ UNCHANGED <<table, head, cert>>

\* The INSERT and its commit.  A call has a certificate of its own, so the UNIQUE
\* constraints on cert_id and cert_hash hold.
Insert(c, x) ==
  /\ pc[c] = "insert" /\ cert[c] = {x}
  /\ table' = Append(table, x)
  /\ pc' = [pc EXCEPT ![c] = "head"]
  /\ UNCHANGED <<head, cert>>

\* After the await of the commit: the new head, and the return.
Advance(c, x) ==
  /\ pc[c] = "head" /\ cert[c] = {x}
  /\ head' = [head EXCEPT ![ChainOf[c]] = HashOf(x)]
  /\ pc' = [pc EXCEPT ![c] = "done"]
  /\ UNCHANGED <<table, cert>>

\* The process of a chain object dies; its calls end wherever they are.
Crash(o) ==
  /\ head[o] # Closed
  /\ head' = [head EXCEPT ![o] = Closed]
  /\ pc' = [c \in Call |-> IF ChainOf[c] = o /\ pc[c] # "build" THEN "done" ELSE pc[c]]
  /\ UNCHANGED <<table, cert>>

Next ==
  \/ \E o \in Chain : Initialize(o) \/ Crash(o)
  \/ \E c \in Call : Build(c) \/ \E x \in cert[c] : Check(c, x) \/ Insert(c, x) \/ Advance(c, x)

Spec == Init /\ [][Next]_vars

-----------------------------------------------------------------------------
\* verify_chain: every certificate names the hash of the one before it.
VerifyChain ==
  \A k \in DOMAIN table :
    table[k].prev = IF k = 1 THEN Genesis ELSE HashOf(table[k - 1])

\* append_certificate, "(no forks)": the certificates of the ledger are one chain,
\* so verify_chain holds of a ledger nobody has tampered with.
NoForks == VerifyChain
=============================================================================
