------------------------------ MODULE MerkleDag ------------------------------
(***************************************************************************)
(* The content-addressed trace store of packages/replay/src/merkle_dag.py: *)
(* nodes whose hash covers their payload and their parents' hashes, a      *)
(* reverse index that removes duplicates, and fork_lineage, which rebuilds *)
(* the descendants of a node under new ids.  A hash is modelled by what it *)
(* covers (no collisions); a payload may be changed behind the store's     *)
(* back, which the two verifications are for.                              *)
(***************************************************************************)
EXTENDS Naturals, Sequences, FiniteSets, Functions

CONSTANTS
  Name,       \* ids given by callers; <<name, n>> is the name with n times "_fork"
  Payload,
  MaxForks,   \* fork suffixes on an id
  MaxNodes    \* a caller adds to fewer than this

ASSUME MerkleAssumption == MaxForks \in Nat /\ MaxNodes \in Nat /\ Payload # {}

VARIABLES
  node,      \* self._nodes: id -> [content, parents (hashes, in order), hash]
  index,     \* self._hash_index: hash -> id
  children,  \* children_ids
  blobs,     \* the payloads in self._blobs
  altered,   \* ids whose payload was changed in place
  last       \* the last call: its outcome, and what it had added when it raised

mvars == <<node, index, children, blobs, altered, last>>

Id == Name \X (0 .. MaxForks + 1)
Fork(i) == <<i[1], i[2] + 1>>

\* compute_hash: the payload and the sorted list of the parents' hashes, where a
\* parent named twice counts twice.
HashOf(p, hs) == <<p, [h \in {hs[k] : k \in DOMAIN hs} |-> Cardinality({k \in DOMAIN hs : hs[k] = h})]>>
Verified(n, i) == i \in DOMAIN n /\ n[i].hash = HashOf(n[i].content, n[i].parents)

MInit ==
  /\ node = <<>> /\ index = <<>> /\ children = <<>> /\ blobs = {} /\ altered = {}
  /\ last = [op |-> "none", outcome |-> "none", added |-> {}, forked |-> {}, clash |-> FALSE]

-----------------------------------------------------------------------------
(* add_node on a store d = [node, index, children, blobs]: the new store    *)
(* and what the call answers.                                               *)

Store == [node |-> node, index |-> index, children |-> children, blobs |-> blobs]

\* An unknown parent is refused, then an id that is taken by something else; the
\* same node is answered again; an equal node under another id is answered in
\* its place, and the new id stays unknown.
AddNode(d, i, p, ps) ==
  LET hs == [k \in DOMAIN ps |-> d.node[ps[k]].hash]  h == HashOf(p, hs) IN
  IF \E k \in DOMAIN ps : ps[k] \notin DOMAIN d.node THEN [d |-> d, answer |-> "raised"]
  ELSE IF i \in DOMAIN d.node
    THEN [d |-> d, answer |-> IF d.node[i].hash = h THEN "same" ELSE "raised"]
  ELSE IF h \in DOMAIN d.index THEN [d |-> d, answer |-> "deduplicated"]
  ELSE [answer |-> "added",
        d |-> [node |-> [j \in DOMAIN d.node \cup {i} |->
                           IF j = i THEN [content |-> p, parents |-> hs, hash |-> h] ELSE d.node[j]],
               index |-> [g \in DOMAIN d.index \cup {h} |-> IF g = h THEN i ELSE d.index[g]],
               children |-> [j \in DOMAIN d.children \cup {i} |->
                              IF j = i THEN {}
                              ELSE d.children[j] \cup (IF \E k \in DOMAIN ps : ps[k] = j THEN {i} ELSE {})],
               blobs |-> d.blobs \cup {p}]]

Keep(d) == node' = d.node /\ index' = d.index /\ children' = d.children /\ blobs' = d.blobs

\* A caller adds a node under at most two parents, or the same one twice.
Add ==
  /\ Cardinality(DOMAIN node) < MaxNodes
  /\ \E i \in Name \X {0}, p \in Payload :
     \E ps \in {<<>>} \cup {<<a>> : a \in Id} \cup {<<a, b>> : a \in DOMAIN node, b \in DOMAIN node} :
       LET r == AddNode(Store, i, p, ps) IN
       /\ Keep(r.d)
       /\ last' = [op |-> "add", outcome |-> r.answer, added |-> {}, forked |-> {}, clash |-> FALSE]
  /\ UNCHANGED altered
-----------------------------------------------------------------------------
(* fork_lineage                                                            *)

\* The target and what the breadth-first search over children finds below it.
Below(i) ==
  LET reach[n \in 0 .. Cardinality(DOMAIN node)] ==
        IF n = 0 THEN {i} ELSE reach[n - 1] \cup UNION {children[j] : j \in reach[n - 1]}
  IN reach[Cardinality(DOMAIN node)]

\* The orders in which the queue of nodes without unprocessed parents can go.
TopologicalOrders(D) ==
  {s \in [1 .. Cardinality(D) -> D] :
     /\ IsInjective(s)
     /\ \A k, l \in DOMAIN s : s[l] \in children[s[k]] => k < l}

\* The parents of a forked node: the forks of those that are forked too.
ForkParents(i, D) ==
  [k \in DOMAIN node[i].parents |->
     LET pid == index[node[i].parents[k]] IN IF pid \in D THEN Fork(pid) ELSE pid]

\* The buffered nodes are added one by one; the first that raises ends the call
\* and what was added before it stays. (dup: a fork was answered by an equal
\* node, so that its own id is unknown to its children.)
CommitNode(c, i, p, ps) ==
  LET r == AddNode(c.d, i, p, ps) IN
  IF c.answer = "raised" THEN c
  ELSE [d |-> r.d, answer |-> r.answer, dup |-> c.dup \/ r.answer = "deduplicated"]

CommitFork(s, target, p) ==
  LET D == {s[k] : k \in DOMAIN s}
      run[k \in 0 .. Len(s)] ==
        IF k = 0 THEN [d |-> Store, answer |-> "added", dup |-> FALSE]
        ELSE CommitNode(run[k - 1], Fork(s[k]), IF s[k] = target THEN p ELSE node[s[k]].content,
                        ForkParents(s[k], D))
  IN run[Len(s)]

ForkLineage ==
  \E target \in DOMAIN node, p \in Payload :
    LET D == Below(target) IN
    /\ \A i \in D : i[2] < MaxForks
    /\ \E s \in TopologicalOrders(D) :
         LET r == CommitFork(s, target, p) IN
         /\ Keep(r.d)
         /\ last' = [op |-> "fork", outcome |-> r.answer,
                     added |-> DOMAIN r.d.node \ DOMAIN node, forked |-> D,
                     clash |-> r.dup \/ \E i \in D : Fork(i) \in DOMAIN node]
    /\ UNCHANGED altered

\* A payload is changed in place.
TamperNode ==
  /\ Cardinality(altered) < 1
  /\ \E i \in DOMAIN node, p \in Payload :
       /\ p # node[i].content /\ node' = [node EXCEPT ![i].content = p] /\ altered' = altered \cup {i}
  /\ last' = [op |-> "tamper", outcome |-> "done", added |-> {}, forked |-> {}, clash |-> FALSE]
  /\ UNCHANGED <<index, children, blobs>>
-----------------------------------------------------------------------------
(* verify_path walks from the leaf over the first parents                   *)

NoId == <<>>
FirstParent(i) == IF i = NoId \/ node[i].parents = <<>> THEN NoId ELSE index[node[i].parents[1]]
Chain(leaf) ==
  LET walk[n \in 0 .. Cardinality(DOMAIN node)] == IF n = 0 THEN leaf ELSE FirstParent(walk[n - 1])
  IN [n \in 1 .. Cardinality(DOMAIN node) |-> walk[n - 1]]

VerifyPath(leaf, root) ==
  \E n \in DOMAIN Chain(leaf) :
    Chain(leaf)[n] = root /\ \A k \in 1 .. n : Verified(node, Chain(leaf)[k])

MNext == Add \/ ForkLineage \/ TamperNode
MSpec == MInit /\ [][MNext]_mvars
-----------------------------------------------------------------------------
ParentIds(i) == {index[node[i].parents[k]] : k \in DOMAIN node[i].parents}

\* Every node is found under its hash and no two have the same one; a child is
\* recorded at exactly its parents.
IndexIsExact ==
  /\ \A i \in DOMAIN node : index[node[i].hash] = i
  /\ \A h \in DOMAIN index : node[index[h]].hash = h
  /\ \A i, j \in DOMAIN node : j \in children[i] <=> i \in ParentIds(j)

\* A fork raises, and leaves a part of itself behind, only when one of the
\* "_fork" ids was taken or a forked node equals one that is stored
\* (merkle_dag.py:249: the buffer guards against cycles, not against this).
\* Otherwise every descendant is forked, and no fork hangs below an original
\* that was itself forked.
ForkIsParallel ==
  (last.op = "fork" /\ ~last.clash) =>
    /\ last.outcome = "added" /\ last.added = {Fork(i) : i \in last.forked}
    /\ \A i \in last.added : ParentIds(i) \cap last.forked = {}

\* verify_path accepts a path only when no node on it was changed in place,
\* and accepts every path of untouched nodes along first parents.
PathIsTamperEvident ==
  \A leaf, root \in DOMAIN node :
    VerifyPath(leaf, root) <=>
      \E n \in DOMAIN Chain(leaf) :
        Chain(leaf)[n] = root /\ altered \cap {Chain(leaf)[k] : k \in 1 .. n} = {}
=============================================================================
