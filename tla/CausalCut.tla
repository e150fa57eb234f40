------------------------------ MODULE CausalCut ------------------------------
(***************************************************************************)
(* The causal recovery cut of packages/recovery/src/causal_cut.py: a       *)
(* depth-first search enumerates the paths from fault sources to failure   *)
(* targets, and an optimizer picks actions that hit every path, by trying  *)
(* all combinations when they are few and greedily otherwise.              *)
(***************************************************************************)
EXTENDS Naturals, Sequences, FiniteSets

CONSTANTS
  GNode,            \* nodes of the causal graph
  Graphs,           \* edge sets
  Ends,             \* pairs <<sources, targets>> of node sets
  Offers,           \* sets of actions [on |-> node, cost |-> Nat]
  MaxCombinations   \* MAX_EXACT_COMBINATIONS

\* The sum of the costs, as a number of units.
CostOf(C) == Cardinality(UNION {{a} \X (1 .. a.cost) : a \in C})

\* float("inf"): more than everything offered costs.
Infinite == 1000

ASSUME CutAssumption ==
  /\ MaxCombinations \in Nat /\ IsFiniteSet(GNode) /\ \A E \in Graphs : E \subseteq GNode \X GNode
  /\ \A O \in Offers : /\ IsFiniteSet(O) /\ CostOf(O) < Infinite
                       /\ \A a \in O : a.on \in GNode /\ a.cost \in Nat

VARIABLES
  edges, ends, offer,
  searched,      \* sources whose search was begun
  stack,      \* the stack of the search, as paths
  paths,      \* all_paths
  qpc,        \* "search", "exact", "greedy", "built"
  tried,      \* the combinations tried
  chosen,     \* best_combo, or selected_actions of the greedy loop
  bestCost,   \* best_cost; Infinite before a cover is found
  residual    \* residual_failure_paths

qvars == <<edges, ends, offer, searched, stack, paths, qpc, tried, chosen, bestCost, residual>>
qinput == <<edges, ends, offer>>

QInit ==
  /\ edges \in Graphs /\ ends \in Ends /\ offer \in Offers
  /\ searched = {} /\ stack = <<>> /\ paths = {} /\ qpc = "search"
  /\ tried = {} /\ chosen = {} /\ bestCost = Infinite /\ residual = {}
-----------------------------------------------------------------------------
(* enumerate_paths                                                         *)

\* A source that is no node of the graph is skipped.
BeginSource ==
  /\ qpc = "search" /\ stack = <<>>
  /\ \E s \in ends[1] \ searched :
       searched' = searched \cup {s} /\ stack' = IF s \in GNode THEN <<<<s>>>> ELSE <<>>
  /\ UNCHANGED <<qinput, paths, qpc, tried, chosen, bestCost, residual>>

OnPath(path, n) == \E i \in DOMAIN path : path[i] = n

\* One turn of the search: the path on top is kept when it ends in a target, and
\* goes on to every neighbour that is not on it.
PopPath ==
  LET path == stack[Len(stack)]  curr == path[Len(path)]
      next == {n \in GNode : <<curr, n>> \in edges /\ ~OnPath(path, n)} IN
  /\ qpc = "search" /\ stack # <<>>
  /\ paths' = IF curr \in ends[2] THEN paths \cup {path} ELSE paths
  /\ \E s \in [1 .. Cardinality(next) -> next] :
       /\ {s[i] : i \in DOMAIN s} = next
       /\ stack' = SubSeq(stack, 1, Len(stack) - 1) \o [i \in DOMAIN s |-> Append(path, s[i])]
  /\ UNCHANGED <<qinput, searched, qpc, tried, chosen, bestCost, residual>>
-----------------------------------------------------------------------------
(* optimize                                                                *)
Hits(a) == {p \in paths : OnPath(p, a.on)}
Covered(C) == UNION {Hits(a) : a \in C}
Useful == {a \in offer : Hits(a) # {}}
Combinations == (SUBSET Useful) \ {{}}

\* Without a path the cut is empty; otherwise the number of combinations decides.
SearchEnds ==
  /\ qpc = "search" /\ stack = <<>> /\ searched = ends[1]
  /\ qpc' = IF paths = {} THEN "built"
            ELSE IF 2 ^ Cardinality(Useful) - 1 <= MaxCombinations THEN "exact" ELSE "greedy"
  /\ UNCHANGED <<qinput, searched, stack, paths, tried, chosen, bestCost, residual>>

\* The combinations in the order of their size: a cover that is cheaper replaces
\* the best one.
TryCombination ==
  /\ qpc = "exact"
  /\ \E C \in Combinations \ tried :
       /\ \A D \in Combinations \ tried : Cardinality(C) <= Cardinality(D)
       /\ tried' = tried \cup {C}
       /\ IF Covered(C) = paths /\ CostOf(C) < bestCost
            THEN chosen' = C /\ bestCost' = CostOf(C) ELSE UNCHANGED <<chosen, bestCost>>
  /\ UNCHANGED <<qinput, searched, stack, paths, qpc, residual>>

\* The greedy choice: most uncovered paths for the cost (plus an epsilon), in
\* cross-multiplied form with costs in hundred-thousandths.
New(a) == Cardinality(Hits(a) \ Covered(chosen))
Better(a, b) == New(a) * (b.cost * 100000 + 1) > New(b) * (a.cost * 100000 + 1)
Gains == {a \in Useful \ chosen : New(a) > 0}

GreedyPick ==
  /\ qpc = "greedy" /\ Covered(chosen) # paths
  /\ \E a \in Gains : (\A b \in Gains : ~Better(b, a)) /\ chosen' = chosen \cup {a}
  /\ UNCHANGED <<qinput, searched, stack, paths, qpc, tried, bestCost, residual>>

\* A greedy selection that cannot cover every path is dropped. All paths are
\* blocked, or all are residual.
BuildCut ==
  /\ \/ qpc = "exact" /\ tried = Combinations /\ UNCHANGED chosen
     \/ qpc = "greedy" /\ Covered(chosen) = paths /\ UNCHANGED chosen
     \/ qpc = "greedy" /\ Covered(chosen) # paths /\ Gains = {} /\ chosen' = {}
  /\ residual' = (IF chosen' = {} THEN paths ELSE {}) /\ qpc' = "built"
  /\ UNCHANGED <<qinput, searched, stack, paths, tried, bestCost>>

QNext == BeginSource \/ PopPath \/ SearchEnds \/ TryCombination \/ GreedyPick \/ BuildCut
QSpec == QInit /\ [][QNext]_qvars
-----------------------------------------------------------------------------
\* The simple paths, by their definition.
SimplePaths ==
  {p \in UNION {[1 .. k -> GNode] : k \in 1 .. Cardinality(GNode)} :
     /\ p[1] \in ends[1] /\ p[Len(p)] \in ends[2]
     /\ \A i \in 1 .. Len(p) - 1 : <<p[i], p[i + 1]>> \in edges
     /\ \A i, j \in DOMAIN p : i # j => p[i] # p[j]}

\* The search finds every simple path from a source to a target and nothing
\* else, one that runs through a target and on to another included.
PathsAreComplete == qpc # "search" => paths = SimplePaths

\* The cut hits every failure path when the offered actions can do it at all,
\* and says that all paths remain when they cannot.
CutIsSound ==
  qpc = "built" =>
    /\ \A p \in paths : p \in residual \/ \E a \in chosen : OnPath(p, a.on)
    /\ residual = {} <=> \A p \in paths : \E a \in offer : OnPath(p, a.on)

\* The exact search returns a cheapest cover.
ExactIsCheapest ==
  (qpc = "built" /\ tried # {} /\ residual = {}) =>
    \A C \in SUBSET offer : (\A p \in paths : \E a \in C : OnPath(p, a.on)) => bestCost <= CostOf(C)
=============================================================================
