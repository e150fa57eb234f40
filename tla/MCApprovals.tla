----------------------------- MODULE MCApprovals -----------------------------
(* Constants of the model-checked instance of Approvals. *)
EXTENDS Approvals, TLC

CONSTANTS alice, bob, carol, purge, read

\* purge is critical and its rule asks for one approver; read is allowed and low.
MCVerdict == [a \in Action |-> "allow"]
MCRuleApprovers == [a \in Action |-> IF a = purge THEN 1 ELSE 0]
MCTier == [a \in Action |-> IF a = purge THEN "critical" ELSE "low"]

\* alice and bob are both delegates, and nothing tells them apart.
Symmetry == Permutations({alice, bob})
=============================================================================
