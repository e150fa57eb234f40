--------------------------- MODULE MCAdmissionStore ---------------------------
(* Constants of the model-checked instance of AdmissionStore. *)
EXTENDS AdmissionStore, TLC

CONSTANTS b1, b2, p1

MCPoolOf == [b \in {b1, b2} |-> p1]

Pay(b, c, ceil, exp, sig) ==
  [binding |-> b, cost |-> c, ceiling |-> ceil, expires |-> exp, signature |-> sig]

\* A cheap short-lived receipt, an expensive one, and one whose signing key is
\* not in the trust store.
MCPayload == {Pay(b1, 1, 2, 1, "none"), Pay(b2, 2, 3, 2, "trusted"),
              Pay(b1, 1, 3, 2, "untrusted")}

\* Receipts are interchangeable: no constant tells two of them apart.
Symmetry == Permutations(Receipt)
=============================================================================
