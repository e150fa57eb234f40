--------------------------- MODULE MCReplayWorker ---------------------------
(* Constants of the model-checked instances of ReplayWorker. *)
EXTENDS ReplayWorker, TLC

CONSTANTS b1, b2, p1, r1

MCPoolOf == [b \in {b1, b2} |-> p1]

\* A receipt for the state b1 that admits evidence up to rank 2 until time 1.
MCPayload == {[binding |-> b1, cost |-> 1, ceiling |-> 2, expires |-> 1, signature |-> "none"]}

\* All jobs race for one receipt.
MCReceiptOf == [j \in Job |-> r1]

\* The jobs are interchangeable: only used where no liveness is checked.
Symmetry == Permutations(Job)
=============================================================================
