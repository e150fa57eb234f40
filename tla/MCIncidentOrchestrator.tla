----------------------- MODULE MCIncidentOrchestrator -----------------------
(* Constants of the model-checked instances of IncidentOrchestrator. *)
EXTENDS IncidentOrchestrator

CONSTANTS i1, i2, k1, k2, k3, k4

MCCandidatesOf == [i \in Incident |-> IF i = i1 THEN Candidate \ {k4} ELSE Candidate]
MCCost == [c \in Candidate |-> IF c = k1 THEN 2 ELSE 1]
=============================================================================
