SPECIFICATION Spec
CONSTANTS
  i1 = i1
  i2 = i2
  k1 = k1
  k2 = k2
  k3 = k3
  k4 = k4
  Incident = {i1, i2}
  Candidate = {k1, k2, k3, k4}
  CandidatesOf <- MCCandidatesOf
  Cost <- MCCost
  Budget = 4
  MaxOverrun = 1
  MinReplays = 2
  EntropyWindow = 3
  MaxExperiments = 3
  NoIncident = NoIncident
  NoCandidate = NoCandidate
INVARIANTS EvidenceComesFirst FailsClosed BudgetHolds
PROPERTIES EveryIncidentEnds
CHECK_DEADLOCK FALSE
