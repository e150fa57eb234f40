SPECIFICATION Spec
CONSTANTS
  p1 = p1
  p2 = p2
  c1 = c1
  v1 = v1
  v2 = v2
  v3 = v3
  Proposal = {p1, p2}
  Setting = {c1}
  Value = {v1, v2, v3}
  NoProposal = NoProposal
  AnyVersion = AnyVersion
  Setups <- MCSetups
  InitialValue <- MCInitial
  MaxRuns = 2
INVARIANTS CommitIsEarned ExitsForAReason
PROPERTIES EndIsRecoverable EveryRunReturns
CHECK_DEADLOCK FALSE
