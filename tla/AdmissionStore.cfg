SPECIFICATION Spec
CONSTANTS
  Receipt = {r1, r2, r3}
  b1 = b1
  b2 = b2
  p1 = p1
  Binding = {b1, b2}
  Pool = {p1}
  PoolOf <- MCPoolOf
  Payload <- MCPayload
  NoPayload = NoPayload
  Incomplete = Incomplete
  Evidence = {2, 3}
  Budget = 3
  RequireSignature = FALSE
  MaxTime = 2
  MaxEvents = 3
INVARIANTS PoolAccounting AuditTellsStatus
PROPERTIES ClaimSurvivesRefusal ImplementsSingleUseGrant
SYMMETRY Symmetry
