SPECIFICATION WSpec
CONSTANTS
  Receipt = {r1}
  r1 = r1
  b1 = b1
  b2 = b2
  p1 = p1
  Binding = {b1, b2}
  Pool = {p1}
  PoolOf <- MCPoolOf
  Payload <- MCPayload
  NoPayload = NoPayload
  Incomplete = Incomplete
  Evidence = {2}
  Budget = 1
  RequireSignature = FALSE
  MaxTime = 1
  MaxEvents = 9
  Job = {j1, j2}
  ReceiptOf <- MCReceiptOf
  Faults = {"timeout"}
  MaxTries = 1
  MaxCrashes = 0
PROPERTIES ClaimIsSettled
