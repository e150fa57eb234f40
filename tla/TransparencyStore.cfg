SPECIFICATION Spec
CONSTANTS
  Process = {w1, w2, w3}
  Payload = {p1, p2}
  Genesis = Genesis
  MaxEntries = 3
INVARIANTS LedgerIsOneChain AckedIsWitnessed
CHECK_DEADLOCK FALSE
