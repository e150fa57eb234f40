SPECIFICATION Spec
CONSTANTS
  o1 = o1
  a1 = a1
  a2 = a2
  Call = {a1, a2}
  Chain = {o1}
  ChainOf <- MCChainOf
  Genesis = Genesis
  Closed = Closed
INVARIANTS NoForks
CHECK_DEADLOCK FALSE
