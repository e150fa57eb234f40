SPECIFICATION Spec
CONSTANTS
  alice = alice
  bob = bob
  carol = carol
  purge = purge
  read = read
  Actor = {alice, bob, carol}
  Action = {purge, read}
  Verdict <- MCVerdict
  RuleApprovers <- MCRuleApprovers
  Tier <- MCTier
  Delegates = {alice, bob}
  MaxRequests = 2
  MaxDecisions = 2
INVARIANTS ApprovalsAreSound AllowIsBacked
PROPERTIES DecisionsStand
SYMMETRY Symmetry
CHECK_DEADLOCK FALSE
