SPECIFICATION RecordsSpec
CONSTANTS
  GNode = {1, 2, 3, 4}
  Graphs <- MCGraphs
  Ends <- MCEnds
  Offers <- MCOffers
  MaxCombinations = 7
  SpanOrder <- MCSpanOrder
  SpanComponent <- MCSpanComponent
  Cuts <- MCCuts
  Originals <- MCOriginals
  Envelopes <- MCEnvelopes
  org = org
  bu = bu
  agent = agent
  missing = missing
  root = root
  ra = ra
  rb = rb
  PNode = {org, bu, agent}
  Leaf = agent
  Trees <- MCTrees
  RuleLists <- MCRuleLists
  PRole = {ra, rb}
  EnvVar = {"model", "policy"}
  MaxItems = 3
  Proc = {s1, s2}
  Right = {"FORENSIC_READ"}
  MaxLog = 2
  MaxCrashes = 1
  Name = {"a", "b", "c"}
  Payload = {"x", "y"}
  MaxForks = 1
  MaxNodes = 3
  MaxCommands = 3
  Task = {k1, k2}
  MaxSpans = 4
  MaxNesting = 2
  p1 = p1
  p2 = p2
  x1 = x1
  Prop = {p1, p2}
  Item = {x1}
  Asks <- MCAsks
  Starts = {"stable", "assumed"}
  Off = "off"
  On = "on"
  Assumed = "assumed"
  AnyVersion = "any"
  MaxAttempts = 2
  LReceipt = {"r1"}
  MaxRefusals = 2
  Setups <- MCSetups
  MaxHops = 15
\* Every component may stop: a decision is made, the bounds are reached.
CHECK_DEADLOCK FALSE
INVARIANTS RecoveryIsSupported PolicyOnlyTightens RecordsTellTheTruth EvidenceSurvives AgentsAreGated
PROPERTIES LocalImplementsGrant
