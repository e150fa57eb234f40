SPECIFICATION ExecutionSpec
CONSTANTS
  Version <- MCVersion
  Registry <- MCRegistry
  Requests <- MCRequests
  MaxOutput = 2
  w1 = w1
  w2 = w2
  t1 = t1
  Worker = {w1, w2}
  Oracle = {o1, o2}
  Trace = {t1}
  TraceOf <- MCTraceOf
  Arc = {w2}
  MaxStaged = 1
  Task = {1, 2, 3}
  Orders <- MCOrders
  Dependencies <- MCDependencies
  MaxWorkers = 1
  MaxDiagnostics = 1
  Controller = {"c1", "c2"}
  Freezes = {"c1"}
  Installed <- MCInstalled
\* Every component may stop: a replay, a run or an execution ends.
CHECK_DEADLOCK FALSE
INVARIANTS ReplayIsFaithful EffectsAreSettled ScheduleIsRespected CleanedUp
PROPERTIES ExecutionEnds
