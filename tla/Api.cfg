SPECIFICATION ApiSpec
CONSTANTS
  q1 = q1
  q2 = q2
  q3 = q3
  r1 = r1
  k1 = k1
  p1 = p1
  None = None
  Request = {q1, q2, q3}
  Works <- MCWorks
  Registered = {r1}
  Key = {k1}
  Spec = {p1}
  c1 = c1
  c2 = c2
  s1 = s1
  s2 = s2
  s3 = s3
  s4 = s4
  Client = {c1, c2}
  Span = {s1, s2, s3, s4}
  MaxChunks = 2
  Batches <- MCBatches
  Unscoped = {s3}
  Foreign = {s4}
  MaxAttempts = 2
  Canceller = {d1, d2}
  j1 = j1
  j2 = j2
  Job = {j1, j2}
  Kinds <- MCKinds
  MaxDeliveries = 2
  a1 = a1
  a2 = a2
  Decider = {d1, d2}
  Approval = {a1, a2}
  Ctx <- MCCtx
  Ask <- MCAsk
  Traces <- MCTraces
  CanaryOutcome = {"unavailable", "raises", "synthetic", "measured"}
  Budget = 20
\* Every component may stop: a request, a batch, a job or a session ends.
CHECK_DEADLOCK FALSE
INVARIANTS RunsAreConsistent SpansAreAccounted JobsAreHonest DecisionsAreBacked
PROPERTIES StatusesStand ApiSettles
