CONSTANTS
  Cases = {"leases", "intents", "fire", "link", "retry"}
  j1 = j1
  w1 = w1
  r1 = r1
  k1 = k1
  ra = ra
  rb = rb
  rm = rm
  c1 = c1
  p1 = p1
  p2 = p2
  NoRow = NoRow
  s1 = s1
  s2 = s2
  None = None
  Jobs = {j1}
  Workers = {w1}
  NoWorker = NoWorker
  Resources = {r1}
  NoResource = NoResource
  ResourceOf <- MCResourceOf
  Priority <- MCPriority
  MaxAttempts <- MCMaxAttempts
  JobTypes <- MCJobTypes
  LeaseTtl = 3
  CommitLag = 1
  RetryDelays = {0}
  ReaperDelay = 1
  MaxRun <- MCMaxRun
  Capacity = 1
  Budget = 1
SPECIFICATION MCFairSpec
CHECK_DEADLOCK FALSE
PROPERTIES
  LeasesAndClaimsEnd
  PendingIntentsResolve
  
  EveryTransactionEnds
  FailuresSettleOnce
