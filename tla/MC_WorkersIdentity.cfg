CONSTANTS
  j1 = j1
  w1 = w1
  w2 = w2
  r1 = r1
  Jobs = {j1}
  Workers = {w1}
  NoWorker = NoWorker
  Resources = {r1}
  NoResource = NoResource
  ResourceOf <- MCResourceOf
  Priority <- MCPriority
  MaxAttempts <- MCMaxAttempts
  JobTypes <- MCJobTypes
  LeaseTtl = 3
  CommitLag = 1
  RetryDelays = {0}
  ReaperDelay = 1
  MaxRun <- MCMaxRun
  Capacity = 2
  Budget = 1
SPECIFICATION WorkersSpec
CHECK_DEADLOCK FALSE
INVARIANTS
  IdentityFencesOneTask
