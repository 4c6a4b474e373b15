CONSTANTS
  j1 = j1
  j2 = j2
  w1 = w1
  w2 = w2
  r1 = r1
  Jobs = {j1, j2}
  Workers = {w1, w2}
  NoWorker = NoWorker
  Resources = {r1}
  NoResource = NoResource
  ResourceOf <- MCResourceOf
  Priority <- MCPriority
  MaxAttempts <- MCMaxAttempts
  JobTypes <- MCJobTypes
  LeaseTtl = 2
  CommitLag = 2
  RetryDelays = {1}
  ReaperDelay = 1
  MaxRun <- MCMaxRun
SPECIFICATION Spec
CHECK_DEADLOCK FALSE
INVARIANTS
  TypeOK
  AttemptBudget
  
  ResourceExclusion
  ClaimsBackLeases
  DeadLetterCurrent
PROPERTIES
  
  StartedAttemptsAreKept
