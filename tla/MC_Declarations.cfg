CONSTANTS
  Cases = {"catalog", "rolling", "builder", "environment", "graph", "step", "retry"}
  p1 = p1
  p2 = p2
  ka = ka
  kb = kb
  kc = kc
  jt = jt
  ha = ha
  ha2 = ha2
  hx = hx
  n1 = n1
  n2 = n2
  None = None
  BlankName = BlankName
  Processes = {p1, p2}
  Types = {ka, kb}
  Handlers = {ha, ha2, hx}
  HandlerType <- MCHandlerType
  Defaults <- MCDefaults
  DefinitionOverrides <- MCOverrides
  FailureCodes = {BlankName, "timeout"}
  RetryDelays <- MCDelays
  Schedules <- MCSchedules
  Specs <- MCSpecs
  Scopes <- MCScopes
  MaxOps = 3
  MaxStarts = 2
  Missing = Missing
  Garbage = Garbage
  Environments <- MCEnvironments
  Configs <- MCConfigs
  PromoterConfigs <- MCPromoterConfigs
  MaxCalls = 3
  MaxBatch = 1000
  Blank = Blank
  Keys = {ka, kb, kc}
  JobTypes = {jt, Blank}
  Settings = {"max_attempts", "execution_resource_key", "stage"}
  Modes = {"ON_SUCCESS", "ON_TERMINAL"}
  Options = {"ok", "blank", "too_long"}
  MaxSteps = 3
  MaxDependencies = 3
  Micro = 2
  Milli = 4
  MaxMs = 3
  PostgresMinimum = 2
  ChronoMax = 39
  Start = 4
  LastClaim = 20
  LeaseNs = 4
  MaxAttempts = 2
  Kinds = {"RETRYABLE", "TERMINAL"}
  Codes = {"other"}
  Delays = {0, 5, 11, 13}
  Instants = {0, 13, 19, 39}
  Overrides <- NoRetryOverrides
  BaseMs = 1
  MaxExp = 2
  CapMs = 3
  FloorMs = 1
  Jitters <- BothJitters
  DirectDelays = {}
  ReaperDelayMs = 1
SPECIFICATION MCSpec
CHECK_DEADLOCK FALSE
INVARIANTS
  RuntimesStartAsConfigured
  ValidationIsExact
  
PROPERTIES
  CatalogsAreSound
