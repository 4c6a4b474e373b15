CONSTANTS
  Cases = {"settle", "signal", "reaper", "worker"}
  Loops = {worker}
  Children = {c1}
  Signal = signal
  SignalKinds = {"none", "runtime", "application"}
  Graceful = 1
  Abort = 1
  MaxTime = 2
  None = None
  Jobs = {j1, j2, j3}
  Handled = {j1, j2, j3}
  Blocking = {}
  MaxHooks = 2
  MaxWatchers = 1
  BatchSize = 3
  Endings = {"completed", "timed_out", "cancelled"}
  Destructions = {TRUE, FALSE}
  Leases = {l1, l2}
  BlockingLeases = {}
  MaxConcurrency = 2
  MaxTerminal = 1
  Results <- AllResults
SPECIFICATION MCSpec
SYMMETRY MCSymmetry
INVARIANTS
  ReportsTellTheTruth
  
  WorkerEventsTellTheTruth
PROPERTIES
  StopsOnlyTighten
