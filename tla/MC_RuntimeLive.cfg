CONSTANTS
  Cases = {"deadline", "reaper", "worker"}
  Loops = {worker}
  Children = {}
  Signal = signal
  SignalKinds = {"none"}
  Graceful = 1
  Abort = 1
  MaxTime = 3
  None = None
  Jobs = {j1, j2, j3}
  Handled = {j1, j2, j3}
  Blocking = {j1}
  MaxHooks = 2
  MaxWatchers = 1
  BatchSize = 3
  Endings = {"completed", "cancelled"}
  Destructions = {FALSE}
  Leases = {l1, l2}
  BlockingLeases = {l1}
  MaxConcurrency = 1
  MaxTerminal = 1
  Results <- OnlyFailures
SPECIFICATION MCFairSpec
PROPERTIES
  StopsEnd
  
