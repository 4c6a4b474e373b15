SPECIFICATION MCSpec
CONSTANTS
  r1 = r1
  a = a
  y = y
  b = b
  c = c
  x = x
  d = d
  e = e
  r2 = r2
  a2 = a2
  x2 = x2
  r3 = r3
  a3 = a3
  x3 = x3
  k1 = k1
  k2 = k2
  NoKey = NoKey
  Runs = {r1, r2, r3}
  Steps = {a, y, b, c, x, d, e, a2, x2, a3, x3}
  External = {x, y, x2, x3}
  Continuable = {a, a2}
  Appends = {"m"}
  Keys = {k1, k2}
  RunOf <- MCRunOf
  Edges <- MCEdges
  OnSuccess <- MCOnSuccess
  AppendOf <- MCAppendOf
  ActiveKey <- MCActiveKey
CHECK_DEADLOCK FALSE
INVARIANTS
  ReleasedStepsWereReady
  NoStepStranded
  RunStatusAgrees
  StepJobAgrees
  CountersExact
  ActiveKeyExclusion
PROPERTIES
  EndsAreFinal
  RunsEndAndFreeTheirKeys
