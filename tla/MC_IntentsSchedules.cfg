CONSTANTS
  k1 = k1
  k2 = k2
  a = a
  b = b
  m = m
  Keys = {k1, k2}
  Requests = {a, b, m}
  Malformed = {m}
  MaxGen = 3
  NoRow = NoRow
  Clients = {c1, c2}
  Promoters = {p1, p2}
  Retainers = {r1}
  Calls <- MCCalls
  BatchLimit = 2
  Sessions = {s1, s2}
  Names = {"n1", "n2"}
  Types = {"t1", "t2"}
  Crons = {"often", "seldom"}
  Bases <- MCBases
  Jitter <- MCJitter
  MaxJitter = 2
  RetryDelay = 2
  Operations <- MCOperations
  MaxTime = 4
  MaxCursorWrites = 1
  None = None
SPECIFICATION MCSpec
SYMMETRY MCSymmetry
INVARIANTS
  IntentsAreSound
  NoWaitCycle
PROPERTIES
  ImplementsLedger
  
