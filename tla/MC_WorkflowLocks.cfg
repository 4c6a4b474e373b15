SPECIFICATION MCSpec
CONSTANTS
  Cases = {"fork", "canceled"}
  Steps = {1, 2, 3, 4, 5}
  External = {4}
  Edges <- Fork
  OnSuccess <- ForkSuccess
  Appended = {5}
  Window = 4
  Clients <- MCClients
  MaxTries = 1
CHECK_DEADLOCK FALSE
INVARIANTS
  NoEndIsLost
  CancelWaitsAreBounded
PROPERTY
  CommitsAreAtomic
