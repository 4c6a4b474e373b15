SPECIFICATION MCSpec
CONSTANTS
  Cases = {"apart"}
  Steps = {1, 2, 3, 4}
  External = {}
  Edges <- Apart
  OnSuccess <- Apart
  Appended = {}
  Window = 1
  Clients <- MCClients
  MaxTries = 1
CHECK_DEADLOCK FALSE
INVARIANT
  CompletionsDoNotDeadlock
