SPECIFICATION LCFairSpec
CONSTANTS
  w = w
  w1 = w1
  w2 = w2
  w3 = w3
  w4 = w4
  None = None
  Service = {w}
  Run = {w1, w2, w3, w4}
  SvcOf <- MCSvcOf
  Restart <- MCRestart
  MaxRestarts <- MCMaxRestarts
  Required = {w}
  Oneshot = {}
  MayNotStart = {w}
ACTION_CONSTRAINT InOrder
INVARIANTS
  LCTypeOK
  SingleInstance
  RegistryExact
  WaitGroupExact
  RestartAccounting
  RestartBudget
PROPERTIES
  ImplementsContract
  StopRequestsEnd
  FailureNoticed
CHECK_DEADLOCK FALSE
