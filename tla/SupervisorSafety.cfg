SPECIFICATION SVSpec
CONSTANTS
  a = a
  j = j
  a1 = a1
  a2 = a2
  j1 = j1
  j2 = j2
  c1 = c1
  None = None
  Service = {a}
  Run = {a1, a2}
  SvcOf <- MCSvcOf
  Restart <- MCRestart
  MaxRestarts <- MCMaxRestarts
  DependsOn <- MCDependsOn
  WaitAfter <- MCWaitAfter
  Required = {a}
  Oneshot = {}
  MayNotStart = {}
  PreScript = {a}
  PreMayFail = {a}
  PostScript = {}
  Monitored = {a}
  Flaky = {}
  Retries = 1
  ServerMayFail = TRUE
  Client = {c1}
  Restartable = {a}
ACTION_CONSTRAINTS
  InOrder
  OneMonitor
INVARIANTS
  SVTypeOK
  FailureExitsOne
  AcceptorStops
  ListedTruly
PROPERTIES
  LCSpec
  AckedInTime
