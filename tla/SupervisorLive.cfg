SPECIFICATION SVFairSpec
CONSTANTS
  a = a
  j = j
  a1 = a1
  a2 = a2
  j1 = j1
  j2 = j2
  c1 = c1
  None = None
  Service = {a, j}
  Run = {a1, j1}
  SvcOf <- MCSvcOf
  Restart <- MCNever
  MaxRestarts <- MCMaxRestarts
  DependsOn <- MCDependsOn
  WaitAfter <- MCWaitAfter
  Required = {a}
  Oneshot = {j}
  MayNotStart = {a, j}
  PreScript = {}
  PreMayFail = {}
  PostScript = {a}
  Monitored = {a}
  Flaky = {}
  Retries = 1
  ServerMayFail = FALSE
  Client = {}
  Restartable = {}
ACTION_CONSTRAINT InOrder
INVARIANTS
  SVTypeOK
  DependenciesFirst
  OneVerdict
  VerdictGiven
  WaitGroupExact
PROPERTIES
  ShutdownEnds
  SignalledExits
  DependentsReleased
