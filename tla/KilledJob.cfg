SPECIFICATION SVSpec
CONSTANTS
  a = a
  j = j
  a1 = a1
  a2 = a2
  j1 = j1
  j2 = j2
  c1 = c1
  None = None
  Service = {a, j}
  Run = {a1, j1, j2}
  SvcOf <- MCSvcOf
  Restart <- MCRestart
  MaxRestarts <- MCMaxRestarts
  DependsOn <- MCDependsOn
  WaitAfter <- MCWaitAfter
  Required = {a}
  Oneshot = {j}
  MayNotStart = {}
  PreScript = {}
  PreMayFail = {}
  PostScript = {}
  Monitored = {}
  Flaky = {}
  Retries = 1
  ServerMayFail = FALSE
  Client = {c1}
  Restartable = {j}
ACTION_CONSTRAINT InOrder
INVARIANTS
  DependenciesFirst
