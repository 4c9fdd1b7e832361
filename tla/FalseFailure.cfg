SPECIFICATION SVSpec
CONSTANTS
  a = a
  j = j
  a1 = a1
  a2 = a2
  j1 = j1
  j2 = j2
  c1 = c1
  None = None
  Service = {a}
  Run = {a1, a2}
  SvcOf <- MCSvcOf
  Restart <- MCNever
  MaxRestarts <- MCMaxRestarts
  DependsOn <- MCDependsOn
  WaitAfter <- MCWaitAfter
  Required = {a}
  Oneshot = {}
  MayNotStart = {}
  PreScript = {}
  PreMayFail = {}
  PostScript = {}
  Monitored = {a}
  Flaky = {}
  Retries = 1
  ServerMayFail = FALSE
  Client = {c1}
  Restartable = {a}
ACTION_CONSTRAINT InOrder
PROPERTIES
  FailureIsReal
