SPECIFICATION OUFairSpec
CONSTANTS
  t1 = t1
  t2 = t2
  d1 = d1
  d2 = d2
  Task = {t1}
  Descendant = {d1}
  ParentOf <- MCParentOf
  PidOf <- MCPidOf
  Batch = 1
  Supervised = {t1}
  Terminal = {t1}
  Pieces = 2
  Overlong = {1}
  Capacity = 1
INVARIANTS
  OUTypeOK
  StatusSafe
  GroupDiesTogether
PROPERTIES
  OrphansCollected
  StopReturns
  OutputFlows
