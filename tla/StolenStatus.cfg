SPECIFICATION RPSpec
CONSTANTS
  t1 = t1
  t2 = t2
  d1 = d1
  d2 = d2
  Task = {t1, t2}
  Descendant = {d1, d2}
  ParentOf <- MCParentOf
  PidOf <- MCPidOf
  Batch = 1
INVARIANTS
  StatusPreserved
