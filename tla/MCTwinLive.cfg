CONSTANTS
  f1 = f1
  f2 = f2
  t1 = t1
  t2 = t2
  s1 = s1
  s2 = s2
  File = {f1}
  Call = {s1}
  Task = {t1, t2}
  Invalidation = {v1}
  PoolSize = 2
  MaxContainers = 6
  MaxEdits = 0
  MaxCalls = 1
  MaxInvalidations = 1
  MaxFailures = 0
  MaxCrashes = 0
  Absent = Absent
  NoUnit = NoUnit
CHECK_DEADLOCK FALSE
SPECIFICATION FairSpec
PROPERTY PoolRefills
