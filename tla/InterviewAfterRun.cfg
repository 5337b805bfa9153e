SPECIFICATION MCSpec
CONSTANTS
  h = h
  c = c
  Hosts = {h}
  Candidates = {c}
  Policy = "after-run"
  MaxClicks = 1
  MaxLoads = 4
  NoView = NoView
  old = old
  new = new
  a = a
  Migrators = {old, new}
  Files <- MCFiles
  Needed = 3
  Replicas = {a}
  CacheTime = 2
  HeartbeatTime = 3
  QueryTime = 2
  RetentionDays = 0
  MaxBackupAge = 0
  MaxRestoreAge = 1
  Configs = {1, 2}
  MaxTime = 1
  MaxStarts = 4
  MaxQueued = 2
  MaxStored = 2
  MaxShared = 1
  MaxDaily = 2
  MaxMonthly = 3
  MaxCostCents = 4
  MaxCalls = 6
CHECK_DEADLOCK FALSE
INVARIANTS RevealIsEarned AppliedOnceInOrder GateTellsTheTruth
  StoresAgree
PROPERTIES RevealIsKept
