SPECIFICATION FairSpec
CONSTANTS
  a = a
  b = b
  Requests = {a, b}
  r1 = r1
  r2 = r2
  Replicas = {r1, r2}
  MaxConcurrentRequests <- Gates
  MaxConcurrentSolves = 1
  MaxDaily = 1
  MaxMonthly = 2
  Cost = 2
  MaxMonthlyCost = 3
  DaysPerMonth = 2
  MaxShared = 1
  LinkDays = 1
  MaxDay = 2
CHECK_DEADLOCK FALSE
INVARIANTS CountersMatch BudgetHolds
PROPERTIES AdmittedEnds
