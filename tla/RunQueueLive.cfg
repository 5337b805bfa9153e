SPECIFICATION FairSpec
CONSTANTS
  Runs = {r1, r2}
  p1 = p1
  p2 = p2
  s1 = s1
  s2 = s2
  Procs = {p1}
  Slots = {s1}
  HostOf <- OneSlot
  MaxQueued = 2
  MaxStored = 2
  MaxAttempts = 2
  Timeout = 0
  Grace = 0
  Delay = 1
  NoRun = NoRun
PROPERTIES OutcomeIsFinal RunsSettle
