SPECIFICATION Spec
CONSTANTS
  Runs = {r1, r2}
  p1 = p1
  p2 = p2
  s1 = s1
  s2 = s2
  Procs = {p1, p2}
  Slots = {s1, s2}
  HostOf <- TwoProcesses
  MaxQueued = 1
  MaxStored = 1
  MaxAttempts = 2
  Timeout = 1
  Grace = 3
  Delay = 1
  NoRun = NoRun
SYMMETRY RunSymmetry
INVARIANTS OneWorkerPerRun WorkIsNotLost WithinLimits
PROPERTIES RefinesLedger
