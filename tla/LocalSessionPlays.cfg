SPECIFICATION PlayingSystem
CONSTANTS
  Parts = {"session", "replay", "workbench"}
  Simulate <- CausalEngine
  Frames <- Causes
  Events <- Causes
  LastSecond = 2
  BatchSize = 1
  EventSeconds = {1}
  Lags = {0}
  Kinds = {"inject-incident"}
  MaxActions = 1
  MaxRuns = 1
  MaxQueue = 2
  NoRun = NoRun
  NoFork = NoFork
  NoResult = NoResult
  Slices <- SlicesOf
  Digesting <- DigestingOf
  MaxJobs = 2
  NoJob = NoJob
  Files = {f1, f2}
  Readable = {f1, f2}
  Compatible = {f1, f2}
  MaxReads = 2
  None = None
  MaxRevision = 1
  Nothing = Nothing
  MaxObjectives = 2
  MaxEdits = 1
  MaxAsked = 1
CHECK_DEADLOCK FALSE
PROPERTIES WaitingEnds
