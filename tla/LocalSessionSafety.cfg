SPECIFICATION System
CONSTANTS
  Parts = {"session", "replay", "workbench", "designer"}
  Simulate <- CausalEngine
  Frames <- Causes
  Events <- Causes
  LastSecond = 2
  BatchSize = 1
  EventSeconds = {1}
  Lags = {0, 1}
  Kinds = {"inject-incident"}
  MaxActions = 2
  MaxRuns = 2
  MaxQueue = 2
  NoRun = NoRun
  NoFork = NoFork
  NoResult = NoResult
  Slices <- SlicesOf
  Digesting <- DigestingOf
  MaxJobs = 3
  NoJob = NoJob
  Files = {f1, f2, foreign, broken}
  Readable = {f1, f2, foreign}
  Compatible = {f1, f2}
  MaxReads = 4
  None = None
  MaxRevision = 2
  MaxObjectives = 3
  MaxEdits = 3
  MaxAsked = 2
  Nothing = Nothing
CHECK_DEADLOCK FALSE
INVARIANTS ShownStaysLocked AgreeWhenQuiet AnalysesAreCurrent DraftingIsSound
