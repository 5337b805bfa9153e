SPECIFICATION MCSpec
CONSTANTS
  r1 = r1
  r2 = r2
  r3 = r3
  r4 = r4
  t1 = t1
  t2 = t2
  in = in
  out1 = out1
  out2 = out2
  small = small
  wide = wide
  None = None
  NoInputs = NoInputs
  Tabs = {t1, t2}
  RunIds = {r1, r2, r3, r4}
  InputsOf <- Inputs
  OutputOf <- Outputs
  MaxEntries = 2
  MaxBytes = 5
  MaxStarred = 1
  Retention = 2
  RecordBytes = 1
  BundleBytes = 2
  MaxTime = 3
  Architectures = {small, wide}
  DefaultArchitecture = small
  HistoryLimit = 2
  MaxRequests = 2
  MaxSteps = 6
  MaxRuns = 3
  MaxEdits = 1
  Frames = 2
  DefaultDesign <- SmallDesign
  Words = {"api", "db", "e-api-db"}
  Palette = {"users", "database"}
  MaxNodes = 4
  MaxEdges = 4
  MaxCommits = 3
  MaxChosen = 2
  Undone = 1
  ReadHeavy = TRUE
  WritesMatter = TRUE
  NoId = NoId
  Browsers <- MCBrowsers
  Drafts <- MCDrafts
  TooLarge = {wide}
  MaxCompleted = 2
  MaxFiles = 1
  MaxActions = 1
  MaxMoves = 1
  NoEvidenceYet = NoEvidenceYet
CHECK_DEADLOCK FALSE
INVARIANT DraftIsReadable
