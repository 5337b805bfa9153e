SPECIFICATION Spec
CONSTANTS
  MaxRuns = 2
  MaxEdits = 1
  Frames = 2
CHECK_DEADLOCK FALSE
INVARIANTS PlayingIsShown
