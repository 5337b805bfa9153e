SPECIFICATION FairSpec
CONSTANTS
  h = h
  c = c
  Hosts = {h}
  Candidates = {c}
  Policy = "interviewer-controlled"
  MaxClicks = 2
  MaxLoads = 2
  NoView = NoView
CHECK_DEADLOCK FALSE
INVARIANTS HostAgrees
PROPERTIES NeverRewinds CandidateFollows
