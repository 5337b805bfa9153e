SPECIFICATION FairSpec
CONSTANTS
  h = h
  c = c
  Hosts = {h}
  Candidates = {c}
  Policy = "interviewer-controlled"
  MaxClicks = 1
  MaxLoads = 3
  NoView = NoView
CHECK_DEADLOCK FALSE
PROPERTIES HostRevealSynchronizes
