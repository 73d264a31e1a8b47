SPECIFICATION Spec
CONSTANTS
  s1 = s1
  s2 = s2
  None = None
  Servers <- MCServers
  MaxViews = 0
  MaxAsked = 2
  MaxPings = 2
  MaxPongs = 1
  MaxDels = 0
SYMMETRY Symmetry
INVARIANTS
  WantedIsPinged
  SearchProgress
CHECK_DEADLOCK FALSE
