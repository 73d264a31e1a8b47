SPECIFICATION Spec
CONSTANTS
  s1 = s1
  s2 = s2
  None = None
  Servers <- MCServers
  MaxViews = 0
  MaxAsked = 0
  MaxPings = 1
  MaxPongs = 0
  MaxDels = 1
SYMMETRY Symmetry
INVARIANT LockedKept
CHECK_DEADLOCK FALSE
