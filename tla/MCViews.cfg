SPECIFICATION Spec
CONSTANTS
  s1 = s1
  s2 = s2
  None = None
  Servers <- MCServers
  MaxViews = 1
  MaxAsked = 0
  MaxPings = 2
  MaxPongs = 1
  MaxDels = 1
SYMMETRY Symmetry
INVARIANTS
  TypeOK
  ViewsLive
  OnlyStraysUsed
CHECK_DEADLOCK FALSE
