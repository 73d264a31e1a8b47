SPECIFICATION Spec
CONSTANTS
  s1 = s1
  s2 = s2
  NoServer = NoServer
  Servers <- MCServers
  WaitTime = 2
  MaxDialogs = 2
  MaxGames = 2
  MaxNested = 2
INVARIANTS
  TypeOK
  LockMatches
  BusyIsLocked
  OneGame
PROPERTIES
  BusyEnds
CHECK_DEADLOCK FALSE
