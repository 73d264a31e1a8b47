SPECIFICATION Spec
CONSTANTS
  a1 = a1
  a2 = a2
  c1 = c1
  c2 = c2
  c3 = c3
  Addrs <- MCAddrs
  Conns <- MCConns
  DefaultConn <- MCDefaultConn
  MaxInfos = 2
  MaxList = 2
  MaxIds = 2
  MaxEarlier = 1
SYMMETRY Symmetry
INVARIANTS
  TypeOK
  IdsCoverLists
  DanglingOnlyIfTwice
  ListsSound
  AnswerReplaces
  RestartKeeps
CHECK_DEADLOCK FALSE
