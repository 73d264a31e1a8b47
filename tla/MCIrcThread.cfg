SPECIFICATION Spec
CONSTANTS
  s1 = s1
  s2 = s2
  a1 = a1
  a2 = a2
  a3 = a3
  NoHandle = NoHandle
  NoSession = NoSession
  Sessions <- MCTwo
  Handles <- MCTwoHandles
  TermCount = 1
  MaxEvents = 2
INVARIANTS
  TypeOK
  SectionFree
  KnownIsLive
PROPERTIES
  ConnectTried
CHECK_DEADLOCK FALSE
