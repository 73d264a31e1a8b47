SPECIFICATION Spec
CONSTANTS
  s1 = s1
  s2 = s2
  a1 = a1
  a2 = a2
  a3 = a3
  NoHandle = NoHandle
  NoSession = NoSession
  Sessions <- MCOne
  Handles <- MCThreeHandles
  TermCount = 1
  MaxEvents = 4
INVARIANTS
  LiveIsKnown
PROPERTIES
  LossNoticed
  ShutdownEnds
CHECK_DEADLOCK FALSE
