SPECIFICATION Spec
CONSTANTS
  Players = {1, 2}
  Faults = {"lose", "reorder", "garble"}
  MaxNet = 4
INVARIANTS
  TypeOK
  CompleteReport
  RowsSound
PROPERTIES
  Recovers
CHECK_DEADLOCK FALSE
