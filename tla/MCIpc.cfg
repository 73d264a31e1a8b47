CONSTANTS
  None = None
  Programs = {p1, p2, p3}
SPECIFICATION Spec
INVARIANTS TypeOK ConnectionHeld
PROPERTY Served
