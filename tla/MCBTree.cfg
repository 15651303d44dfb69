SPECIFICATION Spec
CONSTANTS
  T = 2
  Layouts = {2, 4}
  Keys = {1, 2, 3, 4, 5}
  Vals = {v1}
  Callers = {c1, c2}
  MaxBlock = 4
  Failures = {"alloc", "read", "write"}
  None = None
INVARIANTS
  TypeOK
  TreeSound
  
PROPERTIES
  IsMap
  
SYMMETRY Symmetry
CONSTRAINT Intact
CHECK_DEADLOCK FALSE
