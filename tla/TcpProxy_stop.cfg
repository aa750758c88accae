SPECIFICATION Spec
CONSTANTS
  Conns = {c1, c2}
INVARIANTS
  StopCleansUp
