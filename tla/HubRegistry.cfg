SPECIFICATION Spec
CONSTANTS
  Conns = {c1, c2, c3}
  MaxHubs = 3
  MaxVersion = 2
INVARIANTS TypeOK LoopServes
CHECK_DEADLOCK FALSE
