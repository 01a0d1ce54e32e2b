SPECIFICATION Spec
CONSTANTS
  Users = {u1, u2}
  Requests = {r1}
  MaxVersion = 4
  MaxCommands = 4
INVARIANTS TypeOK BarredForGood
PROPERTY CatchesUp
CHECK_DEADLOCK FALSE
