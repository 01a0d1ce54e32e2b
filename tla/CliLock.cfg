SPECIFICATION Spec
CONSTANTS
  Commands = {c1, c2, c3}
  MaxAttempts = 3
INVARIANT OneHolder
CHECK_DEADLOCK FALSE
