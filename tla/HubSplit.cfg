SPECIFICATION Spec
CONSTANTS
  Conns = {c1, c2}
  MaxHubs = 2
  MaxVersion = 9
INVARIANT OneHubPerUser
CHECK_DEADLOCK FALSE
