SPECIFICATION Spec
CONSTANTS
  Conns = {c1}
  SendQueueCapacity = 2
  HelloTimeout = 1
  HeartbeatInterval = 1
  HeartbeatTimeout = 2
INVARIANTS TypeOK OpenIsWatched OnlyBreakerLeaks
PROPERTIES HelloOrTimeout DeadAreReaped ShutdownCompletes
CHECK_DEADLOCK FALSE
