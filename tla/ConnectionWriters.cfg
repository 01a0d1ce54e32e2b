SPECIFICATION Spec
CONSTANTS
  Conns = {c1}
  SendQueueCapacity = 2
  HelloTimeout = 1
  HeartbeatInterval = 1
  HeartbeatTimeout = 2
CHECK_DEADLOCK FALSE
INVARIANT OneDataWriter
