CONSTANTS
  MaxConns = 1
  MaxSockets = 3
  MaxFaults = 1
  MaxInbox = 1
  MAX_RECONNECT_ATTEMPTS = 1
  HeartbeatInterval = 1
  HeartbeatTimeout = 2
  CallsMayFail = FALSE
  Junk = 99
  InitialHandles = {0}
SPECIFICATION Spec
CHECK_DEADLOCK FALSE
PROPERTIES LossIsOwn
