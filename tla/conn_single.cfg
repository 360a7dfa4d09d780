CONSTANTS
  MaxConns = 1
  MaxSockets = 4
  MaxFaults = 2
  MaxInbox = 2
  MAX_RECONNECT_ATTEMPTS = 1
  HeartbeatInterval = 1
  HeartbeatTimeout = 2
  CallsMayFail = TRUE
  Junk = 99
  InitialHandles = {0, 99}
SPECIFICATION FairSpec
CHECK_DEADLOCK FALSE
INVARIANTS SocketUsable LinkConsistent
PROPERTIES GivenUpStaysDown LostLinkIsReplaced ConnectionIsVerified
