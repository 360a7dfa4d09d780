CONSTANTS
  ClientUsers = {"player"}
  ServerUsers = {}
  Available = {"inventory", "serverGC"}
  Failed = {"failure"}
  Other = {"overlay"}
  ServerFlagged = {"serverGC"}
  MaxSessions = 2
  MaxMessages = 2
  MaxRegistered = 3
SPECIFICATION FairHooksSpec
CHECK_DEADLOCK FALSE
INVARIANTS OneCoordinator EachToldOnce
PROPERTIES ReadInTheEnd
