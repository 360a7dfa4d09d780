CONSTANTS
  Servers = {"s1", "s2"}
  MaxTickets = 2
  MaxChanges = 1
  MaxHellos = 1
  MaxLogOffs = 1
  MaxKills = 1
  InitiallyOn = {"s1", "s2"}
SPECIFICATION FairSpec
CHECK_DEADLOCK FALSE
INVARIANTS BoundByLiveTicket GoneMeansForgotten
PROPERTIES FirstWelcomeWipesNothing ServerCatchesUp
