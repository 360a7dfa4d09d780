CONSTANTS
  Items = {"i1"}
  Slots = {"s1"}
  InitialObjects = {}
  RequestKinds = {"profile", "commendQuery", "commend", "reportPlayer", "equip", "use", "sticker",
                  "store", "unlock", "craft", "name", "nameBase", "removeName", "delete",
                  "acknowledge", "priceSheet", "joinServer", "reportServer"}
  MaxHellos = 2
  MaxLosses = 1
  MaxChanges = 2
  MaxRequests = 1
  MaxServers = 1
  MaxMoves = 4
SPECIFICATION FairMirrorSpec
CHECK_DEADLOCK FALSE
INVARIANTS MirrorFaithful GameInStep
PROPERTIES ServerFollows GameCatchesUp RequestsAnswered MirrorsObjects
