CONSTANTS
  IdRange = 6
  FirstDefault = 5
  Places = {"rifle", "pistol", "graffiti"}
  GraffitiPlace = "graffiti"
  DefaultDefs = {1}
  StickerSlots = {0, 1}
  ScrapesToRemove = 2
  Caches <- SmallCaches
  RequestKinds = {"equip", "use", "unlock", "delete", "move", "sticker", "scrape", "name",
                  "name base", "unname", "kill"}
  MaxRequests = 4
  MaxBuilds = 1
SPECIFICATION Spec
CHECK_DEADLOCK FALSE
INVARIANTS OnePerPlace GameAgrees
PROPERTIES NoItemReplaced
