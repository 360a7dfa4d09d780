------------------------------ MODULE Inventory ------------------------------
(***************************************************************************)
(* Inventory (src/csgo_gc/inventory.cpp): the player's items and default   *)
(* equips, and the operations on them that a local game coordinator        *)
(* answers itself.  Each operation changes the inventory and fills in the  *)
(* messages by which its caller lets the game know; "game" is what the     *)
(* game makes of those messages.  A failed operation sends none.           *)
(*                                                                         *)
(* Builds with NDEBUG are modelled: an assert(false) before a return is no *)
(* step.  An item's id is its high half; the low half is the account's     *)
(* and the same for all.                                                   *)
(***************************************************************************)
EXTENDS Naturals, SequencesExt, FiniteSetsExt

CONSTANTS
  IdRange,       \* the number of high ids: 2^32 in the code
  FirstDefault,  \* the first high id that reads as a default item
  Places,        \* pairs of a class and a slot
  GraffitiPlace, \* class 0, LoadoutSlotGraffiti
  DefaultDefs,   \* definitions of default items
  StickerSlots,
  ScrapesToRemove, \* the scrapes that wear a sticker off
  Caches,        \* the inventories the remote coordinator may send
  RequestKinds,  \* the operations the game asks for of those modelled
  MaxRequests,   \* operations the game asks for (a bound)
  MaxBuilds      \* caches built (a bound)

ASSUME IdAssumption ==
  IdRange \in Nat /\ FirstDefault \in 1..IdRange

ASSUME PlaceAssumption == GraffitiPlace \in Places

\* The coordinator keeps to the same rules: ids of items do not read as default items,
\* and a place of its loadout holds one thing.
ASSUME CacheAssumption ==
  \A cache \in Caches :
    /\ DOMAIN cache.items \subseteq 0..(FirstDefault - 1)
    /\ cache.equips \subseteq [def : DefaultDefs, place : Places]
    /\ \A place \in Places :
         LET holders == {id \in DOMAIN cache.items : place \in cache.items[id].equipped}
         IN /\ \A a, b \in holders : a = b
            /\ \A d, e \in cache.equips : d.place = place /\ e.place = place => d = e
            /\ holders = {} \/ \A e \in cache.equips : e.place # place
    /\ \A id \in DOMAIN cache.items :
         DOMAIN cache.items[id] = {"kind", "clone", "named", "attributes", "equipped", "position"}

NoDef == 0
ASSUME DefaultAssumption == NoDef \notin DefaultDefs

Ids == 0..(IdRange - 1)
Kinds == {"sealed spray", "spray", "crate", "gun", "sticker", "patch"}

\* An attribute: its meaning, the sticker slot it is about (0 if none), its value.
Attribute(of, slot, value) == [of |-> of, slot |-> slot, value |-> value]

\* A fresh item of a kind.  "clone" is rarity RarityDefault.
NewItem(kind, clone) ==
  [kind |-> kind, clone |-> clone, named |-> FALSE, attributes |-> <<>>,
   equipped |-> {}, position |-> 0]

VARIABLES
  items,         \* m_items: id -> item
  equips,        \* m_defaultEquips, as a set of [def, place]
  last,          \* m_lastHighItemId
  stored,        \* m_serverSOCacheData: {} or {a cache}
  game,          \* what the game has been told: [items, equips]
  untold,        \* items changed by code that told nobody
  used,          \* every id an item has had
  requests, builds

vars == <<items, equips, last, stored, game, untold, used, requests, builds>>

Held == DOMAIN items

-----------------------------------------------------------------------------
(* News for the game: the messages an operation fills in, in order.        *)

ItemNews(id, item) == [what |-> "item", of |-> id, item |-> item]
GoneNews(id) == [what |-> "gone", of |-> id]
EquipNews(place, def) == [what |-> "equip", of |-> place, def |-> def]

With(f, id, item) == [i \in DOMAIN f \cup {id} |-> IF i = id THEN item ELSE f[i]]
Without(f, id) == [i \in DOMAIN f \ {id} |-> f[i]]

\* What the messages are about: items, by their ids, or places of the default equips.
OfItems == {"item", "gone"}
OfEquips == {"equip"}
About(news, whats, object) ==
  {i \in DOMAIN news : news[i].what \in whats /\ news[i].of = object}
Named(news, whats) == {news[i].of : i \in {j \in DOMAIN news : news[j].what \in whats}}

\* The last message about an object counts.
Final(news, whats, object) == news[Max(About(news, whats, object))]

\* The game's copy after the messages of an operation.
Heard(g, news) ==
  LET told == Named(news, OfItems)
      gone == {id \in told : Final(news, OfItems, id).what = "gone"}
  IN [items |-> [id \in (DOMAIN g.items \cup told) \ gone |->
                   IF id \in told THEN Final(news, OfItems, id).item ELSE g.items[id]],
      equips |-> [place \in Places |->
                    IF place \in Named(news, OfEquips)
                    THEN Final(news, OfEquips, place).def ELSE g.equips[place]]]

Tell(news) ==
  /\ game' = Heard(game, news)
  /\ untold' = untold \ Named(news, OfItems)

Request(kind) ==
  /\ kind \in RequestKinds
  /\ requests < MaxRequests
  /\ requests' = requests + 1
  /\ UNCHANGED <<stored, builds>>

-----------------------------------------------------------------------------
(* Ids.                                                                    *)

IsDefaultItemId(id) == id >= FirstDefault

\* CreateItem steps over ids that read as default items and ids in use,
\* wrapping at the width of the id.  With none left it would not return.
DefaultOnly(id) == IsDefaultItemId(id)
Taken(id) == IsDefaultItemId(id) \/ id \in Held

Incremented == (last + 1) % IdRange
\* The ids passed on the way to one, and the one the loop stops at.
Passed(id) == (id + IdRange - Incremented) % IdRange
IsFirstFree(id) == ~ Taken(id) /\ \A k \in Ids : Passed(k) < Passed(id) => Taken(k)

CanCreate == \E id \in Ids : IsFirstFree(id)
NewId == CHOOSE id \in Ids : IsFirstFree(id)
LastAfter == IF NewId > Incremented THEN NewId ELSE Incremented

\* CreateItem(0, item): the item under a new id.
CreateItem == /\ CanCreate
              /\ last' = LastAfter
              /\ used' = used \cup {NewId}

NoNewItem == UNCHANGED <<last, used>>

-----------------------------------------------------------------------------
(* Equipping.                                                              *)

Holders(its, place) == {id \in DOMAIN its : place \in its[id].equipped}
NoDefaultsAt(place) == {}
DefaultsAt(place) == {e \in equips : e.place = place}

Freed(its, place) ==
  [id \in DOMAIN its |-> IF id \in Holders(its, place)
                        THEN [its[id] EXCEPT !.equipped = @ \ {place}] ELSE its[id]]

\* UnequipItem(class, slot): every item and default equip gives the place up.  The
\* message about a default equip names definition 0.
UnequippedSilently(place) == <<>>
UnequipDefaultNews(place) == [i \in 1..Cardinality(DefaultsAt(place)) |-> EquipNews(place, NoDef)]

UnequipNews(its, place) ==
  SetToSeq({ItemNews(id, Freed(its, place)[id]) : id \in Holders(its, place)})
    \o UnequipDefaultNews(place)

\* The rest of EquipItem once the item is found: the place is freed, then filled.
Equipped(its, id, place) ==
  LET free == Freed(its, place) IN [free EXCEPT ![id].equipped = @ \cup {place}]

EquippedNews(its, id, place) ==
  UnequipNews(its, place) \o <<ItemNews(id, Equipped(its, id, place)[id])>>

EquipItem(id, place) ==
  /\ Request("equip")
  /\ id \in Held            \* otherwise nothing is modified
  /\ items' = Equipped(items, id, place)
  /\ equips' = equips \ DefaultsAt(place)
  /\ Tell(EquippedNews(items, id, place))
  /\ NoNewItem

EquipDefault(def, place) ==
  /\ Request("equip")
  /\ items' = Freed(items, place)
  /\ equips' = (equips \ DefaultsAt(place)) \cup {[def |-> def, place |-> place]}
  /\ Tell(UnequipNews(items, place) \o <<EquipNews(place, def)>>)
  /\ NoNewItem

UnequipPlace(place) ==
  /\ Request("equip")
  /\ items' = Freed(items, place)
  /\ equips' = equips \ DefaultsAt(place)
  /\ Tell(UnequipNews(items, place))
  /\ NoNewItem

UnequipItem(id) ==
  /\ Request("equip")
  /\ id \in Held
  /\ items' = [items EXCEPT ![id].equipped = {}]
  /\ Tell(<<ItemNews(id, items'[id])>>)
  /\ NoNewItem
  /\ UNCHANGED equips

-----------------------------------------------------------------------------
(* Opening, deleting, moving.                                              *)

\* A sealed spray becomes a spray under a new id, equipped at once.  The sprays it
\* has left are noted last, when the message about it has been filled in.
SpraysLeft == 50
UseItem(id) ==
  /\ Request("use")
  /\ id \in Held /\ items[id].kind = "sealed spray"
  /\ CreateItem
  /\ LET opened == [items[id] EXCEPT !.kind = "spray"]
         its == Without(With(items, NewId, opened), id)
         left == Attribute("sprays", 0, SpraysLeft)
         news == <<GoneNews(id)>> \o EquippedNews(its, NewId, GraffitiPlace)
     IN /\ items' = [Equipped(its, NewId, GraffitiPlace)
                       EXCEPT ![NewId].attributes = Append(@, left)]
        /\ game' = Heard(game, news)
        /\ untold' = (untold \ Named(news, OfItems)) \cup {NewId}
  /\ equips' = equips \ DefaultsAt(GraffitiPlace)

\* What comes out is the schema's choice.
UnlockCrate(id, found) ==
  /\ Request("unlock")
  /\ id \in Held /\ items[id].kind = "crate"
  /\ CreateItem
  /\ items' = Without(With(items, NewId, found), id)
  /\ Tell(<<ItemNews(NewId, found), GoneNews(id)>>)
  /\ UNCHANGED equips

DeleteItem(id) ==
  /\ Request("delete")
  /\ id \in Held
  /\ items' = Without(items, id)
  /\ Tell(<<GoneNews(id)>>)
  /\ NoNewItem
  /\ UNCHANGED equips

\* Two items are moved.  When the second is not found the first has been moved
\* already, and the message about it is dropped with the rest.
SetItemPositions(first, second, position) ==
  /\ Request("move")
  /\ first \in Held
  /\ LET one == [items EXCEPT ![first].position = position]
         both == [one EXCEPT ![second].position = position]
     IN IF second \in Held
        THEN /\ items' = both
             /\ Tell(<<ItemNews(first, one[first]), ItemNews(second, both[second])>>)
        ELSE /\ items' = one
             /\ untold' = untold \cup {first}
             /\ UNCHANGED game
  /\ NoNewItem
  /\ UNCHANGED equips

-----------------------------------------------------------------------------
(* Stickers, names and kill counts.                                        *)

Kits(item) == {i \in DOMAIN item.attributes :
                 item.attributes[i].of = "sticker" /\ item.attributes[i].slot = 0}

Stuck(item, slot, sticker) ==
  [item EXCEPT !.attributes =
     @ \o <<Attribute("sticker", slot, sticker.attributes[Min(Kits(sticker))].value)>>
       \o (IF sticker.kind = "patch" THEN <<>> ELSE <<Attribute("wear", slot, 0)>>)]

ApplySticker(id, slot, sticker) ==
  /\ Request("sticker")
  /\ sticker \in Held /\ Kits(items[sticker]) # {}
  /\ id \in Held
  /\ items' = [items EXCEPT ![id] = Stuck(@, slot, items[sticker])]
  /\ Tell(<<ItemNews(id, items'[id])>>)
  /\ NoNewItem
  /\ UNCHANGED equips

\* On a weapon of the game's own, a clone of it is made to hold the sticker -- before
\* the sticker is known to be one.
ApplyToBase(slot, sticker) ==
  /\ Request("sticker")
  /\ sticker \in Held
  /\ CreateItem
  /\ LET base == NewItem("gun", TRUE)
     IN IF Kits(items[sticker]) # {}
        THEN /\ items' = With(items, NewId, Stuck(base, slot, items[sticker]))
             /\ Tell(<<ItemNews(NewId, items'[NewId])>>)
        ELSE /\ items' = With(items, NewId, base)
             /\ untold' = untold \cup {NewId}
             /\ UNCHANGED game
  /\ UNCHANGED equips

Wears(item, slot) == {i \in DOMAIN item.attributes :
                        item.attributes[i].of = "wear" /\ item.attributes[i].slot = slot}

RemoveStickerAttributes(item, slot) ==
  [item EXCEPT !.attributes =
     SelectSeq(@, LAMBDA a : ~ (a.of \in {"sticker", "wear"} /\ a.slot = slot))]

\* DestroyItem or, for an item that is not a clone, the message about what is left.
RestToldOnly(id, rest) ==
  /\ items' = IF items[id].clone THEN Without(items, id) ELSE [items EXCEPT ![id] = rest]
  /\ Tell(<<ItemNews(id, rest)>>)
TakeOff(id, rest) ==
  IF items[id].clone
  THEN items' = Without(items, id) /\ Tell(<<GoneNews(id)>>)
  ELSE items' = [items EXCEPT ![id] = rest] /\ Tell(<<ItemNews(id, rest)>>)

ScrapeSticker(id, slot) ==
  /\ Request("scrape")
  /\ id \in Held
  /\ LET wears == Wears(items[id], slot)
         wear == Min(wears)
         scraped == [items[id] EXCEPT !.attributes[wear].value = @ + 1]
     IN IF wears = {} \/ items[id].attributes[wear].value + 1 >= ScrapesToRemove
        THEN TakeOff(id, RemoveStickerAttributes(items[id], slot))
        ELSE /\ items' = [items EXCEPT ![id] = scraped]
             /\ Tell(<<ItemNews(id, scraped)>>)
  /\ NoNewItem
  /\ UNCHANGED equips

NameItem(id) ==
  /\ Request("name")
  /\ id \in Held
  /\ items' = [items EXCEPT ![id].named = TRUE]
  /\ Tell(<<ItemNews(id, items'[id])>>)
  /\ NoNewItem
  /\ UNCHANGED equips

NameBaseItem ==
  /\ Request("name base")
  /\ CreateItem
  /\ items' = With(items, NewId, [NewItem("gun", TRUE) EXCEPT !.named = TRUE])
  /\ Tell(<<ItemNews(NewId, items'[NewId])>>)
  /\ UNCHANGED equips

RemoveItemName(id) ==
  /\ Request("unname")
  /\ id \in Held
  /\ TakeOff(id, [items[id] EXCEPT !.named = FALSE])
  /\ NoNewItem
  /\ UNCHANGED equips

IncrementKillCountAttribute(id) ==
  /\ Request("kill")
  /\ id \in Held
  /\ LET counts == {i \in DOMAIN items[id].attributes : items[id].attributes[i].of = "kills"}
     IN /\ counts # {}
        /\ items' = [items EXCEPT ![id].attributes[Min(counts)].value = @ + 1]
  /\ Tell(<<ItemNews(id, items'[id])>>)
  /\ NoNewItem
  /\ UNCHANGED equips

-----------------------------------------------------------------------------
(* The cache of the remote coordinator.                                    *)

StoreCacheSubscription(cache) ==
  /\ stored' = {cache}
  /\ stored # {cache}
  /\ UNCHANGED <<items, equips, last, game, untold, used, requests, builds>>

\* The stored cache becomes the inventory, and is what the game is sent.  It is taken
\* to have an entry for items and one for default equips, as the coordinator's has.
\* m_lastHighItemId is left alone.
BuildCacheSubscription ==
  /\ builds < MaxBuilds
  /\ builds' = builds + 1
  /\ \E cache \in stored :
       /\ items' = cache.items
       /\ equips' = cache.equips
       /\ used' = used \cup DOMAIN cache.items
       /\ game' = [items |-> cache.items,
                   equips |-> [p \in Places |->
                     IF \E e \in cache.equips : e.place = p
                     THEN (CHOOSE e \in cache.equips : e.place = p).def ELSE NoDef]]
  /\ untold' = {}
  /\ UNCHANGED <<last, stored, requests>>

-----------------------------------------------------------------------------

Init ==
  /\ items = <<>> /\ equips = {} /\ last = 0
  /\ stored = {}
  /\ game = [items |-> <<>>, equips |-> [p \in Places |-> NoDef]]
  /\ untold = {} /\ used = {}
  /\ requests = 0 /\ builds = 0

\* The game names items it has seen, among them some that are gone by now.
Next ==
  \/ \E cache \in Caches : StoreCacheSubscription(cache)
  \/ BuildCacheSubscription
  \/ NameBaseItem
  \/ \E place \in Places :
       \/ UnequipPlace(place)
       \/ \E def \in DefaultDefs : EquipDefault(def, place)
  \/ \E slot \in StickerSlots, sticker \in used : ApplyToBase(slot, sticker)
  \/ \E id \in used :
       \/ UnequipItem(id) \/ UseItem(id) \/ DeleteItem(id)
       \/ UnlockCrate(id, NewItem("gun", FALSE))
       \/ NameItem(id) \/ RemoveItemName(id) \/ IncrementKillCountAttribute(id)
       \/ \E place \in Places : EquipItem(id, place)
       \/ \E slot \in StickerSlots :
            ScrapeSticker(id, slot) \/ \E sticker \in used : ApplySticker(id, slot, sticker)
       \/ \E second \in used \ {id} : SetItemPositions(id, second, 1)

Spec == Init /\ [][Next]_vars

-----------------------------------------------------------------------------
(* Properties.                                                             *)

\* A place of the loadout holds one thing at most, whatever sequence of equips, uses
\* and cases led there: an item or a default equip, and not two of either.
OnePerPlace ==
  \A place \in Places :
    /\ \A a, b \in Holders(items, place) : a = b
    /\ \A d, e \in equips : d.place = place /\ e.place = place => d = e
    /\ Holders(items, place) = {} \/ \A e \in equips : e.place # place

\* The messages the operations fill in keep the game's copy equal to the inventory:
\* the same items with the same contents and the same default equips; all but the
\* items "untold" names.
GameAgrees ==
  /\ \A id \in Ids \ untold :
       /\ id \in Held <=> id \in DOMAIN game.items
       /\ id \in Held => game.items[id] = items[id]
  /\ \A place \in Places, def \in DefaultDefs :
       [def |-> def, place |-> place] \in equips <=> game.equips[place] = def

\* An item stays what it is until it is destroyed: no item that is created, whatever
\* ids the cache brought and however often the counter wrapped, takes its place, nor an
\* id that an equip request would read as a default item's.
NoItemReplaced ==
  [][builds' = builds =>
       \A id \in DOMAIN items' :
         IF id \in Held
           THEN /\ items'[id].kind = items[id].kind
                /\ items'[id].clone = items[id].clone
           ELSE ~ IsDefaultItemId(id)]_vars

\* No item gets an id that an equip request would read as a default item's.
NoItemReadsAsDefault == \A id \in Held : ~ IsDefaultItemId(id)
=============================================================================
