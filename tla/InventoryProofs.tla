-------------------------- MODULE InventoryProofs --------------------------
(***************************************************************************)
(* Proofs about Inventory for any range of ids, places, definitions,       *)
(* caches and sequences of requests: a place holds one thing, no item has  *)
(* an id that reads as a default item, no item is replaced, and the        *)
(* messages keep the game's copy equal to the inventory.                   *)
(*                                                                         *)
(* An operation either gives places up and makes items that hold none      *)
(* (GivesUp), or fills one place that has just been freed (EquipItem,      *)
(* EquipDefault, UseItem), or takes over a cache of the coordinator.  For  *)
(* the game's copy, what an operation's messages say last of every object  *)
(* (Says, Silent) is compared with what has become of it (TellingRight).   *)
(***************************************************************************)
EXTENDS Inventory, FiniteSetTheorems, SequenceTheorems, TLAPS

Fields == {"kind", "clone", "named", "attributes", "equipped", "position"}

\* Items have the fields of one, and the stored cache is one of the coordinator's.
ItemsOK == \A id \in Held : DOMAIN items[id] = Fields
StoredOK == stored \subseteq Caches
BuildsOK == builds \in Nat

IInv == ItemsOK /\ StoredOK /\ BuildsOK /\ OnePerPlace /\ NoItemReadsAsDefault

\* What an item is stays.
Keeps == \A id \in Held \cap DOMAIN items' :
           /\ items'[id].kind = items[id].kind
           /\ items'[id].clone = items[id].clone

\* An item that was not there: it takes no place.
Fresh(item) == DOMAIN item = Fields /\ item.equipped = {}

\* Places are given up, and the items that are new hold none.
GivesUp ==
  /\ equips' \subseteq equips
  /\ \A id \in DOMAIN items' :
       /\ id \in Held =>
            /\ DOMAIN items'[id] = DOMAIN items[id]
            /\ items'[id].equipped \subseteq items[id].equipped
       /\ id \notin Held => Fresh(items'[id]) /\ ~ IsDefaultItemId(id)

\* Giving places up keeps the invariant.
LEMMA GivingUp == IInv /\ GivesUp /\ StoredOK' /\ BuildsOK' => IInv'
<1> SUFFICES ASSUME IInv, GivesUp, StoredOK', BuildsOK' PROVE IInv'
  OBVIOUS
<1> USE DEF IInv
<1>1. ItemsOK'
  BY DEF ItemsOK, GivesUp, Fresh, Held
<1>2. NoItemReadsAsDefault'
  BY DEF NoItemReadsAsDefault, GivesUp, Held, IsDefaultItemId
<1>3. \A place \in Places : Holders(items', place) \subseteq Holders(items, place)
  BY DEF Holders, GivesUp, Fresh, Held
<1>4. OnePerPlace'
  BY <1>3 DEF OnePerPlace, GivesUp
<1> QED
  BY <1>1, <1>2, <1>4

\* The id of a new item is free and reads as no default item's.
LEMMA NewIdFree == CanCreate => NewId \notin Held /\ ~ IsDefaultItemId(NewId)
BY DEF CanCreate, NewId, IsFirstFree, Taken

\* One item is replaced by a form of itself that holds no place the item did not.
LEMMA OneChanged ==
  ASSUME NEW id \in Held, NEW item, items' = [items EXCEPT ![id] = item],
         DOMAIN item = DOMAIN items[id], item.equipped \subseteq items[id].equipped,
         item.kind = items[id].kind, item.clone = items[id].clone,
         equips' = equips
  PROVE  GivesUp /\ Keeps
BY DEF GivesUp, Keeps, Held

\* One item is added and perhaps another removed.
LEMMA OneAdded ==
  ASSUME CanCreate, NEW item, Fresh(item), NEW gone,
         items' = Without(With(items, NewId, item), gone), equips' = equips
  PROVE  GivesUp /\ Keeps
BY NewIdFree DEF GivesUp, Keeps, Held, With, Without

LEMMA OnlyAdded ==
  ASSUME CanCreate, NEW item, Fresh(item), items' = With(items, NewId, item), equips' = equips
  PROVE  GivesUp /\ Keeps
BY NewIdFree DEF GivesUp, Keeps, Held, With

\* One item is removed.
LEMMA OneRemoved ==
  ASSUME NEW id, items' = Without(items, id), equips' = equips
  PROVE  GivesUp /\ Keeps
BY DEF GivesUp, Keeps, Held, Without

LEMMA NewItemFresh == \A kind, clone : Fresh(NewItem(kind, clone))
BY DEF Fresh, NewItem, Fields

-----------------------------------------------------------------------------
(* The operations that give places up.                                     *)

\* A place is freed of whatever holds it, and nothing else is changed.
LEMMA FreedEach ==
  ASSUME NEW its, \A i \in DOMAIN its : DOMAIN its[i] = Fields, NEW place
  PROVE  /\ DOMAIN Freed(its, place) = DOMAIN its
         /\ \A i \in DOMAIN its :
              /\ DOMAIN Freed(its, place)[i] = Fields
              /\ Freed(its, place)[i].equipped = its[i].equipped \ {place}
              /\ Freed(its, place)[i].kind = its[i].kind
              /\ Freed(its, place)[i].clone = its[i].clone
              /\ i \notin Holders(its, place) => Freed(its, place)[i] = its[i]
<1>1. /\ DOMAIN Freed(its, place) = DOMAIN its
      /\ \A i \in DOMAIN its :
           \/ Freed(its, place)[i] = [its[i] EXCEPT !.equipped = @ \ {place}]
           \/ Freed(its, place)[i] = its[i] /\ place \notin its[i].equipped
  BY DEF Freed, Holders
<1>2. \A i \in DOMAIN its : i \notin Holders(its, place) => Freed(its, place)[i] = its[i]
  BY DEF Freed
<1> QED
  BY <1>1, <1>2 DEF Fields

LEMMA UnequipPlaceGivesUp ==
  ASSUME ItemsOK, NEW place \in Places, UnequipPlace(place)
  PROVE  GivesUp /\ Keeps
<1>1. \A i \in DOMAIN items : DOMAIN items[i] = Fields
  BY DEF ItemsOK, Held
<1>2. items' = Freed(items, place) /\ equips' \subseteq equips
  BY DEF UnequipPlace
<1>3. /\ DOMAIN items' = Held
      /\ \A i \in Held :
           /\ DOMAIN items'[i] = DOMAIN items[i]
           /\ items'[i].equipped = items[i].equipped \ {place}
           /\ items'[i].kind = items[i].kind
           /\ items'[i].clone = items[i].clone
  BY <1>1, <1>2, FreedEach DEF Held
<1> QED
  BY <1>2, <1>3 DEF GivesUp, Keeps

LEMMA UnequipItemGivesUp ==
  ASSUME ItemsOK, NEW id, UnequipItem(id)
  PROVE  GivesUp /\ Keeps
<1>1. id \in Held /\ DOMAIN items[id] = Fields
  BY DEF UnequipItem, ItemsOK
<1> DEFINE item == [items[id] EXCEPT !.equipped = {}]
<1>2. /\ items' = [items EXCEPT ![id] = item]
      /\ equips' = equips
  BY DEF UnequipItem
<1>3. /\ DOMAIN item = DOMAIN items[id]
      /\ item.equipped = {}
      /\ item.kind = items[id].kind
      /\ item.clone = items[id].clone
  BY <1>1 DEF Fields
<1> HIDE DEF item
<1> QED
  BY <1>1, <1>2, <1>3, OneChanged

LEMMA UnlockCrateGivesUp ==
  ASSUME NEW id, NEW found, Fresh(found), UnlockCrate(id, found)
  PROVE  GivesUp /\ Keeps
BY OneAdded DEF UnlockCrate, CreateItem

LEMMA DeleteItemGivesUp ==
  ASSUME NEW id, DeleteItem(id)
  PROVE  GivesUp /\ Keeps
BY OneRemoved DEF DeleteItem

LEMMA SetItemPositionsGivesUp ==
  ASSUME ItemsOK, NEW first, NEW second, NEW position,
         SetItemPositions(first, second, position)
  PROVE  GivesUp /\ Keeps
<1> DEFINE one == [items EXCEPT ![first].position = position]
           both == [one EXCEPT ![second].position = position]
<1>1. \A i \in Held : DOMAIN items[i] = Fields
  BY DEF ItemsOK
<1>2. /\ items' = one \/ items' = both
      /\ equips' = equips
  BY DEF SetItemPositions
<1>3. /\ DOMAIN one = Held
      /\ \A i \in Held : one[i] = items[i] \/ one[i] = [items[i] EXCEPT !.position = position]
  BY DEF Held
<1>4. \A i \in Held :
        /\ DOMAIN one[i] = DOMAIN items[i]
        /\ one[i].equipped = items[i].equipped
        /\ one[i].kind = items[i].kind
        /\ one[i].clone = items[i].clone
  BY <1>1, <1>3 DEF Fields
<1> HIDE DEF one
<1>5. /\ DOMAIN both = Held
      /\ \A i \in Held : both[i] = one[i] \/ both[i] = [one[i] EXCEPT !.position = position]
  BY <1>3
<1>6. \A i \in Held :
        /\ DOMAIN both[i] = DOMAIN items[i]
        /\ both[i].equipped = items[i].equipped
        /\ both[i].kind = items[i].kind
        /\ both[i].clone = items[i].clone
  BY <1>1, <1>4, <1>5 DEF Fields
<1> HIDE DEF both
<1> QED
  BY <1>2, <1>3, <1>4, <1>5, <1>6 DEF GivesUp, Keeps

\* A sticker adds attributes and nothing else.
LEMMA StuckOnly ==
  ASSUME NEW item, DOMAIN item = Fields, NEW slot, NEW sticker
  PROVE  LET stuck == Stuck(item, slot, sticker) IN
         /\ DOMAIN stuck = DOMAIN item
         /\ stuck.equipped = item.equipped
         /\ stuck.kind = item.kind
         /\ stuck.clone = item.clone
BY DEF Stuck, Fields

LEMMA ApplyStickerGivesUp ==
  ASSUME ItemsOK, NEW id, NEW slot, NEW sticker, ApplySticker(id, slot, sticker)
  PROVE  GivesUp /\ Keeps
<1>1. id \in Held /\ DOMAIN items[id] = Fields
  BY DEF ApplySticker, ItemsOK
<1> DEFINE item == Stuck(items[id], slot, items[sticker])
<1>2. /\ items' = [items EXCEPT ![id] = item]
      /\ equips' = equips
  BY DEF ApplySticker
<1>3. /\ DOMAIN item = DOMAIN items[id]
      /\ item.equipped = items[id].equipped
      /\ item.kind = items[id].kind
      /\ item.clone = items[id].clone
  BY <1>1, StuckOnly
<1> HIDE DEF item
<1> QED
  BY <1>1, <1>2, <1>3, OneChanged

LEMMA ApplyToBaseGivesUp ==
  ASSUME NEW slot, NEW sticker, ApplyToBase(slot, sticker)
  PROVE  GivesUp /\ Keeps
<1> DEFINE base == NewItem("gun", TRUE)
           stuck == Stuck(base, slot, items[sticker])
<1>1. Fresh(base)
  BY NewItemFresh
<1> HIDE DEF base
<1>2. Fresh(stuck)
  <2>1. DOMAIN base = Fields /\ base.equipped = {}
    BY <1>1 DEF Fresh
  <2>2. DOMAIN stuck = DOMAIN base /\ stuck.equipped = base.equipped
    BY <2>1, StuckOnly
  <2> QED
    BY <2>1, <2>2 DEF Fresh
<1>3. /\ CanCreate
      /\ items' = With(items, NewId, stuck) \/ items' = With(items, NewId, base)
      /\ equips' = equips
  BY DEF ApplyToBase, CreateItem, base
<1> HIDE DEF stuck
<1> QED
  BY <1>1, <1>2, <1>3, OnlyAdded

\* What takes something off an item leaves it as it was otherwise, or destroys it.
LEMMA TakeOffGivesUp ==
  ASSUME NEW id \in Held, NEW rest, TakeOff(id, rest), equips' = equips,
         DOMAIN rest = DOMAIN items[id], rest.equipped = items[id].equipped,
         rest.kind = items[id].kind, rest.clone = items[id].clone
  PROVE  GivesUp /\ Keeps
<1>1. items' = Without(items, id) \/ items' = [items EXCEPT ![id] = rest]
  BY DEF TakeOff
<1> QED
  BY <1>1, OneChanged, OneRemoved

LEMMA ScrapeStickerGivesUp ==
  ASSUME ItemsOK, NEW id, NEW slot, ScrapeSticker(id, slot)
  PROVE  GivesUp /\ Keeps
<1>1. /\ id \in Held
      /\ DOMAIN items[id] = Fields
      /\ equips' = equips
  BY DEF ScrapeSticker, ItemsOK
<1> DEFINE rest == RemoveStickerAttributes(items[id], slot)
           scraped == [items[id] EXCEPT !.attributes[Min(Wears(items[id], slot))].value = @ + 1]
<1>2. TakeOff(id, rest) \/ items' = [items EXCEPT ![id] = scraped]
  BY DEF ScrapeSticker
<1>3. /\ DOMAIN rest = DOMAIN items[id]
      /\ rest.equipped = items[id].equipped
      /\ rest.kind = items[id].kind
      /\ rest.clone = items[id].clone
  BY <1>1 DEF RemoveStickerAttributes, Fields
<1>4. /\ DOMAIN scraped = DOMAIN items[id]
      /\ scraped.equipped = items[id].equipped
      /\ scraped.kind = items[id].kind
      /\ scraped.clone = items[id].clone
  BY <1>1 DEF Fields
<1> HIDE DEF rest, scraped
<1> QED
  BY <1>1, <1>2, <1>3, <1>4, OneChanged, TakeOffGivesUp

LEMMA NameItemGivesUp ==
  ASSUME ItemsOK, NEW id, NameItem(id)
  PROVE  GivesUp /\ Keeps
<1>1. id \in Held /\ DOMAIN items[id] = Fields
  BY DEF NameItem, ItemsOK
<1> DEFINE item == [items[id] EXCEPT !.named = TRUE]
<1>2. /\ items' = [items EXCEPT ![id] = item]
      /\ equips' = equips
  BY DEF NameItem
<1>3. /\ DOMAIN item = DOMAIN items[id]
      /\ item.equipped = items[id].equipped
      /\ item.kind = items[id].kind
      /\ item.clone = items[id].clone
  BY <1>1 DEF Fields
<1> HIDE DEF item
<1> QED
  BY <1>1, <1>2, <1>3, OneChanged

LEMMA NameBaseItemGivesUp ==
  ASSUME NameBaseItem
  PROVE  GivesUp /\ Keeps
<1> DEFINE named == [NewItem("gun", TRUE) EXCEPT !.named = TRUE]
<1>1. Fresh(named)
  BY DEF Fresh, NewItem, Fields
<1>2. CanCreate /\ items' = With(items, NewId, named) /\ equips' = equips
  BY DEF NameBaseItem, CreateItem
<1> HIDE DEF named
<1> QED
  BY <1>1, <1>2, OnlyAdded

LEMMA RemoveItemNameGivesUp ==
  ASSUME ItemsOK, NEW id, RemoveItemName(id)
  PROVE  GivesUp /\ Keeps
<1>1. id \in Held /\ DOMAIN items[id] = Fields /\ equips' = equips
  BY DEF RemoveItemName, ItemsOK
<1> DEFINE rest == [items[id] EXCEPT !.named = FALSE]
<1>2. TakeOff(id, rest)
  BY DEF RemoveItemName
<1>3. /\ DOMAIN rest = DOMAIN items[id]
      /\ rest.equipped = items[id].equipped
      /\ rest.kind = items[id].kind
      /\ rest.clone = items[id].clone
  BY <1>1 DEF Fields
<1> HIDE DEF rest
<1> QED
  BY <1>1, <1>2, <1>3, TakeOffGivesUp

LEMMA IncrementKillCountAttributeGivesUp ==
  ASSUME ItemsOK, NEW id, IncrementKillCountAttribute(id)
  PROVE  GivesUp /\ Keeps
<1>1. id \in Held /\ DOMAIN items[id] = Fields
  BY DEF IncrementKillCountAttribute, ItemsOK
<1> DEFINE counts == {i \in DOMAIN items[id].attributes : items[id].attributes[i].of = "kills"}
           item == [items[id] EXCEPT !.attributes[Min(counts)].value = @ + 1]
<1>2. /\ items' = [items EXCEPT ![id] = item]
      /\ equips' = equips
  BY DEF IncrementKillCountAttribute
<1>3. /\ DOMAIN item = DOMAIN items[id]
      /\ item.equipped = items[id].equipped
      /\ item.kind = items[id].kind
      /\ item.clone = items[id].clone
  BY <1>1 DEF Fields
<1> HIDE DEF item
<1> QED
  BY <1>1, <1>2, <1>3, OneChanged

-----------------------------------------------------------------------------
(* The operations that fill a place.                                       *)

\* A place that is freed before it is filled holds what it is filled with.
OneEach(its, eqs) ==
  \A place \in Places :
    /\ \A a, b \in Holders(its, place) : a = b
    /\ \A d, e \in eqs : d.place = place /\ e.place = place => d = e
    /\ Holders(its, place) = {} \/ \A e \in eqs : e.place # place

\* "new" is "its" with the place freed and then filled by the item with this id.
Fills(new, its, id, place) ==
  /\ DOMAIN new = DOMAIN its
  /\ \A i \in DOMAIN its :
       /\ DOMAIN new[i] = Fields
       /\ i # id => new[i].equipped = its[i].equipped \ {place}
       /\ i = id => new[i].equipped = its[i].equipped \cup {place}
       /\ new[i].kind = its[i].kind
       /\ new[i].clone = its[i].clone

Formed(its) == \A i \in DOMAIN its : DOMAIN its[i] = Fields

LEMMA EquippedFills ==
  ASSUME NEW its, Formed(its), NEW place, NEW id \in DOMAIN its
  PROVE  Fills(Equipped(its, id, place), its, id, place)
<1> DEFINE free == Freed(its, place)
           new == Equipped(its, id, place)
<1>1. /\ DOMAIN free = DOMAIN its
      /\ \A i \in DOMAIN its :
           /\ DOMAIN free[i] = Fields
           /\ free[i].equipped = its[i].equipped \ {place}
           /\ free[i].kind = its[i].kind
           /\ free[i].clone = its[i].clone
  BY FreedEach DEF Formed
<1>2. new = [free EXCEPT ![id].equipped = @ \cup {place}]
  BY DEF Equipped
<1> HIDE DEF free, new
<1>3. DOMAIN new = DOMAIN its
  BY <1>1, <1>2
<1>4. \A i \in DOMAIN its : i # id => new[i] = free[i]
  BY <1>1, <1>2
<1>5. new[id] = [free[id] EXCEPT !.equipped = @ \cup {place}]
  BY <1>1, <1>2
<1>6. /\ DOMAIN new[id] = Fields
      /\ new[id].equipped = free[id].equipped \cup {place}
      /\ new[id].kind = free[id].kind
      /\ new[id].clone = free[id].clone
  BY <1>1, <1>5 DEF Fields
<1>7. new[id].equipped = its[id].equipped \cup {place}
  BY <1>1, <1>6
<1> QED
  BY <1>1, <1>3, <1>4, <1>6, <1>7 DEF Fills, new

LEMMA Filling ==
  ASSUME NEW its, NEW new, NEW eqs, NEW id, NEW place, OneEach(its, eqs),
         Fills(new, its, id, place)
  PROVE  OneEach(new, {e \in eqs : e.place # place})
<1> DEFINE rest == {e \in eqs : e.place # place}
<1>1. \A p : p # place => Holders(new, p) \subseteq Holders(its, p)
  BY DEF Holders, Fills
<1>2. Holders(new, place) \subseteq {id}
  BY DEF Holders, Fills
<1>3. ASSUME NEW p \in Places, p # place
      PROVE  /\ \A a, b \in Holders(new, p) : a = b
             /\ \A d, e \in rest : d.place = p /\ e.place = p => d = e
             /\ Holders(new, p) = {} \/ \A e \in rest : e.place # p
  BY <1>1, <1>3 DEF OneEach
<1> QED
  BY <1>2, <1>3 DEF OneEach

LEMMA EquipItemKeeps ==
  ASSUME IInv, NEW id, NEW place \in Places, EquipItem(id, place)
  PROVE  ItemsOK' /\ OnePerPlace' /\ NoItemReadsAsDefault' /\ Keeps
<1>1. Formed(items)
  BY DEF IInv, ItemsOK, Held, Formed
<1>2. id \in DOMAIN items /\ items' = Equipped(items, id, place)
  BY DEF EquipItem, Held
<1>3. Fills(Equipped(items, id, place), items, id, place)
  BY <1>1, <1>2, EquippedFills
<1>4. Fills(items', items, id, place)
  BY <1>2, <1>3
<1>5. equips' = {e \in equips : e.place # place}
  BY DEF EquipItem, DefaultsAt
<1>6. OneEach(items, equips)
  BY DEF IInv, OnePerPlace, OneEach
<1>7. OneEach(items', {e \in equips : e.place # place})
  BY <1>4, <1>6, Filling
<1>8. OnePerPlace'
  BY <1>5, <1>7 DEF OnePerPlace, OneEach
<1> QED
  BY <1>4, <1>8 DEF Fills, IInv, ItemsOK, NoItemReadsAsDefault, Keeps, Held, IsDefaultItemId

LEMMA EquipDefaultKeeps ==
  ASSUME IInv, NEW def, NEW place \in Places, EquipDefault(def, place)
  PROVE  ItemsOK' /\ OnePerPlace' /\ NoItemReadsAsDefault' /\ Keeps
<1> DEFINE default == [def |-> def, place |-> place]
<1>1. \A i \in DOMAIN items : DOMAIN items[i] = Fields
  BY DEF IInv, ItemsOK, Held
<1>2. items' = Freed(items, place)
  BY DEF EquipDefault
<1>3. /\ DOMAIN items' = DOMAIN items
      /\ \A i \in DOMAIN items :
           /\ DOMAIN items'[i] = Fields
           /\ items'[i].equipped = items[i].equipped \ {place}
           /\ items'[i].kind = items[i].kind
           /\ items'[i].clone = items[i].clone
  BY <1>1, <1>2, FreedEach
<1>4. equips' = {e \in equips : e.place # place} \cup {default}
  BY DEF EquipDefault, DefaultsAt
<1>5. default.place = place
  OBVIOUS
<1> HIDE DEF default
<1>6. \A p : Holders(items', p) = IF p = place THEN {} ELSE Holders(items, p)
  BY <1>3 DEF Holders
<1>7. OnePerPlace'
  BY <1>4, <1>5, <1>6 DEF IInv, OnePerPlace
<1> QED
  BY <1>3, <1>7 DEF IInv, ItemsOK, NoItemReadsAsDefault, Keeps, Held, IsDefaultItemId

\* The new spray stands for the sealed one, with the places it may have held.
LEMMA OpenedEach ==
  ASSUME IInv, NEW id \in Held, CanCreate,
         NEW opened, DOMAIN opened = Fields, opened.equipped = items[id].equipped
  PROVE  LET its == Without(With(items, NewId, opened), id)
         IN /\ DOMAIN its = (Held \ {id}) \cup {NewId}
            /\ its[NewId] = opened
            /\ \A i \in Held \ {id} : its[i] = items[i]
            /\ Formed(its)
            /\ OneEach(its, equips)
<1> DEFINE its == Without(With(items, NewId, opened), id)
<1>1. \A i \in Held : DOMAIN items[i] = Fields
  BY DEF IInv, ItemsOK
<1>2. /\ DOMAIN its = (Held \ {id}) \cup {NewId}
      /\ its[NewId] = opened
      /\ \A i \in Held \ {id} : its[i] = items[i]
  BY NewIdFree DEF With, Without, Held
<1> HIDE DEF its
<1>3. Formed(its)
  BY <1>1, <1>2 DEF Formed
<1>4. OneEach(its, equips)
  <2>1. ASSUME NEW p \in Places
        PROVE  Holders(its, p) \subseteq
                 IF id \in Holders(items, p) THEN (Holders(items, p) \ {id}) \cup {NewId}
                                             ELSE Holders(items, p)
    BY <1>2 DEF Holders, Held
  <2> QED
    BY <2>1 DEF IInv, OnePerPlace, OneEach
<1> QED
  BY <1>2, <1>3, <1>4 DEF its

LEMMA UseItemKeeps ==
  ASSUME IInv, NEW id, UseItem(id)
  PROVE  ItemsOK' /\ OnePerPlace' /\ NoItemReadsAsDefault' /\ Keeps
<1> DEFINE opened == [items[id] EXCEPT !.kind = "spray"]
           its == Without(With(items, NewId, opened), id)
           left == Attribute("sprays", 0, SpraysLeft)
           filled == Equipped(its, NewId, GraffitiPlace)
<1>1. /\ id \in Held
      /\ CanCreate
      /\ items' = [filled EXCEPT ![NewId].attributes = Append(@, left)]
      /\ equips' = {e \in equips : e.place # GraffitiPlace}
  BY DEF UseItem, CreateItem, DefaultsAt
<1>2. NewId \notin Held /\ ~ IsDefaultItemId(NewId)
  BY <1>1, NewIdFree
<1>3. DOMAIN items[id] = Fields
  BY <1>1 DEF IInv, ItemsOK
<1>4. DOMAIN opened = Fields /\ opened.equipped = items[id].equipped
  BY <1>1, <1>3 DEF Fields
<1> HIDE DEF opened, left
<1>5. /\ DOMAIN its = (Held \ {id}) \cup {NewId}
      /\ its[NewId] = opened
      /\ \A i \in Held \ {id} : its[i] = items[i]
      /\ Formed(its)
      /\ OneEach(its, equips)
  BY <1>1, <1>4, OpenedEach
<1> HIDE DEF its
<1>8. Fills(filled, its, NewId, GraffitiPlace)
  BY <1>5, EquippedFills
<1> HIDE DEF filled
<1>9. Fills(items', its, NewId, GraffitiPlace)
  <2>1. /\ DOMAIN items' = DOMAIN filled
        /\ \A i \in DOMAIN filled :
             items'[i] = IF i = NewId THEN [filled[i] EXCEPT !.attributes = Append(@, left)]
                                      ELSE filled[i]
    BY <1>1
  <2>2. \A i \in DOMAIN filled :
          /\ DOMAIN items'[i] = Fields
          /\ items'[i].equipped = filled[i].equipped
          /\ items'[i].kind = filled[i].kind
          /\ items'[i].clone = filled[i].clone
    BY <1>8, <2>1 DEF Fills, Fields
  <2> QED
    BY <1>8, <2>1, <2>2 DEF Fills
<1>10. OneEach(items', {e \in equips : e.place # GraffitiPlace})
  BY <1>5, <1>9, Filling
<1>11. OnePerPlace'
  BY <1>1, <1>10 DEF OnePerPlace, OneEach
<1>12. NoItemReadsAsDefault'
  BY <1>2, <1>5, <1>9 DEF Fills, IInv, NoItemReadsAsDefault, Held, IsDefaultItemId
<1>13. Keeps
  BY <1>2, <1>4, <1>5, <1>9 DEF Fills, Keeps, Held
<1> QED
  BY <1>9, <1>11, <1>12, <1>13 DEF Fills, ItemsOK, Held

\* A cache the coordinator sent keeps the rules by itself.
LEMMA BuildCacheSubscriptionKeeps ==
  ASSUME IInv, BuildCacheSubscription
  PROVE  ItemsOK' /\ OnePerPlace' /\ NoItemReadsAsDefault' /\ builds' # builds
<1>1. PICK cache \in stored : items' = cache.items /\ equips' = cache.equips
  BY DEF BuildCacheSubscription
<1>2. cache \in Caches
  BY <1>1 DEF IInv, StoredOK
<1>3. ItemsOK'
  BY <1>1, <1>2, CacheAssumption DEF ItemsOK, Held, Fields
<1>4. OnePerPlace'
  BY <1>1, <1>2, CacheAssumption DEF OnePerPlace, Holders
<1>5. NoItemReadsAsDefault'
  <2>1. DOMAIN items' \subseteq 0..(FirstDefault - 1)
    BY <1>1, <1>2, CacheAssumption
  <2> QED
    BY <2>1, IdAssumption DEF NoItemReadsAsDefault, Held, IsDefaultItemId
<1>6. builds' # builds
  BY DEF IInv, BuildsOK, BuildCacheSubscription
<1> QED
  BY <1>3, <1>4, <1>5, <1>6

-----------------------------------------------------------------------------
(* The invariant and the theorems.                                         *)

LEMMA InitIInv == Init => IInv
<1> SUFFICES ASSUME Init PROVE IInv
  OBVIOUS
<1>1. Held = {}
  BY DEF Init, Held
<1> QED
  BY <1>1 DEF Init, IInv, ItemsOK, StoredOK, BuildsOK, OnePerPlace, Holders, NoItemReadsAsDefault,
              Held

\* What an operation the game asks for leaves alone.
LEMMA RequestKeeps ==
  ASSUME IInv, NEW kind, Request(kind)
  PROVE  StoredOK' /\ BuildsOK'
BY DEF IInv, StoredOK, BuildsOK, Request

LEMMA NextIInv == IInv /\ [Next]_vars => IInv' /\ (builds' = builds => Keeps)
<1> SUFFICES ASSUME IInv, [Next]_vars PROVE IInv' /\ (builds' = builds => Keeps)
  OBVIOUS
<1> DEFINE Goal == IInv' /\ (builds' = builds => Keeps)
<1>a. ItemsOK
  BY DEF IInv
<1>b. ASSUME NEW kind, Request(kind), GivesUp /\ Keeps PROVE Goal
  BY <1>b, RequestKeeps, GivingUp
<1>c. ASSUME NEW kind, Request(kind),
             ItemsOK' /\ OnePerPlace' /\ NoItemReadsAsDefault' /\ Keeps
      PROVE  Goal
  BY <1>c, RequestKeeps DEF IInv
<1>1. ASSUME NEW cache \in Caches, StoreCacheSubscription(cache) PROVE Goal
  BY <1>1 DEF StoreCacheSubscription, IInv, ItemsOK, StoredOK, BuildsOK, OnePerPlace, Holders,
              NoItemReadsAsDefault, IsDefaultItemId, Held, Keeps
<1>2. ASSUME BuildCacheSubscription PROVE Goal
  <2>1. StoredOK' /\ BuildsOK'
    BY <1>2 DEF BuildCacheSubscription, IInv, StoredOK, BuildsOK
  <2> QED
    BY <1>2, <2>1, BuildCacheSubscriptionKeeps DEF IInv
<1>3. ASSUME NameBaseItem PROVE Goal
  BY <1>b, <1>3, NameBaseItemGivesUp DEF NameBaseItem
<1>4. ASSUME NEW place \in Places, UnequipPlace(place) PROVE Goal
  BY <1>a, <1>b, <1>4, UnequipPlaceGivesUp DEF UnequipPlace
<1>5. ASSUME NEW place \in Places, NEW def, EquipDefault(def, place) PROVE Goal
  BY <1>c, <1>5, EquipDefaultKeeps DEF EquipDefault
<1>6. ASSUME NEW slot, NEW sticker, ApplyToBase(slot, sticker) PROVE Goal
  BY <1>b, <1>6, ApplyToBaseGivesUp DEF ApplyToBase
<1>7. ASSUME NEW id, UnequipItem(id) PROVE Goal
  BY <1>a, <1>b, <1>7, UnequipItemGivesUp DEF UnequipItem
<1>8. ASSUME NEW id, UseItem(id) PROVE Goal
  BY <1>c, <1>8, UseItemKeeps DEF UseItem
<1>9. ASSUME NEW id, DeleteItem(id) PROVE Goal
  BY <1>b, <1>9, DeleteItemGivesUp DEF DeleteItem
<1>10. ASSUME NEW id, UnlockCrate(id, NewItem("gun", FALSE)) PROVE Goal
  BY <1>b, <1>10, UnlockCrateGivesUp, NewItemFresh DEF UnlockCrate
<1>11. ASSUME NEW id, NameItem(id) PROVE Goal
  BY <1>a, <1>b, <1>11, NameItemGivesUp DEF NameItem
<1>12. ASSUME NEW id, RemoveItemName(id) PROVE Goal
  BY <1>a, <1>b, <1>12, RemoveItemNameGivesUp DEF RemoveItemName
<1>13. ASSUME NEW id, IncrementKillCountAttribute(id) PROVE Goal
  BY <1>a, <1>b, <1>13, IncrementKillCountAttributeGivesUp DEF IncrementKillCountAttribute
<1>14. ASSUME NEW id, NEW place \in Places, EquipItem(id, place) PROVE Goal
  BY <1>c, <1>14, EquipItemKeeps DEF EquipItem
<1>15. ASSUME NEW id, NEW slot, ScrapeSticker(id, slot) PROVE Goal
  BY <1>a, <1>b, <1>15, ScrapeStickerGivesUp DEF ScrapeSticker
<1>16. ASSUME NEW id, NEW slot, NEW sticker, ApplySticker(id, slot, sticker) PROVE Goal
  BY <1>a, <1>b, <1>16, ApplyStickerGivesUp DEF ApplySticker
<1>17. ASSUME NEW id, NEW second, SetItemPositions(id, second, 1) PROVE Goal
  BY <1>a, <1>b, <1>17, SetItemPositionsGivesUp DEF SetItemPositions
<1>18. CASE UNCHANGED vars
  BY <1>18 DEF vars, IInv, ItemsOK, StoredOK, BuildsOK, OnePerPlace, Holders,
               NoItemReadsAsDefault, IsDefaultItemId, Held, Keeps
<1> HIDE DEF Goal
<1>19. ASSUME Next PROVE Goal
  BY <1>1, <1>2, <1>3, <1>4, <1>5, <1>6, <1>7, <1>8, <1>9, <1>10, <1>11, <1>12, <1>13, <1>14,
     <1>15, <1>16, <1>17, <1>19 DEF Next
<1> QED
  BY <1>18, <1>19 DEF Goal

LEMMA Invariance == Spec => []IInv
<1>1. IInv /\ [Next]_vars => IInv'
  BY NextIInv
<1> QED
  BY InitIInv, <1>1, PTL DEF Spec

\* A place of the loadout never holds two things, whichever equips, uses, cases, scrapes
\* and caches of the coordinator came before.
THEOREM OnePerPlaceHolds == Spec => []OnePerPlace
<1>1. IInv => OnePerPlace
  BY DEF IInv
<1> QED
  BY Invariance, <1>1, PTL

\* However often the counter of ids wraps, CreateItem hands out no id that an equip
\* request reads as a default item's.
THEOREM NoItemReadsAsDefaultHolds == Spec => []NoItemReadsAsDefault
<1>1. IInv => NoItemReadsAsDefault
  BY DEF IInv
<1> QED
  BY Invariance, <1>1, PTL

\* No operation the game asks for makes an item into another: an id that CreateItem
\* hands out belongs to nothing the player holds, and to no default item.
THEOREM NoItemReplacedHolds == Spec => NoItemReplaced
<1>1. IInv /\ [Next]_vars =>
        [builds' = builds =>
           \A id \in DOMAIN items' :
             IF id \in Held
               THEN /\ items'[id].kind = items[id].kind
                    /\ items'[id].clone = items[id].clone
               ELSE ~ IsDefaultItemId(id)]_vars
  <2> SUFFICES ASSUME IInv, Next, builds' = builds, NEW id \in DOMAIN items'
               PROVE  IF id \in Held
                        THEN /\ items'[id].kind = items[id].kind
                             /\ items'[id].clone = items[id].clone
                        ELSE ~ IsDefaultItemId(id)
    OBVIOUS
  <2>1. IInv' /\ Keeps
    BY NextIInv
  <2>2. ~ IsDefaultItemId(id)
    BY <2>1 DEF IInv, NoItemReadsAsDefault, Held, IsDefaultItemId
  <2> QED
    BY <2>1, <2>2 DEF Keeps
<1> QED
  BY Invariance, <1>1, PTL DEF Spec, NoItemReplaced

-----------------------------------------------------------------------------
(* What the game makes of a sequence of messages.                          *)

\* Of an object the messages say nothing, or say this last.
Silent(news, whats, object) ==
  \A k \in DOMAIN news : ~ (news[k].what \in whats /\ news[k].of = object)
Says(news, whats, object, message) ==
  \E k \in DOMAIN news :
    /\ news[k] = message /\ message.what \in whats /\ message.of = object
    /\ \A j \in DOMAIN news : j > k => ~ (news[j].what \in whats /\ news[j].of = object)

LEMMA SilentNotNamed ==
  ASSUME NEW news, NEW whats, NEW object
  PROVE  Silent(news, whats, object) <=> object \notin Named(news, whats)
BY DEF Silent, Named

\* What is said last of an object is what counts.
LEMMA SaysFinal ==
  ASSUME NEW S, NEW news \in Seq(S), NEW whats, NEW object, NEW message,
         Says(news, whats, object, message)
  PROVE  object \in Named(news, whats) /\ Final(news, whats, object) = message
<1> DEFINE about == About(news, whats, object)
<1>1. DOMAIN news = 1..Len(news) /\ Len(news) \in Nat
  BY LenProperties
<1>2. PICK k \in DOMAIN news :
        /\ news[k] = message /\ message.what \in whats /\ message.of = object
        /\ \A j \in DOMAIN news : j > k => ~ (news[j].what \in whats /\ news[j].of = object)
  BY DEF Says
<1>3. k \in about /\ \A j \in about : j \in DOMAIN news /\ ~ (j > k)
  BY <1>2 DEF About
<1> HIDE DEF about
<1>4. \A j \in about : k >= j
  BY <1>1, <1>2, <1>3
<1>5. \A j \in about : j \in Int
  BY <1>1, <1>3
<1>6. Max(about) = k
  BY <1>3, <1>4, <1>5 DEF Max
<1> QED
  BY <1>2, <1>6 DEF about, Final, Named

\* Messages after one another.
LEMMA ConcatSays ==
  ASSUME NEW S, NEW a \in Seq(S), NEW b \in Seq(S), NEW whats, NEW object
  PROVE  /\ Silent(a, whats, object) /\ Silent(b, whats, object) =>
              Silent(a \o b, whats, object)
         /\ \A m : Says(b, whats, object, m) => Says(a \o b, whats, object, m)
         /\ \A m : Says(a, whats, object, m) /\ Silent(b, whats, object) =>
              Says(a \o b, whats, object, m)
<1> DEFINE c == a \o b
           Is(m) == m.what \in whats /\ m.of = object
<1>1. /\ Len(a) \in Nat /\ Len(b) \in Nat
      /\ DOMAIN a = 1..Len(a) /\ DOMAIN b = 1..Len(b)
  BY LenProperties
<1>2. /\ DOMAIN c = 1..(Len(a) + Len(b))
      /\ \A i \in 1..Len(a) : c[i] = a[i]
      /\ \A i \in 1..Len(b) : c[Len(a) + i] = b[i]
  BY <1>1, ConcatProperties, LenProperties
<1> HIDE DEF c, Is
<1>3. \A i \in DOMAIN c : i \in 1..Len(a) \/ (i - Len(a) \in 1..Len(b) /\ i = Len(a) + (i - Len(a)))
  BY <1>1, <1>2
<1>4. \A i \in DOMAIN c : i \in 1..Len(a) \/ (i - Len(a) \in 1..Len(b) /\ c[i] = b[i - Len(a)])
  BY <1>2, <1>3
<1>5. ASSUME \A k \in DOMAIN a : ~ Is(a[k]), \A k \in DOMAIN b : ~ Is(b[k])
      PROVE  \A k \in DOMAIN c : ~ Is(c[k])
  BY <1>1, <1>2, <1>4, <1>5
<1>6. ASSUME NEW m, NEW k \in DOMAIN b, b[k] = m,
             \A j \in DOMAIN b : j > k => ~ Is(b[j])
      PROVE  \E i \in DOMAIN c : c[i] = m /\ \A j \in DOMAIN c : j > i => ~ Is(c[j])
  <2>1. Len(a) + k \in DOMAIN c /\ c[Len(a) + k] = m
    BY <1>1, <1>2, <1>6
  <2>2. ASSUME NEW j \in DOMAIN c, j > Len(a) + k PROVE ~ Is(c[j])
    <3>1. j - Len(a) \in 1..Len(b) /\ j - Len(a) > k
      BY <1>1, <1>2, <2>2
    <3>2. c[j] = b[j - Len(a)]
      BY <1>1, <1>2, <1>4, <2>2
    <3> QED
      BY <1>1, <1>6, <3>1, <3>2
  <2> QED
    BY <2>1, <2>2
<1>7. ASSUME NEW m, NEW k \in DOMAIN a, a[k] = m,
             \A j \in DOMAIN a : j > k => ~ Is(a[j]),
             \A j \in DOMAIN b : ~ Is(b[j])
      PROVE  \E i \in DOMAIN c : c[i] = m /\ \A j \in DOMAIN c : j > i => ~ Is(c[j])
  <2>1. k \in DOMAIN c /\ c[k] = m
    BY <1>1, <1>2, <1>7
  <2>2. ASSUME NEW j \in DOMAIN c, j > k PROVE ~ Is(c[j])
    BY <1>1, <1>2, <1>4, <1>7, <2>2
  <2> QED
    BY <2>1, <2>2
<1> QED
  BY <1>5, <1>6, <1>7 DEF Silent, Says, c, Is

\* One message.
LEMMA OneSays ==
  ASSUME NEW m, NEW whats, NEW object
  PROVE  /\ ~ (m.what \in whats /\ m.of = object) => Silent(<<m>>, whats, object)
         /\ m.what \in whats /\ m.of = object => Says(<<m>>, whats, object, m)
<1> DEFINE one == <<m>>
<1>1. DOMAIN one = {1} /\ one[1] = m
  OBVIOUS
<1> HIDE DEF one
<1>2. \A j \in DOMAIN one : ~ (j > 1)
  BY <1>1
<1> QED
  BY <1>1, <1>2 DEF Silent, Says, one

-----------------------------------------------------------------------------
(* The game's copy agrees after the messages of an operation when they     *)
(* say of every object what has become of it.                              *)

ItemRight(news, id) ==
  \/ /\ Silent(news, OfItems, id)
     /\ id \in DOMAIN items' <=> id \in Held
     /\ id \in Held => items'[id] = items[id]
  \/ id \in DOMAIN items' /\ Says(news, OfItems, id, ItemNews(id, items'[id]))
  \/ id \notin DOMAIN items' /\ Says(news, OfItems, id, GoneNews(id))

Equips(eqs, place, def) == [def |-> def, place |-> place] \in eqs

PlaceRight(news, place) ==
  \/ /\ Silent(news, OfEquips, place)
     /\ \A def \in DefaultDefs : Equips(equips', place, def) <=> Equips(equips, place, def)
  \/ \E d : /\ Says(news, OfEquips, place, EquipNews(place, d))
            /\ \A def \in DefaultDefs : Equips(equips', place, def) <=> d = def

LEMMA TellingRight ==
  ASSUME GameAgrees, NEW S, NEW news \in Seq(S), game' = Heard(game, news),
         untold \ Named(news, OfItems) \subseteq untold',
         \A id \in Ids \ untold' : ItemRight(news, id),
         \A place \in Places : PlaceRight(news, place)
  PROVE  GameAgrees'
<1> DEFINE told == Named(news, OfItems)
           gone == {id \in told : Final(news, OfItems, id).what = "gone"}
<1>1. /\ DOMAIN game'.items = (DOMAIN game.items \cup told) \ gone
      /\ \A id \in (DOMAIN game.items \cup told) \ gone :
           game'.items[id] = IF id \in told THEN Final(news, OfItems, id).item
                                            ELSE game.items[id]
  BY DEF Heard
<1>2. \A place \in Places :
        game'.equips[place] = IF place \in Named(news, OfEquips)
                              THEN Final(news, OfEquips, place).def ELSE game.equips[place]
  BY DEF Heard
<1>3. \A id : id \in gone <=> id \in told /\ Final(news, OfItems, id).what = "gone"
  OBVIOUS
<1> HIDE DEF gone
<1>4. ASSUME NEW id \in Ids \ untold'
      PROVE  /\ id \in DOMAIN items' <=> id \in DOMAIN game'.items
             /\ id \in DOMAIN items' => game'.items[id] = items'[id]
  <2>1. CASE /\ Silent(news, OfItems, id)
             /\ id \in DOMAIN items' <=> id \in Held
             /\ id \in Held => items'[id] = items[id]
    <3>1. id \notin told /\ id \notin gone
      BY <1>3, <2>1, SilentNotNamed
    <3>2. id \in Ids \ untold
      BY <3>1
    <3>3. /\ id \in Held <=> id \in DOMAIN game.items
          /\ id \in Held => game.items[id] = items[id]
      BY <3>2 DEF GameAgrees
    <3> HIDE DEF told
    <3> QED
      BY <1>1, <2>1, <3>1, <3>3
  <2>2. CASE id \in DOMAIN items' /\ Says(news, OfItems, id, ItemNews(id, items'[id]))
    <3>1. id \in told /\ Final(news, OfItems, id) = ItemNews(id, items'[id])
      BY <2>2, SaysFinal
    <3>2. /\ Final(news, OfItems, id).what = "item"
          /\ Final(news, OfItems, id).item = items'[id]
      BY <3>1 DEF ItemNews
    <3> HIDE DEF told
    <3> QED
      BY <1>1, <1>3, <2>2, <3>1, <3>2
  <2>3. CASE id \notin DOMAIN items' /\ Says(news, OfItems, id, GoneNews(id))
    <3>1. id \in told /\ Final(news, OfItems, id) = GoneNews(id)
      BY <2>3, SaysFinal
    <3>2. Final(news, OfItems, id).what = "gone"
      BY <3>1 DEF GoneNews
    <3> HIDE DEF told
    <3> QED
      BY <1>1, <1>3, <2>3, <3>1, <3>2
  <2> QED
    BY <2>1, <2>2, <2>3 DEF ItemRight
<1>5. ASSUME NEW place \in Places, NEW def \in DefaultDefs
      PROVE  [def |-> def, place |-> place] \in equips' <=> game'.equips[place] = def
  <2>1. CASE /\ Silent(news, OfEquips, place)
             /\ Equips(equips', place, def) <=> Equips(equips, place, def)
    <3>1. place \notin Named(news, OfEquips)
      BY <2>1, SilentNotNamed
    <3> QED
      BY <1>2, <2>1, <3>1 DEF GameAgrees, Equips
  <2>2. ASSUME NEW d, Says(news, OfEquips, place, EquipNews(place, d)),
               Equips(equips', place, def) <=> d = def
        PROVE  [def |-> def, place |-> place] \in equips' <=> game'.equips[place] = def
    <3>1. place \in Named(news, OfEquips) /\ Final(news, OfEquips, place) = EquipNews(place, d)
      BY <2>2, SaysFinal
    <3>2. Final(news, OfEquips, place).def = d
      BY <3>1 DEF EquipNews
    <3> QED
      BY <1>2, <2>2, <3>1, <3>2 DEF Equips
  <2> QED
    BY <2>1, <2>2 DEF PlaceRight
<1> QED
  BY <1>4, <1>5 DEF GameAgrees, Held

\* All but one item are as they were.
OthersStay(id) ==
  \A i : i # id => /\ i \in DOMAIN items' <=> i \in Held
                   /\ i \in Held => items'[i] = items[i]

\* The message says of the item what has become of it.
Reports(m) ==
  \/ m.of \in DOMAIN items' /\ m = ItemNews(m.of, items'[m.of])
  \/ m.of \notin DOMAIN items' /\ m = GoneNews(m.of)

LEMMA OneTold ==
  ASSUME GameAgrees, NEW m, Tell(<<m>>), equips' = equips, Reports(m), OthersStay(m.of)
  PROVE  GameAgrees'
<1> DEFINE news == <<m>>
<1>1. news \in Seq({m})
  OBVIOUS
<1>2. m.what \in OfItems /\ m.what \notin OfEquips
  BY DEF Reports, ItemNews, GoneNews, OfItems, OfEquips
<1>3. ASSUME NEW id \in Ids PROVE ItemRight(news, id)
  <2>1. CASE id = m.of
    <3>1. Says(news, OfItems, id, m)
      BY <1>2, <2>1, OneSays
    <3> HIDE DEF news
    <3> QED
      BY <2>1, <3>1 DEF ItemRight, Reports
  <2>2. CASE id # m.of
    <3>1. Silent(news, OfItems, id)
      BY <2>2, OneSays
    <3> HIDE DEF news
    <3> QED
      BY <2>2, <3>1 DEF ItemRight, OthersStay
  <2> QED
    BY <2>1, <2>2
<1>4. ASSUME NEW place \in Places PROVE PlaceRight(news, place)
  <2>1. Silent(news, OfEquips, place)
    BY <1>2, OneSays
  <2> HIDE DEF news
  <2> QED
    BY <2>1 DEF PlaceRight, Equips
<1>5. game' = Heard(game, news) /\ untold' = untold \ Named(news, OfItems)
  BY DEF Tell
<1> HIDE DEF news
<1> QED
  BY <1>1, <1>3, <1>4, <1>5, TellingRight

LEMMA TwoSay ==
  ASSUME NEW m, NEW n, NEW whats, NEW object
  PROVE  /\ ~ (m.what \in whats /\ m.of = object) /\ ~ (n.what \in whats /\ n.of = object) =>
              Silent(<<m, n>>, whats, object)
         /\ m.what \in whats /\ m.of = object /\ ~ (n.what \in whats /\ n.of = object) =>
              Says(<<m, n>>, whats, object, m)
         /\ n.what \in whats /\ n.of = object => Says(<<m, n>>, whats, object, n)
<1> DEFINE two == <<m, n>>
<1>1. DOMAIN two = {1, 2} /\ two[1] = m /\ two[2] = n
  OBVIOUS
<1> HIDE DEF two
<1>2. \A j \in DOMAIN two : ~ (j > 2) /\ (j > 1 => j = 2)
  BY <1>1
<1> QED
  BY <1>1, <1>2 DEF Silent, Says, two

LEMMA TwoTold ==
  ASSUME GameAgrees, NEW m, NEW n, Tell(<<m, n>>), equips' = equips,
         m.of # n.of, Reports(m), Reports(n),
         \A i : i # m.of /\ i # n.of => /\ i \in DOMAIN items' <=> i \in Held
                                        /\ i \in Held => items'[i] = items[i]
  PROVE  GameAgrees'
<1> DEFINE news == <<m, n>>
<1>1. news \in Seq({m, n})
  OBVIOUS
<1>2. /\ m.what \in OfItems /\ m.what \notin OfEquips
      /\ n.what \in OfItems /\ n.what \notin OfEquips
  BY DEF Reports, ItemNews, GoneNews, OfItems, OfEquips
<1>3. ASSUME NEW id \in Ids PROVE ItemRight(news, id)
  <2>1. CASE id = n.of
    <3>1. Says(news, OfItems, id, n)
      BY <1>2, <2>1, TwoSay
    <3> HIDE DEF news
    <3> QED
      BY <2>1, <3>1 DEF ItemRight, Reports
  <2>2. CASE id = m.of
    <3>1. Says(news, OfItems, id, m)
      BY <1>2, <2>2, TwoSay
    <3> HIDE DEF news
    <3> QED
      BY <2>2, <3>1 DEF ItemRight, Reports
  <2>3. CASE id # m.of /\ id # n.of
    <3>1. Silent(news, OfItems, id)
      BY <2>3, TwoSay
    <3> HIDE DEF news
    <3> QED
      BY <2>3, <3>1 DEF ItemRight
  <2> QED
    BY <2>1, <2>2, <2>3
<1>4. ASSUME NEW place \in Places PROVE PlaceRight(news, place)
  <2>1. Silent(news, OfEquips, place)
    BY <1>2, TwoSay
  <2> HIDE DEF news
  <2> QED
    BY <2>1 DEF PlaceRight, Equips
<1>5. game' = Heard(game, news) /\ untold' = untold \ Named(news, OfItems)
  BY DEF Tell
<1> HIDE DEF news
<1> QED
  BY <1>1, <1>3, <1>4, <1>5, TellingRight

\* What nobody is told of is noted.
LEMMA NoneTold ==
  ASSUME GameAgrees, NEW id, untold' = untold \cup {id}, game' = game, equips' = equips,
         OthersStay(id)
  PROVE  GameAgrees'
BY DEF GameAgrees, OthersStay, Held

LEMMA ChangedTold ==
  ASSUME GameAgrees, NEW id \in Held, NEW item, items' = [items EXCEPT ![id] = item],
         Tell(<<ItemNews(id, item)>>), equips' = equips
  PROVE  GameAgrees'
<1> DEFINE m == ItemNews(id, item)
<1>1. m.of = id
  BY DEF ItemNews
<1>2. id \in DOMAIN items' /\ items'[id] = item /\ OthersStay(id)
  BY DEF OthersStay, Held
<1>3. Reports(m) /\ OthersStay(m.of)
  BY <1>1, <1>2 DEF Reports
<1> HIDE DEF m
<1> QED
  BY <1>3, OneTold DEF m

LEMMA AddedTold ==
  ASSUME GameAgrees, NEW id, NEW item, items' = With(items, id, item),
         Tell(<<ItemNews(id, item)>>), equips' = equips
  PROVE  GameAgrees'
<1> DEFINE m == ItemNews(id, item)
<1>1. m.of = id
  BY DEF ItemNews
<1>2. id \in DOMAIN items' /\ items'[id] = item /\ OthersStay(id)
  BY DEF OthersStay, Held, With
<1>3. Reports(m) /\ OthersStay(m.of)
  BY <1>1, <1>2 DEF Reports
<1> HIDE DEF m
<1> QED
  BY <1>3, OneTold DEF m

LEMMA RemovedTold ==
  ASSUME GameAgrees, NEW id, items' = Without(items, id), Tell(<<GoneNews(id)>>),
         equips' = equips
  PROVE  GameAgrees'
<1> DEFINE m == GoneNews(id)
<1>1. m.of = id
  BY DEF GoneNews
<1>2. id \notin DOMAIN items' /\ OthersStay(id)
  BY DEF OthersStay, Held, Without
<1>3. Reports(m) /\ OthersStay(m.of)
  BY <1>1, <1>2 DEF Reports
<1> HIDE DEF m
<1> QED
  BY <1>3, OneTold DEF m

LEMMA TakeOffTold ==
  ASSUME GameAgrees, NEW id \in Held, NEW rest, TakeOff(id, rest), equips' = equips
  PROVE  GameAgrees'
BY ChangedTold, RemovedTold DEF TakeOff

-----------------------------------------------------------------------------
(* The operations that change items and no default equip.                  *)

LEMMA UnequipItemTells ==
  ASSUME GameAgrees, NEW id, UnequipItem(id)
  PROVE  GameAgrees'
<1> DEFINE item == [items[id] EXCEPT !.equipped = {}]
<1>1. id \in Held /\ items' = [items EXCEPT ![id] = item] /\ equips' = equips
  BY DEF UnequipItem
<1>2. items'[id] = item
  BY <1>1 DEF Held
<1>3. Tell(<<ItemNews(id, item)>>)
  BY <1>2 DEF UnequipItem
<1> HIDE DEF item
<1> QED
  BY <1>1, <1>3, ChangedTold

LEMMA ApplyStickerTells ==
  ASSUME GameAgrees, NEW id, NEW slot, NEW sticker, ApplySticker(id, slot, sticker)
  PROVE  GameAgrees'
<1> DEFINE item == Stuck(items[id], slot, items[sticker])
<1>1. id \in Held /\ items' = [items EXCEPT ![id] = item] /\ equips' = equips
  BY DEF ApplySticker
<1>2. items'[id] = item
  BY <1>1 DEF Held
<1>3. Tell(<<ItemNews(id, item)>>)
  BY <1>2 DEF ApplySticker
<1> HIDE DEF item
<1> QED
  BY <1>1, <1>3, ChangedTold

LEMMA NameItemTells ==
  ASSUME GameAgrees, NEW id, NameItem(id)
  PROVE  GameAgrees'
<1> DEFINE item == [items[id] EXCEPT !.named = TRUE]
<1>1. id \in Held /\ items' = [items EXCEPT ![id] = item] /\ equips' = equips
  BY DEF NameItem
<1>2. items'[id] = item
  BY <1>1 DEF Held
<1>3. Tell(<<ItemNews(id, item)>>)
  BY <1>2 DEF NameItem
<1> HIDE DEF item
<1> QED
  BY <1>1, <1>3, ChangedTold

LEMMA IncrementKillCountAttributeTells ==
  ASSUME GameAgrees, NEW id, IncrementKillCountAttribute(id)
  PROVE  GameAgrees'
<1> DEFINE counts == {i \in DOMAIN items[id].attributes : items[id].attributes[i].of = "kills"}
           item == [items[id] EXCEPT !.attributes[Min(counts)].value = @ + 1]
<1>1. id \in Held /\ items' = [items EXCEPT ![id] = item] /\ equips' = equips
  BY DEF IncrementKillCountAttribute
<1>2. items'[id] = item
  BY <1>1 DEF Held
<1>3. Tell(<<ItemNews(id, item)>>)
  BY <1>2 DEF IncrementKillCountAttribute
<1> HIDE DEF item
<1> QED
  BY <1>1, <1>3, ChangedTold

LEMMA ScrapeStickerTells ==
  ASSUME GameAgrees, NEW id, NEW slot, ScrapeSticker(id, slot)
  PROVE  GameAgrees'
<1> DEFINE rest == RemoveStickerAttributes(items[id], slot)
           scraped == [items[id] EXCEPT !.attributes[Min(Wears(items[id], slot))].value = @ + 1]
<1>1. id \in Held /\ equips' = equips
  BY DEF ScrapeSticker
<1>2. \/ TakeOff(id, rest)
      \/ items' = [items EXCEPT ![id] = scraped] /\ Tell(<<ItemNews(id, scraped)>>)
  BY DEF ScrapeSticker
<1> HIDE DEF rest, scraped
<1> QED
  BY <1>1, <1>2, ChangedTold, TakeOffTold

LEMMA NameBaseItemTells ==
  ASSUME GameAgrees, NameBaseItem
  PROVE  GameAgrees'
<1> DEFINE named == [NewItem("gun", TRUE) EXCEPT !.named = TRUE]
<1>1. items' = With(items, NewId, named) /\ equips' = equips
  BY DEF NameBaseItem
<1>2. items'[NewId] = named
  BY <1>1 DEF With
<1>3. Tell(<<ItemNews(NewId, named)>>)
  BY <1>2 DEF NameBaseItem
<1> HIDE DEF named
<1> QED
  BY <1>1, <1>3, AddedTold

LEMMA ApplyToBaseTells ==
  ASSUME GameAgrees, NEW slot, NEW sticker, ApplyToBase(slot, sticker)
  PROVE  GameAgrees'
<1> DEFINE base == NewItem("gun", TRUE)
           stuck == Stuck(base, slot, items[sticker])
<1>1. equips' = equips
  BY DEF ApplyToBase
<1>2. \/ items' = With(items, NewId, stuck) /\ Tell(<<ItemNews(NewId, items'[NewId])>>)
      \/ items' = With(items, NewId, base) /\ untold' = untold \cup {NewId} /\ game' = game
  BY DEF ApplyToBase
<1> HIDE DEF base, stuck
<1>3. CASE items' = With(items, NewId, stuck) /\ Tell(<<ItemNews(NewId, items'[NewId])>>)
  <2>1. items'[NewId] = stuck
    BY <1>3 DEF With
  <2> QED
    BY <1>1, <1>3, <2>1, AddedTold
<1>4. CASE items' = With(items, NewId, base) /\ untold' = untold \cup {NewId} /\ game' = game
  <2>1. OthersStay(NewId)
    BY <1>4 DEF With, OthersStay, Held
  <2> QED
    BY <1>1, <1>4, <2>1, NoneTold
<1> QED
  BY <1>2, <1>3, <1>4

LEMMA RemoveItemNameTells ==
  ASSUME GameAgrees, NEW id, RemoveItemName(id)
  PROVE  GameAgrees'
<1> DEFINE rest == [items[id] EXCEPT !.named = FALSE]
<1>1. id \in Held /\ TakeOff(id, rest) /\ equips' = equips
  BY DEF RemoveItemName
<1> HIDE DEF rest
<1> QED
  BY <1>1, TakeOffTold

LEMMA DeleteItemTells ==
  ASSUME GameAgrees, NEW id, DeleteItem(id)
  PROVE  GameAgrees'
BY RemovedTold DEF DeleteItem

LEMMA UnlockCrateTells ==
  ASSUME GameAgrees, NEW id, NEW found, UnlockCrate(id, found)
  PROVE  GameAgrees'
<1> DEFINE m == ItemNews(NewId, found)
           n == GoneNews(id)
<1>1. /\ id \in Held /\ CanCreate
      /\ items' = Without(With(items, NewId, found), id)
      /\ Tell(<<m, n>>) /\ equips' = equips
  BY DEF UnlockCrate, CreateItem
<1>2. NewId # id
  BY <1>1, NewIdFree
<1>3. m.of = NewId /\ n.of = id
  BY DEF ItemNews, GoneNews
<1>4. /\ NewId \in DOMAIN items' /\ items'[NewId] = found /\ id \notin DOMAIN items'
      /\ \A i : i # NewId /\ i # id => /\ i \in DOMAIN items' <=> i \in Held
                                       /\ i \in Held => items'[i] = items[i]
  BY <1>1, <1>2 DEF With, Without, Held
<1>5. Reports(m) /\ Reports(n)
  BY <1>3, <1>4 DEF Reports
<1> HIDE DEF m, n
<1> QED
  BY <1>1, <1>2, <1>3, <1>4, <1>5, TwoTold

LEMMA SetItemPositionsTells ==
  ASSUME GameAgrees, NEW first, NEW second, first # second, NEW position,
         SetItemPositions(first, second, position)
  PROVE  GameAgrees'
<1> DEFINE moved == [items[first] EXCEPT !.position = position]
           one == [items EXCEPT ![first] = moved]
           other == [one[second] EXCEPT !.position = position]
           m == ItemNews(first, one[first])
           n == ItemNews(second, other)
<1>1. first \in Held /\ equips' = equips
  BY DEF SetItemPositions
<1>2. CASE second \in Held
  <2>1. /\ items' = [one EXCEPT ![second] = other]
        /\ Tell(<<ItemNews(first, one[first]), ItemNews(second, [one EXCEPT ![second] = other][second])>>)
    BY <1>2 DEF SetItemPositions
  <2>2. DOMAIN one = Held /\ \A i \in Held \ {first} : one[i] = items[i]
    BY DEF Held
  <2>a. [one EXCEPT ![second] = other][second] = other
    BY <1>2, <2>2
  <2>b. Tell(<<m, n>>)
    BY <2>1, <2>a
  <2>3. m.of = first /\ n.of = second
    BY DEF ItemNews
  <2> HIDE DEF one, other
  <2>4. /\ DOMAIN items' = Held
        /\ items'[first] = one[first] /\ items'[second] = other
        /\ \A i \in Held : i # first /\ i # second => items'[i] = items[i]
    BY <1>1, <1>2, <2>1, <2>2
  <2>5. Reports(m) /\ Reports(n)
    BY <1>1, <1>2, <2>3, <2>4 DEF Reports
  <2> HIDE DEF m, n
  <2> QED
    BY <1>1, <2>b, <2>3, <2>4, <2>5, TwoTold
<1>3. CASE second \notin Held
  <2>1. items' = one /\ untold' = untold \cup {first} /\ game' = game
    BY <1>3 DEF SetItemPositions
  <2>2. OthersStay(first)
    BY <2>1 DEF OthersStay, Held
  <2> QED
    BY <1>1, <2>1, <2>2, NoneTold
<1> QED
  BY <1>2, <1>3

-----------------------------------------------------------------------------
(* The operations that free a place.                                       *)

LEMMA SetToSeqOne ==
  ASSUME NEW x
  PROVE  DOMAIN SetToSeq({x}) = {1} /\ SetToSeq({x})[1] = x
<1>1. Cardinality({x}) = 1
  BY FS_Singleton
<1>2. 1..1 = {1}
  OBVIOUS
<1>3. [i \in {1} |-> x] \in [{1} -> {x}] /\ IsInjective([i \in {1} |-> x])
  BY DEF IsInjective
<1>4. SetToSeq({x}) = CHOOSE f \in [{1} -> {x}] : IsInjective(f)
  BY <1>1, <1>2 DEF SetToSeq
<1>5. SetToSeq({x}) \in [{1} -> {x}]
  BY <1>3, <1>4
<1> QED
  BY <1>5

\* The messages about the items that give a place up: it has one holder at most.
LEMMA HolderSays ==
  ASSUME NEW its, NEW place, \A a, b \in Holders(its, place) : a = b
  PROVE  LET says == SetToSeq({ItemNews(id, Freed(its, place)[id]) : id \in Holders(its, place)})
         IN /\ \E T : says \in Seq(T)
            /\ \A id : id \notin Holders(its, place) => Silent(says, OfItems, id)
            /\ \A id \in Holders(its, place) :
                 Says(says, OfItems, id, ItemNews(id, Freed(its, place)[id]))
            /\ \A p : Silent(says, OfEquips, p)
<1> DEFINE M(id) == ItemNews(id, Freed(its, place)[id])
           all == {M(id) : id \in Holders(its, place)}
           says == SetToSeq(all)
<1>1. CASE Holders(its, place) = {}
  <2>1. all = {}
    BY <1>1
  <2> HIDE DEF all
  <2>2. DOMAIN says = {} /\ says \in [1..Cardinality({}) -> {}]
    <3>1. Cardinality({}) = 0 /\ 1..0 = {}
      BY FS_EmptySet
    <3>2. [i \in {} |-> i] \in [{} -> {}] /\ IsInjective([i \in {} |-> i])
      BY DEF IsInjective
    <3> QED
      BY <2>1, <3>1, <3>2 DEF SetToSeq
  <2>3. says \in Seq({})
    BY <2>2, FS_EmptySet, SeqDef
  <2> HIDE DEF says
  <2> QED
    BY <1>1, <2>2, <2>3 DEF Silent, says, all
<1>2. CASE Holders(its, place) # {}
  <2>1. PICK h \in Holders(its, place) : TRUE
    BY <1>2
  <2>2. Holders(its, place) = {h}
    BY <2>1
  <2>3. all = {M(h)}
    BY <2>2
  <2>4. M(h).what = "item" /\ M(h).of = h
    BY DEF ItemNews
  <2>5. DOMAIN says = {1} /\ says[1] = M(h)
    <3> HIDE DEF all, M
    <3> QED
      BY <2>3, SetToSeqOne
  <2>6. \E T : says \in Seq(T)
    <3>1. says \in [1..1 -> {M(h)}]
      <4>1. Cardinality({M(h)}) = 1 /\ 1..1 = {1}
        BY FS_Singleton
      <4>2. [i \in {1} |-> M(h)] \in [{1} -> {M(h)}] /\ IsInjective([i \in {1} |-> M(h)])
        BY DEF IsInjective
      <4> HIDE DEF all, M
      <4> QED
        BY <2>3, <4>1, <4>2 DEF SetToSeq
    <3> HIDE DEF says, M
    <3>2. says \in Seq({M(h)})
      BY <3>1, SeqDef
    <3> QED
      BY <3>2
  <2> HIDE DEF M, says
  <2>7. \A p : Silent(says, OfEquips, p) /\ (p # h => Silent(says, OfItems, p))
    BY <2>4, <2>5 DEF Silent, OfEquips
  <2>8. Says(says, OfItems, h, M(h))
    <3>1. \A j \in DOMAIN says : ~ (j > 1)
      BY <2>5
    <3> QED
      BY <2>4, <2>5, <3>1 DEF Says, OfItems
  <2> QED
    BY <2>2, <2>6, <2>7, <2>8 DEF says, all, M
<1> QED
  BY <1>1, <1>2

\* The messages about the default equips that give a place up.
LEMMA DefaultSays ==
  ASSUME NEW place, \A d, e \in equips : d.place = place /\ e.place = place => d = e
  PROVE  LET says == UnequipDefaultNews(place)
         IN /\ \E T : says \in Seq(T)
            /\ \A id : Silent(says, OfItems, id)
            /\ \A p : p # place => Silent(says, OfEquips, p)
            /\ DefaultsAt(place) = {} => Silent(says, OfEquips, place)
            /\ DefaultsAt(place) # {} => Says(says, OfEquips, place, EquipNews(place, NoDef))
<1> DEFINE says == UnequipDefaultNews(place)
           m == EquipNews(place, NoDef)
<1>1. m.what = "equip" /\ m.of = place
  BY DEF EquipNews
<1>2. \/ DefaultsAt(place) = {} /\ Cardinality(DefaultsAt(place)) = 0
      \/ DefaultsAt(place) # {} /\ Cardinality(DefaultsAt(place)) = 1
  <2>1. CASE DefaultsAt(place) = {}
    BY <2>1, FS_EmptySet
  <2>2. CASE DefaultsAt(place) # {}
    <3>1. PICK d \in DefaultsAt(place) : TRUE
      BY <2>2
    <3>2. DefaultsAt(place) = {d}
      BY <3>1 DEF DefaultsAt
    <3> QED
      BY <3>2, FS_Singleton
  <2> QED
    BY <2>1, <2>2
<1>3. says = [i \in 1..Cardinality(DefaultsAt(place)) |-> m]
  BY DEF UnequipDefaultNews
<1> HIDE DEF says, m
<1>4. \E T : says \in Seq(T)
  <2>1. says \in [1..Cardinality(DefaultsAt(place)) -> {m}]
    BY <1>3
  <2>2. Cardinality(DefaultsAt(place)) \in Nat
    BY <1>2
  <2>3. says \in Seq({m})
    BY <2>1, <2>2, SeqDef
  <2> QED
    BY <2>3
<1>5. \A k \in DOMAIN says : says[k] = m
  BY <1>3
<1>6. /\ \A id : Silent(says, OfItems, id)
      /\ \A p : p # place => Silent(says, OfEquips, p)
  BY <1>1, <1>5 DEF Silent, OfItems
<1>7. DefaultsAt(place) = {} => Silent(says, OfEquips, place)
  <2>1. DefaultsAt(place) = {} => DOMAIN says = {}
    BY <1>2, <1>3
  <2> QED
    BY <2>1 DEF Silent
<1>8. DefaultsAt(place) # {} => Says(says, OfEquips, place, m)
  <2>1. DefaultsAt(place) # {} => DOMAIN says = {1}
    BY <1>2, <1>3
  <2>2. DefaultsAt(place) # {} => \A j \in DOMAIN says : ~ (j > 1)
    BY <2>1
  <2> QED
    BY <1>1, <1>5, <2>1, <2>2 DEF Says, OfEquips
<1> QED
  BY <1>4, <1>6, <1>7, <1>8 DEF says, m

LEMMA SeqGrows ==
  ASSUME NEW S, NEW T, S \subseteq T
  PROVE  Seq(S) \subseteq Seq(T)
<1> SUFFICES ASSUME NEW s \in Seq(S) PROVE s \in Seq(T)
  OBVIOUS
<1>1. s \in [1..Len(s) -> S] /\ Len(s) \in Nat
  BY LenProperties, ElementOfSeq
<1>2. s \in [1..Len(s) -> T]
  BY <1>1
<1> QED
  BY <1>1, <1>2, SeqDef

\* The messages by which a place is given up, in all.
LEMMA UnequipSays ==
  ASSUME NEW its, OneEach(its, equips), NEW place \in Places
  PROVE  LET says == UnequipNews(its, place)
         IN /\ \E T : says \in Seq(T)
            /\ \A id : id \notin Holders(its, place) => Silent(says, OfItems, id)
            /\ \A id \in Holders(its, place) :
                 Says(says, OfItems, id, ItemNews(id, Freed(its, place)[id]))
            /\ \A p : p # place => Silent(says, OfEquips, p)
            /\ DefaultsAt(place) = {} => Silent(says, OfEquips, place)
            /\ DefaultsAt(place) # {} => Says(says, OfEquips, place, EquipNews(place, NoDef))
<1> DEFINE a == SetToSeq({ItemNews(id, Freed(its, place)[id]) : id \in Holders(its, place)})
           b == UnequipDefaultNews(place)
<1>1. /\ \A x, y \in Holders(its, place) : x = y
      /\ \A d, e \in equips : d.place = place /\ e.place = place => d = e
  BY DEF OneEach
<1>2. /\ \E T : a \in Seq(T)
      /\ \A id : id \notin Holders(its, place) => Silent(a, OfItems, id)
      /\ \A id \in Holders(its, place) :
           Says(a, OfItems, id, ItemNews(id, Freed(its, place)[id]))
      /\ \A p : Silent(a, OfEquips, p)
  BY <1>1, HolderSays
<1>3. /\ \E T : b \in Seq(T)
      /\ \A id : Silent(b, OfItems, id)
      /\ \A p : p # place => Silent(b, OfEquips, p)
      /\ DefaultsAt(place) = {} => Silent(b, OfEquips, place)
      /\ DefaultsAt(place) # {} => Says(b, OfEquips, place, EquipNews(place, NoDef))
  BY <1>1, DefaultSays
<1>4. UnequipNews(its, place) = a \o b
  BY DEF UnequipNews
<1> HIDE DEF a, b
<1>5. PICK T : a \in Seq(T) /\ b \in Seq(T)
  <2>1. PICK S : a \in Seq(S)
    BY <1>2
  <2>2. PICK R : b \in Seq(R)
    BY <1>3
  <2>3. a \in Seq(S \cup R) /\ b \in Seq(S \cup R)
    BY <2>1, <2>2, SeqGrows
  <2> QED
    BY <2>3
<1>6. a \o b \in Seq(T)
  BY <1>5, ConcatProperties
<1>7. \A whats, object :
        /\ Silent(a, whats, object) /\ Silent(b, whats, object) => Silent(a \o b, whats, object)
        /\ \A m : Says(b, whats, object, m) => Says(a \o b, whats, object, m)
        /\ \A m : Says(a, whats, object, m) /\ Silent(b, whats, object) =>
             Says(a \o b, whats, object, m)
  BY <1>5, ConcatSays
<1> QED
  BY <1>2, <1>3, <1>4, <1>6, <1>7

\* What is said after it of other places leaves right what is said of the default equips.
LEMMA PlacesRight ==
  ASSUME OneEach(items, equips), NEW place \in Places,
         equips' = equips \ DefaultsAt(place),
         NEW news,
         \A p : p # place => Silent(news, OfEquips, p),
         DefaultsAt(place) = {} => Silent(news, OfEquips, place),
         DefaultsAt(place) # {} => Says(news, OfEquips, place, EquipNews(place, NoDef))
  PROVE  \A p \in Places : PlaceRight(news, p)
<1> TAKE p \in Places
<1>1. \A def : [def |-> def, place |-> p].place = p
  OBVIOUS
<1>2. CASE p # place
  <2>1. \A def : Equips(equips', p, def) <=> Equips(equips, p, def)
    BY <1>1, <1>2 DEF Equips, DefaultsAt
  <2> QED
    BY <1>2, <2>1 DEF PlaceRight
<1>3. CASE p = place /\ DefaultsAt(place) = {}
  BY <1>3 DEF PlaceRight, Equips
<1>4. CASE p = place /\ DefaultsAt(place) # {}
  <2>1. \A def \in DefaultDefs : ~ Equips(equips', p, def) /\ NoDef # def
    BY <1>1, <1>4, DefaultAssumption DEF Equips, DefaultsAt
  <2> QED
    BY <1>4, <2>1 DEF PlaceRight
<1> QED
  BY <1>2, <1>3, <1>4

LEMMA UnequipPlaceTells ==
  ASSUME IInv, GameAgrees, NEW place \in Places, UnequipPlace(place)
  PROVE  GameAgrees'
<1> DEFINE news == UnequipNews(items, place)
<1>1. /\ items' = Freed(items, place) /\ equips' = equips \ DefaultsAt(place)
      /\ game' = Heard(game, news) /\ untold' = untold \ Named(news, OfItems)
  BY DEF UnequipPlace, Tell
<1>2. OneEach(items, equips) /\ \A i \in DOMAIN items : DOMAIN items[i] = Fields
  BY DEF IInv, OnePerPlace, OneEach, ItemsOK, Held
<1>3. /\ \E T : news \in Seq(T)
      /\ \A id : id \notin Holders(items, place) => Silent(news, OfItems, id)
      /\ \A id \in Holders(items, place) :
           Says(news, OfItems, id, ItemNews(id, Freed(items, place)[id]))
      /\ \A p : p # place => Silent(news, OfEquips, p)
      /\ DefaultsAt(place) = {} => Silent(news, OfEquips, place)
      /\ DefaultsAt(place) # {} => Says(news, OfEquips, place, EquipNews(place, NoDef))
  BY <1>2, UnequipSays
<1> HIDE DEF news
<1>4. /\ DOMAIN items' = Held
      /\ \A i \in Held : i \notin Holders(items, place) => items'[i] = items[i]
  BY <1>1, <1>2, FreedEach DEF Held
<1>5. \A id \in Ids : ItemRight(news, id)
  BY <1>1, <1>3, <1>4 DEF ItemRight, Holders, Held
<1>6. \A p \in Places : PlaceRight(news, p)
  BY <1>1, <1>2, <1>3, PlacesRight
<1> QED
  BY <1>1, <1>3, <1>5, <1>6, TellingRight

LEMMA EquipDefaultTells ==
  ASSUME IInv, GameAgrees, NEW def, NEW place \in Places, EquipDefault(def, place)
  PROVE  GameAgrees'
<1> DEFINE a == UnequipNews(items, place)
           m == EquipNews(place, def)
           news == a \o <<m>>
           default == [def |-> def, place |-> place]
<1>1. /\ items' = Freed(items, place)
      /\ equips' = (equips \ DefaultsAt(place)) \cup {default}
      /\ game' = Heard(game, news) /\ untold' = untold \ Named(news, OfItems)
  BY DEF EquipDefault, Tell
<1>2. OneEach(items, equips) /\ \A i \in DOMAIN items : DOMAIN items[i] = Fields
  BY DEF IInv, OnePerPlace, OneEach, ItemsOK, Held
<1>3. /\ \E T : a \in Seq(T)
      /\ \A id : id \notin Holders(items, place) => Silent(a, OfItems, id)
      /\ \A id \in Holders(items, place) :
           Says(a, OfItems, id, ItemNews(id, Freed(items, place)[id]))
      /\ \A p : p # place => Silent(a, OfEquips, p)
  BY <1>2, UnequipSays
<1>4. m.what = "equip" /\ m.of = place
  BY DEF EquipNews
<1> HIDE DEF a, m
<1>5. PICK T : a \in Seq(T) /\ <<m>> \in Seq(T)
  <2>1. PICK S : a \in Seq(S)
    BY <1>3
  <2>2. a \in Seq(S \cup {m}) /\ <<m>> \in Seq(S \cup {m})
    BY <2>1, SeqGrows
  <2> QED
    BY <2>2
<1>6. news \in Seq(T)
  BY <1>5, ConcatProperties
<1>7. /\ \A id : Silent(<<m>>, OfItems, id)
      /\ \A p : p # place => Silent(<<m>>, OfEquips, p)
      /\ Says(<<m>>, OfEquips, place, m)
  BY <1>4, OneSays DEF OfItems, OfEquips
<1>8. /\ \A id : id \notin Holders(items, place) => Silent(news, OfItems, id)
      /\ \A id \in Holders(items, place) :
           Says(news, OfItems, id, ItemNews(id, Freed(items, place)[id]))
      /\ \A p : p # place => Silent(news, OfEquips, p)
      /\ Says(news, OfEquips, place, m)
  <2> HIDE DEF news
  <2>1. \A whats, object :
        /\ Silent(a, whats, object) /\ Silent(<<m>>, whats, object) => Silent(news, whats, object)
        /\ \A n : Says(<<m>>, whats, object, n) => Says(news, whats, object, n)
        /\ \A n : Says(a, whats, object, n) /\ Silent(<<m>>, whats, object) =>
             Says(news, whats, object, n)
    BY <1>5, ConcatSays DEF news
  <2> QED
    BY <1>3, <1>7, <2>1
<1> HIDE DEF news
<1>9. /\ DOMAIN items' = Held
      /\ \A i \in Held : i \notin Holders(items, place) => items'[i] = items[i]
  BY <1>1, <1>2, FreedEach DEF Held
<1>10. \A id \in Ids : ItemRight(news, id)
  BY <1>1, <1>8, <1>9 DEF ItemRight, Holders, Held
<1>11. ASSUME NEW p \in Places PROVE PlaceRight(news, p)
  <2>1. CASE p # place
    <3>1. \A d : [def |-> d, place |-> p].place = p /\ default.place = place
      OBVIOUS
    <3>2. \A d : Equips(equips', p, d) <=> Equips(equips, p, d)
      <4> HIDE DEF default
      <4> QED
        BY <1>1, <2>1, <3>1 DEF Equips, DefaultsAt
    <3> QED
      BY <1>8, <2>1, <3>2 DEF PlaceRight
  <2>2. CASE p = place
    <3>1. \A d : [def |-> d, place |-> place].place = place
                 /\ ([def |-> d, place |-> place] = default <=> def = d)
      <4>1. \A d : [def |-> d, place |-> place].def = d
        OBVIOUS
      <4> QED
        BY <4>1
    <3>2. \A d : Equips(equips', place, d) <=> def = d
      <4> HIDE DEF default
      <4> QED
        BY <1>1, <3>1 DEF Equips, DefaultsAt
    <3> QED
      BY <1>8, <2>2, <3>2 DEF PlaceRight, m
  <2> QED
    BY <2>1, <2>2
<1> QED
  BY <1>1, <1>6, <1>10, <1>11, TellingRight

\* What an item's place is filled by is said after what was said of the items that gave
\* it up.
LEMMA EquippedSays ==
  ASSUME NEW its, OneEach(its, equips), NEW place \in Places, NEW id
  PROVE  LET says == EquippedNews(its, id, place)
         IN /\ \E T : says \in Seq(T)
            /\ \A i : i # id /\ i \notin Holders(its, place) => Silent(says, OfItems, i)
            /\ \A i \in Holders(its, place) \ {id} :
                 Says(says, OfItems, i, ItemNews(i, Freed(its, place)[i]))
            /\ Says(says, OfItems, id, ItemNews(id, Equipped(its, id, place)[id]))
            /\ \A p : p # place => Silent(says, OfEquips, p)
            /\ DefaultsAt(place) = {} => Silent(says, OfEquips, place)
            /\ DefaultsAt(place) # {} => Says(says, OfEquips, place, EquipNews(place, NoDef))
<1> DEFINE a == UnequipNews(its, place)
           m == ItemNews(id, Equipped(its, id, place)[id])
           says == a \o <<m>>
<1>1. EquippedNews(its, id, place) = says
  BY DEF EquippedNews
<1>2. /\ \E T : a \in Seq(T)
      /\ \A i : i \notin Holders(its, place) => Silent(a, OfItems, i)
      /\ \A i \in Holders(its, place) :
           Says(a, OfItems, i, ItemNews(i, Freed(its, place)[i]))
      /\ \A p : p # place => Silent(a, OfEquips, p)
      /\ DefaultsAt(place) = {} => Silent(a, OfEquips, place)
      /\ DefaultsAt(place) # {} => Says(a, OfEquips, place, EquipNews(place, NoDef))
  BY UnequipSays
<1>3. m.what = "item" /\ m.of = id
  BY DEF ItemNews
<1> HIDE DEF a, m
<1>4. PICK T : a \in Seq(T) /\ <<m>> \in Seq(T)
  <2>1. PICK S : a \in Seq(S)
    BY <1>2
  <2>2. a \in Seq(S \cup {m}) /\ <<m>> \in Seq(S \cup {m})
    BY <2>1, SeqGrows
  <2> QED
    BY <2>2
<1>5. says \in Seq(T)
  BY <1>4, ConcatProperties
<1>6. /\ \A p : Silent(<<m>>, OfEquips, p)
      /\ \A i : i # id => Silent(<<m>>, OfItems, i)
      /\ Says(<<m>>, OfItems, id, m)
  BY <1>3, OneSays DEF OfItems, OfEquips
<1>7. \A whats, object :
        /\ Silent(a, whats, object) /\ Silent(<<m>>, whats, object) => Silent(says, whats, object)
        /\ \A n : Says(<<m>>, whats, object, n) => Says(says, whats, object, n)
        /\ \A n : Says(a, whats, object, n) /\ Silent(<<m>>, whats, object) =>
             Says(says, whats, object, n)
  BY <1>4, ConcatSays
<1> HIDE DEF says
<1> QED
  BY <1>1, <1>2, <1>5, <1>6, <1>7 DEF m

\* The items after a place has been filled.
LEMMA EquippedEach ==
  ASSUME NEW its, Formed(its), NEW place, NEW id \in DOMAIN its
  PROVE  /\ DOMAIN Equipped(its, id, place) = DOMAIN its
         /\ \A i \in DOMAIN its : i # id => Equipped(its, id, place)[i] = Freed(its, place)[i]
         /\ \A i \in DOMAIN its : i # id /\ i \notin Holders(its, place) =>
              Equipped(its, id, place)[i] = its[i]
<1>1. /\ DOMAIN Freed(its, place) = DOMAIN its
      /\ \A i \in DOMAIN its : i \notin Holders(its, place) => Freed(its, place)[i] = its[i]
  BY FreedEach DEF Formed
<1>2. Equipped(its, id, place) = [Freed(its, place) EXCEPT ![id].equipped = @ \cup {place}]
  BY DEF Equipped
<1> QED
  BY <1>1, <1>2

LEMMA EquipItemTells ==
  ASSUME IInv, GameAgrees, NEW id, NEW place \in Places, EquipItem(id, place)
  PROVE  GameAgrees'
<1> DEFINE news == EquippedNews(items, id, place)
<1>1. /\ id \in DOMAIN items
      /\ items' = Equipped(items, id, place) /\ equips' = equips \ DefaultsAt(place)
      /\ game' = Heard(game, news) /\ untold' = untold \ Named(news, OfItems)
  BY DEF EquipItem, Tell, Held
<1>2. OneEach(items, equips) /\ Formed(items)
  BY DEF IInv, OnePerPlace, OneEach, ItemsOK, Held, Formed
<1>3. /\ \E T : news \in Seq(T)
      /\ \A i : i # id /\ i \notin Holders(items, place) => Silent(news, OfItems, i)
      /\ \A i \in Holders(items, place) \ {id} :
           Says(news, OfItems, i, ItemNews(i, Freed(items, place)[i]))
      /\ Says(news, OfItems, id, ItemNews(id, Equipped(items, id, place)[id]))
      /\ \A p : p # place => Silent(news, OfEquips, p)
      /\ DefaultsAt(place) = {} => Silent(news, OfEquips, place)
      /\ DefaultsAt(place) # {} => Says(news, OfEquips, place, EquipNews(place, NoDef))
  BY <1>2, EquippedSays
<1> HIDE DEF news
<1>4. /\ DOMAIN items' = DOMAIN items
      /\ \A i \in DOMAIN items : i # id => items'[i] = Freed(items, place)[i]
      /\ \A i \in DOMAIN items : i # id /\ i \notin Holders(items, place) => items'[i] = items[i]
  BY <1>1, <1>2, EquippedEach
<1>5. \A i \in Ids : ItemRight(news, i)
  BY <1>1, <1>3, <1>4 DEF ItemRight, Holders, Held
<1>6. \A p \in Places : PlaceRight(news, p)
  BY <1>1, <1>2, <1>3, PlacesRight
<1> QED
  BY <1>1, <1>3, <1>5, <1>6, TellingRight

LEMMA UseItemTells ==
  ASSUME IInv, GameAgrees, NEW id, UseItem(id)
  PROVE  GameAgrees'
<1> DEFINE opened == [items[id] EXCEPT !.kind = "spray"]
           its == Without(With(items, NewId, opened), id)
           left == Attribute("sprays", 0, SpraysLeft)
           filled == Equipped(its, NewId, GraffitiPlace)
           m == GoneNews(id)
           a == EquippedNews(its, NewId, GraffitiPlace)
           news == <<m>> \o a
<1>1. /\ id \in Held
      /\ CanCreate
      /\ items' = [filled EXCEPT ![NewId].attributes = Append(@, left)]
      /\ equips' = equips \ DefaultsAt(GraffitiPlace)
      /\ game' = Heard(game, news)
      /\ untold' = (untold \ Named(news, OfItems)) \cup {NewId}
  BY DEF UseItem, CreateItem
<1>2. NewId # id
  BY <1>1, NewIdFree
<1>3. DOMAIN items[id] = Fields
  BY <1>1 DEF IInv, ItemsOK
<1>4. DOMAIN opened = Fields /\ opened.equipped = items[id].equipped
  BY <1>1, <1>3 DEF Fields
<1> HIDE DEF opened, left
<1>5. /\ DOMAIN its = (Held \ {id}) \cup {NewId}
      /\ its[NewId] = opened
      /\ \A i \in Held \ {id} : its[i] = items[i]
      /\ Formed(its)
      /\ OneEach(its, equips)
  BY <1>1, <1>4, OpenedEach
<1> HIDE DEF its
<1>6. /\ \E T : a \in Seq(T)
      /\ \A i : i # NewId /\ i \notin Holders(its, GraffitiPlace) => Silent(a, OfItems, i)
      /\ \A i \in Holders(its, GraffitiPlace) \ {NewId} :
           Says(a, OfItems, i, ItemNews(i, Freed(its, GraffitiPlace)[i]))
      /\ \A p : p # GraffitiPlace => Silent(a, OfEquips, p)
      /\ DefaultsAt(GraffitiPlace) = {} => Silent(a, OfEquips, GraffitiPlace)
      /\ DefaultsAt(GraffitiPlace) # {} =>
           Says(a, OfEquips, GraffitiPlace, EquipNews(GraffitiPlace, NoDef))
  BY <1>5, PlaceAssumption, EquippedSays
<1>7. m.what = "gone" /\ m.of = id
  BY DEF GoneNews
<1> HIDE DEF a, m
<1>8. PICK T : a \in Seq(T) /\ <<m>> \in Seq(T)
  <2>1. PICK S : a \in Seq(S)
    BY <1>6
  <2>2. a \in Seq(S \cup {m}) /\ <<m>> \in Seq(S \cup {m})
    BY <2>1, SeqGrows
  <2> QED
    BY <2>2
<1>9. news \in Seq(T)
  BY <1>8, ConcatProperties
<1>10. /\ \A p : Silent(<<m>>, OfEquips, p)
       /\ \A i : i # id => Silent(<<m>>, OfItems, i)
       /\ Says(<<m>>, OfItems, id, m)
  BY <1>7, OneSays DEF OfItems, OfEquips
<1>11. \A whats, object :
        /\ Silent(<<m>>, whats, object) /\ Silent(a, whats, object) => Silent(news, whats, object)
        /\ \A n : Says(a, whats, object, n) => Says(news, whats, object, n)
        /\ \A n : Says(<<m>>, whats, object, n) /\ Silent(a, whats, object) =>
             Says(news, whats, object, n)
  BY <1>8, ConcatSays
<1> HIDE DEF news
<1>12. /\ DOMAIN filled = DOMAIN its
       /\ \A i \in DOMAIN its : i # NewId => filled[i] = Freed(its, GraffitiPlace)[i]
       /\ \A i \in DOMAIN its : i # NewId /\ i \notin Holders(its, GraffitiPlace) =>
            filled[i] = its[i]
  BY <1>5, EquippedEach
<1> HIDE DEF filled
<1>13. DOMAIN items' = DOMAIN its /\ \A i \in DOMAIN its : i # NewId => items'[i] = filled[i]
  BY <1>1, <1>12
<1>14. ASSUME NEW i \in Ids \ untold' PROVE ItemRight(news, i)
  <2>1. i # NewId
    BY <1>1
  <2>2. CASE i = id
    <3>1. id \notin DOMAIN items' /\ id \notin Holders(its, GraffitiPlace)
      BY <1>2, <1>5, <1>13 DEF Holders
    <3>2. Says(news, OfItems, id, m)
      BY <1>2, <1>6, <1>10, <1>11, <3>1
    <3> QED
      BY <2>2, <3>1, <3>2 DEF ItemRight, m
  <2>3. CASE i # id /\ i \in Holders(its, GraffitiPlace)
    <3>1. Says(news, OfItems, i, ItemNews(i, Freed(its, GraffitiPlace)[i]))
      BY <1>6, <1>11, <2>1, <2>3
    <3>2. i \in DOMAIN items' /\ items'[i] = Freed(its, GraffitiPlace)[i]
      BY <1>12, <1>13, <2>1, <2>3 DEF Holders
    <3> QED
      BY <3>1, <3>2 DEF ItemRight
  <2>4. CASE i # id /\ i \notin Holders(its, GraffitiPlace)
    <3>1. Silent(news, OfItems, i)
      BY <1>6, <1>10, <1>11, <2>1, <2>4
    <3>2. i \in DOMAIN items' <=> i \in Held
      BY <1>5, <1>13, <2>1, <2>4
    <3>3. i \in Held => items'[i] = items[i]
      BY <1>5, <1>12, <1>13, <2>1, <2>4
    <3> QED
      BY <3>1, <3>2, <3>3 DEF ItemRight
  <2> QED
    BY <2>2, <2>3, <2>4
<1>15. \A p \in Places : PlaceRight(news, p)
  <2>1. /\ \A p : p # GraffitiPlace => Silent(news, OfEquips, p)
        /\ DefaultsAt(GraffitiPlace) = {} => Silent(news, OfEquips, GraffitiPlace)
        /\ DefaultsAt(GraffitiPlace) # {} =>
             Says(news, OfEquips, GraffitiPlace, EquipNews(GraffitiPlace, NoDef))
    BY <1>6, <1>10, <1>11
  <2>2. OneEach(items, equips)
    BY DEF IInv, OnePerPlace, OneEach
  <2> QED
    BY <1>1, <2>1, <2>2, PlaceAssumption, PlacesRight
<1>16. untold \ Named(news, OfItems) \subseteq untold'
  BY <1>1
<1> QED
  BY <1>1, <1>9, <1>14, <1>15, <1>16, TellingRight

\* The cache is all the game knows.
LEMMA BuildCacheSubscriptionTells ==
  ASSUME IInv, BuildCacheSubscription
  PROVE  GameAgrees'
<1>1. PICK cache \in stored :
        /\ items' = cache.items /\ equips' = cache.equips
        /\ game' = [items |-> cache.items,
                    equips |-> [p \in Places |->
                      IF \E e \in cache.equips : e.place = p
                      THEN (CHOOSE e \in cache.equips : e.place = p).def ELSE NoDef]]
  BY DEF BuildCacheSubscription
<1>2. cache \in Caches
  BY <1>1 DEF IInv, StoredOK
<1>3. /\ cache.equips \subseteq [def : DefaultDefs, place : Places]
      /\ \A p \in Places : \A d, e \in cache.equips : d.place = p /\ e.place = p => d = e
  BY <1>2, CacheAssumption
<1>4. game'.items = items'
  BY <1>1
<1>5. ASSUME NEW place \in Places, NEW def \in DefaultDefs
      PROVE  [def |-> def, place |-> place] \in equips' <=> game'.equips[place] = def
  <2>1. CASE \E e \in cache.equips : e.place = place
    <3>1. PICK e \in cache.equips : e.place = place
      BY <2>1
    <3>2. (CHOOSE d \in cache.equips : d.place = place) = e
      BY <1>3, <3>1
    <3>3. game'.equips[place] = e.def
      BY <1>1, <2>1, <3>2
    <3>4. e = [def |-> e.def, place |-> place]
      BY <1>3, <3>1
    <3>5. [def |-> def, place |-> place].place = place /\ [def |-> def, place |-> place].def = def
      OBVIOUS
    <3>6. [def |-> def, place |-> place] \in cache.equips => [def |-> def, place |-> place] = e
      BY <1>3, <3>1, <3>5
    <3> QED
      BY <1>1, <3>1, <3>3, <3>4, <3>5, <3>6
  <2>2. CASE ~ \E e \in cache.equips : e.place = place
    <3>1. game'.equips[place] = NoDef
      BY <1>1, <2>2
    <3>2. [def |-> def, place |-> place].place = place
      OBVIOUS
    <3>3. [def |-> def, place |-> place] \notin cache.equips
      BY <2>2, <3>2
    <3> QED
      BY <1>1, <3>1, <3>3, DefaultAssumption
  <2> QED
    BY <2>1, <2>2
<1> QED
  BY <1>4, <1>5 DEF GameAgrees, Held

-----------------------------------------------------------------------------
(* The game's copy.                                                        *)

LEMMA InitGameAgrees == Init => GameAgrees
<1> SUFFICES ASSUME Init PROVE GameAgrees
  OBVIOUS
<1>1. Held = {} /\ DOMAIN game.items = {}
  BY DEF Init, Held
<1>2. \A place \in Places : game.equips[place] = NoDef
  BY DEF Init
<1>3. equips = {}
  BY DEF Init
<1> QED
  BY <1>1, <1>2, <1>3, DefaultAssumption DEF GameAgrees

LEMMA NextGameAgrees == IInv /\ GameAgrees /\ [Next]_vars => GameAgrees'
<1> SUFFICES ASSUME IInv, GameAgrees, [Next]_vars PROVE GameAgrees'
  OBVIOUS
<1>1. ASSUME NEW cache \in Caches, StoreCacheSubscription(cache) PROVE GameAgrees'
  BY <1>1 DEF StoreCacheSubscription, GameAgrees, Held
<1>2. CASE UNCHANGED vars
  BY <1>2 DEF vars, GameAgrees, Held
<1>3. ASSUME NEW id, UnlockCrate(id, NewItem("gun", FALSE)) PROVE GameAgrees'
  BY <1>3, UnlockCrateTells
<1>4. ASSUME NEW id, NEW second, id # second, SetItemPositions(id, second, 1) PROVE GameAgrees'
  BY <1>4, SetItemPositionsTells
<1>5. ASSUME Next PROVE GameAgrees'
  BY <1>1, <1>3, <1>4, <1>5, BuildCacheSubscriptionTells, NameBaseItemTells, UnequipPlaceTells,
     EquipDefaultTells, ApplyToBaseTells, UnequipItemTells, UseItemTells, DeleteItemTells,
     NameItemTells, RemoveItemNameTells, IncrementKillCountAttributeTells, EquipItemTells,
     ScrapeStickerTells, ApplyStickerTells DEF Next
<1> QED
  BY <1>2, <1>5

\* Whatever the game asks for, and whatever caches come between, the messages of each
\* operation leave the game with the items and default equips that are in the inventory:
\* all of them but the ones changed by code that tells nobody.
THEOREM GameAgreesHolds == Spec => []GameAgrees
<1>1. IInv /\ GameAgrees /\ [Next]_vars => IInv' /\ GameAgrees'
  BY NextIInv, NextGameAgrees
<1>2. Init => IInv /\ GameAgrees
  BY InitIInv, InitGameAgrees
<1> QED
  BY <1>1, <1>2, PTL DEF Spec
=============================================================================
