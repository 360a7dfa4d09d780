------------------------------- MODULE ItemFile -------------------------------
(***************************************************************************)
(* inventory.txt (src/csgo_gc/inventory.cpp): Inventory writes its items   *)
(* and default equips to a file when it is destroyed and reads them back   *)
(* when the game starts; the game may die while it writes, and the player  *)
(* may edit the file in between.  At this commit the constructor's call of *)
(* ReadFromFile is commented out, the destructor's of WriteToFile is not.  *)
(*                                                                         *)
(* The file is a KeyValue tree, in the tokens of KeyValueFile.  What       *)
(* matters is how things are named in it: an item by the high half of its  *)
(* id, a place by its class, a default equip by its definition; keys of    *)
(* one name become one when they are parsed.                               *)
(*                                                                         *)
(* An item's "def_index" stands for all its numbers, which are written     *)
(* before and after the name alike.  An attribute's value may be missing   *)
(* (a sequence of at most one element); a float's is counted in units      *)
(* below its sixth decimal.                                                *)
(***************************************************************************)
EXTENDS KeyValueFile

CONSTANTS
  IdRange,       \* the number of high ids: 2^32 in the code
  FirstDefault,  \* the first high id that reads as a default item
  Own,           \* the account the inventory belongs to
  AttributeType, \* m_attributeInfo: the attributes the schema has -> their types
  Shown,         \* units of a float's value that its sixth decimal stands for
  Numbers,       \* strings that begin with a number -> the number
  Inventories,   \* what may be held: [items, equips]
  Edited,        \* the tree of a file as a player leaves it
  MaxStarts,     \* times the game is started (a bound)
  MaxDeaths      \* times it dies while it writes (a bound)

\* What is read back of a float.
Rounded(value) == ((value + Shown \div 2) \div Shown) * Shown

\* The numbers there are, and what is held: what a variable of its type can say.
Known == Range(Numbers)
Ids == [low : Nat, high : 0..(IdRange - 1)]
IsItem(item) ==
  /\ item.kind \in Known
  /\ item.attributes \in Seq([def : Known, value : {<<>>} \cup {<<n>> : n \in Known}])
  /\ item.equipped \in Seq([class : Known, slot : Known])
IsInventory(inventory) ==
  /\ DOMAIN inventory.items \subseteq Ids /\ IsFiniteSet(DOMAIN inventory.items)
  /\ \A id \in DOMAIN inventory.items : IsItem(inventory.items[id])
  /\ inventory.equips \in Seq([def : Known, class : Known, slot : Known])

ASSUME FileAssumption ==
  /\ FirstDefault \in 1..(IdRange - 1) /\ IdRange \in Nat
  /\ Own \in Nat
  /\ Shown \in Nat \ {0}
  /\ Numbers \in [DOMAIN Numbers -> Nat] /\ NoText \notin DOMAIN Numbers
  /\ 0..(IdRange - 1) \subseteq Known
  /\ \A n \in Known :
       /\ ToString(n) \in DOMAIN Numbers /\ Numbers[ToString(n)] = n
       /\ Rounded(n) \in Known
  /\ \A inventory \in Inventories : IsInventory(inventory)
  /\ Edited \subseteq FileTrees

VARIABLES
  items,   \* m_items: id -> item
  equips,  \* m_defaultEquips
  last,    \* m_lastHighItemId
  file,    \* what is in inventory.txt
  running, \* an Inventory exists
  starts, deaths,
  held,    \* history: the inventory as of the last write
  tree,    \* history: the KeyValue it was written from
  left,    \* history: how the file came to be: "edited", "whole" or "torn"
  settled  \* history: the inventory last read was one read from a file written whole

vars == <<items, equips, last, file, running, starts, deaths, held, tree, left, settled>>

-----------------------------------------------------------------------------
(* Writing.                                                                *)

HighItemId(id) == id.high
\* to_string(HighItemId); and a slip: of the next.
KeyOfNext(id) == ToString(HighItemId(id) + 1)
KeyOf(id) == ToString(HighItemId(id))

\* An attribute the schema does not have is the empty string.  A slip: every number is
\* written as a float.
AttributeStringAsFloat(attribute) ==
  IF attribute.def \notin DOMAIN AttributeType \/ attribute.value = <<>> THEN NoText
  ELSE ToString(Rounded(attribute.value[1]))
AttributeString(attribute) ==
  IF attribute.def \notin DOMAIN AttributeType \/ attribute.value = <<>> THEN NoText
  ELSE ToString(IF AttributeType[attribute.def] = "float" THEN Rounded(attribute.value[1])
                ELSE attribute.value[1])

WriteItem(id, item) ==
  Section(KeyOf(id),
    <<String("def_index", ToString(item.kind)),
      String("custom_name", item.custom),
      Section("attributes",
        [i \in DOMAIN item.attributes |->
           String(ToString(item.attributes[i].def), AttributeString(item.attributes[i]))]),
      Section("equipped_state",
        [i \in DOMAIN item.equipped |->
           String(ToString(item.equipped[i].class), ToString(item.equipped[i].slot))])>>)

WriteEquip(equip) ==
  Section(ToString(equip.def),
    <<String("class_id", ToString(equip.class)), String("slot_id", ToString(equip.slot))>>)

\* The KeyValue WriteToFile makes.  A hash map has its items in any order.
Trees ==
  {Section("inventory",
     <<Section("items", [i \in DOMAIN order |-> WriteItem(order[i], items[order[i]])]),
       Section("default_equips", [i \in DOMAIN equips |-> WriteEquip(equips[i])])>>) :
     order \in SetToSeqs(DOMAIN items)}

Writes ==
  /\ running
  /\ running' = FALSE
  /\ tree' \in Trees
  /\ held' = [items |-> items, equips |-> equips]
  /\ UNCHANGED <<items, equips, last, starts, settled>>

\* ~Inventory.
WriteToFile ==
  /\ Writes
  /\ file' = Written(tree')
  /\ left' = "whole"
  /\ UNCHANGED deaths

\* The game dies before the file is complete; the old one is gone by then.
DieWriting ==
  /\ deaths < MaxDeaths
  /\ Writes
  /\ file' \in TornFiles(Written(tree'))
  /\ left' = "torn"
  /\ deaths' = deaths + 1

-----------------------------------------------------------------------------
(* Reading.                                                                *)

\* FromString: 0 for what does not begin with a number.
FromString(text) == IF text \in DOMAIN Numbers THEN Numbers[text] ELSE 0
GetNumber(key, name) == FromString(GetString(key, name))

IsDefaultItemId(high) == high >= FirstDefault
InUseNever(its, high) == FALSE
InUse(its, high) == [low |-> Own, high |-> high] \in DOMAIN its
Taken(its, high) == IsDefaultItemId(high) \/ InUse(its, high)

\* CreateItem's id: the one given (0: the next one), or the first free one after it.
FirstFree(its, high) ==
  (high + Min({k \in 0..(IdRange - 1) : ~ Taken(its, (high + k) % IdRange)})) % IdRange

\* SetAttributeString leaves an attribute the schema does not have without a value.
SetAttributeString(key) ==
  LET def == FromString(key.name) IN
  [def |-> def, value |-> IF def \in DOMAIN AttributeType THEN <<FromString(key.text)>> ELSE <<>>]

ReadItem(key) ==
  LET attributes == SubsOf(key, "attributes")
      equipped == SubsOf(key, "equipped_state")
  IN [kind |-> GetNumber(key, "def_index"), custom |-> GetString(key, "custom_name"),
      attributes |-> [i \in DOMAIN attributes |-> SetAttributeString(attributes[i])],
      equipped |-> [i \in DOMAIN equipped |->
                     [class |-> FromString(equipped[i].name),
                      slot |-> FromString(equipped[i].text)]]]

ReadEquip(key) ==
  [def |-> FromString(key.name), class |-> GetNumber(key, "class_id"),
   slot |-> GetNumber(key, "slot_id")]

CreateAndRead(inventory, key) ==
  LET given == FromString(key.name)
      next == (inventory.last + 1) % IdRange
      start == IF given = 0 THEN next ELSE given
      lastNow == IF given = 0 THEN next ELSE inventory.last
      high == FirstFree(inventory.items, start)
      id == [low |-> Own, high |-> high]
  IN [items |-> [i \in DOMAIN inventory.items \cup {id} |->
                  IF i = id THEN ReadItem(key) ELSE inventory.items[i]],
      last |-> IF high > lastNow THEN high ELSE lastNow]

NoItems == [id \in {} |-> id]

\* The items of these keys, created one after the other.
ReadItems(keys) ==
  LET read[n \in 0..Len(keys)] ==
        IF n = 0 THEN [items |-> NoItems, last |-> 0] ELSE CreateAndRead(read[n - 1], keys[n])
  IN read[Len(keys)]

\* Whether what was parsed is used; and a slip: whatever came of it.
UsedAnyway(parsed) == TRUE
Used(parsed) == parsed.ok

\* ReadFromFile, as the constructor would call it, with an empty inventory.  It returns as
\* long as CreateItem finds a free id for every key.
ReadFromFile ==
  /\ ~ running
  /\ starts < MaxStarts
  /\ LET parsed == FromFile(file, "inventory")
         keys == IF Used(parsed) THEN SubsOf(parsed.key, "items") ELSE <<>>
         equipKeys == IF Used(parsed) THEN SubsOf(parsed.key, "default_equips") ELSE <<>>
     IN /\ Len(keys) <= FirstDefault
        /\ items' = ReadItems(keys).items
        /\ last' = ReadItems(keys).last
        /\ equips' = [i \in DOMAIN equipKeys |-> ReadEquip(equipKeys[i])]
  /\ running' = TRUE
  /\ starts' = starts + 1
  /\ settled' = (left = "whole")
  /\ UNCHANGED <<file, deaths, held, tree, left>>

\* The game has run and holds some inventory, or it has not and the file is the player's.
Init ==
  /\ starts = 0 /\ deaths = 0
  /\ settled = FALSE
  /\ last = 0
  /\ left = "edited"
  /\ \/ /\ running = TRUE
        /\ \E inventory \in Inventories :
             items = inventory.items /\ equips = inventory.equips
        /\ tree = Section("inventory", <<>>)
     \/ /\ running = FALSE
        /\ items = NoItems /\ equips = <<>>
        /\ tree \in Edited
  /\ file = Written(tree)
  /\ held = [items |-> items, equips |-> equips]

Next == WriteToFile \/ DieWriting \/ ReadFromFile

Spec == Init /\ [][Next]_vars

-----------------------------------------------------------------------------
(* Properties of the inventory.                                            *)

InFile == FromFile(file, "inventory")

NoRepeats(s, Name(_)) == \A i, j \in DOMAIN s : Name(s[i]) = Name(s[j]) => i = j

\* What the file can say: the account's own items, with an id, one place for each
\* class, attributes the schema has, one default equip for each definition.
Plain(inventory) ==
  /\ \A id \in DOMAIN inventory.items :
       LET item == inventory.items[id] IN
       /\ id.low = Own /\ id.high # 0 /\ ~ IsDefaultItemId(id.high)
       /\ NoRepeats(item.equipped, LAMBDA place : place.class)
       /\ NoRepeats(item.attributes, LAMBDA attribute : attribute.def)
       /\ \A i \in DOMAIN item.attributes :
            /\ item.attributes[i].def \in DOMAIN AttributeType
            /\ item.attributes[i].value # <<>>
  /\ NoRepeats(inventory.equips, LAMBDA equip : equip.def)

\* A float is read back to within half of what six decimals show.
AlmostEqual(a, b) ==
  /\ a.def = b.def
  /\ IF AttributeType[a.def] # "float" THEN a.value = b.value
     ELSE /\ 2 * a.value[1] <= 2 * b.value[1] + Shown
          /\ 2 * b.value[1] <= 2 * a.value[1] + Shown

\* The item has come back as it was.
Kept(id) ==
  LET now == items[id]  before == held.items[id] IN
  /\ now.kind = before.kind /\ now.custom = before.custom
  /\ now.equipped = before.equipped
  /\ Len(now.attributes) = Len(before.attributes)
  /\ \A i \in DOMAIN now.attributes : AlmostEqual(now.attributes[i], before.attributes[i])

\* An inventory the file can describe comes back under the same ids, in the same places,
\* with the same attributes, whatever order the hash map was written in.
PlainIsKept ==
  (running /\ starts > 0 /\ left = "whole" /\ Plain(held)) =>
    /\ DOMAIN items = DOMAIN held.items
    /\ equips = held.equips
    /\ \A id \in DOMAIN items : Kept(id)

\* A game that has died while it wrote starts with some of these items, under their own
\* ids and as they were, and with the first of the default equips: except for the one
\* thing it died in, be it an item or a default equip.
TornKeepsOthers ==
  (running /\ starts > 0 /\ left = "torn" /\ Plain(held)) =>
    LET changed == {id \in DOMAIN items : id \notin DOMAIN held.items \/ ~ Kept(id)} IN
    /\ DOMAIN items \subseteq DOMAIN held.items
    /\ Cardinality(changed) <= 1
    /\ Len(equips) <= Len(held.equips)
    /\ equips # <<>> =>
         /\ changed = {} /\ DOMAIN items = DOMAIN held.items
         /\ \A i \in 1..(Len(equips) - 1) : equips[i] = held.equips[i]

\* Whatever the file has, every item key that is read becomes an item of its own, none
\* of them reads as a default item, and the id counter is past them all: unless there are so
\* many keys that the counter, which each may push on by one, could go through all the ids
\* of default items.
EveryKeyIsAnItem ==
  (running /\ starts > 0) =>
    LET keys == IF InFile.ok THEN SubsOf(InFile.key, "items") ELSE <<>> IN
    /\ Cardinality(DOMAIN items) = Len(keys)
    /\ \A id \in DOMAIN items :
         /\ ~ IsDefaultItemId(id.high)
         /\ Len(keys) <= IdRange - FirstDefault => id.high <= last

\* What a reload changes it changes once: an inventory that was read from a file the
\* code wrote whole comes back the same.  The exception is an id that ran past those that
\* read as default items to the high id 0: as a name that asks for the next free id.
SettledAfterOne ==
  [][(ReadFromFile /\ settled /\ left = "whole" /\ \A id \in DOMAIN held.items : id.high # 0)
       => (items' = held.items /\ equips' = held.equips)]_vars
=============================================================================
