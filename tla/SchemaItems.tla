----------------------------- MODULE SchemaItems -----------------------------
(***************************************************************************)
(* The items of ItemSchema (src/csgo_gc/item_schema.cpp): its constructor  *)
(* goes through the sections of the game's file one after the other.  An   *)
(* item takes what it does not say itself from its prefab, and that from   *)
(* its own (ParseItemRecursive); an entry of a loot list is looked up      *)
(* among the items and kits parsed by then, and keeps a rarity made of     *)
(* theirs (ParseLootListItem).                                             *)
(*                                                                         *)
(* How lists lead to lists is in LootLists, what is drawn in LootSelection.*)
(***************************************************************************)
EXTENDS Naturals, SequencesExt

CONSTANTS
  Rarities,    \* the rarity of each string ItemRarityFromString knows
  Files,       \* what the game's file may say
  Width,       \* rarities are added as numbers below it: 2^32 in the code
  MaxDepth     \* calls the program's stack has room for

RarityDefault == 0
RarityCommon == 1
RarityAncient == 6
RarityImmortal == 7

None == ""
Fields == {"name", "rarity", "series"}

\* A file has items (each with its definition; 0 is the key "default"), prefabs by name,
\* sticker kits and paint kits (each with its name and rarity; a paint kit's is in a section
\* of its own and may be missing), music definitions and the entries of loot lists, each
\* an item's name and the kit in brackets before it, if any.  An item or prefab says some
\* fields, and may name a prefab.  The sum of two rarities is far from the width of a number.
ASSUME SchemaAssumption ==
  /\ \A s \in DOMAIN Rarities : Rarities[s] \in Nat /\ 4 * Rarities[s] < Width
  /\ Width \in Nat /\ 4 * RarityCommon < Width /\ MaxDepth \in Nat
  /\ \A f \in Files :
       /\ \A e \in Range(f.items) \cup Range(f.prefabs) : DOMAIN e.says \subseteq Fields
       /\ \A name \in {"items", "stickerKits", "paintKits", "paintKitRarities",
                       "musicKits", "lists"} : f[name] \in Seq(Range(f[name]))

VARIABLES
  file,        \* the file
  section,     \* how many of Sections have been gone through
  at,          \* keys of this section that have been
  stack,       \* calls of ParseItemRecursive: items and prefabs
  returning,   \* the innermost call there was has returned
  infos,       \* m_itemInfo: definition -> field -> value
  stickerKits, \* m_stickerKitInfo: name -> rarity
  paintKits,   \* m_paintKitInfo: name -> rarity
  musicKits,   \* m_musicDefinitionInfo: the names
  listed       \* entry -> its LootListItem

parsed == <<infos, stickerKits, paintKits, musicKits, listed>>
vars == <<file, section, at, stack, returning, parsed>>

\* The constructor's order; and a slip: loot lists before the rarities of paint kits.
SectionsListsEarly ==
  <<"items", "stickerKits", "paintKits", "lists", "paintKitRarities", "musicKits">>
Sections ==
  <<"items", "stickerKits", "paintKits", "paintKitRarities", "musicKits", "lists">>

Done == section = Len(Sections) + 1
Overflow == Len(stack) > MaxDepth

\* The next key of a section.
In(name) == ~ Done /\ Sections[section] = name /\ stack = <<>> /\ at < Len(file[name])
Key == file[Sections[section]][at + 1]

Advance == at' = at + 1 /\ UNCHANGED <<file, section, stack, returning>>

NextSection ==
  /\ ~ Done /\ stack = <<>> /\ at = Len(file[Sections[section]])
  /\ section' = section + 1 /\ at' = 0
  /\ UNCHANGED <<file, stack, returning, parsed>>

\* With a name that is new to f; the first of a name counts.
Emplaced(f, key, value) ==
  IF key \in DOMAIN f THEN f ELSE [k \in DOMAIN f \cup {key} |-> IF k = key THEN value ELSE f[k]]

-----------------------------------------------------------------------------
(* Items and their prefabs.                                                *)

\* ItemRarityFromString: a string that is not known is common.
RarityFromString(s) == IF s \in DOMAIN Rarities THEN Rarities[s] ELSE RarityCommon

\* ItemInfo's constructor.
NewInfo == [name |-> None, rarity |-> RarityCommon, series |-> 0]

\* Calls made for an element's prefab; and a slip: for the element itself.
HasPrefab(e) == e.prefab \in DOMAIN file.prefabs
SameAgain(e) == e
PrefabOf(e) == file.prefabs[e.prefab]

\* What an element says about a field, in the place of what was said; and a slip: only
\* where nothing was.
Said(e, field) == IF field = "rarity" THEN RarityFromString(e.says[field]) ELSE e.says[field]
Filled(info, e) ==
  [field \in Fields |-> IF field \in DOMAIN e.says /\ info[field] = NewInfo[field]
                          THEN Said(e, field) ELSE info[field]]
Overridden(info, e) ==
  [field \in Fields |-> IF field \in DOMAIN e.says THEN Said(e, field) ELSE info[field]]

ParseItem ==
  /\ In("items")
  /\ IF Key.def = 0
       THEN Advance /\ UNCHANGED parsed
       ELSE /\ infos' = Emplaced(infos, Key.def, NewInfo)
            /\ stack' = <<Key>> /\ returning' = FALSE
            /\ UNCHANGED <<file, section, at, stickerKits, paintKits, musicKits, listed>>

\* ParseItemRecursive: first the prefab.
ParsePrefab ==
  /\ stack # <<>> /\ ~ Overflow
  /\ ~ returning /\ HasPrefab(Last(stack))
  /\ stack' = Append(stack, PrefabOf(Last(stack)))
  /\ UNCHANGED <<file, section, at, returning, parsed>>

\* Then what the element says itself.
ParseFields ==
  /\ stack # <<>> /\ ~ Overflow
  /\ returning \/ ~ HasPrefab(Last(stack))
  /\ infos' = [infos EXCEPT ![Key.def] = Overridden(@, Last(stack))]
  /\ stack' = Front(stack)
  /\ returning' = (stack' # <<>>)
  /\ at' = IF stack' = <<>> THEN at + 1 ELSE at
  /\ UNCHANGED <<file, section, stickerKits, paintKits, musicKits, listed>>

-----------------------------------------------------------------------------
(* Kits.                                                                   *)

\* The rarity of a sticker kit that says none is the default one.
ParseStickerKit ==
  /\ In("stickerKits")
  /\ stickerKits' = Emplaced(stickerKits, Key.name,
                      IF Key.rarity = None THEN RarityDefault ELSE RarityFromString(Key.rarity))
  /\ Advance
  /\ UNCHANGED <<infos, paintKits, musicKits, listed>>

ParsePaintKit ==
  /\ In("paintKits")
  /\ paintKits' = Emplaced(paintKits, Key, RarityCommon)
  /\ Advance
  /\ UNCHANGED <<infos, stickerKits, musicKits, listed>>

ParsePaintKitRarity ==
  /\ In("paintKitRarities")
  /\ paintKits' = IF Key.name \in DOMAIN paintKits
                    THEN [paintKits EXCEPT ![Key.name] = RarityFromString(Key.rarity)]
                    ELSE paintKits
  /\ Advance
  /\ UNCHANGED <<infos, stickerKits, musicKits, listed>>

ParseMusicDefinition ==
  /\ In("musicKits")
  /\ musicKits' = musicKits \cup {Key}
  /\ Advance
  /\ UNCHANGED <<infos, stickerKits, paintKits, listed>>

-----------------------------------------------------------------------------
(* The entries of loot lists.                                              *)

\* The numbers wrap, and are read as signed ones at last.
PaintedItemRarity(itemRarity, paintKitRarity) ==
  LET rarity == (itemRarity + Width - 1 + paintKitRarity) % Width IN
  IF rarity >= Width \div 2 THEN 0
  ELSE IF rarity > RarityAncient
    THEN IF paintKitRarity = RarityImmortal THEN RarityImmortal ELSE RarityAncient
  ELSE rarity

Stickers == {"sticker", "spray", "patch"}

\* LootListItemTypeFromName; a kit on any other item is paint.
TypeOf(entry) ==
  IF entry.kit = None THEN "no attribute"
  ELSE IF entry.item \in Stickers THEN "sticker"
  ELSE IF entry.item = "musickit" THEN "musickit" ELSE "paint"

\* ItemInfoByName: one of the items of the name, whichever the hash map has first.
Named(name) == {def \in DOMAIN infos : infos[def].name = name}

KitsOf(type) ==
  CASE type = "sticker" -> DOMAIN stickerKits
    [] type = "paint" -> DOMAIN paintKits
    [] type = "musickit" -> musicKits
    [] type = "no attribute" -> {None}

\* The item's rarity, or one the kit has a say in.
RarityOf(entry, itemRarity) ==
  CASE TypeOf(entry) = "sticker" ->
         IF stickerKits[entry.kit] # 0 THEN stickerKits[entry.kit] ELSE itemRarity
    [] TypeOf(entry) = "paint" -> PaintedItemRarity(itemRarity, paintKits[entry.kit])
    [] OTHER -> itemRarity

\* ParseLootListItem; an entry that names no item or no kit is left out.
ParseLootListItem ==
  /\ In("lists")
  /\ IF Named(Key.item) # {} /\ Key.kit \in KitsOf(TypeOf(Key))
       THEN \E def \in Named(Key.item) :
              listed' = Emplaced(listed, Key,
                          [def |-> def, rarity |-> RarityOf(Key, infos[def].rarity)])
       ELSE UNCHANGED listed
  /\ Advance
  /\ UNCHANGED <<infos, stickerKits, paintKits, musicKits>>

-----------------------------------------------------------------------------
Init ==
  /\ file \in Files
  /\ section = 1 /\ at = 0 /\ stack = <<>> /\ returning = FALSE
  /\ infos = <<>> /\ stickerKits = <<>> /\ paintKits = <<>>
  /\ musicKits = {} /\ listed = <<>>

Next ==
  \/ ParseItem \/ ParsePrefab \/ ParseFields
  \/ ParseStickerKit \/ ParsePaintKit \/ ParsePaintKitRarity \/ ParseMusicDefinition
  \/ ParseLootListItem \/ NextSection

\* The constructor is a call that runs to its end.
Spec == Init /\ [][Next]_vars
FairSpec == Spec /\ WF_vars(Next)

-----------------------------------------------------------------------------
(* Properties.                                                             *)

\* The prefabs have an order in which each comes after the one it names; the parser does
\* not ask for it.
Acyclic ==
  \E rank \in [DOMAIN file.prefabs -> 1..(MaxDepth - 1)] :
    \A p \in DOMAIN file.prefabs :
      HasPrefab(file.prefabs[p]) => rank[file.prefabs[p].prefab] < rank[p]

\* Then the schema is read to its end, and the calls of ParseItemRecursive stay within
\* the stack.
SchemaIsRead == Acyclic ~> Done

\* The elements from e on, each the prefab of the one before, up to the first that says
\* the field or has no prefab.
Leads(chain, e, field) ==
  /\ chain[1] = e
  /\ \A k \in 1..(Len(chain) - 1) :
       /\ field \notin DOMAIN chain[k].says
       /\ HasPrefab(chain[k]) /\ chain[k + 1] = PrefabOf(chain[k])
  /\ field \in DOMAIN chain[Len(chain)].says \/ ~ HasPrefab(chain[Len(chain)])

Chains(e) == UNION {[1..n -> {e} \cup Range(file.prefabs)] : n \in 1..MaxDepth}

\* What an element says itself of a field.
Word(e, field) == IF field \in DOMAIN e.says THEN Said(e, field) ELSE NewInfo[field]

\* What the file says of an element's field: the nearest word on it.
Nearest(e, field) ==
  LET chain == CHOOSE c \in Chains(e) : Leads(c, e, field)
  IN  Word(chain[Len(chain)], field)

\* The keys of a section have names of their own; the parser does not ask for it.
DefsDiffer == \A i, j \in DOMAIN file.items : file.items[i].def = file.items[j].def => i = j
NamesDiffer(keys) == \A i, j \in DOMAIN keys : keys[i].name = keys[j].name => i = j
KeysDiffer == DefsDiffer /\ NamesDiffer(file.stickerKits) /\ NamesDiffer(file.paintKitRarities)

\* However the sayings are spread over an item and its prefabs, the nearest one counts.
NearestSaysIt ==
  DefsDiffer /\ section > 1 =>
    \A e \in Range(file.items) : \A field \in Fields :
      e.def # 0 => infos[e.def][field] = Nearest(e, field)

\* item_schema.cpp:160 "we need to parse these after items and paint kits": an entry of a
\* loot list ends with the rarity that the whole file gives it, whichever section says
\* what, when items have names of their own; and it is listed if the file has its parts.
DeclaredPaint(kit) ==
  LET said == {k \in Range(file.paintKitRarities) : k.name = kit}
  IN IF said = {} THEN RarityCommon ELSE RarityFromString((CHOOSE k \in said : TRUE).rarity)

DeclaredRarity(entry, e) ==
  LET own == Nearest(e, "rarity")
      painted == IF own + DeclaredPaint(entry.kit) = 0 THEN 0
                 ELSE own + DeclaredPaint(entry.kit) - 1
      stickers == {k \in Range(file.stickerKits) : k.name = entry.kit /\ k.rarity # None}
  IN CASE TypeOf(entry) = "sticker" /\ stickers # {} ->
            LET kit == RarityFromString((CHOOSE k \in stickers : TRUE).rarity)
            IN IF kit = 0 THEN own ELSE kit
       [] TypeOf(entry) = "paint" ->
            IF painted <= RarityAncient THEN painted
            ELSE IF DeclaredPaint(entry.kit) = RarityImmortal THEN RarityImmortal
            ELSE RarityAncient
       [] OTHER -> own

DeclaredKits ==
  {k.name : k \in Range(file.stickerKits)} \cup Range(file.paintKits)
    \cup Range(file.musicKits) \cup {None}

ListedAsDeclared ==
  Done /\ KeysDiffer =>
    \A entry \in Range(file.lists) :
      LET elements == {e \in Range(file.items) : e.def # 0 /\ Nearest(e, "name") = entry.item} IN
      /\ entry \in DOMAIN listed => elements # {} /\ entry.kit \in DeclaredKits
      /\ elements # {} /\ entry.kit \in KitsOf(TypeOf(entry)) => entry \in DOMAIN listed
      /\ \A e \in elements :
           elements = {e} /\ entry \in DOMAIN listed =>
             listed[entry] = [def |-> e.def, rarity |-> DeclaredRarity(entry, e)]
=============================================================================
