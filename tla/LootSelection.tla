---------------------------- MODULE LootSelection ----------------------------
(***************************************************************************)
(* ItemSchema::SelectItemFromCrate (src/csgo_gc/item_schema.cpp): what     *)
(* comes out of a crate, from the files its loot lists are declared in to  *)
(* the item.  LootLists parses the lists and gathers the items under that  *)
(* of the crate; here they are grouped by rarity, and rolls of the random  *)
(* generator decide on an unusual item, on a rarity by weight and on an    *)
(* item of that rarity.                                                    *)
(***************************************************************************)
EXTENDS LootLists

CONSTANTS
  RarityOf,        \* the rarity an item has in a loot list
  HighDefinitions, \* items whose definition is UnusualStatTrakLimit or above
  BaseWeight       \* baseWeights: rarity -> weight

GoldWeight == 2

ASSUME SelectionAssumption ==
  /\ RarityOf \in [ItemNames -> Nat]
  /\ HighDefinitions \subseteq ItemNames
  /\ \A rarity \in DOMAIN BaseWeight : rarity \in Nat /\ BaseWeight[rarity] \in Nat \ {0}

VARIABLES
  selected,  \* SelectItemFromCrate has returned
  drawn      \* what has come out: a sequence of at most one item

selection == <<selected, drawn>>

-----------------------------------------------------------------------------

Crate == lists[opened]
ItemsInCrate == Range(found)

\* The items grouped by rarity, the unusual ones left out; and a slip: with them.
OfRarityAny(rarity) == {i \in ItemsInCrate : RarityOf[i.name] = rarity}
OfRarity(rarity) == {i \in ItemsInCrate : RarityOf[i.name] = rarity /\ ~ i.unusual}
Unusuals == {i \in ItemsInCrate : i.unusual}
Rarities == {RarityOf[i.name] : i \in ItemsInCrate \ Unusuals}

Weighted == Rarities \cap DOMAIN BaseWeight

\* Weights are added up by counting: a rarity holds as many lots as its weight, and none
\* without one.
Lots(rarity) == {rarity} \X (1..BaseWeight[rarity])
LotsOf(rarities) == UNION {Lots(rarity) : rarity \in rarities \cap DOMAIN BaseWeight}
TotalWeight == Cardinality(LotsOf(Rarities))

\* The groups are a hash map: they are gone through in an order of its own.
Orders == SetToSeqs(Rarities)

\* currentWeight once the rarities up to the n-th have been added.
CurrentWeight(order, n) == Cardinality(LotsOf({order[i] : i \in 1..n}))

\* The rarities the roll has not passed: the first of them gets it.  A slip: <= for <.
ReachedWith(order, roll) ==
  {n \in DOMAIN order : order[n] \in DOMAIN BaseWeight /\ roll <= CurrentWeight(order, n)}
Reached(order, roll) ==
  {n \in DOMAIN order : order[n] \in DOMAIN BaseWeight /\ roll < CurrentWeight(order, n)}

\* The rolls: Uint32(min, max) includes both.
GoldRolls == 0..(TotalWeight + GoldWeight)
Rolls == 0..TotalWeight

\* generateStatTrak, and whether it comes to that.
StatTraks ==
  IF Crate.willProduceStatTrak THEN {TRUE} ELSE IF unusuals THEN BOOLEAN ELSE {FALSE}

\* EconItemFromLootListItem.  The counter of kills goes with StatTrak; unusual items
\* keep their quality, and those with a high definition are never StatTrak.
Econ(item, rolledStatTrak) ==
  LET statTrak == rolledStatTrak /\ ~ (item.unusual /\ item.name \in HighDefinitions)
  IN [item |-> item, counter |-> statTrak,
      quality |-> IF item.unusual THEN "unusual" ELSE IF statTrak THEN "strange" ELSE "own"]

\* The gold roll won and there is an unusual item.
GoldTried == ~ Crate.isUnusual /\ unusuals
DrawUnusual ==
  /\ GoldTried
  /\ \E gold \in GoldRolls : gold < GoldWeight
  /\ \E item \in Unusuals, statTrak \in StatTraks : drawn' = <<Econ(item, statTrak)>>

\* Otherwise a rarity is rolled for, and the roll may be past all of them.  What a
\* tournament's crate gives has a quality of its own.
GoldMissed == ~ GoldTried \/ Unusuals = {} \/ \E gold \in GoldRolls : gold >= GoldWeight

DrawByRarity ==
  /\ GoldMissed
  /\ \E order \in Orders, roll \in Rolls :
       LET reached == Reached(order, roll) IN
       IF reached = {} THEN UNCHANGED drawn
       ELSE \E item \in OfRarity(order[Min(reached)]), statTrak \in StatTraks :
              \/ drawn' = <<Econ(item, statTrak)>>
              \/ drawn' = <<[Econ(item, statTrak) EXCEPT !.quality = "tournament"]>>

SelectItemFromCrate ==
  /\ phase = "done" /\ ~ selected
  /\ selected' = TRUE
  /\ IF found = <<>> THEN UNCHANGED drawn ELSE DrawUnusual \/ DrawByRarity
  /\ UNCHANGED vars

SelectionInit == Init /\ selected = FALSE /\ drawn = <<>>
SelectionNext == (Next /\ UNCHANGED selection) \/ SelectItemFromCrate

SelectionSpec == SelectionInit /\ [][SelectionNext]_<<vars, selection>>

-----------------------------------------------------------------------------
(* Properties.                                                             *)

\* In whatever order the hash map is gone through, each rarity in the crate wins exactly
\* as many of the rolls as its weight says, so its chance does not depend on the order.
RarityKeepsItsWeight ==
  phase = "done" =>
    \A order \in Orders, rarity \in Weighted :
      Cardinality({roll \in Rolls :
        LET reached == Reached(order, roll)
        IN reached # {} /\ order[Min(reached)] = rarity}) = BaseWeight[rarity]

\* What comes out was declared under the crate's list, and an unusual item only if a
\* list under it, but not the crate's own, was declared to be unusual: no roll for a
\* rarity gives one, whatever rarity it has.
DrawnAsDeclared ==
  drawn # <<>> /\ WellFormed =>
    /\ \E i \in Under(opened) : drawn[1].item \in DeclaredItems(i)
    /\ drawn[1].item.unusual =>
         /\ \E i \in Under(opened) : IsUnusual(file[i])
         /\ \A i \in DOMAIN file : file[i].name = opened => ~ IsUnusual(file[i])
=============================================================================
