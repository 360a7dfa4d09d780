--------------------------- MODULE MCLootSelection ---------------------------
(* Three declarations, the first of them in the file of unusual lists or not,    *)
(* each with up to two entries; a crate is any of the lists.                     *)
EXTENDS LootSelection

MCNames == {"list", "sub", "cases_unusual", "weapon", "rifle", "covert", "knife", "gloves"}
MCItemNames == {"weapon", "rifle", "covert", "knife", "gloves"}
MCOwnUnusual == {"knife", "gloves"}
MCUnusualNames == {"cases_unusual"}

\* Knives share the rarity of a weapon; the covert one has a rarity without a weight.
MCRarityOf == [weapon |-> 3, rifle |-> 4, covert |-> 6, knife |-> 3, gloves |-> 6]
MCHighDefinitions == {"gloves"}

\* In the code each weight, of the same rarities, is a fifth of the one before, and they
\* are too large to go through every roll; here it is half.
MCBaseWeight == [rarity \in 0..5 |-> 2 ^ (5 - rarity)]

EntryLists ==
  {<<>>, <<"weapon", "rifle">>, <<"knife">>, <<"list">>, <<"weapon", StatTrak>>,
   <<"covert", "gloves">>, <<"cases_unusual">>, <<"cases_unusual", "list">>,
   <<"list", "sub">>, <<"sub", "rifle">>}

File(names, entries, unusualLists) ==
  [i \in 1..3 |->
     [name |-> names[i], entries |-> entries[i], parentIsUnusual |-> i <= unusualLists]]

\* The second of two declarations is the game's.
Beginnings ==
  {<<"cases_unusual", "sub", "list">>, <<"list", "cases_unusual", "sub">>} \X (0..2)
    \cup {<<<<"sub", "sub", "list">>, 1>>, <<<<"cases_unusual", "list", "cases_unusual">>, 2>>}

MCFiles == {File(b[1], entries, b[2]) : b \in Beginnings, entries \in [1..3 -> EntryLists]}
=============================================================================
