---------------------------- MODULE MCSchemaItems ----------------------------
(* Two items over two prefabs, each of which may name any prefab, itself among    *)
(* them, and say a rarity, a name or neither; kits and entries of every type.     *)
EXTENDS SchemaItems, TLC

MCRarities ==
  ("default" :> 0) @@ ("common" :> 1) @@ ("rare" :> 3) @@ ("ancient" :> 6) @@ ("immortal" :> 7)

Sayings ==
  {<<>>, "rarity" :> "rare", "rarity" :> "default",
   ("name" :> "gun") @@ ("rarity" :> "unheard of"), "series" :> 1}

PrefabNames == {None, "one", "other"}
Elements == [prefab : PrefabNames, says : Sayings]

Item(def, e) == [def |-> def, prefab |-> e.prefab, says |-> e.says]
Fixed(def, name) == Item(def, [prefab |-> None, says |-> "name" :> name])

Kit(name, rarity) == [name |-> name, rarity |-> rarity]
Entry(kit, item) == [kit |-> kit, item |-> item]

\* The default item, one that depends on prefabs, one that may share its name.
ItemLists ==
  {<<Fixed(0, "gun"), Item(1, e), Fixed(2, other)>> :
     e \in Elements, other \in {"gun", "sticker", "musickit"}}

PaintRarities ==
  {<<>>, <<Kit("paint", "ancient"), Kit("none such", "rare")>>, <<Kit("paint", "immortal")>>,
   <<Kit("paint", "default")>>}

MCFiles ==
  {[items |-> items, prefabs |-> [one |-> one, other |-> other],
    stickerKits |-> <<Kit("plain", None), Kit("shiny", "rare")>>,
    paintKits |-> <<"paint">>, paintKitRarities |-> rarities,
    musicKits |-> <<"song">>,
    lists |-> <<Entry("paint", "gun"), Entry(None, "gun"), Entry("plain", "sticker"),
                Entry("shiny", "sticker"), Entry("song", "musickit"), Entry("song", "gun")>>] :
     items \in ItemLists, one \in Elements, other \in Elements, rarities \in PaintRarities}
=============================================================================
