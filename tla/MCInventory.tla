---------------------------- MODULE MCInventory ----------------------------
(* Small inventories for the remote coordinator to send in Inventory.      *)
EXTENDS Inventory, TLC

Kit == Attribute("sticker", 0, 1)
Fresh(kind) == NewItem(kind, FALSE)
Carrying(kind, attribute) == [Fresh(kind) EXCEPT !.attributes = <<attribute>>]

\* A sealed spray, a gun that is equipped and counts kills, a crate, a default equip.
Loadout ==
  [items |-> (1 :> Fresh("sealed spray"))
             @@ (2 :> [Carrying("gun", Attribute("kills", 0, 0)) EXCEPT !.equipped = {"pistol"}])
             @@ (3 :> Fresh("crate")),
   equips |-> {[def |-> 1, place |-> "rifle"]}]

\* A gun, and a sticker and a patch to put on it.
Stickers ==
  [items |-> (1 :> Fresh("gun"))
             @@ (2 :> Carrying("sticker", Kit))
             @@ (3 :> Carrying("patch", Kit)),
   equips |-> {}]

SmallCaches == {Loadout, Stickers}
=============================================================================
