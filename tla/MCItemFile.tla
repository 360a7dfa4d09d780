----------------------------- MODULE MCItemFile -----------------------------
(* Small inventories and edited files for ItemFile.                        *)
EXTENDS ItemFile

Wear == 8
Paint == 6
Unknown == 99
MCAttributeType == (Wear :> "float") @@ (Paint :> "uint32")

\* The numbers that are written and, rounded, read; "2x" reads as 2, a cut number as one
\* of them, and "x" as none.
InFiles == 0..10 \cup {Wear, Paint, Unknown, 36, 40, 60, 100, 1234567, 1234570}
MCNumbers ==
  [text \in {ToString(n) : n \in InFiles} |-> CHOOSE n \in InFiles : ToString(n) = text]
    @@ ("2x" :> 2) @@ (CutText :> 3)

Value(def, value) == [def |-> def, value |-> <<value>>]
Place(class, slot) == [class |-> class, slot |-> slot]
Item(custom, attributes, places) ==
  [kind |-> 1, custom |-> custom, attributes |-> attributes, equipped |-> places]

\* Attributes of both types, rounded up and down, and one the schema does not have;
\* places of two classes, and two of one.
HeldItems ==
  {Item(NoText, <<>>, <<>>),
   Item("named", <<Value(Wear, 1234567), Value(Paint, 1234567)>>, <<Place(2, 1), Place(3, 1)>>),
   Item(NoText, <<Value(Unknown, 1), Value(Wear, 5)>>, <<Place(2, 1), Place(2, 5)>>)}

OwnId(high) == [low |-> Own, high |-> high]
ForeignId(high) == [low |-> Own + 1, high |-> high]
IdSets ==
  {{}, {OwnId(1), OwnId(4)}, {OwnId(2), ForeignId(2)}, {OwnId(3), ForeignId(0)}}

Equip(def, class) == [def |-> def, class |-> class, slot |-> 2]
EquipLists == {<<>>, <<Equip(36, 2), Equip(60, 3)>>, <<Equip(36, 2), Equip(36, 3)>>}

MCInventories ==
  UNION {[items : [ids -> HeldItems], equips : EquipLists] : ids \in IdSets}

\* Keys as a player may have left them.
Names == {"1", "2", "2x", "x", "5"}
EditedItem(name, i) ==
  Section(name, <<String("def_index", "1"),
                  Section("attributes", <<String("99", "1"), String("6", ToString(i))>>)>>)

MCEdited ==
  {Section("inventory", <<Section("items", [i \in DOMAIN names |-> EditedItem(names[i], i)])>>) :
     names \in SeqOf(Names, 3)}

-----------------------------------------------------------------------------
(* What a file should hold, said without a parser.                         *)

\* The strings under a key, each with the names that lead to it, in order.
RECURSIVE Strings(_)
Strings(parent) ==
  FlattenSeq([i \in DOMAIN parent.subs |->
    LET sub == parent.subs[i] IN
    IF sub.text # NoText THEN <<[path |-> <<sub.name>>, text |-> sub.text]>>
    ELSE LET below == Strings(sub) IN
         [j \in DOMAIN below |->
            [path |-> <<sub.name>> \o below[j].path, text |-> below[j].text]]])

\* The last string under each path.
LastOnes(strings) ==
  {strings[i] : i \in {j \in DOMAIN strings :
     \A k \in DOMAIN strings : strings[k].path = strings[j].path => k <= j}}

\* No two subkeys of a key have one name: GetSubkey, which returns the first, reaches
\* every one.
RECURSIVE Distinct(_)
Distinct(parent) ==
  /\ \A i, j \in DOMAIN parent.subs : parent.subs[i].name = parent.subs[j].name => i = j
  /\ \A i \in DOMAIN parent.subs : Distinct(parent.subs[i])

\* A file that was written whole parses, unless it is empty, and holds under every path
\* the last string the writer had there, and nothing else.  From one that is torn nothing
\* is parsed that the writer did not have; only the last string of the file may have been
\* cut short.  Either way GetSubkey reaches every string that was parsed.
ReadsBack ==
  ~ running =>
    LET found == Strings(InFile.key)  had == Strings(tree) IN
    /\ left # "torn" =>
         (InFile.ok \/ file = <<>>) /\ LastOnes(found) = LastOnes(had)
    /\ \A string \in Range(found) \ Range(had) :
         left = "torn" /\ string.text = CutText /\ Last(file) = Str(CutText)
    /\ Distinct(InFile.key)
=============================================================================
