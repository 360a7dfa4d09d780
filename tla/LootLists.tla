------------------------------ MODULE LootLists ------------------------------
(***************************************************************************)
(* The loot lists of ItemSchema (src/csgo_gc/item_schema.cpp): the file of *)
(* unusual lists and then the game's own are parsed into lists that name   *)
(* items and lists parsed before them; a crate opened later has its list   *)
(* gone through, depth first, with everything under it (GetLootListItems). *)
(*                                                                         *)
(* What is drawn from the items found is in LootSelection.                 *)
(***************************************************************************)
EXTENDS Naturals, SequencesExt

CONSTANTS
  Names,         \* names of lists and of items
  ItemNames,     \* those ParseLootListItem knows
  OwnUnusual,    \* items that are of unusual quality by their definition
  UnusualNames,  \* names that end with "_unusual"
  Files,         \* what the two files may say
  MaxDepth       \* calls the program's stack has room for

StatTrak == "will_produce_stattrak"

\* One list as a file declares it; parentIsUnusual holds in the file of unusual lists.
Declarations == [name : Names, parentIsUnusual : BOOLEAN, entries : Seq(Names \cup {StatTrak})]

\* The unusual file comes first; KeyValue gives a file's keys of one name as one.
Parsed(f) ==
  /\ \A i, j \in DOMAIN f :
       /\ i < j /\ f[j].parentIsUnusual => f[i].parentIsUnusual
       /\ f[i].name = f[j].name /\ f[i].parentIsUnusual = f[j].parentIsUnusual => i = j
  /\ \A i \in DOMAIN f : IsInjective(f[i].entries)

ASSUME ListAssumption ==
  /\ ItemNames \subseteq Names /\ OwnUnusual \subseteq ItemNames /\ UnusualNames \subseteq Names
  /\ StatTrak \notin Names
  /\ Files \subseteq Seq(Declarations)
  /\ MaxDepth \in Nat
  /\ \A f \in Files : Parsed(f) /\ Len(f) < MaxDepth

VARIABLES
  file,     \* the declarations, in order
  decl,     \* the one being parsed
  entry,    \* the last of its entries that was; 0 before the list is made
  lists,    \* m_lootLists: name -> LootList
  opened,   \* the list of the crate that was opened
  stack,    \* calls of GetLootListItems: the list, and the sublist gone into last
  found,    \* the items
  unusuals, \* what the calls return: some list was unusual
  phase     \* "parse", "open", "walk", "done" or "overflow"

vars == <<file, decl, entry, lists, opened, stack, found, unusuals, phase>>

-----------------------------------------------------------------------------
(* ParseLootLists.                                                         *)

Declared == file[decl]

IsUnusual(d) == d.parentIsUnusual /\ d.name \in UnusualNames

\* m_lootLists.emplace gives the list there is, or a new one.
Emplaced(name, isUnusual) ==
  IF name \in DOMAIN lists
    THEN [lists[name] EXCEPT !.isUnusual = isUnusual]
    ELSE [items |-> <<>>, subLists |-> <<>>,
          willProduceStatTrak |-> FALSE, isUnusual |-> isUnusual]

BeginList ==
  /\ phase = "parse" /\ decl <= Len(file) /\ entry = 0
  /\ entry' = 1
  /\ lists' = [name \in DOMAIN lists \cup {Declared.name} |->
                 IF name = Declared.name THEN Emplaced(name, IsUnusual(Declared))
                                         ELSE lists[name]]
  /\ UNCHANGED <<file, decl, opened, stack, found, unusuals, phase>>

\* Lists that are found by name: the ones made so far.  A slip: any list of the files.
FoundAnywhere == DOMAIN lists \cup {d.name : d \in Range(file)}
FoundLists == DOMAIN lists

\* An item of a list in the unusual file has its quality overridden.
LootListItem(name, isUnusual) ==
  [name |-> name, unusual |-> isUnusual \/ name \in OwnUnusual]

WithEntry(lootList, name) ==
  IF name = StatTrak THEN [lootList EXCEPT !.willProduceStatTrak = TRUE]
  ELSE IF name \in FoundLists THEN [lootList EXCEPT !.subLists = Append(@, name)]
  ELSE IF name \in ItemNames
    THEN [lootList EXCEPT !.items = Append(@, LootListItem(name, IsUnusual(Declared)))]
  ELSE lootList

ParseEntry ==
  /\ phase = "parse" /\ decl <= Len(file)
  /\ entry \in DOMAIN Declared.entries
  /\ entry' = entry + 1
  /\ lists' = [lists EXCEPT ![Declared.name] = WithEntry(@, Declared.entries[entry])]
  /\ UNCHANGED <<file, decl, opened, stack, found, unusuals, phase>>

EndList ==
  /\ phase = "parse" /\ decl <= Len(file)
  /\ entry = Len(Declared.entries) + 1
  /\ decl' = decl + 1 /\ entry' = 0
  /\ UNCHANGED <<file, lists, opened, stack, found, unusuals, phase>>

EndOfFile ==
  /\ phase = "parse" /\ decl > Len(file)
  /\ phase' = "open"
  /\ UNCHANGED <<file, decl, entry, lists, opened, stack, found, unusuals>>

-----------------------------------------------------------------------------
(* GetLootListItems.                                                       *)

Call(name) == [list |-> name, sub |-> 0]
Top == lists[Last(stack).list]

\* unusuals with what a call for the list begins with.
UnusualsWith(name) == unusuals \/ lists[name].isUnusual

\* SelectItemFromCrate, for a crate whose series names the list.
OpenCrate ==
  /\ phase = "open"
  /\ \E name \in DOMAIN lists :
       /\ opened' = name
       /\ stack' = <<Call(name)>>
       /\ unusuals' = UnusualsWith(name)
  /\ phase' = "walk"
  /\ UNCHANGED <<file, decl, entry, lists, found>>

\* The next sublist.
GoInto(name) ==
  IF Len(stack) < MaxDepth
    THEN /\ stack' = Append([stack EXCEPT ![Len(stack)].sub = @ + 1], Call(name))
         /\ unusuals' = UnusualsWith(name)
         /\ phase' = phase
    ELSE phase' = "overflow" /\ UNCHANGED <<stack, unusuals>>

NextSubList ==
  /\ phase = "walk" /\ stack # <<>>
  /\ Last(stack).sub < Len(Top.subLists)
  /\ GoInto(Top.subLists[Last(stack).sub + 1])
  /\ UNCHANGED <<file, decl, entry, lists, opened, found>>

\* After the sublists, the list's own items; and a slip: only if it has no sublists.
OwnItemsOnly(lootList) == IF lootList.subLists = <<>> THEN lootList.items ELSE <<>>
OwnItems(lootList) == lootList.items

Return ==
  /\ phase = "walk" /\ stack # <<>>
  /\ Last(stack).sub = Len(Top.subLists)
  /\ found' = found \o OwnItems(Top)
  /\ stack' = Front(stack)
  /\ UNCHANGED <<file, decl, entry, lists, opened, unusuals, phase>>

Opened ==
  /\ phase = "walk" /\ stack = <<>>
  /\ phase' = "done"
  /\ UNCHANGED <<file, decl, entry, lists, opened, stack, found, unusuals>>

-----------------------------------------------------------------------------
Init ==
  /\ file \in Files
  /\ decl = 1 /\ entry = 0
  /\ lists = [name \in {} |-> {}] /\ opened = ""
  /\ stack = <<>> /\ found = <<>> /\ unusuals = FALSE
  /\ phase = "parse"

Next ==
  \/ BeginList \/ ParseEntry \/ EndList \/ EndOfFile
  \/ OpenCrate \/ NextSubList \/ Return \/ Opened

Spec == Init /\ [][Next]_vars

-----------------------------------------------------------------------------
(* Properties.                                                             *)

\* The game's file declares no list of the unusual file again, and no list names itself.
\* The parser asks neither.
WellFormed ==
  \A i \in DOMAIN file :
    /\ \A j \in DOMAIN file : file[i].name = file[j].name => i = j
    /\ file[i].name \notin Range(file[i].entries)

\* Then the calls of GetLootListItems end before the stack does: a list goes into lists
\* declared before it, however the lists name each other.
NoOverflow == WellFormed => phase # "overflow"

\* What a file says without a parser.  A list is made of the lists it names that were
\* declared before it, and of the other names that are items'.
ListsBefore(i) == {file[j].name : j \in 1..i}
NamedLists(i) == Range(file[i].entries) \cap ListsBefore(i)
DeclaredItems(i) ==
  {LootListItem(name, IsUnusual(file[i])) :
     name \in (Range(file[i].entries) \cap ItemNames) \ ListsBefore(i)}

\* The declarations under a name: the fewest that it leads to.
Closed(S) == \A i \in S, j \in DOMAIN file : file[j].name \in NamedLists(i) => j \in S
Under(name) ==
  {i \in DOMAIN file :
     \A S \in SUBSET DOMAIN file :
       Closed(S) /\ (\A j \in DOMAIN file : file[j].name = name => j \in S) => i \in S}

\* A crate has the items its list is declared to lead to, each of the quality it is
\* declared with: parsed in any order, gone through along any path, none is lost.  It is
\* told to have unusuals if a list under it is one.
FoundAsDeclared ==
  phase = "done" /\ WellFormed =>
    /\ Range(found) = UNION {DeclaredItems(i) : i \in Under(opened)}
    /\ unusuals <=> \E i \in Under(opened) : IsUnusual(file[i])
=============================================================================
