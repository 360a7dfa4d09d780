--------------------------- MODULE LootListsProofs ---------------------------
(***************************************************************************)
(* The loot lists, for any files that declare no list twice and let none   *)
(* name itself.                                                            *)
(*                                                                         *)
(* The calls of GetLootListItems stay within the stack: a list's sublists  *)
(* are declared before it, so the k-th call is at least k - 1 declarations *)
(* before the first.  What they find is what the files declare: a list     *)
(* that has been parsed says what its declaration does, all that is found  *)
(* is declared under the crate's list, and the declarations whose lists    *)
(* have been left are closed, the sublists of those still gone through     *)
(* among them up to the one gone into.                                     *)
(*                                                                         *)
(* Of the draw: the item is one that was found, and the rolls that give a  *)
(* rarity are the interval between the weights before it and up to it.     *)
(***************************************************************************)
EXTENDS LootSelection, FiniteSetTheorems, NaturalsInduction, WellFoundedInduction,
        SequenceTheorems, TLAPS

LootList ==
  [items : Seq([name : Names, unusual : BOOLEAN]), subLists : Seq(Names),
   willProduceStatTrak : BOOLEAN, isUnusual : BOOLEAN]

Frame == [list : Names, sub : Nat]

TypeInv ==
  /\ file \in Files
  /\ decl \in Nat \ {0}
  /\ entry \in Nat
  /\ DOMAIN lists \subseteq Names
  /\ lists \in [DOMAIN lists -> LootList]
  /\ stack \in Seq(Frame)
  /\ phase \in {"parse", "open"} => stack = <<>>
  /\ phase = "parse" /\ decl <= Len(file) /\ entry # 0 => file[decl].name \in DOMAIN lists
  /\ phase \in {"parse", "open", "walk", "done", "overflow"}

\* The list of a name was declared, and not after the declaration being parsed.
DeclaredInv ==
  \A n \in DOMAIN lists : \E i \in DOMAIN file : file[i].name = n /\ i <= decl

\* Sublists are lists, and so are those that are gone through.
KnownInv ==
  /\ \A n \in DOMAIN lists : Range(lists[n].subLists) \subseteq DOMAIN lists
  /\ \A k \in DOMAIN stack : stack[k].list \in DOMAIN lists

\* A sublist is declared before its list.
OrderInv ==
  \A n \in DOMAIN lists : \A k \in DOMAIN lists[n].subLists :
    \E i, j \in DOMAIN file :
      j < i /\ file[i].name = n /\ file[j].name = lists[n].subLists[k]

\* The deeper the call, the earlier its list was declared.
DepthInv ==
  \A k \in DOMAIN stack :
    \E i \in DOMAIN file : file[i].name = stack[k].list /\ k + i <= Len(file) + 1

LInv == TypeInv /\ KnownInv /\ (WellFormed => DeclaredInv /\ OrderInv /\ DepthInv /\ phase # "overflow")

LEMMA FileFacts ==
  ASSUME TypeInv
  PROVE  /\ file \in Seq(Declarations)
         /\ Len(file) \in Nat /\ MaxDepth \in Nat /\ Len(file) < MaxDepth
         /\ \A i \in DOMAIN file : i \in Nat /\ 1 <= i /\ i <= Len(file) /\ file[i].name \in Names
<1>1. /\ file \in Seq(Declarations)
      /\ MaxDepth \in Nat /\ Len(file) < MaxDepth
  BY ListAssumption DEF TypeInv
<1>2. Len(file) \in Nat /\ DOMAIN file = 1..Len(file)
  BY <1>1
<1>3. \A i \in DOMAIN file : file[i] \in Declarations
  BY <1>1, <1>2
<1>4. \A i \in DOMAIN file : file[i].name \in Names
  BY <1>3 DEF Declarations
<1> QED
  BY <1>1, <1>2, <1>4

LEMMA InitLInv == Init => LInv
<1> SUFFICES ASSUME Init PROVE LInv
  OBVIOUS
<1>1. TypeInv
  <2>1. DOMAIN lists = {} /\ lists \in [DOMAIN lists -> LootList]
    BY DEF Init
  <2>2. /\ file \in Files /\ decl = 1 /\ entry = 0
        /\ stack = <<>> /\ phase = "parse"
    BY DEF Init
  <2> QED
    BY <2>1, <2>2 DEF TypeInv
<1>2. KnownInv /\ DeclaredInv /\ OrderInv /\ DepthInv /\ phase # "overflow"
  <2>1. DOMAIN lists = {} /\ stack = <<>> /\ phase = "parse"
    BY DEF Init
  <2> QED
    BY <2>1 DEF KnownInv, DeclaredInv, OrderInv, DepthInv
<1> QED
  BY <1>1, <1>2 DEF LInv

\* A list that is begun is empty, or what it was.
LEMMA BeginListInv == LInv /\ BeginList => LInv'
<1> SUFFICES ASSUME LInv, BeginList PROVE LInv'
  OBVIOUS
<1> USE DEF LInv
<1>1. /\ decl \in DOMAIN file /\ Declared.name \in Names
      /\ Declared \in Declarations
  BY FileFacts DEF BeginList, Declared, TypeInv
<1>2. Emplaced(Declared.name, IsUnusual(Declared)) \in LootList
  <2> DEFINE isUnusual == IsUnusual(Declared)
  <2>1. isUnusual \in BOOLEAN
    BY Zenon DEF IsUnusual
  <2> HIDE DEF isUnusual
  <2>2. Emplaced(Declared.name, isUnusual) \in LootList
    <3>1. CASE Declared.name \in DOMAIN lists
      <4>1. lists[Declared.name] \in LootList
        BY <3>1 DEF TypeInv
      <4> QED
        BY <2>1, <3>1, <4>1 DEF Emplaced, LootList
    <3>2. CASE Declared.name \notin DOMAIN lists
      <4>1. /\ <<>> \in Seq([name : Names, unusual : BOOLEAN])
            /\ <<>> \in Seq(Names)
        OBVIOUS
      <4> QED
        BY <2>1, <3>2, <4>1 DEF Emplaced, LootList
    <3> QED
      BY <3>1, <3>2
  <2> QED
    BY <2>2 DEF isUnusual
<1>3. /\ DOMAIN lists' = DOMAIN lists \cup {Declared.name}
      /\ \A n \in DOMAIN lists : n # Declared.name => lists'[n] = lists[n]
      /\ lists'[Declared.name] = Emplaced(Declared.name, IsUnusual(Declared))
  BY DEF BeginList
<1>4. TypeInv'
  <2>1. /\ DOMAIN lists' \subseteq Names
        /\ lists' \in [DOMAIN lists' -> LootList]
    BY <1>1, <1>2, <1>3 DEF BeginList, TypeInv
  <2>2. /\ UNCHANGED <<file, decl, stack, phase>> /\ entry' = 1
        /\ file[decl].name \in DOMAIN lists'
    BY <1>3 DEF BeginList, Declared
  <2> QED
    BY <2>1, <2>2 DEF TypeInv
<1>5. \A n \in DOMAIN lists' :
         \/ n \in DOMAIN lists /\ lists'[n].subLists = lists[n].subLists
         \/ lists'[n].subLists = <<>>
  <2> DEFINE isUnusual == IsUnusual(Declared)
  <2> HIDE DEF isUnusual
  <2>1. lists'[Declared.name] = Emplaced(Declared.name, isUnusual)
    BY <1>3 DEF isUnusual
  <2>2. CASE Declared.name \in DOMAIN lists
    <3>1. lists[Declared.name] \in LootList
      BY <2>2 DEF TypeInv
    <3>2. lists'[Declared.name].subLists = lists[Declared.name].subLists
      BY <2>1, <2>2, <3>1 DEF Emplaced, LootList
    <3> QED
      BY <1>3, <2>2, <3>2
  <2>3. CASE Declared.name \notin DOMAIN lists
    <3>1. lists'[Declared.name].subLists = <<>>
      BY <2>1, <2>3 DEF Emplaced
    <3> QED
      BY <1>3, <3>1
  <2> QED
    BY <2>2, <2>3
<1>6. KnownInv'
  <2>1. \A n \in DOMAIN lists' : Range(lists'[n].subLists) \subseteq DOMAIN lists
    <3> SUFFICES ASSUME NEW n \in DOMAIN lists'
                 PROVE  Range(lists'[n].subLists) \subseteq DOMAIN lists
      OBVIOUS
    <3>1. Range(<<>>) = {}
      BY DEF Range
    <3> QED
      BY <1>5, <3>1 DEF KnownInv
  <2>2. stack' = stack
    BY DEF BeginList
  <2> QED
    BY <1>3, <2>1, <2>2 DEF KnownInv
<1>7. ASSUME WellFormed' PROVE (DeclaredInv /\ OrderInv /\ DepthInv /\ phase # "overflow")'
  <2>1. WellFormed
    BY <1>7 DEF WellFormed, BeginList
  <2>2. DeclaredInv'
    BY <1>1, <1>3, <2>1, FileFacts DEF DeclaredInv, BeginList, Declared, TypeInv
  <2>4. OrderInv'
    <3>1. file' = file /\ OrderInv /\ DOMAIN lists \subseteq DOMAIN lists'
      BY <1>3, <2>1 DEF BeginList
    <3> SUFFICES ASSUME NEW n \in DOMAIN lists', NEW k \in DOMAIN lists'[n].subLists
                 PROVE  \E i, j \in DOMAIN file :
                          /\ j < i /\ file[i].name = n
                          /\ file[j].name = lists'[n].subLists[k]
      BY <3>1 DEF OrderInv
    <3>2. n \in DOMAIN lists /\ lists'[n].subLists = lists[n].subLists
      BY <1>5
    <3> QED
      BY <3>1, <3>2 DEF OrderInv
  <2>5. DepthInv'
    BY <2>1 DEF DepthInv, BeginList, TypeInv
  <2> QED
    BY <2>1, <2>2, <2>4, <2>5 DEF BeginList
<1> QED
  BY <1>4, <1>6, <1>7

\* The name of an entry, where it is a sublist's, is not that of its own list.
LEMMA ParseEntryInv == LInv /\ ParseEntry => LInv'
<1> SUFFICES ASSUME LInv, ParseEntry PROVE LInv'
  OBVIOUS
<1> USE DEF LInv
<1> DEFINE me == Declared.name
           name == Declared.entries[entry]
<1>1. /\ decl \in DOMAIN file /\ Declared \in Declarations
      /\ me \in Names /\ me \in DOMAIN lists
      /\ name \in Names \cup {StatTrak}
  <2>1. decl \in DOMAIN file
    BY FileFacts DEF ParseEntry, TypeInv
  <2>2. Declared \in Declarations
    BY <2>1, FileFacts DEF Declared
  <2>3. Declared.entries \in Seq(Names \cup {StatTrak}) /\ me \in Names
    BY <2>2 DEF Declarations
  <2>4. entry \in DOMAIN Declared.entries /\ entry # 0
    BY <2>3 DEF ParseEntry
  <2> QED
    BY <2>1, <2>2, <2>3, <2>4 DEF ParseEntry, TypeInv, Declared
<1> HIDE DEF name
<1>2. /\ DOMAIN lists' = DOMAIN lists
      /\ \A n \in DOMAIN lists : n # me => lists'[n] = lists[n]
      /\ lists'[me] = WithEntry(lists[me], name)
  BY <1>1 DEF ParseEntry, TypeInv, name
<1>3. IsUnusual(Declared) \in BOOLEAN
  BY Zenon DEF IsUnusual
<1> DEFINE item == LootListItem(name, IsUnusual(Declared))
<1>4. name \in ItemNames => item \in [name : Names, unusual : BOOLEAN]
  <2>1. (IsUnusual(Declared) \/ name \in OwnUnusual) \in BOOLEAN
    BY Zenon
  <2> QED
    BY <2>1, ListAssumption, Zenon DEF LootListItem
<1> HIDE DEF item
<1>5. WithEntry(lists[me], name) \in LootList
  <2>1. lists[me] \in LootList
    BY <1>1 DEF TypeInv
  <2>2. \/ WithEntry(lists[me], name) = [lists[me] EXCEPT !.willProduceStatTrak = TRUE]
        \/ /\ name \in Names
           /\ WithEntry(lists[me], name) = [lists[me] EXCEPT !.subLists = Append(@, name)]
        \/ /\ name \in ItemNames
           /\ WithEntry(lists[me], name) = [lists[me] EXCEPT !.items = Append(@, item)]
        \/ WithEntry(lists[me], name) = lists[me]
    BY <1>1 DEF WithEntry, item
  <2>3. CASE WithEntry(lists[me], name) = [lists[me] EXCEPT !.willProduceStatTrak = TRUE]
    BY <2>1, <2>3 DEF LootList
  <2>4. CASE /\ name \in Names
             /\ WithEntry(lists[me], name) = [lists[me] EXCEPT !.subLists = Append(@, name)]
    <3>1. Append(lists[me].subLists, name) \in Seq(Names)
      BY <2>1, <2>4 DEF LootList
    <3> DEFINE subLists == Append(lists[me].subLists, name)
    <3>2. WithEntry(lists[me], name) = [lists[me] EXCEPT !.subLists = subLists]
      BY <2>4
    <3>3. subLists \in Seq(Names)
      BY <3>1
    <3> HIDE DEF subLists
    <3> QED
      BY <2>1, <3>2, <3>3 DEF LootList
  <2>5. CASE /\ name \in ItemNames
             /\ WithEntry(lists[me], name) = [lists[me] EXCEPT !.items = Append(@, item)]
    <3>1. Append(lists[me].items, item) \in Seq([name : Names, unusual : BOOLEAN])
      BY <1>4, <2>1, <2>5 DEF LootList
    <3> DEFINE items == Append(lists[me].items, item)
    <3>2. WithEntry(lists[me], name) = [lists[me] EXCEPT !.items = items]
      BY <2>5
    <3>3. items \in Seq([name : Names, unusual : BOOLEAN])
      BY <3>1
    <3> HIDE DEF items
    <3> QED
      BY <2>1, <3>2, <3>3 DEF LootList
  <2> QED
    BY <2>1, <2>2, <2>3, <2>4, <2>5
<1>6. TypeInv'
  <2>1. /\ DOMAIN lists' \subseteq Names
        /\ lists' \in [DOMAIN lists' -> LootList]
    <3>1. lists \in [DOMAIN lists -> LootList] /\ DOMAIN lists \subseteq Names
      BY DEF TypeInv
    <3>2. lists' = [lists EXCEPT ![me] = WithEntry(lists[me], name)]
      BY <3>1 DEF ParseEntry, name
    <3> QED
      BY <1>1, <1>2, <1>5, <3>1, <3>2
  <2>2. /\ UNCHANGED <<file, decl, stack, phase>> /\ entry' \in Nat
        /\ file[decl].name \in DOMAIN lists'
    BY <1>1, <1>2 DEF ParseEntry, Declared, TypeInv
  <2> QED
    BY <2>1, <2>2 DEF TypeInv
<1>7. /\ lists[me].subLists \in Seq(Names)
      /\ \/ lists'[me].subLists = lists[me].subLists
         \/ /\ name \in DOMAIN lists
            /\ lists'[me].subLists = Append(lists[me].subLists, name)
  <2>1. lists[me] \in LootList
    BY <1>1 DEF TypeInv
  <2> QED
    BY <1>2, <2>1 DEF WithEntry, FoundLists, LootList
<1>8. KnownInv'
  <2>1. UNCHANGED stack
    BY DEF ParseEntry
  <2>2. \A n \in DOMAIN lists : Range(lists'[n].subLists) \subseteq DOMAIN lists
    BY SMTT(30), <1>2, <1>7 DEF KnownInv, Range
  <2> QED
    BY <1>2, <2>1, <2>2 DEF KnownInv
<1>9. ASSUME WellFormed' PROVE (DeclaredInv /\ OrderInv /\ DepthInv /\ phase # "overflow")'
  <2>1. WellFormed /\ UNCHANGED <<file, decl, stack, phase>>
    BY <1>9 DEF WellFormed, ParseEntry
  <2>2. DeclaredInv'
    BY <1>2, <2>1 DEF DeclaredInv
  <2>3. OrderInv'
    <3> SUFFICES ASSUME NEW n \in DOMAIN lists, NEW k \in DOMAIN lists'[n].subLists
                 PROVE  \E i, j \in DOMAIN file :
                          /\ j < i /\ file[i].name = n
                          /\ file[j].name = lists'[n].subLists[k]
      BY <1>2, <2>1 DEF OrderInv
    <3>1. CASE lists'[n].subLists = lists[n].subLists
      BY <2>1, <3>1 DEF OrderInv
    <3>2. CASE n = me /\ lists'[me].subLists # lists[me].subLists
      <4>1. CASE k \in DOMAIN lists[n].subLists
        BY SMTT(30), <1>7, <2>1, <3>2, <4>1 DEF OrderInv
      <4>2. CASE k = Len(lists[n].subLists) + 1
        <5>1. name \in DOMAIN lists /\ lists'[n].subLists[k] = name
          BY <1>7, <3>2, <4>2
        <5>2. PICK j \in DOMAIN file : file[j].name = name /\ j <= decl
          BY <2>1, <5>1 DEF DeclaredInv
        <5>3. name # me
          <6>1. entry \in DOMAIN file[decl].entries /\ name = file[decl].entries[entry]
            BY DEF ParseEntry, Declared, name
          <6>2. name \in Range(file[decl].entries)
            BY <6>1 DEF Range
          <6> QED
            BY <1>1, <2>1, <6>2 DEF WellFormed, Declared
        <5>4. j < decl
          BY <5>2, <5>3, FileFacts, <1>1 DEF Declared, TypeInv
        <5> QED
          BY <1>1, <3>2, <5>1, <5>2, <5>4 DEF Declared
      <4> QED
        BY <1>7, <3>2, <4>1, <4>2
    <3> QED
      BY <1>2, <3>1, <3>2
  <2>4. DepthInv'
    BY <2>1 DEF DepthInv, ParseEntry, TypeInv
  <2> QED
    BY <2>1, <2>2, <2>3, <2>4
<1> QED
  BY <1>6, <1>8, <1>9

\* Between the lists, and before a crate is opened, nothing is called.
LEMMA OtherParsingInv == LInv /\ (EndList \/ EndOfFile) => LInv'
<1> SUFFICES ASSUME LInv, EndList \/ EndOfFile PROVE LInv'
  OBVIOUS
<1>1. /\ UNCHANGED <<file, lists, stack>> /\ decl' \in Nat \ {0} /\ decl <= decl'
      /\ entry' \in Nat /\ phase' \in {"parse", "open"} /\ stack = <<>>
  BY DEF LInv, TypeInv, EndList, EndOfFile
<1>2. TypeInv'
  <2>1. phase' = "parse" => entry' = 0
    BY DEF EndList, EndOfFile
  <2> QED
    BY <1>1, <2>1 DEF LInv, TypeInv
<1>3. ASSUME WellFormed' PROVE (DeclaredInv /\ OrderInv /\ DepthInv /\ phase # "overflow")'
  <2>1. WellFormed
    BY <1>1, <1>3 DEF WellFormed
  <2>2. DeclaredInv'
    BY <1>1, <2>1, FileFacts DEF LInv, TypeInv, DeclaredInv
  <2>3. OrderInv' /\ DepthInv'
    BY <1>1, <2>1 DEF LInv, OrderInv, DepthInv
  <2> QED
    BY <1>1, <2>2, <2>3
<1>4. KnownInv'
  BY <1>1 DEF LInv, KnownInv
<1> QED
  BY <1>2, <1>3, <1>4 DEF LInv

LEMMA OpenCrateInv == LInv /\ OpenCrate => LInv'
<1> SUFFICES ASSUME LInv, OpenCrate PROVE LInv'
  OBVIOUS
<1>1. PICK name \in DOMAIN lists : stack' = <<Call(name)>>
  BY DEF OpenCrate
<1>2. /\ UNCHANGED <<file, decl, entry, lists>> /\ phase' = "walk"
      /\ name \in Names => Call(name) \in Frame
  BY DEF OpenCrate, Call, Frame
<1>3. TypeInv'
  BY <1>1, <1>2 DEF LInv, TypeInv
<1>4. ASSUME WellFormed' PROVE (DeclaredInv /\ OrderInv /\ DepthInv /\ phase # "overflow")'
  <2>1. WellFormed
    BY <1>2, <1>4 DEF WellFormed
  <2>2. (DeclaredInv /\ OrderInv)'
    BY <1>2, <2>1 DEF LInv, DeclaredInv, OrderInv
  <2>3. DepthInv'
    <3>1. PICK i \in DOMAIN file : file[i].name = name
      BY <1>1, <2>1 DEF LInv, DeclaredInv
    <3>2. i <= Len(file)
      BY FileFacts DEF LInv
    <3> QED
      BY <1>1, <1>2, <3>1, <3>2, FileFacts DEF LInv, DepthInv, Call
  <2> QED
    BY <1>2, <2>2, <2>3
<1>5. KnownInv'
  BY <1>1, <1>2 DEF LInv, KnownInv, Call
<1> QED
  BY <1>3, <1>4, <1>5 DEF LInv

\* A sublist gone into is declared before its list, and so the stack has room.
LEMMA NextSubListInv == LInv /\ NextSubList => LInv'
<1> SUFFICES ASSUME LInv, NextSubList PROVE LInv'
  OBVIOUS
<1> DEFINE n == Len(stack)
           frame == stack[n]
           name == lists[frame.list].subLists[frame.sub + 1]
<1>1. /\ UNCHANGED <<file, decl, entry, lists>>
      /\ phase = "walk" /\ n \in Nat \ {0} /\ n \in DOMAIN stack
      /\ frame \in Frame /\ frame.list \in DOMAIN lists
  <2>1. /\ UNCHANGED <<file, decl, entry, lists>> /\ phase = "walk"
        /\ stack # <<>> /\ stack \in Seq(Frame)
    BY DEF LInv, TypeInv, NextSubList
  <2>2. n \in Nat \ {0} /\ n \in DOMAIN stack
    BY <2>1
  <2>3. frame \in Frame
    <3>1. \A k \in DOMAIN stack : stack[k] \in Frame
      BY <2>1
    <3> QED
      BY <2>2, <3>1
  <2>4. frame.list \in DOMAIN lists
    BY <2>2 DEF LInv, KnownInv
  <2> QED
    BY <2>1, <2>2, <2>3, <2>4
<1>2. frame.sub + 1 \in DOMAIN lists[frame.list].subLists /\ GoInto(name)
  <2>1. lists[frame.list].subLists \in Seq(Names)
    BY <1>1 DEF LInv, TypeInv, LootList
  <2>2. frame.sub < Len(lists[frame.list].subLists) /\ GoInto(name)
    BY DEF NextSubList, Top, Last
  <2>3. frame.sub \in Nat
    BY <1>1 DEF Frame
  <2> QED
    BY <2>1, <2>2, <2>3
<1>3. name \in DOMAIN lists /\ name \in Names
  BY <1>1, <1>2 DEF LInv, TypeInv, KnownInv, Range
<1>4. WellFormed => \E j \in DOMAIN file : file[j].name = name /\ n + 1 + j <= Len(file) + 1
  <2> SUFFICES ASSUME WellFormed
               PROVE  \E j \in DOMAIN file : file[j].name = name /\ n + 1 + j <= Len(file) + 1
    OBVIOUS
  <2>1. PICK i \in DOMAIN file : file[i].name = frame.list /\ n + i <= Len(file) + 1
    BY <1>1 DEF LInv, DepthInv
  <2>2. PICK h, j \in DOMAIN file : j < h /\ file[h].name = frame.list /\ file[j].name = name
    BY <1>1, <1>2 DEF LInv, OrderInv
  <2>3. h = i
    BY <2>1, <2>2 DEF WellFormed
  <2> QED
    BY <1>1, <2>1, <2>2, <2>3, FileFacts DEF LInv
<1>5. WellFormed => n < MaxDepth
  BY <1>1, <1>4, FileFacts DEF LInv
<1>6. CASE n < MaxDepth
  <2> DEFINE moved == [stack EXCEPT ![n].sub = @ + 1]
  <2>1. stack' = Append(moved, Call(name)) /\ phase' = "walk"
    BY <1>1, <1>2, <1>6 DEF GoInto
  <2>2. /\ moved \in Seq(Frame) /\ Len(moved) = n
        /\ \A k \in 1..n : moved[k].list = stack[k].list
    BY SMTT(30), <1>1 DEF LInv, TypeInv, Frame
  <2>3. Call(name) \in Frame /\ Call(name).list = name
    BY <1>3 DEF Call, Frame
  <2> HIDE DEF moved
  <2>4. /\ stack' \in Seq(Frame) /\ DOMAIN stack' = 1..(n + 1)
        /\ \A k \in 1..n : stack'[k].list = stack[k].list
        /\ stack'[n + 1].list = name
    <3>1. stack' \in Seq(Frame) /\ Len(stack') = n + 1
      BY <1>1, <2>1, <2>2, <2>3
    <3>2. stack'[n + 1] = Call(name)
      BY <1>1, <2>1, <2>2, <2>3
    <3>3. ASSUME NEW k \in 1..n PROVE stack'[k] = moved[k]
      BY <1>1, <2>1, <2>2, <2>3
    <3>4. \A k \in 1..n : stack'[k].list = stack[k].list
      BY <2>2, <3>3
    <3> QED
      BY <1>1, <2>3, <3>1, <3>2, <3>4
  <2>5. DOMAIN stack = 1..n
    BY DEF LInv, TypeInv
  <2>6. (TypeInv /\ KnownInv)'
    <3>1. TypeInv'
      BY <1>1, <2>1, <2>4 DEF LInv, TypeInv
    <3>2. KnownInv'
      <4>1. \A k \in 1..(n + 1) : stack'[k].list \in DOMAIN lists
        <5>1. \A k \in 1..n : stack'[k].list \in DOMAIN lists
          BY <2>4, <2>5 DEF LInv, KnownInv
        <5>2. \A k \in 1..(n + 1) : k \in 1..n \/ k = n + 1
          BY <1>1
        <5> QED
          BY <1>3, <2>4, <5>1, <5>2
      <4> QED
        BY <1>1, <2>4, <4>1 DEF LInv, KnownInv
    <3> QED
      BY <3>1, <3>2
  <2>7. ASSUME WellFormed' PROVE (DeclaredInv /\ OrderInv /\ DepthInv /\ phase # "overflow")'
    <3>1. WellFormed
      BY <1>1, <2>7 DEF WellFormed
    <3>2. (DeclaredInv /\ OrderInv)'
      BY <1>1, <3>1 DEF LInv, DeclaredInv, OrderInv
    <3>3. DepthInv'
      BY <1>1, <1>4, <2>4, <2>5, <3>1 DEF LInv, DepthInv
    <3> QED
      BY <2>1, <3>2, <3>3
  <2> QED
    BY <2>6, <2>7 DEF LInv
<1>7. CASE ~(n < MaxDepth)
  <2>1. phase' = "overflow" /\ UNCHANGED stack
    BY <1>1, <1>2, <1>7 DEF GoInto
  <2>2. (TypeInv /\ KnownInv)'
    BY <1>1, <2>1 DEF LInv, TypeInv, KnownInv
  <2>3. ~WellFormed'
    BY <1>1, <1>5, <1>7 DEF WellFormed
  <2> QED
    BY <2>2, <2>3 DEF LInv
<1> QED
  BY <1>6, <1>7

LEMMA ReturnInv == LInv /\ (Return \/ Opened) => LInv'
<1> SUFFICES ASSUME LInv, Return \/ Opened PROVE LInv'
  OBVIOUS
<1>1. /\ UNCHANGED <<file, decl, entry, lists>> /\ phase' \in {"walk", "done"}
      /\ phase = "walk"
  BY DEF Return, Opened
<1>2. /\ stack' \in Seq(Frame)
      /\ \A k \in DOMAIN stack' : k \in DOMAIN stack /\ stack'[k] = stack[k]
  <2>1. CASE Return
    <3>1. stack \in Seq(Frame) /\ stack # <<>>
      BY <2>1 DEF Return, LInv, TypeInv
    <3>2. stack' = SubSeq(stack, 1, Len(stack) - 1)
      BY <2>1 DEF Return, Front
    <3> DEFINE m == Len(stack) - 1
    <3>3. m \in Nat /\ Len(stack) = m + 1 /\ stack' = SubSeq(stack, 1, m)
      BY <3>1, <3>2
    <3>4. /\ stack' \in Seq(Frame)
          /\ DOMAIN stack' = 1..m /\ \A k \in 1..m : stack'[k] = stack[k]
      <4>1. \A k \in 1..m : stack[k] \in Frame /\ 1 + k - 1 = k
        BY <3>1, <3>3
      <4>2. /\ SubSeq(stack, 1, m) \in Seq(Frame)
            /\ Len(SubSeq(stack, 1, m)) = IF 1 <= m THEN m - 1 + 1 ELSE 0
            /\ \A k \in 1..(m - 1 + 1) : SubSeq(stack, 1, m)[k] = stack[1 + k - 1]
        BY <3>3, <4>1, SubSeqProperties
      <4>3. Len(SubSeq(stack, 1, m)) = m /\ m - 1 + 1 = m
        BY <3>3, <4>2
      <4> QED
        BY <3>3, <4>1, <4>2, <4>3
    <3> QED
      BY <3>1, <3>3, <3>4
  <2>2. CASE Opened
    BY <2>2 DEF Opened, LInv, TypeInv
  <2> QED
    BY <2>1, <2>2
<1>3. (TypeInv /\ KnownInv)'
  BY <1>1, <1>2 DEF LInv, TypeInv, KnownInv
<1>4. ASSUME WellFormed' PROVE (DeclaredInv /\ OrderInv /\ DepthInv /\ phase # "overflow")'
  <2>1. WellFormed
    BY <1>1, <1>4 DEF WellFormed
  <2> QED
    BY <1>1, <1>2, <2>1 DEF LInv, DeclaredInv, OrderInv, DepthInv
<1> QED
  BY <1>3, <1>4 DEF LInv

LEMMA NextLInv == LInv /\ [Next]_vars => LInv'
<1> SUFFICES ASSUME LInv, [Next]_vars PROVE LInv'
  OBVIOUS
<1>1. CASE UNCHANGED vars
  BY <1>1 DEF vars, LInv, TypeInv, KnownInv, WellFormed, DeclaredInv, OrderInv, DepthInv
<1>2. CASE Next
  BY <1>2, BeginListInv, ParseEntryInv, OtherParsingInv, OpenCrateInv, NextSubListInv,
     ReturnInv DEF Next
<1> QED
  BY <1>1, <1>2

\* Opening a crate never needs more calls than the stack has room for, for any files
\* that declare each list once and let none name itself.
THEOREM CallsEndInTime == Spec => []NoOverflow
<1>1. LInv => NoOverflow
  BY DEF LInv, NoOverflow
<1> QED
  BY <1>1, InitLInv, NextLInv, PTL DEF Spec

-----------------------------------------------------------------------------
(* What is parsed.                                                         *)

\* The last declaration that was begun, and what has been read of the i-th.
LastBegun == IF entry = 0 THEN decl - 1 ELSE decl
Read(i) ==
  IF i < decl THEN Range(file[i].entries) ELSE {file[i].entries[k] : k \in 1..(entry - 1)}

\* The i-th list says what has been read of its declaration.
SaysWhatIsRead(i) ==
  /\ lists[file[i].name].isUnusual = IsUnusual(file[i])
  /\ Range(lists[file[i].name].subLists) = Read(i) \cap ListsBefore(i)
  /\ Range(lists[file[i].name].items) =
       {LootListItem(name, IsUnusual(file[i])) :
          name \in (Read(i) \cap ItemNames) \ ListsBefore(i)}

ParsedInv ==
  /\ LastBegun \in 0..Len(file)
  /\ DOMAIN lists = ListsBefore(LastBegun)
  /\ \A i \in 1..LastBegun : SaysWhatIsRead(i)

LEMMA RangeOfAppend ==
  ASSUME NEW S, NEW s \in Seq(S), NEW e \in S
  PROVE  Range(Append(s, e)) = Range(s) \cup {e}
<1>1. /\ DOMAIN Append(s, e) = 1..(Len(s) + 1) /\ DOMAIN s = 1..Len(s) /\ Len(s) \in Nat
      /\ \A k \in 1..Len(s) : Append(s, e)[k] = s[k]
      /\ Append(s, e)[Len(s) + 1] = e
  OBVIOUS
<1>2. ASSUME NEW x \in Range(s) \cup {e} PROVE x \in Range(Append(s, e))
  <2>1. CASE x = e
    BY <1>1, <2>1 DEF Range
  <2>2. CASE x \in Range(s)
    <3>1. PICK k \in 1..Len(s) : x = s[k]
      BY <1>1, <2>2 DEF Range
    <3> QED
      BY <1>1, <3>1 DEF Range
  <2> QED
    BY <2>1, <2>2
<1>3. ASSUME NEW x \in Range(Append(s, e)) PROVE x \in Range(s) \cup {e}
  <2>1. PICK k \in 1..(Len(s) + 1) : x = Append(s, e)[k]
    BY <1>1 DEF Range
  <2>2. k \in 1..Len(s) \/ k = Len(s) + 1
    BY <1>1
  <2> QED
    BY <1>1, <2>1, <2>2 DEF Range
<1> QED
  BY <1>2, <1>3

LEMMA RangeOfConcat ==
  ASSUME NEW S, NEW s \in Seq(S), NEW t \in Seq(S)
  PROVE  Range(s \o t) = Range(s) \cup Range(t)
<1>1. /\ DOMAIN (s \o t) = 1..(Len(s) + Len(t))
      /\ DOMAIN s = 1..Len(s) /\ DOMAIN t = 1..Len(t) /\ Len(s) \in Nat /\ Len(t) \in Nat
      /\ \A k \in 1..(Len(s) + Len(t)) :
           (s \o t)[k] = IF k <= Len(s) THEN s[k] ELSE t[k - Len(s)]
  OBVIOUS
<1>2. ASSUME NEW x \in Range(s) PROVE x \in Range(s \o t)
  <2>1. PICK k \in 1..Len(s) : x = s[k]
    BY <1>1 DEF Range
  <2>2. k \in 1..(Len(s) + Len(t)) /\ (s \o t)[k] = x
    BY <1>1, <2>1
  <2> QED
    BY <1>1, <2>2 DEF Range
<1>3. ASSUME NEW x \in Range(t) PROVE x \in Range(s \o t)
  <2>1. PICK k \in 1..Len(t) : x = t[k]
    BY <1>1 DEF Range
  <2>2. /\ k + Len(s) \in 1..(Len(s) + Len(t)) /\ ~(k + Len(s) <= Len(s))
        /\ k + Len(s) - Len(s) = k
    BY <1>1, <2>1
  <2>3. (s \o t)[k + Len(s)] = x
    BY <1>1, <2>1, <2>2
  <2> QED
    BY <1>1, <2>2, <2>3 DEF Range
<1>4. ASSUME NEW x \in Range(s \o t) PROVE x \in Range(s) \cup Range(t)
  <2>1. PICK k \in 1..(Len(s) + Len(t)) : x = (s \o t)[k]
    BY <1>1 DEF Range
  <2>2. CASE k <= Len(s)
    BY <1>1, <2>1, <2>2 DEF Range
  <2>3. CASE ~(k <= Len(s))
    <3>1. k - Len(s) \in 1..Len(t) /\ x = t[k - Len(s)]
      BY <1>1, <2>1, <2>3
    <3> QED
      BY <1>1, <3>1 DEF Range
  <2> QED
    BY <2>2, <2>3
<1> QED
  BY <1>2, <1>3, <1>4

\* A list that is begun has nothing in it, as nothing of its declaration has been read.
LEMMA BeginListParsed ==
  ASSUME LInv, WellFormed, ParsedInv, BeginList PROVE ParsedInv'
<1> DEFINE me == Declared.name
           flag == IsUnusual(Declared)
<1>1. /\ UNCHANGED <<file, decl>> /\ entry = 0 /\ entry' = 1
      /\ decl \in Nat \ {0} /\ decl \in DOMAIN file /\ Len(file) \in Nat
      /\ DOMAIN file = 1..Len(file) /\ Declared = file[decl]
  BY FileFacts DEF LInv, TypeInv, BeginList, Declared
<1>2. me \notin DOMAIN lists
  <2>1. DOMAIN lists = {file[i].name : i \in 1..(decl - 1)}
    BY <1>1 DEF ParsedInv, LastBegun, ListsBefore
  <2>2. \A i \in 1..(decl - 1) : i \in DOMAIN file /\ i # decl
    BY <1>1
  <2> QED
    BY <1>1, <2>1, <2>2 DEF WellFormed
<1>3. /\ DOMAIN lists' = DOMAIN lists \cup {me}
      /\ \A n \in DOMAIN lists : lists'[n] = lists[n]
      /\ lists'[me] = Emplaced(me, flag)
  BY <1>2 DEF BeginList
<1> HIDE DEF flag
<1>4. /\ lists'[me].isUnusual = flag
      /\ Range(lists'[me].subLists) = {} /\ Range(lists'[me].items) = {}
  BY <1>2, <1>3 DEF Emplaced, Range
<1>5. LastBegun = decl - 1 /\ LastBegun' = decl
  BY <1>1 DEF LastBegun
<1>6. DOMAIN lists' = ListsBefore(LastBegun)'
  <2>1. DOMAIN lists = {file[i].name : i \in 1..(decl - 1)}
    BY <1>5 DEF ParsedInv, ListsBefore
  <2>2. \A i : i \in 1..decl <=> i \in 1..(decl - 1) \/ i = decl
    BY <1>1
  <2>3. DOMAIN lists' = {file[i].name : i \in 1..decl}
    BY <1>1, <1>3, <2>1, <2>2
  <2> QED
    BY <1>1, <1>5, <2>3 DEF ListsBefore
<1>7. ASSUME NEW i \in 1..decl PROVE SaysWhatIsRead(i)'
  <2>1. CASE i # decl
    <3>1. i < decl /\ i \in 1..LastBegun
      BY <1>1, <1>5, <2>1
    <3>2. SaysWhatIsRead(i) /\ file[i].name \in DOMAIN lists
      BY <3>1 DEF ParsedInv, ListsBefore
    <3> QED
      BY SMTT(30), <1>1, <1>3, <3>1, <3>2 DEF SaysWhatIsRead, Read, ListsBefore, IsUnusual
  <2>2. CASE i = decl
    <3>1. Read(i)' = {}
      BY <1>1, <2>2 DEF Read
    <3>2. lists'[file'[i].name].isUnusual = IsUnusual(file[i])
      BY <1>1, <1>4, <2>2 DEF flag
    <3>3. IsUnusual(file[i])' = IsUnusual(file[i])
      BY <1>1 DEF IsUnusual
    <3> QED
      BY <1>1, <1>4, <2>2, <3>1, <3>2, <3>3 DEF SaysWhatIsRead
  <2> QED
    BY <2>1, <2>2
<1> QED
  BY <1>1, <1>5, <1>6, <1>7 DEF ParsedInv

\* An entry read goes where the declaration has it: to the sublists if a list before this
\* one has the name, to the items otherwise, if it is an item's.
LEMMA ParseEntryParsed ==
  ASSUME LInv, WellFormed, ParsedInv, ParseEntry PROVE ParsedInv'
<1> DEFINE me == Declared.name
           name == Declared.entries[entry]
           flag == IsUnusual(Declared)
           item == LootListItem(name, flag)
<1>1. /\ UNCHANGED <<file, decl>> /\ entry' = entry + 1 /\ entry \in Nat \ {0}
      /\ decl \in Nat \ {0} /\ decl \in DOMAIN file /\ Len(file) \in Nat
      /\ DOMAIN file = 1..Len(file) /\ Declared = file[decl]
      /\ name \in Names \cup {StatTrak}
  <2>1. /\ decl \in DOMAIN file /\ Len(file) \in Nat /\ DOMAIN file = 1..Len(file)
        /\ Declared \in Declarations
    BY FileFacts DEF LInv, TypeInv, ParseEntry, Declared
  <2>2. Declared.entries \in Seq(Names \cup {StatTrak})
    BY <2>1 DEF Declarations
  <2>3. entry \in Nat \ {0} /\ name \in Names \cup {StatTrak}
    BY <2>2 DEF ParseEntry
  <2> QED
    BY <2>1, <2>3 DEF LInv, TypeInv, ParseEntry, Declared
<1> HIDE DEF flag
<1>2. LastBegun = decl /\ LastBegun' = decl
  BY <1>1 DEF LastBegun
<1>3. /\ DOMAIN lists = ListsBefore(decl) /\ me \in DOMAIN lists
      /\ \A i \in 1..decl : file[i].name \in DOMAIN lists
  <2>1. DOMAIN lists = ListsBefore(decl)
    BY <1>2 DEF ParsedInv
  <2> QED
    BY <1>1, <2>1 DEF ListsBefore
<1>4. /\ DOMAIN lists' = DOMAIN lists
      /\ \A n \in DOMAIN lists : n # me => lists'[n] = lists[n]
      /\ lists'[me] = WithEntry(lists[me], name)
  BY <1>3 DEF ParseEntry, LInv, TypeInv
<1>5. /\ lists[me] \in LootList /\ SaysWhatIsRead(decl)
  BY <1>1, <1>2, <1>3 DEF LInv, TypeInv, ParsedInv
<1>6. name # StatTrak => name \in Names
  BY <1>1
<1>7. DOMAIN lists \subseteq Names /\ ItemNames \subseteq Names /\ StatTrak \notin Names
  BY ListAssumption DEF LInv, TypeInv
<1>8. name \in ItemNames => item \in [name : Names, unusual : BOOLEAN]
  <2>1. (flag \/ name \in OwnUnusual) \in BOOLEAN
    BY Zenon
  <2> QED
    BY <1>7, <2>1, Zenon DEF LootListItem
<1>9. ASSUME NEW i, i = decl PROVE Read(i)' = Read(i) \cup {name}
  <2>1. Read(i) = {Declared.entries[k] : k \in 1..(entry - 1)}
    BY <1>1, <1>9 DEF Read
  <2>2. Read(i)' = {Declared.entries[k] : k \in 1..entry}
    <3>1. entry + 1 - 1 = entry
      BY <1>1
    <3> QED
      BY <1>1, <1>9, <3>1 DEF Read
  <2>3. \A k : k \in 1..entry <=> k \in 1..(entry - 1) \/ k = entry
    BY <1>1
  <2> QED
    BY <2>1, <2>2, <2>3
<1> HIDE DEF name, item, me
<1>10. /\ lists'[me].isUnusual = lists[me].isUnusual
       /\ Range(lists'[me].subLists) =
            Range(lists[me].subLists) \cup ({name} \cap DOMAIN lists)
       /\ Range(lists'[me].items) =
            Range(lists[me].items)
              \cup {LootListItem(e, flag) : e \in ({name} \cap ItemNames) \ DOMAIN lists}
  <2>1. CASE name = StatTrak
    BY <1>4, <1>5, <1>7, <2>1 DEF WithEntry, LootList
  <2>2. CASE name \in DOMAIN lists
    <3>1. name # StatTrak /\ name \in Names
      BY <1>7, <2>2
    <3>2. lists'[me] = [lists[me] EXCEPT !.subLists = Append(lists[me].subLists, name)]
      BY <1>4, <2>2, <3>1 DEF WithEntry, FoundLists
    <3>3. lists[me].subLists \in Seq(Names)
      BY <1>5 DEF LootList
    <3> DEFINE subLists == Append(lists[me].subLists, name)
    <3>4. Range(subLists) = Range(lists[me].subLists) \cup {name}
      BY <3>1, <3>3, RangeOfAppend
    <3>5. lists'[me] = [lists[me] EXCEPT !.subLists = subLists]
      BY <3>2
    <3> HIDE DEF subLists
    <3>6. lists'[me].subLists = subLists /\ lists'[me].items = lists[me].items
          /\ lists'[me].isUnusual = lists[me].isUnusual
      BY <1>5, <3>5 DEF LootList
    <3> QED
      BY <2>2, <3>4, <3>6
  <2>3. CASE name \notin DOMAIN lists /\ name \in ItemNames
    <3>1. name # StatTrak
      BY <1>7, <2>3
    <3>2. lists'[me] = [lists[me] EXCEPT !.items = Append(lists[me].items, item)]
      BY <1>1, <1>4, <2>3, <3>1 DEF WithEntry, FoundLists, item, flag, name
    <3>3. lists[me].items \in Seq([name : Names, unusual : BOOLEAN])
      BY <1>5 DEF LootList
    <3> DEFINE items == Append(lists[me].items, item)
    <3>4. Range(items) = Range(lists[me].items) \cup {item}
      <4> DEFINE S == [name : Names, unusual : BOOLEAN]
      <4>1. lists[me].items \in Seq(S) /\ item \in S
        BY <1>8, <2>3, <3>3
      <4> HIDE DEF S
      <4> QED
        BY <4>1, RangeOfAppend
    <3>5. lists'[me] = [lists[me] EXCEPT !.items = items]
      BY <3>2
    <3> HIDE DEF items
    <3>6. lists'[me].subLists = lists[me].subLists /\ lists'[me].items = items
          /\ lists'[me].isUnusual = lists[me].isUnusual
      BY <1>5, <3>5 DEF LootList
    <3>7. {LootListItem(e, flag) : e \in ({name} \cap ItemNames) \ DOMAIN lists} = {item}
      BY <2>3 DEF item
    <3> QED
      BY <2>3, <3>4, <3>6, <3>7
  <2>4. CASE name \notin DOMAIN lists /\ name \notin ItemNames /\ name # StatTrak
    BY <1>4, <2>4 DEF WithEntry, FoundLists
  <2> QED
    BY <2>1, <2>2, <2>3, <2>4
<1>11. ASSUME NEW i \in 1..decl PROVE SaysWhatIsRead(i)'
  <2>1. CASE i # decl
    <3>1. i < decl /\ i \in 1..LastBegun /\ i \in DOMAIN file
      BY <1>1, <1>2, <2>1
    <3>2. SaysWhatIsRead(i) /\ file[i].name \in DOMAIN lists
      BY <1>3, <3>1 DEF ParsedInv
    <3>3. file[i].name # me
      BY <1>1, <2>1, <3>1 DEF WellFormed, me
    <3>4. /\ Read(i)' = Read(i) /\ ListsBefore(i)' = ListsBefore(i)
          /\ IsUnusual(file[i])' = IsUnusual(file[i])
      BY <1>1, <3>1 DEF Read, ListsBefore, IsUnusual
    <3>5. lists'[file'[i].name] = lists[file[i].name]
      BY <1>1, <1>4, <3>2, <3>3
    <3> QED
      BY <3>2, <3>4, <3>5 DEF SaysWhatIsRead
  <2>2. CASE i = decl
    <3>1. /\ lists'[me].isUnusual = flag
          /\ Range(lists'[me].subLists) = Read(i)' \cap ListsBefore(i)
          /\ Range(lists'[me].items) =
               {LootListItem(e, flag) : e \in (Read(i)' \cap ItemNames) \ ListsBefore(i)}
      <4>1. /\ lists[me].isUnusual = flag
            /\ Range(lists[me].subLists) = Read(i) \cap ListsBefore(i)
            /\ Range(lists[me].items) =
                 {LootListItem(e, flag) : e \in (Read(i) \cap ItemNames) \ ListsBefore(i)}
        BY <1>1, <1>5, <2>2 DEF SaysWhatIsRead, me, flag
      <4>2. Range(lists'[me].subLists) = Read(i)' \cap ListsBefore(i)
        BY <1>3, <1>9, <1>10, <2>2, <4>1
      <4>3. ASSUME NEW E1, NEW E2, NEW e1, E2 = E1 \cup {e1}, NEW L
            PROVE  {LootListItem(e, flag) : e \in (E2 \cap ItemNames) \ L} =
                     {LootListItem(e, flag) : e \in (E1 \cap ItemNames) \ L}
                       \cup {LootListItem(e, flag) : e \in ({e1} \cap ItemNames) \ L}
        BY <4>3
      <4>4. {LootListItem(e, flag) : e \in (Read(i)' \cap ItemNames) \ ListsBefore(i)} =
              {LootListItem(e, flag) : e \in (Read(i) \cap ItemNames) \ ListsBefore(i)}
                \cup {LootListItem(e, flag) : e \in ({name} \cap ItemNames) \ ListsBefore(i)}
        BY <1>9, <2>2, <4>3
      <4> QED
        BY <1>3, <1>10, <2>2, <4>1, <4>2, <4>4
    <3>2. IsUnusual(file[i])' = flag /\ ListsBefore(i)' = ListsBefore(i)
      BY <1>1, <2>2 DEF IsUnusual, ListsBefore, flag
    <3>3. me = file'[i].name
      BY <1>1, <2>2 DEF me
    <3> QED
      BY <3>1, <3>2, <3>3 DEF SaysWhatIsRead
  <2> QED
    BY <2>1, <2>2
<1>12. DOMAIN lists' = ListsBefore(decl)'
  BY <1>1, <1>3, <1>4 DEF ListsBefore
<1> QED
  BY <1>1, <1>2, <1>11, <1>12 DEF ParsedInv

\* A list that ends has all of its declaration read.
LEMMA EndListParsed ==
  ASSUME LInv, ParsedInv, EndList PROVE ParsedInv'
<1>1. /\ UNCHANGED <<file, lists>> /\ decl' = decl + 1 /\ entry' = 0
      /\ entry = Len(file[decl].entries) + 1
      /\ decl \in Nat \ {0} /\ decl \in DOMAIN file /\ Len(file) \in Nat
      /\ DOMAIN file = 1..Len(file)
  BY FileFacts DEF LInv, TypeInv, EndList, Declared
<1>2. Len(file[decl].entries) \in Nat /\ DOMAIN file[decl].entries = 1..Len(file[decl].entries)
  <2>1. file[decl] \in Declarations
    BY <1>1, FileFacts DEF LInv
  <2>2. file[decl].entries \in Seq(Names \cup {StatTrak})
    BY <2>1 DEF Declarations
  <2> QED
    BY <2>2
<1>3. LastBegun = decl /\ LastBegun' = decl
  BY <1>1, <1>2 DEF LastBegun
<1>4. ASSUME NEW i \in 1..decl PROVE Read(i)' = Read(i)
  <2>1. i < decl'
    BY <1>1
  <2>2. CASE i < decl
    BY <1>1, <2>1, <2>2 DEF Read
  <2>3. CASE ~(i < decl)
    <3>1. i = decl
      BY <1>1, <2>3
    <3>2. Read(i) = {file[i].entries[k] : k \in DOMAIN file[i].entries}
      <4>1. entry - 1 = Len(file[i].entries)
        BY <1>1, <1>2, <3>1
      <4> QED
        BY <1>2, <2>3, <3>1, <4>1 DEF Read
    <3> QED
      BY <1>1, <2>1, <3>2 DEF Read, Range
  <2> QED
    BY <2>2, <2>3
<1>5. ASSUME NEW i \in 1..decl PROVE SaysWhatIsRead(i)'
  <2>1. SaysWhatIsRead(i)
    BY <1>3 DEF ParsedInv
  <2>2. ListsBefore(i)' = ListsBefore(i) /\ IsUnusual(file[i])' = IsUnusual(file[i])
    BY <1>1 DEF ListsBefore, IsUnusual
  <2> QED
    BY <1>1, <1>4, <2>1, <2>2 DEF SaysWhatIsRead
<1> QED
  BY <1>1, <1>3, <1>5 DEF ParsedInv, ListsBefore

LEMMA SameParsed ==
  ASSUME ParsedInv, UNCHANGED <<file, decl, entry, lists>> PROVE ParsedInv'
<1>1. LastBegun' = LastBegun
  BY DEF LastBegun
<1>2. ASSUME NEW i \in 1..LastBegun PROVE SaysWhatIsRead(i)'
  <2>1. SaysWhatIsRead(i)
    BY DEF ParsedInv
  <2>2. Read(i)' = Read(i) /\ ListsBefore(i)' = ListsBefore(i)
    BY DEF Read, ListsBefore
  <2>3. IsUnusual(file[i])' = IsUnusual(file[i])
    BY DEF IsUnusual
  <2> QED
    BY <2>1, <2>2, <2>3 DEF SaysWhatIsRead
<1> QED
  BY <1>1, <1>2 DEF ParsedInv, ListsBefore

-----------------------------------------------------------------------------
(* What is found.                                                          *)

Item == [name : Names, unusual : BOOLEAN]

PhaseInv ==
  /\ phase # "parse" => decl = Len(file) + 1 /\ entry = 0
  /\ phase \in {"parse", "open"} => found = <<>> /\ ~ unusuals
  /\ phase \in {"walk", "done"} => opened \in DOMAIN lists
  /\ phase = "done" => stack = <<>>
  /\ found \in Seq(Item)

\* Whatever has been found is declared under the crate's list.
UnderInv ==
  /\ \A k \in DOMAIN stack : \E i \in Under(opened) : file[i].name = stack[k].list
  /\ \A x \in Range(found) : \E i \in Under(opened) : x \in DeclaredItems(i)
  /\ unusuals => \E i \in Under(opened) : IsUnusual(file[i])

\* The declarations whose lists have been left.
Gathered(D) ==
  /\ Closed(D)
  /\ \A i \in D : DeclaredItems(i) \subseteq Range(found) /\ (IsUnusual(file[i]) => unusuals)
  /\ \A k \in DOMAIN stack :
       /\ lists[stack[k].list].isUnusual => unusuals
       /\ stack[k].sub <= Len(lists[stack[k].list].subLists)
       /\ \A m \in 1..stack[k].sub : \A j \in DOMAIN file :
            file[j].name = lists[stack[k].list].subLists[m] =>
              j \in D \/ (k < Len(stack) /\ stack[k + 1].list = file[j].name)
  /\ stack # <<>> => stack[1].list = opened
  /\ stack = <<>> => \A j \in DOMAIN file : file[j].name = opened => j \in D

GatheredInv == phase \in {"walk", "done"} => \E D \in SUBSET DOMAIN file : Gathered(D)

CrateInv == ParsedInv /\ PhaseInv /\ UnderInv /\ GatheredInv

\* What is under a name is closed, has the name's declarations, and is the least such.
LEMMA UnderFacts ==
  ASSUME NEW n
  PROVE  /\ Under(n) \subseteq DOMAIN file
         /\ \A j \in DOMAIN file : file[j].name = n => j \in Under(n)
         /\ \A i \in Under(n), j \in DOMAIN file : file[j].name \in NamedLists(i) => j \in Under(n)
         /\ \A D \in SUBSET DOMAIN file :
              Closed(D) /\ (\A j \in DOMAIN file : file[j].name = n => j \in D) => Under(n) \subseteq D
BY DEF Under, Closed

\* Once the files are parsed, each list is what its declaration says.
LEMMA ListsAsDeclared ==
  ASSUME LInv, ParsedInv, PhaseInv, phase # "parse"
  PROVE  /\ DOMAIN lists = {file[i].name : i \in DOMAIN file}
         /\ \A i \in DOMAIN file :
              /\ lists[file[i].name].isUnusual = IsUnusual(file[i])
              /\ Range(lists[file[i].name].subLists) = NamedLists(i)
              /\ Range(lists[file[i].name].items) = DeclaredItems(i)
<1>1. /\ LastBegun = Len(file) /\ Len(file) \in Nat /\ decl = Len(file) + 1
      /\ DOMAIN file = 1..Len(file)
  BY FileFacts DEF LInv, PhaseInv, LastBegun
<1>2. DOMAIN lists = {file[i].name : i \in DOMAIN file}
  BY <1>1 DEF ParsedInv, ListsBefore
<1>3. ASSUME NEW i \in DOMAIN file
      PROVE  SaysWhatIsRead(i) /\ Read(i) = Range(file[i].entries)
  BY <1>1 DEF ParsedInv, Read
<1> QED
  BY <1>2, <1>3 DEF SaysWhatIsRead, NamedLists, DeclaredItems

LEMMA SameDeclarations ==
  ASSUME UNCHANGED file
  PROVE  /\ \A i : DeclaredItems(i)' = DeclaredItems(i)
         /\ \A i : NamedLists(i)' = NamedLists(i)
         /\ \A i : IsUnusual(file[i])' = IsUnusual(file[i])
         /\ \A D : Closed(D)' <=> Closed(D)
         /\ opened' = opened => Under(opened)' = Under(opened)
<1>1. ASSUME NEW i PROVE ListsBefore(i)' = ListsBefore(i)
  BY DEF ListsBefore
<1>2. ASSUME NEW i PROVE NamedLists(i)' = NamedLists(i)
  BY <1>1 DEF NamedLists
<1>3. ASSUME NEW i PROVE IsUnusual(file[i])' = IsUnusual(file[i])
  BY DEF IsUnusual
<1>4. ASSUME NEW i PROVE DeclaredItems(i)' = DeclaredItems(i)
  BY <1>1, <1>3 DEF DeclaredItems
<1>5. ASSUME NEW D PROVE Closed(D)' <=> Closed(D)
  BY <1>2 DEF Closed
<1>6. ASSUME opened' = opened PROVE Under(opened)' = Under(opened)
  BY <1>5, <1>6 DEF Under
<1> QED
  BY <1>2, <1>3, <1>4, <1>5, <1>6

LEMMA InitCrate == Init => CrateInv
<1> SUFFICES ASSUME Init PROVE CrateInv
  OBVIOUS
<1>1. /\ file \in Files /\ decl = 1 /\ entry = 0 /\ DOMAIN lists = {}
      /\ stack = <<>> /\ found = <<>> /\ ~ unusuals /\ phase = "parse"
  BY DEF Init
<1>2. Len(file) \in Nat
  BY InitLInv, FileFacts DEF LInv
<1>3. LastBegun = 0
  BY <1>1 DEF LastBegun
<1>4. ParsedInv
  BY <1>1, <1>2, <1>3 DEF ParsedInv, ListsBefore
<1>5. PhaseInv /\ GatheredInv
  BY <1>1 DEF PhaseInv, GatheredInv
<1>6. UnderInv
  BY <1>1 DEF UnderInv, Range
<1> QED
  BY <1>4, <1>5, <1>6 DEF CrateInv

\* Nothing is gone through while the files are parsed.
LEMMA ParsingCrate ==
  ASSUME LInv, WellFormed, CrateInv, BeginList \/ ParseEntry \/ EndList \/ EndOfFile
  PROVE  CrateInv'
<1>1. /\ UNCHANGED <<file, opened, stack, found, unusuals>>
      /\ phase = "parse" /\ phase' \in {"parse", "open"}
      /\ stack = <<>> /\ found = <<>> /\ ~ unusuals
  BY DEF BeginList, ParseEntry, EndList, EndOfFile, CrateInv, PhaseInv, LInv, TypeInv
<1>2. ParsedInv'
  <2>1. CASE BeginList
    BY <2>1, BeginListParsed DEF CrateInv
  <2>2. CASE ParseEntry
    BY <2>2, ParseEntryParsed DEF CrateInv
  <2>3. CASE EndList
    BY <2>3, EndListParsed DEF CrateInv
  <2>4. CASE EndOfFile
    BY <2>4, SameParsed DEF CrateInv, EndOfFile
  <2> QED
    BY <2>1, <2>2, <2>3, <2>4
<1>3. PhaseInv'
  <2>1. phase' # "parse" => decl' = Len(file) + 1 /\ entry' = 0
    <3>1. CASE phase' = "parse"
      BY <3>1
    <3>2. CASE phase' # "parse"
      <4>1. /\ decl > Len(file) /\ UNCHANGED <<decl, entry>>
            /\ decl \in Nat /\ entry \in Nat /\ Len(file) \in Nat
        BY <1>1, <3>2, FileFacts
        DEF BeginList, ParseEntry, EndList, EndOfFile, LInv, TypeInv
      <4>2. LastBegun <= Len(file)
        BY DEF CrateInv, ParsedInv
      <4> QED
        BY <4>1, <4>2 DEF LastBegun
    <3> QED
      BY <3>1, <3>2
  <2> QED
    BY <1>1, <2>1 DEF PhaseInv
<1>4. UnderInv'
  BY <1>1 DEF UnderInv, Range
<1>5. GatheredInv'
  BY <1>1 DEF GatheredInv
<1> QED
  BY <1>2, <1>3, <1>4, <1>5 DEF CrateInv

LEMMA OpenCrateStep ==
  ASSUME LInv, WellFormed, CrateInv, OpenCrate PROVE CrateInv'
<1>1. PICK name \in DOMAIN lists :
        /\ opened' = name /\ stack' = <<Call(name)>> /\ unusuals' = UnusualsWith(name)
        /\ phase = "open" /\ phase' = "walk"
        /\ UNCHANGED <<file, decl, entry, lists, found>>
  BY DEF OpenCrate
<1>2. ParsedInv'
  BY <1>1, SameParsed DEF CrateInv
<1>3. PhaseInv'
  BY <1>1 DEF CrateInv, PhaseInv
<1>4. /\ found' = <<>> /\ Len(stack') = 1 /\ DOMAIN stack' = {1} /\ stack' # <<>>
      /\ stack'[1].list = name /\ stack'[1].sub = 0
      /\ unusuals' <=> lists[name].isUnusual
  <2>1. found = <<>> /\ ~ unusuals
    BY <1>1 DEF CrateInv, PhaseInv
  <2>2. unusuals' = (unusuals \/ lists[name].isUnusual)
    BY <1>1 DEF UnusualsWith
  <2>3. stack' = <<Call(name)>> /\ Call(name).list = name /\ Call(name).sub = 0
    BY <1>1 DEF Call
  <2>4. Len(stack') = 1 /\ DOMAIN stack' = {1} /\ stack' # <<>> /\ stack'[1] = Call(name)
    BY <2>3
  <2>5. unusuals' <=> lists[name].isUnusual
    BY <2>1, <2>2, Zenon
  <2> QED
    BY <1>1, <2>1, <2>3, <2>4, <2>5
<1>5. PICK i \in DOMAIN file :
        /\ file[i].name = name
        /\ lists[name].isUnusual = IsUnusual(file[i])
  <2>1. PICK i \in DOMAIN file : file[i].name = name
    BY <1>1, ListsAsDeclared DEF CrateInv
  <2> QED
    BY <1>1, <2>1, ListsAsDeclared DEF CrateInv
<1>6. UnderInv'
  <2>1. i \in Under(name)
    BY <1>5, UnderFacts
  <2>2. Under(opened)' = Under(name) /\ IsUnusual(file[i])' = IsUnusual(file[i])
    <3>1. \A D : Closed(D)' <=> Closed(D)
      BY <1>1, SameDeclarations
    <3> QED
      BY <1>1, <3>1, SameDeclarations DEF Under
  <2>3. Range(found') = {}
    BY <1>4 DEF Range
  <2>4. unusuals' => IsUnusual(file[i])
    BY <1>4, <1>5
  <2> QED
    BY <1>1, <1>4, <1>5, <2>1, <2>2, <2>3, <2>4 DEF UnderInv
<1>7. GatheredInv'
  <2>1. Closed({})'
    BY DEF Closed
  <2>2. lists[name].subLists \in Seq(Names)
    BY <1>1 DEF LInv, TypeInv, LootList
  <2>3. 0 <= Len(lists[name].subLists) /\ 1..0 = {}
    BY <2>2
  <2>4. Gathered({})'
    BY <1>1, <1>4, <2>1, <2>3 DEF Gathered
  <2> QED
    BY <1>1, <2>4 DEF GatheredInv
<1> QED
  BY <1>2, <1>3, <1>6, <1>7 DEF CrateInv

\* The sublist gone into has nothing of it gone through; the others stay as they were.
LEMMA NextSubListStep ==
  ASSUME LInv, LInv', WellFormed, CrateInv, NextSubList PROVE CrateInv'
<1> DEFINE n == Len(stack)
           frame == stack[n]
           name == lists[frame.list].subLists[frame.sub + 1]
<1>1. /\ UNCHANGED <<file, decl, entry, lists, opened, found>>
      /\ phase = "walk" /\ n \in Nat \ {0} /\ n \in DOMAIN stack /\ DOMAIN stack = 1..n
      /\ stack \in Seq(Frame) /\ frame \in Frame /\ frame.list \in DOMAIN lists
      /\ frame.sub < Len(lists[frame.list].subLists)
      /\ GoInto(name)
  <2>1. /\ stack # <<>> /\ stack \in Seq(Frame)
    BY DEF LInv, TypeInv, NextSubList
  <2>2. n \in Nat \ {0} /\ n \in DOMAIN stack /\ DOMAIN stack = 1..n
    BY <2>1
  <2>3. frame \in Frame
    BY <2>1, <2>2
  <2>4. frame.list \in DOMAIN lists
    BY <2>2 DEF LInv, KnownInv
  <2>5. Last(stack) = frame
    BY DEF Last
  <2> QED
    BY <2>1, <2>2, <2>3, <2>4, <2>5 DEF NextSubList, Top
<1>2. /\ frame.sub \in Nat /\ lists[frame.list].subLists \in Seq(Names)
      /\ frame.sub + 1 \in DOMAIN lists[frame.list].subLists
      /\ name \in Range(lists[frame.list].subLists) /\ name \in DOMAIN lists
  <2>1. frame.sub \in Nat /\ lists[frame.list].subLists \in Seq(Names)
    BY <1>1 DEF LInv, TypeInv, LootList, Frame
  <2>2. frame.sub + 1 \in DOMAIN lists[frame.list].subLists
    BY <1>1, <2>1
  <2>3. name \in Range(lists[frame.list].subLists)
    BY <2>2 DEF Range
  <2> QED
    BY <1>1, <2>1, <2>2, <2>3 DEF LInv, KnownInv
<1>3. phase' = "walk"
  BY <1>1 DEF LInv, WellFormed, GoInto
<1> DEFINE moved == [stack EXCEPT ![n].sub = @ + 1]
<1>4. stack' = Append(moved, Call(name)) /\ unusuals' = UnusualsWith(name)
  BY <1>1, <1>3 DEF GoInto
<1>5. /\ moved \in Seq(Frame) /\ Len(moved) = n
      /\ \A k \in 1..n : moved[k].list = stack[k].list
      /\ \A k \in 1..n : k # n => moved[k] = stack[k]
      /\ moved[n].sub = frame.sub + 1
  BY <1>1 DEF Frame
<1>6. Call(name) \in Frame /\ Call(name).list = name /\ Call(name).sub = 0
  BY <1>2 DEF Call, Frame, LInv, TypeInv
<1> HIDE DEF moved
<1>7. /\ Len(stack') = n + 1 /\ DOMAIN stack' = 1..(n + 1) /\ stack' # <<>>
      /\ \A k \in 1..n : stack'[k].list = stack[k].list
      /\ \A k \in 1..n : k # n => stack'[k] = stack[k]
      /\ stack'[n].sub = frame.sub + 1
      /\ stack'[n + 1].list = name /\ stack'[n + 1].sub = 0
  <2> HIDE DEF n, frame, name
  <2>1. /\ Len(stack') = n + 1 /\ DOMAIN stack' = 1..(n + 1) /\ stack' # <<>>
        /\ \A k \in 1..n : stack'[k] = moved[k]
        /\ stack'[n + 1] = Call(name)
    BY <1>1, <1>4, <1>5, <1>6
  <2> QED
    BY <1>1, <1>5, <1>6, <2>1
<1>8. ParsedInv' /\ PhaseInv'
  <2>1. ParsedInv'
    BY <1>1, SameParsed DEF CrateInv
  <2> QED
    BY <1>1, <1>3, <2>1 DEF CrateInv, PhaseInv
<1>9. PICK i \in Under(opened) : i \in DOMAIN file /\ file[i].name = frame.list
  BY <1>1, UnderFacts DEF CrateInv, UnderInv
<1>10. PICK j \in DOMAIN file :
         /\ file[j].name = name
         /\ lists[name].isUnusual = IsUnusual(file[j])
  <2>1. PICK j \in DOMAIN file : file[j].name = name
    <3>1. DOMAIN lists = {file[j].name : j \in DOMAIN file}
      BY <1>1, ListsAsDeclared DEF CrateInv
    <3> QED
      BY <1>2, <3>1
  <2> QED
    BY <1>1, <2>1, ListsAsDeclared DEF CrateInv
<1>11. j \in Under(opened)
  <2>1. name \in NamedLists(i)
    BY <1>1, <1>2, <1>9, ListsAsDeclared DEF CrateInv
  <2> QED
    BY <1>9, <1>10, <2>1, UnderFacts
<1>12. unusuals' <=> unusuals \/ lists[name].isUnusual
  BY <1>4 DEF UnusualsWith
<1>13. /\ Under(opened)' = Under(opened)
       /\ \A h : DeclaredItems(h)' = DeclaredItems(h)
       /\ \A h : IsUnusual(file[h])' = IsUnusual(file[h])
       /\ \A D : Closed(D)' <=> Closed(D)
  BY <1>1, SameDeclarations
<1> HIDE DEF n, frame, name
<1>14. UnderInv'
  <2>1. \A k \in DOMAIN stack' : \E h \in Under(opened) : file[h].name = stack'[k].list
    <3>1. \A k \in 1..(n + 1) : k \in 1..n \/ k = n + 1
      BY <1>1
    <3>2. \A k \in 1..n : \E h \in Under(opened) : file[h].name = stack[k].list
      BY <1>1 DEF CrateInv, UnderInv
    <3> QED
      BY <1>7, <1>10, <1>11, <3>1, <3>2
  <2>2. unusuals' => \E h \in Under(opened) : IsUnusual(file[h])
    BY <1>10, <1>11, <1>12 DEF CrateInv, UnderInv
  <2>3. \A x \in Range(found) : \E h \in Under(opened) : x \in DeclaredItems(h)
    BY DEF CrateInv, UnderInv
  <2> QED
    BY <1>1, <1>13, <2>1, <2>2, <2>3 DEF UnderInv
<1>15. GatheredInv'
  <2>1. PICK D \in SUBSET DOMAIN file : Gathered(D)
    BY <1>1 DEF CrateInv, GatheredInv
  <2>2. \A h \in D : DeclaredItems(h) \subseteq Range(found) /\ (IsUnusual(file[h]) => unusuals')
    BY <1>12, <2>1 DEF Gathered
  <2>3. ASSUME NEW k \in DOMAIN stack'
        PROVE  /\ lists[stack'[k].list].isUnusual => unusuals'
               /\ stack'[k].sub <= Len(lists[stack'[k].list].subLists)
               /\ \A m \in 1..stack'[k].sub : \A h \in DOMAIN file :
                    file[h].name = lists[stack'[k].list].subLists[m] =>
                      h \in D \/ (k < Len(stack') /\ stack'[k + 1].list = file[h].name)
    <3>1. CASE k = n + 1
      <4>1. lists[name].subLists \in Seq(Names)
        BY <1>2 DEF LInv, TypeInv, LootList
      <4>2. 0 <= Len(lists[name].subLists) /\ 1..0 = {}
        BY <4>1
      <4> QED
        BY <1>7, <1>12, <3>1, <4>2
    <3>2. CASE k = n
      <4>1. /\ lists[frame.list].isUnusual => unusuals
            /\ \A m \in 1..frame.sub : \A h \in DOMAIN file :
                 file[h].name = lists[frame.list].subLists[m] => h \in D
        BY <1>1, <2>1 DEF Gathered, n, frame
      <4>2. \A m \in 1..(frame.sub + 1) : m \in 1..frame.sub \/ m = frame.sub + 1
        BY <1>2
      <4>3. stack'[n].list = frame.list /\ n < Len(stack') /\ stack'[n + 1].list = name
        BY <1>1, <1>7 DEF frame
      <4>4. frame.sub + 1 <= Len(lists[frame.list].subLists)
        BY <1>1, <1>2
      <4>5. name = lists[frame.list].subLists[frame.sub + 1]
        BY DEF name
      <4> QED
        BY <1>7, <1>12, <3>2, <4>1, <4>2, <4>3, <4>4, <4>5
    <3>3. CASE k \in 1..(n - 1)
      <4>1. k \in DOMAIN stack /\ k # n /\ k + 1 \in 1..n /\ k < n
        BY <1>1, <3>3
      <4>2. stack'[k] = stack[k] /\ stack'[k + 1].list = stack[k + 1].list /\ k < Len(stack')
        BY <1>1, <1>7, <4>1
      <4> QED
        BY <1>12, <2>1, <4>1, <4>2 DEF Gathered
    <3> QED
      BY <1>1, <1>7, <3>1, <3>2, <3>3
  <2>4. stack'[1].list = opened
    <3>1. stack # <<>> /\ 1 \in 1..n
      BY <1>1 DEF n
    <3> QED
      BY <1>7, <2>1, <3>1 DEF Gathered
  <2>5. Closed(D)'
    BY <1>13, <2>1 DEF Gathered
  <2>6. Gathered(D)'
    BY <1>1, <1>7, <1>13, <2>2, <2>3, <2>4, <2>5 DEF Gathered
  <2> QED
    BY <1>1, <2>6 DEF GatheredInv
<1> QED
  BY <1>8, <1>14, <1>15 DEF CrateInv

\* A list that is left has all of its sublists left before it.
LEMMA ReturnStep ==
  ASSUME LInv, WellFormed, CrateInv, Return PROVE CrateInv'
<1> DEFINE n == Len(stack)
           frame == stack[n]
           items == lists[frame.list].items
<1>1. /\ UNCHANGED <<file, decl, entry, lists, opened, unusuals, phase>>
      /\ phase = "walk" /\ n \in Nat \ {0} /\ n \in DOMAIN stack /\ DOMAIN stack = 1..n
      /\ stack \in Seq(Frame) /\ frame \in Frame /\ frame.list \in DOMAIN lists
      /\ frame.sub = Len(lists[frame.list].subLists)
      /\ found' = found \o items /\ stack' = SubSeq(stack, 1, n - 1)
  <2>1. /\ stack # <<>> /\ stack \in Seq(Frame)
    BY DEF LInv, TypeInv, Return
  <2>2. n \in Nat \ {0} /\ n \in DOMAIN stack /\ DOMAIN stack = 1..n
    BY <2>1
  <2>3. frame \in Frame
    BY <2>1, <2>2
  <2>4. frame.list \in DOMAIN lists
    BY <2>2 DEF LInv, KnownInv
  <2>5. Last(stack) = frame
    BY DEF Last
  <2> QED
    BY <2>1, <2>2, <2>3, <2>4, <2>5 DEF Return, Top, Front, OwnItems
<1>2. /\ Len(stack') = n - 1 /\ DOMAIN stack' = 1..(n - 1)
      /\ \A k \in 1..(n - 1) : stack'[k] = stack[k]
  <2> HIDE DEF n
  <2>1. /\ \A k \in 1..(n - 1) : stack[k] \in Frame /\ 1 + k - 1 = k
        /\ n - 1 \in Nat /\ n - 1 - 1 + 1 = n - 1
    BY <1>1
  <2>2. /\ SubSeq(stack, 1, n - 1) \in Seq(Frame)
        /\ Len(SubSeq(stack, 1, n - 1)) = IF 1 <= n - 1 THEN n - 1 - 1 + 1 ELSE 0
        /\ \A k \in 1..(n - 1 - 1 + 1) : SubSeq(stack, 1, n - 1)[k] = stack[1 + k - 1]
    BY <2>1, SubSeqProperties
  <2>3. Len(SubSeq(stack, 1, n - 1)) = n - 1
    BY <2>1, <2>2
  <2> QED
    BY <1>1, <2>1, <2>2, <2>3
<1>3. Range(found') = Range(found) \cup Range(items) /\ found' \in Seq(Item)
  <2>1. found \in Seq(Item) /\ items \in Seq(Item)
    BY <1>1 DEF CrateInv, PhaseInv, LInv, TypeInv, LootList, Item
  <2> QED
    BY <1>1, <2>1, RangeOfConcat
<1>4. PICK i \in Under(opened) : i \in DOMAIN file /\ file[i].name = frame.list
  BY <1>1, UnderFacts DEF CrateInv, UnderInv
<1>5. /\ Range(items) = DeclaredItems(i)
      /\ Range(lists[frame.list].subLists) = NamedLists(i)
      /\ lists[frame.list].isUnusual = IsUnusual(file[i])
  BY <1>1, <1>4, ListsAsDeclared DEF CrateInv
<1>6. ParsedInv' /\ PhaseInv'
  <2>1. ParsedInv'
    BY <1>1, SameParsed DEF CrateInv
  <2> QED
    BY <1>1, <1>3, <2>1 DEF CrateInv, PhaseInv
<1>7. /\ Under(opened)' = Under(opened)
      /\ \A h : DeclaredItems(h)' = DeclaredItems(h)
      /\ \A h : IsUnusual(file[h])' = IsUnusual(file[h])
      /\ \A D : Closed(D)' <=> Closed(D)
  BY <1>1, SameDeclarations
<1> HIDE DEF n, frame, items
<1>8. UnderInv'
  <2>1. \A k \in DOMAIN stack' : \E h \in Under(opened) : file[h].name = stack'[k].list
    <3>1. \A k \in 1..(n - 1) : k \in DOMAIN stack
      BY <1>1
    <3> QED
      BY <1>2, <3>1 DEF CrateInv, UnderInv
  <2>2. \A x \in Range(found') : \E h \in Under(opened) : x \in DeclaredItems(h)
    BY <1>3, <1>4, <1>5 DEF CrateInv, UnderInv
  <2> QED
    BY <1>1, <1>7, <2>1, <2>2 DEF CrateInv, UnderInv
<1>9. GatheredInv'
  <2>1. PICK D \in SUBSET DOMAIN file : Gathered(D)
    BY <1>1 DEF CrateInv, GatheredInv
  <2> DEFINE E == D \cup {i}
  <2>2. /\ lists[frame.list].isUnusual => unusuals
        /\ \A m \in 1..frame.sub : \A h \in DOMAIN file :
             file[h].name = lists[frame.list].subLists[m] => h \in D
    BY <1>1, <2>1 DEF Gathered, n, frame
  <2>3. Closed(E)
    <3>1. ASSUME NEW j \in DOMAIN file, file[j].name \in NamedLists(i) PROVE j \in D
      <4>1. DOMAIN lists[frame.list].subLists = 1..frame.sub
        BY <1>1 DEF LInv, TypeInv, LootList
      <4>2. PICK m \in 1..frame.sub : file[j].name = lists[frame.list].subLists[m]
        BY <1>5, <3>1, <4>1 DEF Range
      <4> QED
        BY <2>2, <4>2
    <3> QED
      BY <2>1, <3>1 DEF Gathered, Closed
  <2>4. \A h \in E : DeclaredItems(h) \subseteq Range(found') /\ (IsUnusual(file[h]) => unusuals)
    <3>1. \A h \in D : DeclaredItems(h) \subseteq Range(found) /\ (IsUnusual(file[h]) => unusuals)
      BY <2>1 DEF Gathered
    <3> QED
      BY <1>3, <1>5, <2>2, <3>1
  <2>5. ASSUME NEW k \in DOMAIN stack'
        PROVE  /\ lists[stack'[k].list].isUnusual => unusuals
               /\ stack'[k].sub <= Len(lists[stack'[k].list].subLists)
               /\ \A m \in 1..stack'[k].sub : \A h \in DOMAIN file :
                    file[h].name = lists[stack'[k].list].subLists[m] =>
                      h \in E \/ (k < Len(stack') /\ stack'[k + 1].list = file[h].name)
    <3>1. k \in 1..(n - 1) /\ k \in DOMAIN stack /\ k < n /\ stack'[k] = stack[k]
      BY <1>1, <1>2
    <3>2. /\ lists[stack[k].list].isUnusual => unusuals
          /\ stack[k].sub <= Len(lists[stack[k].list].subLists)
          /\ \A m \in 1..stack[k].sub : \A h \in DOMAIN file :
               file[h].name = lists[stack[k].list].subLists[m] =>
                 h \in D \/ stack[k + 1].list = file[h].name
      BY <2>1, <3>1 DEF Gathered
    <3>3. ASSUME NEW h \in DOMAIN file, stack[k + 1].list = file[h].name
          PROVE  h \in E \/ (k < Len(stack') /\ stack'[k + 1].list = file[h].name)
      <4>1. CASE k + 1 = n
        <5>1. file[h].name = file[i].name
          BY <1>4, <3>3, <4>1 DEF frame
        <5>2. h = i
          BY <1>4, <5>1 DEF WellFormed
        <5> QED
          BY <5>2
      <4>2. CASE k + 1 # n
        <5>1. k + 1 \in 1..(n - 1) /\ k < n - 1
          BY <1>1, <3>1, <4>2
        <5> QED
          BY <1>2, <3>3, <5>1
      <4> QED
        BY <4>1, <4>2
    <3> QED
      BY <3>1, <3>2, <3>3
  <2>6. stack' # <<>> => stack'[1].list = opened
    <3> SUFFICES ASSUME stack' # <<>> PROVE stack'[1].list = opened
      OBVIOUS
    <3>1. n - 1 # 0
      <4>1. stack' \in Seq(Frame)
        <5>1. \A k \in 1..(n - 1) : stack'[k] \in Frame
          BY <1>1, <1>2
        <5> QED
          BY <1>1, <1>2, <5>1
      <4> QED
        BY <1>2, <4>1
    <3>2. 1 \in 1..(n - 1) /\ stack # <<>>
      BY <1>1, <3>1 DEF n
    <3> QED
      BY <1>2, <2>1, <3>2 DEF Gathered
  <2>7. stack' = <<>> => \A j \in DOMAIN file : file[j].name = opened => j \in E
    <3> SUFFICES ASSUME stack' = <<>>, NEW j \in DOMAIN file, file[j].name = opened PROVE j \in E
      OBVIOUS
    <3>1. n = 1
      BY <1>1, <1>2
    <3>2. frame.list = opened
      <4>1. stack # <<>>
        BY <1>1 DEF n
      <4> QED
        BY <2>1, <3>1, <4>1 DEF Gathered, frame
    <3>3. j = i
      BY <1>4, <3>2 DEF WellFormed
    <3> QED
      BY <3>3
  <2> HIDE DEF E
  <2>8. Gathered(E)'
    <3>1. opened' = opened /\ file' = file /\ lists' = lists /\ unusuals' = unusuals
      BY <1>1
    <3>2. Closed(E)'
      BY <1>7, <2>3
    <3>3. \A h \in E : DeclaredItems(h)' \subseteq Range(found') /\ (IsUnusual(file[h])' => unusuals')
      BY <1>7, <2>4, <3>1
    <3>4. \A k \in DOMAIN stack' :
            /\ lists'[stack'[k].list].isUnusual => unusuals'
            /\ stack'[k].sub <= Len(lists'[stack'[k].list].subLists)
            /\ \A m \in 1..stack'[k].sub : \A h \in DOMAIN file' :
                 file'[h].name = lists'[stack'[k].list].subLists[m] =>
                   h \in E \/ (k < Len(stack') /\ stack'[k + 1].list = file'[h].name)
      BY <2>5, <3>1
    <3> QED
      BY <2>6, <2>7, <3>1, <3>2, <3>3, <3>4 DEF Gathered
  <2>9. E \in SUBSET DOMAIN file
    BY <1>4 DEF E
  <2> QED
    BY <1>1, <2>8, <2>9 DEF GatheredInv
<1> QED
  BY <1>6, <1>8, <1>9 DEF CrateInv

LEMMA OpenedStep ==
  ASSUME LInv, CrateInv, Opened \/ UNCHANGED vars PROVE CrateInv'
<1>1. /\ UNCHANGED <<file, decl, entry, lists, opened, stack, found, unusuals>>
      /\ phase' = phase \/ (phase = "walk" /\ phase' = "done" /\ stack = <<>>)
  BY DEF Opened, vars
<1>2. /\ Under(opened)' = Under(opened)
      /\ \A h : DeclaredItems(h)' = DeclaredItems(h)
      /\ \A h : IsUnusual(file[h])' = IsUnusual(file[h])
      /\ \A D : Closed(D)' <=> Closed(D)
  BY <1>1, SameDeclarations
<1>3. ParsedInv' /\ PhaseInv'
  <2>1. ParsedInv'
    BY <1>1, SameParsed DEF CrateInv
  <2> QED
    BY <1>1, <2>1 DEF CrateInv, PhaseInv
<1>4. UnderInv'
  BY <1>1, <1>2 DEF CrateInv, UnderInv
<1>5. ASSUME NEW D, Gathered(D) PROVE Gathered(D)'
  BY <1>1, <1>2, <1>5 DEF Gathered
<1>6. GatheredInv'
  BY <1>1, <1>5 DEF CrateInv, GatheredInv
<1> QED
  BY <1>3, <1>4, <1>6 DEF CrateInv

\* Both invariants, and for the crate's only the files that it is about.
FInv == LInv /\ (WellFormed => CrateInv)

LEMMA NextFInv == FInv /\ [Next]_vars => FInv'
<1> SUFFICES ASSUME FInv, [Next]_vars PROVE FInv'
  OBVIOUS
<1>1. LInv /\ LInv'
  BY NextLInv DEF FInv
<1>2. ASSUME WellFormed' PROVE CrateInv'
  <2>1. UNCHANGED file
    BY DEF Next, vars, BeginList, ParseEntry, EndList, EndOfFile, OpenCrate, NextSubList, Return,
           Opened
  <2>2. WellFormed /\ CrateInv
    BY <1>2, <2>1 DEF WellFormed, FInv
  <2> QED
    BY <1>1, <2>2, ParsingCrate, OpenCrateStep, NextSubListStep, ReturnStep, OpenedStep DEF Next
<1> QED
  BY <1>1, <1>2 DEF FInv

\* When a crate has been gone through, the declarations left are closed and have the
\* crate's own, so they have all that is under it.
LEMMA FoundFact == FInv => FoundAsDeclared
<1> SUFFICES ASSUME FInv, phase = "done", WellFormed
             PROVE  /\ Range(found) = UNION {DeclaredItems(i) : i \in Under(opened)}
                    /\ unusuals <=> \E i \in Under(opened) : IsUnusual(file[i])
  BY DEF FoundAsDeclared
<1>1. CrateInv /\ stack = <<>>
  BY DEF FInv, CrateInv, PhaseInv
<1>2. PICK D \in SUBSET DOMAIN file : Gathered(D)
  BY <1>1 DEF CrateInv, GatheredInv
<1>3. Under(opened) \subseteq D
  BY <1>1, <1>2, UnderFacts DEF Gathered
<1>4. /\ \A i \in Under(opened) : DeclaredItems(i) \subseteq Range(found)
      /\ (\E i \in Under(opened) : IsUnusual(file[i])) => unusuals
  BY <1>2, <1>3 DEF Gathered
<1> QED
  BY <1>1, <1>4 DEF CrateInv, UnderInv

\* A crate has the items that its list is declared to lead to, and is told to have
\* unusuals if a list under it is one, for any files that declare each list once and
\* let none name itself.
THEOREM CrateAsDeclared == Spec => []FoundAsDeclared
<1>1. Init => FInv
  BY InitLInv, InitCrate DEF FInv
<1> QED
  BY <1>1, NextFInv, FoundFact, PTL DEF Spec

-----------------------------------------------------------------------------
(* What is drawn.                                                          *)

\* What has come out is an item that was found, and unusual only by the gold roll.
DrawnInv ==
  drawn # <<>> =>
    /\ phase = "done" /\ selected
    /\ drawn[1].item \in Range(found)
    /\ drawn[1].item.unusual => GoldTried

\* The quality and the counter are given to the item that was chosen, which stays as it is.
LEMMA EconItem ==
  ASSUME NEW item, NEW statTrak
  PROVE  /\ Econ(item, statTrak).item = item
         /\ [Econ(item, statTrak) EXCEPT !.quality = "tournament"].item = item
BY DEF Econ

LEMMA SelectStep ==
  ASSUME DrawnInv, SelectItemFromCrate PROVE DrawnInv'
<1>1. phase = "done" /\ ~ selected /\ selected' = TRUE /\ drawn = <<>> /\ UNCHANGED vars
  BY DEF SelectItemFromCrate, DrawnInv
<1>2. GoldTried' = GoldTried
  BY <1>1 DEF GoldTried, Crate, vars
<1>3. ASSUME NEW item \in Range(found), NEW econ, drawn' = <<econ>>, econ.item = item,
             item.unusual => GoldTried
      PROVE  DrawnInv'
  BY <1>1, <1>2, <1>3 DEF DrawnInv, vars
<1>4. CASE DrawUnusual
  <2>1. PICK item \in Unusuals, statTrak \in StatTraks : drawn' = <<Econ(item, statTrak)>>
    BY <1>4 DEF DrawUnusual
  <2>2. item \in Range(found) /\ GoldTried
    BY <1>4, <2>1 DEF Unusuals, ItemsInCrate, DrawUnusual
  <2> QED
    BY <1>3, <2>1, <2>2, EconItem
<1>5. CASE DrawByRarity
  <2>1. CASE UNCHANGED drawn
    BY <1>1, <2>1 DEF DrawnInv
  <2>2. CASE \E rarity : \E item \in OfRarity(rarity), statTrak \in StatTraks :
               \/ drawn' = <<Econ(item, statTrak)>>
               \/ drawn' = <<[Econ(item, statTrak) EXCEPT !.quality = "tournament"]>>
    <3>1. PICK rarity : \E item \in OfRarity(rarity), statTrak \in StatTraks :
            \/ drawn' = <<Econ(item, statTrak)>>
            \/ drawn' = <<[Econ(item, statTrak) EXCEPT !.quality = "tournament"]>>
      BY <2>2
    <3>2. PICK item \in OfRarity(rarity), statTrak \in StatTraks :
            \/ drawn' = <<Econ(item, statTrak)>>
            \/ drawn' = <<[Econ(item, statTrak) EXCEPT !.quality = "tournament"]>>
      BY <3>1
    <3>3. item \in Range(found) /\ ~ item.unusual
      BY <3>2 DEF OfRarity, ItemsInCrate
    <3>4. CASE drawn' = <<Econ(item, statTrak)>>
      <4>1. Econ(item, statTrak).item = item
        BY EconItem
      <4> QED
        BY <1>3, <3>3, <3>4, <4>1
    <3>5. CASE drawn' = <<[Econ(item, statTrak) EXCEPT !.quality = "tournament"]>>
      <4>1. [Econ(item, statTrak) EXCEPT !.quality = "tournament"].item = item
        BY EconItem
      <4> QED
        BY <1>3, <3>3, <3>5, <4>1
    <3> QED
      BY <3>2, <3>4, <3>5
  <2> QED
    BY <1>5, <2>1, <2>2 DEF DrawByRarity
<1>6. CASE UNCHANGED drawn
  BY <1>1, <1>6 DEF DrawnInv
<1> QED
  BY <1>4, <1>5, <1>6 DEF SelectItemFromCrate

LEMMA SelectionNextInv ==
  FInv /\ DrawnInv /\ [SelectionNext]_<<vars, selection>> => FInv' /\ DrawnInv'
<1> SUFFICES ASSUME FInv, DrawnInv, [SelectionNext]_<<vars, selection>> PROVE FInv' /\ DrawnInv'
  OBVIOUS
<1>1. [Next]_vars
  BY DEF SelectionNext, SelectItemFromCrate
<1>2. CASE SelectItemFromCrate
  BY <1>1, <1>2, NextFInv, SelectStep
<1>3. CASE UNCHANGED selection
  <2>1. phase = "done" => UNCHANGED vars
    BY <1>1 DEF Next, BeginList, ParseEntry, EndList, EndOfFile, OpenCrate, NextSubList, Return,
                Opened
  <2>2. DrawnInv'
    BY <1>3, <2>1 DEF DrawnInv, GoldTried, Crate, selection, vars
  <2> QED
    BY <1>1, <2>2, NextFInv
<1> QED
  BY <1>2, <1>3 DEF SelectionNext

\* What comes out of a crate was declared under its list; an unusual item only if a list
\* under it, but not the crate's own, was declared to be unusual: for every weight,
\* every order of the hash map and every roll.
THEOREM OnlyDeclaredDrawn == SelectionSpec => []DrawnAsDeclared
<1>1. SelectionInit => FInv /\ DrawnInv
  BY InitLInv, InitCrate DEF FInv, DrawnInv, SelectionInit
<1>2. FInv /\ DrawnInv => DrawnAsDeclared
  <2> SUFFICES ASSUME FInv, DrawnInv, drawn # <<>>, WellFormed
               PROVE  /\ \E i \in Under(opened) : drawn[1].item \in DeclaredItems(i)
                      /\ drawn[1].item.unusual =>
                           /\ \E i \in Under(opened) : IsUnusual(file[i])
                           /\ \A i \in DOMAIN file :
                                file[i].name = opened => ~ IsUnusual(file[i])
    BY DEF DrawnAsDeclared
  <2>1. LInv /\ CrateInv /\ phase = "done"
    BY DEF FInv, DrawnInv
  <2>2. drawn[1].item \in Range(found) /\ (drawn[1].item.unusual => GoldTried)
    BY DEF DrawnInv
  <2>3. ASSUME GoldTried, NEW i \in DOMAIN file, file[i].name = opened
        PROVE  ~ IsUnusual(file[i])
    <3>1. ~ lists[opened].isUnusual
      BY <2>3, Zenon DEF GoldTried, Crate
    <3>2. lists[opened].isUnusual = IsUnusual(file[i])
      BY <2>1, <2>3, ListsAsDeclared DEF CrateInv
    <3> QED
      BY <3>1, <3>2
  <2>4. GoldTried => unusuals
    BY Zenon DEF GoldTried
  <2> QED
    BY <2>1, <2>2, <2>3, <2>4 DEF CrateInv, UnderInv
<1> QED
  BY <1>1, <1>2, SelectionNextInv, PTL DEF SelectionSpec

-----------------------------------------------------------------------------
(* The weights.                                                            *)

\* What is found is finite, whatever the files.
FoundInv == found \in Seq(Item)

LEMMA NextFoundInv == LInv /\ FoundInv /\ [Next]_vars => FoundInv'
<1> SUFFICES ASSUME LInv, FoundInv, [Next]_vars PROVE FoundInv'
  OBVIOUS
<1>1. CASE Return
  <2>1. Last(stack) = stack[Len(stack)] /\ Len(stack) \in DOMAIN stack
    <3>1. stack \in Seq(Frame) /\ stack # <<>>
      BY <1>1 DEF LInv, TypeInv, Return
    <3>2. Last(stack) = stack[Len(stack)]
      BY DEF Last
    <3> QED
      BY <3>1, <3>2, LenProperties, EmptySeq
  <2>2. Last(stack).list \in DOMAIN lists
    BY <2>1 DEF LInv, KnownInv
  <2>3. OwnItems(Top) \in Seq(Item)
    BY <2>2 DEF LInv, TypeInv, OwnItems, Top, LootList, Item
  <2>4. found' = found \o OwnItems(Top)
    BY <1>1 DEF Return
  <2> QED
    BY <2>3, <2>4, ConcatProperties DEF FoundInv
<1>2. CASE UNCHANGED found
  BY <1>2 DEF FoundInv
<1> QED
  BY <1>1, <1>2 DEF Next, vars, BeginList, ParseEntry, EndList, EndOfFile, OpenCrate, NextSubList,
                    Opened

LEMMA FiniteRange ==
  ASSUME NEW f, NEW S, IsFiniteSet(S), DOMAIN f = S
  PROVE  IsFiniteSet(Range(f))
<1> DEFINE g == [x \in S |-> f[x]]
<1>1. Range(f) = {f[x] : x \in S}
  BY DEF Range
<1>2. g \in Surjection(S, Range(f))
  BY <1>1 DEF Surjection
<1> HIDE DEF g
<1> QED
  BY <1>2, FS_Surjection

LEMMA RaritiesFinite ==
  ASSUME FoundInv PROVE IsFiniteSet(Rarities)
<1>1. DOMAIN found = 1..Len(found) /\ Len(found) \in Nat
  BY LenProperties DEF FoundInv
<1>2. IsFiniteSet(1..Len(found))
  BY <1>1, FS_Interval
<1>3. IsFiniteSet(ItemsInCrate)
  BY <1>1, <1>2, FiniteRange DEF ItemsInCrate
<1>4. IsFiniteSet(ItemsInCrate \ Unusuals)
  BY <1>3, FS_Difference
<1> DEFINE f == [i \in ItemsInCrate \ Unusuals |-> RarityOf[i.name]]
<1>5. DOMAIN f = ItemsInCrate \ Unusuals /\ Range(f) = Rarities
  BY DEF Rarities, Range
<1> HIDE DEF f
<1> QED
  BY <1>4, <1>5, FiniteRange

\* A rarity has as many lots as its weight.
LEMMA LotsCount ==
  ASSUME NEW r \in DOMAIN BaseWeight
  PROVE  IsFiniteSet(Lots(r)) /\ Cardinality(Lots(r)) = BaseWeight[r]
<1>1. BaseWeight[r] \in Nat
  BY SelectionAssumption
<1>2. IsFiniteSet(1..BaseWeight[r]) /\ Cardinality(1..BaseWeight[r]) = BaseWeight[r]
  BY <1>1, FS_Interval
<1>3. IsFiniteSet({r}) /\ Cardinality({r}) = 1
  BY FS_Singleton
<1> DEFINE S == {r}
           T == 1..BaseWeight[r]
<1>4. Lots(r) = S \X T
  BY DEF Lots
<1> HIDE DEF S, T
<1>5. IsFiniteSet(S) /\ IsFiniteSet(T) /\ Cardinality(S) = 1 /\ Cardinality(T) = BaseWeight[r]
  BY <1>2, <1>3 DEF S, T
<1>6. IsFiniteSet(S \X T) /\ Cardinality(S \X T) = Cardinality(S) * Cardinality(T)
  BY <1>5, FS_Product
<1>7. 1 * BaseWeight[r] = BaseWeight[r]
  BY <1>1
<1> QED
  BY <1>4, <1>5, <1>6, <1>7

LEMMA LotsFinite ==
  ASSUME NEW R, IsFiniteSet(R)
  PROVE  IsFiniteSet(LotsOf(R)) /\ Cardinality(LotsOf(R)) \in Nat
<1> DEFINE W == R \cap DOMAIN BaseWeight
           f == [r \in W |-> Lots(r)]
<1>1. IsFiniteSet(W)
  BY FS_Intersection
<1>2. DOMAIN f = W /\ Range(f) = {Lots(r) : r \in W}
  BY DEF Range
<1>3. IsFiniteSet({Lots(r) : r \in W})
  <2> HIDE DEF f, W
  <2> QED
    BY <1>1, <1>2, FiniteRange
<1>4. \A T \in {Lots(r) : r \in W} : IsFiniteSet(T)
  BY LotsCount
<1>5. IsFiniteSet(UNION {Lots(r) : r \in W})
  <2> HIDE DEF W
  <2> QED
    BY <1>3, <1>4, FS_UNION
<1> QED
  BY <1>5, FS_CardinalityType DEF LotsOf

LEMMA LotsGrow ==
  ASSUME NEW S, IsFiniteSet(S), NEW R \in SUBSET S
  PROVE  LotsOf(R) \subseteq LotsOf(S) /\ Cardinality(LotsOf(R)) <= Cardinality(LotsOf(S))
<1>1. LotsOf(R) \subseteq LotsOf(S)
  BY DEF LotsOf
<1> QED
  BY <1>1, LotsFinite, FS_Subset

\* A rarity that comes to others brings its weight.
LEMMA LotsAdd ==
  ASSUME NEW R, IsFiniteSet(R), NEW r, r \notin R
  PROVE  Cardinality(LotsOf(R \cup {r})) =
           Cardinality(LotsOf(R)) + IF r \in DOMAIN BaseWeight THEN BaseWeight[r] ELSE 0
<1>1. IsFiniteSet(LotsOf(R)) /\ Cardinality(LotsOf(R)) \in Nat
  BY LotsFinite
<1>2. CASE r \in DOMAIN BaseWeight
  <2>1. LotsOf(R \cup {r}) = LotsOf(R) \cup Lots(r)
    BY <1>2 DEF LotsOf
  <2>2. LotsOf(R) \cap Lots(r) = {}
    BY DEF LotsOf, Lots
  <2>3. /\ IsFiniteSet(Lots(r)) /\ Cardinality(Lots(r)) = BaseWeight[r]
        /\ BaseWeight[r] \in Nat
    BY <1>2, LotsCount, SelectionAssumption
  <2>4. Cardinality(LotsOf(R) \cup Lots(r)) =
          Cardinality(LotsOf(R)) + Cardinality(Lots(r)) - Cardinality(LotsOf(R) \cap Lots(r))
    BY <1>1, <2>3, FS_Union
  <2>5. Cardinality(LotsOf(R) \cap Lots(r)) = 0
    BY <2>2, FS_EmptySet
  <2>6. Cardinality(LotsOf(R) \cup Lots(r)) = Cardinality(LotsOf(R)) + BaseWeight[r]
    BY <1>1, <2>3, <2>4, <2>5
  <2> QED
    BY <1>2, <2>1, <2>6
<1>3. CASE r \notin DOMAIN BaseWeight
  <2>1. LotsOf(R \cup {r}) = LotsOf(R)
    BY <1>3 DEF LotsOf
  <2> QED
    BY <1>1, <1>3, <2>1
<1> QED
  BY <1>2, <1>3

LessThan == {p \in Nat \X Nat : p[1] < p[2]}

\* The least of some natural numbers.
LEMMA LeastOfSome ==
  ASSUME NEW S \in SUBSET Nat, S # {}
  PROVE  /\ Min(S) \in S
         /\ \A j \in S : Min(S) <= j
         /\ \A k \in S : (\A j \in S : k <= j) => Min(S) = k
<1>1. PICK k \in S : \A j \in S : <<j, k>> \notin LessThan
  <2>1. IsWellFoundedOn(LessThan, Nat)
    BY NatLessThanWellFounded DEF OpToRel, LessThan
  <2> QED
    BY <2>1, WFMin
<1>2. ASSUME NEW j \in S PROVE k <= j
  <2>1. j \in Nat /\ k \in Nat
    OBVIOUS
  <2>2. j < k => <<j, k>> \in LessThan
    BY <2>1 DEF LessThan
  <2> QED
    BY <1>1, <2>1, <2>2
<1>3. Min(S) = CHOOSE x \in S : \A y \in S : x <= y
  BY DEF Min
<1>4. Min(S) \in S /\ \A j \in S : Min(S) <= j
  BY <1>2, <1>3
<1>5. ASSUME NEW i \in S, \A j \in S : i <= j PROVE Min(S) = i
  <2>1. i \in Nat /\ Min(S) \in Nat /\ i <= Min(S) /\ Min(S) <= i
    BY <1>4, <1>5
  <2> QED
    BY <2>1
<1> QED
  BY <1>4, <1>5

\* Every rarity has its place in an order.
LEMMA OrderFacts ==
  ASSUME FoundInv, NEW order \in Orders
  PROVE  /\ Cardinality(Rarities) \in Nat
         /\ DOMAIN order = 1..Cardinality(Rarities)
         /\ \A i \in DOMAIN order : order[i] \in Rarities
         /\ \A i, j \in DOMAIN order : order[i] = order[j] => i = j
         /\ \A r \in Rarities : \E i \in DOMAIN order : order[i] = r
<1> DEFINE n == Cardinality(Rarities)
<1>1. IsFiniteSet(Rarities) /\ n \in Nat
  BY RaritiesFinite, FS_CardinalityType
<1>2. /\ order \in [1..n -> Rarities]
      /\ \A i, j \in 1..n : i # j => order[i] # order[j]
  BY DEF Orders, SetToSeqs
<1>3. order \in Injection(1..n, Rarities)
  BY <1>2 DEF Injection, IsInjective
<1>4. Cardinality(1..n) = n
  BY <1>1, FS_Interval
<1> HIDE DEF n
<1>5. order \in Surjection(1..n, Rarities)
  BY <1>1, <1>3, <1>4, FS_Injection DEF n
<1> QED
  BY <1>1, <1>2, <1>5 DEF Surjection, n

\* The weights up to a place in the order: nothing before the first, the rarity's own at
\* each, and all of them at most.
LEMMA WeightsAddUp ==
  ASSUME FoundInv, NEW order \in Orders
  PROVE  /\ CurrentWeight(order, 0) = 0
         /\ TotalWeight \in Nat
         /\ \A n \in DOMAIN order :
              /\ CurrentWeight(order, n) \in Nat
              /\ CurrentWeight(order, n - 1) \in Nat
              /\ CurrentWeight(order, n) <= TotalWeight
              /\ CurrentWeight(order, n) = CurrentWeight(order, n - 1)
                   + IF order[n] \in DOMAIN BaseWeight THEN BaseWeight[order[n]] ELSE 0
              /\ \A i \in DOMAIN order :
                   i <= n => CurrentWeight(order, i) <= CurrentWeight(order, n)
<1> DEFINE upTo(n) == {order[i] : i \in 1..n}
           all == Cardinality(Rarities)
<1>1. /\ all \in Nat /\ DOMAIN order = 1..all
      /\ \A i \in DOMAIN order : order[i] \in Rarities
      /\ \A i, j \in DOMAIN order : order[i] = order[j] => i = j
      /\ IsFiniteSet(Rarities)
  BY OrderFacts, RaritiesFinite
<1> HIDE DEF all
<1>2. ASSUME NEW n \in 0..all
      PROVE  /\ IsFiniteSet(upTo(n)) /\ upTo(n) \subseteq Rarities
             /\ CurrentWeight(order, n) = Cardinality(LotsOf(upTo(n)))
             /\ CurrentWeight(order, n) \in Nat
             /\ CurrentWeight(order, n) <= TotalWeight
  <2>1. 1..n \subseteq DOMAIN order
    BY <1>1
  <2>2. upTo(n) \subseteq Rarities
    BY <1>1, <2>1
  <2>3. CurrentWeight(order, n) = Cardinality(LotsOf(upTo(n)))
    BY DEF CurrentWeight
  <2> HIDE DEF upTo
  <2>4. IsFiniteSet(upTo(n))
    BY <1>1, <2>2, FS_Subset
  <2> QED
    BY <1>1, <2>2, <2>3, <2>4, LotsFinite, LotsGrow DEF TotalWeight
<1>3. TotalWeight \in Nat
  BY <1>1, LotsFinite DEF TotalWeight
<1>4. CurrentWeight(order, 0) = 0
  <2>1. upTo(0) = {}
    OBVIOUS
  <2>2. LotsOf({}) = {}
    BY DEF LotsOf
  <2>3. 0 \in 0..all
    BY <1>1
  <2>4. Cardinality(LotsOf(upTo(0))) = 0
    BY <2>1, <2>2, FS_EmptySet
  <2> HIDE DEF upTo
  <2> QED
    BY <1>2, <2>3, <2>4
<1>5. ASSUME NEW n \in DOMAIN order, NEW i \in DOMAIN order, i <= n
      PROVE  CurrentWeight(order, i) <= CurrentWeight(order, n)
  <2>1. i \in 0..all /\ n \in 0..all /\ 1..i \subseteq 1..n
    BY <1>1, <1>5
  <2>2. upTo(i) \subseteq upTo(n)
    BY <2>1
  <2> HIDE DEF upTo
  <2> QED
    BY <1>2, <2>1, <2>2, LotsGrow
<1>6. ASSUME NEW n \in DOMAIN order
      PROVE  CurrentWeight(order, n) = CurrentWeight(order, n - 1)
               + IF order[n] \in DOMAIN BaseWeight THEN BaseWeight[order[n]] ELSE 0
  <2>1. n \in 0..all /\ n - 1 \in 0..all /\ 1..n = (1..(n - 1)) \cup {n} /\ 1..n \subseteq DOMAIN order
    BY <1>1
  <2>2. upTo(n) = upTo(n - 1) \cup {order[n]}
    BY <2>1
  <2>3. order[n] \notin upTo(n - 1)
    <3> SUFFICES ASSUME NEW i \in 1..(n - 1), order[i] = order[n] PROVE FALSE
      OBVIOUS
    <3>1. i \in DOMAIN order /\ i # n
      BY <2>1
    <3> QED
      BY <1>1, <3>1
  <2> HIDE DEF upTo
  <2> QED
    BY <1>2, <2>1, <2>2, <2>3, LotsAdd
<1>7. \A n \in DOMAIN order : n \in 0..all /\ n - 1 \in 0..all
  BY <1>1
<1> QED
  BY <1>2, <1>3, <1>4, <1>5, <1>6, <1>7

\* A rarity wins the rolls from the weight before it to the weight up to it.
LEMMA RollsWon ==
  ASSUME FoundInv, NEW order \in Orders, NEW n \in DOMAIN order,
         order[n] \in DOMAIN BaseWeight, NEW roll \in Rolls
  PROVE  LET reached == Reached(order, roll) IN
         reached # {} /\ order[Min(reached)] = order[n] <=>
           CurrentWeight(order, n - 1) <= roll /\ roll < CurrentWeight(order, n)
<1> DEFINE reached == Reached(order, roll)
           W(i) == CurrentWeight(order, i)
<1>1. /\ W(0) = 0
      /\ \A i \in DOMAIN order :
           /\ W(i) \in Nat /\ W(i - 1) \in Nat
           /\ W(i) = W(i - 1) + IF order[i] \in DOMAIN BaseWeight THEN BaseWeight[order[i]] ELSE 0
           /\ \A j \in DOMAIN order : j <= i => W(j) <= W(i)
  BY WeightsAddUp
<1>2. /\ \A i \in DOMAIN order : i \in Nat /\ 1 <= i /\ (1 < i => i - 1 \in DOMAIN order)
      /\ \A i, j \in DOMAIN order : order[i] = order[j] => i = j
  BY OrderFacts
<1>3. roll \in Nat
  BY WeightsAddUp DEF Rolls
<1>4. reached = {i \in DOMAIN order : order[i] \in DOMAIN BaseWeight /\ roll < W(i)}
  BY DEF Reached
<1> HIDE DEF reached, W
<1>5. reached \in SUBSET Nat
  BY <1>2, <1>4
<1>6. ASSUME reached # {}, order[Min(reached)] = order[n]
      PROVE  W(n - 1) <= roll /\ roll < W(n)
  <2>1. Min(reached) \in reached /\ \A j \in reached : Min(reached) <= j
    BY <1>5, <1>6, LeastOfSome
  <2>2. n \in reached /\ \A j \in reached : n <= j
    BY <1>2, <1>4, <1>6, <2>1
  <2>3. ASSUME roll < W(n - 1) PROVE FALSE
    \* The first place whose weight the roll is below has a weight of its own.
    <3> DEFINE below == {i \in DOMAIN order : roll < W(i)}
               k == Min(below)
    <3>1. 1 < n /\ n - 1 \in below
      <4>1. n # 1
        BY <1>1, <1>3, <2>3
      <4> QED
        BY <1>2, <2>3, <4>1
    <3>2. k \in below /\ \A j \in below : k <= j
      BY <1>2, <3>1, LeastOfSome
    <3> HIDE DEF k
    <3>3. k \in DOMAIN order /\ roll < W(k) /\ k <= n - 1
      BY <3>1, <3>2
    <3>4. W(k - 1) <= roll
      <4>1. CASE k = 1
        BY <1>1, <1>3, <4>1
      <4>2. CASE 1 < k
        <5>1. k - 1 \in DOMAIN order /\ ~ (k <= k - 1)
          BY <1>2, <3>3, <4>2
        <5>2. ~ (roll < W(k - 1))
          BY <3>2, <5>1
        <5> QED
          BY <1>1, <1>3, <3>3, <5>2
      <4> QED
        BY <1>2, <3>3, <4>1, <4>2
    <3>5. order[k] \in DOMAIN BaseWeight
      BY <1>1, <1>3, <3>3, <3>4
    <3>6. k \in reached
      BY <1>4, <3>3, <3>5
    <3>7. n <= k
      BY <2>2, <3>6
    <3> QED
      BY <1>2, <3>3, <3>7
  <2> QED
    BY <1>1, <1>3, <1>4, <2>2, <2>3
<1>7. ASSUME W(n - 1) <= roll, roll < W(n)
      PROVE  reached # {} /\ order[Min(reached)] = order[n]
  <2>1. n \in reached
    BY <1>4, <1>7
  <2>2. ASSUME NEW j \in reached, j < n PROVE FALSE
    <3>1. j \in DOMAIN order /\ roll < W(j) /\ j <= n - 1 /\ n - 1 \in DOMAIN order
      BY <1>2, <1>4, <2>2
    <3>2. W(j) <= W(n - 1)
      BY <1>1, <3>1
    <3> QED
      BY <1>1, <1>3, <1>7, <3>1, <3>2
  <2>3. \A j \in reached : n <= j
    BY <1>2, <1>4, <2>2
  <2>4. Min(reached) = n
    BY <1>5, <2>1, <2>3, LeastOfSome
  <2> QED
    BY <2>1, <2>4
<1> QED
  BY <1>6, <1>7 DEF reached, W

LEMMA WeightKept ==
  ASSUME FoundInv PROVE RarityKeepsItsWeight
<1> SUFFICES ASSUME NEW order \in Orders, NEW rarity \in Weighted
             PROVE  Cardinality({roll \in Rolls :
                      LET reached == Reached(order, roll)
                      IN reached # {} /\ order[Min(reached)] = rarity}) = BaseWeight[rarity]
  BY DEF RarityKeepsItsWeight
<1> DEFINE won == {roll \in Rolls :
                     LET reached == Reached(order, roll)
                     IN reached # {} /\ order[Min(reached)] = rarity}
<1>1. PICK n \in DOMAIN order : order[n] = rarity
  BY OrderFacts DEF Weighted
<1>2. rarity \in DOMAIN BaseWeight /\ BaseWeight[rarity] \in Nat \ {0}
  BY SelectionAssumption DEF Weighted
<1> DEFINE before == CurrentWeight(order, n - 1)
           upTo == CurrentWeight(order, n)
<1>3. /\ before \in Nat /\ upTo = before + BaseWeight[rarity]
      /\ upTo <= TotalWeight /\ TotalWeight \in Nat
  BY <1>1, <1>2, WeightsAddUp
<1>4. \A roll \in Rolls : roll \in won <=> before <= roll /\ roll < upTo
  BY <1>1, <1>2, RollsWon
<1>5. won \subseteq Rolls
  OBVIOUS
<1> HIDE DEF won, before, upTo
<1>6. won = before..(upTo - 1)
  <2>1. \A roll : roll \in Rolls <=> roll \in Nat /\ roll <= TotalWeight
    BY <1>3 DEF Rolls
  <2>2. ASSUME NEW roll \in won PROVE roll \in before..(upTo - 1)
    BY <1>2, <1>3, <1>4, <1>5, <2>1
  <2>3. ASSUME NEW roll \in before..(upTo - 1) PROVE roll \in won
    <3>1. roll \in Nat /\ before <= roll /\ roll < upTo
      BY <1>2, <1>3
    <3>2. roll \in Rolls
      BY <1>2, <1>3, <2>1, <3>1
    <3> QED
      BY <1>4, <3>1, <3>2
  <2> QED
    BY <2>2, <2>3
<1>7. Cardinality(before..(upTo - 1)) = BaseWeight[rarity]
  <2>1. before \in Int /\ upTo - 1 \in Int /\ ~ (before > upTo - 1)
        /\ (upTo - 1) - before + 1 = BaseWeight[rarity]
    BY <1>2, <1>3
  <2> QED
    BY <2>1, FS_Interval
<1> QED
  BY <1>6, <1>7 DEF won

\* Whatever the weights, the files and the order of the hash map, each rarity in a crate
\* wins as many of the rolls as its weight: no order gives one the place of another.
THEOREM WeightsDecide == SelectionSpec => []RarityKeepsItsWeight
<1>1. SelectionInit => LInv /\ FoundInv
  <2>1. Init => found = <<>>
    BY DEF Init
  <2> QED
    BY <2>1, InitLInv, EmptySeq DEF SelectionInit, FoundInv
<1>2. LInv /\ FoundInv /\ [SelectionNext]_<<vars, selection>> => LInv' /\ FoundInv'
  <2> SUFFICES ASSUME LInv, FoundInv, [SelectionNext]_<<vars, selection>>
               PROVE  LInv' /\ FoundInv'
    OBVIOUS
  <2>1. [Next]_vars
    BY DEF SelectionNext, SelectItemFromCrate
  <2> QED
    BY <2>1, NextLInv, NextFoundInv
<1>3. LInv /\ FoundInv => RarityKeepsItsWeight
  BY WeightKept
<1> QED
  BY <1>1, <1>2, <1>3, PTL DEF SelectionSpec
=============================================================================
