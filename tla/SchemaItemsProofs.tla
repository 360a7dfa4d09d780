-------------------------- MODULE SchemaItemsProofs --------------------------
(***************************************************************************)
(* The items and the entries of loot lists, for any file.                  *)
(*                                                                         *)
(* While ParseItemRecursive returns, each field of the item has the        *)
(* nearest word of the prefabs whose calls have returned (CallsInv); once  *)
(* the item's own call has, it has the nearest of all (ItemsInv).  Of each *)
(* later section what has been gone through is in the maps (KitsInv), so   *)
(* an entry of a loot list finds what the whole file says (ListsInv).      *)
(***************************************************************************)
EXTENDS SchemaItems, SequenceTheorems, WellFoundedInduction, TLAPS

Elements == Range(file.items) \cup Range(file.prefabs)

\* How many keys of a section have been gone through.
Through(i) == IF i < section THEN Len(file[Sections[i]]) ELSE IF i = section THEN at ELSE 0

TypeInv ==
  /\ file \in Files
  /\ section \in 1..7
  /\ at \in Nat
  /\ section < 7 => at <= Len(file[Sections[section]])
  /\ stack \in Seq(Elements)
  /\ returning \in BOOLEAN
  /\ stack # <<>> => section = 1 /\ at < Len(file["items"])

LEMMA SectionFacts ==
  /\ Len(Sections) = 6
  /\ Sections[1] = "items" /\ Sections[2] = "stickerKits" /\ Sections[3] = "paintKits"
  /\ Sections[4] = "paintKitRarities" /\ Sections[5] = "musicKits" /\ Sections[6] = "lists"
BY DEF Sections

LEMMA KeysOfSection ==
  ASSUME file \in Files, NEW i \in 1..6
  PROVE  /\ Len(file[Sections[i]]) \in Nat
         /\ DOMAIN file[Sections[i]] = 1..Len(file[Sections[i]])
<1>1. Sections[i] \in {"items", "stickerKits", "paintKits", "paintKitRarities",
                       "musicKits", "lists"}
  BY SectionFacts
<1>2. file[Sections[i]] \in Seq(Range(file[Sections[i]]))
  BY <1>1, SchemaAssumption
<1> QED
  BY <1>2, LenProperties

\* In a section, and at which key.
LEMMA InFacts ==
  ASSUME TypeInv, NEW i \in 1..6, In(Sections[i])
  PROVE  /\ section = i /\ stack = <<>> /\ at \in Nat
         /\ at < Len(file[Sections[i]])
         /\ Key = file[Sections[i]][at + 1]
         /\ at + 1 \in DOMAIN file[Sections[i]]
<1>1. section \in 1..6 /\ Sections[section] = Sections[i] /\ stack = <<>>
      /\ at < Len(file[Sections[i]])
  <2>1. section \in 1..7 /\ section # Len(Sections) + 1
    BY DEF In, Done, TypeInv
  <2> QED
    BY <2>1, SectionFacts DEF In
<1>2. section = i
  BY <1>1, SectionFacts
<1> QED
  BY SMTT(30), <1>1, <1>2, KeysOfSection DEF TypeInv, Key

\* What has been gone through after a key, and after a section.
LEMMA AdvanceThrough ==
  ASSUME TypeInv, NEW i \in 1..6, section = i, section' = section, file' = file, at' = at + 1
  PROVE  /\ Through(i)' = Through(i) + 1
         /\ \A j \in 1..6 : j # i => Through(j)' = Through(j)
         /\ \A j \in 1..6 : j > i => Through(j) = 0
         /\ Through(i) = at
BY DEF TypeInv, Through

LEMMA SameThrough ==
  ASSUME UNCHANGED <<file, section, at>>, NEW i \in 1..6
  PROVE  Through(i)' = Through(i)
BY DEF Through

LEMMA SectionThrough ==
  ASSUME TypeInv, NextSection, NEW i \in 1..6
  PROVE  Through(i)' = Through(i)
<1>1. section \in 1..6 /\ section' = section + 1 /\ at' = 0 /\ file' = file
      /\ at = Len(file[Sections[section]])
  BY SectionFacts DEF NextSection, TypeInv, Done
<1> QED
  BY <1>1 DEF Through

LEMMA ThroughType == ASSUME TypeInv, NEW i \in 1..6 PROVE Through(i) \in Nat
BY KeysOfSection DEF Through, TypeInv

LEMMA EmplacedFacts ==
  ASSUME NEW f, NEW key, NEW value
  PROVE  /\ DOMAIN Emplaced(f, key, value) = DOMAIN f \cup {key}
         /\ \A k \in DOMAIN f : Emplaced(f, key, value)[k] = f[k]
         /\ key \notin DOMAIN f => Emplaced(f, key, value)[key] = value
BY DEF Emplaced

-----------------------------------------------------------------------------
(* Types.                                                                  *)

LEMMA FrontFacts ==
  ASSUME NEW S, NEW s \in Seq(S), s # <<>>
  PROVE  /\ Len(s) \in Nat \ {0} /\ Last(s) = s[Len(s)] /\ Last(s) \in S
         /\ Front(s) \in Seq(S) /\ Len(Front(s)) = Len(s) - 1
         /\ \A k \in 1..(Len(s) - 1) : Front(s)[k] = s[k]
         /\ Front(s) = <<>> <=> Len(s) = 1
<1>1. Len(s) \in Nat \ {0} /\ Last(s) = s[Len(s)] /\ Last(s) \in S
  <2>1. Len(s) \in Nat /\ Len(s) # 0
    BY EmptySeq
  <2>2. s[Len(s)] \in S
    BY <2>1, ElementOfSeq
  <2> QED
    BY <2>1, <2>2 DEF Last
<1>2. Front(s) = SubSeq(s, 1, Len(s) - 1)
  BY DEF Front
<1>3. /\ Front(s) \in Seq(S) /\ Len(Front(s)) = Len(s) - 1
      /\ \A k \in 1..(Len(s) - 1) : Front(s)[k] = s[k]
  <2> DEFINE n == Len(s) - 1
  <2>1. n \in Nat /\ \A i \in 1..n : s[i] \in S
    BY <1>1, ElementOfSeq
  <2> HIDE DEF n
  <2>2. /\ SubSeq(s, 1, n) \in Seq(S)
        /\ Len(SubSeq(s, 1, n)) = IF 1 <= n THEN n - 1 + 1 ELSE 0
        /\ \A i \in 1..(n - 1 + 1) : SubSeq(s, 1, n)[i] = s[1 + i - 1]
    BY <2>1, SubSeqProperties
  <2>3. n - 1 + 1 = n /\ \A i \in 1..n : 1 + i - 1 = i
    BY <2>1
  <2> QED
    BY <1>2, <2>1, <2>2, <2>3 DEF n
<1>4. Front(s) = <<>> <=> Len(s) = 1
  BY <1>1, <1>3, EmptySeq
<1> QED
  BY <1>1, <1>3, <1>4

LEMMA InitTypeInv == Init => TypeInv
<1> SUFFICES ASSUME Init PROVE TypeInv
  OBVIOUS
<1>1. Len(file[Sections[1]]) \in Nat
  BY KeysOfSection DEF Init
<1>2. stack \in Seq(Elements) /\ file \in Files /\ stack = <<>>
  BY DEF Init
<1>3. returning \in BOOLEAN
  BY Zenon DEF Init
<1>4. section \in 1..7 /\ at \in Nat /\ (section < 7 => at <= Len(file[Sections[section]]))
  BY <1>1 DEF Init
<1> QED
  BY <1>2, <1>3, <1>4, Zenon DEF TypeInv

\* A key that is no item with a definition is gone through in one step.
LEMMA KeyTypeInv ==
  ASSUME TypeInv, NEW i \in 1..6, In(Sections[i]), Advance
  PROVE  TypeInv'
<1>1. section = i /\ stack = <<>> /\ at \in Nat /\ at < Len(file[Sections[i]])
  BY InFacts
<1>2. Len(file[Sections[i]]) \in Nat
  BY KeysOfSection DEF TypeInv
<1> QED
  BY <1>1, <1>2 DEF TypeInv, Advance, Elements

LEMMA NextTypeInv == TypeInv /\ [Next]_vars => TypeInv'
<1> SUFFICES ASSUME TypeInv, [Next]_vars PROVE TypeInv'
  OBVIOUS
<1>1. CASE ParseItem
  <2>1. CASE Advance
    BY <1>1, <2>1, SectionFacts, KeyTypeInv DEF ParseItem
  <2>2. CASE stack' = <<Key>> /\ returning' = FALSE /\ UNCHANGED <<file, section, at>>
    <3>1. section = 1 /\ at < Len(file["items"]) /\ Key \in Range(file.items)
      BY <1>1, SectionFacts, InFacts DEF ParseItem, Range
    <3>2. Key \in Elements /\ Elements' = Elements
      BY <2>2, <3>1 DEF Elements
    <3>3. stack' \in Seq(Elements)
      BY <2>2, <3>2
    <3> QED
      BY <2>2, <3>1, <3>2, <3>3 DEF TypeInv
  <2> QED
    BY <1>1, <2>1, <2>2 DEF ParseItem
<1>2. CASE ParsePrefab
  <2>1. PrefabOf(Last(stack)) \in Elements
    BY <1>2 DEF ParsePrefab, HasPrefab, PrefabOf, Elements, Range
  <2> QED
    BY <1>2, <2>1, AppendProperties DEF TypeInv, ParsePrefab, Elements
<1>3. CASE ParseFields
  <2>1. Front(stack) \in Seq(Elements) /\ section = 1 /\ at < Len(file["items"])
    BY <1>3, FrontFacts DEF ParseFields, TypeInv
  <2>2. Len(file["items"]) \in Nat /\ at \in Nat
    BY SectionFacts, KeysOfSection DEF TypeInv
  <2> QED
    BY <1>3, <2>1, <2>2, SectionFacts DEF TypeInv, ParseFields, Elements
<1>4. CASE NextSection
  <2>1. section \in 1..6 /\ section' = section + 1 /\ at' = 0 /\ file' = file /\ stack = <<>>
        /\ stack' = stack /\ returning' = returning
    BY <1>4, SectionFacts DEF NextSection, TypeInv, Done
  <2>2. section' < 7 => Len(file[Sections[section']]) \in Nat
    BY <2>1, KeysOfSection DEF TypeInv
  <2> QED
    BY <2>1, <2>2 DEF TypeInv, Elements
<1>5. CASE ParseStickerKit \/ ParsePaintKit \/ ParsePaintKitRarity \/ ParseMusicDefinition
           \/ ParseLootListItem
  BY <1>5, SectionFacts, KeyTypeInv
     DEF ParseStickerKit, ParsePaintKit, ParsePaintKitRarity, ParseMusicDefinition,
         ParseLootListItem
<1>6. CASE UNCHANGED vars
  BY <1>6 DEF vars, TypeInv, Elements
<1> QED
  BY <1>1, <1>2, <1>3, <1>4, <1>5, <1>6 DEF Next

-----------------------------------------------------------------------------
(* Chains of prefabs.                                                      *)

\* A chain of no more than n elements leads from e to one that says v.
HasWord(e, field, v, n) ==
  \E m \in 1..n : \E c \in [1..m -> {e} \cup Range(file.prefabs)] :
    Leads(c, e, field) /\ v = Word(c[m], field)

LEMMA ChainLength ==
  ASSUME NEW S, NEW m \in Nat, NEW c \in [1..m -> S]
  PROVE  Len(c) = m
<1>1. c \in Seq(S) /\ DOMAIN c = 1..m
  BY SeqDef
<1> QED
  BY <1>1, LenProperties

LEMMA OwnWord ==
  ASSUME NEW e, NEW field, NEW n \in Nat, n > 0,
         field \in DOMAIN e.says \/ ~ HasPrefab(e)
  PROVE  HasWord(e, field, Word(e, field), n)
<1> DEFINE c == [k \in 1..1 |-> e]
<1>1. c \in [1..1 -> {e} \cup Range(file.prefabs)] /\ 1 \in 1..n /\ c[1] = e
  OBVIOUS
<1>2. Len(c) = 1
  BY <1>1, ChainLength
<1> HIDE DEF c
<1>3. Leads(c, e, field)
  BY <1>1, <1>2 DEF Leads
<1> QED
  BY <1>1, <1>3 DEF HasWord

LEMMA PrefabsWord ==
  ASSUME NEW e, NEW field, NEW v, NEW n \in Nat,
         HasPrefab(e), field \notin DOMAIN e.says, HasWord(PrefabOf(e), field, v, n)
  PROVE  HasWord(e, field, v, n + 1)
<1>0. PICK m \in 1..n : \E c \in [1..m -> {PrefabOf(e)} \cup Range(file.prefabs)] :
        Leads(c, PrefabOf(e), field) /\ v = Word(c[m], field)
  BY DEF HasWord
<1>1. PICK c \in [1..m -> {PrefabOf(e)} \cup Range(file.prefabs)] :
        Leads(c, PrefabOf(e), field) /\ v = Word(c[m], field)
  BY <1>0
<1> DEFINE S == {e} \cup Range(file.prefabs)
           d == [k \in 1..(m + 1) |-> IF k = 1 THEN e ELSE c[k - 1]]
<1>2. PrefabOf(e) \in Range(file.prefabs)
  BY DEF HasPrefab, PrefabOf, Range
<1>3. m \in Nat /\ m > 0 /\ m + 1 \in 1..(n + 1) /\ m + 1 \in Nat
  BY <1>1
<1>4. d \in [1..(m + 1) -> S]
  <2>1. \A k \in 1..(m + 1) : k # 1 => k - 1 \in 1..m
    BY <1>3
  <2> QED
    BY <1>1, <1>2, <2>1
<1>5. Len(c) = m /\ Len(d) = m + 1
  BY <1>1, <1>3, <1>4, ChainLength
<1>6. d[1] = e /\ \A k \in 1..m : d[k + 1] = c[k]
  BY <1>3
<1>7. d \in [1..(m + 1) -> {e} \cup Range(file.prefabs)]
  BY <1>4
<1> HIDE DEF d
<1>8. Leads(d, e, field)
  <2>1. ASSUME NEW k \in 1..m
        PROVE  field \notin DOMAIN d[k].says /\ HasPrefab(d[k]) /\ d[k + 1] = PrefabOf(d[k])
    <3>1. CASE k = 1
      BY <1>1, <1>3, <1>6, <3>1 DEF Leads
    <3>2. CASE k # 1
      <4>1. k - 1 \in 1..(m - 1) /\ k - 1 \in 1..m /\ (k - 1) + 1 = k
        BY <1>3, <3>2
      <4>2. d[k] = c[k - 1] /\ d[k + 1] = c[k]
        BY <1>6, <4>1
      <4>3. /\ field \notin DOMAIN c[k - 1].says /\ HasPrefab(c[k - 1])
            /\ c[(k - 1) + 1] = PrefabOf(c[k - 1])
        BY <1>1, <1>5, <4>1 DEF Leads
      <4> QED
        BY <4>1, <4>2, <4>3
    <3> QED
      BY <3>1, <3>2
  <2>2. d[m + 1] = c[m] /\ (m + 1) - 1 = m
    BY <1>3, <1>6
  <2> QED
    BY <1>1, <1>5, <1>6, <2>1, <2>2 DEF Leads
<1>9. v = Word(d[m + 1], field)
  BY <1>1, <1>3, <1>6
<1> QED
  BY <1>3, <1>7, <1>8, <1>9 DEF HasWord

LessThan == {p \in Nat \X Nat : p[1] < p[2]}

\* Of some natural numbers there is a least.
LEMMA LeastOfSome ==
  ASSUME NEW S \in SUBSET Nat, S # {}
  PROVE  \E k \in S : \A j \in S : k <= j
<1>1. PICK k \in S : \A j \in S : <<j, k>> \notin LessThan
  <2>1. IsWellFoundedOn(LessThan, Nat)
    BY NatLessThanWellFounded DEF OpToRel, LessThan
  <2> QED
    BY <2>1, WFMin
<1>2. ASSUME NEW j \in S PROVE k <= j
  <2>1. j \in Nat /\ k \in Nat
    OBVIOUS
  <2>2. j < k => <<j, k>> \in LessThan
    BY <2>1 DEF LessThan
  <2> QED
    BY <1>1, <2>1, <2>2
<1> QED
  BY <1>2

\* There is one chain only.
LEMMA OneWord ==
  ASSUME NEW e, NEW field, NEW v, NEW w,
         HasWord(e, field, v, MaxDepth), HasWord(e, field, w, MaxDepth)
  PROVE  v = w
<1>1. PICK m \in 1..MaxDepth : \E c \in [1..m -> {e} \cup Range(file.prefabs)] :
        Leads(c, e, field) /\ v = Word(c[m], field)
  BY DEF HasWord
<1>2. PICK c \in [1..m -> {e} \cup Range(file.prefabs)] :
        Leads(c, e, field) /\ v = Word(c[m], field)
  BY <1>1
<1>3. PICK n \in 1..MaxDepth : \E d \in [1..n -> {e} \cup Range(file.prefabs)] :
        Leads(d, e, field) /\ w = Word(d[n], field)
  BY DEF HasWord
<1>4. PICK d \in [1..n -> {e} \cup Range(file.prefabs)] :
        Leads(d, e, field) /\ w = Word(d[n], field)
  BY <1>3
<1>5. m \in Nat \ {0} /\ n \in Nat \ {0}
  BY SchemaAssumption
<1>6. Len(c) = m /\ Len(d) = n
  BY <1>5, ChainLength
<1>7. ASSUME NEW k \in 1..m, k <= n PROVE c[k] = d[k]
  <2> DEFINE D == {i \in 1..m : i <= n /\ c[i] # d[i]}
  <2> SUFFICES ASSUME D # {} PROVE FALSE
    BY <1>7
  <2>1. D \in SUBSET Nat
    OBVIOUS
  <2> HIDE DEF D
  <2>2. PICK i \in D : \A j \in D : i <= j
    BY <2>1, LeastOfSome
  <2> USE DEF D
  <2>3. i \in 1..m /\ i \in 1..n /\ c[i] # d[i] /\ c[1] = d[1]
    BY <1>2, <1>4, <1>5, <2>2 DEF Leads
  <2>4. i - 1 \in 1..(m - 1) /\ i - 1 \in 1..(n - 1) /\ i - 1 \notin D /\ i - 1 <= n
        /\ i - 1 \in 1..m /\ (i - 1) + 1 = i
    BY <1>5, <2>2, <2>3
  <2>5. c[i - 1] = d[i - 1]
    BY <2>4
  <2>6. c[(i - 1) + 1] = PrefabOf(c[i - 1]) /\ d[(i - 1) + 1] = PrefabOf(d[i - 1])
    BY <1>2, <1>4, <1>6, <2>4 DEF Leads
  <2> QED
    BY <2>3, <2>4, <2>5, <2>6
<1>8. /\ field \in DOMAIN c[m].says \/ ~ HasPrefab(c[m])
      /\ field \in DOMAIN d[n].says \/ ~ HasPrefab(d[n])
  BY <1>2, <1>4, <1>6 DEF Leads
<1>9. ~ (m > n)
  <2> SUFFICES ASSUME m > n PROVE FALSE
    OBVIOUS
  <2>1. n \in 1..(m - 1) /\ n \in 1..m /\ c[n] = d[n]
    BY <1>5, <1>7
  <2>2. field \notin DOMAIN c[n].says /\ HasPrefab(c[n])
    BY <1>2, <1>6, <2>1 DEF Leads
  <2> QED
    BY <1>8, <2>1, <2>2
<1>10. ~ (n > m)
  <2> SUFFICES ASSUME n > m PROVE FALSE
    OBVIOUS
  <2>1. m \in 1..(n - 1) /\ m \in 1..m /\ m <= n /\ c[m] = d[m]
    BY <1>5, <1>7
  <2>2. field \notin DOMAIN d[m].says /\ HasPrefab(d[m])
    BY <1>4, <1>6, <2>1 DEF Leads
  <2> QED
    BY <1>8, <2>1, <2>2
<1>11. m = n /\ m \in 1..m
  BY <1>5, <1>9, <1>10
<1> QED
  BY <1>2, <1>4, <1>7, <1>11

LEMMA NearestWord ==
  ASSUME NEW e, NEW field, NEW v, HasWord(e, field, v, MaxDepth)
  PROVE  Nearest(e, field) = v
<1>1. PICK m \in 1..MaxDepth : \E c \in [1..m -> {e} \cup Range(file.prefabs)] :
        Leads(c, e, field) /\ v = Word(c[m], field)
  BY DEF HasWord
<1>2. PICK d : d = CHOOSE x \in Chains(e) : Leads(x, e, field)
  OBVIOUS
<1>3. d \in Chains(e) /\ Leads(d, e, field)
  BY <1>1, <1>2 DEF Chains
<1>4. PICK n \in 1..MaxDepth : d \in [1..n -> {e} \cup Range(file.prefabs)]
  BY <1>3 DEF Chains
<1>5. Len(d) = n
  <2>1. n \in Nat
    BY SchemaAssumption
  <2> QED
    BY <1>4, <2>1, ChainLength
<1>6. Nearest(e, field) = Word(d[n], field)
  BY <1>2, <1>5 DEF Nearest
<1>7. HasWord(e, field, Nearest(e, field), MaxDepth)
  BY <1>3, <1>4, <1>6 DEF HasWord
<1> QED
  BY <1>7, OneWord

-----------------------------------------------------------------------------
(* The items.                                                              *)

\* All an element's prefabs have said is in info.
Returned(e, info, n) ==
  HasPrefab(e) /\ \A field \in Fields : HasWord(PrefabOf(e), field, info[field], n)

\* All an element and its prefabs say is in info.
Settled(e, info, n) == \A field \in Fields : HasWord(e, field, info[field], n)

\* Each call is for the prefab of the one before.
Calls(s) == \A k \in 1..(Len(s) - 1) : HasPrefab(s[k]) /\ s[k + 1] = PrefabOf(s[k])

LEMMA SameFile ==
  ASSUME file' = file, NEW e, NEW info, NEW n, NEW s
  PROVE  /\ Returned(e, info, n)' <=> Returned(e, info, n)
         /\ Settled(e, info, n)' <=> Settled(e, info, n)
         /\ Calls(s)' <=> Calls(s)
<1>1. \A x : HasPrefab(x)' <=> HasPrefab(x)
  BY DEF HasPrefab
<1>2. \A x : PrefabOf(x)' = PrefabOf(x)
  BY DEF PrefabOf
<1>3. \A x, field, v, m : HasWord(x, field, v, m)' <=> HasWord(x, field, v, m)
  <2> SUFFICES ASSUME NEW x, NEW field, NEW v, NEW m
               PROVE  HasWord(x, field, v, m)' <=> HasWord(x, field, v, m)
    OBVIOUS
  <2>1. \A c : Leads(c, x, field)' <=> Leads(c, x, field)
    BY DEF Leads, HasPrefab, PrefabOf
  <2>2. \A c : Word(c, field)' = Word(c, field)
    BY DEF Word, Said
  <2> QED
    BY <2>1, <2>2 DEF HasWord
<1>4. Returned(e, info, n)' <=> Returned(e, info, n)
  BY <1>1, <1>3 DEF Returned, PrefabOf
<1>5. Settled(e, info, n)' <=> Settled(e, info, n)
  BY <1>3 DEF Settled
<1>6. Calls(s)' <=> Calls(s)
  BY DEF Calls, HasPrefab, PrefabOf
<1> QED
  BY <1>4, <1>5, <1>6

\* What ParseFields makes of the info, after the prefabs' or first of all.
LEMMA FieldsWord ==
  ASSUME NEW e, NEW info, NEW n \in Nat, NEW m \in Nat, m = n + 1,
         \/ Returned(e, info, n)
         \/ ~ HasPrefab(e) /\ info = NewInfo
  PROVE  Settled(e, Overridden(info, e), m)
<1> SUFFICES ASSUME NEW field \in Fields
             PROVE  HasWord(e, field, Overridden(info, e)[field], m)
  BY DEF Settled
<1>1. Overridden(info, e)[field] = IF field \in DOMAIN e.says THEN Said(e, field) ELSE info[field]
  BY DEF Overridden
<1>2. CASE field \in DOMAIN e.says
  <2>1. Word(e, field) = Overridden(info, e)[field]
    BY <1>1, <1>2 DEF Word
  <2>2. HasWord(e, field, Word(e, field), m)
    BY <1>2, OwnWord
  <2> QED
    BY <2>1, <2>2
<1>3. CASE field \notin DOMAIN e.says /\ Returned(e, info, n)
  <2>1. HasWord(e, field, info[field], n + 1)
    BY <1>3, PrefabsWord DEF Returned
  <2> QED
    BY <1>1, <1>3, <2>1
<1>4. CASE field \notin DOMAIN e.says /\ ~ HasPrefab(e) /\ info = NewInfo
  <2>1. Word(e, field) = Overridden(info, e)[field]
    BY <1>1, <1>4 DEF Word
  <2>2. HasWord(e, field, Word(e, field), m)
    BY <1>4, OwnWord
  <2> QED
    BY <2>1, <2>2
<1> QED
  BY <1>2, <1>3, <1>4

Current == file["items"][at + 1]
Begun == IF stack = <<>> THEN Through(1) ELSE Through(1) + 1

\* The item being parsed: the calls lead from it to its prefabs, and what has returned
\* is in its info.
CallsInv ==
  stack # <<>> =>
    /\ Current.def # 0 /\ Current.def \in DOMAIN infos
    /\ stack[1] = Current
    /\ Len(stack) <= MaxDepth + 1
    /\ \A s : s = stack => Calls(s)
    /\ ~ returning => infos[Current.def] = NewInfo
    /\ returning =>
         /\ Len(stack) <= MaxDepth
         /\ \A e, info, n :
              e = stack[Len(stack)] /\ info = infos[Current.def] /\ n = MaxDepth - Len(stack)
                => Returned(e, info, n)

\* The items that have been parsed.
ItemsInv ==
  /\ DOMAIN infos = {file["items"][i].def : i \in 1..Begun} \ {0}
  /\ \A i \in 1..Through(1) : \A e, info :
       e = file["items"][i] /\ e.def # 0 /\ info = infos[e.def] => Settled(e, info, MaxDepth)

LEMMA ItemsFacts ==
  ASSUME TypeInv
  PROVE  /\ Len(file["items"]) \in Nat /\ DOMAIN file["items"] = 1..Len(file["items"])
         /\ Through(1) \in Nat /\ Through(1) <= Len(file["items"])
         /\ section = 1 => Through(1) = at
         /\ Sections[1] = "items"
BY KeysOfSection, SectionFacts DEF Through, TypeInv

\* Steps that leave the items alone.
LEMMA ItemsKept ==
  ASSUME CallsInv, ItemsInv, stack = <<>>, stack' = <<>>, infos' = infos, file' = file,
         Through(1)' = Through(1)
  PROVE  CallsInv' /\ ItemsInv'
<1>1. CallsInv'
  BY DEF CallsInv
<1>2. \A i \in 1..Through(1)' : \A e, info :
        e = file'["items"][i] /\ e.def # 0 /\ info = infos'[e.def]
          => Settled(e, info, MaxDepth)'
  BY SameFile DEF ItemsInv
<1>3. DOMAIN infos' = {file'["items"][i].def : i \in 1..Begun'} \ {0}
  BY DEF ItemsInv, Begun
<1> QED
  BY <1>1, <1>2, <1>3 DEF ItemsInv

LEMMA ParseItemInv ==
  ASSUME TypeInv, DefsDiffer, CallsInv, ItemsInv, ParseItem
  PROVE  CallsInv' /\ ItemsInv'
<1>1. section = 1 /\ stack = <<>> /\ at \in Nat /\ at < Len(file["items"])
      /\ Key = file["items"][at + 1] /\ at + 1 \in DOMAIN file["items"]
  BY InFacts, SectionFacts DEF ParseItem
<1>2. Through(1) = at /\ Begun = at
  BY <1>1, ItemsFacts DEF Begun
<1>3. CASE Key.def = 0
  <2>1. infos' = infos /\ stack' = <<>> /\ file' = file /\ at' = at + 1 /\ section' = section
    BY <1>1, <1>3 DEF ParseItem, Advance, parsed
  <2>2. Through(1)' = at + 1 /\ Begun' = at + 1
    BY <1>1, <1>2, <2>1, AdvanceThrough DEF Begun
  <2>3. CallsInv'
    BY <2>1 DEF CallsInv
  <2>4. DOMAIN infos' = {file'["items"][i].def : i \in 1..Begun'} \ {0}
    <3>1. \A i \in 1..(at + 1) : i \in 1..at \/ i = at + 1
      BY <1>1
    <3>2. 1..at \subseteq 1..(at + 1)
      BY <1>1
    <3> QED
      BY <1>1, <1>2, <1>3, <2>1, <2>2, <3>1, <3>2 DEF ItemsInv
  <2>5. ASSUME NEW i \in 1..Through(1)', NEW e, NEW info,
               e = file'["items"][i], e.def # 0, info = infos'[e.def]
        PROVE  Settled(e, info, MaxDepth)'
    <3>1. i \in 1..at
      BY <1>1, <1>3, <2>1, <2>2, <2>5
    <3> QED
      BY <1>2, <2>1, <2>5, <3>1, SameFile DEF ItemsInv
  <2> QED
    BY <2>3, <2>4, <2>5 DEF ItemsInv
<1>4. CASE Key.def # 0
  <2>1. infos' = Emplaced(infos, Key.def, NewInfo) /\ stack' = <<Key>> /\ returning' = FALSE
        /\ file' = file /\ at' = at /\ section' = section
    BY <1>4 DEF ParseItem
  <2>2. Through(1)' = at /\ Begun' = at + 1
    BY <1>2, <2>1, SameThrough DEF Begun
  <2>3. Key.def \notin DOMAIN infos
    <3>1. ASSUME NEW i \in 1..at PROVE file["items"][i].def # Key.def
      <4>1. i \in DOMAIN file.items /\ at + 1 \in DOMAIN file.items /\ i # at + 1
        BY <1>1, ItemsFacts
      <4> QED
        BY <1>1, <4>1 DEF DefsDiffer
    <3> QED
      BY <1>2, <3>1 DEF ItemsInv
  <2>4. /\ DOMAIN infos' = DOMAIN infos \cup {Key.def}
        /\ \A k \in DOMAIN infos : infos'[k] = infos[k]
        /\ infos'[Key.def] = NewInfo
    <3>1. \A k \in DOMAIN infos :
            Emplaced(infos, Key.def, NewInfo)[k] = infos[k]
      BY DEF Emplaced
    <3>2. /\ DOMAIN Emplaced(infos, Key.def, NewInfo) = DOMAIN infos \cup {Key.def}
          /\ Emplaced(infos, Key.def, NewInfo)[Key.def] = NewInfo
      BY <2>3, EmplacedFacts
    <3> QED
      BY <2>1, <3>1, <3>2
  <2>5. Current' = Key
    BY <1>1, <2>1 DEF Current
  <2>6. CallsInv'
    <3>1. Len(stack') = 1 /\ stack'[1] = Key
      BY <2>1
    <3>2. ASSUME NEW s, s = stack' PROVE Calls(s)'
      <4>1. Len(s) - 1 = 0
        BY <3>1, <3>2
      <4>2. Calls(s)
        BY <4>1 DEF Calls
      <4> QED
        BY <2>1, <4>2, SameFile
    <3>3. 1 <= MaxDepth + 1
      BY SchemaAssumption
    <3> QED
      BY <1>4, <2>1, <2>4, <2>5, <3>1, <3>2, <3>3 DEF CallsInv
  <2>7. DOMAIN infos' = {file'["items"][i].def : i \in 1..Begun'} \ {0}
    <3>1. \A i \in 1..(at + 1) : i \in 1..at \/ i = at + 1
      BY <1>1
    <3>2. 1..at \subseteq 1..(at + 1) /\ at + 1 \in 1..(at + 1)
      BY <1>1
    <3> QED
      BY <1>1, <1>2, <1>4, <2>1, <2>2, <2>4, <3>1, <3>2 DEF ItemsInv
  <2>8. ASSUME NEW i \in 1..Through(1)', NEW e, NEW info,
               e = file'["items"][i], e.def # 0, info = infos'[e.def]
        PROVE  Settled(e, info, MaxDepth)'
    <3>1. i \in 1..at /\ e = file["items"][i]
      BY <2>1, <2>2, <2>8
    <3>2. e.def \in DOMAIN infos
      BY <1>2, <2>8, <3>1 DEF ItemsInv
    <3>3. info = infos[e.def]
      BY <2>4, <2>8, <3>2
    <3> QED
      BY <1>2, <2>1, <2>8, <3>1, <3>3, SameFile DEF ItemsInv
  <2> QED
    BY <2>6, <2>7, <2>8 DEF ItemsInv
<1> QED
  BY <1>3, <1>4

\* The same items, in the middle of one.
LEMMA ParsePrefabInv ==
  ASSUME TypeInv, CallsInv, ItemsInv, ParsePrefab
  PROVE  CallsInv' /\ ItemsInv'
<1> DEFINE n == Len(stack)
           top == PrefabOf(stack[n])
<1>1. n \in Nat \ {0} /\ Last(stack) = stack[n] /\ n <= MaxDepth /\ ~ returning
      /\ HasPrefab(stack[n]) /\ stack # <<>>
  <2>1. stack \in Seq(Elements) /\ stack # <<>> /\ ~ Overflow /\ ~ returning
        /\ HasPrefab(Last(stack))
    BY DEF ParsePrefab, TypeInv
  <2>2. Len(stack) \in Nat \ {0} /\ Last(stack) = stack[Len(stack)]
    BY <2>1, FrontFacts
  <2> QED
    BY <2>1, <2>2, SchemaAssumption DEF Overflow
<1>2. stack' = Append(stack, top) /\ UNCHANGED <<file, section, at, returning, infos>>
  BY <1>1 DEF ParsePrefab, parsed
<1>3. /\ Len(stack') = n + 1 /\ stack' # <<>>
      /\ \A k \in 1..n : stack'[k] = stack[k]
      /\ stack'[n + 1] = top
  BY <1>1, <1>2 DEF TypeInv
<1>4. Through(1)' = Through(1) /\ Begun' = Begun /\ Current' = Current
  BY <1>1, <1>2, <1>3, SameThrough DEF Begun, Current
<1>5. ASSUME NEW s, s = stack' PROVE Calls(s)'
  <2>1. ASSUME NEW k \in 1..n PROVE HasPrefab(s[k]) /\ s[k + 1] = PrefabOf(s[k])
    <3>1. CASE k = n
      BY <1>1, <1>3, <1>5, <3>1
    <3>2. CASE k # n
      <4>1. k \in 1..(n - 1) /\ k + 1 \in 1..n
        BY <1>1, <3>2
      <4>2. HasPrefab(stack[k]) /\ stack[k + 1] = PrefabOf(stack[k])
        BY <1>1, <4>1 DEF CallsInv, Calls
      <4> QED
        BY <1>3, <1>5, <4>1, <4>2
    <3> QED
      BY <3>1, <3>2
  <2>2. Len(s) - 1 = n
    BY <1>1, <1>3, <1>5
  <2>3. Calls(s)
    BY <2>1, <2>2 DEF Calls
  <2> QED
    BY <1>2, <2>3, SameFile
<1> HIDE DEF n, top
<1>6. CallsInv'
  <2>1. stack'[1] = stack[1] /\ n + 1 <= MaxDepth + 1
    BY <1>1, <1>3, SchemaAssumption
  <2> QED
    BY <1>1, <1>2, <1>3, <1>4, <1>5, <2>1 DEF CallsInv
<1>7. DOMAIN infos' = {file'["items"][i].def : i \in 1..Begun'} \ {0}
  BY <1>2, <1>4 DEF ItemsInv
<1>8. \A i \in 1..Through(1)' : \A e, info :
        e = file'["items"][i] /\ e.def # 0 /\ info = infos'[e.def]
          => Settled(e, info, MaxDepth)'
  BY <1>2, <1>4, SameFile DEF ItemsInv
<1> QED
  BY <1>6, <1>7, <1>8 DEF ItemsInv

\* A call ends: its prefabs' words and then its own are in the info.
LEMMA ParseFieldsInv ==
  ASSUME TypeInv, DefsDiffer, CallsInv, ItemsInv, ParseFields
  PROVE  CallsInv' /\ ItemsInv'
<1> DEFINE n == Len(stack)
           e == stack[n]
           info == infos[Current.def]
<1>1. stack # <<>> /\ stack \in Seq(Elements) /\ section = 1 /\ at < Len(file["items"])
      /\ at \in Nat
  BY DEF ParseFields, TypeInv
<1>2. /\ n \in Nat \ {0} /\ Last(stack) = e
      /\ Front(stack) \in Seq(Elements) /\ Len(Front(stack)) = n - 1
      /\ \A k \in 1..(n - 1) : Front(stack)[k] = stack[k]
      /\ Front(stack) = <<>> <=> n = 1
  BY <1>1, FrontFacts
<1>3. n <= MaxDepth /\ MaxDepth \in Nat /\ (returning \/ ~ HasPrefab(e))
  BY <1>2, SchemaAssumption DEF ParseFields, Overflow
<1>4. Key = Current
  BY <1>1, SectionFacts DEF Key, Current
<1>5. /\ stack' = Front(stack) /\ returning' = (stack' # <<>>)
      /\ at' = (IF stack' = <<>> THEN at + 1 ELSE at)
      /\ infos' = [infos EXCEPT ![Current.def] = Overridden(@, e)]
      /\ UNCHANGED <<file, section>>
  BY <1>2, <1>4 DEF ParseFields
<1>6. /\ Current.def # 0 /\ Current.def \in DOMAIN infos /\ stack[1] = Current
      /\ \A k \in 1..(n - 1) : HasPrefab(stack[k]) /\ stack[k + 1] = PrefabOf(stack[k])
      /\ ~ returning => info = NewInfo
      /\ returning => Returned(e, info, MaxDepth - n)
  BY <1>1 DEF CallsInv, Calls
<1>7. /\ DOMAIN infos' = DOMAIN infos
      /\ infos'[Current.def] = Overridden(info, e)
      /\ \A k \in DOMAIN infos : k # Current.def => infos'[k] = infos[k]
  BY <1>5, <1>6
<1> HIDE DEF n, e, info
<1>8. Settled(e, Overridden(info, e), MaxDepth - n + 1)
  <2>1. MaxDepth - n \in Nat /\ MaxDepth - n + 1 \in Nat
    BY <1>2, <1>3
  <2>2. \/ Returned(e, info, MaxDepth - n)
        \/ ~ HasPrefab(e) /\ info = NewInfo
    BY <1>3, <1>6
  <2> QED
    BY <2>1, <2>2, FieldsWord
<1>9. Through(1) = at /\ Begun = at + 1
  BY <1>1, ItemsFacts DEF Begun
<1>10. \A i \in 1..at : file["items"][i].def # Current.def
  <2> SUFFICES ASSUME NEW i \in 1..at PROVE file["items"][i].def # Current.def
    OBVIOUS
  <2>1. i \in DOMAIN file.items /\ at + 1 \in DOMAIN file.items /\ i # at + 1
    BY <1>1, ItemsFacts
  <2> QED
    BY <2>1 DEF DefsDiffer, Current
<1>11. ASSUME NEW i \in 1..at, NEW x, NEW y,
              x = file'["items"][i], x.def # 0, y = infos'[x.def]
       PROVE  Settled(x, y, MaxDepth)'
  <2>1. x = file["items"][i] /\ x.def # Current.def
    BY <1>5, <1>10, <1>11
  <2>2. x.def \in DOMAIN infos
    <3>1. i \in 1..Begun
      BY <1>1, <1>9
    <3> QED
      BY <1>11, <2>1, <3>1 DEF ItemsInv
  <2>3. y = infos[x.def]
    BY <1>7, <1>11, <2>1, <2>2
  <2>4. Settled(x, y, MaxDepth)
    BY <1>9, <1>11, <2>1, <2>3 DEF ItemsInv
  <2> QED
    BY <1>5, <2>4, SameFile
<1>12. CASE n = 1
  <2>1. stack' = <<>> /\ at' = at + 1
    BY <1>2, <1>5, <1>12
  <2>2. Through(1)' = at + 1 /\ Begun' = at + 1
    BY <1>1, <1>5, <1>9, <2>1, AdvanceThrough DEF Begun
  <2>3. CallsInv'
    BY <2>1 DEF CallsInv
  <2>4. DOMAIN infos' = {file'["items"][i].def : i \in 1..Begun'} \ {0}
    BY <1>5, <1>7, <1>9, <2>2 DEF ItemsInv
  <2>5. ASSUME NEW i \in 1..Through(1)', NEW x, NEW y,
               x = file'["items"][i], x.def # 0, y = infos'[x.def]
        PROVE  Settled(x, y, MaxDepth)'
    <3>1. CASE i \in 1..at
      BY <1>11, <2>5, <3>1
    <3>2. CASE i = at + 1
      <4>1. x = e /\ y = Overridden(info, e) /\ MaxDepth - n + 1 = MaxDepth
        <5>1. x = Current
          BY <1>5, <2>5, <3>2 DEF Current
        <5>2. e = Current
          BY <1>6, <1>12 DEF e
        <5> QED
          BY <1>3, <1>7, <1>12, <2>5, <5>1, <5>2
      <4>2. Settled(x, y, MaxDepth)
        BY <1>8, <4>1
      <4> QED
        BY <1>5, <4>2, SameFile
    <3>3. i \in 1..at \/ i = at + 1
      BY <1>1, <2>2, <2>5
    <3> QED
      BY <3>1, <3>2, <3>3
  <2> QED
    BY <2>3, <2>4, <2>5 DEF ItemsInv
<1>13. CASE n # 1
  <2> DEFINE top == stack[n - 1]
  <2>1. /\ stack' # <<>> /\ at' = at /\ returning'
        /\ n - 1 \in 1..(n - 1) /\ n - 1 \in Nat /\ (n - 1) + 1 = n
        /\ Len(stack') = n - 1 /\ stack'[n - 1] = top /\ stack'[1] = stack[1]
    <3>1. stack' # <<>> /\ stack' = Front(stack)
      BY <1>2, <1>5, <1>13
    <3>2. returning'
      BY <1>5, <3>1, Zenon
    <3>3. n - 1 \in 1..(n - 1) /\ n - 1 \in Nat /\ (n - 1) + 1 = n /\ 1 \in 1..(n - 1)
      BY <1>2, <1>13
    <3> QED
      BY <1>2, <1>5, <3>1, <3>2, <3>3
  <2>2. Through(1)' = at /\ Begun' = at + 1 /\ Current' = Current
    BY <1>5, <1>9, <2>1, SameThrough DEF Begun, Current
  <2>3. HasPrefab(top) /\ e = PrefabOf(top)
    BY <1>6, <2>1 DEF e
  <2>4. Returned(top, Overridden(info, e), MaxDepth - (n - 1))
    <3>1. MaxDepth - (n - 1) = MaxDepth - n + 1
      BY <1>2, <1>3
    <3> QED
      BY <1>8, <2>3, <3>1 DEF Settled, Returned
  <2>5. ASSUME NEW s, s = stack' PROVE Calls(s)'
    <3>1. ASSUME NEW k \in 1..(n - 1 - 1) PROVE HasPrefab(s[k]) /\ s[k + 1] = PrefabOf(s[k])
      <4>1. k \in 1..(n - 1) /\ k + 1 \in 1..(n - 1)
        BY <1>2
      <4>2. s[k] = stack[k] /\ s[k + 1] = stack[k + 1]
        BY <1>2, <1>5, <2>5, <4>1
      <4> QED
        BY <1>6, <4>1, <4>2
    <3>2. Len(s) = n - 1
      BY <2>1, <2>5
    <3>3. Calls(s)
      BY <3>1, <3>2 DEF Calls
    <3> QED
      BY <1>5, <3>3, SameFile
  <2>6. ASSUME NEW x, NEW y, NEW m,
               x = stack'[Len(stack')], y = infos'[Current'.def], m = MaxDepth - Len(stack')
        PROVE  Returned(x, y, m)'
    <3>1. x = top /\ y = Overridden(info, e) /\ m = MaxDepth - (n - 1)
      BY <1>7, <2>1, <2>2, <2>6
    <3>2. Returned(x, y, m)
      BY <2>4, <3>1
    <3> QED
      BY <1>5, <3>2, SameFile
  <2> HIDE DEF top
  <2>7. CallsInv'
    <3>1. Len(stack') <= MaxDepth /\ Len(stack') <= MaxDepth + 1
      BY <1>2, <1>3, <2>1
    <3>2. /\ Current'.def # 0 /\ Current'.def \in DOMAIN infos' /\ stack'[1] = Current'
      BY <1>6, <1>7, <2>1, <2>2
    <3>3. \A s : s = stack' => Calls(s)'
      BY <2>5
    <3>4. \A x, y, m :
            x = stack'[Len(stack')] /\ y = infos'[Current'.def] /\ m = MaxDepth - Len(stack')
              => Returned(x, y, m)'
      BY <2>6
    <3> QED
      BY <2>1, <3>1, <3>2, <3>3, <3>4 DEF CallsInv
  <2>8. DOMAIN infos' = {file'["items"][i].def : i \in 1..Begun'} \ {0}
    BY <1>5, <1>7, <1>9, <2>2 DEF ItemsInv
  <2> QED
    BY <1>11, <2>2, <2>7, <2>8 DEF ItemsInv
<1> QED
  BY <1>12, <1>13

\* What is known of the items in any state; the parser asks nothing of the keys, so the
\* definitions that differ are a premise.
FieldsInv == DefsDiffer => CallsInv /\ ItemsInv

LEMMA InitFieldsInv == Init => FieldsInv
<1> SUFFICES ASSUME Init PROVE CallsInv /\ ItemsInv
  BY DEF FieldsInv
<1>1. Through(1) = 0 /\ Begun = 0 /\ DOMAIN infos = {} /\ stack = <<>>
  BY DEF Init, Through, Begun
<1>2. DOMAIN infos = {file["items"][i].def : i \in 1..Begun} \ {0}
  BY <1>1
<1>3. \A i \in 1..Through(1) : FALSE
  BY <1>1
<1> QED
  BY <1>1, <1>2, <1>3 DEF CallsInv, ItemsInv

LEMMA NextFieldsInv == TypeInv /\ FieldsInv /\ [Next]_vars => FieldsInv'
<1> SUFFICES ASSUME TypeInv, FieldsInv, [Next]_vars, DefsDiffer' PROVE CallsInv' /\ ItemsInv'
  BY DEF FieldsInv
<1>1. file' = file
  BY DEF Next, vars, ParseItem, ParsePrefab, ParseFields, ParseStickerKit, ParsePaintKit,
         ParsePaintKitRarity, ParseMusicDefinition, ParseLootListItem, NextSection, Advance
<1>2. DefsDiffer /\ CallsInv /\ ItemsInv
  BY <1>1 DEF FieldsInv, DefsDiffer
<1>3. CASE ParseItem
  BY <1>2, <1>3, ParseItemInv
<1>4. CASE ParsePrefab
  BY <1>2, <1>4, ParsePrefabInv
<1>5. CASE ParseFields
  BY <1>2, <1>5, ParseFieldsInv
<1>6. CASE NextSection
  <2>1. stack = <<>> /\ stack' = <<>> /\ infos' = infos
    BY <1>6 DEF NextSection, parsed
  <2> QED
    BY <1>1, <1>2, <1>6, <2>1, SectionThrough, ItemsKept
<1>7. ASSUME NEW i \in 2..6, In(Sections[i]), Advance, infos' = infos
      PROVE  CallsInv' /\ ItemsInv'
  <2>1. i \in 1..6 /\ 1 \in 1..6 /\ i # 1
    OBVIOUS
  <2>2. section = i /\ stack = <<>>
    BY <1>7, <2>1, InFacts
  <2>3. section' = section /\ stack' = <<>> /\ at' = at + 1
    BY <1>7, <2>2 DEF Advance
  <2>4. Through(1)' = Through(1)
    BY <1>1, <2>1, <2>2, <2>3, AdvanceThrough
  <2> QED
    BY <1>1, <1>2, <1>7, <2>2, <2>3, <2>4, ItemsKept
<1>8. CASE ParseStickerKit
  BY <1>7, <1>8, SectionFacts DEF ParseStickerKit
<1>9. CASE ParsePaintKit
  BY <1>7, <1>9, SectionFacts DEF ParsePaintKit
<1>10. CASE ParsePaintKitRarity
  BY <1>7, <1>10, SectionFacts DEF ParsePaintKitRarity
<1>11. CASE ParseMusicDefinition
  BY <1>7, <1>11, SectionFacts DEF ParseMusicDefinition
<1>12. CASE ParseLootListItem
  BY <1>7, <1>12, SectionFacts DEF ParseLootListItem
<1>13. CASE UNCHANGED vars
  <2>1. UNCHANGED <<file, section, at, stack, returning, infos>>
    BY <1>13 DEF vars, parsed
  <2>2. Through(1)' = Through(1)
    BY <2>1, SameThrough
  <2>3. CASE stack = <<>>
    BY <1>2, <2>1, <2>2, <2>3, ItemsKept
  <2>4. CASE stack # <<>>
    <3>1. Begun' = Begun /\ Current' = Current
      BY <2>1, <2>2 DEF Begun, Current
    <3>2. CallsInv'
      <4>1. \A s : s = stack' => Calls(s)'
        BY <1>2, <2>1, <2>4, SameFile DEF CallsInv
      <4>2. returning' => \A e, info, n :
              e = stack'[Len(stack')] /\ info = infos'[Current'.def] /\ n = MaxDepth - Len(stack')
                => Returned(e, info, n)'
        BY <1>2, <2>1, <2>4, <3>1, SameFile DEF CallsInv
      <4> QED
        BY <1>2, <2>1, <2>4, <3>1, <4>1, <4>2 DEF CallsInv
    <3>3. DOMAIN infos' = {file'["items"][i].def : i \in 1..Begun'} \ {0}
      BY <1>2, <2>1, <3>1 DEF ItemsInv
    <3>4. \A i \in 1..Through(1)' : \A e, info :
            e = file'["items"][i] /\ e.def # 0 /\ info = infos'[e.def]
              => Settled(e, info, MaxDepth)'
      BY <1>2, <2>1, <2>2, SameFile DEF ItemsInv
    <3> QED
      BY <3>2, <3>3, <3>4 DEF ItemsInv
  <2> QED
    BY <2>3, <2>4
<1> QED
  BY <1>3, <1>4, <1>5, <1>6, <1>8, <1>9, <1>10, <1>11, <1>12, <1>13 DEF Next

\* Once the items are behind, each has the nearest word on every field.
LEMMA ItemsSayIt == TypeInv /\ FieldsInv => NearestSaysIt
<1> SUFFICES ASSUME TypeInv, FieldsInv, DefsDiffer, section > 1, NEW e \in Range(file.items),
                    NEW field \in Fields, e.def # 0
             PROVE  infos[e.def][field] = Nearest(e, field)
  BY DEF NearestSaysIt
<1>1. PICK i \in DOMAIN file.items : e = file["items"][i]
  BY DEF Range
<1>2. Through(1) = Len(file["items"]) /\ i \in 1..Through(1)
  BY <1>1, ItemsFacts DEF Through, TypeInv
<1>3. Settled(e, infos[e.def], MaxDepth)
  BY <1>1, <1>2 DEF FieldsInv, ItemsInv
<1> QED
  BY <1>3, NearestWord DEF Settled

\* However the sayings on a field are spread over an item and its prefabs, when the items
\* are behind the nearest one counts (ParseItemRecursive).
THEOREM NearestWordCounts == Spec => []NearestSaysIt
<1>1. Init => TypeInv /\ FieldsInv
  BY InitTypeInv, InitFieldsInv
<1>2. TypeInv /\ FieldsInv /\ [Next]_vars => (TypeInv /\ FieldsInv)'
  BY NextTypeInv, NextFieldsInv
<1>3. TypeInv /\ FieldsInv => NearestSaysIt
  BY ItemsSayIt
<1> QED
  BY <1>1, <1>2, <1>3, PTL DEF Spec
-----------------------------------------------------------------------------
(* The kits.                                                               *)

StickerRarity(k) == IF k.rarity = None THEN RarityDefault ELSE RarityFromString(k.rarity)

StickersInv ==
  /\ DOMAIN stickerKits = {file["stickerKits"][i].name : i \in 1..Through(2)}
  /\ \A i \in 1..Through(2) :
       stickerKits[file["stickerKits"][i].name] = StickerRarity(file["stickerKits"][i])

PaintsInv ==
  /\ DOMAIN paintKits = {file["paintKits"][i] : i \in 1..Through(3)}
  /\ \A kit \in DOMAIN paintKits :
       /\ \A i \in 1..Through(4) :
            file["paintKitRarities"][i].name = kit =>
              paintKits[kit] = RarityFromString(file["paintKitRarities"][i].rarity)
       /\ (\A i \in 1..Through(4) : file["paintKitRarities"][i].name # kit) =>
            paintKits[kit] = RarityCommon

MusicInv == musicKits = {file["musicKits"][i] : i \in 1..Through(5)}

KitsInv == KeysDiffer => StickersInv /\ PaintsInv /\ MusicInv

\* Which step changes what.
LEMMA StepFacts ==
  ASSUME TypeInv, [Next]_vars
  PROVE  /\ file' = file
         /\ \/ ParseStickerKit
            \/ stickerKits' = stickerKits /\ Through(2)' = Through(2)
         /\ \/ ParsePaintKit \/ ParsePaintKitRarity
            \/ paintKits' = paintKits /\ Through(3)' = Through(3) /\ Through(4)' = Through(4)
         /\ \/ ParseMusicDefinition
            \/ musicKits' = musicKits /\ Through(5)' = Through(5)
         /\ \/ ParseLootListItem
            \/ listed' = listed /\ Through(6)' = Through(6)
         /\ section > 5 => UNCHANGED <<infos, stickerKits, paintKits, musicKits>>
         /\ \/ section' = section
            \/ section' = section + 1 /\ listed' = listed
<1>1. ASSUME NEW i \in 1..6, section = i, section' = section, file' = file
      PROVE  \A j \in 1..6 : j # i => Through(j)' = Through(j)
  BY <1>1 DEF Through
<1>2. ASSUME NEW i \in 1..6, In(Sections[i]), Advance
      PROVE  /\ file' = file /\ section = i /\ section' = section
             /\ \A j \in 1..6 : j # i => Through(j)' = Through(j)
  BY <1>1, <1>2, InFacts DEF Advance
<1>3. CASE ParseItem
  <2>1. section = 1 /\ section' = section /\ file' = file
    BY <1>3, InFacts, SectionFacts DEF ParseItem, Advance
  <2> QED
    BY <1>1, <1>3, <2>1 DEF ParseItem, parsed
<1>4. CASE ParsePrefab \/ ParseFields
  <2>1. section = 1 /\ section' = section /\ file' = file
    BY <1>4 DEF ParsePrefab, ParseFields, TypeInv
  <2> QED
    BY <1>1, <1>4, <2>1 DEF ParsePrefab, ParseFields, parsed
<1>5. CASE NextSection
  BY <1>5, SectionThrough DEF NextSection, parsed
<1>6. CASE ParseStickerKit
  BY <1>2, <1>6, SectionFacts DEF ParseStickerKit
<1>7. CASE ParsePaintKit
  BY <1>2, <1>7, SectionFacts DEF ParsePaintKit
<1>8. CASE ParsePaintKitRarity
  BY <1>2, <1>8, SectionFacts DEF ParsePaintKitRarity
<1>9. CASE ParseMusicDefinition
  BY <1>2, <1>9, SectionFacts DEF ParseMusicDefinition
<1>10. CASE ParseLootListItem
  <2>1. In(Sections[6]) /\ Advance /\ UNCHANGED <<infos, stickerKits, paintKits, musicKits>>
    BY <1>10, SectionFacts DEF ParseLootListItem
  <2> QED
    BY <1>2, <1>10, <2>1
<1>11. CASE UNCHANGED vars
  BY <1>11, SameThrough DEF vars, parsed
<1> QED
  BY <1>3, <1>4, <1>5, <1>6, <1>7, <1>8, <1>9, <1>10, <1>11 DEF Next

\* The keys that have been gone through after one more.
LEMMA OneMore ==
  ASSUME NEW n \in Nat
  PROVE  /\ \A i \in 1..(n + 1) : i \in 1..n \/ i = n + 1
         /\ n + 1 \in 1..(n + 1)
         /\ \A i \in 1..n : i \in 1..(n + 1) /\ i # n + 1
OBVIOUS

LEMMA StickerKitInv ==
  ASSUME TypeInv, KeysDiffer, StickersInv, ParseStickerKit
  PROVE  StickersInv'
<1> DEFINE keys == file["stickerKits"]
<1>1. /\ section = 2 /\ at \in Nat /\ Key = keys[at + 1] /\ at + 1 \in DOMAIN keys
      /\ at < Len(keys)
  BY InFacts, SectionFacts DEF ParseStickerKit
<1>2. /\ stickerKits' = Emplaced(stickerKits, Key.name, StickerRarity(Key))
      /\ file' = file /\ section' = section /\ at' = at + 1
  BY DEF ParseStickerKit, Advance, StickerRarity
<1>3. Through(2) = at /\ Through(2)' = at + 1
  BY <1>1, <1>2, AdvanceThrough
<1>4. \A i \in 1..at : keys[i].name # Key.name
  <2> SUFFICES ASSUME NEW i \in 1..at PROVE keys[i].name # Key.name
    OBVIOUS
  <2>1. DOMAIN keys = 1..Len(keys) /\ Len(keys) \in Nat
    BY KeysOfSection, SectionFacts DEF TypeInv
  <2>2. i \in DOMAIN keys /\ i # at + 1
    BY <1>1, <2>1
  <2> QED
    BY <1>1, <2>2 DEF KeysDiffer, NamesDiffer
<1>5. Key.name \notin DOMAIN stickerKits
  BY <1>3, <1>4 DEF StickersInv
<1>6. /\ DOMAIN stickerKits' = DOMAIN stickerKits \cup {Key.name}
      /\ \A k \in DOMAIN stickerKits : stickerKits'[k] = stickerKits[k]
      /\ stickerKits'[Key.name] = StickerRarity(Key)
  BY <1>2, <1>5 DEF Emplaced
<1> HIDE DEF keys
<1>7. DOMAIN stickerKits' = {keys'[i].name : i \in 1..Through(2)'}
  <2>1. {keys[i].name : i \in 1..(at + 1)} = {keys[i].name : i \in 1..at} \cup {Key.name}
    BY <1>1, OneMore
  <2>2. keys' = keys
    BY <1>2 DEF keys
  <2>3. DOMAIN stickerKits = {keys[i].name : i \in 1..at}
    BY <1>3 DEF StickersInv, keys
  <2> QED
    BY <1>3, <1>6, <2>1, <2>2, <2>3
<1>8. ASSUME NEW i \in 1..Through(2)'
      PROVE  stickerKits'[keys'[i].name] = StickerRarity(keys'[i])
  <2>1. CASE i \in 1..at
    <3>1. keys[i].name \in DOMAIN stickerKits
          /\ stickerKits[keys[i].name] = StickerRarity(keys[i])
      BY <1>3, <2>1 DEF StickersInv, keys
    <3> QED
      BY <1>2, <1>6, <3>1 DEF keys
  <2>2. CASE i = at + 1
    BY <1>1, <1>2, <1>6, <2>2 DEF keys
  <2> QED
    BY <1>1, <1>3, <1>8, <2>1, <2>2, OneMore
<1> QED
  BY <1>7, <1>8 DEF StickersInv, keys, StickerRarity

LEMMA PaintKitInv ==
  ASSUME TypeInv, PaintsInv, ParsePaintKit
  PROVE  PaintsInv'
<1>1. section = 3 /\ at \in Nat /\ Key = file["paintKits"][at + 1]
  BY InFacts, SectionFacts DEF ParsePaintKit
<1>2. /\ paintKits' = Emplaced(paintKits, Key, RarityCommon)
      /\ file' = file /\ section' = section /\ at' = at + 1
  BY DEF ParsePaintKit, Advance
<1>3. Through(3) = at /\ Through(3)' = at + 1 /\ Through(4) = 0 /\ Through(4)' = 0
  BY <1>1, <1>2, AdvanceThrough
<1>4. /\ DOMAIN paintKits' = DOMAIN paintKits \cup {Key}
      /\ \A k \in DOMAIN paintKits : paintKits'[k] = paintKits[k]
      /\ Key \notin DOMAIN paintKits => paintKits'[Key] = RarityCommon
  BY <1>2 DEF Emplaced
<1>5. \A k \in DOMAIN paintKits : paintKits[k] = RarityCommon
  BY <1>3 DEF PaintsInv
<1>6. \A k \in DOMAIN paintKits' : paintKits'[k] = RarityCommon
  BY <1>4, <1>5
<1>7. DOMAIN paintKits' = {file'["paintKits"][i] : i \in 1..Through(3)'}
  BY <1>1, <1>2, <1>3, <1>4, OneMore DEF PaintsInv
<1> QED
  BY <1>3, <1>6, <1>7 DEF PaintsInv

LEMMA PaintKitRarityInv ==
  ASSUME TypeInv, KeysDiffer, PaintsInv, ParsePaintKitRarity
  PROVE  PaintsInv'
<1> DEFINE keys == file["paintKitRarities"]
<1>1. section = 4 /\ at \in Nat /\ Key = keys[at + 1] /\ at + 1 \in DOMAIN keys
      /\ at < Len(keys)
  BY InFacts, SectionFacts DEF ParsePaintKitRarity
<1>2. /\ paintKits' = IF Key.name \in DOMAIN paintKits
                        THEN [paintKits EXCEPT ![Key.name] = RarityFromString(Key.rarity)]
                        ELSE paintKits
      /\ file' = file /\ section' = section /\ at' = at + 1
  BY DEF ParsePaintKitRarity, Advance
<1>3. Through(4) = at /\ Through(4)' = at + 1 /\ Through(3)' = Through(3)
  BY <1>1, <1>2, AdvanceThrough
<1>4. \A i \in 1..at : keys[i].name # Key.name
  <2> SUFFICES ASSUME NEW i \in 1..at PROVE keys[i].name # Key.name
    OBVIOUS
  <2>1. DOMAIN keys = 1..Len(keys) /\ Len(keys) \in Nat
    BY KeysOfSection, SectionFacts DEF TypeInv
  <2>2. i \in DOMAIN keys /\ i # at + 1
    BY <1>1, <2>1
  <2> QED
    BY <1>1, <2>2 DEF KeysDiffer, NamesDiffer
<1>5. /\ DOMAIN paintKits' = DOMAIN paintKits
      /\ \A k \in DOMAIN paintKits : k # Key.name => paintKits'[k] = paintKits[k]
      /\ Key.name \in DOMAIN paintKits => paintKits'[Key.name] = RarityFromString(Key.rarity)
  BY <1>2
<1>6. DOMAIN paintKits' = {file'["paintKits"][i] : i \in 1..Through(3)'}
  BY <1>2, <1>3, <1>5 DEF PaintsInv
<1>7. ASSUME NEW kit \in DOMAIN paintKits', NEW i \in 1..Through(4)', keys'[i].name = kit
      PROVE  paintKits'[kit] = RarityFromString(keys'[i].rarity)
  <2>1. CASE i \in 1..at
    <3>1. keys[i].name = kit /\ kit # Key.name /\ kit \in DOMAIN paintKits
      BY <1>2, <1>4, <1>5, <1>7, <2>1
    <3>2. paintKits[kit] = RarityFromString(keys[i].rarity)
      BY <1>3, <2>1, <3>1 DEF PaintsInv
    <3> QED
      BY <1>2, <1>5, <3>1, <3>2
  <2>2. CASE i = at + 1
    BY <1>1, <1>2, <1>5, <1>7, <2>2
  <2> QED
    BY <1>1, <1>3, <1>7, <2>1, <2>2, OneMore
<1>8. ASSUME NEW kit \in DOMAIN paintKits', \A i \in 1..Through(4)' : keys'[i].name # kit
      PROVE  paintKits'[kit] = RarityCommon
  <2>1. kit # Key.name /\ \A i \in 1..at : keys[i].name # kit
    BY <1>1, <1>2, <1>3, <1>8, OneMore
  <2>2. paintKits[kit] = RarityCommon
    BY <1>3, <1>5, <1>8, <2>1 DEF PaintsInv
  <2> QED
    BY <1>5, <1>8, <2>1, <2>2
<1> QED
  BY <1>6, <1>7, <1>8 DEF PaintsInv, RarityFromString

LEMMA MusicKitInv ==
  ASSUME TypeInv, MusicInv, ParseMusicDefinition
  PROVE  MusicInv'
<1>1. section = 5 /\ at \in Nat /\ Key = file["musicKits"][at + 1]
  BY InFacts, SectionFacts DEF ParseMusicDefinition
<1>2. /\ musicKits' = musicKits \cup {Key}
      /\ file' = file /\ section' = section /\ at' = at + 1
  BY DEF ParseMusicDefinition, Advance
<1>3. Through(5) = at /\ Through(5)' = at + 1
  BY <1>1, <1>2, AdvanceThrough
<1> QED
  BY <1>1, <1>2, <1>3, OneMore DEF MusicInv

LEMMA InitKitsInv == Init => KitsInv
<1> SUFFICES ASSUME Init PROVE StickersInv /\ PaintsInv /\ MusicInv
  BY DEF KitsInv
<1>1. \A i \in 2..6 : Through(i) = 0
  BY DEF Init, Through
<1>2. DOMAIN stickerKits = {} /\ DOMAIN paintKits = {} /\ musicKits = {}
  BY DEF Init
<1>3. 1..Through(2) = {} /\ 1..Through(3) = {} /\ 1..Through(5) = {}
  BY <1>1
<1> QED
  BY <1>2, <1>3 DEF StickersInv, PaintsInv, MusicInv

LEMMA NextKitsInv == TypeInv /\ KitsInv /\ [Next]_vars => KitsInv'
<1> SUFFICES ASSUME TypeInv, KitsInv, [Next]_vars, KeysDiffer'
             PROVE  StickersInv' /\ PaintsInv' /\ MusicInv'
  BY DEF KitsInv
<1>1. file' = file
  BY StepFacts
<1>2. KeysDiffer /\ StickersInv /\ PaintsInv /\ MusicInv
  BY <1>1 DEF KitsInv, KeysDiffer, DefsDiffer, NamesDiffer
<1>3. StickersInv'
  <2>1. CASE stickerKits' = stickerKits /\ Through(2)' = Through(2)
    BY <1>1, <1>2, <2>1 DEF StickersInv, StickerRarity, RarityFromString
  <2> QED
    BY <1>2, <2>1, StepFacts, StickerKitInv
<1>4. PaintsInv'
  <2>1. CASE paintKits' = paintKits /\ Through(3)' = Through(3) /\ Through(4)' = Through(4)
    BY <1>1, <1>2, <2>1 DEF PaintsInv, RarityFromString
  <2> QED
    BY <1>2, <2>1, StepFacts, PaintKitInv, PaintKitRarityInv
<1>5. MusicInv'
  <2>1. CASE musicKits' = musicKits /\ Through(5)' = Through(5)
    BY <1>1, <1>2, <2>1 DEF MusicInv
  <2> QED
    BY <1>2, <2>1, StepFacts, MusicKitInv
<1> QED
  BY <1>3, <1>4, <1>5
-----------------------------------------------------------------------------
(* The entries of loot lists.                                              *)

\* The parts of an entry that are parsed by now.
HasParts(entry) == Named(entry.item) # {} /\ entry.kit \in KitsOf(TypeOf(entry))

ListedFrom(entry, def) == [def |-> def, rarity |-> RarityOf(entry, infos[def].rarity)]

\* Lists come last, so what an entry finds stays as it is.
ListsInv ==
  /\ section < 6 => DOMAIN listed = {}
  /\ \A entry \in DOMAIN listed :
       /\ HasParts(entry)
       /\ \E def \in Named(entry.item) : listed[entry] = ListedFrom(entry, def)
  /\ \A i \in 1..Through(6) :
       HasParts(file["lists"][i]) => file["lists"][i] \in DOMAIN listed

LEMMA LootListItemInv ==
  ASSUME TypeInv, ListsInv, ParseLootListItem
  PROVE  ListsInv'
<1>1. section = 6 /\ at \in Nat /\ Key = file["lists"][at + 1]
  BY InFacts, SectionFacts DEF ParseLootListItem
<1>2. /\ file' = file /\ section' = section /\ at' = at + 1
      /\ UNCHANGED <<infos, stickerKits, paintKits, musicKits>>
  BY DEF ParseLootListItem, Advance
<1>3. Through(6) = at /\ Through(6)' = at + 1
  BY <1>1, <1>2, AdvanceThrough
<1>4. \A entry : HasParts(entry)' <=> HasParts(entry)
  BY <1>2 DEF HasParts, Named, KitsOf
<1>5. \A entry : Named(entry.item)' = Named(entry.item)
  BY <1>2 DEF Named
<1>6. \A entry, def : ListedFrom(entry, def)' = ListedFrom(entry, def)
  BY <1>2 DEF ListedFrom, RarityOf
<1>7. CASE ~ HasParts(Key)
  <2>1. listed' = listed
    BY <1>7 DEF ParseLootListItem, HasParts
  <2>2. ASSUME NEW i \in 1..Through(6)', HasParts(file["lists"][i])
        PROVE  file["lists"][i] \in DOMAIN listed
    <3>1. i \in 1..Through(6)
      BY <1>1, <1>3, <1>7, <2>2, OneMore
    <3> QED
      BY <2>2, <3>1 DEF ListsInv
  <2> QED
    BY <1>1, <1>2, <1>4, <1>5, <1>6, <2>1, <2>2 DEF ListsInv
<1>8. CASE HasParts(Key)
  <2>1. PICK def \in Named(Key.item) : listed' = Emplaced(listed, Key, ListedFrom(Key, def))
    BY <1>8 DEF ParseLootListItem, HasParts, ListedFrom
  <2>2. /\ DOMAIN listed' = DOMAIN listed \cup {Key}
        /\ \A entry \in DOMAIN listed : listed'[entry] = listed[entry]
        /\ Key \notin DOMAIN listed => listed'[Key] = ListedFrom(Key, def)
    BY <2>1 DEF Emplaced
  <2>3. ASSUME NEW entry \in DOMAIN listed'
        PROVE  /\ HasParts(entry)'
               /\ \E d \in Named(entry.item)' : listed'[entry] = ListedFrom(entry, d)'
    <3>1. CASE entry \in DOMAIN listed
      <4>1. HasParts(entry)
            /\ \E d \in Named(entry.item) : listed[entry] = ListedFrom(entry, d)
        BY <3>1 DEF ListsInv
      <4> QED
        BY <1>4, <1>5, <1>6, <2>2, <3>1, <4>1
    <3>2. CASE entry \notin DOMAIN listed
      <4>1. entry = Key /\ listed'[entry] = ListedFrom(entry, def) /\ def \in Named(entry.item)
        BY <2>1, <2>2, <2>3, <3>2
      <4> QED
        BY <1>4, <1>5, <1>6, <1>8, <4>1
    <3> QED
      BY <3>1, <3>2
  <2>4. ASSUME NEW i \in 1..Through(6)', HasParts(file["lists"][i])
        PROVE  file["lists"][i] \in DOMAIN listed'
    <3>1. i \in 1..Through(6) \/ i = at + 1
      BY <1>1, <1>3, <2>4, OneMore
    <3> QED
      BY <1>1, <2>2, <2>4, <3>1 DEF ListsInv
  <2> QED
    BY <1>1, <1>2, <1>4, <2>3, <2>4 DEF ListsInv
<1> QED
  BY <1>7, <1>8

LEMMA InitListsInv == Init => ListsInv
<1> SUFFICES ASSUME Init PROVE ListsInv
  OBVIOUS
<1>1. Through(6) = 0 /\ DOMAIN listed = {}
  BY DEF Init, Through
<1> QED
  BY <1>1 DEF ListsInv

LEMMA NextListsInv == TypeInv /\ ListsInv /\ [Next]_vars => ListsInv'
<1> SUFFICES ASSUME TypeInv, ListsInv, [Next]_vars PROVE ListsInv'
  OBVIOUS
<1>1. CASE ParseLootListItem
  BY <1>1, LootListItemInv
<1>2. CASE listed' = listed /\ Through(6)' = Through(6) /\ section > 5
  <2>1. file' = file /\ UNCHANGED <<infos, stickerKits, paintKits, musicKits>>
    BY <1>2, StepFacts
  <2>2. \A entry : HasParts(entry)' <=> HasParts(entry)
    BY <2>1 DEF HasParts, Named, KitsOf
  <2>3. \A entry : Named(entry.item)' = Named(entry.item)
    BY <2>1 DEF Named
  <2>4. \A entry, def : ListedFrom(entry, def)' = ListedFrom(entry, def)
    BY <2>1 DEF ListedFrom, RarityOf
  <2>5. section' = section \/ section' = section + 1
    BY StepFacts
  <2>6. section \in Nat /\ ~ (section < 6) /\ ~ (section' < 6)
    BY <1>2, <2>5 DEF TypeInv
  <2> QED
    BY <1>2, <2>1, <2>2, <2>3, <2>4, <2>6 DEF ListsInv
<1>3. CASE listed' = listed /\ Through(6)' = Through(6) /\ ~ (section > 5)
  <2>1. DOMAIN listed' = {} /\ Through(6)' = 0
    BY <1>3 DEF ListsInv, TypeInv, Through
  <2> QED
    BY <2>1 DEF ListsInv
<1> QED
  BY <1>1, <1>2, <1>3, StepFacts

-----------------------------------------------------------------------------
(* What the whole file says.                                               *)

LEMMA KnownRarity ==
  ASSUME NEW s
  PROVE  RarityFromString(s) \in Nat /\ 4 * RarityFromString(s) < Width
BY SchemaAssumption DEF RarityFromString, RarityCommon

LEMMA WordRarity ==
  ASSUME NEW e, NEW n, NEW v, HasWord(e, "rarity", v, n)
  PROVE  v \in Nat /\ 4 * v < Width
<1>1. PICK x : v = Word(x, "rarity")
  BY DEF HasWord
<1>2. CASE "rarity" \in DOMAIN x.says
  BY <1>1, <1>2, KnownRarity DEF Word, Said
<1>3. CASE "rarity" \notin DOMAIN x.says
  <2>1. v = RarityCommon
    BY <1>1, <1>3 DEF Word, NewInfo
  <2> QED
    BY <2>1, SchemaAssumption DEF RarityCommon
<1> QED
  BY <1>2, <1>3

\* Below a quarter of the width the sum of two rarities does not reach the sign, and the
\* one that is taken from it wraps for zeros only.
LEMMA PaintedSum ==
  ASSUME NEW own \in Nat, NEW kit \in Nat, 4 * own < Width, 4 * kit < Width
  PROVE  PaintedItemRarity(own, kit) =
           LET painted == IF own + kit = 0 THEN 0 ELSE own + kit - 1
           IN  IF painted <= RarityAncient THEN painted
               ELSE IF kit = RarityImmortal THEN RarityImmortal ELSE RarityAncient
<1>1. Width \in Nat /\ Width > 4 /\ Width > 0
  BY SchemaAssumption DEF RarityCommon
<1>2. CASE own + kit = 0
  <2>1. own = 0 /\ kit = 0 /\ own + Width - 1 + kit = Width - 1
    BY <1>1, <1>2
  <2>2. (Width - 1) % Width = Width - 1
    BY <1>1
  <2>3. Width - 1 >= Width \div 2
    BY <1>1
  <2> QED
    BY <1>2, <2>1, <2>2, <2>3 DEF PaintedItemRarity, RarityAncient
<1>3. CASE own + kit # 0
  <2> DEFINE painted == own + kit - 1
  <2>1. painted \in Nat /\ painted < Width /\ own + Width - 1 + kit = painted + Width
    BY <1>1, <1>3
  <2>2. painted < Width \div 2 /\ Width \div 2 \in Nat
    BY <1>1, <1>3
  <2> HIDE DEF painted
  <2>3. (painted + Width) % Width = painted
    BY <1>1, <2>1
  <2>4. PaintedItemRarity(own, kit) =
          IF painted >= Width \div 2 THEN 0
          ELSE IF painted > RarityAncient
            THEN IF kit = RarityImmortal THEN RarityImmortal ELSE RarityAncient
          ELSE painted
    BY <2>1, <2>3 DEF PaintedItemRarity
  <2>5. ~ (painted >= Width \div 2) /\ (painted > RarityAncient <=> ~ (painted <= RarityAncient))
    BY <2>1, <2>2 DEF RarityAncient
  <2> QED
    BY <1>3, <2>4, <2>5 DEF painted
<1> QED
  BY <1>2, <1>3

\* The items are found by what the file says of their names.
LEMMA NamedItems ==
  ASSUME TypeInv, FieldsInv, Done, DefsDiffer, NEW name
  PROVE  /\ Named(name) = {e.def : e \in {x \in Range(file.items) :
                                          x.def # 0 /\ Nearest(x, "name") = name}}
         /\ \A e \in Range(file.items) : e.def # 0 =>
              /\ infos[e.def].rarity = Nearest(e, "rarity")
              /\ Nearest(e, "rarity") \in Nat /\ 4 * Nearest(e, "rarity") < Width
<1> DEFINE keys == file["items"]
<1>1. section = 7 /\ section > 1
  BY SectionFacts DEF Done, TypeInv
<1>2. CallsInv /\ ItemsInv /\ stack = <<>>
  BY <1>1 DEF FieldsInv, TypeInv
<1>3. Through(1) = Len(keys) /\ Begun = Len(keys) /\ DOMAIN keys = 1..Len(keys)
  BY <1>1, <1>2, ItemsFacts DEF Through, Begun
<1>4. DOMAIN infos = {e.def : e \in Range(file.items)} \ {0}
  BY <1>2, <1>3 DEF ItemsInv, Range
<1>5. \A e \in Range(file.items) : \A field \in Fields :
        e.def # 0 => infos[e.def][field] = Nearest(e, field)
  BY <1>1, ItemsSayIt DEF NearestSaysIt
<1>6. \A e \in Range(file.items) : e.def # 0 =>
        infos[e.def].name = Nearest(e, "name") /\ infos[e.def].rarity = Nearest(e, "rarity")
  BY <1>5 DEF Fields
<1>7. Named(name) = {e.def : e \in {x \in Range(file.items) :
                                   x.def # 0 /\ Nearest(x, "name") = name}}
  BY <1>4, <1>6 DEF Named
<1>8. ASSUME NEW e \in Range(file.items), e.def # 0
      PROVE  Nearest(e, "rarity") \in Nat /\ 4 * Nearest(e, "rarity") < Width
  <2>1. PICK i \in 1..Through(1) : e = keys[i]
    BY <1>3 DEF Range
  <2>2. HasWord(e, "rarity", infos[e.def].rarity, MaxDepth)
    BY <1>2, <1>8, <2>1 DEF ItemsInv, Settled, Fields
  <2> QED
    BY <1>6, <1>8, <2>2, WordRarity
<1> QED
  BY <1>6, <1>7, <1>8

\* The sticker kits end with the rarities the file gives them, or with none.
LEMMA StickersAsDeclared ==
  ASSUME TypeInv, Done, KeysDiffer, StickersInv, NEW kit \in DOMAIN stickerKits,
         NEW kits, kits = {k \in Range(file.stickerKits) : k.name = kit /\ k.rarity # None}
  PROVE  /\ kits # {} => stickerKits[kit] = RarityFromString((CHOOSE k \in kits : TRUE).rarity)
         /\ kits = {} => stickerKits[kit] = 0
<1> DEFINE keys == file["stickerKits"]
<1>1. section = 7
  BY SectionFacts DEF Done, TypeInv
<1>2. Through(2) = Len(keys) /\ DOMAIN keys = 1..Len(keys)
  BY <1>1, KeysOfSection, SectionFacts DEF Through, TypeInv
<1>3. PICK i \in 1..Len(keys) : keys[i].name = kit
  BY <1>2 DEF StickersInv
<1>4. stickerKits[kit] = StickerRarity(keys[i])
  BY <1>2, <1>3 DEF StickersInv
<1>5. \A j \in 1..Len(keys) : keys[j].name = kit => j = i
  BY <1>2, <1>3 DEF KeysDiffer, NamesDiffer
<1>6. \A k \in Range(file.stickerKits) : k.name = kit => k = keys[i]
  BY <1>2, <1>5 DEF Range
<1>7. keys[i] \in Range(file.stickerKits)
  BY <1>2 DEF Range
<1>8. CASE keys[i].rarity = None
  BY <1>4, <1>6, <1>8 DEF StickerRarity, RarityDefault
<1>9. CASE keys[i].rarity # None
  <2>1. keys[i] \in kits /\ \A k \in kits : k = keys[i]
    BY <1>3, <1>6, <1>7, <1>9
  <2>2. (CHOOSE k \in kits : TRUE) = keys[i]
    BY <2>1
  <2> QED
    BY <1>4, <1>9, <2>1, <2>2 DEF StickerRarity
<1> QED
  BY <1>8, <1>9

\* So do the paint kits, whose rarities are in a section of their own.
LEMMA PaintsAsDeclared ==
  ASSUME TypeInv, Done, KeysDiffer, PaintsInv, NEW kit \in DOMAIN paintKits
  PROVE  /\ paintKits[kit] = DeclaredPaint(kit)
         /\ DeclaredPaint(kit) \in Nat /\ 4 * DeclaredPaint(kit) < Width
<1> DEFINE keys == file["paintKitRarities"]
           said == {k \in Range(file.paintKitRarities) : k.name = kit}
<1>1. section = 7
  BY SectionFacts DEF Done, TypeInv
<1>2. Through(4) = Len(keys) /\ DOMAIN keys = 1..Len(keys)
  BY <1>1, KeysOfSection, SectionFacts DEF Through, TypeInv
<1>3. CASE \E i \in 1..Len(keys) : keys[i].name = kit
  <2>1. PICK i \in 1..Len(keys) : keys[i].name = kit
    BY <1>3
  <2>2. \A j \in 1..Len(keys) : keys[j].name = kit => j = i
    BY <1>2, <2>1 DEF KeysDiffer, NamesDiffer
  <2>3. keys[i] \in said /\ \A k \in said : k = keys[i]
    BY <1>2, <2>1, <2>2 DEF Range
  <2>4. (CHOOSE k \in said : TRUE) = keys[i] /\ said # {}
    BY <2>3
  <2>5. DeclaredPaint(kit) = RarityFromString(keys[i].rarity)
    BY <2>4 DEF DeclaredPaint
  <2>6. paintKits[kit] = RarityFromString(keys[i].rarity)
    BY <1>2, <2>1 DEF PaintsInv
  <2> QED
    BY <2>5, <2>6, KnownRarity
<1>4. CASE \A i \in 1..Len(keys) : keys[i].name # kit
  <2>1. said = {}
    BY <1>2, <1>4 DEF Range
  <2>2. DeclaredPaint(kit) = RarityCommon
    BY <2>1 DEF DeclaredPaint
  <2>3. paintKits[kit] = RarityCommon
    BY <1>2, <1>4 DEF PaintsInv
  <2> QED
    BY <2>2, <2>3, SchemaAssumption DEF RarityCommon
<1> QED
  BY <1>3, <1>4

LEMMA KitsAsDeclared ==
  ASSUME TypeInv, Done, StickersInv, PaintsInv, MusicInv
  PROVE  /\ DOMAIN stickerKits \subseteq DeclaredKits
         /\ DOMAIN paintKits \subseteq DeclaredKits
         /\ musicKits \subseteq DeclaredKits
<1>1. section = 7
  BY SectionFacts DEF Done, TypeInv
<1>2. DOMAIN stickerKits \subseteq {k.name : k \in Range(file.stickerKits)}
  <2>1. Through(2) = Len(file["stickerKits"])
        /\ DOMAIN file["stickerKits"] = 1..Len(file["stickerKits"])
    BY <1>1, KeysOfSection, SectionFacts DEF Through, TypeInv
  <2> QED
    BY <2>1 DEF StickersInv, Range
<1>3. DOMAIN paintKits \subseteq Range(file.paintKits)
  <2>1. Through(3) = Len(file["paintKits"])
        /\ DOMAIN file["paintKits"] = 1..Len(file["paintKits"])
    BY <1>1, KeysOfSection, SectionFacts DEF Through, TypeInv
  <2> QED
    BY <2>1 DEF PaintsInv, Range
<1>4. musicKits \subseteq Range(file.musicKits)
  <2>1. Through(5) = Len(file["musicKits"])
        /\ DOMAIN file["musicKits"] = 1..Len(file["musicKits"])
    BY <1>1, KeysOfSection, SectionFacts DEF Through, TypeInv
  <2> QED
    BY <2>1 DEF MusicInv, Range
<1> QED
  BY <1>2, <1>3, <1>4 DEF DeclaredKits

\* An entry that is listed with an item has the rarity the file gives them.
LEMMA RarityAsDeclared ==
  ASSUME TypeInv, FieldsInv, Done, KeysDiffer, StickersInv, PaintsInv,
         NEW entry, NEW e \in Range(file.items), e.def # 0,
         entry.kit \in KitsOf(TypeOf(entry))
  PROVE  RarityOf(entry, infos[e.def].rarity) = DeclaredRarity(entry, e)
<1> DEFINE own == Nearest(e, "rarity")
           kits == {k \in Range(file.stickerKits) : k.name = entry.kit /\ k.rarity # None}
<1>1. infos[e.def].rarity = own /\ own \in Nat /\ 4 * own < Width
  BY NamedItems DEF KeysDiffer
<1> HIDE DEF own
<1>2. CASE TypeOf(entry) = "sticker"
  <2>1. entry.kit \in DOMAIN stickerKits
    BY <1>2 DEF KitsOf
  <2> HIDE DEF kits
  <2>2. /\ kits # {} =>
             stickerKits[entry.kit] = RarityFromString((CHOOSE k \in kits : TRUE).rarity)
        /\ kits = {} => stickerKits[entry.kit] = 0
    BY <2>1, StickersAsDeclared DEF kits
  <2>3. RarityOf(entry, own) =
          IF stickerKits[entry.kit] # 0 THEN stickerKits[entry.kit] ELSE own
    BY <1>2 DEF RarityOf
  <2>4. DeclaredRarity(entry, e) =
          IF kits = {} THEN own
          ELSE LET kit == RarityFromString((CHOOSE k \in kits : TRUE).rarity)
               IN IF kit = 0 THEN own ELSE kit
    BY <1>2 DEF DeclaredRarity, own, kits
  <2> QED
    BY <1>1, <2>2, <2>3, <2>4
<1>3. CASE TypeOf(entry) = "paint"
  <2> DEFINE paint == DeclaredPaint(entry.kit)
             painted == IF own + paint = 0 THEN 0 ELSE own + paint - 1
             total == IF painted <= RarityAncient THEN painted
                      ELSE IF paint = RarityImmortal THEN RarityImmortal ELSE RarityAncient
  <2>1. entry.kit \in DOMAIN paintKits
    BY <1>3 DEF KitsOf
  <2>2. paintKits[entry.kit] = paint /\ paint \in Nat /\ 4 * paint < Width
    BY <2>1, PaintsAsDeclared
  <2>3. DeclaredRarity(entry, e) = total
    BY <1>3 DEF DeclaredRarity, own
  <2> HIDE DEF paint
  <2>4. PaintedItemRarity(own, paint) = total
    BY <1>1, <2>2, PaintedSum
  <2>5. RarityOf(entry, own) = PaintedItemRarity(own, paintKits[entry.kit])
    BY <1>3 DEF RarityOf
  <2> QED
    BY <1>1, <2>2, <2>3, <2>4, <2>5
<1>4. CASE TypeOf(entry) # "sticker" /\ TypeOf(entry) # "paint"
  <2>1. RarityOf(entry, own) = own
    BY <1>4 DEF RarityOf
  <2>2. DeclaredRarity(entry, e) = own
    BY <1>4 DEF DeclaredRarity, own
  <2> QED
    BY <1>1, <2>1, <2>2
<1> QED
  BY <1>2, <1>3, <1>4

LEMMA ListsSayIt == TypeInv /\ FieldsInv /\ KitsInv /\ ListsInv => ListedAsDeclared
<1> SUFFICES ASSUME TypeInv, FieldsInv, KitsInv, ListsInv, Done, KeysDiffer,
                    NEW entry \in Range(file.lists)
             PROVE  LET elements == {e \in Range(file.items) :
                                       e.def # 0 /\ Nearest(e, "name") = entry.item} IN
                    /\ entry \in DOMAIN listed => elements # {} /\ entry.kit \in DeclaredKits
                    /\ elements # {} /\ entry.kit \in KitsOf(TypeOf(entry)) =>
                         entry \in DOMAIN listed
                    /\ \A e \in elements :
                         elements = {e} /\ entry \in DOMAIN listed =>
                           listed[entry] = [def |-> e.def, rarity |-> DeclaredRarity(entry, e)]
  BY DEF ListedAsDeclared
<1> DEFINE elements == {e \in Range(file.items) : e.def # 0 /\ Nearest(e, "name") = entry.item}
<1>1. StickersInv /\ PaintsInv /\ MusicInv /\ DefsDiffer
  BY DEF KitsInv, KeysDiffer
<1>2. Named(entry.item) = {e.def : e \in elements}
  BY <1>1, NamedItems
<1>3. \A e \in elements : e \in Range(file.items) /\ e.def # 0
  OBVIOUS
<1> HIDE DEF elements
<1>4. entry \in DOMAIN listed => elements # {} /\ entry.kit \in DeclaredKits
  <2> SUFFICES ASSUME entry \in DOMAIN listed
               PROVE  elements # {} /\ entry.kit \in DeclaredKits
    OBVIOUS
  <2>1. Named(entry.item) # {} /\ entry.kit \in KitsOf(TypeOf(entry))
    BY DEF ListsInv, HasParts
  <2>2. TypeOf(entry) \in {"sticker", "paint", "musickit", "no attribute"}
    BY DEF TypeOf
  <2>3. KitsOf(TypeOf(entry)) \subseteq DeclaredKits
    <3>1. DOMAIN stickerKits \subseteq DeclaredKits /\ DOMAIN paintKits \subseteq DeclaredKits
          /\ musicKits \subseteq DeclaredKits
      BY <1>1, KitsAsDeclared
    <3>2. None \in DeclaredKits
      BY DEF DeclaredKits
    <3> QED
      BY <2>2, <3>1, <3>2 DEF KitsOf
  <2> QED
    BY <1>2, <2>1, <2>3
<1>5. elements # {} /\ entry.kit \in KitsOf(TypeOf(entry)) => entry \in DOMAIN listed
  <2>1. section = 7
    BY SectionFacts DEF Done, TypeInv
  <2>2. Through(6) = Len(file["lists"]) /\ DOMAIN file["lists"] = 1..Len(file["lists"])
    BY <2>1, KeysOfSection, SectionFacts DEF Through, TypeInv
  <2>3. PICK i \in 1..Through(6) : entry = file["lists"][i]
    BY <2>2 DEF Range
  <2>4. elements # {} => Named(entry.item) # {}
    BY <1>2
  <2>5. HasParts(entry) => entry \in DOMAIN listed
    BY <2>3 DEF ListsInv
  <2> QED
    BY <2>4, <2>5 DEF HasParts
<1>6. ASSUME NEW e \in elements, elements = {e}, entry \in DOMAIN listed
      PROVE  listed[entry] = [def |-> e.def, rarity |-> DeclaredRarity(entry, e)]
  <2>1. Named(entry.item) = {e.def}
    BY <1>2, <1>6
  <2>2. entry.kit \in KitsOf(TypeOf(entry)) /\ listed[entry] = ListedFrom(entry, e.def)
    BY <1>6, <2>1 DEF ListsInv, HasParts
  <2>3. RarityOf(entry, infos[e.def].rarity) = DeclaredRarity(entry, e)
    BY <1>1, <1>3, <2>2, RarityAsDeclared
  <2> QED
    BY <2>2, <2>3 DEF ListedFrom
<1> QED
  BY <1>4, <1>5, <1>6 DEF elements

\* When the schema has been read, an entry of a loot list is listed if the file has its
\* parts, and with the rarity the whole file gives it, whichever section says what
\* (ItemSchema's constructor, ParseLootListItem).
THEOREM ListsEndAsDeclared == Spec => []ListedAsDeclared
<1> DEFINE Inv == TypeInv /\ FieldsInv /\ KitsInv /\ ListsInv
<1>1. Init => Inv
  BY InitTypeInv, InitFieldsInv, InitKitsInv, InitListsInv
<1>2. Inv /\ [Next]_vars => Inv'
  BY NextTypeInv, NextFieldsInv, NextKitsInv, NextListsInv
<1>3. Inv => ListedAsDeclared
  BY ListsSayIt
<1> QED
  BY <1>1, <1>2, <1>3, PTL DEF Spec
=============================================================================
