--------------------------- MODULE ItemFileProofs ---------------------------
(***************************************************************************)
(* Proofs about ItemFile, for any ids, numbers, attributes, inventories,   *)
(* edited files and bounds.                                                *)
(*                                                                         *)
(* FileInv is inductive: what is held is an inventory, the file a sequence *)
(* of tokens, a file written whole the tokens of a tree of what was held   *)
(* (WholeInv), and an inventory that was read is what the parser and       *)
(* CreateItem make of the file (ReadInv).                                  *)
(*                                                                         *)
(* EveryKeyIsAnItem needs nothing of the file.  Parsing any tokens gives   *)
(* keys, a key being a member of a set whose members have their subkeys in *)
(* it; and each CreateItem adds an id (ReadOK).                            *)
(*                                                                         *)
(* PlainIsKept compares the parser with the writer.  What was written of a *)
(* key, wherever it is in a file, is read as that key (Told), said without *)
(* a word about what is around it: so the tokens of a section are those of *)
(* its subkeys between two braces (SectionTold), and those of several keys *)
(* with different names are read one after the other (ListTold).  Names    *)
(* are different where Plain says that ids, classes and definitions are,   *)
(* as no two numbers are written alike.                                    *)
(*                                                                         *)
(* SettledAfterOne is about any inventory that was held.  What is written  *)
(* of it keeps the lists of the file (Keeps), in which no two keys have    *)
(* one name and every string is one the writer makes, also where the       *)
(* parser goes into a key a second time; so what is read is Plain but for  *)
(* the ids (SettledInv), and it is read again as PlainIsKept has it.       *)
(*                                                                         *)
(* TornKeepsOthers is about a file that ends anywhere (TornInv).  Up to    *)
(* its last token the parser is where it is in the whole file; there it    *)
(* has read the first of a section's keys, and is in front of the next, in *)
(* it or further in (Inside): so the outermost key has those keys, and the *)
(* next by its name (SectionCut).                                          *)
(***************************************************************************)
EXTENDS ItemFile, FiniteSetTheorems, SequenceTheorems, WellFoundedInduction, TLAPS

-----------------------------------------------------------------------------
(* Numbers and sequences.                                                  *)

\* The order of the numbers.
LessThan == {ij \in Nat \X Nat : ij[1] < ij[2]}

\* A set of numbers that has 0, and with each number the next, has them all.
LEMMA Induction ==
  ASSUME NEW S \in SUBSET Nat, 0 \in S, \A n \in S : n + 1 \in S
  PROVE  S = Nat
<1> DEFINE T == Nat \ S
<1> SUFFICES ASSUME T # {} PROVE FALSE
  OBVIOUS
<1>1. IsWellFoundedOn(LessThan, Nat)
  BY NatLessThanWellFounded DEF OpToRel, LessThan
<1>2. PICK k \in T : \A j \in T : <<j, k>> \notin LessThan
  BY <1>1, WFMin
<1>3. k \in Nat \ {0} /\ k - 1 \in Nat /\ (k - 1) + 1 = k
  BY <1>2
<1>4. k - 1 \in S
  <2>1. <<k - 1, k>> \in LessThan
    BY <1>3 DEF LessThan
  <2> QED BY <1>2, <1>3, <2>1
<1> QED BY <1>2, <1>3, <1>4

\* The numbers from 0 to L.
LEMMA InductionTo ==
  ASSUME NEW L \in Nat, NEW S, 0 \in S, \A n \in 0..(L - 1) : n \in S => n + 1 \in S
  PROVE  0..L \subseteq S
<1> DEFINE T == {n \in Nat : n <= L => n \in S}
<1>1. 0 \in T /\ T \in SUBSET Nat
  OBVIOUS
<1>2. ASSUME NEW n \in T PROVE n + 1 \in T
  OBVIOUS
<1> HIDE DEF T
<1>3. T = Nat
  BY <1>1, <1>2, Induction
<1> QED BY <1>3 DEF T

\* Where a sequence has part, after n of its elements.
Has(s, n, part) ==
  /\ n + Len(part) <= Len(s)
  /\ \A k \in 1..Len(part) : s[n + k] = part[k]

\* The elements of a concatenation.
LEMMA ConcatFacts ==
  ASSUME NEW S, NEW s \in Seq(S), NEW t \in Seq(S)
  PROVE  /\ s \o t \in Seq(S) /\ Len(s \o t) = Len(s) + Len(t)
         /\ \A k \in 1..Len(s) : (s \o t)[k] = s[k]
         /\ \A k \in 1..Len(t) : (s \o t)[Len(s) + k] = t[k]
OBVIOUS

\* What has a concatenation has both parts of it.
LEMMA HasBoth ==
  ASSUME NEW S, NEW w, Len(w) \in Nat, NEW s \in Seq(S), NEW t \in Seq(S), NEW n \in Nat,
         Has(w, n, s \o t)
  PROVE  Has(w, n, s) /\ Has(w, n + Len(s), t)
<1>1. /\ Len(s \o t) = Len(s) + Len(t) /\ Len(s) \in Nat /\ Len(t) \in Nat
      /\ \A k \in 1..Len(s) : (s \o t)[k] = s[k]
      /\ \A k \in 1..Len(t) : (s \o t)[Len(s) + k] = t[k]
  BY ConcatFacts
<1>2. Has(w, n, s)
  BY <1>1 DEF Has
<1>3. ASSUME NEW k \in 1..Len(t) PROVE w[(n + Len(s)) + k] = t[k]
  <2>1. Len(s) + k \in 1..Len(s \o t) /\ n + (Len(s) + k) = (n + Len(s)) + k
    BY <1>1
  <2> QED BY <1>1, <2>1 DEF Has
<1>4. (n + Len(s)) + Len(t) <= Len(w)
  BY <1>1 DEF Has
<1> QED BY <1>2, <1>3, <1>4 DEF Has

-----------------------------------------------------------------------------
(* FlattenSeq.                                                             *)

\* The recursion by which FlattenSeq is defined has a solution.
LEMMA FlattenExists ==
  ASSUME NEW s, NEW L \in Nat
  PROVE  \E f : f = [i \in 1..L |-> IF i = 1 THEN s[i] ELSE f[i-1] \o s[i]]
<1> DEFINE Rec(n, f) == f = [i \in 1..n |-> IF i = 1 THEN s[i] ELSE f[i-1] \o s[i]]
           Solved == {n \in Nat : \E f : Rec(n, f)}
<1>1. 0 \in Solved
  <2>1. Rec(0, [i \in {} |-> i])
    <3>1. 1..0 = {}
      OBVIOUS
    <3> QED BY <3>1
  <2> QED BY <2>1
<1>2. ASSUME NEW m \in Solved PROVE m + 1 \in Solved
  <2>1. PICK f : Rec(m, f)
    OBVIOUS
  <2> DEFINE g == [i \in 1..(m + 1) |-> IF i = m + 1 THEN IF i = 1 THEN s[i] ELSE f[i-1] \o s[i]
                                        ELSE f[i]]
  <2>2. ASSUME NEW i \in 1..(m + 1) PROVE g[i] = IF i = 1 THEN s[i] ELSE g[i-1] \o s[i]
    <3>1. i # 1 => i - 1 \in 1..m /\ i - 1 # m + 1 /\ i - 1 \in 1..(m + 1)
      OBVIOUS
    <3>2. i # 1 => g[i - 1] = f[i - 1]
      BY <3>1
    <3>3. CASE i = m + 1
      BY <3>1, <3>2, <3>3
    <3>4. CASE i # m + 1
      <4>1. i \in 1..m /\ g[i] = f[i]
        BY <3>4
      <4>2. f[i] = IF i = 1 THEN s[i] ELSE f[i-1] \o s[i]
        BY <2>1, <4>1
      <4> HIDE DEF g
      <4> QED BY <3>2, <4>1, <4>2
    <3> QED BY <3>3, <3>4
  <2>3. g = [i \in 1..(m + 1) |-> g[i]]
    OBVIOUS
  <2> HIDE DEF g
  <2>4. g = [i \in 1..(m + 1) |-> IF i = 1 THEN s[i] ELSE g[i-1] \o s[i]]
    BY <2>2, <2>3
  <2>5. Rec(m + 1, g)
    BY <2>4
  <2> HIDE DEF Rec
  <2> QED BY <2>5
<1> HIDE DEF Rec
<1>3. Solved = Nat
  BY <1>1, <1>2, Induction
<1> QED BY <1>3 DEF Rec

\* A concatenation is put together part by part: F has what there is of it after each.
FlattenedBy(s, F) ==
  /\ \A i \in 0..Len(s) : F[i] = IF i = 0 THEN <<>> ELSE F[i - 1] \o s[i]
  /\ F[Len(s)] = FlattenSeq(s)

\* Every sequence of sequences is put together so.
LEMMA FlattenSteps ==
  ASSUME NEW S, NEW s \in Seq(Seq(S))
  PROVE  \E F \in [0..Len(s) -> Seq(S)] : FlattenedBy(s, F)
<1> DEFINE L == Len(s)
           f == CHOOSE f : f = [i \in 1..L |-> IF i = 1 THEN s[i] ELSE f[i-1] \o s[i]]
           F == [i \in 0..L |-> IF i = 0 THEN <<>> ELSE f[i]]
<1>1. L \in Nat /\ \A i \in 1..L : s[i] \in Seq(S)
  OBVIOUS
<1>2. f = [i \in 1..L |-> IF i = 1 THEN s[i] ELSE f[i-1] \o s[i]]
  BY <1>1, FlattenExists
<1>3. L # 0 => FlattenSeq(s) = f[L]
  BY DEF FlattenSeq
<1>4. L = 0 => FlattenSeq(s) = <<>>
  <2>1. L = 0 => s = <<>>
    OBVIOUS
  <2> QED BY <2>1 DEF FlattenSeq
<1> HIDE DEF f, L
<1>5. \A i \in 1..L : F[i] = IF i = 1 THEN s[i] ELSE F[i-1] \o s[i]
  <2> TAKE i \in 1..L
  <2>1. i \in 0..L /\ i # 0 /\ (i # 1 => i - 1 \in 0..L /\ i - 1 # 0)
    BY <1>1
  <2>2. f[i] = IF i = 1 THEN s[i] ELSE f[i-1] \o s[i]
    BY <1>2
  <2> QED BY <2>1, <2>2
<1>6. F[0] = <<>> /\ F[L] = FlattenSeq(s)
  <2>1. 0 \in 0..L /\ L \in 0..L
    BY <1>1
  <2> QED BY <1>3, <1>4, <2>1
<1>7. F = [i \in 0..L |-> F[i]]
  OBVIOUS
<1> HIDE DEF F
<1>8. \A i \in 1..L : F[i - 1] \in Seq(S) => F[i] \in Seq(S) /\ F[i] = F[i - 1] \o s[i]
  <2> TAKE i \in 1..L
  <2>1. i = 1 => F[i] = <<>> \o s[i]
    <3>1. s[i] \in Seq(S)
      BY <1>1
    <3> QED BY <1>5, <3>1
  <2>2. s[i] \in Seq(S) /\ (i = 1 => F[i - 1] = <<>>)
    BY <1>1, <1>6
  <2>3. F[i] = F[i - 1] \o s[i]
    BY <1>5, <2>1, <2>2
  <2> QED BY <2>2, <2>3
<1>9. 0..L \subseteq {i \in 0..L : F[i] \in Seq(S)}
  <2> DEFINE Q == {i \in 0..L : F[i] \in Seq(S)}
  <2>1. 0 \in Q
    <3>1. 0 \in 0..L /\ <<>> \in Seq(S)
      BY <1>1
    <3> QED BY <1>6, <3>1
  <2>2. ASSUME NEW i \in 0..(L - 1), i \in Q PROVE i + 1 \in Q
    <3>1. i + 1 \in 1..L /\ (i + 1) - 1 = i /\ i + 1 \in 0..L
      BY <1>1
    <3> QED BY <1>8, <2>2, <3>1
  <2> HIDE DEF Q
  <2> QED BY <1>1, <2>1, <2>2, InductionTo DEF Q
<1>10. F \in [0..L -> Seq(S)]
  BY <1>7, <1>9
<1>11. FlattenedBy(s, F)
  <2>1. \A i \in 0..L : i = 0 \/ (i \in 1..L /\ i - 1 \in 0..L)
    BY <1>1
  <2>2. \A i \in 0..L : F[i] = IF i = 0 THEN <<>> ELSE F[i - 1] \o s[i]
    BY <1>6, <1>8, <1>10, <2>1
  <2> QED BY <1>6, <2>2 DEF FlattenedBy, L
<1> QED BY <1>10, <1>11 DEF L

\* It is a sequence over the same elements.
LEMMA FlattenType ==
  ASSUME NEW S, NEW s \in Seq(Seq(S))
  PROVE  FlattenSeq(s) \in Seq(S)
<1>1. Len(s) \in 0..Len(s)
  OBVIOUS
<1> QED BY <1>1, FlattenSteps DEF FlattenedBy

-----------------------------------------------------------------------------
(* Keys.  A key is in a set whose members have theirs as subkeys: this     *)
(* says it of a tree of any depth.                                         *)

Closed(K) ==
  \A k \in K : k = [name |-> k.name, text |-> k.text, subs |-> k.subs] /\ k.subs \in Seq(K)
IsKey(key) == \E K : key \in K /\ Closed(K)

\* A key has a name, a string and a sequence of subkeys, which are keys.
LEMMA KeyFields ==
  ASSUME NEW key, IsKey(key)
  PROVE  /\ key = [name |-> key.name, text |-> key.text, subs |-> key.subs]
         /\ Len(key.subs) \in Nat /\ DOMAIN key.subs = 1..Len(key.subs)
         /\ \E K : key.subs \in Seq(K) /\ Closed(K)
         /\ \A i \in DOMAIN key.subs : IsKey(key.subs[i])
<1>1. PICK K : key \in K /\ Closed(K)
  BY DEF IsKey
<1>2. key = [name |-> key.name, text |-> key.text, subs |-> key.subs]
  BY <1>1 DEF Closed
<1>3. key.subs \in Seq(K)
  BY <1>1 DEF Closed
<1>4. Len(key.subs) \in Nat /\ DOMAIN key.subs = 1..Len(key.subs)
  BY <1>3
<1>5. \A i \in DOMAIN key.subs : key.subs[i] \in K
  BY <1>3
<1> QED BY <1>1, <1>2, <1>3, <1>4, <1>5 DEF IsKey

\* Over keys there are keys.
LEMMA KeyOver ==
  ASSUME NEW name, NEW text, NEW subs, NEW S, subs \in Seq(S),
         \A i \in 1..Len(subs) : IsKey(subs[i])
  PROVE  IsKey(Key(name, text, subs))
<1> DEFINE Of(i) == CHOOSE K : subs[i] \in K /\ Closed(K)
           A == UNION {Of(i) : i \in 1..Len(subs)}
           key == Key(name, text, subs)
           B == A \cup {key}
<1>1. \A i \in 1..Len(subs) : subs[i] \in Of(i) /\ Closed(Of(i))
  BY DEF IsKey
<1> HIDE DEF Of
<1>2. Closed(A)
  <2> SUFFICES ASSUME NEW i \in 1..Len(subs), NEW k \in Of(i)
               PROVE  /\ k = [name |-> k.name, text |-> k.text, subs |-> k.subs]
                      /\ k.subs \in Seq(A)
    BY DEF Closed
  <2>1. k = [name |-> k.name, text |-> k.text, subs |-> k.subs] /\ k.subs \in Seq(Of(i))
    BY <1>1 DEF Closed
  <2>2. Of(i) \subseteq A
    OBVIOUS
  <2>3. k.subs \in Seq(A)
    BY <2>1, <2>2
  <2> QED BY <2>1, <2>3
<1>3. subs \in Seq(A)
  <2>1. \A i \in 1..Len(subs) : subs[i] \in A
    BY <1>1
  <2> HIDE DEF A
  <2> QED BY <2>1
<1> HIDE DEF A
<1>4. \A s \in Seq(A) : s \in Seq(B)
  OBVIOUS
<1>5. key = [name |-> key.name, text |-> key.text, subs |-> key.subs] /\ key.subs \in Seq(B)
  BY <1>3, <1>4 DEF Key
<1>6. Closed(B)
  <2> HIDE DEF key
  <2> QED BY <1>2, <1>4, <1>5 DEF Closed
<1> QED BY <1>6 DEF IsKey

\* A key with another subkey in the place of one or at the end, or with another text.
LEMMA KeyChanged ==
  ASSUME NEW key, IsKey(key), NEW sub, IsKey(sub)
  PROVE  /\ IsKey([key EXCEPT !.subs = Append(@, sub)])
         /\ \A i \in DOMAIN key.subs : IsKey([key EXCEPT !.subs[i] = sub])
<1>1. /\ key = [name |-> key.name, text |-> key.text, subs |-> key.subs]
      /\ Len(key.subs) \in Nat /\ DOMAIN key.subs = 1..Len(key.subs)
      /\ \A i \in DOMAIN key.subs : IsKey(key.subs[i])
  BY KeyFields
<1>2. PICK K : key.subs \in Seq(K)
  BY KeyFields
<1> DEFINE S == K \cup {sub}
           subs == key.subs
<1>3. subs \in Seq(S)
  BY <1>2
<1>4. sub \in S
  OBVIOUS
<1> HIDE DEF S
<1>5. IsKey([key EXCEPT !.subs = Append(@, sub)])
  <2> DEFINE new == Append(subs, sub)
  <2>1. /\ new \in Seq(S) /\ Len(new) = Len(subs) + 1
        /\ \A i \in 1..Len(new) : new[i] = IF i = Len(subs) + 1 THEN sub ELSE subs[i]
    BY <1>3, <1>4, AppendProperties
  <2>2. [key EXCEPT !.subs = Append(@, sub)] = Key(key.name, key.text, new)
    BY <1>1 DEF Key
  <2> HIDE DEF new
  <2>3. \A i \in 1..Len(new) : IsKey(new[i])
    BY <1>1, <2>1
  <2>4. IsKey(Key(key.name, key.text, new))
    BY <1>1, <2>1, <2>3, KeyOver
  <2> QED BY <2>2, <2>4
<1>6. ASSUME NEW i \in DOMAIN key.subs PROVE IsKey([key EXCEPT !.subs[i] = sub])
  <2> DEFINE new == [subs EXCEPT ![i] = sub]
  <2>1. /\ new \in Seq(S) /\ Len(new) = Len(subs)
        /\ \A j \in 1..Len(new) : new[j] = IF j = i THEN sub ELSE subs[j]
    BY <1>1, <1>3, <1>4, <1>6
  <2>2. [key EXCEPT !.subs[i] = sub] = Key(key.name, key.text, new)
    BY <1>1 DEF Key
  <2> HIDE DEF new
  <2>3. \A j \in 1..Len(new) : IsKey(new[j])
    BY <1>1, <2>1
  <2>4. IsKey(Key(key.name, key.text, new))
    BY <1>1, <2>1, <2>3, KeyOver
  <2> QED BY <2>2, <2>4
<1> QED BY <1>5, <1>6

\* A key with another string is a key.
LEMMA KeyWithText ==
  ASSUME NEW key, IsKey(key), NEW text
  PROVE  IsKey([key EXCEPT !.text = text])
<1>1. /\ key = [name |-> key.name, text |-> key.text, subs |-> key.subs]
      /\ DOMAIN key.subs = 1..Len(key.subs)
      /\ \A i \in DOMAIN key.subs : IsKey(key.subs[i])
  BY KeyFields
<1>2. PICK K : key.subs \in Seq(K)
  BY KeyFields
<1>3. IsKey(Key(key.name, text, key.subs))
  BY <1>1, <1>2, KeyOver
<1>4. [key EXCEPT !.text = text] = Key(key.name, text, key.subs)
  BY <1>1 DEF Key
<1> QED BY <1>3, <1>4

\* A key without subkeys is a key, with a string or without.
LEMMA PlainKeys ==
  ASSUME NEW name, NEW text
  PROVE  IsKey(Section(name, <<>>)) /\ IsKey(String(name, text))
<1>1. <<>> \in Seq({}) /\ 1..Len(<<>>) = {}
  OBVIOUS
<1>2. IsKey(Key(name, NoText, <<>>)) /\ IsKey(Key(name, text, <<>>))
  BY <1>1, KeyOver
<1> QED BY <1>2 DEF Section, String

\* The files a player leaves are written from keys.
LEMMA FileTreesKeys == \A key \in FileTrees : IsKey(key)
<1>1. ASSUME NEW K, \A k \in K : IsKey(k), NEW key \in KeysOver(K) PROVE IsKey(key)
  <2>1. key \in [name : STRING, text : STRING, subs : Seq(K)]
    BY <1>1 DEF KeysOver
  <2>2. key = Key(key.name, key.text, key.subs)
    BY <2>1 DEF Key
  <2>3. key.subs \in Seq(K) /\ \A i \in 1..Len(key.subs) : IsKey(key.subs[i])
    <3>1. key.subs \in Seq(K)
      BY <2>1
    <3>2. \A i \in 1..Len(key.subs) : key.subs[i] \in K
      BY <3>1
    <3> QED BY <1>1, <3>1, <3>2
  <2> HIDE DEF Key
  <2>4. IsKey(Key(key.name, key.text, key.subs))
    BY <2>2, <2>3, KeyOver
  <2> QED BY <2>2, <2>4
<1> DEFINE K1 == KeysOver({})
           K2 == KeysOver(K1)
           K3 == KeysOver(K2)
           K4 == KeysOver(K3)
<1>2. \A k \in K1 : IsKey(k)
  BY <1>1
<1> HIDE DEF K1
<1>3. \A k \in K2 : IsKey(k)
  BY <1>1, <1>2
<1> HIDE DEF K2
<1>4. \A k \in K3 : IsKey(k)
  BY <1>1, <1>3
<1> HIDE DEF K3
<1>5. \A k \in K4 : IsKey(k)
  BY <1>1, <1>4
<1> HIDE DEF K4
<1> QED BY <1>1, <1>5 DEF FileTrees, K1, K2, K3, K4

-----------------------------------------------------------------------------
(* What is written are tokens in a sequence.                               *)

IsSequence(s) == \E S : s \in Seq(S)

\* A function on the numbers from 1 is a sequence.
LEMMA FunctionIsSequence ==
  ASSUME NEW n \in Nat, NEW f, f = [i \in 1..n |-> f[i]]
  PROVE  IsSequence(f) /\ Len(f) = n /\ f \in Seq({f[i] : i \in 1..n})
<1> DEFINE S == {f[i] : i \in 1..n}
<1>1. \A i \in 1..n : f[i] \in S
  OBVIOUS
<1> HIDE DEF S
<1>2. f \in [1..n -> S]
  BY <1>1
<1>3. f \in Seq(S) /\ Len(f) = n
  BY <1>2, SeqDef
<1> QED BY <1>3 DEF IsSequence, S

\* One sequence after another is a sequence.
LEMMA ConcatIsSequence ==
  ASSUME NEW s, NEW t, IsSequence(s), IsSequence(t)
  PROVE  IsSequence(s \o t) /\ Len(s \o t) = Len(s) + Len(t)
<1>1. PICK S : s \in Seq(S)
  BY DEF IsSequence
<1>2. PICK T : t \in Seq(T)
  BY DEF IsSequence
<1> DEFINE U == S \cup T
<1>3. s \in Seq(U) /\ t \in Seq(U)
  BY <1>1, <1>2
<1> HIDE DEF U
<1>4. s \o t \in Seq(U) /\ Len(s \o t) = Len(s) + Len(t)
  BY <1>3
<1> QED BY <1>4 DEF IsSequence

\* So are several.
LEMMA FlattenIsSequence ==
  ASSUME NEW n \in Nat, NEW s, s = [i \in 1..n |-> s[i]], \A i \in 1..n : IsSequence(s[i])
  PROVE  IsSequence(FlattenSeq(s)) /\ \E S : s \in Seq(Seq(S))
<1> DEFINE Of(i) == CHOOSE S : s[i] \in Seq(S)
           U == UNION {Of(i) : i \in 1..n}
<1>1. \A i \in 1..n : s[i] \in Seq(Of(i))
  BY DEF IsSequence
<1> HIDE DEF Of
<1>2. \A i \in 1..n : s[i] \in Seq(U)
  <2> TAKE i \in 1..n
  <2>1. Of(i) \subseteq U
    OBVIOUS
  <2> HIDE DEF U
  <2>2. s[i] \in Seq(Of(i))
    BY <1>1
  <2> QED BY <2>1, <2>2
<1> HIDE DEF U
<1>3. s \in [1..n -> Seq(U)]
  BY <1>2
<1>4. s \in Seq(Seq(U))
  BY <1>3, SeqDef
<1>5. FlattenSeq(s) \in Seq(U)
  BY <1>4, FlattenType
<1> QED BY <1>4, <1>5 DEF IsSequence

\* A sequence of n.
IsList(s, n) == s = [i \in 1..n |-> s[i]]

\* What there is of a list that is written after each of its parts.
PartByPart(F, n, T, S) ==
  /\ F[0] = <<>> /\ F[n] = FlattenSeq(T)
  /\ \A i \in 0..n : F[i] \in Seq(S)
  /\ \A i \in 0..(n - 1) : F[i + 1] = F[i] \o T[i + 1] /\ T[i + 1] \in Seq(S)

\* A list of sequences is put together part by part.
LEMMA FlattenParts ==
  ASSUME NEW n \in Nat, NEW T, IsList(T, n), \A i \in 1..n : IsSequence(T[i])
  PROVE  \E S, F : PartByPart(F, n, T, S)
<1>1. PICK S : T \in Seq(Seq(S))
  BY FlattenIsSequence DEF IsList
<1>2. PICK F \in [0..Len(T) -> Seq(S)] : FlattenedBy(T, F)
  BY <1>1, FlattenSteps
<1>3. Len(T) = n
  BY <1>1, FunctionIsSequence DEF IsList
<1>4. 0 \in 0..n /\ \A i \in 0..(n - 1) : i + 1 \in 0..n /\ i + 1 # 0 /\ (i + 1) - 1 = i /\ i + 1 \in 1..n
  OBVIOUS
<1>5. \A i \in 1..n : T[i] \in Seq(S)
  BY <1>1, <1>3
<1>6. PartByPart(F, n, T, S)
  BY <1>2, <1>3, <1>4, <1>5 DEF FlattenedBy, PartByPart
<1> QED BY <1>6

\* A key is written as a sequence of tokens.
LEMMA WrittenKeyType ==
  ASSUME NEW sub, NEW below, IsSequence(below)
  PROVE  IsSequence(WrittenKey(sub, below))
<1>1. /\ IsSequence(<<>>) /\ IsSequence(<<Str(sub.name), Str(sub.text)>>)
      /\ IsSequence(<<Str(sub.name), Open>>) /\ IsSequence(<<Close>>)
  <2>1. /\ <<>> \in Seq({}) /\ <<Str(sub.name), Str(sub.text)>> \in Seq({Str(sub.name), Str(sub.text)})
        /\ <<Str(sub.name), Open>> \in Seq({Str(sub.name), Open}) /\ <<Close>> \in Seq({Close})
    OBVIOUS
  <2> QED BY <2>1 DEF IsSequence
<1>2. IsSequence(<<Str(sub.name), Open>> \o below \o <<Close>>)
  BY <1>1, ConcatIsSequence
<1> QED BY <1>1, <1>2 DEF WrittenKey

\* So are its subkeys, at every indent.
LEMMA WrittenType ==
  ASSUME NEW key, IsKey(key)
  PROVE  /\ IsSequence(Written3(key)) /\ IsSequence(Written2(key))
         /\ IsSequence(Written1(key)) /\ IsSequence(Written(key))
<1>1. ASSUME NEW k, IsKey(k) PROVE DOMAIN k.subs = 1..Len(k.subs) /\ Len(k.subs) \in Nat
                                   /\ \A i \in DOMAIN k.subs : IsKey(k.subs[i])
  BY <1>1, KeyFields
<1>2. IsSequence(<<>>)
  <2>1. <<>> \in Seq({})
    OBVIOUS
  <2> QED BY <2>1 DEF IsSequence
<1>3. ASSUME NEW k, IsKey(k) PROVE IsSequence(Written3(k))
  <2> DEFINE s == [i \in DOMAIN k.subs |-> WrittenKey(k.subs[i], <<>>)]
  <2>1. s = [i \in 1..Len(k.subs) |-> s[i]] /\ Len(k.subs) \in Nat
    BY <1>1, <1>3
  <2>2. \A i \in 1..Len(k.subs) : IsSequence(s[i])
    BY <1>1, <1>2, <1>3, WrittenKeyType
  <2> HIDE DEF s
  <2>3. IsSequence(FlattenSeq(s))
    BY <2>1, <2>2, FlattenIsSequence
  <2> QED BY <2>3 DEF Written3, s
<1>4. ASSUME NEW k, IsKey(k) PROVE IsSequence(Written2(k))
  <2> DEFINE s == [i \in DOMAIN k.subs |-> WrittenKey(k.subs[i], Written3(k.subs[i]))]
  <2>1. s = [i \in 1..Len(k.subs) |-> s[i]] /\ Len(k.subs) \in Nat
    BY <1>1, <1>4
  <2>2. \A i \in 1..Len(k.subs) : IsSequence(s[i])
    BY <1>1, <1>3, <1>4, WrittenKeyType
  <2> HIDE DEF s
  <2>3. IsSequence(FlattenSeq(s))
    BY <2>1, <2>2, FlattenIsSequence
  <2> QED BY <2>3 DEF Written2, s
<1>5. ASSUME NEW k, IsKey(k) PROVE IsSequence(Written1(k))
  <2> DEFINE s == [i \in DOMAIN k.subs |-> WrittenKey(k.subs[i], Written2(k.subs[i]))]
  <2>1. s = [i \in 1..Len(k.subs) |-> s[i]] /\ Len(k.subs) \in Nat
    BY <1>1, <1>5
  <2>2. \A i \in 1..Len(k.subs) : IsSequence(s[i])
    BY <1>1, <1>4, <1>5, WrittenKeyType
  <2> HIDE DEF s
  <2>3. IsSequence(FlattenSeq(s))
    BY <2>1, <2>2, FlattenIsSequence
  <2> QED BY <2>3 DEF Written1, s
<1> DEFINE s == [i \in DOMAIN key.subs |-> WrittenKey(key.subs[i], Written1(key.subs[i]))]
<1>6. s = [i \in 1..Len(key.subs) |-> s[i]] /\ Len(key.subs) \in Nat
  BY <1>1
<1>7. \A i \in 1..Len(key.subs) : IsSequence(s[i])
  BY <1>1, <1>5, WrittenKeyType
<1> HIDE DEF s
<1>8. IsSequence(FlattenSeq(s))
  BY <1>6, <1>7, FlattenIsSequence
<1> QED BY <1>3, <1>4, <1>5, <1>8 DEF Written, s

\* What a process that died has written is a sequence of tokens.
LEMMA TornType ==
  ASSUME NEW tokens, IsSequence(tokens), NEW f \in TornFiles(tokens)
  PROVE  IsSequence(f)
<1>1. PICK S : tokens \in Seq(S)
  BY DEF IsSequence
<1> DEFINE U == S \cup {Str(CutText), Str(NoText)}
<1>2. PICK n \in 0..(Len(tokens) - 1) :
        LET front == SubSeq(tokens, 1, n) IN
        f = front \/ f = Append(front, Str(CutText)) \/ f = Append(front, Str(NoText))
  BY DEF TornFiles
<1>3. SubSeq(tokens, 1, n) \in Seq(U)
  <2>1. tokens \in Seq(U) /\ n \in 0..Len(tokens) /\ Len(tokens) \in Nat
    BY <1>1, <1>2
  <2> HIDE DEF U
  <2> QED BY <2>1, SubSeqProperties
<1>4. f \in Seq(U)
  <2>1. Str(CutText) \in U /\ Str(NoText) \in U
    OBVIOUS
  <2> HIDE DEF U
  <2> QED BY <1>2, <1>3, <2>1
<1> QED BY <1>4 DEF IsSequence

-----------------------------------------------------------------------------
(* Parsing gives keys, of whatever tokens.                                 *)

\* There is a least one of some numbers.
LEMMA LeastOne ==
  ASSUME NEW S \in SUBSET Nat, S # {}
  PROVE  \E k \in S : \A j \in S : k <= j
<1>1. PICK k \in S : \A j \in S : <<j, k>> \notin LessThan
  <2>1. IsWellFoundedOn(LessThan, Nat)
    BY NatLessThanWellFounded DEF OpToRel, LessThan
  <2> QED BY <2>1, WFMin
<1>2. ASSUME NEW j \in S PROVE k <= j
  <2>1. j \in Nat /\ k \in Nat
    OBVIOUS
  <2>2. j < k => <<j, k>> \in LessThan
    BY <2>1 DEF LessThan
  <2> QED BY <1>1, <2>1, <2>2
<1> QED BY <1>2

\* FindOrCreateSubkey.
LEMMA FoundFacts ==
  ASSUME NEW key, IsKey(key), NEW name
  PROVE  /\ IsKey(FoundOrCreated(key, name))
         /\ IndexOf(key, name) \in DOMAIN FoundOrCreated(key, name).subs
         /\ Named(key, name) = {} =>
              /\ IndexOf(key, name) = Len(key.subs) + 1
              /\ FoundOrCreated(key, name) = [key EXCEPT !.subs = Append(@, Section(name, <<>>))]
<1> DEFINE new == [key EXCEPT !.subs = Append(@, Section(name, <<>>))]
           n == Len(key.subs)
<1>1. /\ key = [name |-> key.name, text |-> key.text, subs |-> key.subs]
      /\ n \in Nat /\ DOMAIN key.subs = 1..n /\ IsSequence(key.subs)
  BY KeyFields DEF IsSequence
<1>2. IsKey(new)
  BY KeyChanged, PlainKeys
<1>3. CASE Named(key, name) # {}
  <2> DEFINE S == Named(key, name)
  <2>1. S \in SUBSET Nat /\ S \subseteq DOMAIN key.subs
    BY <1>1 DEF Named
  <2>2. \E i \in S : \A j \in S : i <= j
    BY <1>3, <2>1, LeastOne
  <2>3. IndexOf(key, name) \in S
    BY <1>3, <2>2 DEF IndexOf
  <2>4. FoundOrCreated(key, name) = key
    BY <2>1, <2>3 DEF FoundOrCreated
  <2> QED BY <1>3, <2>1, <2>3, <2>4
<1>4. CASE Named(key, name) = {}
  <2>1. IndexOf(key, name) = n + 1
    BY <1>4 DEF IndexOf
  <2>2. n + 1 \notin DOMAIN key.subs
    BY <1>1
  <2>3. FoundOrCreated(key, name) = new
    BY <2>1, <2>2 DEF FoundOrCreated
  <2>4. new.subs = Append(key.subs, Section(name, <<>>))
    BY <1>1
  <2>5. DOMAIN Append(key.subs, Section(name, <<>>)) = 1..(n + 1)
    <3> DEFINE sub == Section(name, <<>>)
    <3>1. PICK S : key.subs \in Seq(S)
      BY <1>1 DEF IsSequence
    <3> DEFINE U == S \cup {sub}
    <3>2. key.subs \in Seq(U) /\ sub \in U
      BY <3>1
    <3> HIDE DEF sub, U
    <3>3. Append(key.subs, sub) \in Seq(U) /\ Len(Append(key.subs, sub)) = n + 1
      BY <3>2
    <3>4. DOMAIN Append(key.subs, sub) = 1..(n + 1)
      BY <3>3
    <3> QED BY <3>4 DEF sub
  <2>6. n + 1 \in 1..(n + 1)
    BY <1>1
  <2> QED BY <1>2, <2>1, <2>3, <2>4, <2>5, <2>6
<1> QED BY <1>3, <1>4

\* A trace of the parser on f.
IsTrace(P, f, key) ==
  /\ P[0] = Progress(<<>>, key, 0, "name")
  /\ \A n \in 1..Len(f) : P[n] = Parsed(P[n - 1], f[n])
  /\ P[Len(f)] = Parse(f, key)

\* Parse goes through the tokens one by one.
LEMMA ParseSteps ==
  ASSUME NEW f, NEW key, Len(f) \in Nat
  PROVE  \E P : IsTrace(P, f, key)
<1> DEFINE Rec(n, p) == p = [k \in 0..n |-> IF k = 0 THEN Progress(<<>>, key, 0, "name")
                                            ELSE Parsed(p[k - 1], f[k])]
           Solved == {n \in Nat : \E p : Rec(n, p)}
<1>1. 0 \in Solved
  <2> DEFINE p == [k \in 0..0 |-> Progress(<<>>, key, 0, "name")]
  <2>1. p = [k \in 0..0 |-> IF k = 0 THEN Progress(<<>>, key, 0, "name")
                            ELSE Parsed(p[k - 1], f[k])]
    <3>1. \A k \in 0..0 : k = 0
      OBVIOUS
    <3> QED BY <3>1
  <2>2. Rec(0, p)
    BY <2>1
  <2> HIDE DEF Rec
  <2> QED BY <2>2
<1>2. ASSUME NEW m \in Solved PROVE m + 1 \in Solved
  <2>1. PICK p : Rec(m, p)
    OBVIOUS
  <2> DEFINE q == [k \in 0..(m + 1) |-> IF k = m + 1 THEN Parsed(p[m], f[m + 1]) ELSE p[k]]
  <2>2. ASSUME NEW k \in 0..(m + 1)
        PROVE  q[k] = IF k = 0 THEN Progress(<<>>, key, 0, "name") ELSE Parsed(q[k - 1], f[k])
    <3>1. k # 0 => k - 1 \in 0..m /\ k - 1 # m + 1 /\ k - 1 \in 0..(m + 1)
      OBVIOUS
    <3>2. k # 0 => q[k - 1] = p[k - 1]
      BY <3>1
    <3>3. CASE k = m + 1
      <4>1. k # 0 /\ k - 1 = m /\ q[k] = Parsed(p[m], f[m + 1])
        BY <3>3
      <4> HIDE DEF q
      <4> QED BY <3>2, <3>3, <4>1
    <3>4. CASE k # m + 1
      <4>1. k \in 0..m /\ q[k] = p[k]
        BY <3>4
      <4>2. p[k] = IF k = 0 THEN Progress(<<>>, key, 0, "name") ELSE Parsed(p[k - 1], f[k])
        BY <2>1, <4>1
      <4> HIDE DEF q
      <4> QED BY <3>2, <4>1, <4>2
    <3> QED BY <3>3, <3>4
  <2>3. q = [k \in 0..(m + 1) |-> q[k]]
    OBVIOUS
  <2> HIDE DEF q
  <2>4. Rec(m + 1, q)
    BY <2>2, <2>3
  <2> HIDE DEF Rec
  <2> QED BY <2>4
<1> HIDE DEF Rec
<1>3. Solved = Nat
  BY <1>1, <1>2, Induction
<1> DEFINE P == CHOOSE p : Rec(Len(f), p)
<1>4. Rec(Len(f), P)
  BY <1>3
<1>5. Parse(f, key) = P[Len(f)]
  BY DEF Parse, Rec
<1> HIDE DEF P
<1>6. P = [k \in 0..Len(f) |-> IF k = 0 THEN Progress(<<>>, key, 0, "name")
                               ELSE Parsed(P[k - 1], f[k])]
  BY <1>4 DEF Rec
<1>7. 0 \in 0..Len(f) /\ \A n \in 1..Len(f) : n \in 0..Len(f) /\ n # 0
  OBVIOUS
<1>8. IsTrace(P, f, key)
  BY <1>5, <1>6, <1>7 DEF IsTrace
<1> QED BY <1>8

\* The parser is in keys.
IsLevel(level) == IsKey(level.key) /\ level.current \in DOMAIN level.key.subs
ProgressOK(p) ==
  /\ p = Progress(p.outer, p.key, p.current, p.expects)
  /\ IsSequence(p.outer) /\ \A i \in 1..Len(p.outer) : IsLevel(p.outer[i])
  /\ IsKey(p.key)
  /\ p.expects = "value" => p.current \in DOMAIN p.key.subs

\* What the parser keeps is right if its parts are.
LEMMA MadeOK ==
  ASSUME NEW outer, NEW key, NEW current, NEW expects,
         IsSequence(outer), \A i \in 1..Len(outer) : IsLevel(outer[i]), IsKey(key),
         expects = "value" => current \in DOMAIN key.subs
  PROVE  ProgressOK(Progress(outer, key, current, expects))
BY DEF ProgressOK, Progress

\* It stays right, whatever the next token is.
LEMMA ParsedOK ==
  ASSUME NEW p, ProgressOK(p), NEW token
  PROVE  ProgressOK(Parsed(p, token))
<1> SUFFICES ASSUME NEW q, q = Parsed(p, token) PROVE ProgressOK(q)
  OBVIOUS
<1>0. /\ IsSequence(p.outer) /\ \A i \in 1..Len(p.outer) : IsLevel(p.outer[i])
      /\ IsKey(p.key)
  BY DEF ProgressOK
<1>1. PICK S : p.outer \in Seq(S)
  BY DEF ProgressOK, IsSequence
<1>2. CASE p.expects = "name" /\ token.is = "string"
  <2>1. q = Progress(p.outer, FoundOrCreated(p.key, token.text), IndexOf(p.key, token.text), "value")
    BY <1>2 DEF Parsed
  <2> QED BY <1>0, <2>1, FoundFacts, MadeOK
<1>3. CASE p.expects = "name" /\ token.is = "}" /\ p.outer # <<>>
  <2> DEFINE level == Last(p.outer)
  <2>1. q = Progress(Front(p.outer), Holding(level, p.key), level.current, "name")
    BY <1>3 DEF Parsed
  <2>2. Len(p.outer) \in 1..Len(p.outer)
    <3>1. p.outer \in Seq(S) /\ p.outer # <<>>
      BY <1>1, <1>3
    <3> QED BY <3>1
  <2>3. IsLevel(level)
    BY <2>2 DEF ProgressOK, Last
  <2>4. /\ Front(p.outer) \in Seq(S) /\ Len(Front(p.outer)) = Len(p.outer) - 1
        /\ \A i \in 1..Len(Front(p.outer)) : Front(p.outer)[i] = p.outer[i]
    BY <1>1, <2>2 DEF Front
  <2>5. \A i \in 1..Len(Front(p.outer)) : IsLevel(Front(p.outer)[i])
    BY <2>2, <2>4 DEF ProgressOK
  <2>6. IsKey(Holding(level, p.key))
    BY <2>3, KeyChanged DEF Holding, IsLevel, ProgressOK
  <2> HIDE DEF level
  <2>7. IsSequence(Front(p.outer))
    BY <2>4 DEF IsSequence
  <2> QED BY <2>1, <2>5, <2>6, <2>7, MadeOK
<1>4. CASE p.expects = "name" /\ token.is = "}" /\ p.outer = <<>>
  <2>1. q = [p EXCEPT !.expects = "end"]
    BY <1>4 DEF Parsed
  <2>2. q = Progress(p.outer, p.key, p.current, "end")
    BY <2>1 DEF ProgressOK, Progress
  <2> QED BY <1>0, <2>2, MadeOK
<1>5. CASE p.expects = "value" /\ token.is = "string"
  <2> DEFINE i == p.current
  <2>1. q = Progress(p.outer, [p.key EXCEPT !.subs[i].text = token.text], i, "name")
    BY <1>5 DEF Parsed
  <2>2. i \in DOMAIN p.key.subs /\ IsKey(p.key)
    BY <1>5 DEF ProgressOK
  <2>3. IsKey(p.key.subs[i])
    BY <2>2, KeyFields
  <2>4. IsKey([p.key.subs[i] EXCEPT !.text = token.text])
    BY <2>3, KeyWithText
  <2>5. p.key = [name |-> p.key.name, text |-> p.key.text, subs |-> p.key.subs]
    BY <2>2, KeyFields
  <2>6. [p.key EXCEPT !.subs[i].text = token.text]
          = [p.key EXCEPT !.subs[i] = [p.key.subs[i] EXCEPT !.text = token.text]]
    BY <2>2, <2>5
  <2>7. IsKey([p.key EXCEPT !.subs[i].text = token.text])
    BY <2>2, <2>4, <2>6, KeyChanged
  <2> HIDE DEF i
  <2> QED BY <1>0, <2>1, <2>7, MadeOK
<1>6. CASE p.expects = "value" /\ token.is = "{"
  <2> DEFINE level == [key |-> p.key, current |-> p.current]
             U == S \cup {level}
  <2>1. q = Progress(Append(p.outer, level), p.key.subs[p.current], 0, "name")
    BY <1>6 DEF Parsed
  <2>2. p.current \in DOMAIN p.key.subs /\ IsKey(p.key)
    BY <1>6 DEF ProgressOK
  <2>3. IsKey(p.key.subs[p.current]) /\ IsLevel(level)
    BY <2>2, KeyFields DEF IsLevel
  <2>4. p.outer \in Seq(U) /\ level \in U
    BY <1>1
  <2> HIDE DEF level, U
  <2>5. /\ Append(p.outer, level) \in Seq(U) /\ Len(Append(p.outer, level)) = Len(p.outer) + 1
        /\ \A i \in 1..Len(Append(p.outer, level)) :
             Append(p.outer, level)[i] = IF i = Len(p.outer) + 1 THEN level ELSE p.outer[i]
    BY <2>4, AppendProperties
  <2>6. \A i \in 1..Len(Append(p.outer, level)) : IsLevel(Append(p.outer, level)[i])
    <3>1. \A i \in 1..Len(Append(p.outer, level)) : i = Len(p.outer) + 1 \/ i \in 1..Len(p.outer)
      BY <1>1, <2>5
    <3> QED BY <2>3, <2>5, <3>1 DEF ProgressOK
  <2>7. IsSequence(Append(p.outer, level))
    BY <2>5 DEF IsSequence
  <2> QED BY <2>1, <2>3, <2>6, <2>7, MadeOK
<1>7. CASE p.expects = "end" \/ (p.expects = "name" /\ token.is \notin {"string", "}"})
           \/ (p.expects = "value" /\ token.is \notin {"string", "{"})
           \/ p.expects \notin {"name", "value", "end"}
  <2>1. q = p \/ q = [p EXCEPT !.expects = "error"]
    BY <1>7 DEF Parsed
  <2>2. [p EXCEPT !.expects = "error"] = Progress(p.outer, p.key, p.current, "error")
    BY DEF ProgressOK, Progress
  <2>3. ProgressOK(Progress(p.outer, p.key, p.current, "error"))
    BY <1>0, MadeOK
  <2> QED BY <2>1, <2>2, <2>3
<1> QED BY <1>2, <1>3, <1>4, <1>5, <1>6, <1>7

\* It is right after each token.
LEMMA TraceOK ==
  ASSUME NEW f, NEW key, IsSequence(f), IsKey(key), NEW P, IsTrace(P, f, key)
  PROVE  \A n \in 0..Len(f) : ProgressOK(P[n])
<1>1. Len(f) \in Nat
  BY DEF IsSequence
<1>3. ProgressOK(P[0])
  <2>1. <<>> \in Seq({}) /\ 1..Len(<<>>) = {}
    OBVIOUS
  <2> QED BY <2>1 DEF IsTrace, ProgressOK, Progress, IsSequence
<1> DEFINE Q == {n \in 0..Len(f) : ProgressOK(P[n])}
<1>4. ASSUME NEW n \in 0..(Len(f) - 1), n \in Q PROVE n + 1 \in Q
  <2>1. n + 1 \in 1..Len(f) /\ n + 1 \in 0..Len(f) /\ (n + 1) - 1 = n
    BY <1>1
  <2>2. P[n + 1] = Parsed(P[n], f[n + 1])
    BY <2>1 DEF IsTrace
  <2> QED BY <1>4, <2>1, <2>2, ParsedOK
<1>5. 0 \in Q
  BY <1>1, <1>3
<1> HIDE DEF Q
<1>6. 0..Len(f) \subseteq Q
  BY <1>1, <1>4, <1>5, InductionTo
<1> QED BY <1>6 DEF Q

\* And at the end of the file.
LEMMA ParseOK ==
  ASSUME NEW f, NEW key, IsSequence(f), IsKey(key)
  PROVE  ProgressOK(Parse(f, key))
<1>1. Len(f) \in Nat
  BY DEF IsSequence
<1>2. PICK P : IsTrace(P, f, key)
  BY <1>1, ParseSteps
<1>3. Len(f) \in 0..Len(f)
  BY <1>1
<1> QED BY <1>2, <1>3, TraceOK DEF IsTrace

\* The key that is read in the one around it, and so on to the outermost.
IsWithin(W, p) ==
  /\ W[0] = p.key
  /\ \A n \in 1..Len(p.outer) : W[n] = Holding(p.outer[Len(p.outer) + 1 - n], W[n - 1])
  /\ W[Len(p.outer)] = Outermost(p)

\* The keys the parser is in are closed one by one.
LEMMA OutermostSteps ==
  ASSUME NEW p, Len(p.outer) \in Nat
  PROVE  \E W : IsWithin(W, p)
<1> DEFINE L == Len(p.outer)
           Rec(n, w) == w = [k \in 0..n |-> IF k = 0 THEN p.key
                                            ELSE Holding(p.outer[L + 1 - k], w[k - 1])]
           Solved == {n \in Nat : \E w : Rec(n, w)}
<1>1. 0 \in Solved
  <2> DEFINE w == [k \in 0..0 |-> p.key]
  <2>1. w = [k \in 0..0 |-> IF k = 0 THEN p.key ELSE Holding(p.outer[L + 1 - k], w[k - 1])]
    <3>1. \A k \in 0..0 : k = 0
      OBVIOUS
    <3> QED BY <3>1
  <2>2. Rec(0, w)
    BY <2>1
  <2> HIDE DEF Rec
  <2> QED BY <2>2
<1>2. ASSUME NEW m \in Solved PROVE m + 1 \in Solved
  <2>1. PICK w : Rec(m, w)
    OBVIOUS
  <2> DEFINE v == [k \in 0..(m + 1) |-> IF k = m + 1 THEN Holding(p.outer[L + 1 - k], w[m])
                                        ELSE w[k]]
  <2>2. ASSUME NEW k \in 0..(m + 1)
        PROVE  v[k] = IF k = 0 THEN p.key ELSE Holding(p.outer[L + 1 - k], v[k - 1])
    <3>1. k # 0 => k - 1 \in 0..m /\ k - 1 # m + 1 /\ k - 1 \in 0..(m + 1)
      OBVIOUS
    <3>2. k # 0 => v[k - 1] = w[k - 1]
      BY <3>1
    <3>3. CASE k = m + 1
      <4>1. k # 0 /\ k - 1 = m /\ v[k] = Holding(p.outer[L + 1 - k], w[m])
        BY <3>3
      <4> HIDE DEF v
      <4> QED BY <3>2, <3>3, <4>1
    <3>4. CASE k # m + 1
      <4>1. k \in 0..m /\ v[k] = w[k]
        BY <3>4
      <4>2. w[k] = IF k = 0 THEN p.key ELSE Holding(p.outer[L + 1 - k], w[k - 1])
        BY <2>1, <4>1
      <4> HIDE DEF v
      <4> QED BY <3>2, <4>1, <4>2
    <3> QED BY <3>3, <3>4
  <2>3. v = [k \in 0..(m + 1) |-> v[k]]
    OBVIOUS
  <2> HIDE DEF v
  <2>4. Rec(m + 1, v)
    BY <2>2, <2>3
  <2> HIDE DEF Rec
  <2> QED BY <2>4
<1> HIDE DEF Rec
<1>3. Solved = Nat
  BY <1>1, <1>2, Induction
<1> DEFINE W == CHOOSE w : Rec(L, w)
<1>4. Rec(L, W)
  BY <1>3
<1>5. Outermost(p) = W[L]
  BY DEF Outermost, Rec
<1> HIDE DEF W
<1>6. W = [k \in 0..L |-> IF k = 0 THEN p.key ELSE Holding(p.outer[L + 1 - k], W[k - 1])]
  BY <1>4 DEF Rec
<1>7. 0 \in 0..L /\ \A n \in 1..L : n \in 0..L /\ n # 0
  OBVIOUS
<1>8. IsWithin(W, p)
  BY <1>5, <1>6, <1>7 DEF IsWithin
<1> QED BY <1>8

\* Closing them all leaves a key.
LEMMA OutermostKey ==
  ASSUME NEW p, ProgressOK(p)
  PROVE  /\ IsKey(Outermost(p))
         /\ p.outer = <<>> => Outermost(p) = p.key
<1> DEFINE L == Len(p.outer)
<1>1. /\ L \in Nat /\ \A i \in 1..L : IsLevel(p.outer[i])
      /\ IsKey(p.key)
  BY DEF ProgressOK, IsSequence
<1>2. PICK W : IsWithin(W, p)
  BY <1>1, OutermostSteps
<1> DEFINE Q == {n \in 0..L : IsKey(W[n])}
<1>3. 0 \in Q
  BY <1>1, <1>2 DEF IsWithin
<1>4. ASSUME NEW n \in 0..(L - 1), n \in Q PROVE n + 1 \in Q
  <2> DEFINE level == p.outer[L + 1 - (n + 1)]
  <2>1. n + 1 \in 1..L /\ n + 1 \in 0..L /\ (n + 1) - 1 = n /\ L + 1 - (n + 1) \in 1..L
    BY <1>1
  <2>2. W[n + 1] = Holding(level, W[n])
    BY <1>2, <2>1 DEF IsWithin
  <2>3. IsLevel(level)
    BY <1>1, <2>1
  <2> HIDE DEF level
  <2>4. IsKey(Holding(level, W[n]))
    BY <1>4, <2>3, KeyChanged DEF IsLevel, Holding
  <2> QED BY <2>1, <2>2, <2>4
<1> HIDE DEF Q
<1>5. 0..L \subseteq Q
  BY <1>1, <1>3, <1>4, InductionTo
<1>6. L \in Q
  BY <1>1, <1>5
<1>7. IsKey(Outermost(p))
  BY <1>2, <1>6 DEF Q, IsWithin
<1>8. ASSUME p.outer = <<>> PROVE Outermost(p) = p.key
  <2>1. L = 0
    BY <1>8
  <2> QED BY <1>2, <2>1 DEF IsWithin
<1> QED BY <1>7, <1>8

\* Whatever is in a file, ParseFromFile makes a key of it.
LEMMA FromFileKey ==
  ASSUME NEW f, IsSequence(f), NEW name
  PROVE  IsKey(FromFile(f, name).key)
<1>1. IsKey(Section(name, <<>>))
  BY PlainKeys
<1>2. IsKey(Outermost(Parse(f, Section(name, <<>>))))
  BY <1>1, ParseOK, OutermostKey
<1> QED BY <1>1, <1>2 DEF FromFile, Result

\* GetSubkey.
LEMMA SubsOfKeys ==
  ASSUME NEW key, IsKey(key), NEW name
  PROVE  /\ Len(SubsOf(key, name)) \in Nat
         /\ DOMAIN SubsOf(key, name) = 1..Len(SubsOf(key, name))
         /\ \A i \in DOMAIN SubsOf(key, name) : IsKey(SubsOf(key, name)[i])
<1>1. CASE Named(key, name) = {}
  <2>1. SubsOf(key, name) = <<>>
    BY <1>1 DEF SubsOf
  <2> QED BY <2>1
<1>2. CASE Named(key, name) # {}
  <2>1. Named(key, name) \in SUBSET Nat /\ Named(key, name) \subseteq DOMAIN key.subs
    <3>1. DOMAIN key.subs = 1..Len(key.subs) /\ Len(key.subs) \in Nat
      BY KeyFields
    <3> QED BY <3>1 DEF Named
  <2>2. Min(Named(key, name)) \in Named(key, name)
    <3>1. \E i \in Named(key, name) : \A j \in Named(key, name) : i <= j
      BY <1>2, <2>1, LeastOne
    <3> QED BY <3>1 DEF Min
  <2>3. IsKey(key.subs[Min(Named(key, name))])
    BY <2>1, <2>2, KeyFields
  <2>4. SubsOf(key, name) = key.subs[Min(Named(key, name))].subs
    BY <1>2 DEF SubsOf
  <2> HIDE DEF SubsOf
  <2> QED BY <2>3, <2>4, KeyFields
<1> QED BY <1>1, <1>2

-----------------------------------------------------------------------------
(* Ids.                                                                    *)

\* A number is a multiple and a remainder.
LEMMA Remainder ==
  ASSUME NEW a \in Nat, NEW N \in Nat \ {0}
  PROVE  a % N \in 0..(N - 1) /\ a \div N \in Nat /\ a = N * (a \div N) + (a % N)
OBVIOUS

\* A remainder added to a multiple is the remainder.
LEMMA RemainderOf ==
  ASSUME NEW N \in Nat \ {0}, NEW q \in Nat, NEW h \in 0..(N - 1)
  PROVE  (N * q + h) % N = h
OBVIOUS

\* Going round reaches every id.
LEMMA GoingRound ==
  ASSUME NEW N \in Nat \ {0}, NEW a \in Nat, NEW h \in 0..(N - 1)
  PROVE  \E k \in 0..(N - 1) : (a + k) % N = h
<1> DEFINE q == a \div N
           r == a % N
<1>1. r \in 0..(N - 1) /\ q \in Nat /\ a = N * q + r
  BY Remainder
<1> HIDE DEF q, r
<1>2. CASE r <= h
  <2>1. h - r \in 0..(N - 1) /\ N * q \in Nat
    BY <1>1, <1>2
  <2>2. a + (h - r) = N * q + h
    BY <1>1, <2>1
  <2> QED BY <1>1, <2>1, <2>2, RemainderOf
<1>3. CASE h < r
  <2>1. (h - r) + N \in 0..(N - 1) /\ N * q \in Nat
    BY <1>1, <1>3
  <2>2. N * (q + 1) = N * q + N
    BY <1>1
  <2>3. a + ((h - r) + N) = N * (q + 1) + h
    BY <1>1, <2>1, <2>2
  <2>4. q + 1 \in Nat
    BY <1>1
  <2> QED BY <2>1, <2>3, <2>4, RemainderOf
<1> QED BY <1>1, <1>2, <1>3

\* With fewer items than ids that do not read as default ones, one of those is free.
LEMMA FreeId ==
  ASSUME NEW its, IsFiniteSet(DOMAIN its), Cardinality(DOMAIN its) < FirstDefault
  PROVE  \E high \in 0..(FirstDefault - 1) : ~ Taken(its, high)
<1> SUFFICES ASSUME \A high \in 0..(FirstDefault - 1) : Taken(its, high) PROVE FALSE
  OBVIOUS
<1> DEFINE S == 0..(FirstDefault - 1)
           T == DOMAIN its
           f == [high \in S |-> [low |-> Own, high |-> high]]
<1>1. FirstDefault \in Nat \ {0}
  BY FileAssumption
<1>2. \A high \in S : f[high] \in T
  <2>1. \A high \in S : ~ IsDefaultItemId(high)
    BY <1>1 DEF IsDefaultItemId
  <2> QED BY <2>1 DEF Taken, InUse
<1>3. \A x, y \in S : x # y => f[x] # f[y]
  OBVIOUS
<1>4. f \in [S -> T]
  BY <1>2
<1>5. IsFiniteSet(S) /\ Cardinality(S) = FirstDefault
  BY <1>1, FS_Interval
<1> HIDE DEF S, T, f
<1>6. IsFiniteSet(T) /\ Cardinality(T) < Cardinality(S)
  BY <1>5 DEF T
<1> QED BY <1>3, <1>4, <1>5, <1>6, FS_PigeonHole

\* CreateItem's loop stops at such an id.
LEMMA FirstFreeId ==
  ASSUME NEW its, IsFiniteSet(DOMAIN its), Cardinality(DOMAIN its) < FirstDefault,
         NEW start \in Nat
  PROVE  /\ FirstFree(its, start) \in 0..(IdRange - 1)
         /\ ~ Taken(its, FirstFree(its, start))
         /\ start < IdRange /\ ~ Taken(its, start) => FirstFree(its, start) = start
<1> DEFINE S == {k \in 0..(IdRange - 1) : ~ Taken(its, (start + k) % IdRange)}
<1>1. IdRange \in Nat \ {0} /\ FirstDefault \in 1..(IdRange - 1)
  BY FileAssumption
<1>2. S # {}
  <2>1. PICK high \in 0..(FirstDefault - 1) : ~ Taken(its, high)
    BY FreeId
  <2>2. high \in 0..(IdRange - 1)
    BY <1>1
  <2>3. PICK k \in 0..(IdRange - 1) : (start + k) % IdRange = high
    BY <1>1, <2>2, GoingRound
  <2> QED BY <2>1, <2>3
<1>3. S \in SUBSET Nat
  OBVIOUS
<1>4. \E k \in S : \A j \in S : k <= j
  BY <1>2, <1>3, LeastOne
<1>5. Min(S) \in S /\ \A j \in S : Min(S) <= j
  BY <1>4 DEF Min
<1>6. FirstFree(its, start) = (start + Min(S)) % IdRange
  BY DEF FirstFree
<1> HIDE DEF FirstFree
<1>7. ~ Taken(its, FirstFree(its, start))
  BY <1>5, <1>6
<1>8. FirstFree(its, start) \in 0..(IdRange - 1)
  <2>1. start + Min(S) \in Nat
    BY <1>3, <1>5
  <2> QED BY <1>1, <1>6, <2>1, Remainder
<1>9. ASSUME start < IdRange, ~ Taken(its, start) PROVE FirstFree(its, start) = start
  <2>1. start % IdRange = start
    <3>1. start \in 0..(IdRange - 1) /\ IdRange * 0 + start = start
      BY <1>1, <1>9
    <3> QED BY <1>1, <3>1, RemainderOf
  <2>2. 0 \in S
    <3>1. 0 \in 0..(IdRange - 1) /\ start + 0 = start
      BY <1>1
    <3> QED BY <1>9, <2>1, <3>1
  <2>3. Min(S) = 0
    BY <1>3, <1>5, <2>2
  <2>4. start + 0 = start
    OBVIOUS
  <2> HIDE DEF S
  <2> QED BY <1>6, <2>1, <2>3, <2>4
<1> QED BY <1>7, <1>8, <1>9

-----------------------------------------------------------------------------
(* What is read is an inventory.                                           *)

\* FromString gives a number there is.
LEMMA NumbersKnown ==
  /\ \A text : FromString(text) \in Known
  /\ Known \subseteq Nat /\ 0 \in Known
<1>1. 0 \in Known
  BY FileAssumption
<1>2. \A text \in DOMAIN Numbers : Numbers[text] \in Known
  BY DEF Known, Range
<1>3. Known \subseteq Nat
  BY FileAssumption DEF Known, Range
<1> QED BY <1>1, <1>2, <1>3 DEF FromString

\* What ReadItem makes of a key is an item.
LEMMA ReadItemType ==
  ASSUME NEW key, IsKey(key)
  PROVE  IsItem(ReadItem(key))
<1> DEFINE attributes == SubsOf(key, "attributes")
           equipped == SubsOf(key, "equipped_state")
           A == [def : Known, value : {<<>>} \cup {<<n>> : n \in Known}]
           E == [class : Known, slot : Known]
           a == [i \in DOMAIN attributes |-> SetAttributeString(attributes[i])]
           e == [i \in DOMAIN equipped |-> [class |-> FromString(equipped[i].name),
                                            slot |-> FromString(equipped[i].text)]]
<1>1. /\ Len(attributes) \in Nat /\ DOMAIN attributes = 1..Len(attributes)
      /\ Len(equipped) \in Nat /\ DOMAIN equipped = 1..Len(equipped)
  BY SubsOfKeys
<1>2. \A k : SetAttributeString(k) \in A
  BY NumbersKnown DEF SetAttributeString
<1>3. \A t, u : [class |-> FromString(t), slot |-> FromString(u)] \in E
  BY NumbersKnown
<1>4. ReadItem(key).kind \in Known /\ ReadItem(key).attributes = a /\ ReadItem(key).equipped = e
  BY NumbersKnown DEF ReadItem, GetNumber
<1> HIDE DEF A, E, attributes, equipped
<1>5. a \in [1..Len(attributes) -> A] /\ e \in [1..Len(equipped) -> E]
  BY <1>1, <1>2, <1>3
<1>6. a \in Seq(A) /\ e \in Seq(E)
  BY <1>1, <1>5, SeqDef
<1> QED BY <1>4, <1>6 DEF IsItem, A, E

\* What has been made of the first n keys.
ReadOK(inventory, n) ==
  /\ IsFiniteSet(DOMAIN inventory.items) /\ Cardinality(DOMAIN inventory.items) = n
  /\ \A id \in DOMAIN inventory.items :
       /\ id \in Ids /\ id.low = Own /\ ~ IsDefaultItemId(id.high)
       /\ IsItem(inventory.items[id])
  /\ inventory.last \in Nat
  /\ n <= IdRange - FirstDefault =>
       /\ inventory.last <= FirstDefault + n - 1
       /\ \A id \in DOMAIN inventory.items : id.high <= inventory.last

\* CreateItem, as long as an id is free, adds an item under a new one.
LEMMA CreateAndReadOK ==
  ASSUME NEW n \in Nat, n < FirstDefault, NEW inventory, ReadOK(inventory, n),
         NEW key, IsKey(key)
  PROVE  ReadOK(CreateAndRead(inventory, key), n + 1)
<1> DEFINE given == FromString(key.name)
           next == (inventory.last + 1) % IdRange
           start == IF given = 0 THEN next ELSE given
           lastNow == IF given = 0 THEN next ELSE inventory.last
           high == FirstFree(inventory.items, start)
           id == [low |-> Own, high |-> high]
           new == CreateAndRead(inventory, key)
           D == DOMAIN inventory.items
<1>1. /\ IdRange \in Nat \ {0} /\ FirstDefault \in 1..(IdRange - 1) /\ Own \in Nat
  BY FileAssumption
<1>2. /\ IsFiniteSet(D) /\ Cardinality(D) = n /\ inventory.last \in Nat
      /\ \A i \in D : i \in Ids /\ i.low = Own /\ ~ IsDefaultItemId(i.high) /\ IsItem(inventory.items[i])
  BY DEF ReadOK
<1>3. next \in 0..(IdRange - 1)
  <2>1. inventory.last + 1 \in Nat
    BY <1>2
  <2> QED BY <1>1, <2>1, Remainder
<1>4. start \in Nat /\ lastNow \in Nat
  <2>1. given \in Nat
    BY NumbersKnown
  <2> QED BY <1>2, <1>3, <2>1
<1>5. /\ new.items = [i \in D \cup {id} |-> IF i = id THEN ReadItem(key) ELSE inventory.items[i]]
      /\ new.last = IF high > lastNow THEN high ELSE lastNow
  BY DEF CreateAndRead
<1> HIDE DEF new, start, given
<1>6. high \in 0..(IdRange - 1) /\ ~ IsDefaultItemId(high) /\ id \notin D
  BY <1>2, <1>4, FirstFreeId DEF Taken, InUse
<1>7. high < FirstDefault
  BY <1>1, <1>6 DEF IsDefaultItemId
<1>8. ASSUME n + 1 <= IdRange - FirstDefault
      PROVE  /\ inventory.last <= lastNow /\ lastNow <= inventory.last + 1
             /\ inventory.last <= FirstDefault + n - 1
             /\ \A i \in D : i.high <= inventory.last
  <2>1. n <= IdRange - FirstDefault
    BY <1>1, <1>8
  <2>2. inventory.last <= FirstDefault + n - 1 /\ \A i \in D : i.high <= inventory.last
    BY <2>1 DEF ReadOK
  <2>3. next = inventory.last + 1
    <3>1. inventory.last + 1 \in 0..(IdRange - 1)
      BY <1>1, <1>2, <1>8, <2>2
    <3>2. IdRange * 0 + (inventory.last + 1) = inventory.last + 1
      BY <1>1, <1>2
    <3> QED BY <1>1, <3>1, <3>2, RemainderOf
  <2> HIDE DEF next
  <2>4. inventory.last <= lastNow /\ lastNow <= inventory.last + 1
    BY <1>2, <2>3
  <2> QED BY <2>2, <2>4
<1> HIDE DEF high, lastNow, next
<1>9. new.last \in Nat
  BY <1>4, <1>5, <1>6
<1>10. DOMAIN new.items = D \cup {id}
  BY <1>5
<1>11. IsFiniteSet(D \cup {id}) /\ Cardinality(D \cup {id}) = n + 1
  BY <1>2, <1>6, FS_AddElement
<1>12. ASSUME NEW i \in D \cup {id}
       PROVE  /\ i \in Ids /\ i.low = Own /\ ~ IsDefaultItemId(i.high)
              /\ IsItem(new.items[i])
  <2>1. CASE i = id
    BY <1>1, <1>5, <1>6, <2>1, ReadItemType DEF Ids
  <2>2. CASE i # id
    BY <1>2, <1>5, <1>12, <2>2
  <2> QED BY <2>1, <2>2
<1>13. ASSUME n + 1 <= IdRange - FirstDefault
       PROVE  /\ new.last <= FirstDefault + (n + 1) - 1
              /\ \A i \in D \cup {id} : i.high <= new.last
  <2>1. new.last <= FirstDefault + (n + 1) - 1 /\ new.last >= lastNow /\ new.last >= high
    BY <1>1, <1>2, <1>4, <1>5, <1>6, <1>7, <1>8, <1>13
  <2>2. ASSUME NEW i \in D PROVE i.high <= new.last
    <3>1. i.high \in Nat /\ i.high <= inventory.last /\ inventory.last <= lastNow
      BY <1>1, <1>2, <1>8, <1>13 DEF Ids
    <3> QED BY <1>2, <1>4, <1>9, <2>1, <3>1
  <2> QED BY <2>1, <2>2
<1>14. n + 1 \in Nat
  OBVIOUS
<1> QED BY <1>9, <1>10, <1>11, <1>12, <1>13 DEF ReadOK, new

\* The items of keys, one after the other.
IsReading(R, keys) ==
  /\ R[0] = [items |-> NoItems, last |-> 0]
  /\ \A n \in 1..Len(keys) : R[n] = CreateAndRead(R[n - 1], keys[n])
  /\ R[Len(keys)] = ReadItems(keys)

\* The items are read one after the other.
LEMMA ReadSteps ==
  ASSUME NEW keys, Len(keys) \in Nat
  PROVE  \E R : IsReading(R, keys)
<1> DEFINE none == [items |-> NoItems, last |-> 0]
           Rec(n, r) == r = [k \in 0..n |-> IF k = 0 THEN [items |-> NoItems, last |-> 0]
                                            ELSE CreateAndRead(r[k - 1], keys[k])]
           Solved == {n \in Nat : \E r : Rec(n, r)}
<1>1. 0 \in Solved
  <2> DEFINE r == [k \in 0..0 |-> none]
  <2>1. r = [k \in 0..0 |-> IF k = 0 THEN none ELSE CreateAndRead(r[k - 1], keys[k])]
    <3>1. \A k \in 0..0 : k = 0
      OBVIOUS
    <3> HIDE DEF none
    <3> QED BY <3>1
  <2>2. Rec(0, r)
    BY <2>1
  <2> HIDE DEF Rec
  <2> QED BY <2>2
<1>2. ASSUME NEW m \in Solved PROVE m + 1 \in Solved
  <2>1. PICK r : Rec(m, r)
    OBVIOUS
  <2> DEFINE v == [k \in 0..(m + 1) |-> IF k = m + 1 THEN CreateAndRead(r[m], keys[k]) ELSE r[k]]
  <2>2. ASSUME NEW k \in 0..(m + 1)
        PROVE  v[k] = IF k = 0 THEN none ELSE CreateAndRead(v[k - 1], keys[k])
    <3>1. k # 0 => k - 1 \in 0..m /\ k - 1 # m + 1 /\ k - 1 \in 0..(m + 1)
      OBVIOUS
    <3>2. k # 0 => v[k - 1] = r[k - 1]
      BY <3>1
    <3>3. CASE k = m + 1
      <4>1. k # 0 /\ k - 1 = m /\ v[k] = CreateAndRead(r[m], keys[k])
        BY <3>3
      <4> HIDE DEF v
      <4> QED BY <3>2, <3>3, <4>1
    <3>4. CASE k # m + 1
      <4>1. k \in 0..m /\ v[k] = r[k]
        BY <3>4
      <4>2. r[k] = IF k = 0 THEN none ELSE CreateAndRead(r[k - 1], keys[k])
        BY <2>1, <4>1
      <4> HIDE DEF v, none
      <4> QED BY <3>2, <4>1, <4>2
    <3> QED BY <3>3, <3>4
  <2>3. v = [k \in 0..(m + 1) |-> v[k]]
    OBVIOUS
  <2> HIDE DEF v
  <2>4. Rec(m + 1, v)
    BY <2>2, <2>3
  <2> HIDE DEF Rec
  <2> QED BY <2>4
<1> HIDE DEF Rec
<1>3. Solved = Nat
  BY <1>1, <1>2, Induction
<1> DEFINE R == CHOOSE r : Rec(Len(keys), r)
<1>4. Rec(Len(keys), R)
  BY <1>3
<1>5. ReadItems(keys) = R[Len(keys)]
  BY DEF ReadItems, Rec
<1> HIDE DEF R
<1>6. R = [k \in 0..Len(keys) |-> IF k = 0 THEN none ELSE CreateAndRead(R[k - 1], keys[k])]
  BY <1>4 DEF Rec
<1>7. 0 \in 0..Len(keys) /\ \A n \in 1..Len(keys) : n \in 0..Len(keys) /\ n # 0
  OBVIOUS
<1>8. IsReading(R, keys)
  BY <1>5, <1>6, <1>7 DEF IsReading
<1> QED BY <1>8

\* Reading n keys gives n items.
LEMMA ReadItemsOK ==
  ASSUME NEW keys, Len(keys) \in Nat, Len(keys) <= FirstDefault,
         \A i \in 1..Len(keys) : IsKey(keys[i])
  PROVE  ReadOK(ReadItems(keys), Len(keys))
<1> DEFINE L == Len(keys)
<1>1. PICK R : IsReading(R, keys)
  BY ReadSteps
<1>2. FirstDefault \in Nat \ {0} /\ IdRange \in Nat
  BY FileAssumption
<1> DEFINE Q == {n \in 0..L : ReadOK(R[n], n)}
<1>3. 0 \in Q
  <2> DEFINE none == [items |-> NoItems, last |-> 0]
  <2>1. DOMAIN none.items = {} /\ none.last = 0
    BY DEF NoItems
  <2> HIDE DEF none
  <2>2. ReadOK(none, 0)
    BY <1>2, <2>1, FS_EmptySet DEF ReadOK
  <2> QED BY <1>1, <2>2 DEF IsReading, none
<1>4. ASSUME NEW n \in 0..(L - 1), n \in Q PROVE n + 1 \in Q
  <2>1. n + 1 \in 1..L /\ n + 1 \in 0..L /\ (n + 1) - 1 = n /\ n \in Nat /\ n < FirstDefault
    BY <1>2
  <2>2. R[n + 1] = CreateAndRead(R[n], keys[n + 1])
    BY <1>1, <2>1 DEF IsReading
  <2>3. ReadOK(R[n], n) /\ IsKey(keys[n + 1])
    BY <1>4, <2>1
  <2> QED BY <2>1, <2>2, <2>3, CreateAndReadOK
<1> HIDE DEF Q
<1>5. 0..L \subseteq Q
  BY <1>3, <1>4, InductionTo
<1>6. L \in Q
  BY <1>5
<1> QED BY <1>1, <1>6 DEF Q, IsReading

-----------------------------------------------------------------------------
(* What is written are keys.                                               *)

\* The tree WriteToFile makes of an inventory, its items in some order.
ItemsKey(inventory, order) ==
  Section("items", [i \in DOMAIN order |-> WriteItem(order[i], inventory.items[order[i]])])
EquipsKey(inventory) ==
  Section("default_equips", [i \in DOMAIN inventory.equips |-> WriteEquip(inventory.equips[i])])
TreeOf(inventory, order) ==
  Section("inventory", <<ItemsKey(inventory, order), EquipsKey(inventory)>>)

Current == [items |-> items, equips |-> equips]

\* What WriteToFile makes are the trees of what is held.
LEMMA TreesAre == Trees = {TreeOf(Current, order) : order \in SetToSeqs(DOMAIN items)}
BY DEF Trees, TreeOf, ItemsKey, EquipsKey, Current

\* A section over a list of keys.
LEMMA SectionKey ==
  ASSUME NEW name, NEW n \in Nat, NEW subs, subs = [i \in 1..n |-> subs[i]],
         \A i \in 1..n : IsKey(subs[i])
  PROVE  IsKey(Section(name, subs))
<1>1. Len(subs) = n /\ subs \in Seq({subs[i] : i \in 1..n})
  BY FunctionIsSequence
<1> QED BY <1>1, KeyOver DEF Section

\* The elements of a sequence.
LEMMA SequenceLength ==
  ASSUME NEW S, NEW s \in Seq(S)
  PROVE  Len(s) \in Nat /\ DOMAIN s = 1..Len(s) /\ \A i \in 1..Len(s) : s[i] \in S
OBVIOUS

\* WriteItem makes a key.
LEMMA WrittenItemKey ==
  ASSUME NEW id, NEW item, IsItem(item)
  PROVE  IsKey(WriteItem(id, item))
<1> DEFINE A == [i \in DOMAIN item.attributes |->
                   String(ToString(item.attributes[i].def), AttributeString(item.attributes[i]))]
           E == [i \in DOMAIN item.equipped |->
                   String(ToString(item.equipped[i].class), ToString(item.equipped[i].slot))]
           subs == <<String("def_index", ToString(item.kind)),
                     String("custom_name", item.custom),
                     Section("attributes", A), Section("equipped_state", E)>>
<1>1. IsKey(Section("attributes", A))
  <2> DEFINE n == Len(item.attributes)
  <2>1. n \in Nat /\ DOMAIN item.attributes = 1..n
    BY SequenceLength DEF IsItem
  <2>2. \A i \in DOMAIN item.attributes : IsKey(A[i])
    BY PlainKeys
  <2>3. A = [i \in 1..n |-> A[i]]
    BY <2>1
  <2> HIDE DEF A
  <2> QED BY <2>1, <2>2, <2>3, SectionKey
<1>2. IsKey(Section("equipped_state", E))
  <2> DEFINE n == Len(item.equipped)
  <2>1. n \in Nat /\ DOMAIN item.equipped = 1..n
    BY SequenceLength DEF IsItem
  <2>2. \A i \in DOMAIN item.equipped : IsKey(E[i])
    BY PlainKeys
  <2>3. E = [i \in 1..n |-> E[i]]
    BY <2>1
  <2> HIDE DEF E
  <2> QED BY <2>1, <2>2, <2>3, SectionKey
<1>3. WriteItem(id, item) = Section(KeyOf(id), subs)
  BY DEF WriteItem
<1> HIDE DEF A, E
<1>4. subs = [i \in 1..4 |-> subs[i]]
  OBVIOUS
<1>5. IsKey(subs[1]) /\ IsKey(subs[2]) /\ IsKey(subs[3]) /\ IsKey(subs[4])
  BY <1>1, <1>2, PlainKeys
<1> HIDE DEF subs
<1>6. \A i \in 1..4 : i = 1 \/ i = 2 \/ i = 3 \/ i = 4
  OBVIOUS
<1>7. \A i \in 1..4 : IsKey(subs[i])
  BY <1>5, <1>6, Zenon
<1> QED BY <1>3, <1>4, <1>7, SectionKey

\* So does the writer of default equips.
LEMMA WrittenEquipKey ==
  ASSUME NEW equip
  PROVE  IsKey(WriteEquip(equip))
<1> DEFINE subs == <<String("class_id", ToString(equip.class)),
                     String("slot_id", ToString(equip.slot))>>
<1>1. subs = [i \in 1..2 |-> subs[i]]
  OBVIOUS
<1>2. IsKey(subs[1]) /\ IsKey(subs[2])
  BY PlainKeys
<1>3. WriteEquip(equip) = Section(ToString(equip.def), subs)
  BY DEF WriteEquip
<1> HIDE DEF subs
<1>4. \A i \in 1..2 : i = 1 \/ i = 2
  OBVIOUS
<1>5. \A i \in 1..2 : IsKey(subs[i])
  BY <1>2, <1>4, Zenon
<1> QED BY <1>1, <1>3, <1>5, SectionKey

\* What an order of the items is.
LEMMA OrderFacts ==
  ASSUME NEW S, IsFiniteSet(S), NEW order \in SetToSeqs(S)
  PROVE  /\ Len(order) \in Nat /\ DOMAIN order = 1..Len(order)
         /\ \A i \in 1..Len(order) : order[i] \in S
         /\ \A i, j \in 1..Len(order) : i # j => order[i] # order[j]
         /\ \A x \in S : \E i \in 1..Len(order) : order[i] = x
<1> DEFINE n == Cardinality(S)
<1>1. n \in Nat
  BY FS_CardinalityType
<1>2. order \in [1..n -> S] /\ \A i, j \in 1..n : i # j => order[i] # order[j]
  BY DEF SetToSeqs
<1>3. order \in Seq(S) /\ Len(order) = n
  BY <1>1, <1>2, SeqDef
<1>4. order \in Injection(1..n, S)
  BY <1>2 DEF Injection, IsInjective
<1>5. Cardinality(1..n) = n
  BY <1>1, FS_Interval
<1> HIDE DEF n
<1>6. order \in Surjection(1..n, S)
  BY <1>4, <1>5, FS_Injection DEF n
<1>7. \A x \in S : \E i \in 1..n : order[i] = x
  BY <1>6 DEF Surjection
<1> QED BY <1>1, <1>2, <1>3, <1>7

\* The tree of an inventory is a key.
LEMMA TreeIsKey ==
  ASSUME NEW inventory, IsInventory(inventory), NEW order \in SetToSeqs(DOMAIN inventory.items)
  PROVE  IsKey(TreeOf(inventory, order))
<1>1. /\ Len(order) \in Nat /\ DOMAIN order = 1..Len(order)
      /\ \A i \in 1..Len(order) : order[i] \in DOMAIN inventory.items
  BY OrderFacts DEF IsInventory
<1>2. IsKey(ItemsKey(inventory, order))
  <2> DEFINE subs == [i \in DOMAIN order |-> WriteItem(order[i], inventory.items[order[i]])]
  <2>1. subs = [i \in 1..Len(order) |-> subs[i]]
    BY <1>1
  <2>2. \A i \in 1..Len(order) : IsKey(subs[i])
    BY <1>1, WrittenItemKey DEF IsInventory
  <2> HIDE DEF subs
  <2>3. IsKey(Section("items", subs))
    BY <1>1, <2>1, <2>2, SectionKey
  <2> QED BY <2>3 DEF ItemsKey, subs
<1>3. IsKey(EquipsKey(inventory))
  <2> DEFINE subs == [i \in DOMAIN inventory.equips |-> WriteEquip(inventory.equips[i])]
             n == Len(inventory.equips)
  <2>1. n \in Nat /\ DOMAIN inventory.equips = 1..n
    BY SequenceLength DEF IsInventory
  <2>2. subs = [i \in 1..n |-> subs[i]]
    BY <2>1
  <2>3. \A i \in 1..n : IsKey(subs[i])
    BY <2>1, WrittenEquipKey
  <2> HIDE DEF subs
  <2>4. IsKey(Section("default_equips", subs))
    BY <2>1, <2>2, <2>3, SectionKey
  <2> QED BY <2>4 DEF EquipsKey, subs
<1> DEFINE subs == <<ItemsKey(inventory, order), EquipsKey(inventory)>>
<1>4. subs = [i \in 1..2 |-> subs[i]] /\ subs[1] = ItemsKey(inventory, order)
      /\ subs[2] = EquipsKey(inventory)
  OBVIOUS
<1> HIDE DEF subs
<1>5. \A i \in 1..2 : i = 1 \/ i = 2
  OBVIOUS
<1>6. \A i \in 1..2 : IsKey(subs[i])
  BY <1>2, <1>3, <1>4, <1>5
<1>7. IsKey(Section("inventory", subs))
  BY <1>4, <1>6, SectionKey
<1> QED BY <1>7 DEF TreeOf, subs

-----------------------------------------------------------------------------
(* The inductive invariant.                                                *)

TypesOK ==
  /\ IsInventory(Current) /\ IsInventory(held)
  /\ IsSequence(file)
  /\ starts \in Nat

\* A file written whole is that of the inventory held, in some order.
WholeInv ==
  left = "whole" =>
    /\ file = Written(tree)
    /\ \E order \in SetToSeqs(DOMAIN held.items) : tree = TreeOf(held, order)

\* An inventory that was read is what the file says.
KeysIn(name) == IF InFile.ok THEN SubsOf(InFile.key, name) ELSE <<>>
ReadInv ==
  (running /\ starts > 0) =>
    /\ Len(KeysIn("items")) <= FirstDefault
    /\ items = ReadItems(KeysIn("items")).items
    /\ last = ReadItems(KeysIn("items")).last
    /\ equips = [i \in DOMAIN KeysIn("default_equips") |->
                   ReadEquip(KeysIn("default_equips")[i])]

FileInv == TypesOK /\ WholeInv /\ ReadInv

\* What is found in a file under a name are keys.
LEMMA KeysInFile ==
  ASSUME NEW name, IsSequence(file)
  PROVE  /\ Len(KeysIn(name)) \in Nat /\ DOMAIN KeysIn(name) = 1..Len(KeysIn(name))
         /\ \A i \in DOMAIN KeysIn(name) : IsKey(KeysIn(name)[i])
<1>1. IsKey(InFile.key)
  BY FromFileKey DEF InFile
<1>2. CASE InFile.ok
  <2>1. KeysIn(name) = SubsOf(InFile.key, name)
    BY <1>2 DEF KeysIn
  <2> QED BY <1>1, <2>1, SubsOfKeys
<1>3. CASE ~ InFile.ok
  <2>1. KeysIn(name) = <<>>
    BY <1>3 DEF KeysIn
  <2> QED BY <2>1
<1> QED BY <1>2, <1>3

\* Some inventory's tree is written as a sequence of tokens.
LEMMA TreesWritten ==
  ASSUME TypesOK, NEW t \in Trees
  PROVE  /\ IsSequence(Written(t))
         /\ \E order \in SetToSeqs(DOMAIN Current.items) : t = TreeOf(Current, order)
<1>1. PICK order \in SetToSeqs(DOMAIN Current.items) : t = TreeOf(Current, order)
  BY TreesAre DEF Current
<1>2. IsKey(t)
  BY <1>1, TreeIsKey DEF TypesOK
<1> QED BY <1>1, <1>2, WrittenType

\* Nothing is an inventory.
LEMMA NoInventory == IsInventory([items |-> NoItems, equips |-> <<>>])
<1>1. DOMAIN NoItems = {}
  BY DEF NoItems
<1>2. <<>> \in Seq([def : Known, class : Known, slot : Known])
  OBVIOUS
<1> QED BY <1>1, <1>2, FS_EmptySet DEF IsInventory

\* The initial states satisfy the invariant.
LEMMA FileInit == Init => FileInv
<1> SUFFICES ASSUME Init PROVE FileInv
  OBVIOUS
<1>1. IsInventory(Current) /\ IsKey(tree)
  <2>1. CASE running
    <3>1. PICK inventory \in Inventories : items = inventory.items /\ equips = inventory.equips
      BY <2>1 DEF Init
    <3>2. IsInventory(inventory)
      BY FileAssumption
    <3>3. IsInventory(Current)
      BY <3>1, <3>2 DEF IsInventory, Current
    <3>4. tree = Section("inventory", <<>>)
      BY <2>1 DEF Init
    <3> QED BY <3>3, <3>4, PlainKeys
  <2>2. CASE ~ running
    <3>1. items = NoItems /\ equips = <<>> /\ tree \in Edited
      BY <2>2 DEF Init
    <3>2. IsKey(tree)
      BY <3>1, FileAssumption, FileTreesKeys
    <3> QED BY <3>1, <3>2, NoInventory DEF Current
  <2> QED BY <2>1, <2>2
<1>2. held = Current /\ file = Written(tree) /\ starts = 0 /\ left = "edited"
  BY DEF Init, Current
<1>3. TypesOK
  BY <1>1, <1>2, WrittenType DEF TypesOK
<1> QED BY <1>2, <1>3 DEF FileInv, WholeInv, ReadInv

\* Writing the file, whole or in part, keeps it.
LEMMA FileWritten ==
  ASSUME FileInv, WriteToFile \/ DieWriting
  PROVE  FileInv'
<1>1. Writes
  BY DEF WriteToFile, DieWriting
<1>2. /\ running' = FALSE /\ tree' \in Trees /\ held' = Current /\ Current' = Current
      /\ starts' = starts
  BY <1>1 DEF Writes, Current
<1>3. TypesOK
  BY DEF FileInv
<1>4. /\ IsSequence(Written(tree'))
      /\ \E order \in SetToSeqs(DOMAIN Current.items) : tree' = TreeOf(Current, order)
  BY <1>2, <1>3, TreesWritten
<1>5. CASE WriteToFile
  <2>1. file' = Written(tree') /\ left' = "whole"
    BY <1>5 DEF WriteToFile
  <2>2. TypesOK'
    BY <1>2, <1>3, <1>4, <2>1 DEF TypesOK
  <2>3. WholeInv'
    BY <1>2, <1>4, <2>1 DEF WholeInv
  <2> QED BY <1>2, <2>2, <2>3 DEF FileInv, ReadInv
<1>6. CASE DieWriting
  <2>1. file' \in TornFiles(Written(tree')) /\ left' = "torn"
    BY <1>6 DEF DieWriting
  <2>2. IsSequence(file')
    BY <1>4, <2>1, TornType
  <2>3. TypesOK'
    BY <1>2, <1>3, <2>2 DEF TypesOK
  <2> QED BY <1>2, <2>1, <2>3 DEF FileInv, WholeInv, ReadInv
<1> QED BY <1>5, <1>6

\* So does reading it.
LEMMA FileRead ==
  ASSUME FileInv, ReadFromFile
  PROVE  FileInv'
<1> DEFINE keys == KeysIn("items")
           equipKeys == KeysIn("default_equips")
           E == [def : Known, class : Known, slot : Known]
<1>1. /\ Len(keys) <= FirstDefault
      /\ items' = ReadItems(keys).items /\ last' = ReadItems(keys).last
      /\ equips' = [i \in DOMAIN equipKeys |-> ReadEquip(equipKeys[i])]
  BY DEF ReadFromFile, KeysIn, InFile, Used
<1>2. /\ running' = TRUE /\ starts' = starts + 1
      /\ file' = file /\ held' = held /\ tree' = tree /\ left' = left
  BY DEF ReadFromFile
<1>3. /\ Len(keys) \in Nat /\ \A i \in 1..Len(keys) : IsKey(keys[i])
      /\ Len(equipKeys) \in Nat /\ DOMAIN equipKeys = 1..Len(equipKeys)
  BY KeysInFile DEF FileInv, TypesOK
<1> HIDE DEF keys, equipKeys
<1>4. ReadOK(ReadItems(keys), Len(keys))
  BY <1>1, <1>3, ReadItemsOK
<1>5. equips' \in Seq(E)
  <2>1. \A key : ReadEquip(key) \in E
    BY NumbersKnown DEF ReadEquip, GetNumber
  <2> HIDE DEF E
  <2>2. equips' \in [1..Len(equipKeys) -> E]
    BY <1>1, <1>3, <2>1
  <2> QED BY <1>3, <2>2, SeqDef
<1>6. IsInventory(Current')
  BY <1>1, <1>4, <1>5 DEF IsInventory, ReadOK, Current
<1>7. TypesOK'
  BY <1>2, <1>6 DEF TypesOK, FileInv
<1>8. WholeInv'
  BY <1>2 DEF WholeInv, FileInv
<1>9. ReadInv'
  <2>1. KeysIn("items")' = keys /\ KeysIn("default_equips")' = equipKeys
    BY <1>2 DEF KeysIn, InFile, keys, equipKeys
  <2> QED BY <1>1, <2>1 DEF ReadInv
<1> QED BY <1>7, <1>8, <1>9 DEF FileInv

\* So does doing nothing.
LEMMA FileUnchanged == FileInv /\ UNCHANGED vars => FileInv'
BY DEF FileInv, TypesOK, WholeInv, ReadInv, KeysIn, InFile, Current, vars

\* It holds in every reachable state.
LEMMA FileInvariant == Spec => []FileInv
<1>1. FileInv /\ [Next]_vars => FileInv'
  BY FileWritten, FileRead, FileUnchanged DEF Next
<1> QED BY FileInit, <1>1, PTL DEF Spec

\* Every item key that is read becomes an item of its own.
THEOREM EveryKeyIsAnItemHolds == Spec => []EveryKeyIsAnItem
<1>1. FileInv => EveryKeyIsAnItem
  <2> SUFFICES ASSUME FileInv, running, starts > 0 PROVE EveryKeyIsAnItem
    BY DEF EveryKeyIsAnItem
  <2> DEFINE keys == KeysIn("items")
  <2>1. Len(keys) \in Nat /\ \A i \in 1..Len(keys) : IsKey(keys[i])
    BY KeysInFile DEF FileInv, TypesOK
  <2>2. /\ Len(keys) <= FirstDefault
        /\ items = ReadItems(keys).items /\ last = ReadItems(keys).last
    BY DEF FileInv, ReadInv
  <2>3. keys = IF InFile.ok THEN SubsOf(InFile.key, "items") ELSE <<>>
    BY DEF KeysIn
  <2> HIDE DEF keys
  <2>4. ReadOK(ReadItems(keys), Len(keys))
    BY <2>1, <2>2, ReadItemsOK
  <2> QED BY <2>2, <2>3, <2>4 DEF EveryKeyIsAnItem, ReadOK
<1> QED BY <1>1, FileInvariant, PTL

-----------------------------------------------------------------------------
(* Reading what was written.                                               *)

\* The parser is in these keys, in front of a subkey's name.
At(p, outer, key) == p.outer = outer /\ p.key = key /\ p.expects = "name"

Steps(P, f) == Len(f) \in Nat /\ \A n \in 1..Len(f) : P[n] = Parsed(P[n - 1], f[n])

\* Wherever these tokens are in the file, they make one key of another.
Reads(P, f, tokens, outer, before, after) ==
  \A n \in 0..Len(f) :
    Has(f, n, tokens) /\ At(P[n], outer, before) => At(P[n + Len(tokens)], outer, after)

With(key, sub) == [key EXCEPT !.subs = Append(@, sub)]

\* Appending, and changing what was appended.
LEMMA WithFacts ==
  ASSUME NEW key, IsKey(key), NEW sub
  PROVE  /\ With(key, sub) = Key(key.name, key.text, Append(key.subs, sub))
         /\ Len(With(key, sub).subs) = Len(key.subs) + 1
         /\ DOMAIN With(key, sub).subs = 1..(Len(key.subs) + 1)
         /\ With(key, sub).subs[Len(key.subs) + 1] = sub
         /\ \A i \in 1..Len(key.subs) : With(key, sub).subs[i] = key.subs[i]
         /\ \A new : [With(key, sub) EXCEPT !.subs[Len(key.subs) + 1] = new] = With(key, new)
<1> DEFINE n == Len(key.subs)
           s == key.subs
<1>1. key = [name |-> key.name, text |-> key.text, subs |-> s] /\ n \in Nat /\ IsSequence(s)
  BY KeyFields DEF IsSequence
<1>2. PICK S : s \in Seq(S)
  BY <1>1 DEF IsSequence
<1>3. ASSUME NEW x PROVE With(key, x) = Key(key.name, key.text, Append(s, x))
  BY <1>1 DEF With, Key
<1>4. ASSUME NEW x
      PROVE  /\ IsSequence(Append(s, x)) /\ DOMAIN Append(s, x) = 1..(n + 1)
             /\ Len(Append(s, x)) = n + 1 /\ Append(s, x)[n + 1] = x
             /\ \A i \in 1..n : Append(s, x)[i] = s[i]
  <2> DEFINE U == S \cup {x}
  <2>1. s \in Seq(U) /\ x \in U /\ n \in Nat
    BY <1>2
  <2> HIDE DEF U
  <2>2. /\ Append(s, x) \in Seq(U) /\ Len(Append(s, x)) = n + 1
        /\ \A i \in 1..Len(Append(s, x)) :
             Append(s, x)[i] = IF i = n + 1 THEN x ELSE s[i]
    BY <2>1, AppendProperties
  <2>3. n + 1 \in 1..(n + 1) /\ \A i \in 1..n : i \in 1..(n + 1) /\ i # n + 1
    BY <2>1
  <2>4. DOMAIN Append(s, x) = 1..(n + 1)
    BY <2>2
  <2> QED BY <2>2, <2>3, <2>4 DEF IsSequence
<1>5. ASSUME NEW new PROVE [With(key, sub) EXCEPT !.subs[n + 1] = new] = With(key, new)
  <2> DEFINE a == Append(s, sub)
             b == Append(s, new)
  <2>1. [a EXCEPT ![n + 1] = new] = b
    <3>1. /\ DOMAIN a = 1..(n + 1) /\ DOMAIN b = 1..(n + 1)
          /\ b[n + 1] = new /\ \A i \in 1..n : a[i] = b[i]
      BY <1>4
    <3>2. \A i \in 1..(n + 1) : i = n + 1 \/ i \in 1..n
      BY <1>1
    <3>3. a = [i \in 1..(n + 1) |-> a[i]] /\ b = [i \in 1..(n + 1) |-> b[i]]
      <4>1. IsSequence(a) /\ IsSequence(b) /\ Len(a) = n + 1 /\ Len(b) = n + 1
        BY <1>4
      <4> HIDE DEF a, b
      <4> QED BY <4>1 DEF IsSequence
    <3> HIDE DEF a, b
    <3>4. \A i \in 1..(n + 1) : [a EXCEPT ![n + 1] = new][i] = b[i]
      BY <3>1, <3>2
    <3>5. [a EXCEPT ![n + 1] = new] = [i \in 1..(n + 1) |-> [a EXCEPT ![n + 1] = new][i]]
      BY <3>1
    <3> QED BY <3>3, <3>4, <3>5
  <2> HIDE DEF a, b
  <2>2. With(key, sub) = Key(key.name, key.text, a) /\ With(key, new) = Key(key.name, key.text, b)
    BY <1>3 DEF a, b
  <2> QED BY <2>1, <2>2 DEF Key
<1>6. With(key, sub).subs = Append(s, sub)
  BY <1>3 DEF Key
<1> QED BY <1>3, <1>4, <1>5, <1>6

\* One token, by what is to come.
LEMMA ParsedName ==
  ASSUME NEW p, p.expects = "name", NEW name
  PROVE  Parsed(p, Str(name))
           = Progress(p.outer, FoundOrCreated(p.key, name), IndexOf(p.key, name), "value")
BY DEF Parsed, Str

\* The value of a key that has a string.
LEMMA ParsedText ==
  ASSUME NEW p, p.expects = "value", NEW text
  PROVE  Parsed(p, Str(text))
           = Progress(p.outer, [p.key EXCEPT !.subs[p.current].text = text], p.current, "name")
BY DEF Parsed, Str

\* The beginning of a section.
LEMMA ParsedOpen ==
  ASSUME NEW p, p.expects = "value"
  PROVE  Parsed(p, Open) = Progress(Append(p.outer, [key |-> p.key, current |-> p.current]),
                                    p.key.subs[p.current], 0, "name")
BY DEF Parsed, Open

\* The end of one.
LEMMA ParsedClose ==
  ASSUME NEW p, p.expects = "name", p.outer # <<>>
  PROVE  Parsed(p, Close) = Progress(Front(p.outer), Holding(Last(p.outer), p.key),
                                     Last(p.outer).current, "name")
BY DEF Parsed, Close

\* What a record made by Progress has.
LEMMA ProgressFields ==
  ASSUME NEW outer, NEW key, NEW current, NEW expects
  PROVE  LET p == Progress(outer, key, current, expects)
         IN p.outer = outer /\ p.key = key /\ p.current = current /\ p.expects = expects
BY DEF Progress

\* A string.
LEMMA StringReads ==
  ASSUME NEW P, NEW f, Steps(P, f), NEW outer, NEW before, IsKey(before),
         NEW name, NEW text, Named(before, name) = {}
  PROVE  Reads(P, f, <<Str(name), Str(text)>>, outer, before, With(before, String(name, text)))
<1> DEFINE tokens == <<Str(name), Str(text)>>
           n == Len(before.subs)
           found == With(before, Section(name, <<>>))
<1> SUFFICES ASSUME NEW k \in 0..Len(f), Has(f, k, tokens), At(P[k], outer, before)
             PROVE  At(P[k + 2], outer, With(before, String(name, text)))
  BY DEF Reads
<1>1. /\ k + 2 <= Len(f) /\ f[k + 1] = Str(name) /\ f[k + 2] = Str(text)
  <2>1. Len(tokens) = 2 /\ tokens[1] = Str(name) /\ tokens[2] = Str(text) /\ 1 \in 1..2 /\ 2 \in 1..2
    OBVIOUS
  <2> HIDE DEF tokens
  <2> QED BY <2>1 DEF Has
<1>2. /\ k + 1 \in 1..Len(f) /\ k + 2 \in 1..Len(f) /\ (k + 1) - 1 = k /\ (k + 2) - 1 = k + 1
  BY <1>1 DEF Steps
<1>3. P[k + 1] = Parsed(P[k], Str(name)) /\ P[k + 2] = Parsed(P[k + 1], Str(text))
  BY <1>1, <1>2 DEF Steps
<1>4. P[k + 1] = Progress(outer, found, n + 1, "value")
  <2>1. Parsed(P[k], Str(name))
          = Progress(outer, FoundOrCreated(before, name), IndexOf(before, name), "value")
    BY ParsedName DEF At
  <2> QED BY <1>3, <2>1, FoundFacts DEF With
<1> HIDE DEF found
<1>5. P[k + 2] = Progress(outer, [found EXCEPT !.subs[n + 1].text = text], n + 1, "name")
  <2>1. /\ P[k + 1].outer = outer /\ P[k + 1].key = found /\ P[k + 1].current = n + 1
        /\ P[k + 1].expects = "value"
    BY <1>4, ProgressFields
  <2> QED BY <1>3, <2>1, ParsedText
<1>6. [found EXCEPT !.subs[n + 1].text = text] = With(before, String(name, text))
  <2>1. found.subs[n + 1] = Section(name, <<>>) /\ DOMAIN found.subs = 1..(n + 1) /\ n \in Nat
    BY WithFacts, KeyFields DEF found
  <2>2. [Section(name, <<>>) EXCEPT !.text = text] = String(name, text)
    BY DEF Section, String, Key
  <2>3. [found EXCEPT !.subs[n + 1].text = text]
          = [found EXCEPT !.subs[n + 1] = String(name, text)]
    BY <2>1, <2>2
  <2>4. [found EXCEPT !.subs[n + 1] = String(name, text)] = With(before, String(name, text))
    BY WithFacts DEF found
  <2> QED BY <2>3, <2>4
<1> QED BY <1>5, <1>6 DEF At, Progress

\* A sequence with one more element.
LEMMA AppendIsSequence ==
  ASSUME NEW s, IsSequence(s), NEW x
  PROVE  /\ IsSequence(Append(s, x)) /\ Len(Append(s, x)) = Len(s) + 1
         /\ Append(s, x) = [i \in 1..(Len(s) + 1) |-> IF i = Len(s) + 1 THEN x ELSE s[i]]
<1>1. PICK S : s \in Seq(S)
  BY DEF IsSequence
<1> DEFINE U == S \cup {x}
<1>2. s \in Seq(U) /\ x \in U
  BY <1>1
<1> HIDE DEF U
<1>3. Append(s, x) \in Seq(U) /\ Len(Append(s, x)) = Len(s) + 1
  BY <1>2
<1>4. Append(s, x) = [i \in 1..(Len(s) + 1) |-> IF i = Len(s) + 1 THEN x ELSE s[i]]
  <2> DEFINE n == Len(s)
             t == Append(s, x)
  <2>1. n \in Nat /\ t \in Seq(U) /\ Len(t) = n + 1
        /\ t[n + 1] = x /\ \A i \in 1..n : t[i] = s[i]
    BY <1>2, AppendProperties
  <2> HIDE DEF t, n
  <2>2. t = [i \in 1..(n + 1) |-> t[i]]
    BY <2>1
  <2>3. \A i \in 1..(n + 1) : t[i] = IF i = n + 1 THEN x ELSE s[i]
    BY <2>1
  <2> QED BY <2>2, <2>3 DEF t, n
<1> QED BY <1>3, <1>4 DEF IsSequence

\* Where the tokens of a section are.
LEMMA SectionPlaces ==
  ASSUME NEW f, Len(f) \in Nat, NEW name, NEW below, IsSequence(below), NEW n \in 0..Len(f),
         Has(f, n, <<Str(name), Open>> \o below \o <<Close>>)
  PROVE  LET m == Len(below) IN
         /\ Len(<<Str(name), Open>> \o below \o <<Close>>) = m + 3 /\ m \in Nat
         /\ n + (m + 3) <= Len(f)
         /\ f[n + 1] = Str(name) /\ f[n + 2] = Open /\ Has(f, n + 2, below)
         /\ f[(n + 2) + (m + 1)] = Close
<1> DEFINE front == <<Str(name), Open>>
           back == <<Close>>
           tokens == front \o below \o back
           m == Len(below)
<1>1. /\ front \in Seq({Str(name), Open}) /\ back \in Seq({Close})
      /\ Len(front) = 2 /\ front[1] = Str(name) /\ front[2] = Open /\ Len(back) = 1 /\ back[1] = Close
  OBVIOUS
<1> HIDE DEF front, back
<1>2. PICK B : below \in Seq(B)
  BY DEF IsSequence
<1>3. PICK S : front \in Seq(S) /\ below \in Seq(S) /\ back \in Seq(S)
  <2> DEFINE U == {Str(name), Open, Close} \cup B
  <2>1. front \in Seq(U) /\ below \in Seq(U) /\ back \in Seq(U)
    BY <1>1, <1>2
  <2> QED BY <2>1
<1>4. /\ front \o below \in Seq(S) /\ Len(front \o below) = 2 + m /\ m \in Nat
      /\ Len(tokens) = (2 + m) + 1
  <2>1. front \o below \in Seq(S) /\ Len(front \o below) = Len(front) + Len(below) /\ m \in Nat
    BY <1>3, ConcatFacts
  <2>2. Len((front \o below) \o back) = Len(front \o below) + Len(back)
    BY <1>3, <2>1, ConcatFacts
  <2> QED BY <1>1, <2>1, <2>2
<1>5. Has(f, n, (front \o below) \o back) /\ n \in Nat
  BY DEF front, back
<1>6. Has(f, n, front \o below) /\ Has(f, n + (2 + m), back)
  BY <1>3, <1>4, <1>5, HasBoth
<1>7. Has(f, n, front) /\ Has(f, n + 2, below)
  BY <1>1, <1>3, <1>5, <1>6, HasBoth
<1> HIDE DEF m
<1>8. f[n + 1] = Str(name) /\ f[n + 2] = Open
  BY <1>1, <1>7 DEF Has
<1>9. f[(n + (2 + m)) + 1] = Close /\ (n + (2 + m)) + 1 <= Len(f)
  BY <1>1, <1>6 DEF Has
<1>10. (n + (2 + m)) + 1 = (n + 2) + (m + 1) /\ (n + (2 + m)) + 1 = n + (m + 3) /\ (2 + m) + 1 = m + 3
  BY <1>4, <1>5
<1>11. Len(tokens) = m + 3 /\ n + (m + 3) <= Len(f) /\ f[(n + 2) + (m + 1)] = Close
  BY <1>4, <1>9, <1>10
<1> QED BY <1>4, <1>7, <1>8, <1>11 DEF front, back, m

\* The parser goes into a new section, whose key is its subkey from the beginning.
LEMMA SectionEntered ==
  ASSUME NEW P, NEW f, Steps(P, f), NEW outer, IsSequence(outer), NEW before, IsKey(before),
         NEW name, Named(before, name) = {}, NEW k \in Nat, k + 2 <= Len(f),
         f[k + 1] = Str(name), f[k + 2] = Open, At(P[k], outer, before)
  PROVE  /\ P[k + 1].expects = "value"
         /\ \E level : /\ At(P[k + 2], Append(outer, level), Section(name, <<>>))
                       /\ level.current = Len(before.subs) + 1
                       /\ \A read : Holding(level, read) = With(before, read)
<1> DEFINE n == Len(before.subs)
           found == With(before, Section(name, <<>>))
           level == [key |-> found, current |-> n + 1]
<1>1. /\ k + 1 \in 1..Len(f) /\ (k + 1) - 1 = k /\ k + 2 \in 1..Len(f) /\ (k + 2) - 1 = k + 1
  BY DEF Steps
<1>2. P[k + 1] = Parsed(P[k], Str(name)) /\ P[k + 2] = Parsed(P[k + 1], Open)
  BY <1>1 DEF Steps
<1>3. P[k + 1] = Progress(outer, found, n + 1, "value")
  <2>1. Parsed(P[k], Str(name))
          = Progress(outer, FoundOrCreated(before, name), IndexOf(before, name), "value")
    BY ParsedName DEF At
  <2> QED BY <1>2, <2>1, FoundFacts DEF With
<1>4. found.subs[n + 1] = Section(name, <<>>)
  BY WithFacts
<1>5. \A read : Holding(level, read) = With(before, read)
  BY WithFacts DEF Holding
<1>6. level.current = n + 1
  OBVIOUS
<1> HIDE DEF found
<1>7. /\ P[k + 1].outer = outer /\ P[k + 1].key = found /\ P[k + 1].current = n + 1
      /\ P[k + 1].expects = "value"
  BY <1>3, ProgressFields
<1>8. P[k + 2] = Progress(Append(outer, level), Section(name, <<>>), 0, "name")
  BY <1>2, <1>4, <1>7, ParsedOpen
<1> HIDE DEF level
<1>9. At(P[k + 2], Append(outer, level), Section(name, <<>>))
  <2> DEFINE more == Append(outer, level)
             key == Section(name, <<>>)
  <2>1. P[k + 2] = Progress(more, key, 0, "name")
    BY <1>8
  <2> HIDE DEF more, key
  <2>2. At(P[k + 2], more, key)
    BY <2>1, ProgressFields DEF At
  <2> QED BY <2>2 DEF more, key
<1> QED BY <1>5, <1>6, <1>7, <1>9

\* The parser leaves a section.
LEMMA SectionLeft ==
  ASSUME NEW p, p.expects = "name", NEW outer, IsSequence(outer), NEW level,
         p.outer = Append(outer, level)
  PROVE  Parsed(p, Close) = Progress(outer, Holding(level, p.key), level.current, "name")
<1>1. PICK T : outer \in Seq(T)
  BY DEF IsSequence
<1> DEFINE U == T \cup {level}
<1>2. outer \in Seq(U) /\ level \in U
  BY <1>1
<1> HIDE DEF U
<1>3. Append(outer, level) # <<>> /\ Front(Append(outer, level)) = outer
      /\ Last(Append(outer, level)) = level
  BY <1>2, AppendProperties DEF Front, Last
<1> QED BY <1>3, ParsedClose

\* A section, around what reads as its subkeys.
LEMMA SectionReads ==
  ASSUME NEW P, NEW f, Steps(P, f), NEW outer, IsSequence(outer), NEW before, IsKey(before),
         NEW name, Named(before, name) = {}, NEW below, IsSequence(below), NEW read,
         \A level : Reads(P, f, below, Append(outer, level), Section(name, <<>>), read)
  PROVE  Reads(P, f, <<Str(name), Open>> \o below \o <<Close>>, outer, before, With(before, read))
<1> DEFINE tokens == <<Str(name), Open>> \o below \o <<Close>>
           m == Len(below)
<1> SUFFICES ASSUME NEW k \in 0..Len(f), Has(f, k, tokens), At(P[k], outer, before)
             PROVE  At(P[k + Len(tokens)], outer, With(before, read))
  BY DEF Reads
<1>1. /\ Len(tokens) = m + 3 /\ m \in Nat /\ k + (m + 3) <= Len(f) /\ Len(f) \in Nat
      /\ f[k + 1] = Str(name) /\ f[k + 2] = Open /\ Has(f, k + 2, below)
      /\ f[(k + 2) + (m + 1)] = Close
  BY SectionPlaces DEF Steps
<1> HIDE DEF tokens
<1>2. PICK level : /\ At(P[k + 2], Append(outer, level), Section(name, <<>>))
                   /\ \A new : Holding(level, new) = With(before, new)
  <2>1. k \in Nat /\ k + 2 <= Len(f)
    BY <1>1
  <2> QED BY <1>1, <2>1, SectionEntered
<1>3. /\ k + 2 \in 0..Len(f) /\ (k + 2) + (m + 1) \in 1..Len(f)
      /\ ((k + 2) + (m + 1)) - 1 = (k + 2) + m /\ k + (m + 3) = (k + 2) + (m + 1)
  BY <1>1
<1>4. At(P[(k + 2) + m], Append(outer, level), read)
  BY <1>1, <1>2, <1>3 DEF Reads
<1> DEFINE j == (k + 2) + (m + 1)
           key == With(before, read)
<1>5. P[j] = Parsed(P[(k + 2) + m], Close)
  <2>1. j \in 1..Len(f) /\ j - 1 = (k + 2) + m /\ f[j] = Close
    BY <1>1, <1>3
  <2> HIDE DEF j
  <2>2. P[j] = Parsed(P[j - 1], f[j])
    BY <2>1 DEF Steps
  <2> QED BY <2>1, <2>2
<1> HIDE DEF j
<1>6. P[j] = Progress(outer, key, level.current, "name")
  <2> DEFINE p == P[(k + 2) + m]
  <2>1. p.outer = Append(outer, level) /\ p.key = read /\ p.expects = "name"
    BY <1>4 DEF At
  <2>2. P[j] = Parsed(p, Close)
    BY <1>5
  <2> HIDE DEF p
  <2>3. Parsed(p, Close) = Progress(outer, Holding(level, p.key), level.current, "name")
    BY <2>1, SectionLeft
  <2> QED BY <1>2, <2>1, <2>2, <2>3
<1> HIDE DEF key, j
<1>7. At(P[j], outer, key)
  BY <1>6, ProgressFields DEF At
<1> QED BY <1>1, <1>3, <1>7 DEF j, key

\* What GetSubkey finds when a subkey of a new name is added.
LEMMA WithTells ==
  ASSUME NEW key, IsKey(key), NEW sub, Named(key, sub.name) = {}
  PROVE  /\ GetString(With(key, sub), sub.name) = sub.text
         /\ SubsOf(With(key, sub), sub.name) = sub.subs
         /\ \A name : name # sub.name =>
              /\ Named(With(key, sub), name) = Named(key, name)
              /\ GetString(With(key, sub), name) = GetString(key, name)
              /\ SubsOf(With(key, sub), name) = SubsOf(key, name)
<1> DEFINE n == Len(key.subs)
           new == With(key, sub)
<1>1. n \in Nat /\ DOMAIN key.subs = 1..n
  BY KeyFields
<1>2. /\ DOMAIN new.subs = 1..(n + 1) /\ new.subs[n + 1] = sub
      /\ \A i \in 1..n : new.subs[i] = key.subs[i]
  BY WithFacts
<1> HIDE DEF new
<1>3. Named(new, sub.name) = {n + 1}
  <2>1. \A i \in 1..n : key.subs[i].name # sub.name
    BY <1>1 DEF Named
  <2> QED BY <1>1, <1>2, <2>1 DEF Named
<1>4. Min({n + 1}) = n + 1
  BY <1>1 DEF Min
<1>5. GetString(new, sub.name) = sub.text /\ SubsOf(new, sub.name) = sub.subs
  BY <1>2, <1>3, <1>4 DEF GetString, SubsOf
<1>6. ASSUME NEW name, name # sub.name
      PROVE  /\ Named(new, name) = Named(key, name)
             /\ GetString(new, name) = GetString(key, name)
             /\ SubsOf(new, name) = SubsOf(key, name)
  <2>1. Named(new, name) = Named(key, name)
    BY <1>1, <1>2, <1>6 DEF Named
  <2>2. CASE Named(key, name) = {}
    BY <2>1, <2>2 DEF GetString, SubsOf
  <2>3. CASE Named(key, name) # {}
    <3>1. Named(key, name) \in SUBSET Nat /\ Named(key, name) \subseteq 1..n
      BY <1>1 DEF Named
    <3>2. Min(Named(key, name)) \in Named(key, name)
      <4>1. \E i \in Named(key, name) : \A j \in Named(key, name) : i <= j
        BY <2>3, <3>1, LeastOne
      <4> QED BY <4>1 DEF Min
    <3>3. new.subs[Min(Named(key, name))] = key.subs[Min(Named(key, name))]
      BY <1>2, <3>1, <3>2
    <3> QED BY <2>1, <2>3, <3>3 DEF GetString, SubsOf
  <2> QED BY <2>1, <2>2, <2>3
<1> QED BY <1>5, <1>6 DEF new

\* Wherever tokens are in the file, a key with no subkey of that name gets this one.
SubReads(P, f, tokens, name, read) ==
  \A outer, before : (IsSequence(outer) /\ IsKey(before) /\ Named(before, name) = {}) =>
    Reads(P, f, tokens, outer, before, With(before, read))

\* And a key without subkeys becomes this one.
BodyReads(P, f, tokens, name, read) ==
  \A outer : IsSequence(outer) => Reads(P, f, tokens, outer, Section(name, <<>>), read)

\* What was written of a key is read as this one: or nothing was, and it is empty.
Told(P, f, tokens, read) ==
  IF tokens = <<>> THEN read.text = NoText /\ read.subs = <<>>
  ELSE SubReads(P, f, tokens, read.name, read)

\* A string is read as it was written; an empty one was not.
LEMMA StringTold ==
  ASSUME NEW P, NEW f, Steps(P, f), NEW name, NEW text, NEW below
  PROVE  /\ Told(P, f, WrittenKey(String(name, text), below), String(name, text))
         /\ text # NoText => WrittenKey(String(name, text), below) # <<>>
<1> DEFINE tokens == <<Str(name), Str(text)>>
           string == String(name, text)
<1>1. string.name = name /\ string.text = text /\ string.subs = <<>>
  BY DEF String, Key
<1> HIDE DEF string
<1>2. CASE text = NoText
  <2>1. WrittenKey(string, below) = <<>>
    BY <1>1, <1>2 DEF WrittenKey, Skipped
  <2> QED BY <1>1, <1>2, <2>1 DEF Told, string
<1>3. CASE text # NoText
  <2>1. WrittenKey(string, below) = tokens
    BY <1>1, <1>3 DEF WrittenKey, Skipped
  <2>2. tokens # <<>>
    OBVIOUS
  <2>3. SubReads(P, f, tokens, name, String(name, text))
    BY StringReads DEF SubReads
  <2> HIDE DEF tokens
  <2> QED BY <1>1, <2>1, <2>2, <2>3 DEF Told, string
<1> QED BY <1>2, <1>3 DEF string

\* A section with subkeys is written between its name and braces.
LEMMA SectionWritten ==
  ASSUME NEW name, NEW subs, subs # <<>>, NEW below, IsSequence(below)
  PROVE  /\ WrittenKey(Section(name, subs), below) = <<Str(name), Open>> \o below \o <<Close>>
         /\ WrittenKey(Section(name, subs), below) # <<>>
<1> DEFINE tokens == <<Str(name), Open>> \o below \o <<Close>>
<1>1. WrittenKey(Section(name, subs), below) = tokens
  BY DEF WrittenKey, Skipped, Section, Key
<1>2. tokens # <<>>
  <2> DEFINE front == <<Str(name), Open>>
             back == <<Close>>
  <2>1. front \in Seq({Str(name), Open}) /\ back \in Seq({Close}) /\ Len(front) = 2 /\ Len(back) = 1
    OBVIOUS
  <2> HIDE DEF front, back
  <2>2. IsSequence(front) /\ IsSequence(back)
    BY <2>1 DEF IsSequence
  <2>3. IsSequence(front \o below) /\ Len(front \o below) = 2 + Len(below)
    BY <2>1, <2>2, ConcatIsSequence
  <2>4. Len(tokens) = (2 + Len(below)) + 1 /\ Len(below) \in Nat
    BY <2>1, <2>2, <2>3, ConcatIsSequence DEF IsSequence, front, back
  <2>5. Len(<<>>) = 0
    OBVIOUS
  <2> HIDE DEF tokens
  <2> QED BY <2>4, <2>5
<1> QED BY <1>1, <1>2

\* It is read as what its subkeys are read as.
LEMMA SectionTold ==
  ASSUME NEW P, NEW f, Steps(P, f), NEW name, NEW subs, subs # <<>>, NEW below, IsSequence(below),
         NEW read, read.name = name, BodyReads(P, f, below, name, read)
  PROVE  Told(P, f, WrittenKey(Section(name, subs), below), read)
<1> DEFINE tokens == <<Str(name), Open>> \o below \o <<Close>>
<1>1. WrittenKey(Section(name, subs), below) = tokens /\ tokens # <<>>
  BY SectionWritten
<1>2. ASSUME NEW outer, NEW before, IsSequence(outer), IsKey(before), Named(before, name) = {}
      PROVE  Reads(P, f, tokens, outer, before, With(before, read))
  <2>1. \A level : Reads(P, f, below, Append(outer, level), Section(name, <<>>), read)
    BY <1>2, AppendIsSequence DEF BodyReads
  <2> QED BY <1>2, <2>1, SectionReads
<1>3. SubReads(P, f, tokens, name, read)
  BY <1>2 DEF SubReads
<1> HIDE DEF tokens
<1> QED BY <1>1, <1>3 DEF Told

\* GetSubkey finds what these keys have.
Tells(key, subs) ==
  \A i \in DOMAIN subs :
    GetString(key, subs[i].name) = subs[i].text /\ SubsOf(key, subs[i].name) = subs[i].subs

\* What is written of n subkeys of a key, and what each of them is read as.
Parts(P, f, name, n, T, r) ==
  /\ IsKey(Section(name, r))
  /\ IsList(T, n) /\ \A i \in 1..n : IsSequence(T[i])
  /\ IsList(r, n)
  /\ \A i \in 1..n : IsKey(r[i]) /\ Told(P, f, T[i], r[i])
  /\ \A i, j \in 1..n : r[i].name = r[j].name => i = j

\* The subkeys of a key, one after the other.
LEMMA BodyTold ==
  ASSUME NEW P, NEW f, Steps(P, f), NEW name, NEW n \in Nat, NEW T, NEW r, Parts(P, f, name, n, T, r)
  PROVE  \E read :
           /\ IsKey(read) /\ read.name = name /\ read.text = NoText
           /\ BodyReads(P, f, FlattenSeq(T), name, read)
           /\ Tells(read, r)
           /\ (\A i \in 1..n : T[i] # <<>>) => read.subs = r
<1>0. /\ IsList(T, n) /\ \A i \in 1..n : IsSequence(T[i])
      /\ IsList(r, n)
      /\ \A i \in 1..n : IsKey(r[i]) /\ Told(P, f, T[i], r[i])
      /\ \A i, j \in 1..n : r[i].name = r[j].name => i = j
  BY DEF Parts
<1> USE <1>0
<1>3. PICK S, F : PartByPart(F, n, T, S)
  BY FlattenParts
<1>4. /\ F[0] = <<>> /\ F[n] = FlattenSeq(T)
      /\ \A i \in 0..n : F[i] \in Seq(S)
      /\ \A i \in 0..(n - 1) : F[i + 1] = F[i] \o T[i + 1] /\ T[i + 1] \in Seq(S)
  BY <1>3 DEF PartByPart
<1> DEFINE Come(i, key) ==
             /\ IsKey(key) /\ key.name = name /\ key.text = NoText
             /\ BodyReads(P, f, F[i], name, key)
             /\ \A j \in 1..i : /\ GetString(key, r[j].name) = r[j].text
                                /\ SubsOf(key, r[j].name) = r[j].subs
             /\ \A j \in (i + 1)..n : Named(key, r[j].name) = {}
             /\ (\A j \in 1..n : T[j] # <<>>) => key.subs = [j \in 1..i |-> r[j]]
           Q == {i \in 0..n : \E key : Come(i, key)}
<1>5. 0 \in Q
  <2> DEFINE key == Section(name, <<>>)
  <2>1. IsKey(key) /\ key.name = name /\ key.text = NoText /\ key.subs = <<>>
    BY PlainKeys DEF Section, Key
  <2>2. BodyReads(P, f, F[0], name, key)
    <3>1. ASSUME NEW outer, NEW k \in 0..Len(f), At(P[k], outer, key)
          PROVE  At(P[k + Len(F[0])], outer, key)
      <4>1. Len(F[0]) = 0 /\ k + 0 = k
        BY <1>4, <3>1 DEF Steps
      <4> QED BY <3>1, <4>1
    <3> QED BY <3>1 DEF BodyReads, Reads
  <2>3. \A m : Named(key, m) = {}
    BY <2>1 DEF Named
  <2>4. 1..0 = {} /\ <<>> = [j \in 1..0 |-> r[j]]
    OBVIOUS
  <2> HIDE DEF key
  <2>5. Come(0, key)
    BY <2>1, <2>2, <2>3, <2>4
  <2> HIDE DEF Come
  <2> QED BY <2>5
<1>6. ASSUME NEW i \in 0..(n - 1), i \in Q PROVE i + 1 \in Q
  <2>1. PICK key : Come(i, key)
    BY <1>6
  <2> DEFINE tokens == T[i + 1]
             sub == r[i + 1]
             next == IF tokens = <<>> THEN key ELSE With(key, sub)
  <2>2. /\ i \in Nat /\ i + 1 \in 1..n /\ i + 1 \in (i + 1)..n
        /\ \A j \in 1..(i + 1) : j = i + 1 \/ j \in 1..i
        /\ \A j \in ((i + 1) + 1)..n : j \in (i + 1)..n /\ j \in 1..n /\ j # i + 1
        /\ \A j \in 1..i : j \in 1..n /\ j # i + 1
    OBVIOUS
  <2>3. Named(key, sub.name) = {} /\ IsKey(key) /\ IsKey(sub)
    BY <2>1, <2>2
  <2>4. \A j \in 1..n : j # i + 1 => r[j].name # sub.name
    BY <2>2
  <2>5. Told(P, f, tokens, sub) /\ IsSequence(tokens)
    BY <2>2
  <2>6. F[i + 1] = F[i] \o tokens /\ tokens \in Seq(S) /\ F[i] \in Seq(S)
    <3>1. i \in 0..n
      OBVIOUS
    <3> QED BY <1>4, <3>1
  <2> HIDE DEF tokens, sub
  <2>7. BodyReads(P, f, F[i + 1], name, next)
    <3> SUFFICES ASSUME NEW outer, IsSequence(outer), NEW k \in 0..Len(f),
                        Has(f, k, F[i + 1]), At(P[k], outer, Section(name, <<>>))
                 PROVE  At(P[k + Len(F[i + 1])], outer, next)
      BY DEF BodyReads, Reads
    <3> DEFINE m == Len(F[i])
    <3>1. m \in Nat /\ Len(tokens) \in Nat /\ Len(F[i + 1]) = m + Len(tokens) /\ Len(f) \in Nat
      BY <2>6, ConcatFacts DEF Steps
    <3>2. Has(f, k, F[i]) /\ Has(f, k + m, tokens)
      <4>1. Has(f, k, F[i] \o tokens) /\ k \in Nat
        BY <2>6, <3>1
      <4> QED BY <2>6, <3>1, <4>1, HasBoth
    <3>3. At(P[k + m], outer, key)
      <4>1. BodyReads(P, f, F[i], name, key)
        BY <2>1
      <4>2. Reads(P, f, F[i], outer, Section(name, <<>>), key)
        BY <4>1 DEF BodyReads
      <4> QED BY <3>2, <4>2 DEF Reads
    <3>4. k + m \in 0..Len(f) /\ k + (m + Len(tokens)) = (k + m) + Len(tokens)
      <4>1. k + m <= Len(f)
        BY <3>2 DEF Has
      <4> HIDE DEF m
      <4> QED BY <3>1, <4>1
    <3> HIDE DEF m
    <3>5. At(P[(k + m) + Len(tokens)], outer, next)
      <4>1. CASE tokens = <<>>
        <5>1. (k + m) + Len(tokens) = k + m
          BY <3>1, <4>1
        <5> QED BY <3>3, <4>1, <5>1
      <4>2. CASE tokens # <<>>
        <5>1. Reads(P, f, tokens, outer, key, With(key, sub))
          BY <2>3, <2>5, <4>2 DEF Told, SubReads
        <5> QED BY <3>2, <3>3, <3>4, <4>2, <5>1 DEF Reads
      <4> QED BY <4>1, <4>2
    <3> QED BY <3>1, <3>4, <3>5
  <2>8. Come(i + 1, next)
    <3>1. CASE tokens = <<>>
      <4>1. next = key /\ sub.text = NoText /\ sub.subs = <<>>
        BY <2>5, <3>1 DEF Told
      <4>2. GetString(key, sub.name) = sub.text /\ SubsOf(key, sub.name) = sub.subs
        BY <2>3, <4>1 DEF GetString, SubsOf
      <4>3. ~ \A j \in 1..n : T[j] # <<>>
        BY <2>2, <3>1 DEF tokens
      <4>4. \A j \in 1..(i + 1) : GetString(key, r[j].name) = r[j].text /\ SubsOf(key, r[j].name) = r[j].subs
        BY <2>1, <2>2, <4>2 DEF sub
      <4>5. \A j \in ((i + 1) + 1)..n : Named(key, r[j].name) = {}
        BY <2>1, <2>2
      <4> HIDE DEF next
      <4> QED BY <2>1, <2>7, <4>1, <4>3, <4>4, <4>5
    <3>2. CASE tokens # <<>>
      <4>1. next = With(key, sub)
        BY <3>2
      <4> HIDE DEF next
      <4>2. IsKey(next) /\ next.name = name /\ next.text = NoText /\ next.subs = Append(key.subs, sub)
        <5>1. IsKey(With(key, sub))
          BY <2>3, KeyChanged DEF With
        <5>2. With(key, sub) = Key(key.name, key.text, Append(key.subs, sub))
          BY <2>3, WithFacts
        <5> QED BY <2>1, <4>1, <5>1, <5>2 DEF Key
      <4>3. GetString(next, sub.name) = sub.text /\ SubsOf(next, sub.name) = sub.subs
        BY <2>3, <4>1, WithTells
      <4>4. ASSUME NEW j \in 1..n, j # i + 1
            PROVE  /\ Named(next, r[j].name) = Named(key, r[j].name)
                   /\ GetString(next, r[j].name) = GetString(key, r[j].name)
                   /\ SubsOf(next, r[j].name) = SubsOf(key, r[j].name)
        BY <2>3, <2>4, <4>1, <4>4, WithTells
      <4>5. \A j \in 1..(i + 1) : GetString(next, r[j].name) = r[j].text /\ SubsOf(next, r[j].name) = r[j].subs
        <5> TAKE j \in 1..(i + 1)
        <5>1. CASE j = i + 1
          BY <4>3, <5>1 DEF sub
        <5>2. CASE j \in 1..i
          BY <2>1, <2>2, <4>4, <5>2
        <5> QED BY <2>2, <5>1, <5>2
      <4>6. \A j \in ((i + 1) + 1)..n : Named(next, r[j].name) = {}
        BY <2>1, <2>2, <4>4
      <4>7. ASSUME \A j \in 1..n : T[j] # <<>> PROVE next.subs = [j \in 1..(i + 1) |-> r[j]]
        <5> DEFINE s == [j \in 1..i |-> r[j]]
        <5>1. key.subs = s
          BY <2>1, <4>7
        <5>2. s = [j \in 1..i |-> s[j]]
          OBVIOUS
        <5>3. IsSequence(s) /\ Len(s) = i
          BY <2>2, <5>2, FunctionIsSequence
        <5>4. Append(s, sub) = [j \in 1..(i + 1) |-> IF j = i + 1 THEN sub ELSE s[j]]
          BY <5>3, AppendIsSequence
        <5>5. \A j \in 1..(i + 1) : (IF j = i + 1 THEN sub ELSE s[j]) = r[j]
          BY <2>2 DEF sub
        <5> HIDE DEF s
        <5> QED BY <4>2, <5>1, <5>4, <5>5
      <4> QED BY <2>7, <4>2, <4>5, <4>6, <4>7
    <3> QED BY <3>1, <3>2
  <2>9. i + 1 \in 0..n
    OBVIOUS
  <2> HIDE DEF Come, next
  <2> QED BY <2>8, <2>9
<1> HIDE DEF Q
<1>7. 0..n \subseteq Q
  BY <1>5, <1>6, InductionTo
<1>8. n \in Q
  BY <1>7
<1>9. PICK read : Come(n, read)
  BY <1>8 DEF Q
<1>10. Tells(read, r)
  BY <1>9 DEF Tells, IsList
<1>11. [j \in 1..n |-> r[j]] = r
  BY DEF IsList
<1> QED BY <1>4, <1>9, <1>10, <1>11

-----------------------------------------------------------------------------
(* What is read of an inventory that the file can describe.                *)

\* A number that is written is read as the number it was.
LEMMA NumberStrings ==
  \A n \in Known : ToString(n) # NoText /\ FromString(ToString(n)) = n /\ Rounded(n) \in Known
BY FileAssumption DEF FromString

\* No two numbers are written alike.
LEMMA NumberStringsDiffer ==
  ASSUME NEW m \in Known, NEW n \in Known, ToString(m) = ToString(n)
  PROVE  m = n
BY NumberStrings

\* A section over keys each of which is written.
LEMMA ListTold ==
  ASSUME NEW P, NEW f, Steps(P, f), NEW name, NEW n \in Nat, NEW S, IsList(S, n),
         NEW T, NEW r, Parts(P, f, name, n, T, r), \A i \in 1..n : T[i] # <<>>
  PROVE  Told(P, f, WrittenKey(Section(name, S), FlattenSeq(T)), Section(name, r))
<1>1. IsList(T, n) /\ IsList(r, n) /\ \A i \in 1..n : IsSequence(T[i])
  BY DEF Parts
<1>2. CASE n = 0
  <2>1. S = <<>> /\ r = <<>>
    BY <1>1, <1>2 DEF IsList
  <2>2. WrittenKey(Section(name, S), FlattenSeq(T)) = <<>>
    BY <2>1 DEF WrittenKey, Skipped, Section, Key
  <2>3. Section(name, r).text = NoText /\ Section(name, r).subs = <<>>
    BY <2>1 DEF Section, Key
  <2> QED BY <1>2, <2>2, <2>3 DEF Told
<1>3. CASE n # 0
  <2>1. PICK read : /\ IsKey(read) /\ read.name = name /\ read.text = NoText
                    /\ BodyReads(P, f, FlattenSeq(T), name, read)
                    /\ (\A i \in 1..n : T[i] # <<>>) => read.subs = r
    BY BodyTold
  <2>2. read = Section(name, r)
    BY <2>1, KeyFields DEF Section, Key
  <2>3. S # <<>>
    <3>1. Len(S) = n /\ Len(<<>>) = 0
      BY FunctionIsSequence DEF IsList
    <3> QED BY <1>3, <3>1
  <2>4. IsSequence(FlattenSeq(T))
    BY <1>1, FlattenIsSequence DEF IsList
  <2> QED BY <2>1, <2>2, <2>3, <2>4, SectionTold
<1> QED BY <1>2, <1>3

\* A section over strings of different names, none of them empty, is read as it was.
LEMMA StringsTold ==
  ASSUME NEW P, NEW f, Steps(P, f), NEW name, NEW n \in Nat,
         NEW S, IsList(S, n),
         \A i \in 1..n : S[i] = String(S[i].name, S[i].text) /\ S[i].text # NoText,
         \A i, j \in 1..n : S[i].name = S[j].name => i = j,
         NEW T, IsList(T, n), \A i \in 1..n : \E below : T[i] = WrittenKey(S[i], below)
  PROVE  /\ IsKey(Section(name, S))
         /\ Told(P, f, WrittenKey(Section(name, S), FlattenSeq(T)), Section(name, S))
<1>2. ASSUME NEW i \in 1..n PROVE IsKey(S[i]) /\ Told(P, f, T[i], S[i]) /\ T[i] # <<>> /\ IsSequence(T[i])
  <2> DEFINE nm == S[i].name
             tx == S[i].text
  <2>1. S[i] = String(nm, tx) /\ tx # NoText
    OBVIOUS
  <2>2. PICK below : T[i] = WrittenKey(S[i], below)
    OBVIOUS
  <2> HIDE DEF nm, tx
  <2>3. /\ Told(P, f, WrittenKey(String(nm, tx), below), String(nm, tx))
        /\ WrittenKey(String(nm, tx), below) # <<>>
    BY <2>1, StringTold
  <2>4. IsKey(String(nm, tx))
    BY PlainKeys
  <2>5. IsSequence(<<Str(nm), Str(tx)>>)
    <3>1. <<Str(nm), Str(tx)>> \in Seq({Str(nm), Str(tx)})
      OBVIOUS
    <3> QED BY <3>1 DEF IsSequence
  <2>6. WrittenKey(String(nm, tx), below) = <<Str(nm), Str(tx)>>
    BY <2>1 DEF WrittenKey, Skipped, String, Key
  <2> QED BY <2>1, <2>2, <2>3, <2>4, <2>5, <2>6
<1>3. IsKey(Section(name, S))
  BY <1>2, SectionKey DEF IsList
<1>4. Parts(P, f, name, n, T, S)
  <2>1. \A i \in 1..n : IsSequence(T[i]) /\ IsKey(S[i]) /\ Told(P, f, T[i], S[i])
    BY <1>2
  <2> QED BY <1>3, <2>1 DEF Parts
<1>5. \A i \in 1..n : T[i] # <<>>
  BY <1>2
<1> QED BY <1>3, <1>4, <1>5, ListTold

\* An item that the file can describe, and what comes of it.
PlainItem(item) ==
  /\ NoRepeats(item.equipped, LAMBDA place : place.class)
  /\ NoRepeats(item.attributes, LAMBDA attribute : attribute.def)
  /\ \A i \in DOMAIN item.attributes :
       /\ item.attributes[i].def \in DOMAIN AttributeType
       /\ item.attributes[i].value # <<>>

ValueRead(attribute) ==
  IF AttributeType[attribute.def] = "float" THEN Rounded(attribute.value[1])
  ELSE attribute.value[1]

AttributesRead(item) ==
  [i \in DOMAIN item.attributes |->
     [def |-> item.attributes[i].def, value |-> <<ValueRead(item.attributes[i])>>]]

ItemRead(item) ==
  [kind |-> item.kind, custom |-> item.custom, attributes |-> AttributesRead(item),
   equipped |-> item.equipped]

\* The strings that are written of its attributes and its places.
AttributeKeys(item) ==
  [i \in DOMAIN item.attributes |->
     String(ToString(item.attributes[i].def), AttributeString(item.attributes[i]))]
EquippedKeys(item) ==
  [i \in DOMAIN item.equipped |->
     String(ToString(item.equipped[i].class), ToString(item.equipped[i].slot))]

\* The attributes of an item that can be written have different names, and values.
LEMMA AttributeKeysFacts ==
  ASSUME NEW item, IsItem(item), PlainItem(item)
  PROVE  LET A == AttributeKeys(item)  n == Len(item.attributes) IN
         /\ n \in Nat /\ DOMAIN item.attributes = 1..n
         /\ IsList(A, n)
         /\ \A i \in 1..n : A[i] = String(A[i].name, A[i].text) /\ A[i].text # NoText
         /\ \A i, j \in 1..n : A[i].name = A[j].name => i = j
         /\ \A i \in 1..n : SetAttributeString(A[i]) = AttributesRead(item)[i]
<1> DEFINE A == AttributeKeys(item)
           a == item.attributes
           n == Len(a)
<1>1. /\ n \in Nat /\ DOMAIN a = 1..n
      /\ \A i \in 1..n : a[i] \in [def : Known, value : {<<>>} \cup {<<m>> : m \in Known}]
  BY SequenceLength DEF IsItem
<1>2. IsList(A, n)
  BY <1>1 DEF AttributeKeys, IsList
<1>3. ASSUME NEW i \in 1..n
      PROVE  /\ a[i].def \in Known /\ ValueRead(a[i]) \in Known
             /\ a[i].def \in DOMAIN AttributeType
             /\ AttributeString(a[i]) = ToString(ValueRead(a[i]))
  <2>1. a[i] \in [def : Known, value : {<<>>} \cup {<<m>> : m \in Known}]
    BY <1>1
  <2>2. a[i].def \in DOMAIN AttributeType /\ a[i].value # <<>>
    BY <1>1 DEF PlainItem
  <2>3. PICK m \in Known : a[i].value = <<m>>
    BY <2>1, <2>2
  <2>4. a[i].value[1] \in Known
    BY <2>3
  <2>5. AttributeString(a[i]) = ToString(ValueRead(a[i]))
    BY <2>2 DEF AttributeString, ValueRead
  <2> QED BY <2>1, <2>2, <2>4, <2>5, NumberStrings DEF ValueRead
<1>4. ASSUME NEW i \in 1..n
      PROVE  A[i].name = ToString(a[i].def) /\ A[i].text = ToString(ValueRead(a[i]))
             /\ A[i] = String(A[i].name, A[i].text)
  <2>1. A[i] = String(ToString(a[i].def), ToString(ValueRead(a[i])))
    BY <1>1, <1>3 DEF AttributeKeys
  <2> HIDE DEF A
  <2> QED BY <2>1 DEF String, Key
<1> HIDE DEF A
<1>5. \A i \in 1..n : A[i].text # NoText
  BY <1>3, <1>4, NumberStrings
<1>6. ASSUME NEW i \in 1..n, NEW j \in 1..n, A[i].name = A[j].name PROVE i = j
  <2>1. a[i].def = a[j].def
    BY <1>3, <1>4, <1>6, NumberStringsDiffer
  <2> QED BY <1>1, <2>1 DEF PlainItem, NoRepeats
<1>7. ASSUME NEW i \in 1..n PROVE SetAttributeString(A[i]) = AttributesRead(item)[i]
  <2>1. AttributesRead(item)[i] = [def |-> a[i].def, value |-> <<ValueRead(a[i])>>]
    BY <1>1 DEF AttributesRead
  <2>2. FromString(A[i].name) = a[i].def /\ FromString(A[i].text) = ValueRead(a[i])
    BY <1>3, <1>4, NumberStrings
  <2> QED BY <1>3, <2>1, <2>2 DEF SetAttributeString
<1> QED BY <1>1, <1>2, <1>4, <1>5, <1>6, <1>7 DEF A

\* So have its places, which are read as what they were.
LEMMA EquippedKeysFacts ==
  ASSUME NEW item, IsItem(item), PlainItem(item)
  PROVE  LET E == EquippedKeys(item)  n == Len(item.equipped) IN
         /\ n \in Nat /\ DOMAIN item.equipped = 1..n
         /\ IsList(E, n)
         /\ \A i \in 1..n : E[i] = String(E[i].name, E[i].text) /\ E[i].text # NoText
         /\ \A i, j \in 1..n : E[i].name = E[j].name => i = j
         /\ \A i \in 1..n : [class |-> FromString(E[i].name), slot |-> FromString(E[i].text)]
                              = item.equipped[i]
<1> DEFINE E == EquippedKeys(item)
           e == item.equipped
           n == Len(e)
<1>1. /\ n \in Nat /\ DOMAIN e = 1..n
      /\ \A i \in 1..n : e[i] \in [class : Known, slot : Known]
  BY SequenceLength DEF IsItem
<1>2. IsList(E, n)
  BY <1>1 DEF EquippedKeys, IsList
<1>3. ASSUME NEW i \in 1..n
      PROVE  /\ E[i].name = ToString(e[i].class) /\ E[i].text = ToString(e[i].slot)
             /\ E[i] = String(E[i].name, E[i].text)
             /\ e[i].class \in Known /\ e[i].slot \in Known
  <2>1. E[i] = String(ToString(e[i].class), ToString(e[i].slot))
    BY <1>1 DEF EquippedKeys
  <2> HIDE DEF E
  <2> QED BY <1>1, <2>1 DEF String, Key
<1> HIDE DEF E
<1>4. \A i \in 1..n : E[i].text # NoText
  BY <1>3, NumberStrings
<1>5. ASSUME NEW i \in 1..n, NEW j \in 1..n, E[i].name = E[j].name PROVE i = j
  <2>1. e[i].class = e[j].class
    BY <1>3, <1>5, NumberStringsDiffer
  <2> QED BY <1>1, <2>1 DEF PlainItem, NoRepeats
<1>6. ASSUME NEW i \in 1..n
      PROVE  [class |-> FromString(E[i].name), slot |-> FromString(E[i].text)] = e[i]
  <2>1. FromString(E[i].name) = e[i].class /\ FromString(E[i].text) = e[i].slot
    BY <1>3, NumberStrings
  <2> QED BY <1>1, <2>1
<1> QED BY <1>1, <1>2, <1>3, <1>4, <1>5, <1>6 DEF E

\* An item: its numbers and name, its attributes and its places.
LEMMA ItemTold ==
  ASSUME NEW P, NEW f, Steps(P, f), NEW id, NEW item, IsItem(item), PlainItem(item)
  PROVE  LET written == WrittenKey(WriteItem(id, item), Written2(WriteItem(id, item))) IN
         /\ written # <<>> /\ IsSequence(written)
         /\ \E read : /\ IsKey(read) /\ read.name = KeyOf(id)
                      /\ Told(P, f, written, read)
                      /\ ReadItem(read) = ItemRead(item)
<1> DEFINE A == AttributeKeys(item)
           E == EquippedKeys(item)
           number == String("def_index", ToString(item.kind))
           custom == String("custom_name", item.custom)
           attributes == Section("attributes", A)
           equipped == Section("equipped_state", E)
           subs == <<number, custom, attributes, equipped>>
           T == [i \in 1..4 |-> WrittenKey(subs[i], Written3(subs[i]))]
           name == KeyOf(id)
<1>1. WriteItem(id, item) = Section(name, subs)
  BY DEF WriteItem, AttributeKeys, EquippedKeys
<1>2. /\ number.name = "def_index" /\ number.text = ToString(item.kind) /\ number.subs = <<>>
      /\ custom.name = "custom_name" /\ custom.text = item.custom /\ custom.subs = <<>>
      /\ attributes.name = "attributes" /\ attributes.text = NoText /\ attributes.subs = A
      /\ equipped.name = "equipped_state" /\ equipped.text = NoText /\ equipped.subs = E
  BY DEF String, Section, Key
<1>3. /\ IsKey(number) /\ Told(P, f, WrittenKey(number, Written3(number)), number)
      /\ IsKey(custom) /\ Told(P, f, WrittenKey(custom, Written3(custom)), custom)
  BY StringTold, PlainKeys
<1>4. IsKey(attributes) /\ Told(P, f, WrittenKey(attributes, Written3(attributes)), attributes)
  <2> DEFINE n == Len(item.attributes)
             W == [i \in 1..n |-> WrittenKey(A[i], <<>>)]
  <2>1. /\ n \in Nat /\ IsList(A, n)
        /\ \A i \in 1..n : A[i] = String(A[i].name, A[i].text) /\ A[i].text # NoText
        /\ \A i, j \in 1..n : A[i].name = A[j].name => i = j
    BY AttributeKeysFacts
  <2>2. Written3(attributes) = FlattenSeq(W)
    <3>1. [i \in DOMAIN A |-> WrittenKey(A[i], <<>>)] = W
      BY <2>1 DEF IsList
    <3> QED BY <1>2, <3>1 DEF Written3
  <2> HIDE DEF A, n
  <2>3. IsList(W, n) /\ \A i \in 1..n : \E below : W[i] = WrittenKey(A[i], below)
    BY DEF IsList
  <2> HIDE DEF W
  <2> QED BY <2>1, <2>2, <2>3, StringsTold
<1>5. IsKey(equipped) /\ Told(P, f, WrittenKey(equipped, Written3(equipped)), equipped)
  <2> DEFINE n == Len(item.equipped)
             W == [i \in 1..n |-> WrittenKey(E[i], <<>>)]
  <2>1. /\ n \in Nat /\ IsList(E, n)
        /\ \A i \in 1..n : E[i] = String(E[i].name, E[i].text) /\ E[i].text # NoText
        /\ \A i, j \in 1..n : E[i].name = E[j].name => i = j
    BY EquippedKeysFacts
  <2>2. Written3(equipped) = FlattenSeq(W)
    <3>1. [i \in DOMAIN E |-> WrittenKey(E[i], <<>>)] = W
      BY <2>1 DEF IsList
    <3> QED BY <1>2, <3>1 DEF Written3
  <2> HIDE DEF E, n
  <2>3. IsList(W, n) /\ \A i \in 1..n : \E below : W[i] = WrittenKey(E[i], below)
    BY DEF IsList
  <2> HIDE DEF W
  <2> QED BY <2>1, <2>2, <2>3, StringsTold
<1> HIDE DEF A, E, number, custom, attributes, equipped
<1>6. /\ subs[1] = number /\ subs[2] = custom /\ subs[3] = attributes /\ subs[4] = equipped
      /\ IsList(subs, 4) /\ DOMAIN subs = 1..4 /\ subs # <<>>
      /\ \A i \in 1..4 : i = 1 \/ i = 2 \/ i = 3 \/ i = 4
  BY DEF IsList
<1>7. IsList(T, 4)
  BY DEF IsList
<1> HIDE DEF subs
<1>8. ASSUME NEW i \in 1..4 PROVE IsKey(subs[i]) /\ Told(P, f, T[i], subs[i])
  <2>1. T[i] = WrittenKey(subs[i], Written3(subs[i]))
    OBVIOUS
  <2> HIDE DEF T
  <2> QED BY <1>3, <1>4, <1>5, <1>6, <2>1, Zenon
<1>9. Written2(Section(name, subs)) = FlattenSeq(T)
  <2>1. Section(name, subs).subs = subs
    BY DEF Section, Key
  <2> QED BY <1>6, <2>1 DEF Written2
<1>10. ASSUME NEW i \in 1..4 PROVE IsSequence(T[i])
  <2>1. IsSequence(Written3(subs[i]))
    BY <1>8, WrittenType
  <2>2. T[i] = WrittenKey(subs[i], Written3(subs[i]))
    OBVIOUS
  <2> QED BY <2>1, <2>2, WrittenKeyType
<1> HIDE DEF T, name
<1>11. \A i, j \in 1..4 : subs[i].name = subs[j].name => i = j
  BY <1>2, <1>6
<1>12. Parts(P, f, name, 4, T, subs)
  <2>1. IsKey(Section(name, subs))
    BY <1>6, <1>8, SectionKey DEF IsList
  <2> QED BY <1>6, <1>7, <1>8, <1>10, <1>11, <2>1 DEF Parts
<1>13. PICK read : /\ IsKey(read) /\ read.name = name /\ read.text = NoText
                   /\ BodyReads(P, f, FlattenSeq(T), name, read)
                   /\ Tells(read, subs)
  BY <1>12, BodyTold
<1>14. IsSequence(FlattenSeq(T))
  BY <1>7, <1>10, FlattenIsSequence DEF IsList
<1>15. Told(P, f, WrittenKey(Section(name, subs), FlattenSeq(T)), read)
  BY <1>6, <1>13, <1>14, SectionTold
<1>16. /\ GetString(read, "def_index") = ToString(item.kind)
       /\ GetString(read, "custom_name") = item.custom
       /\ SubsOf(read, "attributes") = A /\ SubsOf(read, "equipped_state") = E
  BY <1>2, <1>6, <1>13 DEF Tells
<1>17. ReadItem(read) = ItemRead(item)
  <2>1. GetNumber(read, "def_index") = item.kind
    BY <1>16, NumberStrings DEF GetNumber, IsItem
  <2>2. [i \in DOMAIN A |-> SetAttributeString(A[i])] = AttributesRead(item)
    BY AttributeKeysFacts DEF A, AttributesRead, IsList
  <2>3. [i \in DOMAIN E |-> [class |-> FromString(E[i].name), slot |-> FromString(E[i].text)]]
          = item.equipped
    <3>1. item.equipped = [i \in 1..Len(item.equipped) |-> item.equipped[i]]
      BY DEF IsItem
    <3> QED BY <3>1, EquippedKeysFacts DEF E, IsList
  <2> QED BY <1>16, <2>1, <2>2, <2>3 DEF ReadItem, ItemRead
<1>18. /\ WrittenKey(Section(name, subs), FlattenSeq(T)) # <<>>
       /\ IsSequence(WrittenKey(Section(name, subs), FlattenSeq(T)))
  BY <1>6, <1>14, SectionWritten, WrittenKeyType
<1> QED BY <1>1, <1>9, <1>13, <1>15, <1>17, <1>18 DEF subs, name

\* A default equip.
LEMMA EquipTold ==
  ASSUME NEW P, NEW f, Steps(P, f), NEW equip \in [def : Known, class : Known, slot : Known]
  PROVE  LET key == WriteEquip(equip)  written == WrittenKey(key, Written2(key)) IN
         /\ written # <<>> /\ IsSequence(written)
         /\ IsKey(key) /\ key.name = ToString(equip.def)
         /\ Told(P, f, written, key) /\ ReadEquip(key) = equip
<1> DEFINE name == ToString(equip.def)
           class == ToString(equip.class)
           slot == ToString(equip.slot)
           n == 2
           S == <<String("class_id", class), String("slot_id", slot)>>
           T == [i \in 1..n |-> WrittenKey(S[i], Written3(S[i]))]
           key == Section(name, S)
<1>1. WriteEquip(equip) = key
  BY DEF WriteEquip
<1>2. /\ equip = [def |-> equip.def, class |-> equip.class, slot |-> equip.slot]
      /\ FromString(name) = equip.def /\ FromString(class) = equip.class
      /\ FromString(slot) = equip.slot /\ class # NoText /\ slot # NoText
  BY NumberStrings
<1> HIDE DEF name, class, slot
<1>3. /\ IsList(S, n) /\ DOMAIN S = 1..n /\ n \in Nat /\ n # 0 /\ 1 \in 1..n /\ 2 \in 1..n
      /\ S[1] = String("class_id", class) /\ S[2] = String("slot_id", slot)
      /\ \A i \in 1..n : i = 1 \/ i = 2
  BY DEF IsList
<1> HIDE DEF S, n
<1>4. /\ S[1].name = "class_id" /\ S[1].text = class /\ S[2].name = "slot_id" /\ S[2].text = slot
      /\ S[1] = String(S[1].name, S[1].text) /\ S[2] = String(S[2].name, S[2].text)
  BY <1>3 DEF String, Key
<1>5. /\ \A i \in 1..n : S[i] = String(S[i].name, S[i].text) /\ S[i].text # NoText
      /\ \A i, j \in 1..n : S[i].name = S[j].name => i = j
  BY <1>2, <1>3, <1>4
<1>6. key.name = name /\ key.text = NoText /\ key.subs = S
  BY DEF Section, Key
<1>7. Written2(key) = FlattenSeq(T)
  <2>1. [i \in DOMAIN S |-> WrittenKey(S[i], Written3(S[i]))] = T
    BY <1>3
  <2> HIDE DEF T
  <2> QED BY <1>6, <2>1 DEF Written2
<1>8. IsList(T, n) /\ \A i \in 1..n : \E below : T[i] = WrittenKey(S[i], below)
  BY DEF IsList
<1> HIDE DEF T
<1>9. IsKey(key) /\ Told(P, f, WrittenKey(key, FlattenSeq(T)), key)
  <2>1. IsList(S, n) /\ n \in Nat
    BY <1>3
  <2> QED BY <1>5, <1>8, <2>1, StringsTold
<1>10. WrittenKey(key, Written2(key)) # <<>> /\ IsSequence(WrittenKey(key, Written2(key)))
  <2>1. S # <<>>
    BY <1>3
  <2> QED BY <1>9, <2>1, SectionWritten, WrittenType, WrittenKeyType
<1>11. ReadEquip(key) = equip
  <2>1. Named(key, "class_id") = {1} /\ Named(key, "slot_id") = {2}
    BY <1>3, <1>4, <1>6 DEF Named
  <2>2. Min({1}) = 1 /\ Min({2}) = 2
    BY DEF Min
  <2>3. GetString(key, "class_id") = class /\ GetString(key, "slot_id") = slot
    BY <1>4, <1>6, <2>1, <2>2 DEF GetString
  <2> QED BY <1>2, <1>6, <2>3 DEF ReadEquip, GetNumber
<1> HIDE DEF key
<1>12. key.name = ToString(equip.def)
  BY <1>6 DEF key, name
<1> QED BY <1>1, <1>7, <1>9, <1>10, <1>11, <1>12

\* A section of sections, as items and default equips are, each of which is written, and
\* what they are read as.
Subsections(key) == [i \in DOMAIN key.subs |-> WrittenKey(key.subs[i], Written2(key.subs[i]))]
Sections(P, f, key, r) ==
  /\ IsKey(key) /\ key = Section(key.name, key.subs)
  /\ IsList(key.subs, Len(r)) /\ Len(r) \in Nat
  /\ \A i \in 1..Len(r) : /\ key.subs[i] = Section(r[i].name, key.subs[i].subs)
                           /\ key.subs[i].subs # <<>>
  /\ Parts(P, f, key.name, Len(r), Subsections(key), r)

\* It is read as what they are read as.
LEMMA SectionsTold ==
  ASSUME NEW P, NEW f, Steps(P, f), NEW key, NEW r, Sections(P, f, key, r)
  PROVE  /\ IsKey(Section(key.name, r)) /\ IsList(r, Len(r))
         /\ Told(P, f, WrittenKey(key, Written1(key)), Section(key.name, r))
<1> DEFINE S == key.subs
           T == Subsections(key)
           n == Len(r)
<1>1. /\ key = Section(key.name, S) /\ IsKey(key) /\ IsList(S, n) /\ n \in Nat
      /\ Parts(P, f, key.name, n, T, r)
  BY DEF Sections
<1>2. IsKey(Section(key.name, r)) /\ IsList(r, n) /\ IsList(T, n) /\ \A i \in 1..n : IsSequence(T[i])
  BY <1>1 DEF Parts
<1>3. ASSUME NEW i \in 1..n PROVE T[i] # <<>>
  <2> DEFINE nm == r[i].name
             subs == S[i].subs
  <2>1. S[i] = Section(nm, subs) /\ subs # <<>>
    BY DEF Sections
  <2>2. DOMAIN S = 1..n
    BY <1>1 DEF IsList
  <2>3. T[i] = WrittenKey(S[i], Written2(S[i]))
    BY <2>2 DEF Subsections
  <2> HIDE DEF nm, subs
  <2>4. IsSequence(Written2(S[i]))
    BY <1>1, <2>2, KeyFields, WrittenType
  <2> QED BY <2>1, <2>3, <2>4, SectionWritten
<1>4. Written1(key) = FlattenSeq(T)
  BY DEF Written1, Subsections
<1> HIDE DEF S, T, n
<1>5. Told(P, f, WrittenKey(Section(key.name, S), FlattenSeq(T)), Section(key.name, r))
  BY <1>1, <1>3, ListTold
<1> QED BY <1>1, <1>2, <1>4, <1>5 DEF n

\* The default equips are read as they were written.
LEMMA EquipsSections ==
  ASSUME NEW P, NEW f, Steps(P, f), NEW inventory, IsInventory(inventory), Plain(inventory)
  PROVE  LET key == EquipsKey(inventory) IN
         /\ Sections(P, f, key, key.subs)
         /\ key.name = "default_equips" /\ Len(key.subs) = Len(inventory.equips)
         /\ [i \in DOMAIN key.subs |-> ReadEquip(key.subs[i])] = inventory.equips
<1> DEFINE e == inventory.equips
           n == Len(e)
           S == [i \in DOMAIN e |-> WriteEquip(e[i])]
           T == [i \in 1..n |-> WrittenKey(S[i], Written2(S[i]))]
           key == EquipsKey(inventory)
<1>1. /\ n \in Nat /\ DOMAIN e = 1..n /\ e = [i \in 1..n |-> e[i]]
      /\ \A i \in 1..n : e[i] \in [def : Known, class : Known, slot : Known]
  <2> DEFINE E == [def : Known, class : Known, slot : Known]
  <2>1. e \in Seq(E)
    BY DEF IsInventory
  <2> HIDE DEF E
  <2>2. n \in Nat /\ DOMAIN e = 1..n /\ e = [i \in 1..n |-> e[i]] /\ \A i \in 1..n : e[i] \in E
    BY <2>1
  <2> QED BY <2>2 DEF E
<1>2. key = Section("default_equips", S) /\ key.subs = S
  BY DEF EquipsKey, Section, Key
<1>3. /\ IsList(S, n) /\ DOMAIN S = 1..n
      /\ \A i \in 1..n : S[i] = WriteEquip(e[i])
      /\ IsList(T, n) /\ \A i \in 1..n : T[i] = WrittenKey(S[i], Written2(S[i]))
  BY <1>1 DEF IsList
<1> HIDE DEF key, S, T
<1>4. ASSUME NEW i \in 1..n
      PROVE  /\ T[i] # <<>> /\ IsSequence(T[i])
             /\ IsKey(S[i]) /\ S[i].name = ToString(e[i].def)
             /\ Told(P, f, T[i], S[i]) /\ ReadEquip(S[i]) = e[i]
  <2>1. e[i] \in [def : Known, class : Known, slot : Known]
    BY <1>1
  <2>2. S[i] = WriteEquip(e[i]) /\ T[i] = WrittenKey(S[i], Written2(S[i]))
    BY <1>3
  <2> QED BY <2>1, <2>2, EquipTold
<1>5. ASSUME NEW i \in 1..n, NEW j \in 1..n, S[i].name = S[j].name PROVE i = j
  <2>1. e[i].def \in Known /\ e[j].def \in Known
    BY <1>1
  <2>2. e[i].def = e[j].def
    BY <1>4, <1>5, <2>1, NumberStringsDiffer
  <2> QED BY <1>1, <2>2 DEF Plain, NoRepeats
<1>6. IsKey(Section("default_equips", S))
  BY <1>1, <1>3, <1>4, SectionKey DEF IsList
<1>7. Parts(P, f, "default_equips", n, T, S)
  BY <1>3, <1>4, <1>5, <1>6 DEF Parts
<1>8. Subsections(key) = T
  BY <1>2, <1>3 DEF Subsections, IsList
<1>9. S = key.subs /\ Len(S) = n /\ key.name = "default_equips" /\ key = Section(key.name, key.subs)
  <2>1. Len(S) = n
    BY <1>1, <1>3, FunctionIsSequence DEF IsList
  <2>2. Section("default_equips", S).name = "default_equips"
    BY DEF Section, Key
  <2> QED BY <1>2, <2>1, <2>2
<1>10. [i \in DOMAIN S |-> ReadEquip(S[i])] = e
  BY <1>1, <1>3, <1>4
<1>11. \A i \in 1..n : S[i] = Section(S[i].name, S[i].subs) /\ S[i].subs # <<>>
  <2> TAKE i \in 1..n
  <2> DEFINE subs == <<String("class_id", ToString(e[i].class)), String("slot_id", ToString(e[i].slot))>>
  <2>1. S[i] = Section(ToString(e[i].def), subs)
    BY <1>3 DEF WriteEquip
  <2>2. subs # <<>>
    OBVIOUS
  <2> HIDE DEF subs
  <2> QED BY <2>1, <2>2 DEF Section, Key
<1>12. Sections(P, f, key, S)
  BY <1>1, <1>2, <1>3, <1>6, <1>7, <1>8, <1>9, <1>11 DEF Sections
<1> QED BY <1>9, <1>10, <1>12 DEF key

\* So their section is read as it was written.
LEMMA EquipsTold ==
  ASSUME NEW P, NEW f, Steps(P, f), NEW inventory, IsInventory(inventory), Plain(inventory)
  PROVE  LET key == EquipsKey(inventory) IN
         /\ IsKey(key) /\ Told(P, f, WrittenKey(key, Written1(key)), key)
         /\ [i \in DOMAIN key.subs |-> ReadEquip(key.subs[i])] = inventory.equips
<1> DEFINE key == EquipsKey(inventory)
<1>1. /\ Sections(P, f, key, key.subs)
      /\ [i \in DOMAIN key.subs |-> ReadEquip(key.subs[i])] = inventory.equips
  BY EquipsSections
<1> HIDE DEF key
<1>2. IsKey(key) /\ key = Section(key.name, key.subs)
  BY <1>1 DEF Sections
<1>3. Told(P, f, WrittenKey(key, Written1(key)), Section(key.name, key.subs))
  BY <1>1, SectionsTold
<1> QED BY <1>1, <1>2, <1>3 DEF key

\* An item is written as a section that is not empty.
LEMMA WrittenItemSection ==
  ASSUME NEW id, NEW item
  PROVE  \E subs : WriteItem(id, item) = Section(KeyOf(id), subs) /\ subs # <<>>
<1> DEFINE attributes ==
             Section("attributes",
               [i \in DOMAIN item.attributes |->
                  String(ToString(item.attributes[i].def), AttributeString(item.attributes[i]))])
           equipped ==
             Section("equipped_state",
               [i \in DOMAIN item.equipped |->
                  String(ToString(item.equipped[i].class), ToString(item.equipped[i].slot))])
           subs == <<String("def_index", ToString(item.kind)), String("custom_name", item.custom),
                     attributes, equipped>>
<1>1. WriteItem(id, item) = Section(KeyOf(id), subs)
  BY DEF WriteItem
<1> HIDE DEF attributes, equipped
<1>2. subs # <<>>
  OBVIOUS
<1> QED BY <1>1, <1>2

\* The items are read under their names, with what is read of each.
LEMMA ItemsSections ==
  ASSUME NEW P, NEW f, Steps(P, f), NEW inventory, IsInventory(inventory), Plain(inventory),
         NEW order \in SetToSeqs(DOMAIN inventory.items)
  PROVE  LET key == ItemsKey(inventory, order) IN
         \E r : /\ Sections(P, f, key, r) /\ key.name = "items" /\ Len(r) = Len(order)
                /\ \A i \in 1..Len(order) :
                     /\ r[i].name = KeyOf(order[i])
                     /\ ReadItem(r[i]) = ItemRead(inventory.items[order[i]])
<1> DEFINE n == Len(order)
           S == [i \in DOMAIN order |-> WriteItem(order[i], inventory.items[order[i]])]
           T == [i \in 1..n |-> WrittenKey(S[i], Written2(S[i]))]
           Good(i, read) == /\ IsKey(read) /\ read.name = KeyOf(order[i])
                            /\ Told(P, f, T[i], read)
                            /\ ReadItem(read) = ItemRead(inventory.items[order[i]])
           r == [i \in 1..n |-> CHOOSE read : Good(i, read)]
           key == ItemsKey(inventory, order)
<1>1. /\ n \in Nat /\ DOMAIN order = 1..n
      /\ \A i \in 1..n : order[i] \in DOMAIN inventory.items
      /\ \A i, j \in 1..n : i # j => order[i] # order[j]
  BY OrderFacts DEF IsInventory
<1>2. key = Section("items", S) /\ key.subs = S
  BY DEF ItemsKey, Section, Key
<1>3. /\ IsList(S, n) /\ DOMAIN S = 1..n
      /\ \A i \in 1..n : S[i] = WriteItem(order[i], inventory.items[order[i]])
      /\ IsList(T, n) /\ \A i \in 1..n : T[i] = WrittenKey(S[i], Written2(S[i]))
  BY <1>1 DEF IsList
<1> HIDE DEF key, S, T
<1>4. ASSUME NEW i \in 1..n
      PROVE  T[i] # <<>> /\ IsSequence(T[i]) /\ \E read : Good(i, read)
  <2> DEFINE item == inventory.items[order[i]]
  <2>1. IsItem(item)
    BY <1>1 DEF IsInventory
  <2>2. PlainItem(item)
    BY <1>1 DEF Plain, PlainItem, NoRepeats
  <2>3. S[i] = WriteItem(order[i], item) /\ T[i] = WrittenKey(S[i], Written2(S[i]))
    BY <1>3
  <2> HIDE DEF item
  <2>4. /\ T[i] # <<>> /\ IsSequence(T[i])
        /\ \E read : /\ IsKey(read) /\ read.name = KeyOf(order[i])
                     /\ Told(P, f, T[i], read) /\ ReadItem(read) = ItemRead(item)
    BY <2>1, <2>2, <2>3, ItemTold
  <2> QED BY <2>4 DEF item
<1>5. IsList(r, n)
  BY DEF IsList
<1>6. \A i \in 1..n : Good(i, r[i])
  <2> TAKE i \in 1..n
  <2>1. r[i] = CHOOSE read : Good(i, read)
    OBVIOUS
  <2> HIDE DEF Good, r
  <2> QED BY <1>4, <2>1
<1> HIDE DEF r
<1>7. ASSUME NEW i \in 1..n, NEW j \in 1..n, r[i].name = r[j].name PROVE i = j
  <2>1. /\ order[i] \in Ids /\ order[j] \in Ids /\ order[i].low = Own /\ order[j].low = Own
    BY <1>1 DEF IsInventory, Plain
  <2>2. order[i].high \in Known /\ order[j].high \in Known
    BY <2>1, FileAssumption DEF Ids
  <2>3. ToString(order[i].high) = ToString(order[j].high)
    BY <1>6, <1>7 DEF KeyOf, HighItemId
  <2>4. order[i].high = order[j].high
    BY <2>2, <2>3, NumberStringsDiffer
  <2>5. order[i] = order[j]
    BY <2>1, <2>4 DEF Ids
  <2> QED BY <1>1, <2>5
<1>8. IsKey(Section("items", r))
  BY <1>1, <1>5, <1>6, SectionKey DEF IsList
<1>9. Parts(P, f, "items", n, T, r)
  BY <1>3, <1>4, <1>5, <1>6, <1>7, <1>8 DEF Parts
<1>10. Subsections(key) = T
  BY <1>2, <1>3 DEF Subsections, IsList
<1>11. /\ S = key.subs /\ Len(r) = n /\ key.name = "items" /\ key = Section(key.name, key.subs)
  <2>1. Len(r) = n
    BY <1>1, <1>5, FunctionIsSequence DEF IsList
  <2>2. Section("items", S).name = "items"
    BY DEF Section, Key
  <2> QED BY <1>2, <2>1, <2>2
<1>12. \A i \in 1..n : S[i] = Section(r[i].name, S[i].subs) /\ S[i].subs # <<>>
  <2> TAKE i \in 1..n
  <2> DEFINE item == inventory.items[order[i]]
  <2>1. S[i] = WriteItem(order[i], item) /\ r[i].name = KeyOf(order[i])
    BY <1>3, <1>6
  <2>2. PICK subs : WriteItem(order[i], item) = Section(KeyOf(order[i]), subs) /\ subs # <<>>
    BY WrittenItemSection
  <2> HIDE DEF item
  <2> QED BY <2>1, <2>2 DEF Section, Key
<1>13. IsKey(key)
  <2>1. \A i \in 1..n : IsKey(S[i])
    BY <1>1, <1>3, WrittenItemKey DEF IsInventory
  <2> QED BY <1>1, <1>2, <1>3, <2>1, SectionKey DEF IsList
<1>14. Sections(P, f, key, r)
  BY <1>1, <1>3, <1>9, <1>10, <1>11, <1>12, <1>13 DEF Sections
<1> QED BY <1>6, <1>11, <1>14 DEF key

\* So their section is read as what is read of them.
LEMMA ItemsTold ==
  ASSUME NEW P, NEW f, Steps(P, f), NEW inventory, IsInventory(inventory), Plain(inventory),
         NEW order \in SetToSeqs(DOMAIN inventory.items)
  PROVE  LET key == ItemsKey(inventory, order) IN
         \E r : /\ IsKey(Section("items", r)) /\ IsList(r, Len(order))
                /\ Told(P, f, WrittenKey(key, Written1(key)), Section("items", r))
                /\ \A i \in 1..Len(order) :
                     /\ r[i].name = KeyOf(order[i])
                     /\ ReadItem(r[i]) = ItemRead(inventory.items[order[i]])
BY ItemsSections, SectionsTold

\* A file that was written whole is read as the writer's keys, and parses unless it is empty.
LEMMA WholeFileRead ==
  ASSUME NEW f, IsSequence(f), NEW name, NEW P, IsTrace(P, f, Section(name, <<>>)),
         NEW read, IsKey(read), BodyReads(P, f, f, name, read)
  PROVE  \A n : SubsOf(read, n) =
                  IF FromFile(f, name).ok THEN SubsOf(FromFile(f, name).key, n) ELSE <<>>
<1> DEFINE L == Len(f)
           key == Section(name, <<>>)
           p == Parse(f, key)
<1>1. L \in Nat /\ IsSequence(<<>>)
  <2>1. <<>> \in Seq({})
    OBVIOUS
  <2> QED BY <2>1 DEF IsSequence
<1>2. P[0] = Progress(<<>>, key, 0, "name") /\ P[L] = p
  BY DEF IsTrace
<1>3. At(P[L], <<>>, read)
  <2>1. Reads(P, f, f, <<>>, key, read)
    BY <1>1 DEF BodyReads
  <2>2. 0 \in 0..L /\ Has(f, 0, f) /\ 0 + L = L
    BY <1>1 DEF Has
  <2>3. At(P[0], <<>>, key)
    BY <1>2 DEF At, Progress
  <2> QED BY <2>1, <2>2, <2>3 DEF Reads
<1>4. CASE f = <<>>
  <2>1. L = 0
    BY <1>4
  <2>2. read = key
    BY <1>2, <1>3, <2>1 DEF At, Progress
  <2>3. key.subs = <<>>
    BY DEF Section, Key
  <2>4. \A n : Named(key, n) = {}
    BY <2>3 DEF Named
  <2>5. ~ FromFile(f, name).ok
    BY <1>4 DEF FromFile, Result
  <2> HIDE DEF key
  <2> QED BY <2>2, <2>4, <2>5 DEF SubsOf
<1>5. CASE f # <<>>
  <2>1. p.expects = "name" /\ p.outer = <<>> /\ p.key = read
    BY <1>2, <1>3 DEF At
  <2>2. ProgressOK(p)
    BY PlainKeys, ParseOK
  <2> HIDE DEF p
  <2>3. Outermost(p) = read
    BY <2>1, <2>2, OutermostKey
  <2>4. FromFile(f, name).ok /\ FromFile(f, name).key = read
    BY <1>5, <2>1, <2>3 DEF FromFile, Result, p
  <2> QED BY <2>4
<1> QED BY <1>4, <1>5

\* What a reload finds of an inventory that the file can describe.
LEMMA PlainRead ==
  ASSUME NEW inventory, IsInventory(inventory), Plain(inventory),
         NEW order \in SetToSeqs(DOMAIN inventory.items),
         file = Written(TreeOf(inventory, order))
  PROVE  /\ IsList(KeysIn("items"), Len(order))
         /\ \A i \in 1..Len(order) :
              /\ KeysIn("items")[i].name = KeyOf(order[i])
              /\ ReadItem(KeysIn("items")[i]) = ItemRead(inventory.items[order[i]])
         /\ [i \in DOMAIN KeysIn("default_equips") |-> ReadEquip(KeysIn("default_equips")[i])]
              = inventory.equips
<1> DEFINE itemsKey == ItemsKey(inventory, order)
           equipsKey == EquipsKey(inventory)
           subs == <<itemsKey, equipsKey>>
           T == [i \in 1..2 |-> WrittenKey(subs[i], Written1(subs[i]))]
<1>1. IsKey(TreeOf(inventory, order)) /\ IsSequence(file) /\ Len(file) \in Nat
  <2>1. IsKey(TreeOf(inventory, order))
    BY TreeIsKey
  <2>2. IsSequence(file)
    BY <2>1, WrittenType
  <2> QED BY <2>1, <2>2 DEF IsSequence
<1>2. PICK P : IsTrace(P, file, Section("inventory", <<>>))
  BY <1>1, ParseSteps
<1>3. Steps(P, file)
  BY <1>1, <1>2 DEF Steps, IsTrace
<1>4. PICK r : /\ IsKey(Section("items", r)) /\ IsList(r, Len(order))
               /\ Told(P, file, WrittenKey(itemsKey, Written1(itemsKey)), Section("items", r))
               /\ \A i \in 1..Len(order) :
                    /\ r[i].name = KeyOf(order[i])
                    /\ ReadItem(r[i]) = ItemRead(inventory.items[order[i]])
  BY <1>3, ItemsTold
<1>5. /\ IsKey(equipsKey) /\ Told(P, file, WrittenKey(equipsKey, Written1(equipsKey)), equipsKey)
      /\ [i \in DOMAIN equipsKey.subs |-> ReadEquip(equipsKey.subs[i])] = inventory.equips
  BY <1>3, EquipsTold
<1> DEFINE itemsRead == Section("items", r)
           read == <<itemsRead, equipsKey>>
<1>6. /\ itemsRead.name = "items" /\ itemsRead.subs = r
      /\ equipsKey.name = "default_equips"
      /\ TreeOf(inventory, order).subs = subs
  BY DEF Section, Key, EquipsKey, TreeOf
<1>7. IsSequence(WrittenKey(itemsKey, Written1(itemsKey))) /\ IsSequence(WrittenKey(equipsKey, Written1(equipsKey)))
  <2>1. IsKey(itemsKey)
    <3>1. \A i \in DOMAIN TreeOf(inventory, order).subs : IsKey(TreeOf(inventory, order).subs[i])
      BY <1>1, KeyFields
    <3>2. 1 \in DOMAIN subs /\ subs[1] = itemsKey
      OBVIOUS
    <3> QED BY <1>6, <3>1, <3>2
  <2> QED BY <1>5, <2>1, WrittenType, WrittenKeyType
<1> HIDE DEF itemsKey, equipsKey, itemsRead
<1>8. /\ IsList(read, 2) /\ DOMAIN read = 1..2 /\ read[1] = itemsRead /\ read[2] = equipsKey
      /\ DOMAIN subs = 1..2 /\ subs[1] = itemsKey /\ subs[2] = equipsKey
      /\ \A i \in 1..2 : i = 1 \/ i = 2
  BY DEF IsList
<1> HIDE DEF read, subs
<1>9. IsList(T, 2) /\ \A i \in 1..2 : T[i] = WrittenKey(subs[i], Written1(subs[i]))
  BY DEF IsList
<1> HIDE DEF T
<1>10. /\ T[1] = WrittenKey(itemsKey, Written1(itemsKey))
       /\ T[2] = WrittenKey(equipsKey, Written1(equipsKey))
  BY <1>8, <1>9
<1>11. \A i \in 1..2 : IsSequence(T[i]) /\ IsKey(read[i]) /\ Told(P, file, T[i], read[i])
  BY <1>4, <1>5, <1>7, <1>8, <1>10, Zenon DEF itemsRead
<1>12. \A i, j \in 1..2 : read[i].name = read[j].name => i = j
  BY <1>6, <1>8
<1>13. Parts(P, file, "inventory", 2, T, read)
  <2>1. IsKey(Section("inventory", read))
    BY <1>8, <1>11, SectionKey DEF IsList
  <2> QED BY <1>8, <1>9, <1>11, <1>12, <2>1 DEF Parts
<1>14. PICK key : /\ IsKey(key)
                  /\ BodyReads(P, file, FlattenSeq(T), "inventory", key)
                  /\ Tells(key, read)
  BY <1>3, <1>13, BodyTold
<1>15. file = FlattenSeq(T)
  <2>1. [i \in DOMAIN subs |-> WrittenKey(subs[i], Written1(subs[i]))] = T
    BY <1>8, <1>9 DEF IsList
  <2> QED BY <1>6, <2>1 DEF Written
<1>16. KeysIn("items") = SubsOf(key, "items") /\ KeysIn("default_equips") = SubsOf(key, "default_equips")
  BY <1>1, <1>2, <1>14, <1>15, WholeFileRead DEF KeysIn, InFile
<1>17. SubsOf(key, "items") = r /\ SubsOf(key, "default_equips") = equipsKey.subs
  BY <1>6, <1>8, <1>14 DEF Tells
<1> QED BY <1>4, <1>5, <1>16, <1>17

\* The items come back under their own ids, or the first of them do.
LEMMA FirstItemsRead ==
  ASSUME NEW inventory, IsInventory(inventory), Plain(inventory),
         NEW order \in SetToSeqs(DOMAIN inventory.items),
         NEW keys, Len(keys) \in 0..Len(order), Len(keys) <= FirstDefault,
         \A i \in 1..Len(keys) : IsKey(keys[i]) /\ keys[i].name = KeyOf(order[i])
  PROVE  /\ DOMAIN ReadItems(keys).items = {order[i] : i \in 1..Len(keys)}
         /\ \A i \in 1..Len(keys) : ReadItems(keys).items[order[i]] = ReadItem(keys[i])
<1> DEFINE L == Len(keys)
<1>1. /\ L \in Nat
      /\ \A i \in 1..L : order[i] \in DOMAIN inventory.items
      /\ \A i, j \in 1..L : i # j => order[i] # order[j]
  <2>1. /\ Len(order) \in Nat
        /\ \A i \in 1..Len(order) : order[i] \in DOMAIN inventory.items
        /\ \A i, j \in 1..Len(order) : i # j => order[i] # order[j]
    BY OrderFacts DEF IsInventory
  <2>2. L \in Nat /\ \A i \in 1..L : i \in 1..Len(order)
    BY <2>1
  <2> QED BY <2>1, <2>2
<1>2. PICK R : IsReading(R, keys)
  BY <1>1, ReadSteps
<1>3. FirstDefault \in Nat \ {0} /\ IdRange \in Nat
  BY FileAssumption
<1> HIDE DEF L
<1> DEFINE Come(n, new) ==
             /\ ReadOK(new, n)
             /\ DOMAIN new.items = {order[j] : j \in 1..n}
             /\ \A j \in 1..n : new.items[order[j]] = ReadItem(keys[j])
           Q == {n \in 0..L : Come(n, R[n])}
<1>4. 0 \in Q
  <2>1. R[0].items = NoItems /\ R[0].last = 0 /\ DOMAIN NoItems = {}
    BY <1>2 DEF IsReading, NoItems
  <2>2. ReadOK(R[0], 0)
    BY <1>3, <2>1, FS_EmptySet DEF ReadOK
  <2>3. 1..0 = {} /\ 0 \in 0..L
    BY <1>1
  <2> QED BY <2>1, <2>2, <2>3
<1>5. ASSUME NEW n \in 0..(L - 1), n \in Q PROVE n + 1 \in Q
  <2> DEFINE old == R[n]
             new == R[n + 1]
             id == order[n + 1]
             key == keys[n + 1]
  <2>1. /\ n \in Nat /\ n < FirstDefault /\ n + 1 \in 1..L /\ (n + 1) - 1 = n /\ n + 1 \in 0..L
        /\ \A j \in 1..(n + 1) : j = n + 1 \/ j \in 1..n
        /\ \A j \in 1..n : j \in 1..(n + 1) /\ j \in 1..L /\ j # n + 1
        /\ n + 1 \in 1..(n + 1)
    BY <1>1, <1>3 DEF L
  <2>2. new = CreateAndRead(old, key)
    BY <1>2, <2>1 DEF IsReading, L
  <2>3. Come(n, old)
    BY <1>5
  <2>4. IsKey(key) /\ key.name = KeyOf(id)
    BY <2>1 DEF L
  <2>5. ReadOK(new, n + 1)
    BY <2>1, <2>2, <2>3, <2>4, CreateAndReadOK
  <2>6. /\ id \in Ids /\ id.low = Own /\ id.high # 0 /\ ~ IsDefaultItemId(id.high)
    BY <1>1, <2>1 DEF IsInventory, Plain
  <2>7. id = [low |-> Own, high |-> id.high] /\ id.high \in 0..(IdRange - 1)
    BY <2>6 DEF Ids
  <2>8. FromString(key.name) = id.high
    <3>1. id.high \in Known
      BY <2>7, FileAssumption
    <3> QED BY <2>4, <3>1, NumberStrings DEF KeyOf, HighItemId
  <2>9. id \notin DOMAIN old.items
    BY <1>1, <2>1, <2>3
  <2> HIDE DEF id, key, old, new
  <2>10. FirstFree(old.items, id.high) = id.high
    <3>1. ~ Taken(old.items, id.high)
      BY <2>6, <2>7, <2>9 DEF Taken, InUse
    <3>2. id.high \in Nat /\ id.high < IdRange
      BY <1>3, <2>7
    <3>3. IsFiniteSet(DOMAIN old.items) /\ Cardinality(DOMAIN old.items) < FirstDefault
      BY <2>1, <2>3 DEF ReadOK
    <3> QED BY <3>1, <3>2, <3>3, FirstFreeId
  <2>11. new.items = [i \in DOMAIN old.items \cup {id} |->
                        IF i = id THEN ReadItem(key) ELSE old.items[i]]
    BY <2>2, <2>6, <2>7, <2>8, <2>10 DEF CreateAndRead
  <2>12. DOMAIN new.items = {order[j] : j \in 1..(n + 1)}
    BY <2>1, <2>3, <2>11 DEF id
  <2>13. \A j \in 1..(n + 1) : new.items[order[j]] = ReadItem(keys[j])
    <3> TAKE j \in 1..(n + 1)
    <3>1. CASE j = n + 1
      BY <2>11, <3>1 DEF id, key
    <3>2. CASE j \in 1..n
      <4>1. order[j] \in DOMAIN old.items /\ old.items[order[j]] = ReadItem(keys[j])
        BY <2>3, <3>2
      <4> QED BY <2>9, <2>11, <4>1
    <3> QED BY <2>1, <3>1, <3>2
  <2>14. Come(n + 1, new)
    BY <2>5, <2>12, <2>13
  <2> HIDE DEF Come
  <2> QED BY <2>1, <2>14 DEF new
<1> HIDE DEF Q
<1>6. 0..L \subseteq Q
  BY <1>1, <1>4, <1>5, InductionTo
<1>7. Come(L, R[L])
  BY <1>1, <1>6 DEF Q
<1>8. R[L] = ReadItems(keys)
  BY <1>2 DEF IsReading, L
<1> QED BY <1>7, <1>8 DEF L

\* All of them, if none is missing.
LEMMA PlainItemsRead ==
  ASSUME NEW inventory, IsInventory(inventory), Plain(inventory),
         NEW order \in SetToSeqs(DOMAIN inventory.items), Len(order) <= FirstDefault,
         NEW keys, Len(keys) = Len(order),
         \A i \in 1..Len(order) : IsKey(keys[i]) /\ keys[i].name = KeyOf(order[i])
  PROVE  /\ DOMAIN ReadItems(keys).items = DOMAIN inventory.items
         /\ \A i \in 1..Len(order) : ReadItems(keys).items[order[i]] = ReadItem(keys[i])
<1> DEFINE L == Len(order)
<1>1. /\ L \in Nat
      /\ \A i \in 1..L : order[i] \in DOMAIN inventory.items
      /\ \A x \in DOMAIN inventory.items : \E i \in 1..L : order[i] = x
  BY OrderFacts DEF IsInventory
<1>2. {order[i] : i \in 1..L} = DOMAIN inventory.items
  BY <1>1
<1>3. /\ Len(keys) \in 0..Len(order) /\ Len(keys) <= FirstDefault
      /\ \A i \in 1..Len(keys) : IsKey(keys[i]) /\ keys[i].name = KeyOf(order[i])
  BY <1>1
<1>4. /\ DOMAIN ReadItems(keys).items = {order[i] : i \in 1..Len(keys)}
      /\ \A i \in 1..Len(keys) : ReadItems(keys).items[order[i]] = ReadItem(keys[i])
  BY <1>3, FirstItemsRead
<1> QED BY <1>2, <1>4

\* A float is read back to within half of what its sixth decimal stands for.
LEMMA RoundedNear ==
  ASSUME NEW v \in Nat
  PROVE  2 * Rounded(v) <= 2 * v + Shown /\ 2 * v <= 2 * Rounded(v) + Shown
<1> DEFINE h == Shown \div 2
           q == (v + h) \div Shown
           m == Shown * q
           r == (v + h) % Shown
<1>1. Shown \in Nat \ {0}
  BY FileAssumption
<1>2. h \in Nat /\ 2 * h <= Shown /\ Shown <= 2 * h + 1
  BY <1>1
<1>3. v + h \in Nat
  BY <1>2
<1>4. r \in 0..(Shown - 1) /\ q \in Nat /\ v + h = m + r
  BY <1>1, <1>3, Remainder
<1>5. m \in Nat /\ Rounded(v) = m
  BY <1>1, <1>4 DEF Rounded
<1> HIDE DEF h, q, m, r
<1> QED BY <1>1, <1>2, <1>4, <1>5

\* What is read of an item is the item, with its floats rounded.
LEMMA ItemReadKept ==
  ASSUME NEW item, IsItem(item), PlainItem(item)
  PROVE  LET now == ItemRead(item) IN
         /\ now.kind = item.kind /\ now.custom = item.custom
         /\ now.equipped = item.equipped
         /\ Len(now.attributes) = Len(item.attributes)
         /\ \A i \in DOMAIN now.attributes : AlmostEqual(now.attributes[i], item.attributes[i])
<1> DEFINE a == item.attributes
           b == AttributesRead(item)
           n == Len(a)
<1>1. n \in Nat /\ DOMAIN a = 1..n
      /\ \A i \in 1..n : a[i] \in [def : Known, value : {<<>>} \cup {<<m>> : m \in Known}]
  BY SequenceLength DEF IsItem
<1>2. IsList(b, n)
      /\ \A i \in 1..n : b[i] = [def |-> a[i].def, value |-> <<ValueRead(a[i])>>]
  BY <1>1 DEF AttributesRead, IsList
<1> HIDE DEF b
<1>3. Len(b) = n /\ DOMAIN b = 1..n
  BY <1>1, <1>2, FunctionIsSequence DEF IsList
<1>4. ASSUME NEW i \in 1..n PROVE AlmostEqual(b[i], a[i])
  <2>1. PICK m \in Known : a[i].value = <<m>>
    BY <1>1 DEF PlainItem
  <2>2. a[i].value[1] = m /\ m \in Nat
    BY <2>1, NumbersKnown
  <2>3. b[i].def = a[i].def /\ b[i].value = <<ValueRead(a[i])>> /\ b[i].value[1] = ValueRead(a[i])
    <3>1. b[i] = [def |-> a[i].def, value |-> <<ValueRead(a[i])>>]
      BY <1>2
    <3> HIDE DEF a
    <3> QED BY <3>1
  <2>4. CASE AttributeType[a[i].def] # "float"
    BY <2>1, <2>2, <2>3, <2>4 DEF AlmostEqual, ValueRead
  <2>5. CASE AttributeType[a[i].def] = "float"
    BY <2>2, <2>3, <2>5, RoundedNear DEF AlmostEqual, ValueRead
  <2> QED BY <2>4, <2>5
<1>5. /\ ItemRead(item).kind = item.kind /\ ItemRead(item).custom = item.custom
      /\ ItemRead(item).equipped = item.equipped /\ ItemRead(item).attributes = b
  BY DEF ItemRead, b
<1> QED BY <1>3, <1>4, <1>5

\* An inventory that the file can describe comes back.
THEOREM PlainIsKeptHolds == Spec => []PlainIsKept
<1>1. FileInv => PlainIsKept
  <2> SUFFICES ASSUME FileInv, running, starts > 0, left = "whole", Plain(held)
               PROVE  /\ DOMAIN items = DOMAIN held.items
                      /\ equips = held.equips
                      /\ \A id \in DOMAIN items : Kept(id)
    BY DEF PlainIsKept
  <2>1. IsInventory(held) /\ IsSequence(file)
    BY DEF FileInv, TypesOK
  <2>2. PICK order \in SetToSeqs(DOMAIN held.items) : file = Written(TreeOf(held, order))
    BY DEF FileInv, WholeInv
  <2> DEFINE keys == KeysIn("items")
             equipKeys == KeysIn("default_equips")
             n == Len(order)
  <2>3. /\ IsList(keys, n)
        /\ \A i \in 1..n : /\ keys[i].name = KeyOf(order[i])
                           /\ ReadItem(keys[i]) = ItemRead(held.items[order[i]])
        /\ [i \in DOMAIN equipKeys |-> ReadEquip(equipKeys[i])] = held.equips
    BY <2>1, <2>2, PlainRead
  <2>4. /\ Len(keys) <= FirstDefault /\ items = ReadItems(keys).items
        /\ equips = [i \in DOMAIN equipKeys |-> ReadEquip(equipKeys[i])]
    BY DEF FileInv, ReadInv
  <2>5. \A i \in DOMAIN keys : IsKey(keys[i])
    BY <2>1, KeysInFile
  <2> HIDE DEF keys, equipKeys
  <2>6. /\ n \in Nat /\ \A i \in 1..n : order[i] \in DOMAIN held.items
        /\ \A x \in DOMAIN held.items : \E i \in 1..n : order[i] = x
    BY <2>1, OrderFacts DEF IsInventory
  <2>7. Len(keys) = n /\ DOMAIN keys = 1..n
    BY <2>3, <2>6, FunctionIsSequence DEF IsList
  <2>8. /\ DOMAIN items = DOMAIN held.items
        /\ \A i \in 1..n : items[order[i]] = ReadItem(keys[i])
    BY <2>1, <2>3, <2>4, <2>5, <2>7, PlainItemsRead
  <2>9. ASSUME NEW id \in DOMAIN items PROVE Kept(id)
    <3>1. PICK i \in 1..n : order[i] = id
      BY <2>6, <2>8
    <3>2. items[id] = ItemRead(held.items[id])
      BY <2>3, <2>8, <3>1
    <3>3. IsItem(held.items[id])
      BY <2>1, <2>8 DEF IsInventory
    <3>4. PlainItem(held.items[id])
      BY <2>8 DEF Plain, PlainItem, NoRepeats
    <3> QED BY <3>2, <3>3, <3>4, ItemReadKept DEF Kept
  <2> QED BY <2>3, <2>4, <2>8, <2>9
<1> QED BY <1>1, FileInvariant, PTL


-----------------------------------------------------------------------------
(* What the file can have in it, whatever was held: two items under one    *)
(* name, two places of one class or two default equips of one definition   *)
(* are read one into the other.  A list's subkeys are of some set and have *)
(* different names; what is written of a key keeps it one.                 *)

Lists(S) == {s \in Seq(S) : \A i, j \in 1..Len(s) : s[i].name = s[j].name => i = j}

\* Subkeys that are keys.
Keys(S) == \A sub \in S : IsKey(sub)

\* Wherever these tokens are in the file, a section over such a list stays one.
Keeps(P, f, tokens, S) ==
  \A n \in 0..Len(f) : \A subs \in Lists(S) : \A outer, name :
    (IsSequence(outer) /\ Has(f, n, tokens) /\ At(P[n], outer, Section(name, subs))) =>
      \E after \in Lists(S) : At(P[n + Len(tokens)], outer, Section(name, after))

\* The keys of a list, and no key.
LEMMA ListFacts ==
  ASSUME NEW S, Keys(S), NEW subs \in Lists(S)
  PROVE  /\ subs \in Seq(S) /\ Len(subs) \in Nat /\ DOMAIN subs = 1..Len(subs)
         /\ \A i \in 1..Len(subs) : subs[i] \in S /\ IsKey(subs[i])
         /\ \A i, j \in 1..Len(subs) : subs[i].name = subs[j].name => i = j
         /\ \A name : IsKey(Section(name, subs))
<1>1. subs \in Seq(S) /\ \A i, j \in 1..Len(subs) : subs[i].name = subs[j].name => i = j
  BY DEF Lists
<1>2. Len(subs) \in Nat /\ DOMAIN subs = 1..Len(subs) /\ \A i \in 1..Len(subs) : subs[i] \in S
  BY <1>1, SequenceLength
<1>3. \A i \in 1..Len(subs) : IsKey(subs[i])
  BY <1>2 DEF Keys
<1>4. \A name : IsKey(Section(name, subs))
  BY <1>1, <1>3, KeyOver DEF Section
<1> QED BY <1>1, <1>2, <1>3, <1>4

\* A list without keys.
LEMMA NoList ==
  ASSUME NEW S
  PROVE  <<>> \in Lists(S)
<1>1. <<>> \in Seq(S) /\ 1..Len(<<>>) = {}
  OBVIOUS
<1> QED BY <1>1 DEF Lists

\* FindOrCreateSubkey in a list: what is put in the place of the subkey it finds or makes
\* leaves a list.
LEMMA FoundInList ==
  ASSUME NEW S, Keys(S), NEW subs \in Lists(S), NEW top, NEW name
  PROVE  LET key == Section(top, subs)
             found == FoundOrCreated(key, name)
             i == IndexOf(key, name)
         IN /\ i \in DOMAIN found.subs
            /\ found.subs[i] = Section(name, <<>>)
                 \/ (found.subs[i] \in S /\ found.subs[i].name = name)
            /\ \A new \in S : new.name = name =>
                 \E after \in Lists(S) : [found EXCEPT !.subs[i] = new] = Section(top, after)
<1> DEFINE key == Section(top, subs)
           found == FoundOrCreated(key, name)
           i == IndexOf(key, name)
           n == Len(subs)
<1>1. /\ subs \in Seq(S) /\ n \in Nat /\ DOMAIN subs = 1..n
      /\ \A k \in 1..n : subs[k] \in S
      /\ \A j, k \in 1..n : subs[j].name = subs[k].name => j = k
      /\ IsKey(key)
  BY ListFacts
<1>2. key = [name |-> top, text |-> NoText, subs |-> subs]
  BY DEF Section, Key
<1> HIDE DEF key
<1>3. i \in DOMAIN found.subs
  BY <1>1, FoundFacts
<1>4. CASE Named(key, name) = {}
  <2>1. i = n + 1 /\ found = With(key, Section(name, <<>>))
    <3>1. key.subs = subs /\ Named(key, name) = {} /\ IsKey(key)
      BY <1>1, <1>2, <1>4
    <3> QED BY <3>1, FoundFacts DEF With
  <2>2. found.subs[i] = Section(name, <<>>)
    BY <1>1, <1>2, <2>1, WithFacts
  <2>3. ASSUME NEW new \in S, new.name = name
        PROVE  \E after \in Lists(S) : [found EXCEPT !.subs[i] = new] = Section(top, after)
    <3> DEFINE after == Append(subs, new)
    <3>1. [found EXCEPT !.subs[i] = new] = With(key, new)
      BY <1>1, <1>2, <2>1, WithFacts
    <3>2. With(key, new) = Section(top, after)
      BY <1>1, <1>2, WithFacts DEF Section, Key
    <3>3. /\ after \in Seq(S) /\ Len(after) = n + 1
          /\ \A k \in 1..Len(after) : after[k] = IF k = n + 1 THEN new ELSE subs[k]
      BY <1>1, AppendProperties
    <3>4. \A k \in 1..n : subs[k].name # name
      BY <1>1, <1>2, <1>4 DEF Named
    <3>5. \A k \in 1..(n + 1) : k = n + 1 \/ k \in 1..n
      BY <1>1
    <3> HIDE DEF after
    <3>6. after \in Lists(S)
      BY <1>1, <2>3, <3>3, <3>4, <3>5 DEF Lists
    <3> QED BY <3>1, <3>2, <3>6
  <2> HIDE DEF found, i
  <2> QED BY <1>3, <2>2, <2>3 DEF found, i, key
<1>5. CASE Named(key, name) # {}
  <2> DEFINE N == Named(key, name)
  <2>1. N \in SUBSET Nat /\ N \subseteq 1..n /\ \A k \in N : subs[k].name = name
    BY <1>1, <1>2 DEF Named
  <2>2. \E k \in N : \A j \in N : k <= j
    BY <1>5, <2>1, LeastOne
  <2>3. i \in N
    BY <1>5, <2>2 DEF IndexOf
  <2>4. found = key
    BY <1>1, <1>2, <2>1, <2>3 DEF FoundOrCreated
  <2> HIDE DEF found, i, N
  <2>5. found.subs[i] \in S /\ found.subs[i].name = name
    BY <1>1, <1>2, <2>1, <2>3, <2>4
  <2>6. ASSUME NEW new \in S, new.name = name
        PROVE  \E after \in Lists(S) : [found EXCEPT !.subs[i] = new] = Section(top, after)
    <3> DEFINE after == [subs EXCEPT ![i] = new]
    <3>1. [found EXCEPT !.subs[i] = new] = Section(top, after)
      BY <1>2, <2>4 DEF Section, Key
    <3>2. /\ after \in Seq(S) /\ Len(after) = n
          /\ \A k \in 1..n : after[k] = IF k = i THEN new ELSE subs[k]
      BY <1>1, <2>1, <2>3
    <3> HIDE DEF after
    <3>3. \A k \in 1..n : after[k].name = subs[k].name
      BY <2>1, <2>3, <2>6, <3>2
    <3>4. after \in Lists(S)
      BY <1>1, <3>2, <3>3 DEF Lists
    <3> QED BY <3>1, <3>4
  <2> QED BY <1>3, <2>5, <2>6 DEF found, i, key
<1> QED BY <1>4, <1>5

\* What is not written changes nothing.
LEMMA NothingKeeps ==
  ASSUME NEW P, NEW f, Steps(P, f), NEW S
  PROVE  Keeps(P, f, <<>>, S) /\ IsSequence(<<>>)
<1>1. Len(<<>>) = 0 /\ <<>> \in Seq({}) /\ \A k \in 0..Len(f) : k + 0 = k
  BY DEF Steps
<1> QED BY <1>1 DEF Keeps, IsSequence

\* Nor do keys that are written one after the other, if none of them does.
LEMMA ListKeeps ==
  ASSUME NEW P, NEW f, Steps(P, f), NEW S, NEW n \in Nat, NEW T, IsList(T, n),
         \A i \in 1..n : IsSequence(T[i]) /\ Keeps(P, f, T[i], S)
  PROVE  Keeps(P, f, FlattenSeq(T), S) /\ IsSequence(FlattenSeq(T))
<1>1. IsSequence(FlattenSeq(T))
  BY FlattenIsSequence DEF IsList
<1>3. PICK U, F : PartByPart(F, n, T, U)
  BY FlattenParts
<1>5. /\ F[0] = <<>> /\ F[n] = FlattenSeq(T)
      /\ \A i \in 0..n : F[i] \in Seq(U)
      /\ \A i \in 0..(n - 1) : F[i + 1] = F[i] \o T[i + 1] /\ T[i + 1] \in Seq(U)
  BY <1>3 DEF PartByPart
<1> DEFINE Q == {i \in 0..n : Keeps(P, f, F[i], S)}
<1>6. 0 \in Q
  BY <1>5, NothingKeeps
<1>7. ASSUME NEW i \in 0..(n - 1), i \in Q PROVE i + 1 \in Q
  <2> DEFINE tokens == T[i + 1]
             m == Len(F[i])
  <2>1. /\ F[i + 1] = F[i] \o tokens /\ tokens \in Seq(U) /\ F[i] \in Seq(U) /\ Keeps(P, f, tokens, S)
        /\ i + 1 \in 0..n
    <3>1. i \in 0..n /\ i + 1 \in 1..n /\ i + 1 \in 0..n
      OBVIOUS
    <3> QED BY <1>5, <3>1
  <2>2. Keeps(P, f, F[i], S)
    BY <1>7
  <2> HIDE DEF tokens
  <2>3. m \in Nat /\ Len(tokens) \in Nat /\ Len(F[i + 1]) = m + Len(tokens) /\ Len(f) \in Nat
    BY <2>1, ConcatFacts DEF Steps
  <2>4. Keeps(P, f, F[i + 1], S)
    <3> SUFFICES ASSUME NEW k \in 0..Len(f), NEW subs \in Lists(S), NEW outer, NEW name,
                        IsSequence(outer), Has(f, k, F[i + 1]), At(P[k], outer, Section(name, subs))
                 PROVE  \E after \in Lists(S) : At(P[k + Len(F[i + 1])], outer, Section(name, after))
      BY DEF Keeps
    <3>1. Has(f, k, F[i]) /\ Has(f, k + m, tokens)
      <4>1. Has(f, k, F[i] \o tokens) /\ k \in Nat
        BY <2>1, <2>3
      <4> QED BY <2>1, <2>3, <4>1, HasBoth
    <3>2. PICK half \in Lists(S) : At(P[k + m], outer, Section(name, half))
      BY <2>2, <3>1 DEF Keeps
    <3>3. k + m \in 0..Len(f) /\ k + (m + Len(tokens)) = (k + m) + Len(tokens)
      <4>1. k + m <= Len(f)
        BY <3>1 DEF Has
      <4> HIDE DEF m
      <4> QED BY <2>3, <4>1
    <3> HIDE DEF m
    <3>4. PICK after \in Lists(S) : At(P[(k + m) + Len(tokens)], outer, Section(name, after))
      BY <2>1, <3>1, <3>2, <3>3 DEF Keeps
    <3> QED BY <2>3, <3>3, <3>4
  <2> QED BY <2>1, <2>4
<1> HIDE DEF Q
<1>8. 0..n \subseteq Q
  BY <1>6, <1>7, InductionTo
<1>9. n \in Q
  BY <1>8
<1> QED BY <1>1, <1>5, <1>9 DEF Q

\* A string is put in a list in which its name is that of strings.
LEMMA StringKeeps ==
  ASSUME NEW P, NEW f, Steps(P, f), NEW S, Keys(S), NEW name, NEW text, NEW below,
         text # NoText => String(name, text) \in S,
         \A sub \in S : sub.name = name => sub.subs = <<>>
  PROVE  /\ Keeps(P, f, WrittenKey(String(name, text), below), S)
         /\ IsSequence(WrittenKey(String(name, text), below))
<1> DEFINE tokens == <<Str(name), Str(text)>>
           string == String(name, text)
<1>1. string.name = name /\ string.text = text /\ string.subs = <<>>
  BY DEF String, Key
<1> HIDE DEF string
<1>2. CASE text = NoText
  <2>1. WrittenKey(string, below) = <<>>
    BY <1>1, <1>2 DEF WrittenKey, Skipped
  <2> QED BY <2>1, NothingKeeps DEF string
<1>3. CASE text # NoText
  <2>1. WrittenKey(string, below) = tokens
    BY <1>1, <1>3 DEF WrittenKey, Skipped
  <2>2. /\ IsSequence(tokens) /\ Len(tokens) = 2
        /\ tokens[1] = Str(name) /\ tokens[2] = Str(text) /\ 1 \in 1..2 /\ 2 \in 1..2
    <3>1. tokens \in Seq({Str(name), Str(text)})
      OBVIOUS
    <3>2. /\ Len(tokens) = 2 /\ tokens[1] = Str(name) /\ tokens[2] = Str(text)
          /\ 1 \in 1..2 /\ 2 \in 1..2
      OBVIOUS
    <3> HIDE DEF tokens
    <3> QED BY <3>1, <3>2 DEF IsSequence
  <2> HIDE DEF tokens
  <2> SUFFICES ASSUME NEW k \in 0..Len(f), NEW subs \in Lists(S), NEW outer, NEW top,
                      IsSequence(outer), Has(f, k, tokens),
                      At(P[k], outer, Section(top, subs))
               PROVE  \E after \in Lists(S) : At(P[k + 2], outer, Section(top, after))
    BY <2>1, <2>2 DEF Keeps, string
  <2> DEFINE key == Section(top, subs)
             found == FoundOrCreated(key, name)
             i == IndexOf(key, name)
  <2>3. /\ k + 2 <= Len(f) /\ f[k + 1] = Str(name) /\ f[k + 2] = Str(text)
    BY <2>2 DEF Has
  <2>4. /\ k + 1 \in 1..Len(f) /\ k + 2 \in 1..Len(f) /\ (k + 1) - 1 = k /\ (k + 2) - 1 = k + 1
    BY <2>3 DEF Steps
  <2>5. P[k + 1] = Parsed(P[k], Str(name)) /\ P[k + 2] = Parsed(P[k + 1], Str(text))
    BY <2>3, <2>4 DEF Steps
  <2>6. P[k + 1] = Progress(outer, found, i, "value")
    BY <2>5, ParsedName DEF At
  <2>7. P[k + 2] = Progress(outer, [found EXCEPT !.subs[i].text = text], i, "name")
    <3>1. /\ P[k + 1].outer = outer /\ P[k + 1].key = found /\ P[k + 1].current = i
          /\ P[k + 1].expects = "value"
      BY <2>6, ProgressFields
    <3> HIDE DEF found, i
    <3> QED BY <2>5, <3>1, ParsedText
  <2>8. /\ i \in DOMAIN found.subs
        /\ found.subs[i] = Section(name, <<>>)
             \/ (found.subs[i] \in S /\ found.subs[i].name = name)
        /\ \A new \in S : new.name = name =>
             \E after \in Lists(S) : [found EXCEPT !.subs[i] = new] = Section(top, after)
    BY FoundInList
  <2>9. [found EXCEPT !.subs[i].text = text] = [found EXCEPT !.subs[i] = string]
    <3>1. /\ IsKey(found.subs[i]) /\ found.subs[i].name = name /\ found.subs[i].subs = <<>>
      <4>1. IsKey(Section(name, <<>>)) /\ Section(name, <<>>).name = name
            /\ Section(name, <<>>).subs = <<>>
        BY PlainKeys DEF Section, Key
      <4> HIDE DEF found, i
      <4> QED BY <2>8, <4>1 DEF Keys
    <3> HIDE DEF found, i
    <3>2. [found.subs[i] EXCEPT !.text = text] = string
      <4> DEFINE sub == found.subs[i]
      <4>1. sub = [name |-> name, text |-> sub.text, subs |-> <<>>]
        BY <3>1, KeyFields
      <4> HIDE DEF sub
      <4>2. [sub EXCEPT !.text = text] = string
        BY <4>1 DEF string, String, Key
      <4> QED BY <4>2 DEF sub
    <3> QED BY <2>8, <3>2
  <2>10. \E after \in Lists(S) : [found EXCEPT !.subs[i] = string] = Section(top, after)
    <3>1. string \in S
      BY <1>3 DEF string
    <3> HIDE DEF found, i
    <3> QED BY <1>1, <2>8, <3>1
  <2> HIDE DEF found, i
  <2> QED BY <2>7, <2>9, <2>10, ProgressFields DEF At
<1> QED BY <1>2, <1>3 DEF string

\* A section's subkeys go into the list of the section that has its name.
LEMMA SectionKeeps ==
  ASSUME NEW P, NEW f, Steps(P, f), NEW S, Keys(S), NEW B, NEW name, NEW subs,
         NEW below, IsSequence(below), Keeps(P, f, below, B),
         \A list \in Lists(B) : Section(name, list) \in S,
         \A sub \in S : sub.name = name => \E list \in Lists(B) : sub = Section(name, list)
  PROVE  /\ Keeps(P, f, WrittenKey(Section(name, subs), below), S)
         /\ IsSequence(WrittenKey(Section(name, subs), below))
<1> DEFINE tokens == <<Str(name), Open>> \o below \o <<Close>>
           m == Len(below)
           section == Section(name, subs)
<1>1. section.text = NoText /\ section.name = name /\ section.subs = subs
  BY DEF Section, Key
<1>2. IsSequence(WrittenKey(section, below))
  BY WrittenKeyType
<1> HIDE DEF section
<1>3. CASE subs = <<>>
  <2>1. WrittenKey(section, below) = <<>>
    BY <1>1, <1>3 DEF WrittenKey, Skipped
  <2> QED BY <1>2, <2>1, NothingKeeps DEF section
<1>4. CASE subs # <<>>
  <2>1. WrittenKey(section, below) = tokens
    BY <1>1, <1>4 DEF WrittenKey, Skipped
  <2> SUFFICES ASSUME NEW k \in 0..Len(f), NEW list \in Lists(S), NEW outer, NEW top,
                      IsSequence(outer), Has(f, k, tokens),
                      At(P[k], outer, Section(top, list))
               PROVE  \E after \in Lists(S) : At(P[k + Len(tokens)], outer, Section(top, after))
    BY <1>2, <2>1 DEF Keeps, section
  <2>2. /\ Len(tokens) = m + 3 /\ m \in Nat /\ k + (m + 3) <= Len(f) /\ Len(f) \in Nat
        /\ f[k + 1] = Str(name) /\ f[k + 2] = Open /\ Has(f, k + 2, below)
        /\ f[(k + 2) + (m + 1)] = Close
    BY SectionPlaces DEF Steps
  <2> DEFINE key == Section(top, list)
             found == FoundOrCreated(key, name)
             i == IndexOf(key, name)
             level == [key |-> found, current |-> i]
             end == (k + 2) + (m + 1)
  <2> HIDE DEF tokens
  <2>3. /\ k + 1 \in 1..Len(f) /\ (k + 1) - 1 = k /\ k + 2 \in 1..Len(f) /\ (k + 2) - 1 = k + 1
        /\ end \in 1..Len(f) /\ end - 1 = (k + 2) + m /\ k + 2 \in 0..Len(f) /\ k + (m + 3) = end
    BY <2>2
  <2> HIDE DEF end, m
  <2>9. /\ P[k + 1] = Parsed(P[k], Str(name)) /\ P[k + 2] = Parsed(P[k + 1], Open)
        /\ P[end] = Parsed(P[(k + 2) + m], Close)
    <3>1. \A j \in 1..Len(f) : P[j] = Parsed(P[j - 1], f[j])
      BY DEF Steps
    <3>2. P[end] = Parsed(P[end - 1], f[end]) /\ f[end] = Close
      BY <2>2, <2>3, <3>1 DEF end
    <3>3. P[k + 1] = Parsed(P[(k + 1) - 1], f[k + 1]) /\ P[k + 2] = Parsed(P[(k + 2) - 1], f[k + 2])
      BY <2>3, <3>1
    <3> QED BY <2>2, <2>3, <3>2, <3>3
  <2>10. P[k + 1] = Progress(outer, found, i, "value")
    BY <2>9, ParsedName DEF At
  <2>11. /\ i \in DOMAIN found.subs
         /\ found.subs[i] = Section(name, <<>>)
              \/ (found.subs[i] \in S /\ found.subs[i].name = name)
         /\ \A new \in S : new.name = name =>
              \E after \in Lists(S) : [found EXCEPT !.subs[i] = new] = Section(top, after)
    BY FoundInList
  <2> HIDE DEF found, i
  <2>12. PICK inner \in Lists(B) : found.subs[i] = Section(name, inner)
    BY <2>11, NoList
  <2>13. P[k + 2] = Progress(Append(outer, level), Section(name, inner), 0, "name")
    <3>1. /\ P[k + 1].outer = outer /\ P[k + 1].key = found /\ P[k + 1].current = i
          /\ P[k + 1].expects = "value"
      BY <2>10, ProgressFields
    <3> QED BY <2>9, <2>12, <3>1, ParsedOpen
  <2> HIDE DEF level
  <2>14. At(P[k + 2], Append(outer, level), Section(name, inner))
    BY <2>13 DEF At, Progress
  <2>15. PICK more \in Lists(B) : At(P[(k + 2) + m], Append(outer, level), Section(name, more))
    <3>1. IsSequence(Append(outer, level))
      BY AppendIsSequence
    <3> QED BY <2>2, <2>3, <2>14, <3>1 DEF Keeps, m
  <2>17. P[end] = Progress(outer, Holding(level, Section(name, more)), level.current, "name")
    <3> DEFINE p == P[(k + 2) + m]
               key2 == Section(name, more)
    <3>1. /\ p.outer = Append(outer, level) /\ p.key = key2 /\ p.expects = "name"
          /\ P[end] = Parsed(p, Close)
      BY <2>9, <2>15 DEF At
    <3> HIDE DEF p, key2
    <3>2. P[end] = Progress(outer, Holding(level, key2), level.current, "name")
      BY <3>1, SectionLeft
    <3> QED BY <3>2 DEF key2
  <2>18. PICK after \in Lists(S) : Holding(level, Section(name, more)) = Section(top, after)
    <3>1. Section(name, more) \in S /\ Section(name, more).name = name
      BY DEF Section, Key
    <3>2. PICK after \in Lists(S) :
            [found EXCEPT !.subs[i] = Section(name, more)] = Section(top, after)
      BY <2>11, <3>1
    <3>3. Holding(level, Section(name, more)) = [found EXCEPT !.subs[i] = Section(name, more)]
      BY DEF Holding, level
    <3> QED BY <3>2, <3>3
  <2>19. At(P[end], outer, Section(top, after))
    BY <2>17, <2>18, ProgressFields DEF At
  <2> QED BY <2>2, <2>3, <2>19
<1> QED BY <1>3, <1>4 DEF section

\* The quotient of a multiple with a remainder added is that of the multiple.
LEMMA QuotientOf ==
  ASSUME NEW N \in Nat \ {0}, NEW q \in Nat, NEW h \in 0..(N - 1)
  PROVE  (N * q + h) \div N = q
OBVIOUS

\* What is read of a float is read as it is.
LEMMA RoundedOnce ==
  ASSUME NEW v \in Nat
  PROVE  Rounded(Rounded(v)) = Rounded(v)
<1> DEFINE h == Shown \div 2
           q == (v + h) \div Shown
           m == q * Shown
<1>1. Shown \in Nat \ {0}
  BY FileAssumption
<1>2. h \in 0..(Shown - 1) /\ v + h \in Nat
  BY <1>1
<1>3. q \in Nat
  BY <1>1, <1>2, Remainder
<1>4. (m + h) \div Shown = q
  <2> HIDE DEF q, h
  <2>1. m + h = Shown * q + h
    BY <1>1, <1>2, <1>3
  <2> QED BY <1>1, <1>2, <1>3, <2>1, QuotientOf
<1> QED BY <1>4 DEF Rounded

\* The lists of a file.
ValuesOf(def) == {v \in Known : AttributeType[def] = "float" => Rounded(v) = v}
AttributeStrings ==
  UNION {{String(ToString(def), ToString(v)) : v \in ValuesOf(def)} :
         def \in Known \cap DOMAIN AttributeType}
PlaceStrings == {String(ToString(class), ToString(slot)) : class \in Known, slot \in Known}
ItemParts(customs) ==
  {String("def_index", ToString(n)) : n \in Known} \cup
  {String("custom_name", custom) : custom \in customs} \cup
  {Section("attributes", list) : list \in Lists(AttributeStrings)} \cup
  {Section("equipped_state", list) : list \in Lists(PlaceStrings)}
ItemSections(customs) ==
  {Section(ToString(n), list) : n \in Known, list \in Lists(ItemParts(customs))}
EquipParts ==
  {String("class_id", ToString(n)) : n \in Known} \cup
  {String("slot_id", ToString(n)) : n \in Known}
EquipSections == {Section(ToString(n), list) : n \in Known, list \in Lists(EquipParts)}
FileSections(customs) ==
  {Section("items", list) : list \in Lists(ItemSections(customs))} \cup
  {Section("default_equips", list) : list \in Lists(EquipSections)}

\* All of them are lists of keys.
LEMMA FileKeys ==
  ASSUME NEW customs
  PROVE  /\ Keys(AttributeStrings) /\ Keys(PlaceStrings) /\ Keys(ItemParts(customs))
         /\ Keys(ItemSections(customs)) /\ Keys(EquipParts) /\ Keys(EquipSections)
         /\ Keys(FileSections(customs))
<1>1. \A name, text : IsKey(String(name, text))
  BY PlainKeys
<1>2. ASSUME NEW S, Keys(S) PROVE \A list \in Lists(S) : \A name : IsKey(Section(name, list))
  BY <1>2, ListFacts
<1>3. Keys(AttributeStrings) /\ Keys(PlaceStrings) /\ Keys(EquipParts)
  BY <1>1 DEF Keys, AttributeStrings, PlaceStrings, EquipParts
<1>4. Keys(ItemParts(customs))
  BY <1>1, <1>2, <1>3 DEF Keys, ItemParts
<1>5. Keys(ItemSections(customs)) /\ Keys(EquipSections)
  BY <1>2, <1>3, <1>4 DEF Keys, ItemSections, EquipSections
<1>6. Keys(FileSections(customs))
  BY <1>2, <1>5 DEF Keys, FileSections
<1> QED BY <1>3, <1>4, <1>5, <1>6

\* The name of a section is its own.
LEMMA SectionIs ==
  ASSUME NEW name, NEW list
  PROVE  Section(name, list).name = name /\ Section(name, list).subs = list
         /\ Section(name, list).text = NoText
BY DEF Section, Key

\* That of a string is too.
LEMMA StringIs ==
  ASSUME NEW name, NEW text
  PROVE  String(name, text).name = name /\ String(name, text).subs = <<>>
         /\ String(name, text).text = text
BY DEF String, Key

\* Attributes are put into a list of attributes, or not written.
LEMMA AttributesKeep ==
  ASSUME NEW P, NEW f, Steps(P, f), NEW item, IsItem(item)
  PROVE  LET key == Section("attributes", AttributeKeys(item)) IN
         IsSequence(Written3(key)) /\ Keeps(P, f, Written3(key), AttributeStrings)
<1> DEFINE a == item.attributes
           n == Len(a)
           A == AttributeKeys(item)
           T == [i \in 1..n |-> WrittenKey(A[i], <<>>)]
<1>1. /\ n \in Nat /\ DOMAIN a = 1..n
      /\ \A i \in 1..n : a[i] \in [def : Known, value : {<<>>} \cup {<<m>> : m \in Known}]
  BY SequenceLength DEF IsItem
<1>2. DOMAIN A = 1..n /\ \A i \in 1..n : A[i] = String(ToString(a[i].def), AttributeString(a[i]))
  BY <1>1 DEF AttributeKeys
<1>3. Written3(Section("attributes", A)) = FlattenSeq(T)
  <2>1. [i \in DOMAIN A |-> WrittenKey(A[i], <<>>)] = T
    BY <1>2
  <2> HIDE DEF A, T
  <2> QED BY <2>1, SectionIs DEF Written3
<1>4. IsList(T, n) /\ \A i \in 1..n : T[i] = WrittenKey(A[i], <<>>)
  BY DEF IsList
<1> HIDE DEF A, T, n
<1>5. ASSUME NEW i \in 1..n
      PROVE  IsSequence(T[i]) /\ Keeps(P, f, T[i], AttributeStrings)
  <2> DEFINE def == a[i].def
             text == AttributeString(a[i])
  <2>1. text # NoText => String(ToString(def), text) \in AttributeStrings
    <3> SUFFICES ASSUME text # NoText PROVE String(ToString(def), text) \in AttributeStrings
      OBVIOUS
    <3>1. def \in Known /\ def \in DOMAIN AttributeType /\ a[i].value # <<>>
      BY <1>1 DEF AttributeString
    <3>2. PICK m \in Known : a[i].value = <<m>>
      BY <1>1, <3>1
    <3>3. text = ToString(IF AttributeType[def] = "float" THEN Rounded(m) ELSE m)
      BY <3>1, <3>2 DEF AttributeString
    <3>4. Rounded(m) \in Known /\ Rounded(Rounded(m)) = Rounded(m)
      BY NumberStrings, RoundedOnce, NumbersKnown
    <3>5. \E v \in ValuesOf(def) : text = ToString(v)
      BY <3>3, <3>4 DEF ValuesOf
    <3> HIDE DEF text, def
    <3> QED BY <3>1, <3>5 DEF AttributeStrings
  <2>2. \A sub \in AttributeStrings : sub.subs = <<>>
    BY StringIs DEF AttributeStrings
  <2>3. Keys(AttributeStrings)
    BY FileKeys
  <2> HIDE DEF def, text
  <2>4. /\ Keeps(P, f, WrittenKey(String(ToString(def), text), <<>>), AttributeStrings)
        /\ IsSequence(WrittenKey(String(ToString(def), text), <<>>))
    BY <2>1, <2>2, <2>3, StringKeeps
  <2> QED BY <1>2, <1>4, <2>4 DEF def, text
<1>6. Keeps(P, f, FlattenSeq(T), AttributeStrings) /\ IsSequence(FlattenSeq(T))
  BY <1>1, <1>4, <1>5, ListKeeps
<1> QED BY <1>3, <1>6 DEF A

\* So are places.
LEMMA PlacesKeep ==
  ASSUME NEW P, NEW f, Steps(P, f), NEW item, IsItem(item)
  PROVE  LET key == Section("equipped_state", EquippedKeys(item)) IN
         IsSequence(Written3(key)) /\ Keeps(P, f, Written3(key), PlaceStrings)
<1> DEFINE e == item.equipped
           n == Len(e)
           E == EquippedKeys(item)
           T == [i \in 1..n |-> WrittenKey(E[i], <<>>)]
<1>1. /\ n \in Nat /\ DOMAIN e = 1..n
      /\ \A i \in 1..n : e[i] \in [class : Known, slot : Known]
  BY SequenceLength DEF IsItem
<1>2. DOMAIN E = 1..n /\ \A i \in 1..n : E[i] = String(ToString(e[i].class), ToString(e[i].slot))
  BY <1>1 DEF EquippedKeys
<1>3. Written3(Section("equipped_state", E)) = FlattenSeq(T)
  <2>1. [i \in DOMAIN E |-> WrittenKey(E[i], <<>>)] = T
    BY <1>2
  <2> HIDE DEF E, T
  <2> QED BY <2>1, SectionIs DEF Written3
<1>4. IsList(T, n) /\ \A i \in 1..n : T[i] = WrittenKey(E[i], <<>>)
  BY DEF IsList
<1> HIDE DEF E, T, n
<1>5. ASSUME NEW i \in 1..n
      PROVE  IsSequence(T[i]) /\ Keeps(P, f, T[i], PlaceStrings)
  <2> DEFINE name == ToString(e[i].class)
             text == ToString(e[i].slot)
  <2>1. String(name, text) \in PlaceStrings
    BY <1>1 DEF PlaceStrings
  <2>2. \A sub \in PlaceStrings : sub.subs = <<>>
    BY StringIs DEF PlaceStrings
  <2>3. Keys(PlaceStrings)
    BY FileKeys
  <2> HIDE DEF name, text
  <2>4. /\ Keeps(P, f, WrittenKey(String(name, text), <<>>), PlaceStrings)
        /\ IsSequence(WrittenKey(String(name, text), <<>>))
    BY <2>1, <2>2, <2>3, StringKeeps
  <2> QED BY <1>2, <1>4, <2>4 DEF name, text
<1>6. Keeps(P, f, FlattenSeq(T), PlaceStrings) /\ IsSequence(FlattenSeq(T))
  BY <1>1, <1>4, <1>5, ListKeeps
<1> QED BY <1>3, <1>6 DEF E

\* Two lists of tokens, one after the other.
LEMMA BothKeep ==
  ASSUME NEW P, NEW f, Steps(P, f), NEW S, NEW a, NEW b,
         IsSequence(a), Keeps(P, f, a, S), IsSequence(b), Keeps(P, f, b, S)
  PROVE  Keeps(P, f, FlattenSeq(<<a, b>>), S) /\ IsSequence(FlattenSeq(<<a, b>>))
<1> DEFINE T == <<a, b>>
<1>1. IsList(T, 2) /\ T[1] = a /\ T[2] = b /\ \A i \in 1..2 : i = 1 \/ i = 2
  BY DEF IsList
<1> HIDE DEF T
<1>2. \A i \in 1..2 : IsSequence(T[i]) /\ Keeps(P, f, T[i], S)
  BY <1>1
<1> QED BY <1>1, <1>2, ListKeeps DEF T

\* A default equip is put into the list of them, into the one of its definition.
LEMMA EquipKeeps ==
  ASSUME NEW P, NEW f, Steps(P, f), NEW equip \in [def : Known, class : Known, slot : Known]
  PROVE  LET key == WriteEquip(equip) IN
         /\ Keeps(P, f, WrittenKey(key, Written2(key)), EquipSections)
         /\ IsSequence(WrittenKey(key, Written2(key)))
<1> DEFINE class == String("class_id", ToString(equip.class))
           slot == String("slot_id", ToString(equip.slot))
           subs == <<class, slot>>
           below == FlattenSeq(<<WrittenKey(class, Written3(class)), WrittenKey(slot, Written3(slot))>>)
           name == ToString(equip.def)
<1>1. class \in EquipParts /\ slot \in EquipParts
  BY DEF EquipParts
<1>2. \A sub \in EquipParts : sub.subs = <<>>
  BY StringIs DEF EquipParts
<1>3. /\ Keys(EquipParts) /\ Keys(EquipSections)
  BY FileKeys
<1>4. /\ Keeps(P, f, WrittenKey(class, Written3(class)), EquipParts)
      /\ IsSequence(WrittenKey(class, Written3(class)))
  BY <1>1, <1>2, <1>3, StringKeeps
<1>5. /\ Keeps(P, f, WrittenKey(slot, Written3(slot)), EquipParts)
      /\ IsSequence(WrittenKey(slot, Written3(slot)))
  BY <1>1, <1>2, <1>3, StringKeeps
<1>6. Written2(Section(name, subs)) = below
  <2>1. [i \in DOMAIN subs |-> WrittenKey(subs[i], Written3(subs[i]))]
          = <<WrittenKey(class, Written3(class)), WrittenKey(slot, Written3(slot))>>
    <3> HIDE DEF class, slot
    <3> QED OBVIOUS
  <2> HIDE DEF subs
  <2> QED BY <2>1, SectionIs DEF Written2
<1>7. WriteEquip(equip) = Section(name, subs)
  BY DEF WriteEquip
<1>8. name = ToString(equip.def) /\ equip.def \in Known
  OBVIOUS
<1> HIDE DEF class, slot, subs, name
<1>9. Keeps(P, f, below, EquipParts) /\ IsSequence(below)
  BY <1>4, <1>5, BothKeep
<1> HIDE DEF below
<1>10. /\ \A list \in Lists(EquipParts) : Section(name, list) \in EquipSections
       /\ \A sub \in EquipSections : sub.name = name =>
            \E list \in Lists(EquipParts) : sub = Section(name, list)
  BY <1>8, SectionIs DEF EquipSections
<1> QED BY <1>3, <1>6, <1>7, <1>9, <1>10, SectionKeeps

\* An item goes into the list of items, into the one of its name, be it another's.
LEMMA ItemKeeps ==
  ASSUME NEW P, NEW f, Steps(P, f), NEW customs, NEW id \in Ids, NEW item, IsItem(item),
         item.custom \in customs
  PROVE  LET key == WriteItem(id, item) IN
         /\ Keeps(P, f, WrittenKey(key, Written2(key)), ItemSections(customs))
         /\ IsSequence(WrittenKey(key, Written2(key)))
<1> DEFINE S == ItemParts(customs)
           number == String("def_index", ToString(item.kind))
           custom == String("custom_name", item.custom)
           attributes == Section("attributes", AttributeKeys(item))
           equipped == Section("equipped_state", EquippedKeys(item))
           subs == <<number, custom, attributes, equipped>>
           T == [i \in 1..4 |-> WrittenKey(subs[i], Written3(subs[i]))]
           name == KeyOf(id)
<1>1. WriteItem(id, item) = Section(name, subs)
  BY DEF WriteItem, AttributeKeys, EquippedKeys
<1>2. /\ Keys(S) /\ Keys(ItemSections(customs))
  BY FileKeys
<1>3. /\ number \in S /\ custom \in S
      /\ \A list \in Lists(AttributeStrings) : Section("attributes", list) \in S
      /\ \A list \in Lists(PlaceStrings) : Section("equipped_state", list) \in S
  BY DEF ItemParts, IsItem
<1>4. ASSUME NEW sub \in S
      PROVE  /\ sub.name \in {"def_index", "custom_name"} => sub.subs = <<>>
             /\ sub.name = "attributes" =>
                  \E list \in Lists(AttributeStrings) : sub = Section("attributes", list)
             /\ sub.name = "equipped_state" =>
                  \E list \in Lists(PlaceStrings) : sub = Section("equipped_state", list)
  <2>1. CASE sub \in {String("def_index", ToString(n)) : n \in Known}
    <3>1. sub.name = "def_index" /\ sub.subs = <<>>
      BY <2>1, StringIs
    <3> QED BY <3>1
  <2>2. CASE sub \in {String("custom_name", c) : c \in customs}
    <3>1. sub.name = "custom_name" /\ sub.subs = <<>>
      BY <2>2, StringIs
    <3> QED BY <3>1
  <2>3. CASE sub \in {Section("attributes", list) : list \in Lists(AttributeStrings)}
    <3>1. PICK list \in Lists(AttributeStrings) : sub = Section("attributes", list)
      BY <2>3
    <3>2. sub.name = "attributes"
      BY <3>1, SectionIs
    <3> QED BY <3>1, <3>2
  <2>4. CASE sub \in {Section("equipped_state", list) : list \in Lists(PlaceStrings)}
    <3>1. PICK list \in Lists(PlaceStrings) : sub = Section("equipped_state", list)
      BY <2>4
    <3>2. sub.name = "equipped_state"
      BY <3>1, SectionIs
    <3> QED BY <3>1, <3>2
  <2> QED BY <2>1, <2>2, <2>3, <2>4 DEF ItemParts
<1> HIDE DEF S
<1>5. /\ Keeps(P, f, WrittenKey(number, Written3(number)), S)
      /\ IsSequence(WrittenKey(number, Written3(number)))
  BY <1>2, <1>3, <1>4, StringKeeps
<1>6. /\ Keeps(P, f, WrittenKey(custom, Written3(custom)), S)
      /\ IsSequence(WrittenKey(custom, Written3(custom)))
  BY <1>2, <1>3, <1>4, StringKeeps
<1>7. /\ Keeps(P, f, WrittenKey(attributes, Written3(attributes)), S)
      /\ IsSequence(WrittenKey(attributes, Written3(attributes)))
  <2>1. IsSequence(Written3(attributes)) /\ Keeps(P, f, Written3(attributes), AttributeStrings)
    BY AttributesKeep
  <2> QED BY <1>2, <1>3, <1>4, <2>1, SectionKeeps
<1>8. /\ Keeps(P, f, WrittenKey(equipped, Written3(equipped)), S)
      /\ IsSequence(WrittenKey(equipped, Written3(equipped)))
  <2>1. IsSequence(Written3(equipped)) /\ Keeps(P, f, Written3(equipped), PlaceStrings)
    BY PlacesKeep
  <2> QED BY <1>2, <1>3, <1>4, <2>1, SectionKeeps
<1> HIDE DEF number, custom, attributes, equipped
<1>9. /\ subs[1] = number /\ subs[2] = custom /\ subs[3] = attributes /\ subs[4] = equipped
      /\ DOMAIN subs = 1..4 /\ \A i \in 1..4 : i = 1 \/ i = 2 \/ i = 3 \/ i = 4
  OBVIOUS
<1> HIDE DEF subs
<1>10. Written2(Section(name, subs)) = FlattenSeq(T)
  <2>1. [i \in DOMAIN subs |-> WrittenKey(subs[i], Written3(subs[i]))] = T
    BY <1>9
  <2> HIDE DEF T
  <2> QED BY <2>1, SectionIs DEF Written2
<1>11. IsList(T, 4) /\ \A i \in 1..4 : T[i] = WrittenKey(subs[i], Written3(subs[i]))
  BY DEF IsList
<1> HIDE DEF T
<1>12. \A i \in 1..4 : IsSequence(T[i]) /\ Keeps(P, f, T[i], S)
  BY <1>5, <1>6, <1>7, <1>8, <1>9, <1>11, Zenon
<1>13. Keeps(P, f, FlattenSeq(T), S) /\ IsSequence(FlattenSeq(T))
  BY <1>11, <1>12, ListKeeps
<1>14. \E n \in Known : name = ToString(n)
  BY FileAssumption DEF KeyOf, HighItemId, Ids
<1> HIDE DEF name
<1>15. /\ \A list \in Lists(S) : Section(name, list) \in ItemSections(customs)
       /\ \A sub \in ItemSections(customs) : sub.name = name =>
            \E list \in Lists(S) : sub = Section(name, list)
  BY <1>14, SectionIs DEF ItemSections, S
<1> QED BY <1>1, <1>2, <1>10, <1>13, <1>15, SectionKeeps DEF name

\* The names there are.
Customs(inventory) == {inventory.items[id].custom : id \in DOMAIN inventory.items}

\* The items of an inventory keep a list of items.
LEMMA ItemsKeep ==
  ASSUME NEW P, NEW f, Steps(P, f), NEW inventory, IsInventory(inventory),
         NEW order \in SetToSeqs(DOMAIN inventory.items)
  PROVE  LET key == ItemsKey(inventory, order) IN
         IsSequence(Written1(key)) /\ Keeps(P, f, Written1(key), ItemSections(Customs(inventory)))
<1> DEFINE n == Len(order)
           S == [i \in DOMAIN order |-> WriteItem(order[i], inventory.items[order[i]])]
           T == [i \in 1..n |-> WrittenKey(S[i], Written2(S[i]))]
           K == ItemSections(Customs(inventory))
<1>1. /\ n \in Nat /\ DOMAIN order = 1..n
      /\ \A i \in 1..n : order[i] \in DOMAIN inventory.items
  BY OrderFacts DEF IsInventory
<1>2. ItemsKey(inventory, order) = Section("items", S)
  BY DEF ItemsKey
<1>3. DOMAIN S = 1..n /\ \A i \in 1..n : S[i] = WriteItem(order[i], inventory.items[order[i]])
  BY <1>1
<1>4. IsList(T, n) /\ \A i \in 1..n : T[i] = WrittenKey(S[i], Written2(S[i]))
  BY DEF IsList
<1>5. Written1(Section("items", S)) = FlattenSeq(T)
  <2>1. [i \in DOMAIN S |-> WrittenKey(S[i], Written2(S[i]))] = T
    BY <1>3
  <2> HIDE DEF S, T
  <2> QED BY <2>1, SectionIs DEF Written1
<1> HIDE DEF S, T
<1>6. ASSUME NEW i \in 1..n PROVE IsSequence(T[i]) /\ Keeps(P, f, T[i], K)
  <2> DEFINE id == order[i]
             item == inventory.items[id]
  <2>1. id \in Ids /\ IsItem(item) /\ item.custom \in Customs(inventory)
    BY <1>1 DEF IsInventory, Customs
  <2>2. T[i] = WrittenKey(WriteItem(id, item), Written2(WriteItem(id, item)))
    BY <1>3, <1>4
  <2> HIDE DEF id, item, n
  <2> QED BY <2>1, <2>2, ItemKeeps
<1> HIDE DEF K, n
<1>7. Keeps(P, f, FlattenSeq(T), K) /\ IsSequence(FlattenSeq(T))
  BY <1>1, <1>4, <1>6, ListKeeps
<1> QED BY <1>2, <1>5, <1>7 DEF K

\* Its default equips keep a list of default equips.
LEMMA EquipsKeep ==
  ASSUME NEW P, NEW f, Steps(P, f), NEW inventory, IsInventory(inventory)
  PROVE  LET key == EquipsKey(inventory) IN
         IsSequence(Written1(key)) /\ Keeps(P, f, Written1(key), EquipSections)
<1> DEFINE e == inventory.equips
           n == Len(e)
           S == [i \in DOMAIN e |-> WriteEquip(e[i])]
           T == [i \in 1..n |-> WrittenKey(S[i], Written2(S[i]))]
<1>1. /\ n \in Nat /\ DOMAIN e = 1..n
      /\ \A i \in 1..n : e[i] \in [def : Known, class : Known, slot : Known]
  BY SequenceLength DEF IsInventory
<1>2. EquipsKey(inventory) = Section("default_equips", S)
  BY DEF EquipsKey
<1>3. DOMAIN S = 1..n /\ \A i \in 1..n : S[i] = WriteEquip(e[i])
  BY <1>1
<1>4. IsList(T, n) /\ \A i \in 1..n : T[i] = WrittenKey(S[i], Written2(S[i]))
  BY DEF IsList
<1>5. Written1(Section("default_equips", S)) = FlattenSeq(T)
  <2>1. [i \in DOMAIN S |-> WrittenKey(S[i], Written2(S[i]))] = T
    BY <1>3
  <2> HIDE DEF S, T
  <2> QED BY <2>1, SectionIs DEF Written1
<1> HIDE DEF S, T
<1>6. ASSUME NEW i \in 1..n PROVE IsSequence(T[i]) /\ Keeps(P, f, T[i], EquipSections)
  <2> DEFINE equip == e[i]
  <2>1. equip \in [def : Known, class : Known, slot : Known]
    BY <1>1
  <2>2. T[i] = WrittenKey(WriteEquip(equip), Written2(WriteEquip(equip)))
    BY <1>3, <1>4
  <2> HIDE DEF equip, n
  <2> QED BY <2>1, <2>2, EquipKeeps
<1> HIDE DEF n
<1>7. Keeps(P, f, FlattenSeq(T), EquipSections) /\ IsSequence(FlattenSeq(T))
  BY <1>1, <1>4, <1>6, ListKeeps
<1> QED BY <1>2, <1>5, <1>7

\* The whole file keeps its two lists.
LEMMA FileKeeps ==
  ASSUME NEW P, NEW f, Steps(P, f), NEW inventory, IsInventory(inventory),
         NEW order \in SetToSeqs(DOMAIN inventory.items)
  PROVE  Keeps(P, f, Written(TreeOf(inventory, order)), FileSections(Customs(inventory)))
<1> DEFINE itemsKey == ItemsKey(inventory, order)
           equipsKey == EquipsKey(inventory)
           subs == <<itemsKey, equipsKey>>
           a == WrittenKey(itemsKey, Written1(itemsKey))
           b == WrittenKey(equipsKey, Written1(equipsKey))
           C == Customs(inventory)
           S == FileSections(C)
<1>1. Keys(S)
  BY FileKeys
<1>2. PICK s : itemsKey = Section("items", s)
  BY DEF ItemsKey
<1>3. PICK t : equipsKey = Section("default_equips", t)
  BY DEF EquipsKey
<1>4. ASSUME NEW sub \in S
      PROVE  /\ sub.name = "items" =>
                  \E list \in Lists(ItemSections(C)) : sub = Section("items", list)
             /\ sub.name = "default_equips" =>
                  \E list \in Lists(EquipSections) : sub = Section("default_equips", list)
  <2>1. CASE sub \in {Section("items", list) : list \in Lists(ItemSections(C))}
    <3>1. PICK list \in Lists(ItemSections(C)) : sub = Section("items", list)
      BY <2>1
    <3>2. sub.name = "items"
      BY <3>1, SectionIs
    <3> QED BY <3>1, <3>2
  <2>2. CASE sub \in {Section("default_equips", list) : list \in Lists(EquipSections)}
    <3>1. PICK list \in Lists(EquipSections) : sub = Section("default_equips", list)
      BY <2>2
    <3>2. sub.name = "default_equips"
      BY <3>1, SectionIs
    <3> QED BY <3>1, <3>2
  <2> QED BY <2>1, <2>2 DEF FileSections
<1>5. /\ \A list \in Lists(ItemSections(C)) : Section("items", list) \in S
      /\ \A list \in Lists(EquipSections) : Section("default_equips", list) \in S
  BY DEF FileSections
<1>6. /\ IsSequence(Written1(itemsKey)) /\ Keeps(P, f, Written1(itemsKey), ItemSections(C))
      /\ IsSequence(Written1(equipsKey)) /\ Keeps(P, f, Written1(equipsKey), EquipSections)
  BY ItemsKeep, EquipsKeep
<1>7. Written(TreeOf(inventory, order)) = FlattenSeq(<<a, b>>)
  <2>1. [i \in DOMAIN subs |-> WrittenKey(subs[i], Written1(subs[i]))] = <<a, b>>
    <3> HIDE DEF itemsKey, equipsKey
    <3> QED OBVIOUS
  <2>2. TreeOf(inventory, order) = Section("inventory", subs)
    BY DEF TreeOf
  <2> HIDE DEF subs, a, b
  <2> QED BY <2>1, <2>2, SectionIs DEF Written
<1> HIDE DEF itemsKey, equipsKey, S, C
<1>8. Keeps(P, f, a, S) /\ IsSequence(a)
  BY <1>1, <1>2, <1>4, <1>5, <1>6, SectionKeeps
<1>9. Keeps(P, f, b, S) /\ IsSequence(b)
  BY <1>1, <1>3, <1>4, <1>5, <1>6, SectionKeeps
<1> HIDE DEF a, b
<1>10. Keeps(P, f, FlattenSeq(<<a, b>>), S)
  BY <1>8, <1>9, BothKeep
<1> QED BY <1>7, <1>10 DEF S, C

\* A section of a list, by its name: if the list has none, there is nothing.
LEMMA SubsOfList ==
  ASSUME NEW S, Keys(S), NEW subs \in Lists(S), NEW top, NEW name, NEW B,
         \A sub \in S : sub.name = name => sub.subs \in Lists(B)
  PROVE  SubsOf(Section(top, subs), name) \in Lists(B)
<1> DEFINE key == Section(top, subs)
           N == Named(key, name)
<1>1. key.subs = subs
  BY SectionIs
<1>2. \A i \in DOMAIN subs : subs[i] \in S
  BY ListFacts
<1>3. DOMAIN subs = 1..Len(subs) /\ Len(subs) \in Nat
  BY ListFacts
<1>4. CASE N = {}
  BY <1>4, NoList DEF SubsOf
<1>5. CASE N # {}
  <2>1. N \in SUBSET Nat /\ \A i \in N : i \in DOMAIN subs /\ subs[i].name = name
    BY <1>1, <1>3 DEF Named
  <2>2. Min(N) \in N
    <3>1. \E i \in N : \A j \in N : i <= j
      BY <1>5, <2>1, LeastOne
    <3> QED BY <3>1 DEF Min
  <2>3. SubsOf(key, name) = subs[Min(N)].subs
    BY <1>1, <1>5 DEF SubsOf
  <2> HIDE DEF N
  <2>4. subs[Min(N)] \in S /\ subs[Min(N)].name = name
    BY <1>2, <2>1, <2>2
  <2> QED BY <2>3, <2>4
<1> QED BY <1>4, <1>5

\* What is found in a file that was written whole, of any inventory.
LEMMA FileLists ==
  ASSUME NEW inventory, IsInventory(inventory), NEW order \in SetToSeqs(DOMAIN inventory.items),
         file = Written(TreeOf(inventory, order))
  PROVE  /\ KeysIn("items") \in Lists(ItemSections(Customs(inventory)))
         /\ KeysIn("default_equips") \in Lists(EquipSections)
<1> DEFINE L == Len(file)
           key == Section("inventory", <<>>)
           p == Parse(file, key)
           C == Customs(inventory)
           S == FileSections(C)
<1>1. IsSequence(file) /\ L \in Nat /\ IsSequence(<<>>)
  <2>1. IsKey(TreeOf(inventory, order))
    BY TreeIsKey
  <2>2. IsSequence(file)
    BY <2>1, WrittenType
  <2>3. <<>> \in Seq({})
    OBVIOUS
  <2> QED BY <2>2, <2>3 DEF IsSequence
<1>2. PICK P : IsTrace(P, file, key)
  BY <1>1, ParseSteps
<1>3. Steps(P, file)
  BY <1>1, <1>2 DEF Steps, IsTrace
<1>4. P[0] = Progress(<<>>, key, 0, "name") /\ P[L] = p
  BY <1>2 DEF IsTrace
<1>5. Keys(S)
  BY FileKeys
<1>6. PICK subs \in Lists(S) : At(P[L], <<>>, Section("inventory", subs))
  <2>1. Keeps(P, file, file, S)
    BY <1>3, FileKeeps
  <2>2. 0 \in 0..L /\ Has(file, 0, file) /\ 0 + L = L
    BY <1>1 DEF Has
  <2>3. At(P[0], <<>>, key)
    BY <1>4 DEF At, Progress
  <2>4. <<>> \in Lists(S)
    BY NoList
  <2> HIDE DEF S
  <2> QED BY <1>1, <2>1, <2>2, <2>3, <2>4 DEF Keeps
<1>7. /\ SubsOf(Section("inventory", subs), "items") \in Lists(ItemSections(C))
      /\ SubsOf(Section("inventory", subs), "default_equips") \in Lists(EquipSections)
  <2>1. ASSUME NEW sub \in S
        PROVE  /\ sub.name = "items" => sub.subs \in Lists(ItemSections(C))
               /\ sub.name = "default_equips" => sub.subs \in Lists(EquipSections)
    <3>1. CASE sub \in {Section("items", list) : list \in Lists(ItemSections(C))}
      <4>1. sub.name = "items" /\ sub.subs \in Lists(ItemSections(C))
        BY <3>1, SectionIs
      <4> QED BY <4>1
    <3>2. CASE sub \in {Section("default_equips", list) : list \in Lists(EquipSections)}
      <4>1. sub.name = "default_equips" /\ sub.subs \in Lists(EquipSections)
        BY <3>2, SectionIs
      <4> QED BY <4>1
    <3> QED BY <3>1, <3>2 DEF FileSections
  <2> HIDE DEF S, C
  <2> QED BY <1>5, <2>1, SubsOfList
<1> HIDE DEF S, C
<1>8. \A name : KeysIn(name) = <<>> \/ KeysIn(name) = SubsOf(Section("inventory", subs), name)
  <2>1. CASE file = <<>>
    <3>1. ~ InFile.ok
      BY <2>1 DEF InFile, FromFile, Result
    <3> QED BY <3>1 DEF KeysIn
  <2>2. CASE file # <<>>
    <3>1. p.expects = "name" /\ p.outer = <<>> /\ p.key = Section("inventory", subs)
      BY <1>4, <1>6 DEF At
    <3>2. ProgressOK(p)
      BY <1>1, PlainKeys, ParseOK
    <3> HIDE DEF p
    <3>3. Outermost(p) = Section("inventory", subs)
      BY <3>1, <3>2, OutermostKey
    <3>4. InFile.ok /\ InFile.key = Section("inventory", subs)
      BY <2>2, <3>1, <3>3 DEF InFile, FromFile, Result, p
    <3> QED BY <3>4 DEF KeysIn
  <2> QED BY <2>1, <2>2
<1> QED BY <1>7, <1>8, NoList DEF C

-----------------------------------------------------------------------------
(* What a reload changes it changes once.  SettledInv says of an inventory *)
(* that was read from a file written whole what is not Plain's of it: all  *)
(* but the ids that ran over to 0.                                         *)

SettledItem(item) == PlainItem(item) /\ ItemRead(item) = item

Settled(inventory) ==
  /\ inventory.items = [id \in DOMAIN inventory.items |-> inventory.items[id]]
  /\ \A id \in DOMAIN inventory.items :
       /\ id.low = Own /\ ~ IsDefaultItemId(id.high)
       /\ SettledItem(inventory.items[id])
  /\ \A i, j \in DOMAIN inventory.equips :
       inventory.equips[i].def = inventory.equips[j].def => i = j

SettledInv == settled => IF running THEN Settled(Current) ELSE Settled(held)

\* An item that is read from the lists of a file is read again as it is.
LEMMA ReadItemSettled ==
  ASSUME NEW customs, NEW key \in ItemSections(customs)
  PROVE  SettledItem(ReadItem(key))
<1> DEFINE A == SubsOf(key, "attributes")
           E == SubsOf(key, "equipped_state")
           item == ReadItem(key)
<1>1. PICK num \in Known, list \in Lists(ItemParts(customs)) : key = Section(ToString(num), list)
  BY DEF ItemSections
<1>2. A \in Lists(AttributeStrings) /\ E \in Lists(PlaceStrings)
  <2>1. ASSUME NEW sub \in ItemParts(customs)
        PROVE  /\ sub.name = "attributes" => sub.subs \in Lists(AttributeStrings)
               /\ sub.name = "equipped_state" => sub.subs \in Lists(PlaceStrings)
    <3>1. CASE sub \in {String("def_index", ToString(n)) : n \in Known}
      <4>1. sub.name = "def_index"
        BY <3>1, StringIs
      <4> QED BY <4>1
    <3>2. CASE sub \in {String("custom_name", c) : c \in customs}
      <4>1. sub.name = "custom_name"
        BY <3>2, StringIs
      <4> QED BY <4>1
    <3>3. CASE sub \in {Section("attributes", l) : l \in Lists(AttributeStrings)}
      <4>1. sub.name = "attributes" /\ sub.subs \in Lists(AttributeStrings)
        BY <3>3, SectionIs
      <4> QED BY <4>1
    <3>4. CASE sub \in {Section("equipped_state", l) : l \in Lists(PlaceStrings)}
      <4>1. sub.name = "equipped_state" /\ sub.subs \in Lists(PlaceStrings)
        BY <3>4, SectionIs
      <4> QED BY <4>1
    <3> QED BY <3>1, <3>2, <3>3, <3>4 DEF ItemParts
  <2>2. Keys(ItemParts(customs))
    BY FileKeys
  <2> QED BY <1>1, <2>1, <2>2, SubsOfList
<1> DEFINE n == Len(A)
           m == Len(E)
           a == item.attributes
           e == item.equipped
<1>3. /\ n \in Nat /\ DOMAIN A = 1..n /\ \A i \in 1..n : A[i] \in AttributeStrings
      /\ \A i, j \in 1..n : A[i].name = A[j].name => i = j
      /\ m \in Nat /\ DOMAIN E = 1..m /\ \A i \in 1..m : E[i] \in PlaceStrings
      /\ \A i, j \in 1..m : E[i].name = E[j].name => i = j
  <2>1. Keys(AttributeStrings) /\ Keys(PlaceStrings)
    BY FileKeys
  <2> HIDE DEF A, E
  <2> QED BY <1>2, <2>1, ListFacts
<1>4. /\ item = [kind |-> item.kind, custom |-> item.custom, attributes |-> a, equipped |-> e]
      /\ a = [i \in 1..n |-> SetAttributeString(A[i])]
      /\ e = [i \in 1..m |-> [class |-> FromString(E[i].name), slot |-> FromString(E[i].text)]]
  <2>1. item = [kind |-> GetNumber(key, "def_index"), custom |-> GetString(key, "custom_name"),
                attributes |-> [i \in DOMAIN A |-> SetAttributeString(A[i])],
                equipped |-> [i \in DOMAIN E |-> [class |-> FromString(E[i].name),
                                                  slot |-> FromString(E[i].text)]]]
    BY DEF ReadItem
  <2> HIDE DEF A, E, item
  <2> QED BY <1>3, <2>1
<1> HIDE DEF A, E, item, n, m
<1>5. ASSUME NEW i \in 1..n
      PROVE  /\ a[i].def \in Known \cap DOMAIN AttributeType /\ A[i].name = ToString(a[i].def)
             /\ a[i].value # <<>>
             /\ [def |-> a[i].def, value |-> <<ValueRead(a[i])>>] = a[i]
  <2>1. PICK def \in Known \cap DOMAIN AttributeType :
          \E v \in ValuesOf(def) : A[i] = String(ToString(def), ToString(v))
    BY <1>3 DEF AttributeStrings
  <2>2. PICK v \in ValuesOf(def) : A[i].name = ToString(def) /\ A[i].text = ToString(v)
    BY <2>1, StringIs
  <2>3. v \in Known /\ (AttributeType[def] = "float" => Rounded(v) = v)
    BY DEF ValuesOf
  <2>4. FromString(A[i].name) = def /\ FromString(A[i].text) = v
    BY <2>2, <2>3, NumberStrings
  <2>5. a[i] = [def |-> def, value |-> <<v>>]
    BY <1>4, <2>4 DEF SetAttributeString
  <2>6. a[i].def = def /\ a[i].value = <<v>> /\ a[i].value[1] = v /\ <<v>> # <<>>
    <3> DEFINE b == a[i]
    <3>1. b = [def |-> def, value |-> <<v>>]
      BY <2>5
    <3> HIDE DEF b
    <3>2. b.def = def /\ b.value = <<v>> /\ <<v>>[1] = v /\ <<v>> # <<>>
      BY <3>1
    <3> QED BY <3>2 DEF b
  <2>7. ValueRead(a[i]) = v
    BY <2>3, <2>6 DEF ValueRead
  <2> HIDE DEF a
  <2> QED BY <2>2, <2>5, <2>6, <2>7
<1>6. ASSUME NEW i \in 1..m PROVE e[i].class \in Known /\ E[i].name = ToString(e[i].class)
  <2>1. PICK class \in Known, slot \in Known : E[i] = String(ToString(class), ToString(slot))
    BY <1>3 DEF PlaceStrings
  <2>2. E[i].name = ToString(class)
    BY <2>1, StringIs
  <2>3. FromString(E[i].name) = class
    BY <2>2, NumberStrings
  <2>4. e[i] = [class |-> FromString(E[i].name), slot |-> FromString(E[i].text)]
    BY <1>4
  <2>5. e[i].class = class
    <3> HIDE DEF e
    <3> QED BY <2>3, <2>4
  <2> HIDE DEF e
  <2> QED BY <2>2, <2>5
<1>7. DOMAIN a = 1..n /\ a = [i \in 1..n |-> a[i]] /\ DOMAIN e = 1..m
  <2> HIDE DEF a, e
  <2> QED BY <1>4
<1>8. ASSUME NEW i \in 1..n, NEW j \in 1..n, a[i].def = a[j].def PROVE i = j
  <2>1. A[i].name = A[j].name
    <3> HIDE DEF a
    <3> QED BY <1>5, <1>8
  <2> QED BY <1>3, <2>1
<1>9. ASSUME NEW i \in 1..m, NEW j \in 1..m, e[i].class = e[j].class PROVE i = j
  BY <1>3, <1>6, <1>9
<1>10. AttributesRead(item) = a
  <2>1. AttributesRead(item) = [i \in 1..n |-> [def |-> a[i].def, value |-> <<ValueRead(a[i])>>]]
    BY <1>7 DEF AttributesRead
  <2> HIDE DEF a
  <2> QED BY <1>5, <1>7, <2>1
<1>11. ItemRead(item) = item
  BY <1>4, <1>10 DEF ItemRead
<1>12. PlainItem(item)
  BY <1>5, <1>7, <1>8, <1>9 DEF PlainItem, NoRepeats
<1> QED BY <1>11, <1>12 DEF SettledItem, item

\* Default equips that are read have different definitions.
LEMMA ReadEquipsSettled ==
  ASSUME NEW keys \in Lists(EquipSections)
  PROVE  LET read == [i \in DOMAIN keys |-> ReadEquip(keys[i])] IN
         \A i, j \in DOMAIN read : read[i].def = read[j].def => i = j
<1> DEFINE read == [i \in DOMAIN keys |-> ReadEquip(keys[i])]
<1>1. /\ DOMAIN keys = 1..Len(keys) /\ \A i \in 1..Len(keys) : keys[i] \in EquipSections
      /\ \A i, j \in 1..Len(keys) : keys[i].name = keys[j].name => i = j
  BY FileKeys, ListFacts
<1>2. ASSUME NEW i \in DOMAIN keys
      PROVE  read[i].def \in Known /\ keys[i].name = ToString(read[i].def)
  <2>1. PICK n \in Known, list \in Lists(EquipParts) : keys[i] = Section(ToString(n), list)
    BY <1>1 DEF EquipSections
  <2>2. keys[i].name = ToString(n)
    BY <2>1, SectionIs
  <2>3. read[i].def = FromString(keys[i].name)
    BY DEF ReadEquip
  <2> HIDE DEF read
  <2> QED BY <2>2, <2>3, NumberStrings
<1>3. DOMAIN read = DOMAIN keys
  OBVIOUS
<1> HIDE DEF read
<1>4. ASSUME NEW i \in DOMAIN keys, NEW j \in DOMAIN keys, read[i].def = read[j].def PROVE i = j
  BY <1>1, <1>2, <1>4
<1> QED BY <1>3, <1>4 DEF read

\* Each item that is read is that of some key.
LEMMA ReadItemsFrom ==
  ASSUME NEW keys, Len(keys) \in Nat, Len(keys) <= FirstDefault,
         \A i \in 1..Len(keys) : IsKey(keys[i])
  PROVE  LET its == ReadItems(keys).items IN
         /\ its = [id \in DOMAIN its |-> its[id]]
         /\ \A id \in DOMAIN its : \E i \in 1..Len(keys) : its[id] = ReadItem(keys[i])
<1> DEFINE L == Len(keys)
<1>1. PICK R : IsReading(R, keys)
  BY ReadSteps
<1> DEFINE From(its, n) ==
             /\ its = [id \in DOMAIN its |-> its[id]]
             /\ \A id \in DOMAIN its : \E i \in 1..n : its[id] = ReadItem(keys[i])
           Q == {n \in 0..L : From(R[n].items, n)}
<1>2. 0 \in Q
  <2>1. R[0].items = NoItems /\ DOMAIN NoItems = {} /\ NoItems = [id \in DOMAIN NoItems |-> NoItems[id]]
    BY <1>1 DEF IsReading, NoItems
  <2> QED BY <2>1
<1>3. ASSUME NEW n \in 0..(L - 1), n \in Q PROVE n + 1 \in Q
  <2> DEFINE old == R[n].items
             new == R[n + 1].items
             key == keys[n + 1]
  <2>1. /\ n + 1 \in 1..L /\ n + 1 \in 0..L /\ (n + 1) - 1 = n /\ n + 1 \in 1..(n + 1)
        /\ \A i \in 1..n : i \in 1..(n + 1)
    OBVIOUS
  <2>2. R[n + 1] = CreateAndRead(R[n], key)
    BY <1>1, <2>1 DEF IsReading
  <2> DEFINE given == FromString(key.name)
             start == IF given = 0 THEN (R[n].last + 1) % IdRange ELSE given
             id == [low |-> Own, high |-> FirstFree(old, start)]
  <2>3. new = [i \in DOMAIN old \cup {id} |-> IF i = id THEN ReadItem(key) ELSE old[i]]
    BY <2>2 DEF CreateAndRead
  <2>4. \A x \in DOMAIN old : \E i \in 1..n : old[x] = ReadItem(keys[i])
    BY <1>3
  <2> HIDE DEF old, new, id
  <2>5. new = [x \in DOMAIN new |-> new[x]]
    BY <2>3
  <2>6. ASSUME NEW x \in DOMAIN new PROVE \E i \in 1..(n + 1) : new[x] = ReadItem(keys[i])
    <3>1. CASE x = id
      BY <2>1, <2>3, <3>1
    <3>2. CASE x # id
      <4>1. x \in DOMAIN old /\ new[x] = old[x]
        BY <2>3, <3>2
      <4> QED BY <2>1, <2>4, <4>1
    <3> QED BY <3>1, <3>2
  <2>7. From(new, n + 1)
    BY <2>5, <2>6
  <2> HIDE DEF From
  <2> QED BY <2>1, <2>7 DEF new
<1> HIDE DEF Q
<1>4. 0..L \subseteq Q
  BY <1>2, <1>3, InductionTo
<1>5. From(R[L].items, L)
  BY <1>4 DEF Q
<1>6. R[L] = ReadItems(keys)
  BY <1>1 DEF IsReading
<1> QED BY <1>5, <1>6

\* An inventory that is read from a file written whole is settled.
LEMMA SettledRead ==
  ASSUME FileInv, ReadFromFile, left = "whole"
  PROVE  Settled([items |-> items', equips |-> equips'])
<1> DEFINE keys == KeysIn("items")
           equipKeys == KeysIn("default_equips")
           C == Customs(held)
<1>1. /\ Len(keys) <= FirstDefault
      /\ items' = ReadItems(keys).items
      /\ equips' = [i \in DOMAIN equipKeys |-> ReadEquip(equipKeys[i])]
  BY DEF ReadFromFile, KeysIn, InFile, Used
<1>2. keys \in Lists(ItemSections(C)) /\ equipKeys \in Lists(EquipSections)
  <2>1. IsInventory(held)
    BY DEF FileInv, TypesOK
  <2>2. PICK order \in SetToSeqs(DOMAIN held.items) : file = Written(TreeOf(held, order))
    BY DEF FileInv, WholeInv
  <2> QED BY <2>1, <2>2, FileLists
<1>3. /\ Len(keys) \in Nat /\ \A i \in 1..Len(keys) : keys[i] \in ItemSections(C) /\ IsKey(keys[i])
  BY <1>2, FileKeys, ListFacts
<1> HIDE DEF keys, equipKeys, C
<1>4. ReadOK(ReadItems(keys), Len(keys))
  BY <1>1, <1>3, ReadItemsOK
<1>5. /\ items' = [id \in DOMAIN items' |-> items'[id]]
      /\ \A id \in DOMAIN items' : \E i \in 1..Len(keys) : items'[id] = ReadItem(keys[i])
  BY <1>1, <1>3, ReadItemsFrom
<1>6. \A id \in DOMAIN items' :
        id.low = Own /\ ~ IsDefaultItemId(id.high) /\ SettledItem(items'[id])
  BY <1>1, <1>3, <1>4, <1>5, ReadItemSettled DEF ReadOK
<1>7. \A i, j \in DOMAIN equips' : equips'[i].def = equips'[j].def => i = j
  BY <1>1, <1>2, ReadEquipsSettled
<1> DEFINE now == [items |-> items', equips |-> equips']
<1>8. now.items = items' /\ now.equips = equips'
  OBVIOUS
<1> HIDE DEF now
<1>9. Settled(now)
  BY <1>5, <1>6, <1>7, <1>8 DEF Settled
<1> QED BY <1>9 DEF now

\* SettledInv holds in every reachable state.
LEMMA SettledInvariant == Spec => []SettledInv
<1>1. Init => SettledInv
  BY DEF Init, SettledInv
<1>2. ASSUME FileInv, SettledInv, Next PROVE SettledInv'
  <2>1. CASE WriteToFile \/ DieWriting
    <3>1. Writes
      BY <2>1 DEF WriteToFile, DieWriting
    <3>2. running /\ running' = FALSE /\ held' = Current /\ settled' = settled
      BY <3>1 DEF Writes, Current
    <3>3. settled => Settled(Current)
      BY <1>2, <3>2 DEF SettledInv
    <3> QED BY <3>2, <3>3 DEF SettledInv
  <2>2. CASE ReadFromFile
    <3>1. running' = TRUE /\ settled' = (left = "whole")
      BY <2>2 DEF ReadFromFile
    <3>2. left = "whole" => Settled([items |-> items', equips |-> equips'])
      BY <1>2, <2>2, SettledRead
    <3> QED BY <3>1, <3>2 DEF SettledInv, Current
  <2> QED BY <1>2, <2>1, <2>2 DEF Next
<1>3. SettledInv /\ UNCHANGED vars => SettledInv'
  BY DEF SettledInv, Current, vars
<1>4. FileInv /\ SettledInv /\ [Next]_vars => SettledInv'
  BY <1>2, <1>3
<1> QED BY <1>1, <1>4, FileInvariant, PTL DEF Spec

\* A settled inventory that is in the file comes back the same.
LEMMA SettledComesBack ==
  ASSUME FileInv, SettledInv, ReadFromFile, settled, left = "whole",
         \A id \in DOMAIN held.items : id.high # 0
  PROVE  items' = held.items /\ equips' = held.equips
<1> DEFINE keys == KeysIn("items")
           equipKeys == KeysIn("default_equips")
<1>1. /\ Len(keys) <= FirstDefault
      /\ items' = ReadItems(keys).items
      /\ equips' = [i \in DOMAIN equipKeys |-> ReadEquip(equipKeys[i])]
      /\ ~ running
  BY DEF ReadFromFile, KeysIn, InFile, Used
<1>2. IsInventory(held) /\ IsSequence(file) /\ Settled(held)
  BY <1>1 DEF FileInv, TypesOK, SettledInv
<1>3. Plain(held)
  BY <1>2 DEF Plain, Settled, SettledItem, PlainItem, NoRepeats
<1>4. PICK order \in SetToSeqs(DOMAIN held.items) : file = Written(TreeOf(held, order))
  BY DEF FileInv, WholeInv
<1> DEFINE n == Len(order)
<1>5. /\ IsList(keys, n)
      /\ \A i \in 1..n : /\ keys[i].name = KeyOf(order[i])
                         /\ ReadItem(keys[i]) = ItemRead(held.items[order[i]])
      /\ [i \in DOMAIN equipKeys |-> ReadEquip(equipKeys[i])] = held.equips
  BY <1>2, <1>3, <1>4, PlainRead
<1>6. \A i \in DOMAIN keys : IsKey(keys[i])
  BY <1>2, KeysInFile
<1> HIDE DEF keys, equipKeys
<1>7. /\ n \in Nat /\ \A i \in 1..n : order[i] \in DOMAIN held.items
      /\ \A x \in DOMAIN held.items : \E i \in 1..n : order[i] = x
  BY <1>2, OrderFacts DEF IsInventory
<1>8. Len(keys) = n /\ DOMAIN keys = 1..n
  BY <1>5, <1>7, FunctionIsSequence DEF IsList
<1>9. /\ DOMAIN items' = DOMAIN held.items
      /\ \A i \in 1..n : items'[order[i]] = ReadItem(keys[i])
  BY <1>1, <1>2, <1>3, <1>5, <1>6, <1>8, PlainItemsRead
<1>10. ASSUME NEW id \in DOMAIN held.items PROVE items'[id] = held.items[id]
  <2>1. ItemRead(held.items[id]) = held.items[id]
    BY <1>2 DEF Settled, SettledItem
  <2>2. PICK i \in 1..n : order[i] = id
    BY <1>7
  <2> QED BY <1>5, <1>9, <2>1, <2>2
<1>11. items' = [id \in DOMAIN items' |-> items'[id]]
  BY <1>1, <1>6, <1>7, <1>8, ReadItemsFrom
<1>12. held.items = [id \in DOMAIN held.items |-> held.items[id]]
  BY <1>2 DEF Settled
<1> QED BY <1>1, <1>5, <1>9, <1>10, <1>11, <1>12

\* A reload changes nothing of an inventory that has been read from a file written whole.
THEOREM SettledAfterOneHolds == Spec => SettledAfterOne
<1>1. FileInv /\ SettledInv /\ [Next]_vars =>
        [(ReadFromFile /\ settled /\ left = "whole" /\ \A id \in DOMAIN held.items : id.high # 0)
           => (items' = held.items /\ equips' = held.equips)]_vars
  BY SettledComesBack
<1> QED BY <1>1, FileInvariant, SettledInvariant, PTL DEF Spec, SettledAfterOne

-----------------------------------------------------------------------------
(* What is read of a file that the game died in.  Up to its last token the *)
(* parser does what it does in the whole file; so what matters is where it *)
(* is in the middle of one.                                                *)

\* A trace of the parser, with keys in it.
Runs(P, f) == Steps(P, f) /\ \A n \in 0..Len(f) : ProgressOK(P[n])

\* The parser is in these keys, in one of that name, in front of a subkey's name.
In(p, outer, name) == p.outer = outer /\ p.key.name = name /\ p.expects = "name"

\* It is in these keys and in one of that name, or further in.
Inside(p, outer, name) ==
  /\ p.expects \in {"name", "value"}
  /\ Len(outer) <= Len(p.outer)
  /\ \A i \in 1..Len(outer) : p.outer[i] = outer[i]
  /\ (IF Len(p.outer) = Len(outer) THEN p.key ELSE p.outer[Len(outer) + 1].key).name = name

\* Wherever these tokens are in the file, the parser does not leave the key it is in before
\* they end, and is in no other at the end of them.
Stays(P, f, tokens) ==
  \A n \in 0..Len(f) : \A outer, name :
    (IsSequence(outer) /\ Has(f, n, tokens) /\ In(P[n], outer, name)) =>
      /\ In(P[n + Len(tokens)], outer, name)
      /\ \A k \in 0..Len(tokens) : Inside(P[n + k], outer, name)

\* In a key is inside of it, and so is in front of a value.
LEMMA InIsInside ==
  ASSUME NEW p, NEW outer, IsSequence(outer), NEW name, p.outer = outer, p.key.name = name,
         p.expects \in {"name", "value"}
  PROVE  Inside(p, outer, name)
BY DEF Inside

\* What is not written moves nothing.
LEMMA NothingStays ==
  ASSUME NEW P, NEW f, Runs(P, f)
  PROVE  Stays(P, f, <<>>)
<1>1. Len(<<>>) = 0 /\ \A n \in 0..Len(f) : n + 0 = n
  BY DEF Runs, Steps
<1>2. ASSUME NEW n \in 0..Len(f), NEW outer, NEW name, IsSequence(outer), In(P[n], outer, name)
      PROVE  \A k \in 0..0 : Inside(P[n + k], outer, name)
  BY <1>1, <1>2, InIsInside DEF In
<1> QED BY <1>1, <1>2 DEF Stays

\* Reading a name leaves the parser where it is.
LEMMA NameStays ==
  ASSUME NEW p, ProgressOK(p), NEW outer, NEW name, In(p, outer, name), NEW text
  PROVE  LET q == Parsed(p, Str(text)) IN
         q.outer = outer /\ q.key.name = name /\ q.expects = "value"
<1> DEFINE q == Parsed(p, Str(text))
<1>1. q = Progress(outer, FoundOrCreated(p.key, text), IndexOf(p.key, text), "value")
  BY ParsedName DEF In
<1>2. FoundOrCreated(p.key, text).name = name
  <2>1. p.key = [name |-> p.key.name, text |-> p.key.text, subs |-> p.key.subs]
    BY KeyFields DEF ProgressOK
  <2> QED BY <2>1 DEF FoundOrCreated, In
<1> QED BY <1>1, <1>2, ProgressFields

\* So does reading a string.
LEMMA TextStays ==
  ASSUME NEW p, ProgressOK(p), p.expects = "value", NEW text
  PROVE  LET q == Parsed(p, Str(text)) IN
         q.outer = p.outer /\ q.key.name = p.key.name /\ q.expects = "name"
<1> DEFINE q == Parsed(p, Str(text))
           key == [p.key EXCEPT !.subs[p.current].text = text]
<1>1. q = Progress(p.outer, key, p.current, "name")
  BY ParsedText
<1>2. key.name = p.key.name
  <2>1. p.key = [name |-> p.key.name, text |-> p.key.text, subs |-> p.key.subs]
    BY KeyFields DEF ProgressOK
  <2> QED BY <2>1
<1> HIDE DEF key
<1> QED BY <1>1, <1>2, ProgressFields

\* A string.
LEMMA StringStays ==
  ASSUME NEW P, NEW f, Runs(P, f), NEW name, NEW text
  PROVE  Stays(P, f, <<Str(name), Str(text)>>)
<1> DEFINE tokens == <<Str(name), Str(text)>>
<1>1. Len(tokens) = 2 /\ tokens[1] = Str(name) /\ tokens[2] = Str(text) /\ 1 \in 1..2 /\ 2 \in 1..2
  OBVIOUS
<1> HIDE DEF tokens
<1> SUFFICES ASSUME NEW n \in 0..Len(f), NEW outer, NEW top,
                    IsSequence(outer), Has(f, n, tokens), In(P[n], outer, top)
             PROVE  /\ In(P[n + 2], outer, top)
                    /\ \A k \in 0..2 : Inside(P[n + k], outer, top)
  BY <1>1 DEF Stays, tokens
<1>2. /\ n + 2 <= Len(f) /\ f[n + 1] = Str(name) /\ f[n + 2] = Str(text) /\ Len(f) \in Nat
  BY <1>1 DEF Has, Runs, Steps
<1>3. /\ n + 1 \in 1..Len(f) /\ n + 2 \in 1..Len(f) /\ (n + 1) - 1 = n /\ (n + 2) - 1 = n + 1
      /\ n + 1 \in 0..Len(f) /\ n + 0 = n /\ \A k \in 0..2 : k = 0 \/ k = 1 \/ k = 2
  BY <1>2
<1>4. P[n + 1] = Parsed(P[n], Str(name)) /\ P[n + 2] = Parsed(P[n + 1], Str(text))
  BY <1>2, <1>3 DEF Runs, Steps
<1>5. P[n + 1].outer = outer /\ P[n + 1].key.name = top /\ P[n + 1].expects = "value"
  BY <1>4, NameStays DEF Runs
<1>6. In(P[n + 2], outer, top)
  BY <1>3, <1>4, <1>5, TextStays DEF Runs, In
<1>7. Inside(P[n], outer, top) /\ Inside(P[n + 1], outer, top) /\ Inside(P[n + 2], outer, top)
  BY <1>5, <1>6, InIsInside DEF In
<1> QED BY <1>3, <1>6, <1>7

\* Inside one more key is inside those around it.
LEMMA InsideOfMore ==
  ASSUME NEW p, NEW outer, IsSequence(outer), NEW level, NEW name,
         Inside(p, Append(outer, level), name)
  PROVE  Inside(p, outer, level.key.name)
<1> DEFINE n == Len(outer)
           more == Append(outer, level)
<1>1. /\ n \in Nat /\ Len(more) = n + 1
      /\ more = [i \in 1..(n + 1) |-> IF i = n + 1 THEN level ELSE outer[i]]
  BY AppendIsSequence DEF IsSequence
<1>2. /\ more[n + 1] = level /\ \A i \in 1..n : more[i] = outer[i] /\ i \in 1..(n + 1)
      /\ n + 1 \in 1..(n + 1)
  BY <1>1
<1> HIDE DEF more
<1>3. /\ n + 1 <= Len(p.outer) /\ \A i \in 1..(n + 1) : p.outer[i] = more[i]
      /\ p.expects \in {"name", "value"}
  BY <1>1 DEF Inside, more
<1>4. n <= Len(p.outer) /\ Len(p.outer) # n
  BY <1>1, <1>3
<1> QED BY <1>2, <1>3, <1>4 DEF Inside

\* A section, around what stays in it.
LEMMA SectionStays ==
  ASSUME NEW P, NEW f, Runs(P, f), NEW name, NEW below, IsSequence(below), Stays(P, f, below)
  PROVE  Stays(P, f, <<Str(name), Open>> \o below \o <<Close>>)
<1> DEFINE tokens == <<Str(name), Open>> \o below \o <<Close>>
           m == Len(below)
<1> SUFFICES ASSUME NEW n \in 0..Len(f), NEW outer, NEW top,
                    IsSequence(outer), Has(f, n, tokens), In(P[n], outer, top)
             PROVE  /\ In(P[n + Len(tokens)], outer, top)
                    /\ \A k \in 0..Len(tokens) : Inside(P[n + k], outer, top)
  BY DEF Stays
<1>1. /\ Len(tokens) = m + 3 /\ m \in Nat /\ n + (m + 3) <= Len(f) /\ Len(f) \in Nat
      /\ f[n + 1] = Str(name) /\ f[n + 2] = Open /\ Has(f, n + 2, below)
      /\ f[(n + 2) + (m + 1)] = Close
  BY SectionPlaces DEF Runs, Steps
<1> HIDE DEF tokens, m
<1>2. /\ n + 1 \in 1..Len(f) /\ n + 2 \in 1..Len(f) /\ (n + 1) - 1 = n /\ (n + 2) - 1 = n + 1
      /\ n + 1 \in 0..Len(f) /\ n + 2 \in 0..Len(f) /\ n + 0 = n
      /\ (n + 2) + (m + 1) \in 1..Len(f) /\ ((n + 2) + (m + 1)) - 1 = (n + 2) + m
      /\ (n + 2) + m \in 0..Len(f) /\ (n + 2) + (m + 1) = n + (m + 3)
      /\ \A k \in 0..(m + 3) : k = 0 \/ k = 1 \/ k = m + 3
           \/ (k - 2 \in 0..m /\ n + k = (n + 2) + (k - 2))
  BY <1>1
<1>3. /\ P[n + 1] = Parsed(P[n], Str(name)) /\ P[n + 2] = Parsed(P[n + 1], Open)
      /\ P[(n + 2) + (m + 1)] = Parsed(P[(n + 2) + m], Close)
  <2>1. \A i \in 1..Len(f) : P[i] = Parsed(P[i - 1], f[i])
    BY DEF Runs, Steps
  <2>2. P[(n + 2) + (m + 1)] = Parsed(P[((n + 2) + (m + 1)) - 1], f[(n + 2) + (m + 1)])
    <3> DEFINE j == (n + 2) + (m + 1)
    <3>1. j \in 1..Len(f)
      BY <1>2
    <3> HIDE DEF j
    <3>2. P[j] = Parsed(P[j - 1], f[j])
      BY <2>1, <3>1
    <3> QED BY <3>2, Zenon DEF j
  <2>3. P[n + 1] = Parsed(P[(n + 1) - 1], f[n + 1]) /\ P[n + 2] = Parsed(P[(n + 2) - 1], f[n + 2])
    BY <1>2, <2>1
  <2> QED BY <1>1, <1>2, <2>2, <2>3
<1>4. P[n + 1].outer = outer /\ P[n + 1].key.name = top /\ P[n + 1].expects = "value"
  BY <1>3, NameStays DEF Runs
<1> DEFINE level == [key |-> P[n + 1].key, current |-> P[n + 1].current]
           more == Append(outer, level)
           inner == P[n + 1].key.subs[P[n + 1].current]
<1>5. P[n + 2] = Progress(more, inner, 0, "name") /\ level.key.name = top /\ IsKey(level.key)
  <2>1. IsKey(P[n + 1].key)
    BY <1>2 DEF Runs, ProgressOK
  <2>2. P[n + 2] = Progress(more, inner, 0, "name")
    BY <1>3, <1>4, ParsedOpen
  <2> QED BY <1>4, <2>1, <2>2
<1> HIDE DEF level, inner
<1>6. In(P[n + 2], more, inner.name) /\ IsSequence(more)
  <2>1. IsSequence(more)
    BY AppendIsSequence
  <2> HIDE DEF more
  <2> QED BY <1>5, <2>1, ProgressFields DEF In
<1>7. /\ In(P[(n + 2) + m], more, inner.name)
      /\ \A k \in 0..m : Inside(P[(n + 2) + k], more, inner.name)
  BY <1>1, <1>2, <1>6 DEF Stays, m
<1>8. \A k \in 0..m : Inside(P[(n + 2) + k], outer, top)
  BY <1>5, <1>7, InsideOfMore
<1>9. In(P[(n + 2) + (m + 1)], outer, top)
  <2> DEFINE read == P[(n + 2) + m].key
             key == Holding(level, read)
  <2>2. P[(n + 2) + (m + 1)] = Progress(outer, key, level.current, "name")
    BY <1>3, <1>7, SectionLeft DEF In
  <2>3. key.name = top
    <3>1. level.key = [name |-> level.key.name, text |-> level.key.text, subs |-> level.key.subs]
      BY <1>5, KeyFields
    <3> HIDE DEF read
    <3> QED BY <1>5, <3>1 DEF Holding
  <2> HIDE DEF key
  <2> QED BY <2>2, <2>3, ProgressFields DEF In
<1>10. Inside(P[n], outer, top) /\ Inside(P[n + 1], outer, top)
       /\ Inside(P[(n + 2) + (m + 1)], outer, top)
  BY <1>4, <1>9, InIsInside DEF In
<1>11. ASSUME NEW k \in 0..(m + 3) PROVE Inside(P[n + k], outer, top)
  <2>1. CASE k = 0 \/ k = 1 \/ k = m + 3
    BY <1>2, <1>10, <2>1
  <2>2. CASE k - 2 \in 0..m /\ n + k = (n + 2) + (k - 2)
    BY <1>8, <2>2
  <2> QED BY <1>2, <2>1, <2>2
<1> QED BY <1>1, <1>2, <1>9, <1>11

\* What is written one after the other.
LEMMA ListStays ==
  ASSUME NEW P, NEW f, Runs(P, f), NEW n \in Nat, NEW T, IsList(T, n),
         \A i \in 1..n : IsSequence(T[i]) /\ Stays(P, f, T[i])
  PROVE  Stays(P, f, FlattenSeq(T))
<1>3. PICK U, F : PartByPart(F, n, T, U)
  BY FlattenParts
<1>5. /\ F[0] = <<>> /\ F[n] = FlattenSeq(T)
      /\ \A i \in 0..n : F[i] \in Seq(U)
      /\ \A i \in 0..(n - 1) : F[i + 1] = F[i] \o T[i + 1] /\ T[i + 1] \in Seq(U)
  BY <1>3 DEF PartByPart
<1> DEFINE Q == {i \in 0..n : Stays(P, f, F[i])}
<1>6. 0 \in Q
  BY <1>5, NothingStays
<1>7. ASSUME NEW i \in 0..(n - 1), i \in Q PROVE i + 1 \in Q
  <2> DEFINE tokens == T[i + 1]
             m == Len(F[i])
             l == Len(tokens)
  <2>1. /\ F[i + 1] = F[i] \o tokens /\ tokens \in Seq(U) /\ F[i] \in Seq(U) /\ Stays(P, f, tokens)
        /\ i + 1 \in 0..n
    <3>1. i \in 0..n /\ i + 1 \in 1..n /\ i + 1 \in 0..n
      OBVIOUS
    <3> QED BY <1>5, <3>1
  <2>2. Stays(P, f, F[i])
    BY <1>7
  <2> HIDE DEF tokens
  <2>3. m \in Nat /\ l \in Nat /\ Len(F[i + 1]) = m + l /\ Len(f) \in Nat
    BY <2>1, ConcatFacts DEF Runs, Steps
  <2>4. Stays(P, f, F[i + 1])
    <3> SUFFICES ASSUME NEW k \in 0..Len(f), NEW outer, NEW name,
                        IsSequence(outer), Has(f, k, F[i + 1]), In(P[k], outer, name)
                 PROVE  /\ In(P[k + Len(F[i + 1])], outer, name)
                        /\ \A j \in 0..Len(F[i + 1]) : Inside(P[k + j], outer, name)
      BY DEF Stays
    <3>1. Has(f, k, F[i]) /\ Has(f, k + m, tokens)
      <4>1. Has(f, k, F[i] \o tokens) /\ k \in Nat
        BY <2>1, <2>3
      <4> QED BY <2>1, <2>3, <4>1, HasBoth
    <3>2. In(P[k + m], outer, name) /\ \A j \in 0..m : Inside(P[k + j], outer, name)
      BY <2>2, <3>1 DEF Stays
    <3>3. k + m \in 0..Len(f)
      <4>1. k + m <= Len(f)
        BY <3>1 DEF Has
      <4> HIDE DEF m
      <4> QED BY <2>3, <4>1
    <3>4. In(P[(k + m) + l], outer, name) /\ \A j \in 0..l : Inside(P[(k + m) + j], outer, name)
      BY <2>1, <3>1, <3>2, <3>3 DEF Stays
    <3> HIDE DEF m, l
    <3>5. /\ (k + m) + l = k + (m + l)
          /\ \A j \in 0..(m + l) : j \in 0..m \/ (j - m \in 0..l /\ k + j = (k + m) + (j - m))
      BY <2>3
    <3>6. ASSUME NEW j \in 0..(m + l) PROVE Inside(P[k + j], outer, name)
      <4>1. CASE j \in 0..m
        BY <3>2, <4>1
      <4>2. CASE j - m \in 0..l /\ k + j = (k + m) + (j - m)
        BY <3>4, <4>2
      <4> QED BY <3>5, <4>1, <4>2
    <3> QED BY <2>3, <3>4, <3>5, <3>6
  <2> QED BY <2>1, <2>4
<1> HIDE DEF Q
<1>8. 0..n \subseteq Q
  BY <1>6, <1>7, InductionTo
<1>9. n \in Q
  BY <1>8
<1> QED BY <1>5, <1>9 DEF Q

\* What is written of a key, if what is written of its subkeys does.
LEMMA WrittenKeyStays ==
  ASSUME NEW P, NEW f, Runs(P, f), NEW sub, NEW below, IsSequence(below), Stays(P, f, below)
  PROVE  Stays(P, f, WrittenKey(sub, below))
<1>1. CASE Skipped(sub)
  BY <1>1, NothingStays DEF WrittenKey
<1>2. CASE ~ Skipped(sub) /\ sub.text # NoText
  BY <1>2, StringStays DEF WrittenKey
<1>3. CASE ~ Skipped(sub) /\ sub.text = NoText
  BY <1>3, SectionStays DEF WrittenKey
<1> QED BY <1>1, <1>2, <1>3

\* What is written of an item's subkeys, or of a default equip's.
LEMMA WrittenStays ==
  ASSUME NEW P, NEW f, Runs(P, f), NEW key, IsKey(key)
  PROVE  Stays(P, f, Written2(key))
<1>1. ASSUME NEW k, IsKey(k) PROVE /\ DOMAIN k.subs = 1..Len(k.subs) /\ Len(k.subs) \in Nat
                                   /\ \A i \in DOMAIN k.subs : IsKey(k.subs[i])
  BY <1>1, KeyFields
<1>2. ASSUME NEW k, IsKey(k) PROVE Stays(P, f, Written3(k))
  <2> DEFINE s == [i \in DOMAIN k.subs |-> WrittenKey(k.subs[i], <<>>)]
  <2>1. IsList(s, Len(k.subs)) /\ Len(k.subs) \in Nat
    BY <1>1, <1>2 DEF IsList
  <2>2. IsSequence(<<>>)
    <3>1. <<>> \in Seq({})
      OBVIOUS
    <3> QED BY <3>1 DEF IsSequence
  <2>3. \A i \in 1..Len(k.subs) : IsSequence(s[i]) /\ Stays(P, f, s[i])
    BY <1>1, <1>2, <2>2, WrittenKeyType, WrittenKeyStays, NothingStays
  <2> HIDE DEF s
  <2>4. Stays(P, f, FlattenSeq(s))
    BY <2>1, <2>3, ListStays
  <2> QED BY <2>4 DEF Written3, s
<1> DEFINE s == [i \in DOMAIN key.subs |-> WrittenKey(key.subs[i], Written3(key.subs[i]))]
<1>3. IsList(s, Len(key.subs)) /\ Len(key.subs) \in Nat
  BY <1>1 DEF IsList
<1>4. \A i \in 1..Len(key.subs) : IsSequence(s[i]) /\ Stays(P, f, s[i])
  BY <1>1, <1>2, WrittenType, WrittenKeyType, WrittenKeyStays
<1> HIDE DEF s
<1>5. Stays(P, f, FlattenSeq(s))
  BY <1>3, <1>4, ListStays
<1> QED BY <1>5 DEF Written2, s

\* The first of these keys.
First(r, n) == [i \in 1..n |-> r[i]]

\* One more of them.
LEMMA FirstOnes ==
  ASSUME NEW r, NEW n \in Nat
  PROVE  /\ First(r, 0) = <<>> /\ IsSequence(First(r, n)) /\ Len(First(r, n)) = n
         /\ DOMAIN First(r, n) = 1..n /\ Append(First(r, n), r[n + 1]) = First(r, n + 1)
<1>1. First(r, 0) = <<>>
  <2>1. 1..0 = {}
    OBVIOUS
  <2> QED BY <2>1 DEF First
<1> DEFINE s == First(r, n)
<1>2. s = [i \in 1..n |-> s[i]] /\ DOMAIN s = 1..n /\ \A i \in 1..n : s[i] = r[i]
  BY DEF First
<1> HIDE DEF s
<1>3. IsSequence(s) /\ Len(s) = n
  BY <1>2, FunctionIsSequence
<1>4. Append(s, r[n + 1]) = [i \in 1..(n + 1) |-> IF i = n + 1 THEN r[n + 1] ELSE s[i]]
  BY <1>3, AppendIsSequence
<1>5. \A i \in 1..(n + 1) : (IF i = n + 1 THEN r[n + 1] ELSE s[i]) = r[i]
  BY <1>2
<1>6. Append(s, r[n + 1]) = First(r, n + 1)
  BY <1>4, <1>5 DEF First
<1> QED BY <1>1, <1>2, <1>3, <1>6 DEF s

\* A section with one more subkey.
LEMMA SectionWith ==
  ASSUME NEW name, NEW subs, IsKey(Section(name, subs)), NEW sub
  PROVE  With(Section(name, subs), sub) = Section(name, Append(subs, sub))
<1>1. Section(name, subs).name = name /\ Section(name, subs).text = NoText
      /\ Section(name, subs).subs = subs
  BY DEF Section, Key
<1> QED BY <1>1, WithFacts DEF Section

\* Where in a list the parser is when it has read the first of its keys.
Reached(C, P, f, k, outer, name, n, T, r) ==
  /\ C[0] = 0 /\ C[n] = Len(FlattenSeq(T))
  /\ \A i \in 0..n : C[i] \in Nat /\ At(P[k + C[i]], outer, Section(name, First(r, i)))
  /\ \A i \in 0..(n - 1) : C[i + 1] = C[i] + Len(T[i + 1]) /\ Has(f, k + C[i], T[i + 1])

\* It reads one after the other.
LEMMA PartsReached ==
  ASSUME NEW P, NEW f, Steps(P, f), NEW name, NEW n \in Nat, NEW T, NEW r,
         Parts(P, f, name, n, T, r), \A i \in 1..n : T[i] # <<>>,
         NEW outer, IsSequence(outer), NEW k \in 0..Len(f), Has(f, k, FlattenSeq(T)),
         At(P[k], outer, Section(name, <<>>))
  PROVE  \E C : Reached(C, P, f, k, outer, name, n, T, r)
<1>1. /\ IsList(T, n) /\ \A i \in 1..n : IsSequence(T[i])
      /\ IsList(r, n)
      /\ \A i \in 1..n : IsKey(r[i]) /\ Told(P, f, T[i], r[i])
      /\ \A i, j \in 1..n : r[i].name = r[j].name => i = j
  BY DEF Parts
<1>2. PICK S, F : PartByPart(F, n, T, S)
  BY <1>1, FlattenParts
<1>3. /\ F[0] = <<>> /\ F[n] = FlattenSeq(T)
      /\ \A i \in 0..n : F[i] \in Seq(S)
      /\ \A i \in 0..(n - 1) : F[i + 1] = F[i] \o T[i + 1] /\ T[i + 1] \in Seq(S)
  BY <1>2 DEF PartByPart
<1>4. Len(f) \in Nat /\ k \in Nat
  BY DEF Steps
<1> DEFINE Q == {i \in 0..n : Has(f, k, F[n - i])}
<1>5. 0 \in Q
  BY <1>3
<1>6. ASSUME NEW i \in 0..(n - 1), i \in Q PROVE i + 1 \in Q
  <2> DEFINE j == n - (i + 1)
  <2>1. j \in 0..(n - 1) /\ n - i = j + 1 /\ j \in 0..n /\ i + 1 \in 0..n
    OBVIOUS
  <2> HIDE DEF j
  <2>2. Has(f, k, F[j] \o T[j + 1]) /\ F[j] \in Seq(S) /\ T[j + 1] \in Seq(S)
    BY <1>3, <1>6, <2>1
  <2>3. Has(f, k, F[j])
    BY <1>4, <2>2, HasBoth
  <2> QED BY <2>1, <2>3 DEF j
<1>7. 0..n \subseteq Q
  <2> HIDE DEF Q
  <2> QED BY <1>5, <1>6, InductionTo
<1>8. ASSUME NEW i \in 0..n PROVE Has(f, k, F[i])
  <2>1. n - i \in 0..n /\ n - (n - i) = i
    OBVIOUS
  <2>2. Has(f, k, F[n - (n - i)])
    BY <1>7, <2>1
  <2> QED BY <2>1, <2>2
<1> DEFINE C == [i \in 0..n |-> Len(F[i])]
<1>9. \A i \in 0..n : C[i] = Len(F[i]) /\ C[i] \in Nat
  BY <1>3
<1>10. ASSUME NEW i \in 0..(n - 1)
       PROVE  C[i + 1] = C[i] + Len(T[i + 1]) /\ Has(f, k + C[i], T[i + 1])
  <2>1. i \in 0..n /\ i + 1 \in 0..n
    OBVIOUS
  <2>2. F[i + 1] = F[i] \o T[i + 1] /\ F[i] \in Seq(S) /\ T[i + 1] \in Seq(S)
    BY <1>3, <2>1
  <2>3. Has(f, k + Len(F[i]), T[i + 1])
    <3>1. Has(f, k, F[i] \o T[i + 1])
      BY <1>8, <2>1, <2>2
    <3> QED BY <1>4, <2>2, <3>1, HasBoth
  <2>4. Len(F[i + 1]) = Len(F[i]) + Len(T[i + 1])
    BY <2>2, ConcatFacts
  <2> QED BY <1>9, <2>1, <2>3, <2>4
<1>11. C[0] = 0 /\ C[n] = Len(FlattenSeq(T)) /\ \A i \in 0..n : k + C[i] \in 0..Len(f)
  <2>1. \A i \in 0..n : k + Len(F[i]) <= Len(f)
    BY <1>8 DEF Has
  <2>2. Len(<<>>) = 0 /\ 0 \in 0..n /\ n \in 0..n
    OBVIOUS
  <2>3. C[0] = 0 /\ C[n] = Len(FlattenSeq(T))
    BY <1>3, <1>9, <2>2
  <2> HIDE DEF C
  <2> QED BY <1>4, <1>9, <2>1, <2>3
<1> HIDE DEF Q, C
<1> DEFINE R == {i \in 0..n : /\ IsKey(Section(name, First(r, i)))
                             /\ At(P[k + C[i]], outer, Section(name, First(r, i)))}
<1>12. 0 \in R
  <2>1. k + C[0] = k
    BY <1>4, <1>11
  <2>2. First(r, 0) = <<>>
    BY FirstOnes
  <2>3. At(P[k + C[0]], outer, Section(name, First(r, 0)))
    BY <2>1, <2>2
  <2>4. IsKey(Section(name, First(r, 0))) /\ 0 \in 0..n
    BY <2>2, PlainKeys
  <2> QED BY <2>3, <2>4
<1>13. ASSUME NEW i \in 0..(n - 1), i \in R PROVE i + 1 \in R
  <2> DEFINE key == Section(name, First(r, i))
             sub == r[i + 1]
  <2>1. i \in Nat /\ i + 1 \in 1..n /\ i + 1 \in 0..n /\ i \in 0..n /\ \A j \in 1..i : j \in 1..n /\ j # i + 1
    OBVIOUS
  <2>2. IsKey(key) /\ At(P[k + C[i]], outer, key)
    BY <1>13
  <2>3. key.subs = First(r, i)
    BY DEF Section, Key
  <2>4. Named(key, sub.name) = {}
    <3>1. DOMAIN key.subs = 1..i /\ \A j \in 1..i : key.subs[j] = r[j]
      BY <2>1, <2>3, FirstOnes DEF First
    <3>2. \A j \in 1..i : r[j].name # sub.name
      BY <1>1, <2>1
    <3> HIDE DEF key
    <3> QED BY <3>1, <3>2 DEF Named
  <2>5. SubReads(P, f, T[i + 1], sub.name, sub)
    BY <1>1, <2>1 DEF Told
  <2> HIDE DEF key
  <2>6. Reads(P, f, T[i + 1], outer, key, With(key, sub))
    BY <2>2, <2>4, <2>5 DEF SubReads
  <2>7. At(P[(k + C[i]) + Len(T[i + 1])], outer, With(key, sub))
    BY <1>10, <1>11, <2>1, <2>2, <2>6 DEF Reads
  <2>8. (k + C[i]) + Len(T[i + 1]) = k + C[i + 1]
    <3>1. C[i] \in Nat /\ C[i + 1] \in Nat /\ C[i + 1] = C[i] + Len(T[i + 1]) /\ Len(T[i + 1]) \in Nat
      BY <1>1, <1>9, <1>10, <2>1 DEF IsSequence
    <3> QED BY <1>4, <3>1
  <2>9. With(key, sub) = Section(name, First(r, i + 1))
    <3>1. With(key, sub) = Section(name, Append(First(r, i), r[i + 1]))
      BY <2>2, SectionWith DEF key
    <3> QED BY <2>1, <3>1, FirstOnes
  <2>10. IsKey(With(key, sub))
    BY <1>1, <2>1, <2>2, KeyChanged DEF With
  <2> QED BY <2>1, <2>7, <2>8, <2>9, <2>10
<1> HIDE DEF R
<1>14. 0..n \subseteq R
  BY <1>12, <1>13, InductionTo
<1>15. Reached(C, P, f, k, outer, name, n, T, r)
  BY <1>9, <1>10, <1>11, <1>14 DEF R, Reached
<1> QED BY <1>15

\* The last token of a file: that of the whole file, or some of a string.
Ends(q, P, f, last0) ==
  q = P[last0] \/ (f[last0].is = "string" /\ \E text : q = Parsed(P[last0 - 1], Str(text)))

\* So is what is in the same keys.
LEMMA SameInside ==
  ASSUME NEW p, NEW q, NEW outer, NEW name, Inside(p, outer, name),
         q.outer = p.outer, q.key.name = p.key.name, q.expects \in {"name", "value"}
  PROVE  Inside(q, outer, name)
<1>1. (IF Len(p.outer) = Len(outer) THEN p.key ELSE p.outer[Len(outer) + 1].key).name = name
  BY DEF Inside
<1>2. (IF Len(q.outer) = Len(outer) THEN q.key ELSE q.outer[Len(outer) + 1].key).name = name
  <2>1. CASE Len(p.outer) = Len(outer)
    BY <1>1, <2>1
  <2>2. CASE Len(p.outer) # Len(outer)
    BY <1>1, <2>2
  <2> QED BY <2>1, <2>2
<1> QED BY <1>2 DEF Inside

\* Part of a string leads no further out than a string.
LEMMA PartStays ==
  ASSUME NEW p, ProgressOK(p), NEW outer, NEW name, Inside(p, outer, name), NEW text
  PROVE  Inside(Parsed(p, Str(text)), outer, name)
<1> DEFINE q == Parsed(p, Str(text))
<1>1. CASE p.expects = "name"
  <2>1. q.outer = p.outer /\ q.key.name = p.key.name /\ q.expects = "value"
    BY <1>1, NameStays DEF In
  <2> QED BY <2>1, SameInside
<1>2. CASE p.expects = "value"
  <2>1. q.outer = p.outer /\ q.key.name = p.key.name /\ q.expects = "name"
    BY <1>2, TextStays
  <2> QED BY <2>1, SameInside
<1> QED BY <1>1, <1>2 DEF Inside

\* The parser is in this section, which is the last subkey of the key it was in before.
Entered(p, level, outer, before, name) ==
  /\ At(p, Append(outer, level), Section(name, <<>>))
  /\ \A read : Holding(level, read) = With(before, read)

\* What is read of a section's beginning.
LEMMA EntersSection ==
  ASSUME NEW P, NEW f, Runs(P, f), NEW outer, IsSequence(outer), NEW before, IsKey(before),
         NEW name, Named(before, name) = {}, NEW n \in Nat, n + 2 <= Len(f),
         f[n + 1] = Str(name), f[n + 2] = Open, At(P[n], outer, before)
  PROVE  /\ P[n + 1].expects = "value"
         /\ \E level : Entered(P[n + 2], level, outer, before, name)
<1>1. Steps(P, f)
  BY DEF Runs
<1>2. /\ P[n + 1].expects = "value"
      /\ \E level : /\ At(P[n + 2], Append(outer, level), Section(name, <<>>))
                    /\ level.current = Len(before.subs) + 1
                    /\ \A read : Holding(level, read) = With(before, read)
  BY <1>1, SectionEntered
<1> QED BY <1>2 DEF Entered

\* A file that ends in a section ends in front of its brace, behind it, among its subkeys or
\* behind the brace at its end.
LEMMA SectionEnds ==
  ASSUME NEW P, NEW f, Runs(P, f), NEW outer, IsSequence(outer), NEW before, IsKey(before),
         NEW name, Named(before, name) = {}, NEW below, IsSequence(below), NEW n \in 0..Len(f),
         Has(f, n, <<Str(name), Open>> \o below \o <<Close>>), At(P[n], outer, before),
         NEW end \in (n + 1)..(n + (Len(below) + 3)), NEW q, Ends(q, P, f, end)
  PROVE  /\ n + 2 \in 0..Len(f) /\ Has(f, n + 2, below)
         /\ \/ q.expects = "value"
            \/ q = P[n + (Len(below) + 3)]
            \/ \E level : /\ Entered(P[n + 2], level, outer, before, name)
                          /\ q = P[n + 2] \/ end \in (n + 3)..((n + 2) + Len(below))
<1> DEFINE m == Len(below)
<1>1. /\ m \in Nat /\ n + (m + 3) <= Len(f) /\ Len(f) \in Nat
      /\ f[n + 1] = Str(name) /\ f[n + 2] = Open /\ Has(f, n + 2, below)
      /\ f[(n + 2) + (m + 1)] = Close
  BY SectionPlaces DEF Runs, Steps
<1>2. n \in Nat /\ n + 2 <= Len(f) /\ n + 2 \in 0..Len(f) /\ (n + 2) + (m + 1) = n + (m + 3)
  BY <1>1
<1>3. /\ P[n + 1].expects = "value"
      /\ \E level : Entered(P[n + 2], level, outer, before, name)
  BY <1>1, <1>2, EntersSection
<1>4. /\ ~ f[n + 2].is = "string" /\ ~ f[n + (m + 3)].is = "string"
  <2>1. Open.is # "string" /\ Close.is # "string"
    BY DEF Open, Close
  <2>2. f[n + 2] = Open /\ f[n + (m + 3)] = Close
    BY <1>1, <1>2
  <2> QED BY <2>1, <2>2
<1> HIDE DEF m
<1>5. CASE end = n + 1
  <2>1. CASE q = P[end]
    BY <1>1, <1>2, <1>3, <1>5, <2>1
  <2>2. CASE q # P[end]
    <3>1. PICK text : q = Parsed(P[(n + 1) - 1], Str(text))
      BY <1>5, <2>2 DEF Ends
    <3>2. (n + 1) - 1 = n
      BY <1>2
    <3>3. q.expects = "value"
      BY <3>1, <3>2, ParsedName, ProgressFields DEF At
    <3> QED BY <1>1, <1>2, <3>3
  <2> QED BY <2>1, <2>2
<1>6. CASE end = n + 2
  BY <1>1, <1>2, <1>3, <1>4, <1>6 DEF Ends
<1>7. CASE end = n + (m + 3)
  BY <1>1, <1>2, <1>4, <1>7 DEF Ends, m
<1>8. CASE end \in (n + 3)..((n + 2) + m)
  BY <1>1, <1>2, <1>3, <1>8 DEF m
<1>9. end = n + 1 \/ end = n + 2 \/ end = n + (m + 3) \/ end \in (n + 3)..((n + 2) + m)
  BY <1>1, <1>2 DEF m
<1> QED BY <1>5, <1>6, <1>7, <1>8, <1>9

\* If it ends among the subkeys, and these stay in the section, so does it.
LEMMA EndsInside ==
  ASSUME NEW P, NEW f, Runs(P, f), NEW outer, IsSequence(outer), NEW name, NEW below,
         IsSequence(below), Stays(P, f, below), NEW n \in 0..Len(f), Has(f, n, below),
         In(P[n], outer, name), NEW q,
         NEW end \in n..(n + Len(below)), q = P[n] \/ (end # n /\ Ends(q, P, f, end))
  PROVE  Inside(q, outer, name)
<1> DEFINE m == Len(below)
<1>1. \A k \in 0..m : Inside(P[n + k], outer, name)
  BY DEF Stays
<1>2. m \in Nat /\ n + m <= Len(f) /\ n \in Nat /\ Len(f) \in Nat
  BY DEF Has, IsSequence, Runs, Steps
<1> HIDE DEF m
<1>3. CASE q = P[n]
  <2>1. 0 \in 0..m /\ n + 0 = n
    BY <1>2
  <2> QED BY <1>1, <1>3, <2>1
<1>4. CASE end # n /\ q = P[end]
  <2>1. end - n \in 0..m /\ n + (end - n) = end
    BY <1>2 DEF m
  <2>2. Inside(P[n + (end - n)], outer, name)
    BY <1>1, <2>1
  <2> QED BY <1>4, <2>1, <2>2
<1>5. CASE end # n /\ \E text : q = Parsed(P[end - 1], Str(text))
  <2>1. (end - n) - 1 \in 0..m /\ n + ((end - n) - 1) = end - 1 /\ end - 1 \in 0..Len(f)
    BY <1>2, <1>5 DEF m
  <2>2. Inside(P[n + ((end - n) - 1)], outer, name)
    BY <1>1, <2>1
  <2> QED BY <1>5, <2>1, <2>2, PartStays DEF Runs
<1> QED BY <1>3, <1>4, <1>5 DEF Ends

\* The outermost key, when the parser is at least one or two keys further in.
LEMMA OutermostInside ==
  ASSUME NEW q, ProgressOK(q)
  PROVE  /\ Len(q.outer) = 0 => Outermost(q) = q.key
         /\ Len(q.outer) = 1 => Outermost(q) = Holding(q.outer[1], q.key)
         /\ Len(q.outer) >= 2 =>
              \E x : /\ Outermost(q) = Holding(q.outer[1], Holding(q.outer[2], x))
                     /\ x.name = (IF Len(q.outer) = 2 THEN q.key ELSE q.outer[3].key).name
<1> DEFINE L == Len(q.outer)
<1>1. L \in Nat /\ \A i \in 1..L : IsLevel(q.outer[i])
  BY DEF ProgressOK, IsSequence
<1>2. PICK W : IsWithin(W, q)
  BY <1>1, OutermostSteps
<1>3. /\ W[0] = q.key /\ W[L] = Outermost(q)
      /\ \A n \in 1..L : W[n] = Holding(q.outer[L + 1 - n], W[n - 1])
  BY <1>2 DEF IsWithin
<1> HIDE DEF L
<1>4. CASE L = 0
  BY <1>3, <1>4 DEF L
<1>5. CASE L = 1
  <2>1. W[1] = Holding(q.outer[1 + 1 - 1], W[1 - 1])
    BY <1>3, <1>5
  <2>2. 1 + 1 - 1 = 1 /\ 1 - 1 = 0
    OBVIOUS
  <2> QED BY <1>3, <1>5, <2>1, <2>2 DEF L
<1>6. CASE L >= 2
  <2>1. /\ L \in 1..L /\ L - 1 \in 1..L /\ L + 1 - L = 1 /\ L + 1 - (L - 1) = 2 /\ (L - 1) - 1 = L - 2
    BY <1>1, <1>6
  <2>2. W[L] = Holding(q.outer[1], W[L - 1])
    BY <1>3, <2>1
  <2>3. W[L - 1] = Holding(q.outer[2], W[L - 2])
    <3>1. W[L - 1] = Holding(q.outer[L + 1 - (L - 1)], W[(L - 1) - 1])
      BY <1>3, <2>1
    <3> QED BY <2>1, <3>1
  <2>4. CASE L = 2
    <3>1. L - 2 = 0 /\ L - 1 = 1
      BY <2>4
    <3> QED BY <1>3, <2>2, <2>3, <2>4, <3>1 DEF L
  <2>5. CASE L # 2
    <3>1. L - 2 \in 1..L /\ L + 1 - (L - 2) = 3 /\ 3 \in 1..L
      BY <1>1, <1>6, <2>5
    <3>2. W[L - 2] = Holding(q.outer[3], W[(L - 2) - 1])
      BY <1>3, <3>1
    <3> DEFINE level == q.outer[3]
               x == W[(L - 2) - 1]
    <3>3. IsKey(level.key)
      BY <1>1, <3>1 DEF IsLevel
    <3>4. level.key = [name |-> level.key.name, text |-> level.key.text, subs |-> level.key.subs]
      BY <3>3, KeyFields
    <3> HIDE DEF level, x
    <3>5. Holding(level, x).name = level.key.name
      BY <3>4 DEF Holding
    <3> QED BY <1>3, <2>2, <2>3, <2>5, <3>2, <3>5 DEF L, level, x
  <2> QED BY <2>4, <2>5
<1> QED BY <1>1, <1>4, <1>5, <1>6 DEF L

\* A new subkey of that name is at least begun, and the parser is in it or further in.
Within(q, outer, before, name) ==
  \E level : /\ \A read : Holding(level, read) = With(before, read)
             /\ Inside(q, Append(outer, level), name)

\* A file that ends in a section whose subkeys stay in it.
LEMMA SectionEndsWithin ==
  ASSUME NEW P, NEW f, Runs(P, f), NEW outer, IsSequence(outer), NEW before, IsKey(before),
         NEW name, Named(before, name) = {}, NEW below, IsSequence(below), Stays(P, f, below),
         NEW n \in 0..Len(f), Has(f, n, <<Str(name), Open>> \o below \o <<Close>>),
         At(P[n], outer, before), NEW end \in (n + 1)..(n + (Len(below) + 3)),
         NEW q, Ends(q, P, f, end)
  PROVE  \/ q.expects = "value"
         \/ q = P[n + (Len(below) + 3)]
         \/ Within(q, outer, before, name)
<1>1. /\ n + 2 \in 0..Len(f) /\ Has(f, n + 2, below)
      /\ \/ q.expects = "value"
         \/ q = P[n + (Len(below) + 3)]
         \/ \E level : /\ Entered(P[n + 2], level, outer, before, name)
                       /\ q = P[n + 2] \/ end \in (n + 3)..((n + 2) + Len(below))
  BY SectionEnds
<1>2. ASSUME NEW level, Entered(P[n + 2], level, outer, before, name),
             q = P[n + 2] \/ end \in (n + 3)..((n + 2) + Len(below))
      PROVE  Within(q, outer, before, name)
  <2> DEFINE in == Append(outer, level)
             k == n + 2
             m == Len(below)
  <2>1. IsSequence(in)
    BY AppendIsSequence
  <2>2. P[k].outer = in /\ P[k].key = Section(name, <<>>) /\ P[k].expects = "name"
    BY <1>2 DEF Entered, At
  <2>3. k \in 0..Len(f) /\ Has(f, k, below) /\ m \in Nat /\ k \in Nat
    BY <1>1 DEF IsSequence
  <2>4. q = P[k] \/ end \in (k + 1)..(k + m)
    <3>1. n + 3 = (n + 2) + 1
      OBVIOUS
    <3> QED BY <1>2, <3>1
  <2> HIDE DEF in, k, m
  <2>5. In(P[k], in, name)
    BY <2>2 DEF In, Section, Key
  <2>6. CASE q = P[k]
    <3>1. q.outer = in /\ q.key.name = name /\ q.expects \in {"name", "value"}
      BY <2>5, <2>6 DEF In
    <3>2. Inside(q, in, name)
      BY <2>1, <3>1, InIsInside
    <3> QED BY <1>2, <3>2 DEF Within, Entered, in
  <2>7. CASE end \in (k + 1)..(k + m)
    <3>1. end \in k..(k + Len(below)) /\ end # k
      BY <2>3, <2>7 DEF m
    <3>2. Inside(q, in, name)
      BY <2>1, <2>3, <2>5, <3>1, EndsInside
    <3> QED BY <1>2, <3>2 DEF Within, Entered, in
  <2> QED BY <2>4, <2>6, <2>7
<1> QED BY <1>1, <1>2

\* Among the subkeys of a section: behind one of them, or in one.
LEMMA SubsectionsEnd ==
  ASSUME NEW P, NEW f, Runs(P, f), NEW key, NEW r, Sections(P, f, key, r),
         NEW outer, IsSequence(outer), NEW k \in 0..Len(f), Has(f, k, Written1(key)),
         At(P[k], outer, Section(key.name, <<>>)), NEW end \in (k + 1)..(k + Len(Written1(key))),
         NEW q, Ends(q, P, f, end), q.expects # "value"
  PROVE  \E i \in 0..Len(r) :
           \/ At(q, outer, Section(key.name, First(r, i)))
           \/ /\ i < Len(r) /\ IsKey(Section(key.name, First(r, i)))
              /\ Within(q, outer, Section(key.name, First(r, i)), r[i + 1].name)
<1> DEFINE S == key.subs
           T == Subsections(key)
           n == Len(r)
<1>1. /\ IsKey(key) /\ IsList(S, n) /\ n \in Nat /\ Parts(P, f, key.name, n, T, r)
  BY DEF Sections
<1>2. /\ IsList(T, n) /\ \A i \in 1..n : IsSequence(T[i])
      /\ \A i, j \in 1..n : r[i].name = r[j].name => i = j
  BY <1>1 DEF Parts
<1>3. ASSUME NEW i \in 1..n
      PROVE  /\ IsKey(S[i]) /\ IsSequence(Written2(S[i])) /\ T[i] # <<>>
             /\ T[i] = <<Str(r[i].name), Open>> \o Written2(S[i]) \o <<Close>>
  <2> DEFINE nm == r[i].name
             subs == S[i].subs
  <2>1. S[i] = Section(nm, subs) /\ subs # <<>>
    BY DEF Sections
  <2>2. DOMAIN S = 1..n
    BY <1>1 DEF IsList
  <2>3. T[i] = WrittenKey(S[i], Written2(S[i]))
    BY <2>2 DEF Subsections
  <2> HIDE DEF nm, subs
  <2>4. IsKey(S[i]) /\ IsSequence(Written2(S[i]))
    BY <1>1, <2>2, KeyFields, WrittenType
  <2>5. /\ WrittenKey(S[i], Written2(S[i])) = <<Str(nm), Open>> \o Written2(S[i]) \o <<Close>>
        /\ WrittenKey(S[i], Written2(S[i])) # <<>>
    BY <2>1, <2>4, SectionWritten
  <2> QED BY <2>3, <2>4, <2>5 DEF nm
<1>4. Written1(key) = FlattenSeq(T)
  BY DEF Written1, Subsections
<1> HIDE DEF S, T, n
<1>5. Steps(P, f) /\ Len(f) \in Nat
  BY DEF Runs, Steps
<1>6. PICK C : Reached(C, P, f, k, outer, key.name, n, T, r)
  BY <1>1, <1>3, <1>4, <1>5, PartsReached
<1>7. /\ C[0] = 0 /\ C[n] = Len(FlattenSeq(T))
      /\ \A i \in 0..n : C[i] \in Nat /\ At(P[k + C[i]], outer, Section(key.name, First(r, i)))
      /\ \A i \in 0..(n - 1) : C[i + 1] = C[i] + Len(T[i + 1]) /\ Has(f, k + C[i], T[i + 1])
  BY <1>6 DEF Reached
<1>8. PICK i \in 0..(n - 1) : end \in ((k + C[i]) + 1)..(k + C[i + 1])
  <2> DEFINE R == {j \in 0..n : end <= k + C[j]}
  <2>1. n \in R
    BY <1>1, <1>4, <1>7
  <2>2. R \in SUBSET Nat /\ R # {}
    BY <2>1
  <2>3. PICK j \in R : \A h \in R : j <= h
    BY <2>2, LeastOne
  <2>4. j # 0 /\ j \in 0..n /\ end <= k + C[j]
    BY <1>7, <2>3
  <2>5. j - 1 \in 0..(n - 1) /\ j - 1 \in 0..n /\ (j - 1) + 1 = j
    BY <1>1, <2>4
  <2>6. ~ end <= k + C[j - 1]
    <3>1. ~ j <= j - 1
      BY <2>4
    <3>2. j - 1 \notin R
      BY <2>3, <3>1
    <3> QED BY <2>5, <3>2
  <2>7. C[j - 1] \in Nat /\ C[j] \in Nat
    BY <1>7, <2>4, <2>5
  <2>8. end \in ((k + C[j - 1]) + 1)..(k + C[j])
    BY <2>4, <2>6, <2>7
  <2> QED BY <2>5, <2>8
<1> DEFINE before == Section(key.name, First(r, i))
           below == Written2(S[i + 1])
           name == r[i + 1].name
           at == k + C[i]
<1>9. i \in Nat /\ i \in 0..n /\ i + 1 \in 0..n /\ i + 1 \in 1..n /\ \A j \in 1..i : j \in 1..n /\ j # i + 1
  BY <1>1
<1>10. /\ IsSequence(below) /\ Stays(P, f, below)
       /\ T[i + 1] = <<Str(name), Open>> \o below \o <<Close>>
  BY <1>3, <1>9, WrittenStays
<1>11. at \in 0..Len(f) /\ At(P[at], outer, before) /\ Has(f, at, T[i + 1])
  <2>1. C[i] \in Nat /\ At(P[at], outer, before) /\ Has(f, at, T[i + 1]) /\ Len(T[i + 1]) \in Nat
    BY <1>2, <1>7, <1>9 DEF IsSequence
  <2>2. at + Len(T[i + 1]) <= Len(f)
    BY <2>1 DEF Has
  <2> QED BY <1>5, <2>1, <2>2
<1>12. IsKey(before) /\ Named(before, name) = {}
  <2>1. ProgressOK(P[at])
    BY <1>11 DEF Runs
  <2>2. P[at].key = before
    BY <1>11 DEF At
  <2>3. IsKey(before)
    BY <2>1, <2>2 DEF ProgressOK
  <2>4. before.subs = First(r, i)
    BY DEF Section, Key
  <2>5. DOMAIN before.subs = 1..i /\ \A j \in 1..i : before.subs[j] = r[j]
    BY <1>9, <2>4, FirstOnes DEF First
  <2>6. \A j \in 1..i : r[j].name # name
    BY <1>2, <1>9
  <2> HIDE DEF before, name
  <2> QED BY <2>3, <2>5, <2>6 DEF Named
<1> HIDE DEF before, below, name
<1>13. /\ Len(T[i + 1]) = Len(below) + 3 /\ Len(below) \in Nat /\ C[i] \in Nat
       /\ C[i + 1] = C[i] + Len(T[i + 1])
  <2>1. Has(f, at, <<Str(name), Open>> \o below \o <<Close>>)
    BY <1>10, <1>11
  <2> HIDE DEF at
  <2>2. Len(<<Str(name), Open>> \o below \o <<Close>>) = Len(below) + 3 /\ Len(below) \in Nat
    BY <1>5, <1>10, <1>11, <2>1, SectionPlaces
  <2> QED BY <1>7, <1>9, <1>10, <2>2
<1>14. k + C[i + 1] = at + (Len(below) + 3)
  BY <1>13
<1> HIDE DEF at
<1>15. end \in (at + 1)..(at + (Len(below) + 3))
  BY <1>8, <1>14 DEF at
<1>16. q = P[at + (Len(below) + 3)] \/ Within(q, outer, before, name)
  BY <1>10, <1>11, <1>12, <1>15, SectionEndsWithin
<1>17. CASE q = P[at + (Len(below) + 3)]
  <2>1. At(P[k + C[i + 1]], outer, Section(key.name, First(r, i + 1)))
    BY <1>7, <1>9
  <2> QED BY <1>9, <1>14, <1>17, <2>1 DEF n
<1>18. CASE Within(q, outer, before, name)
  BY <1>9, <1>12, <1>18 DEF n, before, name
<1> QED BY <1>16, <1>17, <1>18

\* The first of these keys, and the last of them perhaps in part.
Begun(keys, r) ==
  /\ Len(keys) \in 0..Len(r)
  /\ \A i \in 1..Len(keys) : /\ keys[i].name = r[i].name
                             /\ i < Len(keys) => keys[i] = r[i]

\* A list of one, and of two.
LEMMA ShortLists ==
  ASSUME NEW a, NEW b
  PROVE  /\ Append(<<>>, a) = <<a>> /\ Len(<<a>>) = 1 /\ <<a>>[1] = a
         /\ Append(<<a>>, b) = <<a, b>>
<1>1. Append(<<>>, a) = <<a>>
  <2>1. <<>> \in Seq({a}) /\ <<a>> \in Seq({a})
    OBVIOUS
  <2> QED BY <2>1
<1>2. Len(<<a>>) = 1 /\ <<a>>[1] = a
  OBVIOUS
<1>3. Append(<<a>>, b) = <<a, b>>
  <2> DEFINE s == <<a>>
             t == <<a, b>>
  <2>1. s \in Seq({a}) /\ DOMAIN t = 1..2 /\ t[1] = a /\ t[2] = b /\ t = [i \in 1..2 |-> t[i]]
    OBVIOUS
  <2>2. Len(s) = 1 /\ s[1] = a /\ IsSequence(s)
    BY <1>2, <2>1 DEF IsSequence
  <2> HIDE DEF s, t
  <2>3. Append(s, b) = [i \in 1..(Len(s) + 1) |-> IF i = Len(s) + 1 THEN b ELSE s[i]]
    BY <2>2, AppendIsSequence
  <2>4. Append(s, b) = [i \in 1..2 |-> IF i = 2 THEN b ELSE s[i]]
    BY <2>2, <2>3
  <2>5. \A i \in 1..2 : (IF i = 2 THEN b ELSE s[i]) = t[i]
    BY <2>1, <2>2
  <2>6. Append(s, b) = t
    BY <2>1, <2>4, <2>5
  <2> QED BY <2>6 DEF s, t
<1> QED BY <1>1, <1>2, <1>3

\* The first of them, and the first with one that has the next one's name.
LEMMA FirstBegun ==
  ASSUME NEW r, NEW n \in 0..Len(r), Len(r) \in Nat
  PROVE  /\ Begun(First(r, n), r)
         /\ \A x : n < Len(r) /\ x.name = r[n + 1].name => Begun(Append(First(r, n), x), r)
<1> DEFINE s == First(r, n)
<1>1. n \in Nat /\ IsSequence(s) /\ Len(s) = n /\ \A i \in 1..n : s[i] = r[i]
  <2>1. n \in Nat /\ \A i \in 1..n : s[i] = r[i]
    BY DEF First
  <2> QED BY <2>1, FirstOnes
<1> HIDE DEF s
<1>2. Begun(s, r)
  BY <1>1 DEF Begun
<1>3. ASSUME NEW x, n < Len(r), x.name = r[n + 1].name PROVE Begun(Append(s, x), r)
  <2> DEFINE t == Append(s, x)
  <2>1. Len(t) = n + 1 /\ t = [i \in 1..(n + 1) |-> IF i = n + 1 THEN x ELSE s[i]]
    BY <1>1, AppendIsSequence
  <2>2. \A i \in 1..(n + 1) : t[i] = (IF i = n + 1 THEN x ELSE r[i])
    BY <1>1, <2>1
  <2> HIDE DEF t
  <2>3. Len(t) \in 0..Len(r)
    BY <1>1, <1>3, <2>1
  <2>4. ASSUME NEW i \in 1..Len(t) PROVE t[i].name = r[i].name /\ (i < Len(t) => t[i] = r[i])
    <3>1. CASE i = n + 1
      <4>1. t[i] = x /\ ~ i < Len(t)
        BY <1>1, <2>1, <2>2, <3>1
      <4> QED BY <1>3, <3>1, <4>1
    <3>2. CASE i # n + 1
      BY <2>1, <2>2, <3>2
    <3> QED BY <3>1, <3>2
  <2> QED BY <2>3, <2>4 DEF Begun, t
<1> QED BY <1>2, <1>3 DEF s

\* The outermost key of a parser that is in one of its subkeys' subkeys.
LEMMA OutermostOfTwo ==
  ASSUME NEW q, ProgressOK(q), NEW a, NEW b, NEW name, Inside(q, <<a, b>>, name)
  PROVE  \E x : Outermost(q) = Holding(a, Holding(b, x)) /\ x.name = name
<1> DEFINE in == <<a, b>>
<1>1. Len(in) = 2 /\ in[1] = a /\ in[2] = b
  OBVIOUS
<1> HIDE DEF in
<1>2. /\ Len(in) <= Len(q.outer) /\ \A i \in 1..Len(in) : q.outer[i] = in[i]
      /\ (IF Len(q.outer) = Len(in) THEN q.key ELSE q.outer[Len(in) + 1].key).name = name
  BY DEF Inside, in
<1>3. /\ Len(q.outer) >= 2 /\ q.outer[1] = a /\ q.outer[2] = b
      /\ (IF Len(q.outer) = 2 THEN q.key ELSE q.outer[3].key).name = name
  <2>1. Len(q.outer) \in Nat
    BY DEF ProgressOK, IsSequence
  <2>2. 2 + 1 = 3
    OBVIOUS
  <2>3. q.outer[1] = a /\ q.outer[2] = b /\ Len(q.outer) >= 2
    BY <1>1, <1>2, <2>1
  <2> QED BY <1>1, <1>2, <2>2, <2>3
<1> QED BY <1>3, OutermostInside

\* What is left of a section when the file ends in it.
LEMMA SectionCut ==
  ASSUME NEW P, NEW f, Runs(P, f), NEW key, NEW r, Sections(P, f, key, r), Len(r) > 0,
         NEW before, IsKey(before), Named(before, key.name) = {}, NEW n \in 0..Len(f),
         Has(f, n, WrittenKey(key, Written1(key))), At(P[n], <<>>, before),
         NEW end \in (n + 1)..(n + Len(WrittenKey(key, Written1(key)))),
         NEW q, Ends(q, P, f, end), ProgressOK(q)
  PROVE  \/ q.expects = "value"
         \/ /\ q.expects = "name"
            /\ \E keys : Begun(keys, r) /\ Outermost(q) = With(before, Section(key.name, keys))
<1> DEFINE name == key.name
           below == Written1(key)
           tokens == WrittenKey(key, below)
<1>1. /\ IsKey(key) /\ key = Section(name, key.subs) /\ IsList(key.subs, Len(r)) /\ Len(r) \in Nat
  BY DEF Sections
<1>2. IsSequence(below)
  BY <1>1, WrittenType
<1>3. tokens = <<Str(name), Open>> \o below \o <<Close>> /\ tokens # <<>>
  <2>1. key.subs # <<>>
    <3>1. key.subs = [i \in 1..Len(r) |-> key.subs[i]]
      BY <1>1 DEF IsList
    <3>2. 1 \in DOMAIN key.subs
      BY <1>1, <3>1
    <3>3. DOMAIN <<>> = {}
      OBVIOUS
    <3> QED BY <3>2, <3>3
  <2> DEFINE subs == key.subs
  <2>2. key = Section(name, subs)
    BY <1>1
  <2> HIDE DEF subs, below, name
  <2>3. WrittenKey(Section(name, subs), below) = <<Str(name), Open>> \o below \o <<Close>>
        /\ WrittenKey(Section(name, subs), below) # <<>>
    BY <1>2, <2>1, SectionWritten DEF subs
  <2> QED BY <2>2, <2>3
<1>4. Has(f, n, <<Str(name), Open>> \o below \o <<Close>>)
  BY <1>3
<1>5. Len(f) \in Nat /\ Steps(P, f)
  BY DEF Runs, Steps
<1>6. Len(tokens) = Len(below) + 3 /\ Len(below) \in Nat
  <2> HIDE DEF below, name
  <2> QED BY <1>2, <1>3, <1>4, <1>5, SectionPlaces
<1>7. end \in (n + 1)..(n + (Len(below) + 3))
  BY <1>6
<1>8. IsSequence(<<>>)
  <2>1. <<>> \in Seq({})
    OBVIOUS
  <2> QED BY <2>1 DEF IsSequence
<1> HIDE DEF below
<1>9. /\ n + 2 \in 0..Len(f) /\ Has(f, n + 2, below)
      /\ \/ q.expects = "value"
         \/ q = P[n + (Len(below) + 3)]
         \/ \E level : /\ Entered(P[n + 2], level, <<>>, before, name)
                       /\ q = P[n + 2] \/ end \in (n + 3)..((n + 2) + Len(below))
  BY <1>2, <1>4, <1>7, <1>8, SectionEnds
<1> DEFINE Cut(keys) == Begun(keys, r) /\ Outermost(q) = With(before, Section(name, keys))
<1>10. CASE q = P[n + (Len(below) + 3)]
  <2>1. Told(P, f, tokens, Section(name, r)) /\ IsList(r, Len(r))
    BY <1>5, SectionsTold DEF below
  <2>2. Section(name, r).name = name
    BY DEF Section, Key
  <2> HIDE DEF tokens, name
  <2>3. SubReads(P, f, tokens, name, Section(name, r))
    BY <1>3, <2>1, <2>2 DEF Told
  <2>4. Reads(P, f, tokens, <<>>, before, With(before, Section(name, r)))
    BY <1>8, <2>3 DEF SubReads, name
  <2>5. Has(f, n, tokens)
    BY DEF tokens, below
  <2>6. At(P[n + Len(tokens)], <<>>, With(before, Section(name, r)))
    BY <2>4, <2>5 DEF Reads
  <2>7. q.outer = <<>> /\ q.key = With(before, Section(name, r)) /\ q.expects = "name"
    BY <1>6, <1>10, <2>6 DEF At
  <2>8. Outermost(q) = q.key
    <3>1. Len(<<>>) = 0
      OBVIOUS
    <3> QED BY <2>7, <3>1, OutermostInside
  <2>9. Begun(r, r)
    BY <1>1 DEF Begun
  <2>10. Cut(r)
    BY <2>7, <2>8, <2>9
  <2> QED BY <2>7, <2>10 DEF name
<1>11. ASSUME NEW level, Entered(P[n + 2], level, <<>>, before, name), q.expects # "value",
              q = P[n + 2] \/ end \in (n + 3)..((n + 2) + Len(below))
       PROVE  q.expects = "name" /\ \E keys : Cut(keys)
  <2> DEFINE in == Append(<<>>, level)
             k == n + 2
  <2>1. IsSequence(in) /\ in = <<level>> /\ Len(in) = 1 /\ in[1] = level
    BY <1>8, AppendIsSequence, ShortLists
  <2>2. At(P[k], in, Section(name, <<>>)) /\ \A read : Holding(level, read) = With(before, read)
    BY <1>11 DEF Entered
  <2>3. k \in 0..Len(f) /\ Has(f, k, Written1(key))
    BY <1>9 DEF below
  <2> HIDE DEF in
  <2>4. ASSUME NEW i \in 0..Len(r), At(q, in, Section(name, First(r, i))) PROVE Cut(First(r, i))
    <3>1. q.outer = in /\ q.key = Section(name, First(r, i))
      BY <2>4 DEF At
    <3>2. Outermost(q) = Holding(level, Section(name, First(r, i)))
      BY <2>1, <3>1, OutermostInside
    <3> QED BY <1>1, <2>2, <3>2, FirstBegun
  <2>5. CASE q = P[k]
    <3>1. First(r, 0) = <<>>
      BY FirstOnes
    <3>2. 0 \in 0..Len(r) /\ At(q, in, Section(name, First(r, 0)))
      BY <1>1, <2>2, <2>5, <3>1
    <3>3. Cut(First(r, 0))
      BY <2>4, <3>2
    <3> QED BY <2>2, <2>5, <3>3 DEF At
  <2>6. CASE end \in (n + 3)..((n + 2) + Len(below))
    <3>1. end \in (k + 1)..(k + Len(Written1(key)))
      BY <2>6 DEF below
    <3> HIDE DEF k
    <3>2. PICK i \in 0..Len(r) :
            \/ At(q, in, Section(name, First(r, i)))
            \/ /\ i < Len(r) /\ IsKey(Section(name, First(r, i)))
               /\ Within(q, in, Section(name, First(r, i)), r[i + 1].name)
      BY <1>11, <2>1, <2>2, <2>3, <3>1, SubsectionsEnd
    <3>3. CASE At(q, in, Section(name, First(r, i)))
      <4>1. Cut(First(r, i))
        BY <2>4, <3>3
      <4> QED BY <3>3, <4>1 DEF At
    <3>4. CASE /\ i < Len(r) /\ IsKey(Section(name, First(r, i)))
               /\ Within(q, in, Section(name, First(r, i)), r[i + 1].name)
      <4> DEFINE first == First(r, i)
      <4>1. PICK inner : /\ \A read : Holding(inner, read) = With(Section(name, first), read)
                         /\ Inside(q, Append(in, inner), r[i + 1].name)
        BY <3>4 DEF Within
      <4>2. Append(in, inner) = <<level, inner>>
        BY <2>1, ShortLists
      <4>3. PICK x : Outermost(q) = Holding(level, Holding(inner, x)) /\ x.name = r[i + 1].name
        BY <4>1, <4>2, OutermostOfTwo
      <4>4. Outermost(q) = With(before, With(Section(name, first), x))
        BY <2>2, <4>1, <4>3
      <4>5. With(Section(name, first), x) = Section(name, Append(first, x))
        BY <3>4, SectionWith
      <4>6. Begun(Append(first, x), r)
        BY <1>1, <3>4, <4>3, FirstBegun
      <4>7. q.expects = "name"
        BY <1>11, <4>1 DEF Inside
      <4>8. Cut(Append(first, x))
        BY <4>4, <4>5, <4>6
      <4> QED BY <4>7, <4>8
    <3> QED BY <3>2, <3>3, <3>4
  <2> QED BY <1>11, <2>5, <2>6
<1>12. q.expects = "value" \/ (q.expects = "name" /\ \E keys : Cut(keys))
  BY <1>9, <1>10, <1>11
<1> QED BY <1>12

\* Two files are read alike as far as they are alike.
LEMMA SameTrace ==
  ASSUME NEW f, NEW g, NEW key, NEW P, IsTrace(P, f, key), NEW Q, IsTrace(Q, g, key),
         NEW m \in Nat, Len(f) \in Nat, Len(g) \in Nat, m <= Len(f), m <= Len(g),
         \A i \in 1..m : f[i] = g[i]
  PROVE  \A i \in 0..m : Q[i] = P[i]
<1> DEFINE S == {i \in 0..m : Q[i] = P[i]}
<1>1. 0 \in S
  BY DEF IsTrace
<1>2. ASSUME NEW i \in 0..(m - 1), i \in S PROVE i + 1 \in S
  <2> DEFINE j == i + 1
  <2>1. j \in 1..m /\ j \in 1..Len(f) /\ j \in 1..Len(g) /\ j - 1 = i /\ j \in 0..m
    OBVIOUS
  <2> HIDE DEF j
  <2>2. P[j] = Parsed(P[j - 1], f[j]) /\ Q[j] = Parsed(Q[j - 1], g[j])
    BY <2>1 DEF IsTrace
  <2> QED BY <1>2, <2>1, <2>2 DEF j
<1> HIDE DEF S
<1>3. 0..m \subseteq S
  BY <1>1, <1>2, InductionTo
<1> QED BY <1>3 DEF S

\* A file that is torn is one that ends in the whole one.
LEMMA TornEnds ==
  ASSUME NEW f, IsSequence(f), NEW key, NEW P, IsTrace(P, f, key), NEW g \in TornFiles(f), g # <<>>
  PROVE  \E end \in 1..Len(f) : Ends(Parse(g, key), P, f, end)
<1> DEFINE q == Parse(g, key)
<1>1. Len(f) \in Nat /\ IsSequence(g) /\ Len(g) \in Nat
  <2>1. IsSequence(g)
    BY TornType
  <2> QED BY <2>1 DEF IsSequence
<1>2. PICK n \in 0..(Len(f) - 1) :
        LET front == SubSeq(f, 1, n) IN
        \/ g = front
        \/ /\ f[n + 1].is = "string"
           /\ g = Append(front, Str(CutText)) \/ g = Append(front, Str(NoText))
  BY DEF TornFiles
<1> DEFINE front == SubSeq(f, 1, n)
<1>3. IsSequence(front) /\ Len(front) = n /\ \A i \in 1..n : front[i] = f[i]
  <2>1. PICK S : f \in Seq(S)
    BY DEF IsSequence
  <2>2. n \in 0..Len(f)
    BY <1>1
  <2>3. front \in Seq(S) /\ Len(front) = n /\ \A i \in 1..n : front[i] = f[i]
    BY <2>1, <2>2, SubSeqProperties
  <2> QED BY <2>3 DEF IsSequence
<1>4. PICK Q : IsTrace(Q, g, key)
  BY <1>1, ParseSteps
<1> HIDE DEF front
<1>5. n \in Nat /\ n + 1 \in 1..Len(f) /\ (n + 1) - 1 = n /\ n <= Len(f) /\ n \in 0..n
  BY <1>1
<1>6. CASE g = front
  <2>1. Len(g) = n /\ \A i \in 1..n : f[i] = g[i]
    BY <1>3, <1>6
  <2>2. \A i \in 0..n : Q[i] = P[i]
    BY <1>1, <1>4, <1>5, <2>1, SameTrace
  <2>3. q = P[n]
    BY <1>4, <1>5, <2>1, <2>2 DEF IsTrace
  <2>4. n # 0
    BY <1>1, <2>1 DEF IsSequence
  <2>5. n \in 1..Len(f)
    BY <1>5, <2>4
  <2> QED BY <2>3, <2>5 DEF Ends
<1>7. CASE /\ f[n + 1].is = "string" /\ \E text : g = Append(front, Str(text))
  <2>1. PICK text : g = Append(front, Str(text))
    BY <1>7
  <2> DEFINE j == n + 1
  <2>2. Len(g) = j /\ g = [i \in 1..j |-> IF i = j THEN Str(text) ELSE front[i]]
    BY <1>3, <2>1, AppendIsSequence
  <2>3. g[j] = Str(text) /\ \A i \in 1..n : f[i] = g[i]
    BY <1>3, <1>5, <2>2
  <2>4. j \in 1..Len(g) /\ j \in 1..Len(f) /\ j - 1 = n /\ n <= Len(g)
    BY <1>5, <2>2
  <2> HIDE DEF j
  <2>5. \A i \in 0..n : Q[i] = P[i]
    BY <1>1, <1>4, <1>5, <2>3, <2>4, SameTrace
  <2>6. Q[j] = Parsed(Q[j - 1], g[j]) /\ q = Q[j]
    BY <1>4, <2>2, <2>4 DEF IsTrace
  <2>7. q = Parsed(P[j - 1], Str(text))
    BY <1>5, <2>3, <2>4, <2>5, <2>6
  <2>8. f[j].is = "string"
    BY <1>7 DEF j
  <2> HIDE DEF q
  <2> QED BY <2>4, <2>7, <2>8 DEF Ends, q
<1> QED BY <1>2, <1>6, <1>7 DEF front

\* The two parts of a file.
LEMMA TwoParts ==
  ASSUME NEW A, IsSequence(A), NEW B, IsSequence(B)
  PROVE  LET f == FlattenSeq(<<A, B>>) IN
         Has(f, 0, A) /\ Has(f, Len(A), B) /\ Len(f) = Len(A) + Len(B)
<1> DEFINE T == <<A, B>>
           f == FlattenSeq(T)
<1>1. T = [i \in 1..2 |-> T[i]] /\ T[1] = A /\ T[2] = B
  OBVIOUS
<1> HIDE DEF T
<1>2. \A i \in 1..2 : i = 1 \/ i = 2
  OBVIOUS
<1>3. IsList(T, 2) /\ \A i \in 1..2 : IsSequence(T[i])
  BY <1>1, <1>2 DEF IsList
<1>4. PICK S, F : PartByPart(F, 2, T, S)
  BY <1>3, FlattenParts
<1>5. /\ F[0] = <<>> /\ F[2] = f /\ F[1] \in Seq(S)
      /\ \A i \in 0..(2 - 1) : F[i + 1] = F[i] \o T[i + 1] /\ T[i + 1] \in Seq(S)
  <2>1. 1 \in 0..2
    OBVIOUS
  <2> HIDE DEF f
  <2>2. F[2] = f
    BY <1>4 DEF PartByPart, f
  <2> QED BY <1>4, <2>1, <2>2 DEF PartByPart
<1>6. F[1] = <<>> \o A /\ A \in Seq(S)
  <2>1. 0 \in 0..(2 - 1) /\ 0 + 1 = 1
    OBVIOUS
  <2>2. F[0 + 1] = F[0] \o T[0 + 1] /\ T[0 + 1] \in Seq(S)
    BY <1>5, <2>1
  <2> QED BY <1>1, <1>5, <2>1, <2>2
<1>7. f = F[1] \o B /\ B \in Seq(S)
  <2>1. 1 \in 0..(2 - 1) /\ 1 + 1 = 2
    OBVIOUS
  <2>2. F[1 + 1] = F[1] \o T[1 + 1] /\ T[1 + 1] \in Seq(S)
    BY <1>5, <2>1
  <2> QED BY <1>1, <1>5, <2>1, <2>2
<1> HIDE DEF f
<1>8. F[1] = A
  BY <1>6
<1>9. f = A \o B
  BY <1>7, <1>8
<1>10. Len(A) \in Nat /\ Len(B) \in Nat /\ Len(f) = Len(A) + Len(B)
  BY <1>6, <1>7, <1>9, ConcatFacts
<1>11. Has(f, 0, A) /\ Has(f, Len(A), B)
  <2>1. Has(f, 0, A \o B)
    <3>1. Has(f, 0, f)
      BY <1>10 DEF Has
    <3> QED BY <1>9, <3>1
  <2>2. Has(f, 0, A) /\ Has(f, 0 + Len(A), B)
    <3>1. Len(f) \in Nat /\ 0 \in Nat /\ A \in Seq(S) /\ B \in Seq(S)
      BY <1>6, <1>7, <1>10
    <3> QED BY <2>1, <3>1, HasBoth
  <2>3. 0 + Len(A) = Len(A)
    BY <1>10
  <2> QED BY <2>2, <2>3
<1> QED BY <1>10, <1>11 DEF f, T

\* A section that is in the file is read, if anything was written of it.
LEMMA SectionAdded ==
  ASSUME NEW P, NEW f, Steps(P, f), NEW key, NEW r, Sections(P, f, key, r),
         NEW before, IsKey(before), Named(before, key.name) = {}, NEW n \in 0..Len(f),
         Has(f, n, WrittenKey(key, Written1(key))), At(P[n], <<>>, before)
  PROVE  \E after : /\ IsKey(after)
                    /\ At(P[n + Len(WrittenKey(key, Written1(key)))], <<>>, after)
                    /\ SubsOf(after, key.name) = r
                    /\ \A name : name # key.name => Named(after, name) = Named(before, name)
<1> DEFINE tokens == WrittenKey(key, Written1(key))
           read == Section(key.name, r)
<1>1. IsKey(read) /\ Told(P, f, tokens, read) /\ read.name = key.name /\ read.subs = r
  BY SectionsTold DEF Section, Key
<1>2. IsSequence(<<>>) /\ Len(f) \in Nat
  <2>1. <<>> \in Seq({})
    OBVIOUS
  <2> QED BY <2>1 DEF IsSequence, Steps
<1> HIDE DEF tokens, read
<1>3. CASE tokens = <<>>
  <2>1. read.subs = <<>>
    BY <1>1, <1>3 DEF Told
  <2>2. n + Len(tokens) = n
    BY <1>2, <1>3
  <2>3. SubsOf(before, key.name) = r
    BY <1>1, <2>1 DEF SubsOf
  <2>4. At(P[n + Len(tokens)], <<>>, before)
    BY <2>2
  <2> QED BY <2>3, <2>4 DEF tokens
<1>4. CASE tokens # <<>>
  <2> DEFINE after == With(before, read)
  <2>1. SubReads(P, f, tokens, key.name, read)
    BY <1>1, <1>4 DEF Told
  <2>2. Reads(P, f, tokens, <<>>, before, after)
    BY <1>2, <2>1 DEF SubReads
  <2>3. Has(f, n, tokens)
    BY DEF tokens
  <2>4. At(P[n + Len(tokens)], <<>>, after)
    BY <2>2, <2>3 DEF Reads
  <2>5. IsKey(after)
    BY <1>1, KeyChanged DEF With
  <2>6. SubsOf(after, key.name) = r /\ \A name : name # key.name => Named(after, name) = Named(before, name)
    BY <1>1, WithTells
  <2> HIDE DEF after
  <2> QED BY <2>4, <2>5, <2>6 DEF tokens
<1> QED BY <1>3, <1>4

\* What a reload may find of an inventory in a torn file.
TornKeys(inventory, order, keys, equipKeys) ==
  /\ Len(keys) \in 0..Len(order)
  /\ \A i \in 1..Len(keys) :
       /\ keys[i].name = KeyOf(order[i])
       /\ (i < Len(keys) \/ equipKeys # <<>>) => ReadItem(keys[i]) = ItemRead(inventory.items[order[i]])
  /\ equipKeys # <<>> => Len(keys) = Len(order)
  /\ Len(equipKeys) <= Len(inventory.equips)
  /\ \A i \in 1..(Len(equipKeys) - 1) : ReadEquip(equipKeys[i]) = inventory.equips[i]

\* A section without subkeys is not written.
LEMMA EmptyUnwritten ==
  ASSUME NEW P, NEW f, NEW key, NEW r, Sections(P, f, key, r), NEW below, WrittenKey(key, below) # <<>>
  PROVE  Len(r) > 0
<1>1. key = Section(key.name, key.subs) /\ IsList(key.subs, Len(r)) /\ Len(r) \in Nat
  BY DEF Sections
<1>2. CASE Len(r) = 0
  <2>1. key.subs = [i \in 1..0 |-> key.subs[i]] /\ 1..0 = {}
    BY <1>1, <1>2 DEF IsList
  <2>2. key.subs = <<>>
    BY <2>1
  <2>3. key.text = NoText
    BY <1>1 DEF Section, Key
  <2> QED BY <2>2, <2>3 DEF WrittenKey, Skipped
<1> QED BY <1>1, <1>2

\* What is found in a file, by how the parser ends.
LEMMA FoundInFile ==
  ASSUME NEW q, q = Parse(file, Section("inventory", <<>>)), file # <<>>, NEW name
  PROVE  /\ q.expects = "value" => KeysIn(name) = <<>>
         /\ q.expects = "name" => KeysIn(name) = SubsOf(Outermost(q), name)
<1>1. InFile = Result(q.expects \in {"name", "end"}, Outermost(q))
  BY DEF InFile, FromFile
<1>2. InFile.ok = (q.expects \in {"name", "end"}) /\ InFile.key = Outermost(q)
  BY <1>1 DEF Result
<1> QED BY <1>2 DEF KeysIn

\* Whatever is left of the file of an inventory that a file can describe.
LEMMA TornRead ==
  ASSUME NEW inventory, IsInventory(inventory), Plain(inventory),
         NEW order \in SetToSeqs(DOMAIN inventory.items),
         file \in TornFiles(Written(TreeOf(inventory, order)))
  PROVE  TornKeys(inventory, order, KeysIn("items"), KeysIn("default_equips"))
<1> DEFINE f == Written(TreeOf(inventory, order))
           root == Section("inventory", <<>>)
           itemsKey == ItemsKey(inventory, order)
           equipsKey == EquipsKey(inventory)
           A == WrittenKey(itemsKey, Written1(itemsKey))
           B == WrittenKey(equipsKey, Written1(equipsKey))
           keys == KeysIn("items")
           equipKeys == KeysIn("default_equips")
           q == Parse(file, root)
           Torn(ks, es) == TornKeys(inventory, order, ks, es)
<1>1. IsKey(TreeOf(inventory, order)) /\ IsSequence(f) /\ Len(f) \in Nat
  <2>1. IsKey(TreeOf(inventory, order))
    BY TreeIsKey
  <2>2. IsSequence(f)
    BY <2>1, WrittenType
  <2> QED BY <2>1, <2>2 DEF IsSequence
<1>2. IsSequence(file) /\ IsKey(root)
  BY <1>1, TornType, PlainKeys
<1>3. Len(order) \in Nat /\ Len(inventory.equips) \in Nat
  BY OrderFacts, SequenceLength DEF IsInventory
<1>4. Torn(<<>>, <<>>)
  <2>1. Len(<<>>) = 0
    OBVIOUS
  <2> QED BY <1>3, <2>1 DEF TornKeys
<1>5. CASE file = <<>>
  <2>1. keys = <<>> /\ equipKeys = <<>>
    BY <1>5 DEF KeysIn, InFile, FromFile, Result
  <2> QED BY <1>4, <2>1
<1>6. CASE file # <<>>
  <2>1. PICK P : IsTrace(P, f, root)
    BY <1>1, ParseSteps
  <2>2. Runs(P, f)
    BY <1>1, <1>2, <2>1, TraceOK DEF Runs, Steps, IsTrace
  <2>3. Steps(P, f)
    BY <2>2 DEF Runs
  <2>4. PICK r : /\ Sections(P, f, itemsKey, r) /\ itemsKey.name = "items" /\ Len(r) = Len(order)
                 /\ \A i \in 1..Len(order) :
                      /\ r[i].name = KeyOf(order[i])
                      /\ ReadItem(r[i]) = ItemRead(inventory.items[order[i]])
    BY <2>3, ItemsSections
  <2> DEFINE e == equipsKey.subs
  <2>5. /\ Sections(P, f, equipsKey, e) /\ equipsKey.name = "default_equips"
        /\ Len(e) = Len(inventory.equips)
        /\ [i \in DOMAIN e |-> ReadEquip(e[i])] = inventory.equips
    BY <2>3, EquipsSections
  <2> HIDE DEF itemsKey, equipsKey
  <2>6. IsSequence(A) /\ IsSequence(B)
    BY <2>4, <2>5, WrittenType, WrittenKeyType DEF Sections
  <2>7. f = FlattenSeq(<<A, B>>)
    <3> DEFINE subs == <<itemsKey, equipsKey>>
               T == [i \in DOMAIN subs |-> WrittenKey(subs[i], Written1(subs[i]))]
    <3>1. TreeOf(inventory, order).subs = subs
      BY DEF TreeOf, Section, Key, itemsKey, equipsKey
    <3>2. f = FlattenSeq(T)
      BY <3>1 DEF Written
    <3>3. DOMAIN subs = 1..2 /\ subs[1] = itemsKey /\ subs[2] = equipsKey
      OBVIOUS
    <3> HIDE DEF subs, f
    <3>4. T = [i \in 1..2 |-> T[i]] /\ T[1] = A /\ T[2] = B
      BY <3>3
    <3> HIDE DEF T, A, B
    <3>5. T = <<A, B>>
      <4> DEFINE s == <<A, B>>
      <4>1. s = [i \in 1..2 |-> s[i]] /\ s[1] = A /\ s[2] = B /\ \A i \in 1..2 : i = 1 \/ i = 2
        OBVIOUS
      <4> HIDE DEF s
      <4>2. T = s
        BY <3>4, <4>1
      <4> QED BY <4>2 DEF s
    <3> QED BY <3>2, <3>5
  <2> HIDE DEF f, A, B, e, q, root
  <2>8. Has(f, 0, A) /\ Has(f, Len(A), B) /\ Len(f) = Len(A) + Len(B) /\ Len(A) \in Nat /\ Len(B) \in Nat
    BY <2>6, <2>7, TwoParts DEF IsSequence
  <2>9. At(P[0], <<>>, root) /\ \A name : Named(root, name) = {}
    <3>1. At(P[0], <<>>, root)
      BY <2>1 DEF IsTrace, At, Progress
    <3>2. root.subs = <<>>
      BY DEF root, Section, Key
    <3> QED BY <3>1, <3>2 DEF Named
  <2>10. PICK end \in 1..Len(f) : Ends(q, P, f, end)
    BY <1>1, <1>6, <2>1, TornEnds DEF f, q
  <2>11. ProgressOK(q)
    BY <1>2, ParseOK DEF q
  <2>12. \A name : /\ q.expects = "value" => KeysIn(name) = <<>>
                   /\ q.expects = "name" => KeysIn(name) = SubsOf(Outermost(q), name)
    BY <1>6, FoundInFile DEF q, root
  <2>13. CASE q.expects = "value"
    BY <1>4, <2>12, <2>13
  <2>14. CASE end <= Len(A) /\ q.expects # "value"
    <3>1. A # <<>> /\ end \in (0 + 1)..(0 + Len(A)) /\ 0 \in 0..Len(f)
      BY <1>1, <2>8, <2>10, <2>14
    <3>2. Len(r) > 0
      BY <2>4, <3>1, EmptyUnwritten DEF A
    <3>3. PICK ks : Begun(ks, r) /\ Outermost(q) = With(root, Section("items", ks))
      BY <1>2, <2>2, <2>4, <2>8, <2>9, <2>10, <2>11, <2>14, <3>1, <3>2, SectionCut DEF A
    <3>4. q.expects = "name"
      BY <1>2, <2>2, <2>4, <2>8, <2>9, <2>10, <2>11, <2>14, <3>1, <3>2, SectionCut DEF A
    <3>5. Section("items", ks).name = "items" /\ Section("items", ks).subs = ks
      BY DEF Section, Key
    <3>6. /\ SubsOf(With(root, Section("items", ks)), "items") = ks
          /\ SubsOf(With(root, Section("items", ks)), "default_equips") = <<>>
      <4> DEFINE sub == Section("items", ks)
      <4>1. sub.name = "items" /\ sub.subs = ks
        BY <3>5
      <4> HIDE DEF sub
      <4>2. /\ SubsOf(With(root, sub), "items") = ks
            /\ Named(With(root, sub), "default_equips") = {}
        BY <1>2, <2>9, <4>1, WithTells
      <4> QED BY <4>2 DEF sub, SubsOf
    <3>7. keys = ks /\ equipKeys = <<>>
      BY <2>12, <3>3, <3>4, <3>6
    <3>8. Torn(ks, <<>>)
      <4>1. Len(<<>>) = 0
        OBVIOUS
      <4> QED BY <1>3, <2>4, <3>3, <4>1 DEF TornKeys, Begun
    <3> QED BY <3>7, <3>8
  <2>15. CASE end > Len(A) /\ q.expects # "value"
    <3> DEFINE n == Len(A)
    <3>1. B # <<>> /\ end \in (n + 1)..(n + Len(B)) /\ n \in 0..Len(f) /\ 0 \in 0..Len(f) /\ 0 + n = n
      BY <1>1, <2>8, <2>10, <2>15
    <3>2. PICK before : /\ IsKey(before) /\ At(P[n], <<>>, before) /\ SubsOf(before, "items") = r
                        /\ \A name : name # "items" => Named(before, name) = {}
      BY <1>2, <2>3, <2>4, <2>8, <2>9, <3>1, SectionAdded DEF A
    <3>3. Len(e) > 0
      BY <2>5, <3>1, EmptyUnwritten DEF B
    <3> HIDE DEF n
    <3>4. Has(f, n, B)
      BY <2>8 DEF n
    <3>5. PICK es : Begun(es, e) /\ Outermost(q) = With(before, Section("default_equips", es))
      BY <2>2, <2>5, <2>10, <2>11, <2>15, <3>1, <3>2, <3>3, <3>4, SectionCut DEF B
    <3>6. q.expects = "name"
      BY <2>2, <2>5, <2>10, <2>11, <2>15, <3>1, <3>2, <3>3, <3>4, SectionCut DEF B
    <3>7. /\ SubsOf(With(before, Section("default_equips", es)), "items") = r
          /\ SubsOf(With(before, Section("default_equips", es)), "default_equips") = es
      <4> DEFINE sub == Section("default_equips", es)
      <4>1. sub.name = "default_equips" /\ sub.subs = es
        BY DEF Section, Key
      <4> HIDE DEF sub
      <4>2. /\ SubsOf(With(before, sub), "default_equips") = es
            /\ SubsOf(With(before, sub), "items") = r
        BY <3>2, <4>1, WithTells
      <4> QED BY <4>2 DEF sub
    <3>8. keys = r /\ equipKeys = es
      BY <2>12, <3>5, <3>6, <3>7
    <3>9. Torn(r, es)
      <4>1. Len(es) \in 0..Len(inventory.equips) /\ \A i \in 1..(Len(es) - 1) : es[i] = e[i]
        BY <1>3, <2>5, <3>5 DEF Begun
      <4>2. DOMAIN e = 1..Len(e)
        BY <2>5, KeyFields DEF Sections, e
      <4>3. ASSUME NEW i \in 1..(Len(es) - 1) PROVE ReadEquip(es[i]) = inventory.equips[i]
        <5>1. i \in DOMAIN e
          BY <1>3, <2>5, <4>1, <4>2
        <5> QED BY <2>5, <4>1, <5>1
      <4> QED BY <1>3, <2>4, <4>1, <4>3 DEF TornKeys
    <3> QED BY <3>8, <3>9
  <2>16. end <= Len(A) \/ end > Len(A)
    BY <2>8, <2>10
  <2> QED BY <2>13, <2>14, <2>15, <2>16
<1> QED BY <1>5, <1>6

\* What is left of a file is left of that of the inventory held.
TornInv ==
  left = "torn" =>
    \E order \in SetToSeqs(DOMAIN held.items) : file \in TornFiles(Written(TreeOf(held, order)))

\* TornInv holds in every reachable state.
LEMMA TornInvariant == Spec => []TornInv
<1>1. Init => TornInv
  BY DEF Init, TornInv
<1>2. ASSUME FileInv, TornInv, Next PROVE TornInv'
  <2>1. CASE WriteToFile
    BY <2>1 DEF WriteToFile, TornInv
  <2>2. CASE DieWriting
    <3>1. tree' \in Trees /\ held' = Current /\ file' \in TornFiles(Written(tree'))
      BY <2>2 DEF DieWriting, Writes, Current
    <3>2. PICK order \in SetToSeqs(DOMAIN Current.items) : tree' = TreeOf(Current, order)
      BY <1>2, <3>1, TreesWritten DEF FileInv
    <3>3. order \in SetToSeqs(DOMAIN held'.items) /\ file' \in TornFiles(Written(TreeOf(held', order)))
      BY <3>1, <3>2
    <3> QED BY <3>3 DEF TornInv
  <2>3. CASE ReadFromFile
    <3>1. file' = file /\ held' = held /\ left' = left
      BY <2>3 DEF ReadFromFile
    <3> QED BY <1>2, <3>1 DEF TornInv
  <2> QED BY <1>2, <2>1, <2>2, <2>3 DEF Next
<1>3. TornInv /\ UNCHANGED vars => TornInv'
  BY DEF TornInv, vars
<1>4. FileInv /\ TornInv /\ [Next]_vars => TornInv'
  BY <1>2, <1>3
<1> QED BY <1>1, <1>4, FileInvariant, PTL DEF Spec

\* A set within one of a single element has at most one.
LEMMA AtMostOne ==
  ASSUME NEW S, NEW x, S \subseteq {x}
  PROVE  Cardinality(S) <= 1
<1>1. CASE S = {}
  BY <1>1, FS_EmptySet
<1>2. CASE S # {}
  <2>1. S = {x}
    BY <1>2
  <2> QED BY <2>1, FS_Singleton
<1> QED BY <1>1, <1>2

\* A torn file gives some of the items, as they were, and the first of the default equips:
\* except for the one thing the game died in.
THEOREM TornKeepsOthersHolds == Spec => []TornKeepsOthers
<1>1. FileInv /\ TornInv => TornKeepsOthers
  <2> DEFINE changed == {id \in DOMAIN items : id \notin DOMAIN held.items \/ ~ Kept(id)}
  <2> SUFFICES ASSUME FileInv, TornInv, running, starts > 0, left = "torn", Plain(held)
               PROVE  /\ DOMAIN items \subseteq DOMAIN held.items
                      /\ Cardinality(changed) <= 1
                      /\ Len(equips) <= Len(held.equips)
                      /\ equips # <<>> =>
                           /\ changed = {} /\ DOMAIN items = DOMAIN held.items
                           /\ \A i \in 1..(Len(equips) - 1) : equips[i] = held.equips[i]
    BY DEF TornKeepsOthers
  <2>1. IsInventory(held) /\ IsSequence(file)
    BY DEF FileInv, TypesOK
  <2>2. PICK order \in SetToSeqs(DOMAIN held.items) : file \in TornFiles(Written(TreeOf(held, order)))
    BY DEF TornInv
  <2> DEFINE keys == KeysIn("items")
             equipKeys == KeysIn("default_equips")
             n == Len(keys)
             m == Len(order)
  <2>3. TornKeys(held, order, keys, equipKeys)
    BY <2>1, <2>2, TornRead
  <2>4. /\ n <= FirstDefault /\ items = ReadItems(keys).items
        /\ equips = [i \in DOMAIN equipKeys |-> ReadEquip(equipKeys[i])]
    BY DEF FileInv, ReadInv
  <2>5. /\ n \in Nat /\ DOMAIN keys = 1..n /\ \A i \in DOMAIN keys : IsKey(keys[i])
        /\ Len(equipKeys) \in Nat /\ DOMAIN equipKeys = 1..Len(equipKeys)
    BY <2>1, KeysInFile
  <2> HIDE DEF keys, equipKeys
  <2>6. /\ n \in 0..m
        /\ \A i \in 1..n :
             /\ keys[i].name = KeyOf(order[i])
             /\ (i < n \/ equipKeys # <<>>) => ReadItem(keys[i]) = ItemRead(held.items[order[i]])
        /\ equipKeys # <<>> => n = m
        /\ Len(equipKeys) <= Len(held.equips)
        /\ \A i \in 1..(Len(equipKeys) - 1) : ReadEquip(equipKeys[i]) = held.equips[i]
    BY <2>3 DEF TornKeys
  <2>7. /\ m \in Nat /\ \A i \in 1..m : order[i] \in DOMAIN held.items
        /\ \A x \in DOMAIN held.items : \E i \in 1..m : order[i] = x
    BY <2>1, OrderFacts DEF IsInventory
  <2>8. /\ DOMAIN items = {order[i] : i \in 1..n}
        /\ \A i \in 1..n : items[order[i]] = ReadItem(keys[i])
    BY <2>1, <2>4, <2>5, <2>6, FirstItemsRead
  <2> HIDE DEF n, m
  <2>9. DOMAIN items \subseteq DOMAIN held.items
    BY <2>6, <2>7, <2>8
  <2>10. ASSUME NEW i \in 1..n, i < n \/ equipKeys # <<>> PROVE Kept(order[i])
    <3>1. items[order[i]] = ItemRead(held.items[order[i]]) /\ order[i] \in DOMAIN held.items
      <4>1. i \in 1..m
        BY <2>6, <2>7
      <4>2. ReadItem(keys[i]) = ItemRead(held.items[order[i]])
        BY <2>6, <2>10
      <4> QED BY <2>7, <2>8, <4>1, <4>2
    <3>2. IsItem(held.items[order[i]])
      BY <2>1, <3>1 DEF IsInventory
    <3>3. PlainItem(held.items[order[i]])
      BY <3>1 DEF Plain, PlainItem, NoRepeats
    <3> QED BY <3>1, <3>2, <3>3, ItemReadKept DEF Kept
  <2>11. changed \subseteq {order[n]}
    <3>1. ASSUME NEW id \in changed PROVE id = order[n]
      <4>1. id \in DOMAIN items /\ ~ Kept(id)
        BY <2>9
      <4>2. PICK i \in 1..n : id = order[i]
        BY <2>8, <4>1
      <4>3. ~ i < n
        BY <2>10, <4>1, <4>2
      <4>4. i = n
        BY <2>6, <2>7, <4>3
      <4> QED BY <4>2, <4>4
    <3> QED BY <3>1
  <2>12. Cardinality(changed) <= 1
    <3> HIDE DEF changed
    <3> QED BY <2>11, AtMostOne
  <2>13. Len(equips) = Len(equipKeys) /\ \A i \in 1..Len(equipKeys) : equips[i] = ReadEquip(equipKeys[i])
    BY <2>4, <2>5
  <2>14. ASSUME equips # <<>>
         PROVE  /\ changed = {} /\ DOMAIN items = DOMAIN held.items
                /\ \A i \in 1..(Len(equips) - 1) : equips[i] = held.equips[i]
    <3>1. equipKeys # <<>>
      <4>1. CASE equipKeys = <<>>
        <5>1. DOMAIN equipKeys = {}
          BY <4>1
        <5>2. equips = <<>>
          BY <2>4, <5>1
        <5> QED BY <2>14, <5>2
      <4> QED BY <4>1
    <3>2. n = m
      BY <2>6, <3>1
    <3>3. DOMAIN items = DOMAIN held.items
      BY <2>7, <2>8, <2>9, <3>2
    <3>4. changed = {}
      <4>1. \A id \in DOMAIN items : Kept(id)
        BY <2>8, <2>10, <3>1
      <4> QED BY <2>9, <4>1
    <3>5. \A i \in 1..(Len(equips) - 1) : equips[i] = held.equips[i]
      BY <2>5, <2>6, <2>13
    <3> QED BY <3>3, <3>4, <3>5
  <2> HIDE DEF changed
  <2> QED BY <2>6, <2>9, <2>12, <2>13, <2>14
<1> QED BY <1>1, FileInvariant, TornInvariant, PTL
=============================================================================
