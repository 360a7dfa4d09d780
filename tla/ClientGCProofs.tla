--------------------------- MODULE ClientGCProofs ---------------------------
(***************************************************************************)
(* Proofs about ClientGC, for any items, slots, requests and number of     *)
(* faults and changes.                                                     *)
(*                                                                         *)
(* That the copy ClientGC holds is faithful follows from what is still on  *)
(* the way: from the cache of the connection on, each message is one that  *)
(* the objects before it allow, and after all of them the objects are the  *)
(* coordinator's.  A cache replaces everything, so it does not matter what *)
(* the copy was before; another one, for a second greeting, says what is   *)
(* held by then anyway.  The matchmaking data, at which the game is sent   *)
(* the cache stored before, is there before any cache: the messages of     *)
(* several greetings' sessions are read in turns, each step by all of them *)
(* before the next.                                                        *)
(*                                                                         *)
(* That the copy goes through the coordinator's states one by one follows  *)
(* from the states the messages on the way were sent in: they come in      *)
(* order, none is more than one ahead of the one before, and each is what  *)
(* the copy will be when its message has been read.                        *)
(***************************************************************************)
EXTENDS ClientMirror, SequenceTheorems, WellFoundedInduction, TLAPS

-----------------------------------------------------------------------------
(* Messages applied to a view.                                             *)

\* A message leaves alone the objects it is not about, and what it makes of the others
\* does not depend on what they were.
LEMMA AppliedFacts ==
  ASSUME NEW m, NEW v
  PROVE  /\ DOMAIN Applied(m, v) = DOMAIN v
         /\ \A o \in DOMAIN v : o \notin Touched(m) => Applied(m, v)[o] = v[o]
         /\ \A w : \A o \in DOMAIN v \cap DOMAIN w :
              o \in Touched(m) => Applied(m, v)[o] = Applied(m, w)[o]
BY DEF Applied, Touched

LessThan == {p \in Nat \X Nat : p[1] < p[2]}

\* Of a number of messages there is a last.
LEMMA LastOfSome ==
  ASSUME NEW n \in Nat, NEW S \in SUBSET (1..n), S # {}
  PROVE  \E k \in S : \A j \in S : j <= k
<1> DEFINE T == {d \in Nat : n - d \in S}
<1>1. T \subseteq Nat /\ T # {}
  <2>1. PICK k \in S : k \in 1..n
    OBVIOUS
  <2>2. n - k \in Nat /\ n - (n - k) = k
    BY <2>1
  <2>3. n - k \in T
    BY <2>1, <2>2
  <2> QED
    BY <2>3
<1>2. PICK d \in T : \A e \in T : <<e, d>> \notin LessThan
  <2>1. IsWellFoundedOn(LessThan, Nat)
    BY NatLessThanWellFounded DEF OpToRel, LessThan
  <2> HIDE DEF T
  <2> QED
    BY <1>1, <2>1, WFMin
<1>3. \A e \in T : d <= e
  <2> HIDE DEF T
  <2> SUFFICES ASSUME NEW e \in T PROVE d <= e
    OBVIOUS
  <2>1. e \in Nat /\ d \in Nat
    BY <1>1
  <2>2. e < d => <<e, d>> \in LessThan
    BY <2>1 DEF LessThan
  <2> QED
    BY <1>2, <2>1, <2>2
<1>4. d \in Nat /\ n - d \in S
  OBVIOUS
<1>5. ASSUME NEW j \in S PROVE j <= n - d
  <2>1. j \in 1..n
    OBVIOUS
  <2>2. n - j \in Nat /\ n - (n - j) = j
    BY <2>1
  <2>3. n - j \in T
    BY <2>2
  <2>4. d <= n - j
    BY <1>3, <2>3
  <2> QED
    BY <1>4, <2>1, <2>4
<1> QED
  BY <1>4, <1>5

\* What the first n of the messages leave of an object: what it was if none is about it,
\* and otherwise what the last that is makes of it.
LEMMA AfterFirstValue ==
  ASSUME NEW n \in Nat, NEW ms, NEW v, NEW o \in DOMAIN v
  PROVE  /\ (\A k \in 1..n : o \notin Touched(ms[k])) => AfterFirst(n, ms, v)[o] = v[o]
         /\ \A k \in 1..n :
              o \in Touched(ms[k]) /\ (\A j \in 1..n : o \in Touched(ms[j]) => j <= k)
                => AfterFirst(n, ms, v)[o] = Applied(ms[k], v)[o]
         /\ (\A k \in 1..n : o \notin Touched(ms[k]))
              \/ \E k \in 1..n :
                   o \in Touched(ms[k]) /\ \A j \in 1..n : o \in Touched(ms[j]) => j <= k
<1> DEFINE about == {k \in 1..n : o \in Touched(ms[k])}
<1>1. AfterFirst(n, ms, v)[o] = IF about = {} THEN v[o] ELSE Applied(ms[Max(about)], v)[o]
  BY DEF AfterFirst
<1>2. ASSUME NEW k \in about, \A j \in about : j <= k PROVE Max(about) = k
  <2>1. \A j \in about : k >= j
    BY <1>2
  <2>2. Max(about) \in about /\ \A j \in about : Max(about) >= j
    BY <2>1 DEF Max
  <2> QED
    BY <1>2, <2>2
<1>3. about # {} => \E k \in about : \A j \in about : j <= k
  BY LastOfSome
<1> QED
  BY <1>1, <1>2, <1>3

LEMMA AfterFirstDomain ==
  ASSUME NEW n, NEW ms, NEW v
  PROVE  AfterFirst(n, ms, v) = [o \in DOMAIN v |-> AfterFirst(n, ms, v)[o]]
BY DEF AfterFirst

LEMMA AfterNone == ASSUME NEW ms, NEW S, NEW v \in [S -> Nat] PROVE AfterFirst(0, ms, v) = v
<1>1. \A o \in DOMAIN v : AfterFirst(0, ms, v)[o] = v[o]
  BY AfterFirstValue
<1> QED
  BY <1>1, AfterFirstDomain

\* The next message is applied to what those before it leave.
LEMMA AfterNext ==
  ASSUME NEW n \in Nat, NEW ms, NEW v
  PROVE  AfterFirst(n + 1, ms, v) = Applied(ms[n + 1], AfterFirst(n, ms, v))
<1> DEFINE w == AfterFirst(n, ms, v)
           m == ms[n + 1]
<1>1. DOMAIN w = DOMAIN v
  BY AfterFirstDomain
<1> HIDE DEF w, m
<1>2. ASSUME NEW o \in DOMAIN v PROVE AfterFirst(n + 1, ms, v)[o] = Applied(m, w)[o]
  <2>1. \A k : k \in 1..(n + 1) <=> k \in 1..n \/ k = n + 1
    OBVIOUS
  <2>2. CASE o \in Touched(m)
    <3>1. AfterFirst(n + 1, ms, v)[o] = Applied(m, v)[o]
      <4>1. n + 1 \in 1..(n + 1) /\ \A j \in 1..(n + 1) : j <= n + 1
        OBVIOUS
      <4> QED
        BY <2>2, <4>1, AfterFirstValue DEF m
    <3> QED
      BY <1>1, <2>2, <3>1, AppliedFacts
  <2>3. CASE o \notin Touched(m)
    <3>1. Applied(m, w)[o] = w[o]
      BY <1>1, <2>3, AppliedFacts
    <3>2. CASE \A k \in 1..n : o \notin Touched(ms[k])
      <4>1. \A k \in 1..(n + 1) : o \notin Touched(ms[k])
        BY <2>1, <2>3, <3>2 DEF m
      <4>2. AfterFirst(n + 1, ms, v)[o] = v[o]
        <5> DEFINE n1 == n + 1
        <5>1. n1 \in Nat /\ \A k \in 1..n1 : o \notin Touched(ms[k])
          BY <4>1
        <5> HIDE DEF n1
        <5>2. AfterFirst(n1, ms, v)[o] = v[o]
          BY <5>1, AfterFirstValue
        <5> QED
          BY <5>2 DEF n1
      <4> QED
        BY <3>1, <3>2, <4>2, AfterFirstValue DEF w
    <3>3. CASE \E k \in 1..n :
                 o \in Touched(ms[k]) /\ \A j \in 1..n : o \in Touched(ms[j]) => j <= k
      <4>1. PICK k \in 1..n :
              o \in Touched(ms[k]) /\ \A j \in 1..n : o \in Touched(ms[j]) => j <= k
        BY <3>3
      <4>2. k \in 1..(n + 1) /\ \A j \in 1..(n + 1) : o \in Touched(ms[j]) => j <= k
        BY <2>1, <2>3, <4>1 DEF m
      <4>3. AfterFirst(n + 1, ms, v)[o] = Applied(ms[k], v)[o]
        BY <4>1, <4>2, AfterFirstValue
      <4>4. w[o] = Applied(ms[k], v)[o]
        BY <4>1, AfterFirstValue DEF w
      <4> QED
        BY <3>1, <4>3, <4>4
    <3> QED
      BY <3>2, <3>3, AfterFirstValue
  <2> QED
    BY <2>2, <2>3
<1>3. Applied(m, w) = [o \in DOMAIN v |-> Applied(m, w)[o]]
  BY <1>1 DEF Applied
<1> QED
  BY <1>2, <1>3, AfterFirstDomain DEF w, m

\* Only the messages themselves matter, not what comes after them.
LEMMA AfterSame ==
  ASSUME NEW n \in Nat, NEW ms, NEW ls, NEW v, \A k \in 1..n : ms[k] = ls[k]
  PROVE  AfterFirst(n, ms, v) = AfterFirst(n, ls, v)
<1>1. ASSUME NEW o \in DOMAIN v PROVE AfterFirst(n, ms, v)[o] = AfterFirst(n, ls, v)[o]
  <2>1. \A k \in 1..n : o \in Touched(ms[k]) <=> o \in Touched(ls[k])
    OBVIOUS
  <2>2. CASE \A k \in 1..n : o \notin Touched(ms[k])
    BY <2>1, <2>2, AfterFirstValue
  <2>3. CASE \E k \in 1..n :
               o \in Touched(ms[k]) /\ \A j \in 1..n : o \in Touched(ms[j]) => j <= k
    <3>1. PICK k \in 1..n :
            o \in Touched(ms[k]) /\ \A j \in 1..n : o \in Touched(ms[j]) => j <= k
      BY <2>3
    <3>2. o \in Touched(ls[k]) /\ \A j \in 1..n : o \in Touched(ls[j]) => j <= k
      BY <2>1, <3>1
    <3>3. AfterFirst(n, ms, v)[o] = Applied(ms[k], v)[o]
      BY <3>1, AfterFirstValue
    <3>4. AfterFirst(n, ls, v)[o] = Applied(ls[k], v)[o]
      BY <3>2, AfterFirstValue
    <3> QED
      BY <3>3, <3>4
  <2> QED
    BY <2>2, <2>3, AfterFirstValue
<1> QED
  BY <1>1, AfterFirstDomain

\* The first message may be applied before the others.
LEMMA AfterHead ==
  ASSUME NEW n \in Nat, NEW ms, NEW ls, NEW v, \A k \in 1..n : ls[k] = ms[k + 1]
  PROVE  AfterFirst(n, ls, Applied(ms[1], v)) = AfterFirst(n + 1, ms, v)
<1> DEFINE w == Applied(ms[1], v)
<1>1. DOMAIN w = DOMAIN v
  BY AppliedFacts
<1>2. ASSUME NEW o \in DOMAIN v PROVE AfterFirst(n, ls, w)[o] = AfterFirst(n + 1, ms, v)[o]
  <2> HIDE DEF w
  <2>1. \A k \in 1..(n + 1) : k = 1 \/ (k - 1 \in 1..n /\ ls[k - 1] = ms[k])
    OBVIOUS
  <2>2. CASE \A k \in 1..n : o \notin Touched(ls[k])
    <3>1. AfterFirst(n, ls, w)[o] = w[o]
      BY <1>1, <2>2, AfterFirstValue
    <3>2. \A k \in 1..(n + 1) : o \in Touched(ms[k]) => k = 1
      BY <2>1, <2>2
    <3>3. CASE o \in Touched(ms[1])
      <4>1. 1 \in 1..(n + 1) /\ \A j \in 1..(n + 1) : o \in Touched(ms[j]) => j <= 1
        BY <3>2
      <4>2. AfterFirst(n + 1, ms, v)[o] = Applied(ms[1], v)[o]
        BY <3>3, <4>1, AfterFirstValue
      <4> QED
        BY <3>1, <4>2 DEF w
    <3>4. CASE o \notin Touched(ms[1])
      <4>1. \A k \in 1..(n + 1) : o \notin Touched(ms[k])
        BY <3>2, <3>4
      <4>2. AfterFirst(n + 1, ms, v)[o] = v[o]
        BY <4>1, AfterFirstValue
      <4> QED
        BY <3>1, <3>4, <4>2, AppliedFacts DEF w
    <3> QED
      BY <3>3, <3>4
  <2>3. CASE \E k \in 1..n :
               o \in Touched(ls[k]) /\ \A j \in 1..n : o \in Touched(ls[j]) => j <= k
    <3>1. PICK k \in 1..n :
            o \in Touched(ls[k]) /\ \A j \in 1..n : o \in Touched(ls[j]) => j <= k
      BY <2>3
    <3>2. k + 1 \in 1..(n + 1) /\ ls[k] = ms[k + 1] /\ o \in Touched(ms[k + 1])
      BY <3>1
    <3>3. \A j \in 1..(n + 1) : o \in Touched(ms[j]) => j <= k + 1
      BY <2>1, <3>1
    <3>4. AfterFirst(n + 1, ms, v)[o] = Applied(ms[k + 1], v)[o]
      BY <3>2, <3>3, AfterFirstValue
    <3>5. AfterFirst(n, ls, w)[o] = Applied(ls[k], w)[o]
      BY <1>1, <3>1, AfterFirstValue
    <3> QED
      BY <1>1, <3>1, <3>2, <3>4, <3>5, AppliedFacts
  <2> QED
    BY <1>1, <2>2, <2>3, AfterFirstValue
<1>3. AfterFirst(n, ls, w) = [o \in DOMAIN v |-> AfterFirst(n, ls, w)[o]]
  BY <1>1, AfterFirstDomain
<1> HIDE DEF w
<1>4. AfterFirst(n, ls, w) = AfterFirst(n + 1, ms, v)
  BY <1>2, <1>3, AfterFirstDomain
<1> QED
  BY <1>4 DEF w

\* After a message about every object it does not matter what they were before.
LEMMA AfterAllReplaced ==
  ASSUME NEW n \in Nat, NEW ms, NEW v, NEW w, DOMAIN v = DOMAIN w,
         NEW k \in 1..n, DOMAIN v \subseteq Touched(ms[k])
  PROVE  AfterFirst(n, ms, v) = AfterFirst(n, ms, w)
<1>1. ASSUME NEW o \in DOMAIN v PROVE AfterFirst(n, ms, v)[o] = AfterFirst(n, ms, w)[o]
  <2>1. PICK l \in 1..n :
          o \in Touched(ms[l]) /\ \A j \in 1..n : o \in Touched(ms[j]) => j <= l
    BY AfterFirstValue
  <2>2. AfterFirst(n, ms, v)[o] = Applied(ms[l], v)[o]
    BY <2>1, AfterFirstValue
  <2>3. AfterFirst(n, ms, w)[o] = Applied(ms[l], w)[o]
    BY <2>1, AfterFirstValue
  <2> QED
    BY <2>1, <2>2, <2>3, AppliedFacts
<1> QED
  BY <1>1, AfterFirstDomain

LEMMA AfterAppended ==
  ASSUME NEW S, NEW ms \in Seq(S), NEW m \in S, NEW v
  PROVE  AfterAll(Append(ms, m), v) = Applied(m, AfterAll(ms, v))
<1> DEFINE n == Len(ms)
           ls == Append(ms, m)
<1>1. n \in Nat /\ Len(ls) = n + 1 /\ ls[n + 1] = m /\ \A k \in 1..n : ls[k] = ms[k]
  OBVIOUS
<1> HIDE DEF n, ls
<1>2. AfterFirst(n + 1, ls, v) = Applied(m, AfterFirst(n, ls, v))
  BY <1>1, AfterNext
<1>3. AfterFirst(n, ls, v) = AfterFirst(n, ms, v)
  BY <1>1, AfterSame
<1> QED
  BY <1>1, <1>2, <1>3 DEF AfterAll, n, ls

LEMMA AfterTail ==
  ASSUME NEW S, NEW ms \in Seq(S), ms # <<>>, NEW v
  PROVE  AfterAll(Tail(ms), Applied(Head(ms), v)) = AfterAll(ms, v)
<1> DEFINE ls == Tail(ms)
           n == Len(ls)
<1>1. n \in Nat /\ Len(ms) = n + 1 /\ Head(ms) = ms[1] /\ \A k \in 1..n : ls[k] = ms[k + 1]
  OBVIOUS
<1> HIDE DEF n, ls
<1>2. AfterFirst(n, ls, Applied(ms[1], v)) = AfterFirst(n + 1, ms, v)
  BY <1>1, AfterHead
<1> QED
  BY <1>1, <1>2 DEF AfterAll, n, ls

-----------------------------------------------------------------------------
(* The messages there are.                                                 *)

\* The kinds of a session's requests, of messages that are about no object, and of the others.
SessionKinds == {"greeting", "matchmaking", "cache"}
Silent == {"confirm", "matchmaking", "craft"} \cup Relayed
DownKinds == Silent \cup {"cache", "update", "updateMultiple", "unlock", "delete"}
OutKinds == DownKinds \cup {"welcome", "matchmakingHello", "create", "priceSheet", "joinServer"}

Deltas == UNION {[S -> Nat] : S \in SUBSET Objects}
Msgs == [kind : OutKinds, mod : Deltas, add : Deltas, rem : SUBSET Objects]

\* A message as the coordinator sends it, and whether it suits the view v: what it adds
\* is new to it, and a cache says nothing else.
MessageOk(m) ==
  /\ m \in Msgs /\ m.kind \in DownKinds
  /\ m.kind = "cache" => DOMAIN m.mod = Objects /\ m.add = None /\ m.rem = {}
  /\ m.kind \in Silent => Touched(m) = {}
  /\ m.kind \in {"unlock", "delete"} => Touched(m) \subseteq Items
  /\ m.kind # "cache" => \A o \in DOMAIN m.mod : m.mod[o] # Absent
  /\ \A o \in DOMAIN m.add : m.add[o] # Absent /\ o \notin DOMAIN m.mod /\ o \notin m.rem

Suits(m, v) ==
  /\ \A o \in DOMAIN m.add : v[o] = Absent
  /\ m.kind = "cache" => m.mod = v

LEMMA DeltaFacts ==
  /\ None \in Deltas /\ DOMAIN None = {}
  /\ \A f \in Deltas : DOMAIN f \subseteq Objects /\ f \in [DOMAIN f -> Nat]
  /\ \A S \in SUBSET Objects : \A f \in [S -> Nat] : f \in Deltas
<1>1. None \in [{} -> Nat] /\ DOMAIN None = {}
  BY DEF None
<1>2. \A S \in SUBSET Objects : \A f \in [S -> Nat] : f \in Deltas
  BY DEF Deltas
<1>3. None \in Deltas
  BY <1>1, <1>2
<1> QED
  BY <1>1, <1>2, <1>3 DEF Deltas

LEMMA AppliedType ==
  ASSUME NEW m \in Msgs, NEW S, NEW v \in [S -> Nat] PROVE Applied(m, v) \in [S -> Nat]
<1>1. m.mod \in Deltas /\ m.add \in Deltas
  BY DEF Msgs
<1>2. ASSUME NEW o \in S
      PROVE  (IF o \in m.rem THEN Absent
              ELSE IF o \in DOMAIN m.add THEN m.add[o]
              ELSE IF o \in DOMAIN m.mod THEN m.mod[o]
              ELSE v[o]) \in Nat
  <2>1. /\ o \in DOMAIN m.add => m.add[o] \in Nat
        /\ o \in DOMAIN m.mod => m.mod[o] \in Nat
    BY <1>1, DeltaFacts
  <2> QED
    BY <2>1 DEF Absent
<1> QED
  BY <1>2 DEF Applied

\* The whole of the objects replaces any view.
LEMMA AppliedSnapshot ==
  ASSUME NEW kind, NEW t \in [Objects -> Nat], NEW v, DOMAIN v = Objects
  PROVE  Applied(Snapshot(kind, t), v) = t
<1>1. ASSUME NEW o \in Objects PROVE Applied(Snapshot(kind, t), v)[o] = t[o]
  BY DeltaFacts DEF Applied, Snapshot, Message
<1>2. DOMAIN Applied(Snapshot(kind, t), v) = Objects
  BY AppliedFacts
<1>3. Applied(Snapshot(kind, t), v) = [o \in Objects |-> Applied(Snapshot(kind, t), v)[o]]
  BY DEF Applied
<1> QED
  BY <1>1, <1>3

\* A message about nothing changes nothing.
LEMMA AppliedSilent ==
  ASSUME NEW m, NEW v, v = [o \in DOMAIN v |-> v[o]], Touched(m) = {} PROVE Applied(m, v) = v
<1>1. \A o \in DOMAIN v : Applied(m, v)[o] = v[o]
  BY AppliedFacts
<1>2. Applied(m, v) = [o \in DOMAIN v |-> Applied(m, v)[o]]
  BY DEF Applied
<1> QED
  BY <1>1, <1>2

-----------------------------------------------------------------------------
(* What is on the way to the client.                                       *)

\* The k-th of the messages comes after a cache of the connection.
Ready(ms, cur, k) == cur \/ \E j \in 1..(k - 1) : ms[j].kind = "cache"

\* From the cache on, the messages are ones the view v held by then allows, and lead
\* to the coordinator's objects t.
DownOk(ms, v, cur, t) ==
  /\ ms \in Seq(Msgs)
  /\ \A k \in DOMAIN ms : MessageOk(ms[k])
  /\ \A k \in DOMAIN ms : Ready(ms, cur, k) => Suits(ms[k], AfterFirst(k - 1, ms, v))
  /\ Ready(ms, cur, Len(ms) + 1) => AfterAll(ms, v) = t

LEMMA NothingDown == ASSUME NEW v, NEW t PROVE DownOk(<<>>, v, FALSE, t)
<1>1. ~ Ready(<<>>, FALSE, Len(<<>>) + 1)
  BY DEF Ready
<1>2. <<>> \in Seq(Msgs) /\ DOMAIN <<>> = {}
  OBVIOUS
<1> QED
  BY <1>1, <1>2 DEF DownOk

\* The coordinator sends a message about a change it makes, or its whole objects.
LEMMA MessageSent ==
  ASSUME NEW ms, NEW v \in [Objects -> Nat], NEW cur, NEW t \in [Objects -> Nat], NEW m,
         DownOk(ms, v, cur, t), MessageOk(m), Suits(m, t),
         m.kind = "cache" => m = Snapshot("cache", t)
  PROVE  DownOk(Append(ms, m), v, cur, Applied(m, t))
<1> DEFINE n == Len(ms)
           ls == Append(ms, m)
<1>1. ms \in Seq(Msgs) /\ m \in Msgs
  BY DEF DownOk, MessageOk
<1>2. /\ n \in Nat /\ Len(ls) = n + 1 /\ ls[n + 1] = m /\ \A k \in 1..n : ls[k] = ms[k]
      /\ DOMAIN ms = 1..n /\ DOMAIN ls = 1..(n + 1) /\ ls \in Seq(Msgs)
  BY <1>1
<1>3. AfterAll(ls, v) = Applied(m, AfterAll(ms, v))
  BY <1>1, AfterAppended
<1> HIDE DEF n, ls
<1>4. ASSUME NEW k \in 1..(n + 1) PROVE Ready(ls, cur, k) <=> Ready(ms, cur, k)
  <2>1. k - 1 \in 0..n /\ 1..(k - 1) \subseteq 1..n
    BY <1>2
  <2> QED
    BY <1>2, <2>1 DEF Ready
<1>5. ASSUME NEW h \in 0..n PROVE AfterFirst(h, ls, v) = AfterFirst(h, ms, v)
  <2>1. h \in Nat /\ \A j \in 1..h : ls[j] = ms[j]
    BY <1>2
  <2> QED
    BY <2>1, AfterSame
<1>6. \A k \in 1..(n + 1) : k \in 1..n \/ k = n + 1
  BY <1>2
<1>7. n + 1 - 1 = n /\ n + 1 \in 1..(n + 1)
  BY <1>2
<1>8. \A k \in DOMAIN ls : MessageOk(ls[k])
  BY <1>2, <1>6 DEF DownOk
<1>9. ASSUME NEW k \in DOMAIN ls, Ready(ls, cur, k)
      PROVE  Suits(ls[k], AfterFirst(k - 1, ls, v))
  <2>1. CASE k \in 1..n
    <3>1. k - 1 \in 0..n /\ k \in 1..(n + 1)
      BY <1>2, <2>1
    <3>2. Suits(ms[k], AfterFirst(k - 1, ms, v))
      BY <1>2, <1>4, <1>9, <2>1, <3>1 DEF DownOk
    <3> QED
      BY <1>2, <1>5, <2>1, <3>1, <3>2
  <2>2. CASE k = n + 1
    <3>1. Ready(ms, cur, n + 1)
      BY <1>2, <1>4, <1>9, <2>2
    <3>2. AfterFirst(n, ms, v) = t
      BY <3>1 DEF DownOk, AfterAll, n
    <3>3. AfterFirst(k - 1, ls, v) = t
      <4>1. k - 1 = n /\ n \in 0..n
        BY <1>2, <2>2
      <4> QED
        BY <1>5, <3>2, <4>1
    <3> QED
      BY <1>2, <2>2, <3>3
  <2> QED
    BY <1>2, <1>6, <2>1, <2>2
<1>10. ASSUME Ready(ls, cur, Len(ls) + 1) PROVE AfterAll(ls, v) = Applied(m, t)
  <2>1. CASE Ready(ms, cur, n + 1)
    BY <1>3, <2>1 DEF DownOk, n
  <2>2. CASE ~ Ready(ms, cur, n + 1)
    <3>1. n + 1 + 1 - 1 = n + 1
      BY <1>2
    <3>2. PICK j \in 1..(n + 1) : ls[j].kind = "cache"
      BY <1>2, <1>10, <2>2, <3>1 DEF Ready
    <3>3. m.kind = "cache"
      BY <1>2, <1>6, <1>7, <2>2, <3>2 DEF Ready
    <3>4. m = Snapshot("cache", t)
      BY <3>3
    <3>5. DOMAIN AfterAll(ms, v) = Objects
      BY AfterFirstDomain DEF AfterAll
    <3>6. Applied(m, AfterAll(ms, v)) = t /\ Applied(m, t) = t
      BY <3>4, <3>5, AppliedSnapshot
    <3> QED
      BY <1>3, <3>6
  <2> QED
    BY <2>1, <2>2
<1> QED
  BY <1>2, <1>8, <1>9, <1>10 DEF DownOk, ls

\* The client reads a message: the view it holds is brought up by it, if there has been a
\* cache or this is it; otherwise it does not matter what the view becomes.  The messages
\* after it lead where they led before.
LEMMA ReadAhead ==
  ASSUME NEW ms, NEW v \in [Objects -> Nat], NEW w \in [Objects -> Nat],
         NEW cur \in BOOLEAN, NEW now \in BOOLEAN, NEW t,
         DownOk(ms, v, cur, t), ms # <<>>,
         now => cur \/ Head(ms).kind = "cache",
         cur \/ Head(ms).kind = "cache" => w = Applied(Head(ms), v),
         NEW k \in 1..Len(ms), Ready(Tail(ms), now, k)
  PROVE  /\ Ready(ms, cur, k + 1)
         /\ AfterFirst(k - 1, Tail(ms), w) = AfterFirst(k, ms, v)
<1> DEFINE ls == Tail(ms)
           n == Len(ls)
           m == ms[1]
<1>1. /\ n \in Nat /\ Len(ms) = n + 1 /\ Head(ms) = m /\ \A i \in 1..n : ls[i] = ms[i + 1]
      /\ DOMAIN ls = 1..n /\ DOMAIN ms = 1..(n + 1) /\ ls \in Seq(Msgs)
  BY DEF DownOk
<1>2. \A i \in DOMAIN ms : MessageOk(ms[i])
  BY DEF DownOk
<1>3. Ready(ls, now, k)
  OBVIOUS
<1> HIDE DEF ls, n, m
<1>4. /\ k \in Nat /\ k - 1 \in Nat /\ k - 1 + 1 = k /\ k + 1 - 1 = k
      /\ \A j \in 1..(k - 1) : j \in 1..n /\ j + 1 \in 1..k /\ j + 1 \in 1..(n + 1)
      /\ \A j \in 1..(k - 1) : ls[j] = ms[j + 1]
  BY <1>1
<1>5. AfterFirst(k - 1, ls, Applied(m, v)) = AfterFirst(k, ms, v)
  BY <1>4, AfterHead DEF m
<1>6. CASE cur \/ m.kind = "cache"
  <2>1. w = Applied(m, v)
    BY <1>1, <1>6
  <2>2. Ready(ms, cur, k + 1)
    BY <1>4, <1>6 DEF Ready, m
  <2> QED
    BY <1>5, <2>1, <2>2 DEF ls
<1>7. CASE ~(cur \/ m.kind = "cache")
  <2>1. PICK j \in 1..(k - 1) : ls[j].kind = "cache"
    BY <1>1, <1>3, <1>7 DEF Ready
  <2>2. Ready(ms, cur, k + 1)
    BY <1>4, <2>1 DEF Ready
  <2>3. Objects \subseteq Touched(ls[j])
    <3>1. MessageOk(ls[j])
      BY <1>1, <1>2, <1>4
    <3>2. DOMAIN ls[j].mod = Objects
      BY <2>1, <3>1 DEF MessageOk
    <3> QED
      BY <3>2 DEF Touched
  <2>4. DOMAIN Applied(m, v) = Objects /\ DOMAIN w = Objects
    BY DEF Applied
  <2>5. AfterFirst(k - 1, ls, w) = AfterFirst(k - 1, ls, Applied(m, v))
    BY <1>4, <2>3, <2>4, AfterAllReplaced
  <2> QED
    BY <1>5, <2>2, <2>5 DEF ls
<1> QED
  BY <1>6, <1>7

LEMMA MessageRead ==
  ASSUME NEW ms, NEW v \in [Objects -> Nat], NEW w \in [Objects -> Nat],
         NEW cur \in BOOLEAN, NEW now \in BOOLEAN, NEW t,
         DownOk(ms, v, cur, t), ms # <<>>,
         now => cur \/ Head(ms).kind = "cache",
         cur \/ Head(ms).kind = "cache" => w = Applied(Head(ms), v)
  PROVE  DownOk(Tail(ms), w, now, t)
<1> DEFINE ls == Tail(ms)
           n == Len(ls)
<1>1. /\ n \in Nat /\ Len(ms) = n + 1 /\ \A k \in 1..n : ls[k] = ms[k + 1]
      /\ DOMAIN ls = 1..n /\ DOMAIN ms = 1..(n + 1) /\ ls \in Seq(Msgs)
  BY DEF DownOk
<1>2. ASSUME NEW k \in 1..(n + 1), Ready(ls, now, k)
      PROVE  /\ Ready(ms, cur, k + 1)
             /\ AfterFirst(k - 1, ls, w) = AfterFirst(k, ms, v)
  <2>1. k \in 1..Len(ms)
    BY <1>1
  <2> QED
    BY <1>2, <2>1, ReadAhead
<1> HIDE DEF ls, n
<1>3. \A k \in DOMAIN ls : MessageOk(ls[k])
  <2>1. \A k \in 1..n : k + 1 \in 1..(n + 1)
    BY <1>1
  <2> QED
    BY <1>1, <2>1 DEF DownOk
<1>4. ASSUME NEW k \in DOMAIN ls, Ready(ls, now, k)
      PROVE  Suits(ls[k], AfterFirst(k - 1, ls, w))
  <2>1. k \in 1..(n + 1) /\ k + 1 \in 1..(n + 1) /\ k + 1 - 1 = k /\ ls[k] = ms[k + 1]
    BY <1>1
  <2>2. Suits(ms[k + 1], AfterFirst(k + 1 - 1, ms, v))
    BY <1>1, <1>2, <1>4, <2>1 DEF DownOk
  <2> QED
    BY <1>2, <1>4, <2>1, <2>2
<1>5. ASSUME Ready(ls, now, Len(ls) + 1) PROVE AfterAll(ls, w) = t
  <2>1. n + 1 \in 1..(n + 1) /\ n + 1 - 1 = n /\ Ready(ls, now, n + 1)
    BY <1>1, <1>5 DEF n
  <2>2. Ready(ms, cur, Len(ms) + 1) /\ AfterFirst(n, ls, w) = AfterFirst(n + 1, ms, v)
    BY <1>1, <1>2, <2>1
  <2> QED
    BY <1>1, <2>2 DEF DownOk, AfterAll, n
<1> QED
  BY <1>1, <1>3, <1>4, <1>5 DEF DownOk, ls

-----------------------------------------------------------------------------
(* The invariant.                                                          *)

UpKinds == SessionKinds \cup Answered \cup {Unanswered}

TypeInv ==
  /\ items \in [Items -> Nat] /\ equips \in [Slots -> Seq(Nat)]
  /\ cache \in [Objects -> Nat] /\ truth \in [Objects -> Nat]
  /\ game \in [Objects -> Nat] /\ serverView \in [Objects -> Nat]
  /\ outgoing \in Seq(Msgs) /\ up \in Seq(UpKinds)
  /\ changes \in Nat /\ current \in BOOLEAN

\* The messages on the way to and from the coordinator are read one after the other and each
\* of the session's is answered by the next: what comes after one of them, in this circle, is
\* of the same step of the session or the next.  Once there is a cache all are of the last.
Step(kind) ==
  CASE kind \in {"greeting", "confirm"} -> 1
    [] kind = "matchmaking" -> 2
    [] kind = "cache" -> 3
    [] OTHER -> 0
Follows(x, y) == x # 0 /\ y # 0 => y \in {x, x + 1}

InOrder(u, d, cur) ==
  /\ \A k, l \in DOMAIN d : k < l => Follows(Step(d[k].kind), Step(d[l].kind))
  /\ \A k \in DOMAIN d, l \in DOMAIN u : Follows(Step(d[k].kind), Step(u[l]))
  /\ \A k, l \in DOMAIN u : k < l => Follows(Step(u[k]), Step(u[l]))
  /\ cur => /\ \A k \in DOMAIN d : Step(d[k].kind) \in {0, 3}
            /\ \A l \in DOMAIN u : Step(u[l]) \in {0, 3}

LinkInv ==
  /\ InOrder(up, down, current)
  /\ ~ connected => up = <<>> /\ down = <<>> /\ ~ current

DownInv == DownOk(down, Held, current, truth)

\* The entries of a slot with the contents c.
Entry(c) == IF c = Absent THEN <<>> ELSE <<c>>
EquipInv == current => \A s \in Slots : equips[s] = Entry(Held[s])

HInv == TypeInv /\ LinkInv /\ DownInv /\ EquipInv /\ GameInStep

LEMMA StepFacts ==
  /\ \A kind : Step(kind) \in 0..3
  /\ Step("greeting") = 1 /\ Step("confirm") = 1 /\ Step("matchmaking") = 2 /\ Step("cache") = 3
  /\ \A kind : kind \notin {"greeting", "confirm", "matchmaking", "cache"} => Step(kind) = 0
BY DEF Step

LEMMA NoneInOrder == InOrder(<<>>, <<>>, FALSE)
<1>1. DOMAIN <<>> = {}
  OBVIOUS
<1> QED
  BY <1>1 DEF InOrder

\* However many greet.
LEMMA GreetingsInOrder ==
  ASSUME NEW n \in Nat
  PROVE  InOrder([i \in 1..n |-> "greeting"], <<>>, FALSE)
<1>1. DOMAIN <<>> = {}
  OBVIOUS
<1>2. Follows(1, 1)
  BY DEF Follows
<1> QED
  BY <1>1, <1>2, StepFacts DEF InOrder

\* One more request: of no step of the session, or of one that follows all that are on
\* the way.
LEMMA RequestSent ==
  ASSUME NEW u \in Seq(UpKinds), NEW d \in Seq(Msgs), NEW cur, InOrder(u, d, cur),
         NEW r \in UpKinds,
         \A k \in DOMAIN d : Follows(Step(d[k].kind), Step(r)),
         \A l \in DOMAIN u : Follows(Step(u[l]), Step(r)),
         cur => Step(r) \in {0, 3}
  PROVE  InOrder(Append(u, r), d, cur)
<1> DEFINE n == Len(u)
           w == Append(u, r)
<1>1. /\ n \in Nat /\ DOMAIN u = 1..n /\ DOMAIN w = 1..(n + 1)
      /\ w[n + 1] = r /\ \A k \in 1..n : w[k] = u[k]
  OBVIOUS
<1> HIDE DEF n, w
<1>2. \A k \in 1..(n + 1) : k \in 1..n \/ k = n + 1
  BY <1>1
<1>3. \A k, l \in 1..(n + 1) : k < l => k \in 1..n
  BY <1>1
<1>4. \A k, l \in DOMAIN w : k < l => Follows(Step(w[k]), Step(w[l]))
  BY <1>1, <1>2, <1>3 DEF InOrder
<1>5. InOrder(w, d, cur)
  BY <1>1, <1>2, <1>4 DEF InOrder
<1> QED
  BY <1>5 DEF w

\* One more message of the coordinator, with u the requests behind it.
LEMMA AnswerSent ==
  ASSUME NEW u \in Seq(UpKinds), NEW d \in Seq(Msgs), NEW cur, InOrder(u, d, cur),
         NEW m \in Msgs,
         \A k \in DOMAIN d : Follows(Step(d[k].kind), Step(m.kind)),
         \A l \in DOMAIN u : Follows(Step(m.kind), Step(u[l])),
         cur => Step(m.kind) \in {0, 3}
  PROVE  InOrder(u, Append(d, m), cur)
<1> DEFINE n == Len(d)
           w == Append(d, m)
<1>1. /\ n \in Nat /\ DOMAIN d = 1..n /\ DOMAIN w = 1..(n + 1)
      /\ w[n + 1] = m /\ \A k \in 1..n : w[k] = d[k]
  OBVIOUS
<1> HIDE DEF n, w
<1>2. \A k \in 1..(n + 1) : k \in 1..n \/ k = n + 1
  BY <1>1
<1>3. \A k, l \in 1..(n + 1) : k < l => k \in 1..n
  BY <1>1
<1>4. \A k, l \in DOMAIN w : k < l => Follows(Step(w[k].kind), Step(w[l].kind))
  BY <1>1, <1>2, <1>3 DEF InOrder
<1>5. InOrder(u, w, cur)
  BY <1>1, <1>2, <1>4 DEF InOrder
<1> QED
  BY <1>5 DEF w

\* A request or a message that is not the session's.
LEMMA OtherSent ==
  ASSUME NEW u \in Seq(UpKinds), NEW d \in Seq(Msgs), NEW cur, InOrder(u, d, cur)
  PROVE  /\ \A r \in UpKinds : Step(r) = 0 => InOrder(Append(u, r), d, cur)
         /\ \A m \in Msgs : Step(m.kind) = 0 => InOrder(u, Append(d, m), cur)
<1>1. \A x : Follows(x, 0) /\ Follows(0, x)
  BY DEF Follows
<1> QED
  BY <1>1, RequestSent, AnswerSent

\* The coordinator reads the next request, and answers it by a message of the same step.
LEMMA RequestRead ==
  ASSUME NEW u \in Seq(UpKinds), u # <<>>, NEW d \in Seq(Msgs), NEW cur, InOrder(u, d, cur)
  PROVE  /\ InOrder(Tail(u), d, cur)
         /\ \A m \in Msgs : Step(m.kind) \in {0, Step(Head(u))}
              => InOrder(Tail(u), Append(d, m), cur)
<1> DEFINE w == Tail(u)
           n == Len(w)
           x == Step(Head(u))
<1>1. /\ n \in Nat /\ DOMAIN w = 1..n /\ DOMAIN u = 1..(n + 1) /\ Head(u) = u[1]
      /\ w \in Seq(UpKinds)
      /\ \A k \in 1..n : w[k] = u[k + 1] /\ k + 1 \in 1..(n + 1) /\ 1 < k + 1
      /\ 1 \in 1..(n + 1)
  OBVIOUS
<1>2. \A k, l \in 1..n : k < l => k + 1 < l + 1
  BY <1>1
<1>3. x = Step(u[1])
  BY <1>1
<1> HIDE DEF n, w, x
<1>4. InOrder(w, d, cur)
  BY <1>1, <1>2 DEF InOrder
<1>5. /\ \A k \in DOMAIN d : Follows(Step(d[k].kind), x)
      /\ \A l \in DOMAIN w : Follows(x, Step(w[l]))
      /\ cur => x \in {0, 3}
  BY <1>1, <1>3 DEF InOrder
<1>6. \A m \in Msgs : Step(m.kind) = x => InOrder(w, Append(d, m), cur)
  BY <1>1, <1>4, <1>5, AnswerSent
<1>7. \A m \in Msgs : Step(m.kind) = 0 => InOrder(w, Append(d, m), cur)
  BY <1>1, <1>4, OtherSent
<1> QED
  BY <1>4, <1>6, <1>7 DEF w, x

\* The client reads the next message, and follows one of the session by the next request.
LEMMA AnswerRead ==
  ASSUME NEW u \in Seq(UpKinds), NEW d \in Seq(Msgs), d # <<>>, NEW cur, InOrder(u, d, cur)
  PROVE  /\ InOrder(u, Tail(d), cur)
         /\ Step(Head(d).kind) \in {1, 2} =>
              /\ ~ cur
              /\ \A r \in UpKinds : Step(r) = Step(Head(d).kind) + 1
                   => InOrder(Append(u, r), Tail(d), cur)
         /\ Step(Head(d).kind) = 3 => InOrder(u, Tail(d), TRUE)
<1> DEFINE w == Tail(d)
           n == Len(w)
           x == Step(Head(d).kind)
<1>1. /\ n \in Nat /\ DOMAIN w = 1..n /\ DOMAIN d = 1..(n + 1) /\ Head(d) = d[1]
      /\ w \in Seq(Msgs)
      /\ \A k \in 1..n : w[k] = d[k + 1] /\ k + 1 \in 1..(n + 1) /\ 1 < k + 1
      /\ 1 \in 1..(n + 1)
  OBVIOUS
<1>2. \A k, l \in 1..n : k < l => k + 1 < l + 1
  BY <1>1
<1>3. x = Step(d[1].kind)
  BY <1>1
<1> HIDE DEF n, w, x
<1>4. InOrder(u, w, cur)
  BY <1>1, <1>2 DEF InOrder
<1>5. /\ \A k \in DOMAIN w : Follows(x, Step(w[k].kind))
      /\ \A l \in DOMAIN u : Follows(x, Step(u[l]))
      /\ cur => x \in {0, 3}
  BY <1>1, <1>3 DEF InOrder
<1>6. ASSUME x \in {1, 2} PROVE ~ cur
  BY <1>5, <1>6
<1>7. ASSUME x \in {1, 2}, NEW r \in UpKinds, Step(r) = x + 1 PROVE InOrder(Append(u, r), w, cur)
  <2>1. \A y : Follows(x, y) => Follows(y, x + 1)
    BY <1>7 DEF Follows
  <2> QED
    BY <1>1, <1>4, <1>5, <1>6, <1>7, <2>1, RequestSent
<1>8. ASSUME x = 3 PROVE InOrder(u, w, TRUE)
  <2>1. \A kind : Follows(x, Step(kind)) => Step(kind) \in {0, 3}
    BY <1>8, StepFacts DEF Follows
  <2> QED
    BY <1>4, <1>5, <2>1 DEF InOrder
<1> QED
  BY <1>4, <1>6, <1>7, <1>8 DEF w, x

-----------------------------------------------------------------------------
(* The objects held, and the steps that leave most of it alone.            *)

LEMMA HeldOf ==
  ASSUME NEW i \in [Items -> Nat], NEW e \in [Slots -> Seq(Nat)]
  PROVE  [o \in Objects |-> IF o \in Items THEN i[o]
                            ELSE IF e[o] = <<>> THEN Absent ELSE Head(e[o])] \in [Objects -> Nat]
<1> SUFFICES ASSUME NEW o \in Objects
             PROVE  (IF o \in Items THEN i[o]
                     ELSE IF e[o] = <<>> THEN Absent ELSE Head(e[o])) \in Nat
  OBVIOUS
<1>1. CASE o \notin Items
  <2>1. e[o] \in Seq(Nat)
    BY <1>1 DEF Objects
  <2>2. e[o] # <<>> => Head(e[o]) \in Nat
    BY <2>1
  <2> QED
    BY <1>1, <2>2 DEF Absent
<1> QED
  BY <1>1

LEMMA HeldType == TypeInv => Held \in [Objects -> Nat]
BY HeldOf DEF TypeInv, Held

LEMMA HeldSame == UNCHANGED <<items, equips>> => Held' = Held
BY DEF Held

LEMMA PlainFacts ==
  ASSUME NEW kind \in OutKinds
  PROVE  /\ Plain(kind) \in Msgs /\ Touched(Plain(kind)) = {} /\ Plain(kind).kind = kind
         /\ Plain(kind).add = None
BY DeltaFacts DEF Plain, Message, Msgs, Touched

LEMMA SnapshotFacts ==
  ASSUME NEW kind \in OutKinds, NEW v \in [Objects -> Nat]
  PROVE  Snapshot(kind, v) \in Msgs
BY DeltaFacts DEF Snapshot, Message, Msgs

\* What the view of the reader becomes by one more message, or two.
LEMMA OutSent ==
  ASSUME NEW ms \in Seq(Msgs), NEW v
  PROVE  /\ \A m \in Msgs :
              /\ ms \o <<m>> \in Seq(Msgs)
              /\ AfterAll(ms \o <<m>>, v) = Applied(m, AfterAll(ms, v))
         /\ \A m, l \in Msgs :
              /\ ms \o <<m, l>> \in Seq(Msgs)
              /\ AfterAll(ms \o <<m, l>>, v) = Applied(l, Applied(m, AfterAll(ms, v)))
<1>1. ASSUME NEW m \in Msgs
      PROVE  /\ ms \o <<m>> \in Seq(Msgs)
             /\ AfterAll(ms \o <<m>>, v) = Applied(m, AfterAll(ms, v))
  <2>1. ms \o <<m>> = Append(ms, m) /\ Append(ms, m) \in Seq(Msgs)
    OBVIOUS
  <2> QED
    BY <2>1, AfterAppended
<1>2. ASSUME NEW m \in Msgs, NEW l \in Msgs
      PROVE  /\ ms \o <<m, l>> \in Seq(Msgs)
             /\ AfterAll(ms \o <<m, l>>, v) = Applied(l, Applied(m, AfterAll(ms, v)))
  <2> DEFINE ls == Append(ms, m)
  <2>1. ls \in Seq(Msgs) /\ ms \o <<m, l>> = Append(ls, l)
    OBVIOUS
  <2>2. AfterAll(ls, v) = Applied(m, AfterAll(ms, v))
    BY AfterAppended
  <2> HIDE DEF ls
  <2>3. AfterAll(Append(ls, l), v) = Applied(l, AfterAll(ls, v)) /\ Append(ls, l) \in Seq(Msgs)
    BY <2>1, AfterAppended
  <2> QED
    BY <2>1, <2>2, <2>3
<1> QED
  BY <1>1, <1>2

LEMMA AfterAllType ==
  ASSUME NEW ms \in Seq(Msgs), NEW v \in [Objects -> Nat]
  PROVE  /\ AfterAll(ms, v) = [o \in DOMAIN AfterAll(ms, v) |-> AfterAll(ms, v)[o]]
         /\ DOMAIN AfterAll(ms, v) = Objects
<1>1. DOMAIN v = Objects
  OBVIOUS
<1> QED
  BY <1>1, AfterFirstDomain DEF AfterAll

\* A message about no object leaves the game in step.
LEMMA SilentSent ==
  ASSUME NEW ms \in Seq(Msgs), NEW v \in [Objects -> Nat], NEW m \in Msgs, Touched(m) = {}
  PROVE  AfterAll(ms \o <<m>>, v) = AfterAll(ms, v)
BY OutSent, AfterAllType, AppliedSilent

LEMMA KeptInStep ==
  ASSUME HInv, UNCHANGED <<items, equips, hasMatchmaking, outgoing, game>>, current' => current
  PROVE  EquipInv' /\ GameInStep' /\ Held' = Held
<1>1. Held' = Held
  BY HeldSame
<1>2. EquipInv'
  BY <1>1 DEF HInv, EquipInv
<1>3. AfterAll(outgoing, game)' = AfterAll(outgoing, game)
  BY DEF AfterAll, AfterFirst
<1>4. GameInStep'
  BY <1>1, <1>3 DEF HInv, GameInStep
<1> QED
  BY <1>1, <1>2, <1>4

\* A new connection, or the end of one: nothing is on the way.
LEMMA ResetStep ==
  ASSUME HInv, ~ connected', up' = <<>>, down' = <<>>, ~ current', current' \in BOOLEAN,
         UNCHANGED <<hasMatchmaking, cache, items, equips, outgoing, truth, game, serverView,
                     changes>>
  PROVE  HInv'
<1>1. TypeInv'
  BY DEF HInv, TypeInv
<1>2. LinkInv'
  <2>1. InOrder(up', down', current')
    <3>1. current' = FALSE
      OBVIOUS
    <3> QED
      BY <3>1, NoneInOrder
  <2> QED
    BY <2>1 DEF LinkInv
<1>3. DownInv'
  <2>1. current' = FALSE
    OBVIOUS
  <2>2. DownOk(down', Held', current', truth')
    BY <2>1, NothingDown
  <2> QED
    BY <2>2 DEF DownInv
<1> QED
  BY <1>1, <1>2, <1>3, KeptInStep DEF HInv

\* The requests the game makes.
Requests == Answered \cup {Unanswered}

LEMMA ForwardStep ==
  ASSUME HInv, NEW kind, NEW messages, Forward(kind, messages),
         messages \in {<<r>> : r \in Requests} \cup {<<Unanswered, Unanswered>>}
  PROVE  HInv'
<1>1. /\ UNCHANGED <<hasMatchmaking, cache, items, equips, outgoing, truth, game, serverView,
                     changes, connected, down, current>>
      /\ up' = up \/ (connected /\ up' = up \o messages)
  BY DEF Forward, members
<1>2. up \in Seq(UpKinds) /\ down \in Seq(Msgs) /\ InOrder(up, down, current)
  BY DEF HInv, TypeInv, LinkInv, DownInv, DownOk
<1>3. \A r \in Requests : r \in UpKinds /\ Step(r) = 0
  BY StepFacts DEF Requests, UpKinds, Answered, Unanswered
<1>4. ASSUME NEW u \in Seq(UpKinds), InOrder(u, down, current), NEW r \in Requests
      PROVE  Append(u, r) \in Seq(UpKinds) /\ InOrder(Append(u, r), down, current)
  BY <1>2, <1>3, <1>4, OtherSent
<1>5. up \o messages \in Seq(UpKinds) /\ InOrder(up \o messages, down, current)
  <2>1. ASSUME NEW r \in Requests, messages = <<r>>
        PROVE  up \o messages \in Seq(UpKinds) /\ InOrder(up \o messages, down, current)
    <3>1. up \o messages = Append(up, r)
      BY <1>2, <2>1
    <3> QED
      BY <1>2, <1>4, <3>1
  <2>2. ASSUME messages = <<Unanswered, Unanswered>>
        PROVE  up \o messages \in Seq(UpKinds) /\ InOrder(up \o messages, down, current)
    <3> DEFINE u == Append(up, Unanswered)
    <3>1. Unanswered \in Requests
      BY DEF Requests
    <3>2. up \o messages = Append(u, Unanswered)
      BY <1>2, <2>2
    <3>3. u \in Seq(UpKinds) /\ InOrder(u, down, current)
      BY <1>2, <1>4, <3>1
    <3> HIDE DEF u
    <3> QED
      BY <1>4, <3>1, <3>2, <3>3
  <2> QED
    BY <2>1, <2>2
<1>6. TypeInv'
  BY <1>1, <1>5 DEF HInv, TypeInv
<1>7. LinkInv'
  BY <1>1, <1>5 DEF HInv, LinkInv
<1>8. EquipInv' /\ GameInStep' /\ Held' = Held
  BY <1>1, KeptInStep
<1>9. DownInv'
  BY <1>1, <1>8 DEF HInv, DownInv
<1> QED
  BY <1>6, <1>7, <1>8, <1>9 DEF HInv

\* The answers ClientGC gives itself are about no object.
LEMMA AnswerStep ==
  ASSUME HInv, NEW kind, NEW message, AnswerLocally(kind, message),
         message \in {<<Plain("priceSheet")>>, <<Plain("joinServer")>>, <<>>}
  PROVE  HInv'
<1>1. /\ UNCHANGED <<hasMatchmaking, cache, items, equips, truth, game, serverView,
                     changes, connected, up, down, current>>
      /\ outgoing' = outgoing \o message
  BY DEF AnswerLocally, members, link
<1>2. outgoing \in Seq(Msgs) /\ game \in [Objects -> Nat]
  BY DEF HInv, TypeInv
<1>3. outgoing' \in Seq(Msgs) /\ AfterAll(outgoing', game) = AfterAll(outgoing, game)
  <2>1. ASSUME NEW k \in OutKinds, message = <<Plain(k)>>
        PROVE  outgoing' \in Seq(Msgs) /\ AfterAll(outgoing', game) = AfterAll(outgoing, game)
    BY <1>1, <1>2, <2>1, PlainFacts, OutSent, SilentSent
  <2>2. CASE message = <<>>
    <3>1. outgoing' = outgoing
      BY <1>1, <1>2, <2>2
    <3> QED
      BY <1>2, <3>1
  <2> QED
    BY <2>1, <2>2 DEF OutKinds
<1>4. Held' = Held
  BY <1>1, HeldSame
<1>5. TypeInv' /\ LinkInv'
  BY <1>1, <1>3 DEF HInv, TypeInv, LinkInv
<1>6. DownInv' /\ EquipInv'
  BY <1>1, <1>4 DEF HInv, DownInv, EquipInv
<1>7. AfterAll(outgoing, game)' = AfterAll(outgoing', game)
  BY <1>1 DEF AfterAll, AfterFirst
<1>8. GameInStep'
  BY <1>1, <1>3, <1>4, <1>7 DEF HInv, GameInStep
<1> QED
  BY <1>5, <1>6, <1>8 DEF HInv

\* The game's view is brought up by the message it takes.
LEMMA RetrieveStep == HInv /\ RetrieveMessage => HInv'
<1> SUFFICES ASSUME HInv, RetrieveMessage PROVE HInv'
  OBVIOUS
<1>1. /\ UNCHANGED <<hasMatchmaking, cache, items, equips, truth, serverView,
                     changes, connected, up, down, current>>
      /\ outgoing # <<>>
      /\ \/ outgoing' = outgoing /\ game' = game
         \/ outgoing' = Tail(outgoing) /\ game' = Applied(Head(outgoing), game)
  BY DEF RetrieveMessage, Popped, members, link, counters
<1>2. outgoing \in Seq(Msgs) /\ game \in [Objects -> Nat]
  BY DEF HInv, TypeInv
<1>3. /\ outgoing' \in Seq(Msgs) /\ game' \in [Objects -> Nat]
      /\ AfterAll(outgoing', game') = AfterAll(outgoing, game)
  <2>1. CASE outgoing' = outgoing /\ game' = game
    BY <1>2, <2>1
  <2>2. CASE outgoing' = Tail(outgoing) /\ game' = Applied(Head(outgoing), game)
    <3>1. Head(outgoing) \in Msgs /\ Tail(outgoing) \in Seq(Msgs)
      BY <1>1, <1>2
    <3>2. game' \in [Objects -> Nat]
      BY <1>2, <2>2, <3>1, AppliedType
    <3>3. AfterAll(Tail(outgoing), Applied(Head(outgoing), game)) = AfterAll(outgoing, game)
      BY <1>1, <1>2, AfterTail
    <3> QED
      BY <2>2, <3>1, <3>2, <3>3
  <2> QED
    BY <1>1, <2>1, <2>2
<1>4. Held' = Held
  BY <1>1, HeldSame
<1>5. TypeInv' /\ LinkInv'
  BY <1>1, <1>3 DEF HInv, TypeInv, LinkInv
<1>6. DownInv' /\ EquipInv'
  BY <1>1, <1>4 DEF HInv, DownInv, EquipInv
<1>7. AfterAll(outgoing, game)' = AfterAll(outgoing', game')
  BY DEF AfterAll, AfterFirst
<1>8. GameInStep'
  BY <1>1, <1>3, <1>4, <1>7 DEF HInv, GameInStep
<1> QED
  BY <1>5, <1>6, <1>8 DEF HInv

\* A game server comes or goes: nothing else changes.
LEMMA ServerStep == HInv /\ (SendSOCacheToGameServer \/ ClearAuthTicket) => HInv'
<1> SUFFICES ASSUME HInv, SendSOCacheToGameServer \/ ClearAuthTicket PROVE HInv'
  OBVIOUS
<1>1. /\ UNCHANGED <<hasMatchmaking, cache, items, equips, truth, game, outgoing,
                     changes, connected, up, down, current>>
      /\ serverView' \in {cache, EmptyView}
  BY DEF SendSOCacheToGameServer, ClearAuthTicket, members, link, counters
<1>2. EmptyView \in [Objects -> Nat]
  BY DEF EmptyView, Absent
<1>3. TypeInv' /\ LinkInv'
  BY <1>1, <1>2 DEF HInv, TypeInv, LinkInv
<1>4. EquipInv' /\ GameInStep' /\ Held' = Held
  BY <1>1, KeptInStep
<1>5. DownInv'
  BY <1>1, <1>4 DEF HInv, DownInv
<1> QED
  BY <1>3, <1>4, <1>5 DEF HInv

LEMMA LinkUpStep == HInv /\ LinkUp => HInv'
<1> SUFFICES ASSUME HInv, LinkUp PROVE HInv'
  OBVIOUS
<1>1. /\ UNCHANGED <<hasMatchmaking, cache, items, equips, truth, game, serverView, outgoing,
                     changes, down, current>>
      /\ connected' = TRUE /\ ~ connected
  BY DEF LinkUp, members, counters
<1>2. down = <<>> /\ current = FALSE
  BY <1>1 DEF HInv, LinkInv, TypeInv
<1>3. up' \in Seq(UpKinds) /\ InOrder(up', <<>>, FALSE)
  <2>1. PICK n \in 1..MaxHellos : up' = [i \in 1..n |-> "greeting"]
    BY DEF LinkUp
  <2>2. n \in Nat
    BY BoundsAssumption
  <2>3. "greeting" \in UpKinds
    BY DEF UpKinds, SessionKinds
  <2>4. [i \in 1..n |-> "greeting"] \in Seq(UpKinds)
    BY <2>2, <2>3
  <2> QED
    BY <2>1, <2>2, <2>4, GreetingsInOrder
<1>4. TypeInv'
  BY <1>1, <1>3 DEF HInv, TypeInv
<1>5. LinkInv'
  BY <1>1, <1>2, <1>3 DEF LinkInv
<1>6. EquipInv' /\ GameInStep' /\ Held' = Held
  BY <1>1, KeptInStep
<1>7. DownInv'
  BY <1>1, <1>6 DEF HInv, DownInv
<1> QED
  BY <1>4, <1>5, <1>6, <1>7 DEF HInv

\* The coordinator reads a request and answers with the message m, which tells of what it
\* changes; a message of the session answers one of the session.
LEMMA ReplyStep ==
  ASSUME HInv, NEW request, NEW m, Reply(request, <<m>>), MessageOk(m), Suits(m, truth),
         m.kind = "cache" => m = Snapshot("cache", truth),
         Step(m.kind) \in {0, Step(request)},
         truth' = Applied(m, truth), changes' \in Nat
  PROVE  HInv'
<1>1. /\ UNCHANGED <<hasMatchmaking, cache, items, equips, game, serverView, outgoing,
                     connected, current>>
      /\ up # <<>> /\ Head(up) = request /\ up' = Tail(up) /\ down' = down \o <<m>> /\ connected
  BY DEF Reply, members
<1>2. /\ up \in Seq(UpKinds) /\ down \in Seq(Msgs) /\ InOrder(up, down, current)
      /\ truth \in [Objects -> Nat] /\ Held \in [Objects -> Nat] /\ m \in Msgs
  BY HeldType DEF HInv, TypeInv, LinkInv, DownInv, DownOk, MessageOk
<1>3. down' = Append(down, m)
  BY <1>1, <1>2
<1>4. TypeInv'
  <2>1. truth' \in [Objects -> Nat]
    BY <1>2, AppliedType
  <2>2. up' \in Seq(UpKinds)
    BY <1>1, <1>2
  <2> QED
    BY <1>1, <2>1, <2>2 DEF HInv, TypeInv
<1>5. LinkInv'
  <2>1. Tail(up) \in Seq(UpKinds) /\ InOrder(Tail(up), down, current)
    BY <1>1, <1>2, RequestRead
  <2>2. InOrder(Tail(up), Append(down, m), current)
    BY <1>1, <1>2, RequestRead
  <2>3. InOrder(up', down', current')
    BY <1>1, <1>3, <2>2
  <2> QED
    BY <1>1, <2>3 DEF LinkInv
<1>6. EquipInv' /\ GameInStep' /\ Held' = Held
  BY <1>1, KeptInStep
<1>7. DownInv'
  <2>1. DownOk(Append(down, m), Held, current, Applied(m, truth))
    BY <1>2, MessageSent DEF HInv, DownInv
  <2>2. DownOk(down', Held', current', truth')
    BY <1>1, <1>3, <1>6, <2>1
  <2> QED
    BY <2>2 DEF DownInv
<1> QED
  BY <1>4, <1>5, <1>6, <1>7 DEF HInv

\* A request without an answer.
LEMMA ReplyNothing ==
  ASSUME HInv, NEW request, Reply(request, <<>>), UNCHANGED <<truth, changes>>
  PROVE  HInv'
<1>1. /\ UNCHANGED <<hasMatchmaking, cache, items, equips, game, serverView, outgoing,
                     connected, current>>
      /\ up # <<>> /\ up' = Tail(up) /\ down' = down \o <<>> /\ connected
  BY DEF Reply, members
<1>2. up \in Seq(UpKinds) /\ down \in Seq(Msgs) /\ InOrder(up, down, current)
  BY DEF HInv, TypeInv, LinkInv, DownInv, DownOk
<1>3. down' = down /\ up' \in Seq(UpKinds)
  BY <1>1, <1>2
<1>4. TypeInv'
  BY <1>1, <1>3 DEF HInv, TypeInv
<1>5. LinkInv'
  <2>1. InOrder(Tail(up), down, current)
    BY <1>1, <1>2, RequestRead
  <2>2. InOrder(up', down', current')
    BY <1>1, <1>3, <2>1
  <2> QED
    BY <1>1, <2>2 DEF LinkInv
<1>6. EquipInv' /\ GameInStep' /\ Held' = Held
  BY <1>1, KeptInStep
<1>7. DownInv'
  BY <1>1, <1>3, <1>6 DEF HInv, DownInv
<1> QED
  BY <1>4, <1>5, <1>6, <1>7 DEF HInv

LEMMA PlainOk ==
  ASSUME NEW kind \in Silent \cup {"unlock", "delete"}, NEW t \in [Objects -> Nat]
  PROVE  /\ MessageOk(Plain(kind)) /\ Suits(Plain(kind), t) /\ Plain(kind).kind = kind
         /\ kind # "cache" /\ Applied(Plain(kind), t) = t
<1>1. kind \in OutKinds /\ kind \in DownKinds /\ kind # "cache"
  BY DEF OutKinds, DownKinds, Silent, Relayed
<1>2. /\ Plain(kind) \in Msgs /\ Touched(Plain(kind)) = {} /\ Plain(kind).kind = kind
      /\ Plain(kind).add = None
  BY <1>1, PlainFacts
<1>3. DOMAIN Plain(kind).mod = {}
  BY <1>2 DEF Touched
<1>4. Applied(Plain(kind), t) = t
  BY <1>2, AppliedSilent
<1> QED
  BY <1>1, <1>2, <1>3, <1>4, DeltaFacts DEF MessageOk, Suits

LEMMA AnswerSessionStep == HInv /\ AnswerSession => HInv'
<1> SUFFICES ASSUME HInv, AnswerSession PROVE HInv'
  OBVIOUS
<1>1. truth \in [Objects -> Nat] /\ changes \in Nat
  BY DEF HInv, TypeInv
<1>2. ASSUME NEW request, NEW kind \in {"confirm", "matchmaking"}, Step(request) = Step(kind),
             Reply(request, <<Plain(kind)>>), UNCHANGED <<truth, changes>>
      PROVE  HInv'
  <2> DEFINE m == Plain(kind)
  <2>1. kind \in Silent \cup {"unlock", "delete"}
    BY DEF Silent
  <2>2. /\ MessageOk(m) /\ Suits(m, truth) /\ m.kind # "cache" /\ Applied(m, truth) = truth
        /\ m.kind = kind
    BY <1>1, <2>1, PlainOk
  <2> HIDE DEF m
  <2>3. truth' = Applied(m, truth) /\ changes' \in Nat
    BY <1>1, <1>2, <2>2
  <2>4. Reply(request, <<m>>)
    BY <1>2 DEF m
  <2> QED
    BY <1>2, <2>2, <2>3, <2>4, ReplyStep
<1>3. ASSUME Reply("cache", <<Snapshot("cache", truth)>>), UNCHANGED <<truth, changes>>
      PROVE  HInv'
  <2> DEFINE m == Snapshot("cache", truth)
  <2>1. m.kind = "cache" /\ m.mod = truth /\ m.add = None /\ m.rem = {}
    BY DEF Snapshot, Message
  <2>2. m \in Msgs
    BY <1>1, SnapshotFacts DEF OutKinds, DownKinds
  <2>3. MessageOk(m) /\ Suits(m, truth)
    BY <1>1, <2>1, <2>2, DeltaFacts DEF MessageOk, Suits, DownKinds, Silent, Relayed
  <2>4. Applied(m, truth) = truth
    BY <1>1, AppliedSnapshot
  <2> HIDE DEF m
  <2>5. truth' = Applied(m, truth) /\ changes' \in Nat
    BY <1>1, <1>3, <2>4
  <2>6. Reply("cache", <<m>>) /\ m = Snapshot("cache", truth)
    BY <1>3 DEF m
  <2> QED
    BY <2>1, <2>3, <2>5, <2>6, ReplyStep
<1> QED
  BY <1>2, <1>3, StepFacts DEF AnswerSession

LEMMA AnswerRequestStep == HInv /\ AnswerRequest => HInv'
<1> SUFFICES ASSUME HInv, AnswerRequest PROVE HInv'
  OBVIOUS
<1>1. truth \in [Objects -> Nat] /\ changes \in Nat
  BY DEF HInv, TypeInv
<1>2. ASSUME NEW request, NEW kind \in Relayed \cup {"craft", "unlock", "delete"},
             Reply(request, <<Plain(kind)>>), UNCHANGED <<truth, changes>>
      PROVE  HInv'
  <2> DEFINE m == Plain(kind)
  <2>1. kind \in Silent \cup {"unlock", "delete"} /\ Step(kind) = 0
    BY StepFacts DEF Silent, Relayed
  <2>2. /\ MessageOk(m) /\ Suits(m, truth) /\ m.kind # "cache" /\ Applied(m, truth) = truth
        /\ m.kind = kind
    BY <1>1, <2>1, PlainOk
  <2> HIDE DEF m
  <2>3. truth' = Applied(m, truth) /\ changes' \in Nat
    BY <1>1, <1>2, <2>2
  <2>4. Reply(request, <<m>>)
    BY <1>2 DEF m
  <2> QED
    BY <2>1, <2>2, <2>3, <2>4, ReplyStep
<1>3. ASSUME NEW i \in Items, Reply("delete", <<Message("delete", None, None, {i})>>),
             Change(Message("delete", None, None, {i}))
      PROVE  HInv'
  <2> DEFINE m == Message("delete", None, None, {i})
  <2>1. m.kind = "delete" /\ m.mod = None /\ m.add = None /\ m.rem = {i}
    BY DEF Message
  <2>2. m \in Msgs
    BY DeltaFacts DEF Message, Msgs, OutKinds, DownKinds, Objects
  <2>3. MessageOk(m) /\ Suits(m, truth)
    BY <2>1, <2>2, DeltaFacts DEF MessageOk, Suits, DownKinds, Silent, Relayed, Touched
  <2> HIDE DEF m
  <2>4. truth' = Applied(m, truth) /\ changes' \in Nat
    BY <1>1, <1>3 DEF Change, m
  <2>5. Reply("delete", <<m>>)
    BY <1>3 DEF m
  <2>6. Step(m.kind) = 0 /\ m.kind # "cache"
    BY <2>1, StepFacts
  <2> QED
    BY <2>3, <2>4, <2>5, <2>6, ReplyStep
<1>4. ASSUME NEW i \in Items, Reply("unlock", <<Single("unlock", i, Fresh)>>),
             Change(Single("unlock", i, Fresh))
      PROVE  HInv'
  <2> DEFINE m == Single("unlock", i, Fresh)
  <2>1. /\ m.kind = "unlock" /\ m.mod = [x \in {i} |-> Fresh] /\ m.add = None /\ m.rem = {}
    BY DEF Single, Message
  <2>2. Fresh \in Nat /\ Fresh # Absent
    BY <1>1 DEF Fresh, Absent
  <2>3. m.mod \in Deltas
    <3>1. {i} \in SUBSET Objects /\ m.mod \in [{i} -> Nat]
      BY <2>1, <2>2 DEF Objects
    <3> QED
      BY <3>1, DeltaFacts
  <2>4. m \in Msgs
    BY <2>1, <2>3, DeltaFacts DEF Single, Message, Msgs, OutKinds, DownKinds
  <2>5. MessageOk(m) /\ Suits(m, truth)
    BY <2>1, <2>2, <2>4, DeltaFacts DEF MessageOk, Suits, DownKinds, Silent, Relayed, Touched
  <2> HIDE DEF m
  <2>6. truth' = Applied(m, truth) /\ changes' \in Nat
    BY <1>1, <1>4 DEF Change, m
  <2>7. Reply("unlock", <<m>>)
    BY <1>4 DEF m
  <2>8. Step(m.kind) = 0 /\ m.kind # "cache"
    BY <2>1, StepFacts
  <2> QED
    BY <2>5, <2>6, <2>7, <2>8, ReplyStep
<1>5. ASSUME up # <<>>, Head(up) \notin Relayed \cup {"greeting", "matchmaking", "cache", "craft"},
             Reply(Head(up), IF Head(up) \in Answered THEN <<Plain(Head(up))>> ELSE <<>>),
             UNCHANGED <<truth, changes>>
      PROVE  HInv'
  <2>1. CASE Head(up) \in Answered
    <3>1. Head(up) \in Relayed \cup {"craft", "unlock", "delete"}
      BY <1>5, <2>1 DEF Answered, Relayed
    <3>2. Reply(Head(up), <<Plain(Head(up))>>)
      BY <1>5, <2>1
    <3> QED
      BY <1>2, <1>5, <3>1, <3>2
  <2>2. CASE Head(up) \notin Answered
    <3>1. Reply(Head(up), <<>>)
      BY <1>5, <2>2
    <3> QED
      BY <1>5, <3>1, ReplyNothing
  <2> QED
    BY <2>1, <2>2
<1> QED
  BY <1>2, <1>3, <1>4, <1>5 DEF AnswerRequest

\* The coordinator changes the objects on their own account.
LEMMA PushStep == HInv /\ PushChange => HInv'
<1> SUFFICES ASSUME HInv, PushChange PROVE HInv'
  OBVIOUS
<1>1. PICK mod, add, rem \in SUBSET Objects :
        LET m == Message(IF Cardinality(mod) = 1 /\ add = {} /\ rem = {}
                           THEN "update" ELSE "updateMultiple",
                         [o \in mod |-> Fresh], [o \in add |-> Fresh], rem)
        IN  /\ mod \cup add \cup rem # {}
            /\ mod \cup rem \subseteq Present
            /\ add \cap Present = {}
            /\ mod \cap rem = {}
            /\ Change(m)
            /\ down' = IF connected THEN Append(down, m) ELSE down
            /\ UNCHANGED <<members, connected, up, current, outgoing, server, game, serverView,
                           history, hellos, losses, requests, servers>>
  BY DEF PushChange
<1> DEFINE kind == IF Cardinality(mod) = 1 /\ add = {} /\ rem = {}
                     THEN "update" ELSE "updateMultiple"
           m == Message(kind, [o \in mod |-> Fresh], [o \in add |-> Fresh], rem)
<1>2. /\ truth \in [Objects -> Nat] /\ changes \in Nat /\ Held \in [Objects -> Nat]
      /\ up \in Seq(UpKinds) /\ down \in Seq(Msgs) /\ InOrder(up, down, current)
      /\ current \in BOOLEAN
  BY HeldType DEF HInv, TypeInv, LinkInv, DownInv, DownOk
<1>3. kind \in {"update", "updateMultiple"}
  OBVIOUS
<1> HIDE DEF kind
<1>4. /\ m.kind = kind /\ m.mod = [o \in mod |-> Fresh] /\ m.add = [o \in add |-> Fresh]
      /\ m.rem = rem
  BY DEF Message
<1>5. Fresh \in Nat /\ Fresh # Absent
  BY <1>2 DEF Fresh, Absent
<1>6. m.mod \in Deltas /\ m.add \in Deltas
  <2>1. m.mod \in [mod -> Nat] /\ m.add \in [add -> Nat]
    BY <1>4, <1>5
  <2> QED
    BY <2>1, DeltaFacts
<1>7. m \in Msgs
  BY <1>3, <1>4, <1>6 DEF Message, Msgs, OutKinds, DownKinds
<1>8. MessageOk(m)
  BY <1>1, <1>3, <1>4, <1>5, <1>7 DEF MessageOk, DownKinds, Silent, Relayed
<1>9. Suits(m, truth)
  BY <1>1, <1>3, <1>4 DEF Suits, Present
<1>10. /\ truth' = Applied(m, truth) /\ changes' \in Nat
       /\ down' = IF connected THEN Append(down, m) ELSE down
       /\ UNCHANGED <<hasMatchmaking, cache, items, equips, game, serverView, outgoing, up,
                      connected, current>>
  BY <1>1, <1>2 DEF Change, members, m, kind
<1>11. Step(m.kind) = 0 /\ m.kind # "cache"
  BY <1>3, <1>4, StepFacts
<1> HIDE DEF m
<1>12. EquipInv' /\ GameInStep' /\ Held' = Held
  BY <1>10, KeptInStep
<1>13. TypeInv'
  <2>1. truth' \in [Objects -> Nat]
    BY <1>2, <1>7, <1>10, AppliedType
  <2> QED
    BY <1>10, <2>1 DEF HInv, TypeInv
<1>14. CASE connected
  <2>1. InOrder(up', down', current')
    BY <1>2, <1>7, <1>10, <1>11, <1>14, OtherSent
  <2>2. DownOk(Append(down, m), Held, current, Applied(m, truth))
    BY <1>2, <1>8, <1>9, <1>11, MessageSent DEF HInv, DownInv
  <2>3. DownOk(down', Held', current', truth')
    BY <1>10, <1>12, <1>14, <2>2
  <2>4. LinkInv' /\ DownInv'
    BY <1>10, <1>14, <2>1, <2>3 DEF LinkInv, DownInv
  <2> QED
    BY <1>12, <1>13, <2>4 DEF HInv
<1>15. CASE ~ connected
  <2>1. down' = <<>> /\ current' = FALSE
    BY <1>2, <1>10, <1>15 DEF HInv, LinkInv
  <2>2. DownOk(down', Held', current', truth')
    BY <2>1, NothingDown
  <2>3. LinkInv'
    BY <1>10, <1>15 DEF HInv, LinkInv
  <2>4. DownInv'
    BY <2>2 DEF DownInv
  <2> QED
    BY <1>12, <1>13, <2>3, <2>4 DEF HInv
<1> QED
  BY <1>14, <1>15

-----------------------------------------------------------------------------
(* The client handles the next message.                                    *)

\* The next message is one the coordinator sends, and adds only what is not held.
LEMMA NextMessage ==
  ASSUME HInv, down # <<>>
  PROVE  /\ MessageOk(Head(down)) /\ Head(down) \in Msgs
         /\ current => Suits(Head(down), Held)
<1>1. /\ down \in Seq(Msgs) /\ \A k \in DOMAIN down : MessageOk(down[k])
      /\ \A k \in DOMAIN down :
           Ready(down, current, k) => Suits(down[k], AfterFirst(k - 1, down, Held))
  BY DEF HInv, DownInv, DownOk
<1>2. 1 \in DOMAIN down /\ Head(down) = down[1] /\ 1 - 1 = 0
  BY <1>1
<1>3. AfterFirst(0, down, Held) = Held
  <2>1. Held \in [Objects -> Nat]
    BY HeldType DEF HInv
  <2> QED
    BY <2>1, AfterNone
<1>4. MessageOk(Head(down)) /\ Head(down) \in Msgs
  BY <1>1, <1>2 DEF MessageOk
<1>5. current => Suits(Head(down), Held)
  BY <1>1, <1>2, <1>3 DEF Ready
<1> QED
  BY <1>4, <1>5

\* What is held after the next message has been read: from the cache of the connection on,
\* what that message makes of what was held.
BroughtUp ==
  /\ down # <<>> /\ down' = Tail(down) /\ truth' = truth
  /\ current => current'
  /\ current' => current \/ Head(down).kind = "cache"
  /\ current \/ Head(down).kind = "cache" => Held' = Applied(Head(down), Held)

LEMMA ReadDown ==
  ASSUME HInv, down # <<>>, down' = Tail(down), truth' = truth,
         Held' \in [Objects -> Nat], current' \in BOOLEAN,
         current' => current \/ Head(down).kind = "cache",
         current \/ Head(down).kind = "cache" => Held' = Applied(Head(down), Held)
  PROVE  DownInv'
<1>1. DownOk(down, Held, current, truth) /\ current \in BOOLEAN
  BY DEF HInv, DownInv, TypeInv
<1>2. Held \in [Objects -> Nat]
  BY HeldType DEF HInv
<1> DEFINE w == Held'
           now == current'
<1>3. /\ w \in [Objects -> Nat] /\ now \in BOOLEAN
      /\ now => current \/ Head(down).kind = "cache"
      /\ current \/ Head(down).kind = "cache" => w = Applied(Head(down), Held)
  OBVIOUS
<1> HIDE DEF w, now
<1>4. DownOk(Tail(down), w, now, truth)
  BY <1>1, <1>2, <1>3, MessageRead
<1>5. DownOk(down', Held', current', truth')
  BY <1>4 DEF w, now
<1> QED
  BY <1>5 DEF DownInv

\* A message that is not about the session leaves the session where it was.
LEMMA ReadLink ==
  ASSUME HInv, down # <<>>, connected, down' = Tail(down),
         UNCHANGED <<connected, up, current>>
  PROVE  LinkInv'
<1>1. up \in Seq(UpKinds) /\ down \in Seq(Msgs) /\ InOrder(up, down, current)
  BY DEF HInv, TypeInv, LinkInv, DownInv, DownOk
<1>2. InOrder(up, Tail(down), current)
  BY <1>1, AnswerRead
<1>3. InOrder(up', down', current')
  BY <1>2
<1> QED
  BY <1>3 DEF LinkInv

\* GCConfirmAuth and the matchmaking data come before the cache, and each is followed by
\* the next request of the session.
LEMMA SessionRead ==
  ASSUME HInv, down # <<>>, connected, down' = Tail(down),
         Head(down).kind \in {"confirm", "matchmaking"},
         NEW r, Step(r) = Step(Head(down).kind) + 1, r \in UpKinds, up' = Append(up, r),
         UNCHANGED <<connected, current, items, equips, truth>>
  PROVE  /\ up' \in Seq(UpKinds) /\ current' = FALSE
         /\ LinkInv' /\ DownInv' /\ BroughtUp
<1>1. /\ up \in Seq(UpKinds) /\ down \in Seq(Msgs) /\ InOrder(up, down, current)
      /\ current \in BOOLEAN
  BY DEF HInv, TypeInv, LinkInv, DownInv, DownOk
<1>2. Step(Head(down).kind) \in {1, 2}
  BY StepFacts
<1>3. ~ current /\ InOrder(Append(up, r), Tail(down), current)
  BY <1>1, <1>2, AnswerRead
<1>4. Append(up, r) \in Seq(UpKinds)
  BY <1>1, <1>2
<1>5. up' \in Seq(UpKinds) /\ current' = FALSE
  BY <1>1, <1>3, <1>4
<1>6. LinkInv'
  <2>1. InOrder(up', down', current')
    BY <1>3
  <2> QED
    BY <2>1 DEF LinkInv
<1>7. DownInv'
  <2>1. Held' = Held /\ Held \in [Objects -> Nat]
    BY HeldSame, HeldType DEF HInv
  <2>2. /\ Held' \in [Objects -> Nat] /\ current' \in BOOLEAN
        /\ current' => current \/ Head(down).kind = "cache"
        /\ ~ (current \/ Head(down).kind = "cache")
    BY <1>3, <1>5, <2>1
  <2> QED
    BY <2>2, ReadDown
<1>8. BroughtUp
  BY <1>3 DEF BroughtUp
<1> QED
  BY <1>5, <1>6, <1>7, <1>8

LEMMA ConfirmStep == HInv /\ HandleConfirmAuth => HInv' /\ BroughtUp
<1> SUFFICES ASSUME HInv, HandleConfirmAuth PROVE HInv' /\ BroughtUp
  OBVIOUS
<1>1. /\ connected /\ down # <<>> /\ Head(down).kind = "confirm" /\ down' = Tail(down)
      /\ up' = Append(up, "matchmaking")
      /\ UNCHANGED <<hasMatchmaking, cache, items, equips, truth, game, serverView, outgoing,
                     changes, connected, current>>
  BY DEF HandleConfirmAuth, Received, members, counters
<1>2. up' \in Seq(UpKinds) /\ current' = FALSE /\ LinkInv' /\ DownInv' /\ BroughtUp
  <2>1. "matchmaking" \in UpKinds /\ Step("matchmaking") = Step(Head(down).kind) + 1
    BY <1>1, StepFacts DEF UpKinds, SessionKinds
  <2> QED
    BY <1>1, <2>1, SessionRead
<1>3. TypeInv'
  BY <1>1, <1>2 DEF HInv, TypeInv
<1>4. EquipInv' /\ GameInStep'
  BY <1>1, KeptInStep
<1> QED
  BY <1>2, <1>3, <1>4 DEF HInv

\* The messages of a welcome: the stored objects, and a message about none.
LEMMA WelcomeFacts ==
  ASSUME NEW ms \in Seq(Msgs), NEW c \in [Objects -> Nat], NEW v \in [Objects -> Nat]
  PROVE  /\ \A m, s \in BOOLEAN : ms \o Welcomes(m, s, c) \in Seq(Msgs)
         /\ AfterAll(ms \o WelcomeMessages(c), v) = c
<1> DEFINE a == Snapshot("welcome", c)
           b == Plain("matchmakingHello")
<1>1. a \in Msgs /\ b \in Msgs /\ Touched(b) = {}
  BY SnapshotFacts, PlainFacts DEF OutKinds
<1>2. WelcomeMessages(c) = <<a, b>>
  BY DEF WelcomeMessages
<1>3. Applied(a, AfterAll(ms, v)) = c
  BY AppliedSnapshot, AfterAllType
<1> HIDE DEF a, b
<1>4. Applied(b, c) = c
  <2>1. c = [o \in DOMAIN c |-> c[o]]
    OBVIOUS
  <2> QED
    BY <1>1, <2>1, AppliedSilent
<1>5. ms \o <<a, b>> \in Seq(Msgs) /\ AfterAll(ms \o <<a, b>>, v) = c
  BY <1>1, <1>3, <1>4, OutSent
<1>6. ms \o <<>> \in Seq(Msgs)
  OBVIOUS
<1> QED
  BY <1>2, <1>5, <1>6 DEF Welcomes

LEMMA MatchmakingStep == HInv /\ HandleMatchmakingHello => HInv' /\ BroughtUp
<1> SUFFICES ASSUME HInv, HandleMatchmakingHello PROVE HInv' /\ BroughtUp
  OBVIOUS
<1>1. /\ connected /\ down # <<>> /\ Head(down).kind = "matchmaking" /\ down' = Tail(down)
      /\ up' = Append(up, "cache")
      /\ outgoing' = outgoing \o Welcomes(TRUE, hasSOCache, cache)
      /\ UNCHANGED <<cache, items, equips, truth, game, serverView, changes,
                     connected, current>>
  BY DEF HandleMatchmakingHello, Received, SendToGame, counters
<1>2. up' \in Seq(UpKinds) /\ current' = FALSE /\ LinkInv' /\ DownInv' /\ BroughtUp
  <2>1. "cache" \in UpKinds /\ Step("cache") = Step(Head(down).kind) + 1
    BY <1>1, StepFacts DEF UpKinds, SessionKinds
  <2> QED
    BY <1>1, <2>1, SessionRead
<1>3. outgoing' \in Seq(Msgs)
  <2>1. outgoing \in Seq(Msgs) /\ cache \in [Objects -> Nat]
    BY DEF HInv, TypeInv
  <2>2. outgoing \o WelcomeMessages(cache) \in Seq(Msgs) /\ outgoing \o <<>> \in Seq(Msgs)
    <3>1. outgoing \o Welcomes(TRUE, TRUE, cache) \in Seq(Msgs)
      BY <2>1, WelcomeFacts
    <3> QED
      BY <2>1, <3>1 DEF Welcomes
  <2> QED
    BY <1>1, <2>2 DEF Welcomes
<1>4. TypeInv'
  BY <1>1, <1>2, <1>3 DEF HInv, TypeInv
<1>5. EquipInv' /\ GameInStep'
  BY <1>2 DEF EquipInv, GameInStep
<1> QED
  BY <1>2, <1>4, <1>5 DEF HInv

\* The cache of the connection takes the place of whatever was held.
LEMMA CacheStep == HInv /\ HandleCacheSubscription => HInv' /\ BroughtUp
<1> SUFFICES ASSUME HInv, HandleCacheSubscription PROVE HInv' /\ BroughtUp
  OBVIOUS
<1> DEFINE received == Head(down).mod
<1>1. /\ connected /\ down # <<>> /\ Head(down).kind = "cache" /\ down' = Tail(down)
      /\ cache' = received
      /\ items' = [i \in Items |-> received[i]] /\ equips' = EntriesOf(received)
      /\ outgoing' = outgoing \o Welcomes(hasMatchmaking, TRUE, received)
      /\ current' = TRUE
      /\ UNCHANGED <<hasMatchmaking, truth, game, serverView, changes, connected, up>>
  BY DEF HandleCacheSubscription, Received, SendToGame, StoredCache, counters
<1>2. MessageOk(Head(down)) /\ Head(down) \in Msgs
  BY <1>1, NextMessage
<1>3. received \in [Objects -> Nat]
  <2>1. received \in Deltas /\ DOMAIN received = Objects
    BY <1>1, <1>2 DEF MessageOk, Msgs
  <2> QED
    BY <2>1, DeltaFacts
<1>4. Head(down).add = None /\ Head(down).rem = {}
  BY <1>1, <1>2 DEF MessageOk
<1>5. Held \in [Objects -> Nat] /\ game \in [Objects -> Nat] /\ outgoing \in Seq(Msgs)
  BY HeldType DEF HInv, TypeInv
<1>6. Applied(Head(down), Held) = received
  <2>1. \A o \in Objects : Applied(Head(down), Held)[o] = received[o]
    BY <1>3, <1>4, <1>5, DeltaFacts DEF Applied
  <2>2. Applied(Head(down), Held) = [o \in Objects |-> Applied(Head(down), Held)[o]]
    BY <1>5 DEF Applied
  <2> QED
    BY <1>3, <2>1, <2>2
<1> HIDE DEF received
<1>7. \A s \in Slots : equips'[s] = Entry(received[s])
  BY <1>1 DEF EntriesOf, Entry
<1>8. Held' = received
  <2>1. ASSUME NEW o \in Objects PROVE Held'[o] = received[o]
    <3>1. CASE o \in Items
      BY <1>1, <3>1 DEF Held
    <3>2. CASE o \notin Items
      <4>1. o \in Slots /\ equips'[o] = Entry(received[o])
        BY <1>7, <3>2 DEF Objects
      <4>2. Held'[o] = IF equips'[o] = <<>> THEN Absent ELSE Head(equips'[o])
        BY <3>2 DEF Held
      <4>3. <<received[o]>> # <<>> /\ Head(<<received[o]>>) = received[o]
        OBVIOUS
      <4> QED
        BY <4>1, <4>2, <4>3 DEF Entry
    <3> QED
      BY <3>1, <3>2
  <2>2. Held' = [o \in Objects |-> Held'[o]]
    BY DEF Held
  <2> QED
    BY <1>3, <2>1, <2>2
<1>9. LinkInv'
  <2>1. up \in Seq(UpKinds) /\ down \in Seq(Msgs) /\ InOrder(up, down, current)
    BY DEF HInv, TypeInv, LinkInv, DownInv, DownOk
  <2>2. InOrder(up, Tail(down), TRUE)
    BY <1>1, <2>1, AnswerRead, StepFacts
  <2>3. InOrder(up', down', current')
    BY <1>1, <2>2
  <2> QED
    BY <1>1, <2>3 DEF LinkInv
<1>10. outgoing' \in Seq(Msgs) /\ (hasMatchmaking => AfterAll(outgoing', game) = received)
  <2>1. /\ outgoing \o WelcomeMessages(received) \in Seq(Msgs)
        /\ AfterAll(outgoing \o WelcomeMessages(received), game) = received
    <3>1. outgoing \o Welcomes(TRUE, TRUE, received) \in Seq(Msgs)
      BY <1>3, <1>5, WelcomeFacts
    <3> QED
      BY <1>3, <1>5, <3>1, WelcomeFacts DEF Welcomes
  <2>2. outgoing \o <<>> \in Seq(Msgs)
    BY <1>5
  <2> QED
    BY <1>1, <2>1, <2>2 DEF Welcomes
<1>11. TypeInv'
  <2>1. items' \in [Items -> Nat]
    BY <1>1, <1>3 DEF Objects
  <2>2. equips' \in [Slots -> Seq(Nat)]
    <3>1. ASSUME NEW s \in Slots PROVE Entry(received[s]) \in Seq(Nat)
      BY <1>3 DEF Entry, Objects
    <3>2. equips' = [s \in Slots |-> Entry(received[s])]
      BY <1>1 DEF EntriesOf, Entry
    <3> QED
      BY <3>1, <3>2
  <2> QED
    BY <1>1, <1>3, <1>10, <2>1, <2>2 DEF HInv, TypeInv
<1>12. DownInv'
  BY <1>1, <1>3, <1>6, <1>8, ReadDown
<1>13. EquipInv'
  BY <1>7, <1>8 DEF EquipInv
<1>14. GameInStep'
  <2>1. AfterAll(outgoing, game)' = AfterAll(outgoing', game)
    BY <1>1 DEF AfterAll, AfterFirst
  <2> QED
    BY <1>1, <1>8, <1>10, <2>1 DEF GameInStep
<1>15. BroughtUp
  BY <1>1, <1>6, <1>8 DEF BroughtUp
<1> QED
  BY <1>9, <1>11, <1>12, <1>13, <1>14, <1>15 DEF HInv

\* The entries of a slot after an object message.
LEMMA StoredEntriesFacts ==
  ASSUME NEW m \in Msgs, NEW s
  PROVE  /\ \A e \in Seq(Nat) : StoredEntries(e, s, m) \in Seq(Nat)
         /\ \A e : s \notin Touched(m) => StoredEntries(e, s, m) = e
         /\ \A c \in Nat :
              /\ MessageOk(m) /\ m.kind # "cache"
              /\ s \in DOMAIN m.add => c = Absent
              => StoredEntries(Entry(c), s, m)
                   = Entry(IF s \in m.rem THEN Absent
                           ELSE IF s \in DOMAIN m.add THEN m.add[s]
                           ELSE IF s \in DOMAIN m.mod THEN m.mod[s] ELSE c)
<1>1. /\ s \in DOMAIN m.mod => m.mod[s] \in Nat
      /\ s \in DOMAIN m.add => m.add[s] \in Nat
  BY DeltaFacts DEF Msgs
<1>2. ASSUME NEW e \in Seq(Nat), NEW v \in Nat
      PROVE  /\ Replaced(e, v) \in Seq(Nat) /\ Append(e, v) \in Seq(Nat)
             /\ e # <<>> => Tail(e) \in Seq(Nat)
  BY DEF Replaced
<1>3. ASSUME NEW e \in Seq(Nat) PROVE StoredEntries(e, s, m) \in Seq(Nat)
  <2> DEFINE replaced == IF s \in DOMAIN m.mod THEN Replaced(e, m.mod[s]) ELSE e
             added == IF s \in DOMAIN m.add THEN Append(replaced, m.add[s]) ELSE replaced
  <2>1. replaced \in Seq(Nat)
    BY <1>1, <1>2
  <2>2. added \in Seq(Nat)
    <3> HIDE DEF replaced
    <3> QED
      BY <1>1, <1>2, <2>1
  <2>3. StoredEntries(e, s, m) = IF s \in m.rem /\ added # <<>> THEN Tail(added) ELSE added
    BY DEF StoredEntries
  <2> HIDE DEF added
  <2>4. added # <<>> => Tail(added) \in Seq(Nat)
    BY <2>2
  <2> QED
    BY <2>2, <2>3, <2>4
<1>4. \A e : s \notin Touched(m) => StoredEntries(e, s, m) = e
  BY DEF StoredEntries, Touched
<1>5. \A v, x : /\ <<v>> # <<>> /\ Tail(<<v>>) = <<>> /\ Append(<<>>, v) = <<v>>
                /\ Replaced(<<>>, v) = <<v>> /\ Replaced(<<x>>, v) = <<v>>
  BY DEF Replaced
<1>6. ASSUME NEW c \in Nat, MessageOk(m), m.kind # "cache", s \in DOMAIN m.add => c = Absent
      PROVE  StoredEntries(Entry(c), s, m)
               = Entry(IF s \in m.rem THEN Absent
                       ELSE IF s \in DOMAIN m.add THEN m.add[s]
                       ELSE IF s \in DOMAIN m.mod THEN m.mod[s] ELSE c)
  <2>1. /\ s \in DOMAIN m.mod => m.mod[s] # Absent
        /\ s \in DOMAIN m.add => m.add[s] # Absent /\ s \notin DOMAIN m.mod /\ s \notin m.rem
    BY <1>6 DEF MessageOk
  <2>2. CASE s \in DOMAIN m.add
    <3>1. Entry(c) = <<>>
      BY <1>6, <2>2 DEF Entry
    <3>2. StoredEntries(<<>>, s, m) = <<m.add[s]>>
      BY <1>5, <2>1, <2>2 DEF StoredEntries
    <3> QED
      BY <2>1, <2>2, <3>1, <3>2 DEF Entry
  <2>3. CASE s \notin DOMAIN m.add /\ s \in DOMAIN m.mod
    <3>1. Replaced(Entry(c), m.mod[s]) = <<m.mod[s]>>
      BY <1>5 DEF Entry
    <3>2. StoredEntries(Entry(c), s, m) = IF s \in m.rem THEN <<>> ELSE <<m.mod[s]>>
      BY <1>5, <2>3, <3>1 DEF StoredEntries
    <3> QED
      BY <2>1, <2>3, <3>2 DEF Entry
  <2>4. CASE s \notin DOMAIN m.add /\ s \notin DOMAIN m.mod
    <3>1. StoredEntries(Entry(c), s, m) =
            IF s \in m.rem /\ Entry(c) # <<>> THEN Tail(Entry(c)) ELSE Entry(c)
      BY <2>4 DEF StoredEntries
    <3>2. Entry(c) # <<>> => Tail(Entry(c)) = <<>>
      BY <1>5 DEF Entry
    <3>3. Entry(Absent) = <<>>
      BY DEF Entry
    <3> QED
      BY <2>4, <3>1, <3>2, <3>3
  <2> QED
    BY <2>2, <2>3, <2>4
<1> QED
  BY <1>3, <1>4, <1>6

\* A message about objects, read: the items and the entries are brought up by it, and it,
\* or several that come to the same, is put in the game's queue.
LEMMA ObjectsRead ==
  ASSUME HInv, connected, down # <<>>, down' = Tail(down),
         Head(down).kind # "cache",
         items' = Applied(Head(down), items), equips' = StoredEquips(Head(down)),
         outgoing' \in Seq(Msgs),
         AfterAll(outgoing', game) = Applied(Head(down), AfterAll(outgoing, game)),
         serverView' \in {serverView, Applied(Head(down), serverView)},
         UNCHANGED <<connected, up, current, truth, changes, game, cache, hasMatchmaking>>
  PROVE  HInv' /\ BroughtUp /\ (current => Held' = Applied(Head(down), Held))
<1> DEFINE m == Head(down)
<1>1. m \in Msgs /\ MessageOk(m) /\ m.kind # "cache" /\ (current => Suits(m, Held))
  BY NextMessage
<1>2. /\ items \in [Items -> Nat] /\ equips \in [Slots -> Seq(Nat)]
      /\ serverView \in [Objects -> Nat] /\ Held \in [Objects -> Nat] /\ current \in BOOLEAN
  BY HeldType DEF HInv, TypeInv
<1>3. items' = Applied(m, items) /\ equips' = StoredEquips(m)
  OBVIOUS
<1>4. /\ down' = Tail(down)
      /\ AfterAll(outgoing', game) = Applied(m, AfterAll(outgoing, game))
      /\ serverView' \in {serverView, Applied(m, serverView)}
  OBVIOUS
<1> HIDE DEF m
<1>5. items' \in [Items -> Nat] /\ serverView' \in [Objects -> Nat]
  BY <1>1, <1>2, <1>3, <1>4, AppliedType
<1>6. equips' \in [Slots -> Seq(Nat)]
  <2>1. ASSUME NEW s \in Slots PROVE StoredEntries(equips[s], s, m) \in Seq(Nat)
    <3>1. equips[s] \in Seq(Nat)
      BY <1>2
    <3> QED
      BY <1>1, <3>1, StoredEntriesFacts
  <2> QED
    BY <1>3, <2>1 DEF StoredEquips
<1>7. TypeInv'
  BY <1>5, <1>6 DEF HInv, TypeInv
<1>8. LinkInv'
  BY ReadLink
<1> DEFINE brought == [o \in Objects |-> IF o \in m.rem THEN Absent
                                         ELSE IF o \in DOMAIN m.add THEN m.add[o]
                                         ELSE IF o \in DOMAIN m.mod THEN m.mod[o]
                                         ELSE Held[o]]
<1>9. Applied(m, Held) = brought
  BY <1>2 DEF Applied
<1>10. ASSUME current
       PROVE  \A s \in Slots : equips'[s] = Entry(brought[s])
  <2> SUFFICES ASSUME NEW s \in Slots PROVE equips'[s] = Entry(brought[s])
    OBVIOUS
  <2>1. s \in Objects /\ Held[s] \in Nat /\ equips[s] = Entry(Held[s])
    BY <1>2, <1>10 DEF Objects, HInv, EquipInv
  <2>2. s \in DOMAIN m.add => Held[s] = Absent
    BY <1>1, <1>10 DEF Suits
  <2>3. equips'[s] = StoredEntries(Entry(Held[s]), s, m)
    BY <1>3, <2>1 DEF StoredEquips
  <2>4. StoredEntries(Entry(Held[s]), s, m)
          = Entry(IF s \in m.rem THEN Absent
                  ELSE IF s \in DOMAIN m.add THEN m.add[s]
                  ELSE IF s \in DOMAIN m.mod THEN m.mod[s] ELSE Held[s])
    BY <1>1, <2>1, <2>2, StoredEntriesFacts
  <2> QED
    BY <2>1, <2>3, <2>4
<1>11. ASSUME current PROVE Held' = brought
  <2>1. ASSUME NEW o \in Objects PROVE Held'[o] = brought[o]
    <3>1. CASE o \in Items
      <4>1. Held'[o] = Applied(m, items)[o] /\ Held[o] = items[o]
        BY <1>3, <3>1 DEF Held
      <4>2. DOMAIN items = Items
        BY <1>2
      <4> QED
        BY <3>1, <4>1, <4>2 DEF Applied
    <3>2. CASE o \notin Items
      <4>1. o \in Slots /\ equips'[o] = Entry(brought[o])
        BY <1>10, <1>11, <3>2 DEF Objects
      <4>2. Held'[o] = IF equips'[o] = <<>> THEN Absent ELSE Head(equips'[o])
        BY <3>2 DEF Held
      <4> HIDE DEF brought
      <4>3. <<brought[o]>> # <<>> /\ Head(<<brought[o]>>) = brought[o]
        OBVIOUS
      <4> QED
        BY <4>1, <4>2, <4>3 DEF Entry
    <3> QED
      BY <3>1, <3>2
  <2>2. Held' = [o \in Objects |-> Held'[o]]
    BY DEF Held
  <2> QED
    BY <2>1, <2>2
<1>12. current => Held' = Applied(m, Held)
  BY <1>9, <1>11
<1>13. EquipInv'
  <2> HIDE DEF brought
  <2> QED
    BY <1>10, <1>11 DEF EquipInv
<1>14. DownInv'
  <2>1. Held' \in [Objects -> Nat]
    BY <1>7, HeldOf DEF TypeInv, Held
  <2> QED
    BY <1>1, <1>2, <1>12, <2>1, ReadDown DEF m
<1>15. GameInStep'
  <2>1. AfterAll(outgoing, game)' = AfterAll(outgoing', game)
    BY DEF AfterAll, AfterFirst
  <2> QED
    BY <1>4, <1>12, <2>1 DEF HInv, GameInStep
<1>16. BroughtUp
  BY <1>1, <1>12 DEF BroughtUp, m
<1> QED
  BY <1>7, <1>8, <1>12, <1>13, <1>14, <1>15, <1>16 DEF HInv, m

-----------------------------------------------------------------------------
(* The handlers of messages about objects, and the game server's view.     *)

\* What one step does for the server.
ServerTold ==
  \A o \in Objects :
    /\ server /\ server' /\ servers' = servers
    /\ current /\ current' /\ Held'[o] # Held[o]
    => serverView'[o] = Held'[o]

LEMMA ToldByMessage ==
  ASSUME NEW m, TypeInv, current => Held' = Applied(m, Held),
         server => serverView' = Applied(m, serverView)
  PROVE  ServerTold
<1>1. DOMAIN Held = Objects /\ DOMAIN serverView = Objects
  BY HeldType DEF TypeInv
<1>2. ASSUME NEW o \in Objects, server, current, Held'[o] # Held[o]
      PROVE  serverView'[o] = Held'[o]
  <2>1. o \in Touched(m)
    BY <1>1, <1>2, AppliedFacts
  <2> QED
    BY <1>1, <1>2, <2>1, AppliedFacts
<1> QED
  BY <1>2 DEF ServerTold

LEMMA ObjectsStep ==
  ASSUME HInv, NEW kind \in {"update", "updateMultiple"}, HandleObjects(kind)
  PROVE  HInv' /\ BroughtUp /\ ServerTold
<1> DEFINE m == Head(down)
<1>1. /\ connected /\ down # <<>> /\ m.kind = kind /\ down' = Tail(down)
      /\ items' = Applied(m, items) /\ equips' = StoredEquips(m)
      /\ outgoing' = outgoing \o <<m>>
      /\ UNCHANGED <<connected, up, current, truth, changes, game, cache, hasMatchmaking>>
  BY DEF HandleObjects, Received, StoredItems, SendToBoth, counters
<1>2. serverView' = IF server THEN Applied(m, serverView) ELSE serverView
  BY DEF HandleObjects, SendToBoth
<1>3. outgoing \in Seq(Msgs) /\ m \in Msgs
  BY <1>1, NextMessage DEF HInv, TypeInv
<1>4. outgoing' \in Seq(Msgs) /\ AfterAll(outgoing', game) = Applied(m, AfterAll(outgoing, game))
  BY <1>1, <1>3, OutSent
<1>5. m.kind # "cache"
  BY <1>1
<1>6. HInv' /\ BroughtUp /\ (current => Held' = Applied(m, Held))
  BY <1>1, <1>2, <1>4, <1>5, ObjectsRead
<1> HIDE DEF m
<1>7. ServerTold
  BY <1>2, <1>6, ToldByMessage DEF HInv
<1> QED
  BY <1>6, <1>7

\* The answers to an unlock and a delete request are about items only: the entries stay.
LEMMA ItemStep ==
  HInv /\ (HandleUnlockCrateResponse \/ HandleDeleteItem) => HInv' /\ BroughtUp /\ ServerTold
<1> SUFFICES ASSUME HInv, HandleUnlockCrateResponse \/ HandleDeleteItem
             PROVE  HInv' /\ BroughtUp /\ ServerTold
  OBVIOUS
<1> DEFINE m == Head(down)
           a == [m EXCEPT !.kind = "create"]
<1>1. /\ connected /\ down # <<>> /\ m.kind \in {"unlock", "delete"} /\ down' = Tail(down)
      /\ items' = Applied(m, items) /\ equips' = equips
      /\ UNCHANGED <<connected, up, current, truth, changes, game, cache, hasMatchmaking>>
  BY DEF HandleUnlockCrateResponse, HandleDeleteItem, Received, HandledItems, counters
<1>2. \/ /\ outgoing' = outgoing \o <<m>>
         /\ serverView' = IF server THEN Applied(m, serverView) ELSE serverView
      \/ /\ outgoing' = outgoing \o <<a, m>>
         /\ serverView' = IF server THEN Applied(a, serverView) ELSE serverView
  <2>1. Head(<<m>>) = m /\ Head(<<a, m>>) = a
    OBVIOUS
  <2>2. SendToBoth(<<a, m>>) \/ SendToBoth(<<m>>)
    BY DEF HandleUnlockCrateResponse, HandleDeleteItem
  <2> HIDE DEF m, a
  <2> QED
    BY <2>1, <2>2 DEF SendToBoth
<1>3. outgoing \in Seq(Msgs) /\ m \in Msgs /\ MessageOk(m) /\ equips \in [Slots -> Seq(Nat)]
      /\ game \in [Objects -> Nat]
  BY <1>1, NextMessage DEF HInv, TypeInv
<1>4. Touched(m) \subseteq Items /\ m.kind # "cache"
  BY <1>1, <1>3 DEF MessageOk
<1>5. a \in Msgs /\ a.mod = m.mod /\ a.add = m.add /\ a.rem = m.rem
  BY <1>3 DEF Msgs, OutKinds
<1> HIDE DEF m, a
<1>6. \A v : Applied(a, v) = Applied(m, v)
  BY <1>5 DEF Applied
<1>7. outgoing' \in Seq(Msgs) /\ AfterAll(outgoing', game) = Applied(m, AfterAll(outgoing, game))
  <2> DEFINE w == AfterAll(outgoing, game)
  <2>1. Applied(m, Applied(m, w)) = Applied(m, w)
    BY DEF Applied
  <2>2. outgoing' = outgoing \o <<a, m>> =>
          outgoing' \in Seq(Msgs) /\ AfterAll(outgoing', game) = Applied(m, w)
    BY <1>3, <1>5, <1>6, <2>1, OutSent
  <2>3. outgoing' = outgoing \o <<m>> =>
          outgoing' \in Seq(Msgs) /\ AfterAll(outgoing', game) = Applied(m, w)
    BY <1>3, OutSent
  <2> QED
    BY <1>2, <2>2, <2>3
<1>8. equips' = StoredEquips(m)
  <2>1. ASSUME NEW s \in Slots PROVE StoredEntries(equips[s], s, m) = equips[s]
    <3>1. s \notin Touched(m)
      BY <1>4, ObjectsAssumption
    <3> QED
      BY <1>3, <3>1, StoredEntriesFacts
  <2>2. equips = [s \in Slots |-> equips[s]]
    BY <1>3
  <2> QED
    BY <1>1, <2>1, <2>2 DEF StoredEquips
<1>9. serverView' = IF server THEN Applied(m, serverView) ELSE serverView
  BY <1>2, <1>6
<1>10. HInv' /\ BroughtUp /\ (current => Held' = Applied(m, Held))
  BY <1>1, <1>4, <1>7, <1>8, <1>9, ObjectsRead DEF m
<1>11. ServerTold
  BY <1>9, <1>10, ToldByMessage DEF HInv
<1> QED
  BY <1>10, <1>11

\* An answer passed on, or dropped, is about no object.
LEMMA SilentStep ==
  HInv /\ (HandleAnswer \/ DropUnknown) => HInv' /\ BroughtUp /\ Held' = Held
<1> SUFFICES ASSUME HInv, HandleAnswer \/ DropUnknown PROVE HInv' /\ BroughtUp /\ Held' = Held
  OBVIOUS
<1> DEFINE m == Head(down)
<1>1. /\ connected /\ down # <<>> /\ m.kind \in Relayed \cup {"craft"} /\ down' = Tail(down)
      /\ outgoing' = outgoing \/ outgoing' = outgoing \o <<m>>
      /\ UNCHANGED <<connected, up, current, truth, changes, game, serverView, cache,
                     hasMatchmaking, items, equips>>
  BY DEF HandleAnswer, DropUnknown, Received, SendToGame, members, counters
<1>2. /\ outgoing \in Seq(Msgs) /\ m \in Msgs /\ MessageOk(m) /\ game \in [Objects -> Nat]
      /\ Held \in [Objects -> Nat] /\ current \in BOOLEAN
  BY <1>1, NextMessage, HeldType DEF HInv, TypeInv
<1>3. Touched(m) = {} /\ m.kind # "cache"
  BY <1>1, <1>2 DEF MessageOk, Silent, Relayed
<1>4. Held' = Held
  BY <1>1, HeldSame
<1>5. Applied(m, Held) = Held
  BY <1>2, <1>3, AppliedSilent
<1>6. outgoing' \in Seq(Msgs) /\ AfterAll(outgoing', game) = AfterAll(outgoing, game)
  <2> HIDE DEF m
  <2>1. /\ outgoing \o <<m>> \in Seq(Msgs)
        /\ AfterAll(outgoing \o <<m>>, game) = AfterAll(outgoing, game)
    BY <1>2, <1>3, OutSent, SilentSent
  <2> QED
    BY <1>1, <1>2, <2>1
<1>7. TypeInv'
  BY <1>1, <1>6 DEF HInv, TypeInv
<1>8. LinkInv'
  BY <1>1, ReadLink
<1>9. DownInv'
  BY <1>1, <1>2, <1>3, <1>4, <1>5, ReadDown
<1>10. EquipInv'
  BY <1>1, <1>4 DEF HInv, EquipInv
<1>11. GameInStep'
  <2>1. AfterAll(outgoing, game)' = AfterAll(outgoing', game)
    BY <1>1 DEF AfterAll, AfterFirst
  <2> QED
    BY <1>1, <1>4, <1>6, <2>1 DEF HInv, GameInStep
<1>12. BroughtUp
  BY <1>1, <1>3, <1>4, <1>5 DEF BroughtUp
<1> QED
  BY <1>4, <1>7, <1>8, <1>9, <1>10, <1>11, <1>12 DEF HInv

-----------------------------------------------------------------------------
(* The theorems.                                                           *)

LEMMA GameStep == HInv /\ HandleMessage => HInv'
<1> SUFFICES ASSUME HInv, HandleMessage PROVE HInv'
  OBVIOUS
<1>1. ASSUME NEW parsed \in BOOLEAN, OnClientHello(parsed) PROVE HInv'
  <2>1. /\ ~ connected' /\ up' = <<>> /\ down' = <<>> /\ ~ current' /\ current' \in BOOLEAN
        /\ UNCHANGED <<hasMatchmaking, cache, items, equips, outgoing, truth, game, serverView,
                       changes>>
    BY <1>1 DEF OnClientHello
  <2> QED
    BY <2>1, ResetStep
<1>2. ASSUME NEW r \in Requests, NEW kind, Forward(kind, <<r>>) PROVE HInv'
  BY <1>2, ForwardStep
<1>3. ASSUME NEW kind, Forward(kind, <<Unanswered, Unanswered>>) PROVE HInv'
  BY <1>3, ForwardStep
<1>4. ASSUME HandleViewPlayersProfileRequest \/ HandleClientCommendPlayerQuery
               \/ HandleClientCommendPlayer \/ HandleClientReportPlayer
               \/ HandleAdjustItemEquippedState \/ HandleUseItemRequest \/ HandleApplySticker
      PROVE  HInv'
  BY <1>2, <1>4 DEF Requests, Answered, HandleViewPlayersProfileRequest,
       HandleClientCommendPlayerQuery, HandleClientCommendPlayer, HandleClientReportPlayer,
       HandleAdjustItemEquippedState, HandleUseItemRequest, HandleApplySticker
<1>5. ASSUME HandleStorePurchaseInit \/ HandleUnlockCrate \/ HandleCraft
               \/ HandleNameItem \/ HandleNameBaseItem \/ HandleRemoveItemName
               \/ HandleDeleteItemRequest
      PROVE  HInv'
  BY <1>2, <1>5 DEF Requests, Answered, HandleStorePurchaseInit, HandleUnlockCrate, HandleCraft,
       HandleNameItem, HandleNameBaseItem, HandleRemoveItemName, HandleDeleteItemRequest
<1>6. ASSUME HandleItemAcknowledged PROVE HInv'
  BY <1>2, <1>3, <1>6 DEF Requests, HandleItemAcknowledged
<1>7. ASSUME StoreGetUserData \/ ClientRequestJoinServerData \/ ClientReportServer PROVE HInv'
  BY <1>7, AnswerStep DEF StoreGetUserData, ClientRequestJoinServerData, ClientReportServer
<1> QED
  BY <1>1, <1>4, <1>5, <1>6, <1>7 DEF HandleMessage

LEMMA InvariantInit == Init => HInv
<1> SUFFICES ASSUME Init PROVE HInv
  OBVIOUS
<1>1. TypeInv
  <2>1. EmptyView \in [Objects -> Nat] /\ <<>> \in Seq(Nat)
    BY DEF EmptyView, Absent
  <2>2. items \in [Items -> Nat] /\ truth \in [Objects -> Nat]
    BY DEF Init, Absent
  <2>3. equips \in [Slots -> Seq(Nat)]
    BY <2>1 DEF Init
  <2>4. outgoing \in Seq(Msgs) /\ up \in Seq(UpKinds)
    BY DEF Init
  <2> QED
    BY <2>1, <2>2, <2>3, <2>4 DEF Init, TypeInv
<1>2. LinkInv
  BY NoneInOrder DEF Init, LinkInv
<1>3. DownInv
  BY NothingDown DEF Init, DownInv
<1> QED
  BY <1>1, <1>2, <1>3 DEF Init, HInv, EquipInv, GameInStep

LEMMA ProcessStep == HInv /\ ProcessMessage => HInv' /\ BroughtUp
BY ConfirmStep, MatchmakingStep, CacheStep, ObjectsStep, ItemStep, SilentStep
   DEF ProcessMessage, HandleSOSingleObject, HandleSOMultipleObjects

LEMMA InvariantStep == HInv /\ [Next]_vars => HInv'
<1> SUFFICES ASSUME HInv, [Next]_vars PROVE HInv'
  OBVIOUS
<1>1. ASSUME ProcessMessage PROVE HInv'
  BY <1>1, ProcessStep
<1>2. ASSUME LinkLost PROVE HInv'
  <2>1. /\ ~ connected' /\ up' = <<>> /\ down' = <<>> /\ ~ current' /\ current' \in BOOLEAN
        /\ UNCHANGED <<hasMatchmaking, cache, items, equips, outgoing, truth, game, serverView,
                       changes>>
    BY <1>2 DEF LinkLost, members
  <2> QED
    BY <2>1, ResetStep
<1>3. ASSUME Coordinator PROVE HInv'
  BY <1>3, AnswerSessionStep, AnswerRequestStep, PushStep DEF Coordinator
<1>4. ASSUME UNCHANGED vars PROVE HInv'
  <2>1. UNCHANGED <<hasMatchmaking, cache, items, equips, outgoing, truth, game, serverView,
                    changes, connected, up, down, current>>
    BY <1>4 DEF vars, members, link, counters
  <2>2. TypeInv' /\ LinkInv'
    BY <2>1 DEF HInv, TypeInv, LinkInv
  <2>3. EquipInv' /\ GameInStep' /\ Held' = Held
    BY <2>1, KeptInStep
  <2>4. DownInv'
    BY <2>1, <2>3 DEF HInv, DownInv
  <2> QED
    BY <2>2, <2>3, <2>4 DEF HInv
<1> QED
  BY <1>1, <1>2, <1>3, <1>4, GameStep, RetrieveStep, ServerStep, LinkUpStep DEF Next

LEMMA Invariant == Spec => []HInv
BY InvariantInit, InvariantStep, PTL DEF Spec

\* Once the cache of a connection has been received, what ClientGC holds and what is on the
\* way to it are together what the coordinator holds, and a slot has one entry or none: the
\* handlers of gc_client.cpp miss no change of the objects and repeat none.
THEOREM CopyIsFaithful == Spec => []MirrorFaithful
<1>1. HInv => MirrorFaithful
  <2> SUFFICES ASSUME HInv, current
               PROVE  /\ AfterAll(down, Held) = truth
                      /\ \A s \in Slots : Len(equips[s]) = IF Held[s] = Absent THEN 0 ELSE 1
    BY DEF MirrorFaithful
  <2>1. AfterAll(down, Held) = truth
    BY DEF HInv, DownInv, DownOk, Ready
  <2>2. \A s \in Slots : equips[s] = Entry(Held[s])
    BY DEF HInv, EquipInv
  <2>3. \A c : Len(<<c>>) = 1 /\ Len(<<>>) = 0
    OBVIOUS
  <2> QED
    BY <2>1, <2>2, <2>3 DEF Entry
<1> QED
  BY <1>1, Invariant, PTL

\* By then the game, too, knows what ClientGC holds, or has it in its queue of messages:
\* every handler that changes m_items or m_defaultEquips queues the change for the game, and
\* RetrieveMessage takes nothing from the queue that the game has not got.
THEOREM GameKeepsUp == Spec => []GameInStep
<1>1. HInv => GameInStep
  BY DEF HInv
<1> QED
  BY <1>1, Invariant, PTL

\* A step that changes an object ClientGC holds by a message of the coordinator makes it the
\* same for the game server: what SendMessageToGame(TRUE, ...) passes on is the whole change.
THEOREM ServerKeepsUp == Spec => ServerFollows
<1>1. HInv /\ [Next]_vars => [ServerTold]_vars
  <2> SUFFICES ASSUME HInv, [Next]_vars PROVE ServerTold \/ UNCHANGED vars
    OBVIOUS
  <2>1. ASSUME UNCHANGED <<items, equips>> PROVE ServerTold
    BY <2>1, HeldSame DEF ServerTold
  <2>2. ASSUME HandleMessage \/ RetrieveMessage \/ SendSOCacheToGameServer \/ ClearAuthTicket
                 \/ LinkUp \/ LinkLost
        PROVE  UNCHANGED <<items, equips>>
    BY <2>2 DEF HandleMessage, RetrieveMessage, SendSOCacheToGameServer, ClearAuthTicket,
         LinkUp, LinkLost, members, OnClientHello, Forward, AnswerLocally,
         HandleViewPlayersProfileRequest, HandleClientCommendPlayerQuery,
         HandleClientCommendPlayer, HandleClientReportPlayer, HandleAdjustItemEquippedState,
         HandleUseItemRequest, HandleApplySticker, HandleStorePurchaseInit, HandleUnlockCrate,
         HandleCraft, HandleNameItem, HandleNameBaseItem, HandleRemoveItemName,
         HandleDeleteItemRequest, HandleItemAcknowledged, StoreGetUserData,
         ClientRequestJoinServerData, ClientReportServer
  <2>3. ASSUME Coordinator PROVE UNCHANGED <<items, equips>>
    BY <2>3 DEF Coordinator, AnswerSession, AnswerRequest, PushChange, Reply, members
  <2>4. ASSUME ProcessMessage PROVE ServerTold
    <3>1. ASSUME HandleConfirmAuth \/ HandleMatchmakingHello PROVE ServerTold
      BY <2>1, <3>1 DEF HandleConfirmAuth, HandleMatchmakingHello, members
    <3>2. ASSUME HandleCacheSubscription PROVE ServerTold
      <4>1. down # <<>> /\ Head(down).kind = "cache"
        BY <3>2 DEF HandleCacheSubscription, Received
      <4>2. MessageOk(Head(down)) /\ Head(down) \in Msgs /\ (current => Head(down).mod = Held)
        BY <4>1, NextMessage DEF Suits
      <4>3. Held' = Applied(Head(down), Held) /\ Held \in [Objects -> Nat]
        BY <3>2, <4>1, CacheStep, HeldType DEF BroughtUp, HInv
      <4>4. current => Held' = Held
        <5> SUFFICES ASSUME current PROVE Held' = Held
          OBVIOUS
        <5>1. Head(down).mod = Held /\ Head(down).add = None /\ Head(down).rem = {}
          BY <4>1, <4>2 DEF MessageOk
        <5>2. \A o \in Objects : Applied(Head(down), Held)[o] = Held[o]
          BY <4>3, <5>1, DeltaFacts DEF Applied
        <5>3. Applied(Head(down), Held) = [o \in Objects |-> Applied(Head(down), Held)[o]]
          BY <4>3 DEF Applied
        <5> QED
          BY <4>3, <5>2, <5>3
      <4> QED
        BY <4>4 DEF ServerTold
    <3> QED
      BY <2>4, <3>1, <3>2, SilentStep, ObjectsStep, ItemStep
         DEF ProcessMessage, HandleSOSingleObject, HandleSOMultipleObjects, ServerTold
  <2> QED
    BY <2>1, <2>2, <2>3, <2>4 DEF Next
<1> QED
  BY <1>1, Invariant, PTL DEF Spec, ServerFollows, ServerTold

-----------------------------------------------------------------------------
(* The states the coordinator's objects have been in, and the copy.        *)

\* The state in which the message before the k-th was sent, or the copy was last in step.
Before(st, a, k) == IF k = 1 THEN a ELSE st[k - 1]

\* From the cache on, each message takes the view v to the state it was sent in: the one
\* before it or the next, and the last one there is (S: the states; a: the copy's).
StampsOk(ms, v, cur, S, st, a) ==
  /\ a \in 1..Len(S)
  /\ st \in Seq(Nat) /\ Len(st) = Len(ms)
  /\ \A k \in 1..Len(ms) : st[k] \in a..Len(S)
  /\ \A j, k \in 1..Len(ms) : j <= k => st[j] <= st[k]
  /\ \A k \in 1..Len(ms) : Ready(ms, cur, k) => st[k] <= Before(st, a, k) + 1
  /\ Ready(ms, cur, Len(ms) + 1) => Before(st, a, Len(ms) + 1) = Len(S)
  /\ \A k \in 1..Len(ms) : Ready(ms, cur, k + 1) => AfterFirst(k, ms, v) = S[st[k]]
  /\ cur => v = S[a]

StatesInv == states \in Seq([Objects -> Nat]) /\ states # <<>> /\ states[Len(states)] = truth

MirrorInv ==
  /\ HInv /\ StatesInv
  /\ StampsOk(down, Held, current, states, stamps, at)

LEMMA NothingStamped ==
  ASSUME NEW S, NEW v, NEW a \in 1..Len(S)
  PROVE  StampsOk(<<>>, v, FALSE, S, <<>>, a)
<1>1. ~ Ready(<<>>, FALSE, Len(<<>>) + 1)
  BY DEF Ready
<1>2. <<>> \in Seq(Nat) /\ Len(<<>>) = 0 /\ 1..0 = {}
  OBVIOUS
<1> QED
  BY <1>1, <1>2 DEF StampsOk

\* A message sent in the last of the states S, or in one more that is now the last of T.
LEMMA StampedSent ==
  ASSUME NEW ms \in Seq(Msgs), NEW v, NEW cur, NEW S, NEW T, NEW st, NEW a, NEW m \in Msgs,
         Len(S) \in Nat, Len(T) \in {Len(S), Len(S) + 1}, \A i \in 1..Len(S) : T[i] = S[i],
         StampsOk(ms, v, cur, S, st, a),
         Ready(Append(ms, m), cur, Len(ms) + 2) => AfterAll(Append(ms, m), v) = T[Len(T)]
  PROVE  StampsOk(Append(ms, m), v, cur, T, Append(st, Len(T)), a)
<1> DEFINE n == Len(ms)
           ls == Append(ms, m)
           tt == Append(st, Len(T))
           s == Len(S)
           t == Len(T)
<1>1. /\ n \in Nat /\ Len(ls) = n + 1 /\ ls[n + 1] = m /\ \A k \in 1..n : ls[k] = ms[k]
  OBVIOUS
<1>2. s \in Nat /\ t \in Nat /\ t \in {s, s + 1}
  OBVIOUS
<1>3. st \in Seq(Nat) /\ Len(st) = n
  BY DEF StampsOk
<1>4. /\ tt \in Seq(Nat) /\ Len(tt) = n + 1 /\ tt[n + 1] = t /\ \A k \in 1..n : tt[k] = st[k]
  BY <1>2, <1>3
<1>5. /\ a \in 1..s /\ \A k \in 1..n : st[k] \in a..s
      /\ \A j, k \in 1..n : j <= k => st[j] <= st[k]
      /\ cur => v = S[a]
  BY DEF StampsOk
<1>6. /\ \A k \in 1..n : Ready(ms, cur, k) => st[k] <= Before(st, a, k) + 1
      /\ Ready(ms, cur, n + 1) => Before(st, a, n + 1) = s
      /\ \A k \in 1..n : Ready(ms, cur, k + 1) => AfterFirst(k, ms, v) = S[st[k]]
  BY DEF StampsOk
<1>7. Ready(ls, cur, n + 2) => AfterFirst(n + 1, ls, v) = T[t]
  BY <1>1 DEF AfterAll
<1>8. \A i \in 1..s : T[i] = S[i]
  OBVIOUS
<1> HIDE DEF n, ls, tt, s, t
<1>9. \A k \in 1..(n + 1) : k \in 1..n \/ k = n + 1
  BY <1>1
<1>10. ASSUME NEW k \in 1..(n + 1) PROVE Ready(ls, cur, k) <=> Ready(ms, cur, k)
  <2>1. k - 1 \in 0..n /\ 1..(k - 1) \subseteq 1..n
    BY <1>1
  <2> QED
    BY <1>1, <2>1 DEF Ready
<1>11. ASSUME NEW k \in 1..(n + 1) PROVE Before(tt, a, k) = Before(st, a, k)
  <2>1. k = 1 \/ k - 1 \in 1..n
    BY <1>1
  <2> QED
    BY <1>4, <2>1 DEF Before
<1>12. a \in 1..t /\ \A k \in 1..(n + 1) : tt[k] \in a..t
  <2>1. a \in 1..t /\ a..s \subseteq a..t /\ t \in a..t
    BY <1>2, <1>5
  <2> QED
    BY <1>4, <1>5, <1>9, <2>1
<1>13. ASSUME NEW j \in 1..(n + 1), NEW k \in 1..(n + 1), j <= k PROVE tt[j] <= tt[k]
  <2>1. CASE k \in 1..n
    <3>1. j \in 1..n
      BY <1>1, <1>13, <2>1
    <3> QED
      BY <1>4, <1>5, <1>13, <2>1, <3>1
  <2>2. CASE k = n + 1
    <3>1. tt[j] \in a..t /\ tt[k] = t
      BY <1>4, <1>12, <2>2
    <3> QED
      BY <1>2, <1>5, <3>1
  <2> QED
    BY <1>9, <2>1, <2>2
<1>14. ASSUME NEW k \in 1..(n + 1), Ready(ls, cur, k) PROVE tt[k] <= Before(tt, a, k) + 1
  <2>1. Ready(ms, cur, k) /\ Before(tt, a, k) = Before(st, a, k)
    BY <1>10, <1>11, <1>14
  <2>2. CASE k \in 1..n
    BY <1>4, <1>6, <2>1, <2>2
  <2>3. CASE k = n + 1
    BY <1>2, <1>4, <1>6, <2>1, <2>3
  <2> QED
    BY <1>9, <2>2, <2>3
<1>15. Before(tt, a, n + 1 + 1) = t
  <2>1. n + 1 + 1 # 1 /\ n + 1 + 1 - 1 = n + 1
    BY <1>1
  <2> QED
    BY <1>4, <2>1 DEF Before
<1>16. ASSUME NEW k \in 1..(n + 1), Ready(ls, cur, k + 1) PROVE AfterFirst(k, ls, v) = T[tt[k]]
  <2>1. CASE k \in 1..n
    <3>1. k \in Nat /\ k + 1 \in 1..(n + 1) /\ \A j \in 1..k : ls[j] = ms[j]
      BY <1>1, <2>1
    <3>2. AfterFirst(k, ls, v) = AfterFirst(k, ms, v)
      BY <3>1, AfterSame
    <3>3. AfterFirst(k, ms, v) = S[st[k]]
      BY <1>6, <1>10, <1>16, <2>1, <3>1
    <3>4. st[k] \in 1..s
      <4>1. a..s \subseteq 1..s
        BY <1>2, <1>5
      <4> QED
        BY <1>5, <2>1, <4>1
    <3> QED
      BY <1>4, <1>8, <2>1, <3>2, <3>3, <3>4
  <2>2. CASE k = n + 1
    <3>1. n + 1 + 1 = n + 2
      BY <1>1
    <3> QED
      BY <1>4, <1>7, <1>16, <2>2, <3>1
  <2> QED
    BY <1>9, <2>1, <2>2
<1>17. cur => v = T[a]
  BY <1>5, <1>8
<1>18. StampsOk(ls, v, cur, T, tt, a)
  BY <1>1, <1>4, <1>12, <1>13, <1>14, <1>15, <1>16, <1>17 DEF StampsOk, t
<1> QED
  BY <1>18 DEF ls, tt

\* The state the copy was last in step in, once the next message has been read.
Reached(st, now, a) == IF now THEN Head(st) ELSE a

\* A reader of the messages ms who is in step (cur) or not, with the view v, reads the first,
\* and is in step (now) or not, with the view w.
Reads(ms, v, w, cur, now, t, S, st, a) ==
  /\ v \in [Objects -> Nat] /\ w \in [Objects -> Nat] /\ cur \in BOOLEAN /\ now \in BOOLEAN
  /\ Len(S) \in Nat
  /\ DownOk(ms, v, cur, t) /\ ms # <<>> /\ StampsOk(ms, v, cur, S, st, a)
  /\ now => cur \/ Head(ms).kind = "cache"
  /\ cur \/ Head(ms).kind = "cache" => w = Applied(Head(ms), v)

\* The view is then in the state the message was sent in, if there has been a cache or this
\* is it, and the other messages lead on from there.
LEMMA StampedRead ==
  ASSUME NEW ms, NEW v, NEW w, NEW cur, NEW now, NEW t, NEW S, NEW st, NEW a,
         Reads(ms, v, w, cur, now, t, S, st, a)
  PROVE  /\ StampsOk(Tail(ms), w, now, S, Tail(st), Reached(st, now, a))
         /\ now => w = S[Head(st)] /\ Head(st) \in a..Len(S)
         /\ cur => Head(st) <= a + 1
<1> USE DEF Reads
<1> DEFINE ls == Tail(ms)
           n == Len(ls)
           tt == Tail(st)
           s == Len(S)
           b == Reached(st, now, a)
<1>1. n \in Nat /\ Len(ms) = n + 1
  BY DEF DownOk
<1>2. st \in Seq(Nat) /\ Len(st) = n + 1 /\ st # <<>>
  BY <1>1 DEF StampsOk
<1>3. /\ tt \in Seq(Nat) /\ Len(tt) = n /\ Head(st) = st[1] /\ st[1] \in Nat
      /\ \A k \in 1..n : tt[k] = st[k + 1]
  BY <1>2
<1>4. /\ s \in Nat /\ a \in 1..s /\ \A k \in 1..(n + 1) : st[k] \in a..s
      /\ \A j, k \in 1..(n + 1) : j <= k => st[j] <= st[k]
  BY <1>1 DEF StampsOk
<1>5. /\ \A k \in 1..(n + 1) : Ready(ms, cur, k) => st[k] <= Before(st, a, k) + 1
      /\ Ready(ms, cur, n + 1 + 1) => Before(st, a, n + 1 + 1) = s
      /\ \A k \in 1..(n + 1) : Ready(ms, cur, k + 1) => AfterFirst(k, ms, v) = S[st[k]]
  BY <1>1 DEF StampsOk
<1>6. ASSUME NEW k \in 1..(n + 1), Ready(ls, now, k)
      PROVE  /\ Ready(ms, cur, k + 1)
             /\ AfterFirst(k - 1, ls, w) = S[st[k]]
  <2>1. k \in 1..Len(ms)
    BY <1>1
  <2>2. Ready(ms, cur, k + 1) /\ AfterFirst(k - 1, ls, w) = AfterFirst(k, ms, v)
    BY <1>6, <2>1, ReadAhead
  <2> QED
    BY <1>5, <2>2
<1>7. cur => Ready(ms, cur, 1)
  BY DEF Ready
<1>8. now => Ready(ls, now, 1)
  BY DEF Ready
<1> HIDE DEF ls, n, tt, s, Reads
<1>9. b = IF now THEN st[1] ELSE a
  BY <1>3 DEF Reached
<1> HIDE DEF b
<1>10. 1 \in 1..(n + 1) /\ 1 - 1 = 0 /\ \A k \in 1..n : k + 1 \in 1..(n + 1) /\ k \in 1..(n + 1)
  BY <1>1
<1>11. now => w = S[st[1]]
  <2>1. AfterFirst(0, ls, w) = w
    BY AfterNone DEF Reads
  <2> QED
    BY <1>6, <1>8, <1>10, <2>1
<1>12. st[1] \in a..s /\ (cur => st[1] <= a + 1)
  BY <1>4, <1>5, <1>7, <1>10 DEF Before
<1>13. b \in 1..s /\ \A k \in 1..n : tt[k] \in b..s
  <2>1. st[1] \in 1..s
    BY <1>4, <1>12
  <2>2. ASSUME NEW k \in 1..n PROVE tt[k] \in b..s
    <3>1. k + 1 \in 1..(n + 1) /\ 1 <= k + 1
      BY <1>1
    <3>2. st[k + 1] \in a..s /\ st[1] <= st[k + 1]
      BY <1>4, <1>10, <3>1
    <3>3. st[k + 1] \in st[1]..s
      BY <1>4, <2>1, <3>2
    <3> QED
      BY <1>3, <1>9, <3>2, <3>3
  <2> QED
    BY <1>4, <1>9, <2>1, <2>2
<1>14. ASSUME NEW j \in 1..n, NEW k \in 1..n, j <= k PROVE tt[j] <= tt[k]
  <2>1. j + 1 \in 1..(n + 1) /\ k + 1 \in 1..(n + 1) /\ j + 1 <= k + 1
    BY <1>1, <1>14
  <2> QED
    BY <1>3, <1>4, <2>1
<1>15. ASSUME NEW k \in 1..(n + 1), Ready(ls, now, k) PROVE Before(tt, b, k) = st[k]
  <2>1. CASE k = 1
    <3>1. now
      BY <1>15, <2>1 DEF Ready
    <3> QED
      BY <1>9, <2>1, <3>1 DEF Before
  <2>2. CASE k # 1
    <3>1. k - 1 \in 1..n /\ k - 1 + 1 = k
      BY <1>1, <2>2
    <3> QED
      BY <1>3, <2>2, <3>1 DEF Before
  <2> QED
    BY <2>1, <2>2
<1>16. \A k \in 1..(n + 1) : k + 1 # 1 /\ k + 1 - 1 = k
  BY <1>1
<1>17. ASSUME NEW k \in 1..n, Ready(ls, now, k) PROVE tt[k] <= Before(tt, b, k) + 1
  <2>1. Before(tt, b, k) = st[k] /\ Ready(ms, cur, k + 1)
    BY <1>6, <1>10, <1>15, <1>17
  <2>2. st[k + 1] <= Before(st, a, k + 1) + 1
    BY <1>5, <1>10, <2>1
  <2>3. Before(st, a, k + 1) = st[k]
    BY <1>10, <1>16 DEF Before
  <2> QED
    BY <1>3, <2>1, <2>2, <2>3
<1>18. Ready(ls, now, n + 1) => Before(tt, b, n + 1) = s
  <2>1. n + 1 \in 1..(n + 1)
    BY <1>1
  <2>2. Before(st, a, n + 1 + 1) = st[n + 1]
    BY <1>16, <2>1 DEF Before
  <2> QED
    BY <1>5, <1>6, <1>15, <2>1, <2>2
<1>19. ASSUME NEW k \in 1..n, Ready(ls, now, k + 1) PROVE AfterFirst(k, ls, w) = S[tt[k]]
  <2>1. k + 1 \in 1..(n + 1) /\ k + 1 - 1 = k
    BY <1>10, <1>16
  <2>2. AfterFirst(k + 1 - 1, ls, w) = S[st[k + 1]]
    BY <1>6, <1>19, <2>1
  <2> QED
    BY <1>3, <2>1, <2>2
<1>20. now => w = S[b]
  BY <1>9, <1>11
<1>21. StampsOk(ls, w, now, S, tt, b)
  BY <1>3, <1>13, <1>14, <1>17, <1>18, <1>19, <1>20 DEF StampsOk, n, s
<1> QED
  BY <1>3, <1>11, <1>12, <1>21 DEF ls, tt, b, s

\* What a step of the coordinator sends, and what it leaves alone.
LEMMA CoordinatorSends ==
  ASSUME HInv, Coordinator
  PROVE  /\ UNCHANGED <<items, equips, current>>
         /\ changes' = changes => truth' = truth
         /\ (down' = down \/ \E m : down' = Append(down, m))
         /\ down' = down => changes' = changes \/ ~ connected
<1>1. down \in Seq(Msgs) /\ changes \in Nat
  BY DEF HInv, TypeInv, DownInv, DownOk
<1>2. \A m : down \o <<m>> = Append(down, m) /\ down \o <<m>> # down
  <2> TAKE m
  <2>1. down \o <<m>> = Append(down, m)
    BY <1>1
  <2>2. Len(down \o <<m>>) = Len(down) + 1 /\ Len(down) \in Nat
    BY <1>1
  <2> QED
    BY <2>1, <2>2
<1>3. down \o <<>> = down
  BY <1>1
<1>4. changes + 1 # changes
  BY <1>1
<1>5. ASSUME NEW request, NEW messages, Reply(request, messages)
      PROVE  UNCHANGED <<items, equips, current>> /\ down' = down \o messages
  BY <1>5 DEF Reply, members
<1>6. ASSUME AnswerSession PROVE UNCHANGED <<truth, changes>> /\ (\E r, m : Reply(r, <<m>>))
  BY <1>6 DEF AnswerSession
<1>7. ASSUME AnswerRequest
      PROVE  \/ /\ UNCHANGED <<truth, changes>>
                /\ \E r : Reply(r, <<>>)
             \/ /\ UNCHANGED <<truth, changes>> \/ changes' = changes + 1
                /\ \E r, m : Reply(r, <<m>>)
  BY <1>7 DEF AnswerRequest, Change
<1>8. ASSUME PushChange
      PROVE  /\ UNCHANGED <<items, equips, current>> /\ changes' = changes + 1
             /\ \E m : down' = IF connected THEN Append(down, m) ELSE down
  BY <1>8 DEF PushChange, Change, members
<1>9. CASE AnswerSession
  BY <1>2, <1>5, <1>6, <1>9
<1>10. CASE AnswerRequest
  BY <1>2, <1>3, <1>4, <1>5, <1>7, <1>10
<1>11. CASE PushChange
  BY <1>2, <1>4, <1>8, <1>11
<1> QED
  BY <1>9, <1>10, <1>11 DEF Coordinator

\* What the steps that are neither the coordinator's nor a message's do to what is on the way.
LEMMA OtherSteps ==
  ASSUME HInv,
         HandleMessage \/ RetrieveMessage \/ SendSOCacheToGameServer \/ ClearAuthTicket
           \/ LinkUp \/ LinkLost
  PROVE  /\ UNCHANGED <<items, equips, truth>>
         /\ UNCHANGED <<down, current>> \/ (down' = <<>> /\ current' = FALSE)
BY DEF HandleMessage, RetrieveMessage, SendSOCacheToGameServer, ClearAuthTicket, LinkUp, LinkLost,
     members, link, OnClientHello, Forward, AnswerLocally, HandleViewPlayersProfileRequest,
     HandleClientCommendPlayerQuery, HandleClientCommendPlayer, HandleClientReportPlayer,
     HandleAdjustItemEquippedState, HandleUseItemRequest, HandleApplySticker,
     HandleStorePurchaseInit, HandleUnlockCrate, HandleCraft, HandleNameItem, HandleNameBaseItem,
     HandleRemoveItemName, HandleDeleteItemRequest, HandleItemAcknowledged, StoreGetUserData,
     ClientRequestJoinServerData, ClientReportServer

LEMMA StepsAreClientGCs == MirrorNext => Next
BY DEF MirrorNext, CoordinatorStep, ReadStep, OtherStep, Next

LEMMA CoordinatorMirrored ==
  ASSUME MirrorInv, CoordinatorStep, HInv'
  PROVE  MirrorInv' /\ (Mirror!Change \/ UNCHANGED Mirror!vars)
<1>1. /\ Coordinator /\ at' = at
      /\ states' = IF changes' = changes THEN states ELSE Append(states, truth')
      /\ stamps' = IF down' = down THEN stamps ELSE Append(stamps, Len(states'))
  BY DEF CoordinatorStep
<1>2. /\ HInv /\ StampsOk(down, Held, current, states, stamps, at)
      /\ states \in Seq([Objects -> Nat]) /\ states # <<>> /\ states[Len(states)] = truth
  BY DEF MirrorInv, StatesInv
<1>3. /\ Held' = Held /\ current' = current
      /\ changes' = changes => truth' = truth
      /\ down' = down \/ \E m : down' = Append(down, m)
      /\ down' = down => changes' = changes \/ ~ connected
  BY <1>1, <1>2, CoordinatorSends, HeldSame
<1>4. /\ truth' \in [Objects -> Nat] /\ down' \in Seq(Msgs) /\ down \in Seq(Msgs)
      /\ DownOk(down', Held', current', truth')
  BY <1>2 DEF HInv, TypeInv, DownInv, DownOk
<1> DEFINE T == states'
           o == truth'
           d == down'
<1>5. /\ T = IF changes' = changes THEN states ELSE Append(states, o)
      /\ o \in [Objects -> Nat] /\ (changes' = changes => o = truth)
  BY <1>1, <1>3, <1>4
<1> HIDE DEF T, o, d
<1>6. /\ Len(states) \in Nat /\ Len(states) >= 1 /\ Len(T) \in {Len(states), Len(states) + 1}
      /\ \A i \in 1..Len(states) : T[i] = states[i]
      /\ T \in Seq([Objects -> Nat]) /\ T # <<>> /\ T[Len(T)] = o
  <2>1. Len(states) \in Nat /\ Len(states) >= 1
    BY <1>2
  <2>2. CASE changes' = changes
    BY <1>2, <1>5, <2>1, <2>2
  <2>3. CASE changes' # changes
    <3>1. T = Append(states, o)
      BY <1>5, <2>3
    <3> QED
      BY <1>2, <1>5, <2>1, <3>1
  <2> QED
    BY <2>2, <2>3
<1>7. StampsOk(down', Held', current', T, stamps', at')
  <2>1. CASE down' = down
    <3>1. CASE changes' = changes
      BY <1>1, <1>2, <1>3, <1>5, <2>1, <3>1
    <3>2. CASE changes' # changes
      <4>1. down = <<>> /\ current = FALSE
        BY <1>2, <1>3, <2>1, <3>2 DEF HInv, LinkInv, TypeInv
      <4>2. stamps = <<>> /\ at \in 1..Len(states)
        BY <1>2, <4>1 DEF StampsOk
      <4>3. at \in 1..Len(T)
        BY <1>6, <4>2
      <4>4. StampsOk(<<>>, Held, FALSE, T, <<>>, at)
        BY <4>3, NothingStamped
      <4> QED
        BY <1>1, <1>3, <2>1, <4>1, <4>2, <4>4
    <3> QED
      BY <3>1, <3>2
  <2>2. CASE down' # down
    <3>1. PICK m : down' = Append(down, m)
      BY <1>3, <2>2
    <3>2. m \in Msgs
      <4>1. Append(down, m)[Len(down) + 1] = m /\ Len(Append(down, m)) = Len(down) + 1
            /\ Len(down) \in Nat
        BY <1>4
      <4>2. Append(down, m) \in Seq(Msgs)
        BY <1>4, <3>1
      <4> QED
        BY <4>1, <4>2
    <3>3. Ready(Append(down, m), current, Len(down) + 2)
            => AfterAll(Append(down, m), Held) = T[Len(T)]
      <4>1. DownOk(Append(down, m), Held, current, o)
        BY <1>3, <1>4, <3>1 DEF o
      <4>2. Len(Append(down, m)) + 1 = Len(down) + 2
        BY <1>4
      <4> QED
        BY <1>6, <4>1, <4>2 DEF DownOk
    <3>4. StampsOk(Append(down, m), Held, current, T, Append(stamps, Len(T)), at)
      BY <1>2, <1>4, <1>6, <3>2, <3>3, StampedSent
    <3>5. stamps' = Append(stamps, Len(T))
      BY <1>1, <2>2 DEF T
    <3> QED
      BY <1>1, <1>3, <3>1, <3>4, <3>5
  <2> QED
    BY <2>1, <2>2
<1>8. MirrorInv'
  BY <1>6, <1>7 DEF MirrorInv, StatesInv, T, o
<1>9. CASE changes' = changes
  BY <1>1, <1>3, <1>8, <1>9 DEF Mirror!vars
<1>10. CASE changes' # changes
  BY <1>1, <1>3, <1>4, <1>8, <1>10 DEF Mirror!Change
<1> QED
  BY <1>8, <1>9, <1>10

LEMMA ReadMirrored ==
  ASSUME MirrorInv, ReadStep
  PROVE  MirrorInv' /\ (Mirror!Follow \/ Mirror!Stray \/ Mirror!Subscribe \/ UNCHANGED Mirror!vars)
<1>1. /\ ProcessMessage /\ states' = states
      /\ stamps' = Tail(stamps) /\ at' = IF current' THEN Head(stamps) ELSE at
  BY DEF ReadStep
<1>2. /\ HInv /\ StampsOk(down, Held, current, states, stamps, at)
      /\ states \in Seq([Objects -> Nat]) /\ states # <<>> /\ states[Len(states)] = truth
  BY DEF MirrorInv, StatesInv
<1>3. HInv' /\ BroughtUp
  BY <1>1, <1>2, ProcessStep
<1>4. /\ down # <<>> /\ down' = Tail(down) /\ truth' = truth /\ (current => current')
      /\ current' => current \/ Head(down).kind = "cache"
      /\ current \/ Head(down).kind = "cache" => Held' = Applied(Head(down), Held)
  BY <1>3 DEF BroughtUp
<1> DEFINE w == Held'
           now == current'
<1>5. /\ Held \in [Objects -> Nat] /\ w \in [Objects -> Nat]
      /\ current \in BOOLEAN /\ now \in BOOLEAN
  <2>1. Held' \in [Objects -> Nat]
    BY <1>3, HeldOf DEF HInv, TypeInv, Held
  <2> QED
    BY <1>2, <1>3, <2>1, HeldType DEF HInv, TypeInv
<1>6. DownOk(down, Held, current, truth) /\ Len(states) \in Nat
  BY <1>2 DEF HInv, DownInv
<1>7. /\ now => current \/ Head(down).kind = "cache"
      /\ current \/ Head(down).kind = "cache" => w = Applied(Head(down), Held)
  BY <1>4
<1> HIDE DEF w, now
<1>8. Reads(down, Held, w, current, now, truth, states, stamps, at)
  BY <1>2, <1>4, <1>5, <1>6, <1>7 DEF Reads
<1>9. /\ StampsOk(Tail(down), w, now, states, Tail(stamps), Reached(stamps, now, at))
      /\ now => w = states[Head(stamps)] /\ Head(stamps) \in at..Len(states)
      /\ current => Head(stamps) <= at + 1
  BY <1>8, StampedRead
<1>10. at \in 1..Len(states) /\ (current => Held = states[at])
  BY <1>2 DEF StampsOk
<1>11. MirrorInv'
  <2>1. at' = Reached(stamps, now, at)
    BY <1>1 DEF Reached, now
  <2>2. StampsOk(down', w, now, states', stamps', at')
    BY <1>1, <1>4, <1>9, <2>1
  <2>3. StampsOk(down', Held', current', states', stamps', at')
    BY <2>2 DEF w, now
  <2>4. StatesInv'
    BY <1>1, <1>2, <1>4 DEF StatesInv
  <2> QED
    BY <1>3, <2>3, <2>4 DEF MirrorInv
<1>12. CASE ~ now
  <2>1. current = FALSE /\ current' = FALSE
    BY <1>4, <1>5, <1>12 DEF now
  <2>2. Mirror!Stray
    BY <1>1, <1>4, <1>5, <2>1 DEF Mirror!Stray, w
  <2> QED
    BY <1>11, <2>2
<1>13. CASE now /\ ~ current
  <2>1. current' = TRUE /\ at' = Head(stamps) /\ Held' = states[at'] /\ at' \in at..Len(states)
    BY <1>1, <1>5, <1>9, <1>13 DEF now, w
  <2>2. Mirror!Subscribe
    BY <1>1, <1>4, <1>13, <2>1 DEF Mirror!Subscribe
  <2> QED
    BY <1>11, <2>2
<1>14. CASE now /\ current
  <2>1. at' = Head(stamps) /\ Held' = states[at'] /\ current' = current
    BY <1>1, <1>5, <1>9, <1>14 DEF now, w
  <2>2. at' = at \/ (at' = at + 1 /\ at < Len(states))
    BY <1>6, <1>9, <1>10, <1>14, <2>1
  <2>3. CASE at' = at
    <3>1. Held' = Held
      BY <1>10, <1>14, <2>1, <2>3
    <3>2. UNCHANGED Mirror!vars
      BY <1>1, <1>4, <2>1, <2>3, <3>1 DEF Mirror!vars
    <3> QED
      BY <1>11, <3>2
  <2>4. CASE at' = at + 1 /\ at < Len(states)
    <3>1. Mirror!Follow
      BY <1>1, <1>4, <1>14, <2>1, <2>4 DEF Mirror!Follow
    <3> QED
      BY <1>11, <3>1
  <2> QED
    BY <2>2, <2>3, <2>4
<1> QED
  BY <1>12, <1>13, <1>14

LEMMA OtherMirrored ==
  ASSUME MirrorInv, OtherStep, HInv'
  PROVE  MirrorInv' /\ (Mirror!Lose \/ UNCHANGED Mirror!vars)
<1>1. /\ states' = states /\ at' = at
      /\ stamps' = IF down' = <<>> THEN <<>> ELSE stamps
      /\ HandleMessage \/ RetrieveMessage \/ SendSOCacheToGameServer \/ ClearAuthTicket
           \/ LinkUp \/ LinkLost
  BY DEF OtherStep
<1>2. /\ HInv /\ StampsOk(down, Held, current, states, stamps, at) /\ StatesInv
  BY DEF MirrorInv
<1>3. /\ UNCHANGED <<items, equips, truth>>
      /\ UNCHANGED <<down, current>> \/ (down' = <<>> /\ current' = FALSE)
  BY <1>1, <1>2, OtherSteps
<1>4. Held' = Held /\ truth' = truth
  BY <1>3, HeldSame
<1>5. StatesInv'
  BY <1>1, <1>2, <1>4 DEF StatesInv
<1>6. CASE UNCHANGED <<down, current>>
  <2>1. stamps' = stamps
    <3>1. down = <<>> => stamps = <<>>
      BY <1>2 DEF StampsOk
    <3> QED
      BY <1>1, <1>6, <3>1
  <2>2. MirrorInv'
    BY <1>1, <1>2, <1>4, <1>5, <1>6, <2>1 DEF MirrorInv
  <2>3. UNCHANGED Mirror!vars
    BY <1>1, <1>4, <1>6 DEF Mirror!vars
  <2> QED
    BY <2>2, <2>3
<1>7. CASE down' = <<>> /\ current' = FALSE
  <2>1. at \in 1..Len(states)
    BY <1>2 DEF StampsOk
  <2>2. StampsOk(<<>>, Held, FALSE, states, <<>>, at)
    BY <2>1, NothingStamped
  <2>3. StampsOk(down', Held', current', states', stamps', at')
    BY <1>1, <1>4, <1>7, <2>2
  <2>4. MirrorInv'
    BY <1>5, <2>3 DEF MirrorInv
  <2>5. Mirror!Lose
    BY <1>1, <1>4, <1>7 DEF Mirror!Lose
  <2> QED
    BY <2>4, <2>5
<1> QED
  BY <1>3, <1>6, <1>7

\* ClientGC keeps its copy as ObjectMirror promises: for any objects, requests, connections
\* and changes, what m_items and m_defaultEquips hold from the cache of a connection on is a
\* state of the coordinator's objects, and the messages handled take it through the states
\* that follow, one at a time and none twice.
THEOREM ClientGCMirrors == MirrorSpec => MirrorsObjects
<1>1. MirrorInit => MirrorInv /\ Mirror!Init
  <2> SUFFICES ASSUME MirrorInit PROVE MirrorInv /\ Mirror!Init
    OBVIOUS
  <2>1. Init /\ states = <<truth>> /\ stamps = <<>> /\ at = 1
    BY DEF MirrorInit
  <2>2. HInv
    BY <2>1, InvariantInit
  <2>3. truth \in [Objects -> Nat] /\ Held \in [Objects -> Nat]
    BY <2>2, HeldType DEF HInv, TypeInv
  <2>4. down = <<>> /\ current = FALSE
    BY <2>1 DEF Init
  <2>5. Len(<<truth>>) = 1 /\ <<truth>>[1] = truth /\ <<truth>> # <<>>
        /\ <<truth>> \in Seq([Objects -> Nat])
    BY <2>3
  <2>6. StatesInv
    BY <2>1, <2>5 DEF StatesInv
  <2>7. at \in 1..Len(states)
    BY <2>1, <2>5
  <2>8. StampsOk(<<>>, Held, FALSE, states, <<>>, at)
    BY <2>7, NothingStamped
  <2>9. MirrorInv
    BY <2>1, <2>2, <2>4, <2>6, <2>8 DEF MirrorInv
  <2>10. Mirror!Init
    BY <2>1, <2>3, <2>4 DEF Mirror!Init
  <2> QED
    BY <2>9, <2>10
<1>2. MirrorInv /\ [MirrorNext]_mirrorVars => MirrorInv' /\ [Mirror!Next]_(Mirror!vars)
  <2> SUFFICES ASSUME MirrorInv, [MirrorNext]_mirrorVars
               PROVE  MirrorInv' /\ [Mirror!Next]_(Mirror!vars)
    OBVIOUS
  <2>1. HInv /\ [Next]_vars
    BY StepsAreClientGCs DEF MirrorInv, mirrorVars
  <2>2. HInv'
    BY <2>1, InvariantStep
  <2>3. CASE CoordinatorStep
    BY <2>2, <2>3, CoordinatorMirrored DEF Mirror!Next
  <2>4. CASE ReadStep
    BY <2>4, ReadMirrored DEF Mirror!Next
  <2>5. CASE OtherStep
    BY <2>2, <2>5, OtherMirrored DEF Mirror!Next
  <2>6. CASE UNCHANGED mirrorVars
    <3>1. UNCHANGED <<vars, states, stamps, at>>
      BY <2>6 DEF mirrorVars
    <3>2. UNCHANGED <<items, equips, truth, down, current>>
      BY <3>1 DEF vars, members, link
    <3>3. Held' = Held
      BY <3>2, HeldSame
    <3>4. MirrorInv'
      BY <2>2, <3>1, <3>2, <3>3 DEF MirrorInv, StatesInv
    <3>5. UNCHANGED Mirror!vars
      BY <3>1, <3>2, <3>3 DEF Mirror!vars
    <3> QED
      BY <3>4, <3>5
  <2> QED
    BY <2>3, <2>4, <2>5, <2>6 DEF MirrorNext
<1> QED
  BY <1>1, <1>2, PTL DEF MirrorSpec, MirrorsObjects, Mirror!Spec
=============================================================================
