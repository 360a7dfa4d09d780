---------------------------- MODULE MessageProofs ----------------------------
(***************************************************************************)
(* Proofs about messages: how the chunks of one are collected              *)
(* (ChunkAssembly) and how one is written and read (GCMessageCodec).  The  *)
(* two share no variable.                                                  *)
(*                                                                         *)
(* ChunkAssembly.  The collection of chunks stays within its bounds, and   *)
(* implements MessageDelivery, for every set of types, message size and    *)
(* number of faults.  The inductive invariant is TypeOK together with      *)
(* InBounds: that an entry kept is not full is what keeps the next chunk   *)
(* within the vector, and that expectedChunks is never more than MaxChunks *)
(* is what bounds it.  For the refinement it also says what is on the      *)
(* wire: of each type the rest of the message being collected, then whole  *)
(* messages, each once (DeliveryInv).                                      *)
(*                                                                         *)
(* GCMessageCodec.  What is handled is what was written, for any ids,      *)
(* names, payloads and number of items, wherever a message is cut and      *)
(* whatever is behind it.  The inductive invariant (CodecInv) has a part   *)
(* for each part of the reading: the type, the header, the handler's       *)
(* fields, a trade-up's items and the end of a protobuf message.  Each     *)
(* says which reads are left and where in the message the reader then is,  *)
(* so that the next read meets the field it is meant for; that the reader  *)
(* stays within its message is what a protobuf message needs, of which     *)
(* all that is left is read.                                               *)
(***************************************************************************)
EXTENDS ChunkAssembly, GCMessageCodec, SequenceTheorems, WellFoundedInduction, TLAPS

IInv == TypeOK /\ InBounds

\* A message of the coordinator is a sequence of chunks of its type.
LEMMA WholeMessageType ==
  ASSUME NEW t \in Types, NEW m \in Ids, NEW n \in 1..MaxChunks
  PROVE  WholeMessage(t, m, n) \in Seq(Chunks)
<1> USE ChunkAssumption
<1>1. n \in Nat /\ 1..n \subseteq 1..MaxChunks
  OBVIOUS
<1>2. \A i \in 1..n : [type |-> t, count |-> n, part |-> [message |-> m, index |-> i]] \in Chunks
  BY <1>1 DEF Chunks, Parts
<1>3. WholeMessage(t, m, n) \in [1..n -> Chunks]
  BY <1>2 DEF WholeMessage
<1> QED
  BY <1>1, <1>3, SeqDef

\* Collecting a chunk of a message of several chunks in an entry that is within its
\* bounds gives an entry that is complete, or one within its bounds.
LEMMA CollectedBounds ==
  ASSUME NEW entry \in Entries, NEW chunk \in Chunks, chunk.count > 1,
         entry = NoEntry \/ Len(entry.chunks) \in 1..entry.expected - 1
  PROVE  /\ Collected(entry, chunk) \in Entries
         /\ Collected(entry, chunk).chunks \in Seq(Parts)
         /\ Len(Collected(entry, chunk).chunks) <= MaxChunks
         /\ ~Complete(Collected(entry, chunk)) =>
              Len(Collected(entry, chunk).chunks) \in 1..Collected(entry, chunk).expected - 1
<1> USE ChunkAssumption
<1> DEFINE new == Collected(entry, chunk)
<1>1. chunk.part \in Parts /\ chunk.count \in 1..MaxChunks
  BY DEF Chunks
<1>2. entry.chunks \in Seq(Parts) /\ entry.expected \in 0..MaxChunks
  BY DEF Entries
<1>3. /\ new.chunks \in Seq(Parts)
      /\ Len(new.chunks) = Len(entry.chunks) + 1
  BY <1>1, <1>2, AppendProperties DEF Collected
<1>4. Len(entry.chunks) \in Nat
  BY <1>2, LenProperties
<1>5. CASE entry = NoEntry
  <2>1. entry.chunks = <<>> /\ Len(entry.chunks) = 0
    BY <1>5 DEF NoEntry
  <2>2. new.expected = chunk.count
    BY <2>1 DEF Collected
  <2>3. new \in Entries
    BY <1>1, <1>3, <2>1 DEF Collected, Entries
  <2> QED
    BY <1>1, <1>3, <2>1, <2>2, <2>3 DEF Complete
<1>6. CASE Len(entry.chunks) \in 1..entry.expected - 1
  <2>1. entry.chunks # <<>>
    BY <1>2, <1>6
  <2>2. new.expected = entry.expected
    BY <2>1 DEF Collected
  <2>3. new \in Entries
    BY <1>2, <1>3, <2>1 DEF Collected, Entries
  <2> QED
    BY <1>2, <1>3, <1>4, <1>6, <2>2, <2>3 DEF Complete
<1> QED
  BY <1>5, <1>6

\* The initial states satisfy the invariant.
LEMMA InitIInv == Init => IInv
<1> SUFFICES ASSUME Init PROVE IInv
  OBVIOUS
<1> USE ChunkAssumption DEF Init
<1>1. NoEntry \in Entries /\ Len(NoEntry.chunks) = 0
  BY DEF NoEntry, Entries
<1>2. TypeOK
  BY <1>1 DEF TypeOK, NothingPending
<1>3. InBounds
  BY DEF InBounds, NothingPending
<1> QED
  BY <1>2, <1>3 DEF IInv

\* Every step keeps the invariant: one step of the proof for each action.
LEMMA NextIInv == IInv /\ [Next \/ Switch]_vars => IInv'
<1> SUFFICES ASSUME IInv, [Next \/ Switch]_vars PROVE IInv'
  OBVIOUS
<1> USE ChunkAssumption
<1>1. TypeOK /\ InBounds
  BY DEF IInv
<1>2. NothingPending \in [Types -> Entries] /\ Len(NoEntry.chunks) = 0
  BY DEF NothingPending, NoEntry, Entries
<1>3. ASSUME NEW t \in Types, BeginMessage(t) PROVE IInv'
  <2>1. PICK n \in 1..MaxChunks :
          sending' = [sending EXCEPT ![t] = WholeMessage(t, sent + 1, n)]
    BY <1>3 DEF BeginMessage
  <2>2. sent + 1 \in Ids /\ sent' \in 0..MaxMessages
    BY <1>1, <1>3 DEF BeginMessage, TypeOK, Ids
  <2>3. sending' \in [Types -> Seq(Chunks)]
    BY <1>1, <2>1, <2>2, WholeMessageType DEF TypeOK
  <2> QED
    BY <1>1, <1>3, <2>2, <2>3 DEF BeginMessage, IInv, TypeOK, InBounds
<1>4. ASSUME NEW t \in Types, SendChunk(t) PROVE IInv'
  <2>1. sending[t] \in Seq(Chunks) /\ sending[t] # <<>>
    BY <1>1, <1>4 DEF SendChunk, TypeOK
  <2>2. Head(sending[t]) \in Chunks /\ Tail(sending[t]) \in Seq(Chunks)
    BY <2>1, HeadTailProperties
  <2>3. wire' \in Seq(Chunks)
    BY <1>1, <1>4, <2>2, AppendProperties DEF SendChunk, TypeOK
  <2>4. sending' \in [Types -> Seq(Chunks)]
    BY <1>1, <1>4, <2>2 DEF SendChunk, TypeOK
  <2> QED
    BY <1>1, <1>4, <2>3, <2>4 DEF SendChunk, IInv, TypeOK, InBounds
<1>5. ASSUME wire # <<>> PROVE Head(wire) \in Chunks /\ Tail(wire) \in Seq(Chunks)
  BY <1>1, <1>5, HeadTailProperties DEF TypeOK
<1>6. CASE ReadSingle
  <2>1. Head(wire).part \in Parts /\ wire' \in Seq(Chunks)
    BY <1>5, <1>6 DEF ReadSingle, Chunks
  <2>2. <<Head(wire).part>> \in Seq(Parts)
    BY <2>1
  <2>3. received' \in Seq(Seq(Parts))
    BY <1>1, <1>6, <2>2, AppendProperties DEF ReadSingle, TypeOK
  <2> QED
    BY <1>1, <1>6, <2>1, <2>3 DEF ReadSingle, IInv, TypeOK, InBounds
<1>7. CASE HandleChunkMsg
  <2> DEFINE t == Head(wire).type
             entry == Collected(pending[t], Head(wire))
  <2>1. Head(wire) \in Chunks /\ wire' \in Seq(Chunks) /\ Head(wire).count > 1
    BY <1>5, <1>7 DEF HandleChunkMsg
  <2>2. t \in Types
    BY <2>1 DEF Chunks
  <2>3. pending[t] \in Entries /\ pending \in [Types -> Entries]
    BY <1>1, <2>2 DEF TypeOK
  <2>4. pending[t] = NoEntry \/ Len(pending[t].chunks) \in 1..pending[t].expected - 1
    BY <1>1, <2>2 DEF InBounds
  <2>5. /\ entry \in Entries /\ entry.chunks \in Seq(Parts)
        /\ Len(entry.chunks) <= MaxChunks
        /\ ~Complete(entry) => Len(entry.chunks) \in 1..entry.expected - 1
    BY <2>1, <2>3, <2>4, CollectedBounds
  <2>6. CASE Complete(entry)
    <3>1. received' = Append(received, entry.chunks) /\ pending' = [pending EXCEPT ![t] = NoEntry]
      BY <1>7, <2>6 DEF HandleChunkMsg
    <3>2. received' \in Seq(Seq(Parts))
      BY <1>1, <2>5, <3>1, AppendProperties DEF TypeOK
    <3>3. NoEntry \in Entries
      BY DEF NoEntry, Entries
    <3>4. \A u \in Types : pending'[u] = NoEntry \/ pending'[u] = pending[u]
      BY <2>3, <3>1
    <3>5. pending' \in [Types -> Entries]
      BY <2>3, <3>1, <3>3
    <3> HIDE DEF t, entry
    <3>6. \A u \in Types : Len(pending'[u].chunks) <= MaxChunks
      <4> SUFFICES ASSUME NEW u \in Types PROVE Len(pending'[u].chunks) <= MaxChunks
        OBVIOUS
      <4>1. CASE pending'[u] = NoEntry
        BY <1>2, <4>1
      <4>2. CASE pending'[u] = pending[u]
        BY <1>1, <4>2 DEF TypeOK
      <4> QED
        BY <3>4, <4>1, <4>2
    <3>7. TypeOK'
      BY <1>1, <1>7, <2>1, <3>2, <3>5, <3>6 DEF HandleChunkMsg, TypeOK
    <3>8. InBounds'
      BY <1>1, <3>4 DEF InBounds
    <3> QED
      BY <3>7, <3>8 DEF IInv
  <2>7. CASE ~Complete(entry)
    <3>1. received' = received /\ pending' = [pending EXCEPT ![t] = entry]
      BY <1>7, <2>7 DEF HandleChunkMsg
    <3>2. \A u \in Types : pending'[u] = entry \/ pending'[u] = pending[u]
      BY <2>3, <3>1
    <3>3. pending' \in [Types -> Entries]
      BY <2>3, <2>5, <3>1
    <3>4. \A u \in Types : Len(pending'[u].chunks) <= MaxChunks
      BY <1>1, <2>5, <3>2 DEF TypeOK
    <3>5. Len(entry.chunks) \in 1..entry.expected - 1
      BY <2>5, <2>7
    <3> HIDE DEF t, entry
    <3>6. TypeOK'
      BY <1>1, <1>7, <2>1, <3>1, <3>3, <3>4 DEF HandleChunkMsg, TypeOK
    <3>7. InBounds'
      BY <1>1, <3>2, <3>5 DEF InBounds
    <3> QED
      BY <3>6, <3>7 DEF IInv
  <2> QED
    BY <2>6, <2>7
<1>8. ASSUME SocketGone
      PROVE  /\ sending' \in [Types -> Seq(Chunks)] /\ wire' \in Seq(Chunks)
             /\ received' = received /\ sent' = sent /\ ended' \in 0..MaxMessages
  BY <1>1, <1>8 DEF SocketGone, TypeOK
<1>9. CASE Disconnect
  <2>1. pending' = NothingPending
    BY <1>9 DEF Disconnect, PendingAfterDisconnect
  <2>2. \A t \in Types : pending'[t] = NoEntry
    BY <2>1 DEF NothingPending
  <2>3. TypeOK'
    BY <1>1, <1>2, <1>8, <1>9, <2>1, <2>2 DEF Disconnect, TypeOK
  <2> QED
    BY <2>2, <2>3 DEF IInv, InBounds
<1>10. CASE Switch
  BY <1>1, <1>8, <1>10 DEF Switch, IInv, TypeOK, InBounds
<1>11. CASE UNCHANGED vars
  BY <1>1, <1>11 DEF vars, IInv, TypeOK, InBounds
<1> QED
  BY <1>3, <1>4, <1>6, <1>7, <1>9, <1>10, <1>11 DEF Next, Update

\* The invariant holds in every reachable state, switches of the socket included.
THEOREM InductiveInvariant == SwitchingSpec => []IInv
<1> QED
  BY InitIInv, NextIInv, PTL DEF SwitchingSpec

\* Without switches there are only fewer behaviours.
LEMMA SpecSwitches == Spec => SwitchingSpec
<1>1. [Next]_vars => [Next \/ Switch]_vars
  OBVIOUS
<1> QED
  BY <1>1, PTL DEF Spec, SwitchingSpec

\* m_pendingMessages and the chunks under way have their types and sizes.
THEOREM TypeCorrect == Spec => []TypeOK
<1>1. IInv => TypeOK
  BY DEF IInv
<1> QED
  BY <1>1, SpecSwitches, InductiveInvariant, PTL

\* HandleChunkMsg never stores a chunk beyond the vector it made for the message,
\* even if the chunks it gets are of different sockets.
THEOREM ChunksStayInBounds == SwitchingSpec => []InBounds
<1>1. IInv => InBounds
  BY DEF IInv
<1> QED
  BY <1>1, InductiveInvariant, PTL

-----------------------------------------------------------------------------
(***************************************************************************)
(* ChunkAssembly implements MessageDelivery.  The chunks of a type that    *)
(* have not been read are taken as a set, and what is known of them is:    *)
(* they are read in the order of their messages and places (InOrder);      *)
(* none of them is missing, so that each is followed by the next of its    *)
(* message and preceded by the one before, unless that was the last one    *)
(* read (Chained); and an entry kept is the front of a message whose next  *)
(* chunk is still to come, before all others (PendingFront).               *)
(***************************************************************************)

\* The order in which the coordinator sends the chunks of a type.
Before(c, d) ==
  \/ c.part.message < d.part.message
  \/ c.part.message = d.part.message /\ c.part.index < d.part.index

\* The next chunk of the same message.
Successor(c) ==
  [type |-> c.type, count |-> c.count,
   part |-> [message |-> c.part.message, index |-> c.part.index + 1]]

\* The chunk collected last of those pending.
LastRead(t) ==
  [type |-> t, count |-> pending[t].expected,
   part |-> pending[t].chunks[Len(pending[t].chunks)]]

InOrder ==
  /\ \A i, j \in DOMAIN wire : i < j /\ wire[i].type = wire[j].type => Before(wire[i], wire[j])
  /\ \A t \in Types : \A j \in DOMAIN sending[t] :
       /\ sending[t][j].type = t
       /\ \A i \in DOMAIN wire : wire[i].type = t => Before(wire[i], sending[t][j])
       /\ \A i \in DOMAIN sending[t] : i < j => Before(sending[t][i], sending[t][j])

Chained ==
  \A t \in Types : \A c \in Unread(t) :
    /\ c.part.message <= sent
    /\ c.part.index <= c.count
    /\ c.part.index < c.count => Successor(c) \in Unread(t)
    /\ c.part.index > 1 => \/ \E d \in Unread(t) : c = Successor(d)
                           \/ pending[t] # NoEntry /\ c = Successor(LastRead(t))
    /\ \A d \in Unread(t) : c.part.message = d.part.message => c.count = d.count

PendingFront ==
  \A t \in Types :
    pending[t] # NoEntry =>
      /\ Whole(pending[t].chunks)
      /\ Successor(LastRead(t)) \in Unread(t)
      /\ \A c \in Unread(t) : Before(LastRead(t), c)

DeliveryInv == IInv /\ InOrder /\ Chained /\ PendingFront

LEMMA UnreadChunks ==
  ASSUME IInv, NEW t \in Types
  PROVE  /\ Unread(t) \subseteq Chunks
         /\ \A c \in Unread(t) : c.type = t
<1>1. wire \in Seq(Chunks) /\ sending[t] \in Seq(Chunks)
  BY DEF IInv, TypeOK
<1>2. \A i \in DOMAIN wire : wire[i] \in Chunks
  BY <1>1
<1>3. \A i \in DOMAIN sending[t] : sending[t][i] \in Chunks
  BY <1>1
<1> QED
  BY <1>2, <1>3 DEF Unread, Range

\* The order is a strict one.
LEMMA BeforeStrict ==
  /\ \A c \in Chunks : ~ Before(c, c)
  /\ \A c, d \in Chunks : Before(c, d) => ~ Before(d, c)
  /\ \A c \in Chunks : Before(c, Successor(c))
<1>1. \A c \in Chunks : c.part.message \in Nat /\ c.part.index \in Nat
  BY ChunkAssumption DEF Chunks, Parts, Ids
<1> QED
  BY <1>1 DEF Before, Successor

\* What is read next is the first of its type, and there is none like it.
LEMMA ReadFirst ==
  ASSUME IInv, InOrder, wire # <<>>, wire' = Tail(wire), sending' = sending,
         NEW c, c = Head(wire)
  PROVE  /\ c \in Chunks /\ c.type \in Types
         /\ c \in Unread(c.type)
         /\ \A d \in Unread(c.type) : d = c \/ Before(c, d)
         /\ Unread(c.type)' = Unread(c.type) \ {c}
         /\ \A u \in Types \ {c.type} : Unread(u)' = Unread(u)
         /\ InOrder'
<1> DEFINE t == c.type
<1>1. wire \in Seq(Chunks)
  BY DEF IInv, TypeOK
<1>2. /\ Len(wire) \in Nat /\ Len(wire) > 0 /\ DOMAIN wire = 1..Len(wire)
      /\ c = wire[1] /\ c \in Chunks
      /\ wire' \in Seq(Chunks) /\ Len(wire') = Len(wire) - 1 /\ DOMAIN wire' = 1..(Len(wire) - 1)
      /\ \A i \in 1..(Len(wire) - 1) : wire'[i] = wire[i + 1]
  BY <1>1
<1>3. t \in Types
  BY <1>2 DEF Chunks
<1>4. c \in Unread(t)
  BY <1>2 DEF Unread, Range
<1>5. \A j \in DOMAIN wire : wire[j].type = t => j = 1 \/ Before(c, wire[j])
  BY <1>2 DEF InOrder
<1>6. \A j \in DOMAIN sending[t] : Before(c, sending[t][j])
  BY <1>2, <1>3 DEF InOrder
<1>7. \A d \in Unread(t) : d = c \/ Before(c, d)
  BY <1>2, <1>5, <1>6 DEF Unread, Range
<1>8. Range(wire) = Range(wire') \cup {c}
  <2>1. \A i \in DOMAIN wire : i # 1 => wire[i] = wire'[i - 1] /\ i - 1 \in DOMAIN wire'
    BY <1>2
  <2>2. \A i \in DOMAIN wire' : wire'[i] = wire[i + 1] /\ i + 1 \in DOMAIN wire
    BY <1>2
  <2>3. 1 \in DOMAIN wire /\ wire[1] = c
    BY <1>2
  <2>4. ASSUME NEW x \in Range(wire) PROVE x \in Range(wire') \cup {c}
    <3>1. PICK i \in DOMAIN wire : x = wire[i]
      BY DEF Range
    <3>2. CASE i # 1
      BY <2>1, <3>1, <3>2 DEF Range
    <3> QED
      BY <2>3, <3>1, <3>2
  <2>5. ASSUME NEW x \in Range(wire') PROVE x \in Range(wire)
    BY <2>2 DEF Range
  <2> QED
    BY <2>3, <2>4, <2>5 DEF Range
<1>9. c \notin Range(wire') /\ c \notin Range(sending[t])
  <2>1. \A i \in DOMAIN wire' : wire'[i] # c
    <3> SUFFICES ASSUME NEW i \in DOMAIN wire', wire'[i] = c PROVE FALSE
      OBVIOUS
    <3>1. wire[i + 1] = c /\ i + 1 \in DOMAIN wire /\ i + 1 # 1
      BY <1>2
    <3>2. Before(c, c)
      BY <1>5, <3>1
    <3> QED
      BY <1>2, <3>2, BeforeStrict
  <2>2. \A j \in DOMAIN sending[t] : sending[t][j] # c
    BY <1>2, <1>6, BeforeStrict
  <2> QED
    BY <2>1, <2>2 DEF Range
<1>10. Unread(t)' = Unread(t) \ {c}
  BY <1>8, <1>9 DEF Unread
<1>11. \A u \in Types \ {t} : Unread(u)' = Unread(u)
  BY <1>8 DEF Unread
<1>12. InOrder'
  <2>1. \A i \in DOMAIN wire' : i + 1 \in DOMAIN wire /\ wire'[i] = wire[i + 1] /\ i \in Nat
    BY <1>2
  <2>2. \A i, j \in DOMAIN wire' :
          i < j /\ wire'[i].type = wire'[j].type => Before(wire'[i], wire'[j])
    BY <2>1 DEF InOrder
  <2> QED
    BY <2>1, <2>2 DEF InOrder
<1> QED
  BY <1>2, <1>3, <1>4, <1>7, <1>10, <1>11, <1>12

\* What is read next goes on with what is pending of its type, or begins a message.
LEMMA ReadNext ==
  ASSUME DeliveryInv, NEW t \in Types, NEW c \in Unread(t),
         \A d \in Unread(t) : d = c \/ Before(c, d)
  PROVE  /\ pending[t] = NoEntry => c.part.index = 1
         /\ pending[t] # NoEntry => c = Successor(LastRead(t))
<1>1. c \in Chunks /\ c.part.index \in Nat \ {0}
  BY UnreadChunks, ChunkAssumption DEF DeliveryInv, Chunks, Parts
<1>2. ASSUME NEW d \in Unread(t), c = Successor(d) PROVE FALSE
  <2>1. d \in Chunks
    BY UnreadChunks DEF DeliveryInv
  <2>2. Before(d, c)
    BY <1>2, <2>1, BeforeStrict
  <2> QED
    BY <1>1, <2>1, <2>2, BeforeStrict
<1>3. CASE pending[t] = NoEntry
  <2>1. ~ (c.part.index > 1)
    BY <1>2, <1>3 DEF DeliveryInv, Chained
  <2> QED
    BY <1>1, <1>3, <2>1
<1>4. CASE pending[t] # NoEntry
  <2> DEFINE s == Successor(LastRead(t))
  <2>1. s \in Unread(t) /\ Before(LastRead(t), c)
    BY <1>4 DEF DeliveryInv, PendingFront
  <2>2. s \in Chunks
    BY <2>1, UnreadChunks DEF DeliveryInv
  <2>3. /\ s.part.message = LastRead(t).part.message
        /\ s.part.index = LastRead(t).part.index + 1
    BY DEF Successor
  <2>4. LastRead(t).part \in Parts
    <3>1. pending[t] \in Entries /\ Len(pending[t].chunks) \in 1..pending[t].expected - 1
      BY <1>4 DEF DeliveryInv, IInv, TypeOK, InBounds
    <3>2. pending[t].chunks \in Seq(Parts)
      BY <3>1 DEF Entries
    <3>3. pending[t].chunks[Len(pending[t].chunks)] \in Parts
      BY <3>1, <3>2 DEF Entries
    <3> QED
      BY <3>3 DEF LastRead
  <2>5. ~ Before(c, s)
    <3> HIDE DEF s
    <3>1. /\ LastRead(t).part.message \in Nat /\ LastRead(t).part.index \in Nat
          /\ c.part.message \in Nat /\ c.part.index \in Nat
      BY <1>1, <2>4, ChunkAssumption DEF Parts, Chunks, Ids
    <3> QED
      BY <2>1, <2>3, <3>1 DEF Before
  <2> QED
    BY <1>4, <2>1, <2>5
<1> QED
  BY <1>3, <1>4

\* The entry with the chunk read next is the front of its message, up to that chunk.
LEMMA CollectedFront ==
  ASSUME DeliveryInv, NEW t \in Types, NEW c \in Unread(t),
         \A d \in Unread(t) : d = c \/ Before(c, d)
  PROVE  /\ Whole(Collected(pending[t], c).chunks)
         /\ Collected(pending[t], c).chunks \in Seq(Parts)
         /\ Len(Collected(pending[t], c).chunks) = c.part.index
         /\ Collected(pending[t], c).chunks[c.part.index] = c.part
         /\ Collected(pending[t], c).chunks[1].message = c.part.message
         /\ Collected(pending[t], c).expected = c.count
<1> DEFINE old == pending[t].chunks
           new == Collected(pending[t], c).chunks
<1>1. c \in Chunks /\ c.part \in Parts /\ c.part.index \in Nat
  BY UnreadChunks, ChunkAssumption DEF DeliveryInv, Chunks, Parts
<1>2. pending[t] \in Entries /\ old \in Seq(Parts)
  BY DEF DeliveryInv, IInv, TypeOK, Entries
<1>3. new = Append(old, c.part) /\ new \in Seq(Parts)
  BY <1>1, <1>2 DEF Collected
<1>4. CASE pending[t] = NoEntry
  <2>1. old = <<>> /\ c.part.index = 1
    BY <1>4, ReadNext DEF NoEntry
  <2>2. new = <<c.part>>
    BY <1>3, <2>1
  <2>3. Collected(pending[t], c).expected = c.count
    BY <2>1 DEF Collected
  <2> HIDE DEF new
  <2> QED
    BY <1>3, <2>1, <2>2, <2>3 DEF Whole, new
<1>5. CASE pending[t] # NoEntry
  <2>1. Len(old) \in 1..pending[t].expected - 1
    BY <1>5 DEF DeliveryInv, IInv, InBounds
  <2>2. Len(old) \in Nat \ {0} /\ old # <<>> /\ DOMAIN old = 1..Len(old)
    BY <1>2, <2>1 DEF Entries
  <2>3. c = Successor(LastRead(t)) /\ Whole(old)
    BY <1>5, ReadNext DEF DeliveryInv, PendingFront
  <2>4. /\ c.part.message = old[Len(old)].message
        /\ c.part.index = old[Len(old)].index + 1
        /\ c.count = pending[t].expected
    BY <2>3 DEF Successor, LastRead
  <2>5. c.part.message = old[1].message /\ c.part.index = Len(old) + 1
    BY <2>2, <2>3, <2>4 DEF Whole
  <2>6. /\ Len(new) = Len(old) + 1 /\ new[Len(old) + 1] = c.part
        /\ DOMAIN new = 1..(Len(old) + 1)
        /\ \A i \in 1..Len(old) : new[i] = old[i]
    BY <1>1, <1>2, <1>3, <2>2
  <2>7. Collected(pending[t], c).expected = c.count
    BY <2>2, <2>4 DEF Collected
  <2> HIDE DEF new
  <2>8. new # <<>> /\ new[1].message = c.part.message
    BY <2>2, <2>5, <2>6
  <2>9. \A i \in DOMAIN new : new[i].message = new[1].message /\ new[i].index = i
    <3> SUFFICES ASSUME NEW i \in DOMAIN new
                 PROVE  new[i].message = new[1].message /\ new[i].index = i
      OBVIOUS
    <3>1. CASE i \in 1..Len(old)
      BY <2>2, <2>3, <2>5, <2>6, <2>8, <3>1 DEF Whole
    <3>2. CASE i = Len(old) + 1
      BY <2>5, <2>6, <2>8, <3>2
    <3> QED
      BY <2>2, <2>6, <3>1, <3>2
  <2> QED
    BY <1>3, <2>5, <2>6, <2>7, <2>8, <2>9 DEF Whole, new
<1> QED
  BY <1>4, <1>5

\* Reading a chunk and collecting it, or handing over the message it completes, keeps
\* the chunks in order and their chain whole; the messages in transit lose the first of
\* them, with its last chunk, or none.
LEMMA ReadKeeps ==
  ASSUME DeliveryInv, wire # <<>>, wire' = Tail(wire), sending' = sending, sent' = sent,
         NEW c, c = Head(wire), NEW t, t = c.type,
         pending' = [pending EXCEPT ![t] = IF IsLast(c) THEN NoEntry
                                           ELSE Collected(pending[t], c)]
  PROVE  /\ t \in Types
         /\ InOrder' /\ Chained' /\ PendingFront'
         /\ IsLast(c) =>
              /\ c.part.message \in Transit[t]
              /\ \A m \in Transit[t] : c.part.message <= m
              /\ Transit' = [Transit EXCEPT ![t] = @ \ {c.part.message}]
         /\ ~ IsLast(c) => Transit' = Transit
<1> DEFINE entry == Collected(pending[t], c)
<1>1. /\ c \in Chunks /\ t \in Types /\ c \in Unread(t)
      /\ \A d \in Unread(t) : d = c \/ Before(c, d)
      /\ Unread(t)' = Unread(t) \ {c}
      /\ \A u \in Types \ {t} : Unread(u)' = Unread(u)
      /\ InOrder'
  BY ReadFirst DEF DeliveryInv
<1>2. pending \in [Types -> Entries]
  BY DEF DeliveryInv, IInv, TypeOK
<1>3. \A u \in Types \ {t} : pending'[u] = pending[u] /\ LastRead(u)' = LastRead(u)
  BY <1>2 DEF LastRead
<1>4. \A d \in Unread(t) : d \in Chunks /\ d.type = t
  BY <1>1, UnreadChunks DEF DeliveryInv
<1>5. \A d \in Unread(t) : Successor(d) # c
  <2>1. \A d \in Unread(t) : Successor(d) = c => Before(d, c)
    BY <1>4, BeforeStrict
  <2> QED
    BY <1>1, <1>4, <2>1, BeforeStrict
<1>6. /\ Whole(entry.chunks) /\ Len(entry.chunks) = c.part.index
      /\ entry.chunks[c.part.index] = c.part /\ entry.expected = c.count
  BY <1>1, CollectedFront
<1>7. ASSUME ~ IsLast(c)
      PROVE  pending'[t] = entry /\ entry # NoEntry /\ LastRead(t)' = c
  <2>1. pending'[t] = entry
    BY <1>1, <1>2, <1>7
  <2>2. entry # NoEntry
    <3> HIDE DEF entry
    <3>1. entry.chunks # <<>>
      BY <1>6 DEF Whole
    <3>2. NoEntry.chunks = <<>>
      BY DEF NoEntry
    <3> QED
      BY <3>1, <3>2
  <2>3. LastRead(t)' = [type |-> t, count |-> c.count, part |-> c.part]
    BY <1>6, <2>1 DEF LastRead
  <2>4. c = [type |-> t, count |-> c.count, part |-> c.part]
    BY <1>1 DEF Chunks
  <2> QED
    BY <2>1, <2>2, <2>3, <2>4
<1>8. ASSUME IsLast(c) PROVE pending'[t] = NoEntry
  BY <1>1, <1>2, <1>8
<1> HIDE DEF entry
<1>9. Chained'
  <2> SUFFICES ASSUME NEW u \in Types, NEW d \in Unread(u)'
               PROVE  /\ d.part.message <= sent
                      /\ d.part.index <= d.count
                      /\ d.part.index < d.count => Successor(d) \in Unread(u)'
                      /\ d.part.index > 1 =>
                           \/ \E e \in Unread(u)' : d = Successor(e)
                           \/ pending'[u] # NoEntry /\ d = Successor(LastRead(u)')
                      /\ \A e \in Unread(u)' :
                           d.part.message = e.part.message => d.count = e.count
    BY DEF Chained
  <2>1. CASE u # t
    <3>1. Unread(u)' = Unread(u) /\ pending'[u] = pending[u] /\ LastRead(u)' = LastRead(u)
      BY <1>1, <1>3, <2>1
    <3> QED
      BY <1>1, <3>1 DEF DeliveryInv, Chained
  <2>2. CASE u = t
    <3>1. d \in Unread(t) /\ d # c /\ d \in Chunks /\ Before(c, d)
      BY <1>1, <1>4, <2>2
    <3>2. /\ d.part.message <= sent /\ d.part.index <= d.count
          /\ d.part.index < d.count => Successor(d) \in Unread(t)
          /\ \A e \in Unread(t) : d.part.message = e.part.message => d.count = e.count
      BY <1>1, <3>1 DEF DeliveryInv, Chained
    <3>3. d.part.index < d.count => Successor(d) \in Unread(t)'
      BY <1>1, <1>5, <3>1, <3>2
    <3>4. ASSUME d.part.index > 1
          PROVE  \/ \E e \in Unread(t)' : d = Successor(e)
                 \/ pending'[t] # NoEntry /\ d = Successor(LastRead(t)')
      <4>1. \/ \E e \in Unread(t) : d = Successor(e)
            \/ pending[t] # NoEntry /\ d = Successor(LastRead(t))
        BY <1>1, <3>1, <3>4 DEF DeliveryInv, Chained
      <4>2. pending[t] # NoEntry => d # Successor(LastRead(t))
        BY <1>1, <3>1, ReadNext
      <4>3. PICK e \in Unread(t) : d = Successor(e)
        BY <4>1, <4>2
      <4>4. CASE e # c
        BY <1>1, <4>3, <4>4
      <4>5. CASE e = c
        <5>1. d.part.index = c.part.index + 1 /\ d.count = c.count
          BY <4>3, <4>5 DEF Successor
        <5>2. c.part.index \in Nat /\ c.count \in Nat
          BY <1>1, ChunkAssumption DEF Chunks, Parts
        <5>3. ~ IsLast(c)
          BY <3>2, <5>1, <5>2 DEF IsLast
        <5> QED
          BY <1>7, <4>3, <4>5, <5>3
      <4> QED
        BY <4>4, <4>5
    <3> QED
      BY <1>1, <2>2, <3>2, <3>3, <3>4
  <2> QED
    BY <2>1, <2>2
<1>10. PendingFront'
  <2> SUFFICES ASSUME NEW u \in Types, pending'[u] # NoEntry
               PROVE  /\ Whole(pending'[u].chunks)
                      /\ Successor(LastRead(u)') \in Unread(u)'
                      /\ \A d \in Unread(u)' : Before(LastRead(u)', d)
    BY DEF PendingFront, Successor, Before, Whole
  <2>1. CASE u # t
    BY <1>1, <1>3, <2>1 DEF DeliveryInv, PendingFront
  <2>2. CASE u = t
    <3>1. ~ IsLast(c)
      BY <1>8, <2>2
    <3>2. c.part.index < c.count
      <4>1. c.part.index <= c.count
        BY <1>1 DEF DeliveryInv, Chained
      <4>2. c.part.index \in Nat /\ c.count \in Nat
        BY <1>1, ChunkAssumption DEF Chunks, Parts
      <4> QED
        BY <3>1, <4>1, <4>2 DEF IsLast
    <3>3. Successor(c) \in Unread(t)'
      BY <1>1, <1>5, <3>2 DEF DeliveryInv, Chained
    <3> QED
      BY <1>1, <1>6, <1>7, <2>2, <3>1, <3>3
  <2> QED
    BY <2>1, <2>2
<1>11. ASSUME IsLast(c)
       PROVE  /\ c.part.message \in Transit[t]
              /\ \A m \in Transit[t] : c.part.message <= m
              /\ Transit' = [Transit EXCEPT ![t] = @ \ {c.part.message}]
  <2>1. \A d \in Unread(t) :
          /\ c.part.message <= d.part.message
          /\ d # c /\ IsLast(d) => d.part.message # c.part.message
    <3> SUFFICES ASSUME NEW d \in Unread(t), d # c
                 PROVE  /\ c.part.message <= d.part.message
                        /\ IsLast(d) => d.part.message # c.part.message
      BY <1>1, ChunkAssumption DEF Chunks, Parts, Ids
    <3>1. Before(c, d) /\ (c.part.message = d.part.message => c.count = d.count)
      BY <1>1 DEF DeliveryInv, Chained
    <3>2. /\ c.part.message \in Nat /\ d.part.message \in Nat
          /\ c.part.index \in Nat /\ d.part.index \in Nat
      BY <1>1, <1>4, ChunkAssumption DEF Chunks, Parts, Ids
    <3> QED
      BY <1>11, <3>1, <3>2 DEF Before, IsLast
  <2>2. \A m : m \in Transit[t] <=> \E d \in Unread(t) : IsLast(d) /\ m = d.part.message
    BY <1>1 DEF Transit
  <2>3. \A u \in Types \ {t} : Transit'[u] = Transit[u]
    BY <1>1 DEF Transit, IsLast
  <2>4. \A m : m \in Transit'[t] <=> \E d \in Unread(t)' : IsLast(d) /\ m = d.part.message
    BY <1>1 DEF Transit, IsLast
  <2>5. Transit'[t] = Transit[t] \ {c.part.message}
    BY <1>1, <2>1, <2>2, <2>4
  <2>6. Transit' = [Transit EXCEPT ![t] = @ \ {c.part.message}]
    BY <1>1, <2>3, <2>5 DEF Transit
  <2> QED
    BY <1>1, <1>11, <2>1, <2>2, <2>6
<1>12. ASSUME ~ IsLast(c) PROVE Transit' = Transit
  <2>1. \A u \in Types : {d \in Unread(u)' : IsLast(d)} = {d \in Unread(u) : IsLast(d)}
    BY <1>1, <1>12
  <2> QED
    BY <2>1 DEF Transit, IsLast
<1> QED
  BY <1>1, <1>9, <1>10, <1>11, <1>12

\* The messages ProcessChunkMsg got, as MessageDelivery numbers them.
Handed == [i \in DOMAIN received |-> Assembled(received[i])]

LEMMA HandedAppend ==
  ASSUME received \in Seq(Seq(Parts)), NEW parts \in Seq(Parts), Whole(parts),
         received' = Append(received, parts)
  PROVE  Handed' = Append(Handed, parts[1].message)
<1> DEFINE n == Len(received)
<1>1. /\ n \in Nat /\ DOMAIN received = 1..n /\ DOMAIN received' = 1..(n + 1)
      /\ received'[n + 1] = parts
      /\ \A i \in 1..n : received'[i] = received[i]
  OBVIOUS
<1> HIDE DEF n
<1>2. Handed = [i \in 1..n |-> Assembled(received[i])]
  BY <1>1 DEF Handed
<1>3. Handed' = [i \in 1..(n + 1) |-> Assembled(received'[i])]
  BY <1>1 DEF Handed, Assembled, Whole
<1>4. Assembled(parts) = parts[1].message
  BY DEF Assembled
<1>5. Len(Handed) = n
  BY <1>1, <1>2
<1>6. Append(Handed, parts[1].message)
        = [i \in 1..(n + 1) |-> IF i = n + 1 THEN parts[1].message ELSE Handed[i]]
  BY <1>5 DEF Append
<1>7. \A i \in 1..(n + 1) :
        Assembled(received'[i]) = IF i = n + 1 THEN parts[1].message ELSE Handed[i]
  BY <1>1, <1>2, <1>4
<1> QED
  BY <1>3, <1>6, <1>7

LEMMA InitDelivery == Init => DeliveryInv /\ Delivery!Init
<1> SUFFICES ASSUME Init PROVE DeliveryInv /\ Delivery!Init
  OBVIOUS
<1> USE DEF Init
<1>1. \A t \in Types : Unread(t) = {} /\ pending[t] = NoEntry
  BY DEF Unread, Range, NothingPending
<1>2. InOrder /\ Chained /\ PendingFront
  BY <1>1 DEF InOrder, Chained, PendingFront
<1>3. Transit = [t \in Types |-> {}]
  BY <1>1 DEF Transit
<1> QED
  BY <1>2, <1>3, InitIInv DEF DeliveryInv, Delivery!Init

\* A message begun is in transit, behind all others of its type.
LEMMA BeginMessageStep ==
  ASSUME DeliveryInv, NEW t \in Types, BeginMessage(t)
  PROVE  InOrder' /\ Chained' /\ PendingFront' /\ Delivery!Send(t)
<1> USE ChunkAssumption
<1> DEFINE m == sent + 1
<1>1. PICK n \in 1..MaxChunks : sending' = [sending EXCEPT ![t] = WholeMessage(t, m, n)]
  BY DEF BeginMessage
<1> DEFINE chunk(i) == [type |-> t, count |-> n, part |-> [message |-> m, index |-> i]]
<1>2. /\ sending \in [Types -> Seq(Chunks)] /\ sent \in Nat /\ n \in Nat /\ n >= 1
      /\ sending[t] = <<>> /\ sent' = m /\ wire' = wire /\ pending' = pending
  BY DEF DeliveryInv, IInv, TypeOK, BeginMessage
<1>3. /\ DOMAIN sending'[t] = 1..n
      /\ \A i \in 1..n : sending'[t][i] = chunk(i)
      /\ \A u \in Types \ {t} : sending'[u] = sending[u]
  BY <1>1, <1>2 DEF WholeMessage
<1>4. Range(sending[t]) = {} /\ Range(sending'[t]) = {chunk(i) : i \in 1..n}
  <2>1. Range(sending[t]) = {}
    BY <1>2 DEF Range
  <2> HIDE DEF chunk
  <2>2. Range(sending'[t]) = {chunk(i) : i \in 1..n}
    BY <1>3 DEF Range
  <2> QED
    BY <2>1, <2>2
<1>5. /\ Unread(t)' = Unread(t) \cup {chunk(i) : i \in 1..n}
      /\ \A u \in Types \ {t} : Unread(u)' = Unread(u)
  BY <1>2, <1>3, <1>4 DEF Unread
<1>6. \A u \in Types : \A c \in Unread(u) :
        /\ c \in Chunks /\ c.part.message \in Nat /\ c.part.message < m
  <2>1. \A u \in Types : \A c \in Unread(u) : c \in Chunks /\ c.part.message <= sent
    BY UnreadChunks DEF DeliveryInv, Chained
  <2> QED
    BY <1>2, <2>1 DEF Chunks, Parts, Ids
<1>7. \A u \in Types : LastRead(u)' = LastRead(u)
  BY <1>2 DEF LastRead
<1>8. \A i \in DOMAIN wire : wire[i].type = t => wire[i] \in Unread(t)
  BY DEF Unread, Range
<1>9. InOrder'
  <2>1. \A i \in DOMAIN wire : wire[i].type = t => \A j \in 1..n : Before(wire[i], chunk(j))
    BY <1>6, <1>8 DEF Before
  <2>2. \A i, j \in 1..n : i < j => Before(chunk(i), chunk(j))
    BY DEF Before
  <2>3. \A i \in 1..n : chunk(i).type = t
    OBVIOUS
  <2> HIDE DEF chunk
  <2>4. ASSUME NEW u \in Types, NEW j \in DOMAIN sending'[u]
        PROVE  /\ sending'[u][j].type = u
               /\ \A i \in DOMAIN wire' : wire'[i].type = u => Before(wire'[i], sending'[u][j])
               /\ \A i \in DOMAIN sending'[u] :
                    i < j => Before(sending'[u][i], sending'[u][j])
    <3>1. CASE u = t
      BY <1>2, <1>3, <2>1, <2>2, <2>3, <3>1
    <3>2. CASE u # t
      BY <1>2, <1>3, <3>2 DEF DeliveryInv, InOrder
    <3> QED
      BY <3>1, <3>2
  <2>5. \A i, j \in DOMAIN wire' :
          i < j /\ wire'[i].type = wire'[j].type => Before(wire'[i], wire'[j])
    BY <1>2 DEF DeliveryInv, InOrder
  <2> QED
    BY <2>4, <2>5 DEF InOrder, Before
<1>10. Chained'
  <2> SUFFICES ASSUME NEW u \in Types, NEW d \in Unread(u)'
               PROVE  /\ d.part.message <= sent'
                      /\ d.part.index <= d.count
                      /\ d.part.index < d.count => Successor(d) \in Unread(u)'
                      /\ d.part.index > 1 =>
                           \/ \E e \in Unread(u)' : d = Successor(e)
                           \/ pending'[u] # NoEntry /\ d = Successor(LastRead(u)')
                      /\ \A e \in Unread(u)' :
                           d.part.message = e.part.message => d.count = e.count
    BY DEF Chained, Successor
  <2>1. CASE d \in Unread(u)
    <3>1. /\ d.part.message <= sent /\ d.part.message < m /\ d.part.message \in Nat
          /\ d.part.index <= d.count
          /\ d.part.index < d.count => Successor(d) \in Unread(u)
          /\ d.part.index > 1 => \/ \E e \in Unread(u) : d = Successor(e)
                                 \/ pending[u] # NoEntry /\ d = Successor(LastRead(u))
          /\ \A e \in Unread(u) : d.part.message = e.part.message => d.count = e.count
      BY <1>6, <2>1 DEF DeliveryInv, Chained
    <3>2. Unread(u) \subseteq Unread(u)'
      BY <1>5
    <3>3. \A e \in Unread(u)' : d.part.message = e.part.message => e \in Unread(u)
      BY <1>5, <3>1
    <3> QED
      BY <1>2, <1>7, <3>1, <3>2, <3>3
  <2>2. CASE d \notin Unread(u)
    <3>1. PICK i \in 1..n : u = t /\ d = chunk(i)
      BY <1>5, <2>2
    <3>2. i < n => Successor(d) = chunk(i + 1) /\ i + 1 \in 1..n
      BY <1>2, <3>1 DEF Successor
    <3>3. i > 1 => d = Successor(chunk(i - 1)) /\ i - 1 \in 1..n
      BY <1>2, <3>1 DEF Successor
    <3>4. \A e \in Unread(t)' : e.part.message = m => e.count = n
      BY <1>5, <1>6
    <3> QED
      BY <1>2, <1>5, <3>1, <3>2, <3>3, <3>4
  <2> QED
    BY <2>1, <2>2
<1>11. PendingFront'
  <2> SUFFICES ASSUME NEW u \in Types, pending'[u] # NoEntry
               PROVE  /\ Whole(pending'[u].chunks)
                      /\ Successor(LastRead(u)') \in Unread(u)'
                      /\ \A d \in Unread(u)' : Before(LastRead(u)', d)
    BY DEF PendingFront, Successor, Before, Whole
  <2>1. /\ Whole(pending[u].chunks)
        /\ Successor(LastRead(u)) \in Unread(u)
        /\ \A d \in Unread(u) : Before(LastRead(u), d)
    BY <1>2 DEF DeliveryInv, PendingFront
  <2>2. LastRead(u).part.message < m
    BY <1>6, <2>1 DEF Successor
  <2>3. \A i \in 1..n : Before(LastRead(u), chunk(i))
    BY <2>2 DEF Before
  <2> QED
    BY <1>2, <1>5, <1>7, <2>1, <2>3
<1>12. Transit' = [Transit EXCEPT ![t] = @ \cup {m}]
  <2>1. \A u \in Types \ {t} : Transit'[u] = Transit[u]
    BY <1>5 DEF Transit, IsLast
  <2>2. IsLast(chunk(n)) /\ chunk(n).part.message = m
    BY DEF IsLast
  <2>3. \A x : x \in Transit'[t] <=> \E d \in Unread(t)' : IsLast(d) /\ x = d.part.message
    BY DEF Transit, IsLast
  <2>4. \A x : x \in Transit[t] <=> \E d \in Unread(t) : IsLast(d) /\ x = d.part.message
    BY DEF Transit
  <2>5. \A i \in 1..n : chunk(i).part.message = m
    OBVIOUS
  <2>6. n \in 1..n
    BY <1>2
  <2> HIDE DEF chunk, m
  <2>7. ASSUME NEW x \in Transit'[t] PROVE x \in Transit[t] \cup {m}
    BY <1>5, <2>3, <2>4, <2>5
  <2>8. ASSUME NEW x \in Transit[t] \cup {m} PROVE x \in Transit'[t]
    BY <1>5, <2>2, <2>3, <2>4, <2>6
  <2>9. Transit'[t] = Transit[t] \cup {m}
    BY <2>7, <2>8
  <2> QED
    BY <2>1, <2>9 DEF Transit
<1> QED
  BY <1>9, <1>10, <1>11, <1>12 DEF Delivery!Send, BeginMessage

\* What is known of the chunks is about those unread and those pending only.
LEMMA SameChunks ==
  ASSUME Chained, PendingFront, sent' = sent, pending' = pending,
         \A u \in Types : Unread(u)' = Unread(u) /\ LastRead(u)' = LastRead(u)
  PROVE  Chained' /\ PendingFront'
<1>1. Chained'
  <2> SUFFICES ASSUME NEW u \in Types, NEW d \in Unread(u)'
               PROVE  /\ d.part.message <= sent'
                      /\ d.part.index <= d.count
                      /\ d.part.index < d.count => Successor(d) \in Unread(u)'
                      /\ d.part.index > 1 =>
                           \/ \E e \in Unread(u)' : d = Successor(e)
                           \/ pending'[u] # NoEntry /\ d = Successor(LastRead(u)')
                      /\ \A e \in Unread(u)' :
                           d.part.message = e.part.message => d.count = e.count
    BY DEF Chained, Successor
  <2> QED
    BY DEF Chained
<1>2. PendingFront'
  <2> SUFFICES ASSUME NEW u \in Types, pending'[u] # NoEntry
               PROVE  /\ Whole(pending'[u].chunks)
                      /\ Successor(LastRead(u)') \in Unread(u)'
                      /\ \A d \in Unread(u)' : Before(LastRead(u)', d)
    BY DEF PendingFront, Successor, Before, Whole
  <2> QED
    BY DEF PendingFront
<1> QED
  BY <1>1, <1>2

\* A chunk sent stays unread: it is only on the wire now.
LEMMA SendChunkStep ==
  ASSUME DeliveryInv, NEW t \in Types, SendChunk(t)
  PROVE  InOrder' /\ Chained' /\ PendingFront' /\ Transit' = Transit
<1> DEFINE c == Head(sending[t])
           n == Len(wire)
<1>1. /\ sending \in [Types -> Seq(Chunks)] /\ wire \in Seq(Chunks)
      /\ sending[t] \in Seq(Chunks) /\ sending[t] # <<>>
      /\ wire' = Append(wire, c) /\ sending' = [sending EXCEPT ![t] = Tail(@)]
      /\ pending' = pending /\ sent' = sent
  BY DEF DeliveryInv, IInv, TypeOK, SendChunk
<1>2. /\ n \in Nat /\ DOMAIN wire = 1..n /\ DOMAIN wire' = 1..(n + 1)
      /\ wire'[n + 1] = c /\ \A i \in 1..n : wire'[i] = wire[i]
  BY <1>1
<1>3. /\ DOMAIN sending[t] = 1..Len(sending[t]) /\ Len(sending[t]) \in Nat \ {0}
      /\ c = sending[t][1]
      /\ sending'[t] = Tail(sending[t])
      /\ DOMAIN sending'[t] = 1..(Len(sending[t]) - 1)
      /\ \A i \in DOMAIN sending'[t] : sending'[t][i] = sending[t][i + 1]
      /\ \A u \in Types \ {t} : sending'[u] = sending[u]
  BY <1>1
<1>4. c.type = t
  BY <1>3 DEF DeliveryInv, InOrder
<1> HIDE DEF c, n
<1>5. Range(wire') = Range(wire) \cup {c}
  BY <1>2 DEF Range
<1>6. Range(sending[t]) = Range(sending'[t]) \cup {c}
  <2>1. ASSUME NEW x \in Range(sending[t]) PROVE x \in Range(sending'[t]) \cup {c}
    <3>1. PICK i \in DOMAIN sending[t] : x = sending[t][i]
      BY DEF Range
    <3>2. CASE i = 1
      BY <1>3, <3>1, <3>2
    <3>3. CASE i # 1
      <4>1. i - 1 \in DOMAIN sending'[t] /\ sending'[t][i - 1] = x
        BY <1>3, <3>1, <3>3
      <4> QED
        BY <4>1 DEF Range
    <3> QED
      BY <3>2, <3>3
  <2>2. ASSUME NEW x \in Range(sending'[t]) PROVE x \in Range(sending[t])
    <3>1. PICK i \in DOMAIN sending'[t] : x = sending'[t][i]
      BY DEF Range
    <3>2. i + 1 \in DOMAIN sending[t] /\ sending[t][i + 1] = x
      BY <1>3, <3>1
    <3> QED
      BY <3>2 DEF Range
  <2>3. c \in Range(sending[t])
    BY <1>3 DEF Range
  <2> QED
    BY <2>1, <2>2, <2>3
<1>7. \A u \in Types : Unread(u)' = Unread(u)
  <2> SUFFICES ASSUME NEW u \in Types PROVE Unread(u)' = Unread(u)
    OBVIOUS
  <2>1. CASE u = t
    BY <1>5, <1>6, <2>1 DEF Unread
  <2>2. CASE u # t
    BY <1>3, <1>4, <1>5, <2>2 DEF Unread
  <2> QED
    BY <2>1, <2>2
<1>8. InOrder'
  <2>1. \A i \in 1..n : wire[i].type = t => Before(wire[i], c)
    BY <1>2, <1>3 DEF DeliveryInv, InOrder
  <2>2. \A i, j \in DOMAIN wire' :
          i < j /\ wire'[i].type = wire'[j].type => Before(wire'[i], wire'[j])
    <3> SUFFICES ASSUME NEW i \in DOMAIN wire', NEW j \in DOMAIN wire',
                        i < j, wire'[i].type = wire'[j].type
                 PROVE  Before(wire'[i], wire'[j])
      OBVIOUS
    <3>1. CASE j = n + 1
      BY <1>2, <1>4, <2>1, <3>1
    <3>2. CASE j # n + 1
      BY <1>2, <3>2 DEF DeliveryInv, InOrder
    <3> QED
      BY <3>1, <3>2
  <2>3. ASSUME NEW u \in Types, NEW j \in DOMAIN sending'[u]
        PROVE  /\ sending'[u][j].type = u
               /\ \A i \in DOMAIN wire' : wire'[i].type = u => Before(wire'[i], sending'[u][j])
               /\ \A i \in DOMAIN sending'[u] :
                    i < j => Before(sending'[u][i], sending'[u][j])
    <3>1. CASE u = t
      <4> DEFINE k == Len(sending[t])
      <4>1. k \in Nat /\ DOMAIN sending[t] = 1..k /\ DOMAIN sending'[t] = 1..(k - 1)
        BY <1>3
      <4> HIDE DEF k
      <4>2. j \in 1..(k - 1)
        BY <3>1, <4>1
      <4>3. /\ j + 1 \in DOMAIN sending[t] /\ 1 < j + 1 /\ 1 \in DOMAIN sending[t]
            /\ sending'[t][j] = sending[t][j + 1]
        BY <1>3, <4>1, <4>2
      <4>4. sending'[t][j].type = t /\ Before(c, sending'[t][j])
        BY <1>3, <4>3 DEF DeliveryInv, InOrder
      <4>5. \A i \in 1..n : wire[i].type = t => Before(wire[i], sending'[t][j])
        BY <1>2, <4>3 DEF DeliveryInv, InOrder
      <4>6. \A i \in DOMAIN sending'[t] : i < j => Before(sending'[t][i], sending'[t][j])
        <5>1. \A i \in DOMAIN sending'[t] :
                i < j => i + 1 \in DOMAIN sending[t] /\ i + 1 < j + 1
          BY <4>1, <4>2
        <5> QED
          BY <1>3, <4>3, <5>1 DEF DeliveryInv, InOrder
      <4> QED
        BY <1>2, <3>1, <4>4, <4>5, <4>6
    <3>2. CASE u # t
      BY <1>2, <1>3, <1>4, <3>2 DEF DeliveryInv, InOrder
    <3> QED
      BY <3>1, <3>2
  <2> QED
    BY <2>2, <2>3 DEF InOrder, Before
<1>9. \A u \in Types : LastRead(u)' = LastRead(u)
  BY <1>1 DEF LastRead
<1>10. Chained' /\ PendingFront'
  BY <1>1, <1>7, <1>9, SameChunks DEF DeliveryInv
<1>11. Transit' = Transit
  BY <1>7 DEF Transit, IsLast
<1> QED
  BY <1>8, <1>10, <1>11

\* A message complete is handed over as the next of its type.
LEMMA ReadStep ==
  ASSUME DeliveryInv, Update
  PROVE  /\ InOrder' /\ Chained' /\ PendingFront'
         /\ \/ \E t \in Types : Delivery!Deliver(t)
            \/ UNCHANGED Delivery!deliveryVars
<1> DEFINE c == Head(wire)
           t == c.type
           entry == Collected(pending[t], c)
<1>1. wire # <<>> /\ wire' = Tail(wire) /\ sending' = sending /\ sent' = sent
  BY DEF Update, ReadSingle, HandleChunkMsg
<1>2. /\ c \in Chunks /\ t \in Types /\ c \in Unread(t)
      /\ \A d \in Unread(t) : d = c \/ Before(c, d)
  BY <1>1, ReadFirst DEF DeliveryInv
<1>3. /\ c.part \in Parts /\ c.part.index \in Nat \ {0} /\ c.count \in Nat
      /\ c.part.index <= c.count
  BY <1>2, ChunkAssumption DEF Chunks, Parts, DeliveryInv, Chained
<1>4. pending \in [Types -> Entries] /\ received \in Seq(Seq(Parts))
  BY DEF DeliveryInv, IInv, TypeOK
<1>5. /\ Whole(entry.chunks) /\ entry.chunks \in Seq(Parts)
      /\ Len(entry.chunks) = c.part.index
      /\ entry.chunks[1].message = c.part.message
      /\ entry.expected = c.count
  BY <1>2, CollectedFront
<1>6. Complete(entry) <=> IsLast(c)
  BY <1>5 DEF Complete, IsLast
<1> HIDE DEF c, entry
<1>7. ASSUME pending' = [pending EXCEPT ![t] = IF IsLast(c) THEN NoEntry ELSE entry]
      PROVE  /\ InOrder' /\ Chained' /\ PendingFront'
             /\ IsLast(c) =>
                  /\ c.part.message \in Transit[t]
                  /\ \A m \in Transit[t] : c.part.message <= m
                  /\ Transit' = [Transit EXCEPT ![t] = @ \ {c.part.message}]
             /\ ~ IsLast(c) => Transit' = Transit
  BY <1>1, <1>7, ReadKeeps DEF c, entry
<1>8. ASSUME IsLast(c), NEW parts \in Seq(Parts), Whole(parts),
             parts[1].message = c.part.message, received' = Append(received, parts),
             pending' = [pending EXCEPT ![t] = IF IsLast(c) THEN NoEntry ELSE entry]
      PROVE  Delivery!Deliver(t)
  <2>1. Handed' = Append(Handed, c.part.message)
    BY <1>4, <1>8, HandedAppend
  <2> QED
    BY <1>1, <1>7, <1>8, <2>1 DEF Delivery!Deliver, Handed
<1>9. CASE ReadSingle
  <2>1. c.count <= 1 /\ received' = Append(received, <<c.part>>) /\ pending' = pending
    BY <1>9 DEF ReadSingle, c
  <2>2. IsLast(c) /\ c.part.index = 1 /\ c.count = 1
    BY <1>3, <2>1 DEF IsLast
  <2>3. pending[t] = NoEntry
    <3> SUFFICES ASSUME pending[t] # NoEntry PROVE FALSE
      OBVIOUS
    <3>1. c = Successor(LastRead(t))
      BY <1>2, ReadNext
    <3>2. c.count = pending[t].expected
      BY <3>1 DEF Successor, LastRead
    <3>3. Len(pending[t].chunks) \in 1..pending[t].expected - 1
      BY <1>2 DEF DeliveryInv, IInv, InBounds
    <3> QED
      BY <2>2, <3>2, <3>3
  <2>4. pending' = [pending EXCEPT ![t] = IF IsLast(c) THEN NoEntry ELSE entry]
    BY <1>2, <1>4, <2>1, <2>2, <2>3
  <2>5. <<c.part>> \in Seq(Parts) /\ Whole(<<c.part>>) /\ <<c.part>>[1].message = c.part.message
    BY <1>3, <2>2 DEF Whole
  <2> QED
    BY <1>2, <1>7, <1>8, <2>1, <2>2, <2>4, <2>5
<1>10. CASE HandleChunkMsg
  <2>1. /\ IF Complete(entry)
             THEN /\ received' = Append(received, entry.chunks)
                  /\ pending' = [pending EXCEPT ![t] = NoEntry]
             ELSE /\ pending' = [pending EXCEPT ![t] = entry]
                  /\ received' = received
    BY <1>10 DEF HandleChunkMsg, c, entry
  <2>2. pending' = [pending EXCEPT ![t] = IF IsLast(c) THEN NoEntry ELSE entry]
    BY <1>6, <2>1
  <2>3. CASE IsLast(c)
    BY <1>2, <1>5, <1>6, <1>7, <1>8, <2>1, <2>2, <2>3
  <2>4. CASE ~ IsLast(c)
    BY <1>1, <1>6, <1>7, <2>1, <2>2, <2>4 DEF Delivery!deliveryVars, Assembled, Whole
  <2> QED
    BY <2>3, <2>4
<1> QED
  BY <1>9, <1>10 DEF Update

\* Every step of ChunkAssembly is one of MessageDelivery, or changes nothing there.
LEMMA NextDelivery ==
  DeliveryInv /\ [Next]_vars => DeliveryInv' /\ [Delivery!Next]_(Delivery!deliveryVars)
<1> SUFFICES ASSUME DeliveryInv, [Next]_vars
             PROVE  DeliveryInv' /\ [Delivery!Next]_(Delivery!deliveryVars)
  OBVIOUS
<1>1. IInv'
  BY NextIInv DEF DeliveryInv
<1>2. ASSUME NEW t \in Types, BeginMessage(t)
      PROVE  DeliveryInv' /\ Delivery!Send(t)
  BY <1>1, <1>2, BeginMessageStep DEF DeliveryInv
<1>3. ASSUME NEW t \in Types, SendChunk(t)
      PROVE  DeliveryInv' /\ UNCHANGED Delivery!deliveryVars
  <2>1. received' = received /\ sent' = sent
    BY <1>3 DEF SendChunk
  <2> QED
    BY <1>1, <1>3, <2>1, SendChunkStep DEF DeliveryInv, Delivery!deliveryVars, Assembled, Whole
<1>4. CASE Update
  BY <1>1, <1>4, ReadStep DEF DeliveryInv, Delivery!Next
<1>5. CASE Disconnect
  <2>1. /\ wire' = <<>> /\ sending' = [t \in Types |-> <<>>] /\ pending' = NothingPending
        /\ received' = received /\ sent' = sent
    BY <1>5 DEF Disconnect, SocketGone, PendingAfterDisconnect
  <2>2. \A t \in Types : Unread(t)' = {} /\ pending'[t] = NoEntry
    BY <2>1 DEF Unread, Range, NothingPending
  <2>3. InOrder'
    BY <2>1 DEF InOrder
  <2>4. Chained' /\ PendingFront'
    BY <2>2 DEF Chained, PendingFront
  <2>5. Transit' = [t \in Types |-> {}]
    BY <2>2 DEF Transit
  <2>6. Delivery!Break
    BY <2>1, <2>5 DEF Delivery!Break, Assembled, Whole
  <2> QED
    BY <1>1, <2>3, <2>4, <2>6 DEF DeliveryInv, Delivery!Next
<1>6. CASE UNCHANGED vars
  <2>1. /\ wire' = wire /\ sending' = sending /\ pending' = pending
        /\ received' = received /\ sent' = sent
    BY <1>6 DEF vars
  <2>2. InOrder' /\ Chained' /\ PendingFront'
    <3>1. \A t \in Types : Unread(t)' = Unread(t) /\ LastRead(t)' = LastRead(t)
      BY <2>1 DEF Unread, LastRead
    <3>2. InOrder'
      BY <2>1 DEF DeliveryInv, InOrder
    <3>3. Chained'
      BY <2>1, <3>1 DEF DeliveryInv, Chained
    <3>4. PendingFront'
      BY <2>1, <3>1 DEF DeliveryInv, PendingFront
    <3> QED
      BY <3>2, <3>3, <3>4
  <2>3. Transit' = Transit
    BY <2>1 DEF Transit, Unread, IsLast
  <2> QED
    BY <1>1, <2>1, <2>2, <2>3 DEF DeliveryInv, Delivery!deliveryVars, Assembled, Whole
<1> QED
  BY <1>2, <1>3, <1>4, <1>5, <1>6 DEF Next, Delivery!Next

\* TCPConnection hands the coordinator's messages over as MessageDelivery says, for any
\* types, sizes, interleavings and breaks: whole, once and in the order of their type.
THEOREM ImplementsDelivery == Spec => DeliversWholeMessages
<1> QED
  BY InitDelivery, NextDelivery, PTL DEF Spec, DeliversWholeMessages, Delivery!Spec

-----------------------------------------------------------------------------
(* GCMessageCodec: the reader.                                             *)

\* What is assumed of the numbers.
LEMMA AssumedNumbers == MaxItems \in Nat /\ SizeLimit \in Nat /\ SizeLimit # 0
BY NumberAssumption DEF NumberAssumption

\* The reader is within the message: what is left of it is a number of bytes.
ReaderInv ==
  /\ offset \in Nat
  /\ Len(buffer) \in Nat
  /\ offset <= Len(buffer)

\* ReadData moves on within the message, or stays where it is.
LEMMA ReadDataBounds ==
  ASSUME ReaderInv, buffer' = buffer, NEW n \in Nat, NEW instead,
         ReadData(n, instead)
  PROVE  ReaderInv'
<1>1. (offset + n) % SizeLimit \in Nat
  BY AssumedNumbers DEF ReaderInv
<1> QED
  BY <1>1 DEF ReaderInv, ReadData, Fits

\* Every step stays there.
LEMMA NextReaderInv == ReaderInv /\ [CodecNext]_codecVars => ReaderInv'
<1> SUFFICES ASSUME ReaderInv, [CodecNext]_codecVars PROVE ReaderInv'
  OBVIOUS
<1>1. CASE ReadVariable
  <2>1. PICK op \in {"uint16", "uint32", "uint64"} :
           buffer' = buffer /\ ReadData(Width[op], [i \in 1..Width[op] |-> 0])
    BY <1>1 DEF ReadVariable, Doing
  <2>2. Width[op] \in Nat
    BY <2>1 DEF Width
  <2> QED
    BY <2>1, <2>2, ReadDataBounds
<1>2. CASE SkipData
  <2>1. (offset + Width.skip) % SizeLimit \in Nat
    BY AssumedNumbers DEF ReaderInv, Width
  <2> QED
    BY <1>2, <2>1 DEF ReaderInv, SkipData, PassOver, Doing, Fits
<1>3. CASE ReadSized
  BY <1>3, ReadDataBounds DEF ReadSized, Doing
<1>4. CASE ReadProtobuf
  <2>1. Len(buffer) - offset \in Nat
    BY DEF ReaderInv
  <2> QED
    BY <1>4, <2>1, ReadDataBounds DEF ReadProtobuf, Doing
<1>5. CASE ReadString
  <2>1. \A i \in Zeros : i \in Nat /\ i <= Len(buffer)
    BY DEF Zeros, ReaderInv
  <2> QED
    BY <1>5, <2>1 DEF ReaderInv, ReadString, ReadToZero, Doing
<1>6. CASE ReadType \/ BeginHandler \/ ReadItems \/ CheckValid
             \/ UnknownType \/ Handled
  BY <1>6 DEF ReaderInv, ReadType, BeginHandler, ReadItems,
              CheckValid, UnknownType,
              Handled, Doing
<1>7. CASE UNCHANGED codecVars
  BY <1>7 DEF ReaderInv, codecVars
<1> QED
  BY <1>1, <1>2, <1>3, <1>4, <1>5, <1>6, <1>7 DEF CodecNext

-----------------------------------------------------------------------------
(* GCMessageCodec: where the reader is in a message it has read so far.    *)

\* The message as GCMessageRead gets it, and the size of its header there.
Sent(m, extra) == Stripped(m, Encoded(m, extra))
HeaderSize(m, extra) ==
  CASE m.flags = Struct -> 18
    [] m.flags = Protobuf -> 8 + Len(extra)
    [] m.flags = CCProto -> 8

\* What is written one after the other.
Pieces == Seq(Seq(Nat))

\* What is left of s when p of it is done.
Left(s, p) == SubSeq(s, p + 1, Len(s))

\* The two messages that have a name between a sentinel and a zero.
IsNaming(m) == m.kind \in {"name", "nameBase"}

\* How many fields the handler has after p of its steps, and how far from the header it is.
Counted(m, p) ==
  IF IsNaming(m) /\ p > 2 THEN IF p = 3 THEN 2 ELSE 3
  ELSE IF p < Len(m.fields) THEN p ELSE Len(m.fields)

\* Where the first c of the fields f end.
Reach(f, c) ==
  IF c = 0 THEN 0 ELSE IF c = 1 THEN Len(f[1]) ELSE IF c = 2 THEN Len(f[1]) + Len(f[2])
  ELSE Len(f[1]) + Len(f[2]) + Len(f[3])

\* How far from the header the handler is after p of its steps.
Place(m, p) ==
  Reach(m.fields, Counted(m, p)) +
  (IF IsNaming(m) /\ p > 2 THEN IF p = 3 THEN 1 ELSE 2 ELSE 0)

\* What the constructor reads first, and what is read after the type.
First == <<"uint32", "valid", "type">>
TypeHeader(m) == IF m.flags = Struct THEN StructHeader ELSE ProtobufHeader
AfterType(m) == TypeHeader(m) \o <<"body">> \o Handler(m.kind)

\* Where the constructor is after p of its reads of the header.
HeaderPlace(m, extra, p) ==
  IF p = 0 THEN 4 ELSE IF p = 1 THEN 8
  ELSE IF m.flags = Struct /\ p = 2 THEN 16 ELSE HeaderSize(m, extra)

\* p of the reads up to the type are done.
TypeAt(p) ==
  /\ todo = Left(First, p)
  /\ p = 0 => ~ error /\ offset = 0
  /\ p > 0 => got # <<>>
  /\ p = 2 => ~ error
  /\ error => ~ whole
  /\ p > 0 /\ ~ error => offset = 4 /\ Last(got) = TypeOf(NumberOf(message.kind), message.flags)

\* p of the reads of the header are done.
HeaderAt(extra, p) ==
  /\ todo = Left(AfterType(message), p)
  /\ p \in {0, Len(TypeHeader(message))} => ~ error
  /\ error => ~ whole
  /\ ~ error => offset = HeaderPlace(message, extra, p)
  /\ ~ error /\ p = 1 /\ message.flags # Struct =>
       got # <<>> /\ Last(got) = Uint32(HeaderSize(message, extra) - 8)

\* p of the reads of the handler are done: without an error its fields so far are the first
\* that were written.  Who has found an error has not reached the end.
FieldsAt(extra, p) ==
  /\ todo = Left(Handler(message.kind), p)
  /\ message.kind \in {"craft", "other"} => p < Len(Handler(message.kind))
  /\ error => ~ whole /\ p < Len(Handler(message.kind))
  /\ ~ error => /\ offset = HeaderSize(message, extra) + Place(message, p)
                /\ got = SubSeq(message.fields, 1, Counted(message, p))
  /\ message.kind = "craft" =>
       /\ Len(got) = p
       /\ error => p > 0 /\ Last(got) = <<0, 0>>
  /\ message.flags # Struct =>
       p = 0 /\ ~ error /\ got = <<>> /\ offset = HeaderSize(message, extra)

\* k reads of a trade-up's items are left.
ItemsOf(s, k) ==
  /\ s \in Seq({"valid", "uint64"})
  /\ Len(s) = k
  /\ \A i \in 1..k : s[i] = IF (k - i) % 2 = 0 THEN "uint64" ELSE "valid"

ItemsLeft(k) == ItemsOf(todo, k)

\* r items have been read.
ItemsAt(extra, r) ==
  /\ \/ ItemsLeft(2 * (Len(message.fields) - 2 - r))
     \/ ~ error /\ r < Len(message.fields) - 2 /\ ItemsLeft(2 * (Len(message.fields) - 2 - r) - 1)
  /\ Len(got) = 2 + r
  /\ \A i \in 1..(1 + r) : got[i] = message.fields[i]
  /\ ~ error => /\ got = SubSeq(message.fields, 1, 2 + r)
                /\ offset = HeaderSize(message, extra) + 4 + 8 * r

\* A protobuf message has been read to its end, and has what there was of it.
AtRest ==
  /\ message.flags # Struct /\ ~ error
  /\ todo = <<"valid">> \/ todo = <<>>
  /\ \E y \in Seq(Nat) : got = <<y>> /\ IsPrefix(y, message.fields[1])
  /\ whole => got = message.fields

\* The other parts of the reading.
AtType == \E p \in 0..2 : TypeAt(p)
AtHeader(extra) == \E p \in 0..Len(TypeHeader(message)) : HeaderAt(extra, p)
AtFields(extra) == \E p \in 0..Len(Handler(message.kind)) : FieldsAt(extra, p)
AtItems(extra) ==
  /\ message.kind = "craft"
  /\ error => ~ whole
  /\ \/ error /\ todo = <<>> /\ Len(got) = 2
     \/ \E r \in 0..(Len(message.fields) - 2) : ItemsAt(extra, r)

\* The message as it is read has n bytes: it is cut, or whole, or has something behind it.
CutAt(extra, n) ==
  LET bytes == Sent(message, extra) IN
  /\ n \in Nat
  /\ message.flags # Struct => n <= Len(bytes)
  /\ buffer \in Seq(Nat) /\ Len(buffer) = n
  /\ \A k \in 1..n : k <= Len(bytes) => buffer[k] = bytes[k]
  /\ whole = (n >= Len(bytes))

\* The types of what the steps below rest on.
CodecTypes ==
  /\ message \in Messages
  /\ offset \in Nat /\ error \in BOOLEAN /\ got \in Pieces
  /\ outcome \in {"reading", "handled", "ignored"}

Reading(extra) == AtType \/ AtHeader(extra) \/ AtFields(extra) \/ AtItems(extra) \/ AtRest

\* The invariant: the message is one of those there are, cut or whole, and as long as it is
\* read, the reads to come and the bytes to come fit together.
CodecInv ==
  /\ CodecTypes /\ ReaderInv
  /\ \E extra \in Extras : /\ \E n \in Nat : CutAt(extra, n)
                           /\ outcome = "reading" => Reading(extra)
  /\ HandledAsWritten

-----------------------------------------------------------------------------
(* Sequences.                                                              *)

\* Where a sequence has part, after o of its elements.
Has(b, o, part) ==
  /\ o + Len(part) <= Len(b)
  /\ \A k \in 1..Len(part) : b[o + k] = part[k]

\* What SubSeq and concatenation have at each place.
LEMMA SubSeqFacts ==
  ASSUME NEW S, NEW s \in Seq(S), NEW a \in 1..(Len(s) + 1), NEW b \in (a - 1)..Len(s)
  PROVE  /\ SubSeq(s, a, b) \in Seq(S)
         /\ Len(SubSeq(s, a, b)) = b - a + 1
         /\ \A k \in 1..(b - a + 1) : SubSeq(s, a, b)[k] = s[a + k - 1]
OBVIOUS

LEMMA ConcatFacts ==
  ASSUME NEW S, NEW s \in Seq(S), NEW t \in Seq(S)
  PROVE  /\ s \o t \in Seq(S) /\ Len(s \o t) = Len(s) + Len(t)
         /\ \A k \in 1..Len(s) : (s \o t)[k] = s[k]
         /\ \A k \in 1..Len(t) : (s \o t)[Len(s) + k] = t[k]
OBVIOUS

\* A part is within its sequence.
LEMMA HasFacts ==
  ASSUME NEW S, NEW s \in Seq(S), NEW part \in Seq(S), NEW o \in Nat, Has(s, o, part)
  PROVE  Len(s) \in Nat /\ Len(part) \in Nat /\ o + Len(part) <= Len(s)
BY DEF Has

\* A sequence has itself, and keeps a part when something is put behind or before it.
LEMMA HasSelf ==
  ASSUME NEW S, NEW s \in Seq(S)
  PROVE  Has(s, 0, s)
<1>1. Len(s) \in Nat
  OBVIOUS
<1>2. \A k \in 1..Len(s) : 0 + k = k
  OBVIOUS
<1>3. 0 + Len(s) <= Len(s)
  BY <1>1
<1> QED BY <1>2, <1>3 DEF Has

LEMMA HasFront ==
  ASSUME NEW S, NEW s \in Seq(S), NEW t \in Seq(S), NEW part \in Seq(S), NEW o \in Nat,
         Has(s, o, part)
  PROVE  Has(s \o t, o, part)
<1> DEFINE w == s \o t
<1>1. Len(w) = Len(s) + Len(t) /\ \A k \in 1..Len(s) : w[k] = s[k]
  BY ConcatFacts
<1>2. Len(s) \in Nat /\ Len(t) \in Nat /\ Len(part) \in Nat
  OBVIOUS
<1> HIDE DEF w
<1>3. o + Len(part) <= Len(s) /\ \A k \in 1..Len(part) : s[o + k] = part[k]
  BY DEF Has
<1>4. \A k \in 1..Len(part) : o + k \in 1..Len(s)
  BY <1>2, <1>3
<1>5. o + Len(part) <= Len(w)
  BY <1>1, <1>2, <1>3
<1>6. \A k \in 1..Len(part) : w[o + k] = part[k]
  BY <1>1, <1>3, <1>4
<1> QED BY <1>5, <1>6 DEF Has, w

LEMMA HasBack ==
  ASSUME NEW S, NEW s \in Seq(S), NEW t \in Seq(S), NEW part \in Seq(S), NEW o \in Nat,
         Has(t, o, part)
  PROVE  Has(s \o t, Len(s) + o, part)
<1> DEFINE w == s \o t
<1>1. Len(w) = Len(s) + Len(t) /\ \A k \in 1..Len(t) : w[Len(s) + k] = t[k]
  BY ConcatFacts
<1>2. Len(s) \in Nat /\ Len(t) \in Nat /\ Len(part) \in Nat
  OBVIOUS
<1> HIDE DEF w
<1>3. o + Len(part) <= Len(t) /\ \A k \in 1..Len(part) : t[o + k] = part[k]
  BY DEF Has
<1>4. \A k \in 1..Len(part) : o + k \in 1..Len(t) /\ (Len(s) + o) + k = Len(s) + (o + k)
  BY <1>2, <1>3
<1>5. (Len(s) + o) + Len(part) <= Len(w)
  BY <1>1, <1>2, <1>3
<1>6. \A k \in 1..Len(part) : w[(Len(s) + o) + k] = part[k]
  BY <1>1, <1>3, <1>4
<1> QED BY <1>5, <1>6 DEF Has, w

\* What is read where a sequence has part.
LEMMA HasRead ==
  ASSUME NEW S, NEW s \in Seq(S), NEW part \in Seq(S), NEW o \in Nat, Has(s, o, part)
  PROVE  SubSeq(s, o + 1, o + Len(part)) = part
<1> DEFINE w == SubSeq(s, o + 1, o + Len(part))
<1>1. /\ Len(s) \in Nat /\ Len(part) \in Nat /\ o + Len(part) <= Len(s)
      /\ \A k \in 1..Len(part) : s[o + k] = part[k]
  BY DEF Has
<1>2. o + 1 \in 1..(Len(s) + 1) /\ o + Len(part) \in ((o + 1) - 1)..Len(s)
  BY <1>1
<1>3. /\ w \in Seq(S) /\ Len(w) = (o + Len(part)) - (o + 1) + 1
      /\ \A k \in 1..((o + Len(part)) - (o + 1) + 1) : w[k] = s[(o + 1) + k - 1]
  BY <1>2, SubSeqFacts
<1>4. /\ (o + Len(part)) - (o + 1) + 1 = Len(part)
      /\ \A k \in 1..Len(part) : (o + 1) + k - 1 = o + k
  BY <1>1
<1> HIDE DEF w
<1>5. Len(w) = Len(part) /\ \A k \in 1..Len(w) : w[k] = part[k]
  BY <1>1, <1>3, <1>4
<1>6. w = part
  BY <1>3, <1>5, SeqEqual
<1> QED BY <1>6 DEF w

\* A part of what is left when a sequence is cut.
LEMMA HasCut ==
  ASSUME NEW S, NEW s \in Seq(S), NEW part \in Seq(S), NEW o \in Nat, Has(s, o, part),
         NEW n \in 0..Len(s), o + Len(part) <= n
  PROVE  Has(SubSeq(s, 1, n), o, part)
<1> DEFINE w == SubSeq(s, 1, n)
<1>1. /\ Len(s) \in Nat /\ Len(part) \in Nat /\ n \in Nat
      /\ \A k \in 1..Len(part) : s[o + k] = part[k]
  BY DEF Has
<1>2. 1 \in 1..(Len(s) + 1) /\ n \in (1 - 1)..Len(s)
  BY <1>1
<1>3. Len(w) = n - 1 + 1 /\ \A k \in 1..(n - 1 + 1) : w[k] = s[1 + k - 1]
  BY <1>2, SubSeqFacts
<1>4. n - 1 + 1 = n /\ \A k \in 1..n : 1 + k - 1 = k
  BY <1>1
<1> HIDE DEF w
<1>5. \A k \in 1..Len(part) : o + k \in 1..n
  BY <1>1
<1>6. Len(w) = n /\ \A k \in 1..Len(part) : w[o + k] = part[k]
  BY <1>1, <1>3, <1>4, <1>5
<1> QED BY <1>6 DEF Has, w

\* A part of what comes behind c elements.
LEMMA HasBehind ==
  ASSUME NEW S, NEW s \in Seq(S), NEW part \in Seq(S), NEW o \in Nat, NEW c \in Nat,
         Has(s, c + o, part)
  PROVE  Has(SubSeq(s, c + 1, Len(s)), o, part)
<1> DEFINE w == SubSeq(s, c + 1, Len(s))
<1>1. /\ Len(s) \in Nat /\ Len(part) \in Nat /\ (c + o) + Len(part) <= Len(s)
      /\ \A k \in 1..Len(part) : s[(c + o) + k] = part[k]
  BY DEF Has
<1>2. c + 1 \in 1..(Len(s) + 1) /\ Len(s) \in ((c + 1) - 1)..Len(s)
  BY <1>1
<1>3. /\ Len(w) = Len(s) - (c + 1) + 1
      /\ \A k \in 1..(Len(s) - (c + 1) + 1) : w[k] = s[(c + 1) + k - 1]
  BY <1>2, SubSeqFacts
<1> HIDE DEF w
<1>4. o + Len(part) <= Len(w)
  BY <1>1, <1>3
<1>5. \A k \in 1..Len(part) : o + k \in 1..(Len(s) - (c + 1) + 1) /\ (c + 1) + (o + k) - 1 = (c + o) + k
  BY <1>1
<1>6. \A k \in 1..Len(part) : w[o + k] = part[k]
  BY <1>1, <1>3, <1>5
<1> QED BY <1>4, <1>6 DEF Has, w

\* A part of a part.
LEMMA HasWithin ==
  ASSUME NEW S, NEW s \in Seq(S), NEW t \in Seq(S), NEW part \in Seq(S), NEW h \in Nat, NEW o \in Nat,
         Has(s, h, t), Has(t, o, part)
  PROVE  Has(s, h + o, part)
<1>1. /\ Len(s) \in Nat /\ Len(t) \in Nat /\ Len(part) \in Nat
      /\ h + Len(t) <= Len(s) /\ o + Len(part) <= Len(t)
      /\ \A k \in 1..Len(t) : s[h + k] = t[k]
      /\ \A k \in 1..Len(part) : t[o + k] = part[k]
  BY DEF Has
<1>2. \A k \in 1..Len(part) : o + k \in 1..Len(t) /\ (h + o) + k = h + (o + k)
  BY <1>1
<1>3. (h + o) + Len(part) <= Len(s)
  BY <1>1
<1>4. \A k \in 1..Len(part) : s[(h + o) + k] = part[k]
  BY <1>1, <1>2
<1> QED BY <1>3, <1>4 DEF Has

\* Small sequences.
LEMMA TupleTypes ==
  ASSUME NEW S, NEW a \in S, NEW b \in S, NEW c \in S
  PROVE  /\ <<a>> \in Seq(S) /\ Len(<<a>>) = 1
         /\ <<a, b>> \in Seq(S) /\ Len(<<a, b>>) = 2
         /\ <<a, b, c>> \in Seq(S) /\ Len(<<a, b, c>>) = 3
OBVIOUS

LEMMA FiveTypes ==
  ASSUME NEW S, NEW a \in S, NEW b \in S, NEW c \in S, NEW d \in S, NEW e \in S
  PROVE  <<a, b, c, d, e>> \in Seq(S) /\ Len(<<a, b, c, d, e>>) = 5
OBVIOUS

\* Two sequences put together, and one cut in two, by their elements.
LEMMA PairAndThree ==
  ASSUME NEW S, NEW s \in Seq(S), NEW t \in Seq(S), NEW u \in Seq(S),
         Len(s) = 2, Len(t) = 3, Len(u) = 5,
         u[1] = s[1], u[2] = s[2], u[3] = t[1], u[4] = t[2], u[5] = t[3]
  PROVE  s \o t = u
<1> DEFINE w == s \o t
<1>1. /\ w \in Seq(S) /\ Len(w) = Len(s) + Len(t)
      /\ \A k \in 1..Len(s) : w[k] = s[k]
      /\ \A k \in 1..Len(t) : w[Len(s) + k] = t[k]
  <2>1. s \in Seq(S) /\ t \in Seq(S)
    OBVIOUS
  <2> QED BY ONLY <2>1, ConcatFacts
<1> HIDE DEF w
<1>2. Len(w) = 5 /\ w[1] = s[1] /\ w[2] = s[2] /\ w[3] = t[1] /\ w[4] = t[2] /\ w[5] = t[3]
  <2>1. Len(w) = 2 + 3 /\ (\A k \in 1..2 : w[k] = s[k]) /\ \A k \in 1..3 : w[2 + k] = t[k]
    BY <1>1, Zenon
  <2> HIDE <1>1
  <2>2. w[1] = s[1] /\ w[2] = s[2] /\ w[2 + 1] = t[1] /\ w[2 + 2] = t[2] /\ w[2 + 3] = t[3]
    BY <2>1
  <2> QED BY <2>1, <2>2
<1>3. \A k \in 1..5 : w[k] = u[k]
  <2>1. \A k \in 1..5 : k = 1 \/ k = 2 \/ k = 3 \/ k = 4 \/ k = 5
    OBVIOUS
  <2> QED BY <1>2, <2>1, Zenon
<1>4. Len(w) = Len(u) /\ \A k \in 1..Len(w) : w[k] = u[k]
  BY <1>2, <1>3, Zenon
<1>5. w = u
  BY <1>1, <1>4, SeqEqual
<1> QED BY <1>5 DEF w

LEMMA FirstTwo ==
  ASSUME NEW S, NEW s \in Seq(S), NEW u \in Seq(S), Len(s) = 3, Len(u) = 2,
         u[1] = s[1], u[2] = s[2]
  PROVE  SubSeq(s, 1, 2) = u
<1> DEFINE w == SubSeq(s, 1, 2)
<1>1. /\ w \in Seq(S) /\ Len(w) = 2 - 1 + 1
      /\ \A k \in 1..(2 - 1 + 1) : w[k] = s[1 + k - 1]
  <2>1. 1 \in 1..(Len(s) + 1) /\ 2 \in (1 - 1)..Len(s)
    OBVIOUS
  <2> QED BY <2>1, SubSeqFacts, ZenonT(30)
<1> HIDE DEF w
<1>2. Len(w) = 2 /\ w[1] = s[1] /\ w[2] = s[2]
  BY <1>1
<1>3. Len(w) = Len(u) /\ \A k \in 1..Len(w) : w[k] = u[k]
  BY <1>2
<1>4. w = u
  BY <1>1, <1>3, SeqEqual
<1> QED BY <1>4 DEF w

\* The steps of a program are taken off its front.
LEMMA LeftFacts ==
  ASSUME NEW S, NEW s \in Seq(S), NEW p \in 0..Len(s)
  PROVE  /\ Left(s, p) \in Seq(S)
         /\ Left(s, p) = <<>> <=> p = Len(s)
         /\ p < Len(s) => Head(Left(s, p)) = s[p + 1] /\ Tail(Left(s, p)) = Left(s, p + 1)
<1>1. /\ Left(s, p) \in Seq(S) /\ Len(Left(s, p)) = Len(s) - p
      /\ \A k \in 1..(Len(s) - p) : Left(s, p)[k] = s[p + k]
  BY DEF Left
<1>2. Left(s, p) = <<>> <=> p = Len(s)
  BY <1>1
<1>3. ASSUME p < Len(s) PROVE Head(Left(s, p)) = s[p + 1] /\ Tail(Left(s, p)) = Left(s, p + 1)
  <2>1. Head(Left(s, p)) = s[p + 1]
    BY <1>1, <1>3
  <2>2. /\ Left(s, p + 1) \in Seq(S) /\ Len(Left(s, p + 1)) = Len(s) - p - 1
        /\ \A k \in 1..(Len(s) - p - 1) : Left(s, p + 1)[k] = s[p + 1 + k]
    BY <1>3 DEF Left
  <2>3. /\ Tail(Left(s, p)) \in Seq(S) /\ Len(Tail(Left(s, p))) = Len(s) - p - 1
        /\ \A k \in 1..(Len(s) - p - 1) : Tail(Left(s, p))[k] = s[p + 1 + k]
    <3>1. Left(s, p) # <<>>
      BY <1>1, <1>3
    <3>2. /\ Tail(Left(s, p)) \in Seq(S) /\ Len(Tail(Left(s, p))) = Len(s) - p - 1
          /\ \A k \in 1..(Len(s) - p - 1) : Tail(Left(s, p))[k] = Left(s, p)[k + 1]
      BY <1>1, <3>1
    <3>3. \A k \in 1..(Len(s) - p - 1) : k + 1 \in 1..(Len(s) - p) /\ p + (k + 1) = p + 1 + k
      OBVIOUS
    <3> QED BY <1>1, <3>2, <3>3
  <2> QED BY <1>1, <2>1, <2>2, <2>3, SeqEqual, SMTT(30)
<1> QED BY <1>1, <1>2, <1>3

\* The order of the numbers.
LessThan == {ij \in Nat \X Nat : ij[1] < ij[2]}

\* There is a least one of some numbers.
LEMMA LeastOne ==
  ASSUME NEW S \in SUBSET Nat, S # {} PROVE \E k \in S : \A j \in S : k <= j
<1>1. PICK k \in S : \A j \in S : <<j, k>> \notin LessThan
  <2>1. IsWellFoundedOn(LessThan, Nat)
    BY NatLessThanWellFounded DEF OpToRel, LessThan
  <2> QED BY <2>1, WFMin
<1>2. ASSUME NEW j \in S PROVE k <= j
  <2>1. j \in Nat /\ k \in Nat
    OBVIOUS
  <2>2. j < k => <<j, k>> \in LessThan
    BY <2>1 DEF LessThan
  <2> QED BY <1>1, <2>1, <2>2
<1> QED BY <1>2

\* The recursion by which FlattenSeq is defined has a solution.
LEMMA FlattenExists ==
  ASSUME NEW s, Len(s) \in Nat \ {0}
  PROVE  \E f : f = [i \in 1..Len(s) |-> IF i = 1 THEN s[i] ELSE f[i-1] \o s[i]]
<1> DEFINE Solved(n) == \E f : f = [i \in 1..n |-> IF i = 1 THEN s[i] ELSE f[i-1] \o s[i]]
           Unsolved == {n \in Nat \ {0} : ~ Solved(n)}
<1>1. Solved(1)
  <2>1. [i \in 1..1 |-> s[1]] = [i \in 1..1 |-> IF i = 1 THEN s[i] ELSE [j \in 1..1 |-> s[1]][i-1] \o s[i]]
    OBVIOUS
  <2> QED BY <2>1
<1>2. ASSUME NEW m \in Nat \ {0}, Solved(m) PROVE Solved(m + 1)
  <2>1. PICK f : f = [i \in 1..m |-> IF i = 1 THEN s[i] ELSE f[i-1] \o s[i]]
    BY <1>2
  <2> DEFINE g == [i \in 1..(m + 1) |-> IF i = m + 1 THEN f[m] \o s[m + 1] ELSE f[i]]
  <2>2. ASSUME NEW i \in 1..(m + 1) PROVE g[i] = IF i = 1 THEN s[i] ELSE g[i-1] \o s[i]
    <3>1. CASE i = m + 1
      <4>1. i # 1 /\ i - 1 = m /\ m \in 1..(m + 1) /\ m # m + 1
        BY <3>1
      <4> QED BY <3>1, <4>1
    <3>2. CASE i # m + 1
      <4>1. i \in 1..m /\ g[i] = f[i]
        BY <3>2
      <4>2. i # 1 => i - 1 \in 1..m /\ i - 1 # m + 1 /\ i - 1 \in 1..(m + 1)
        BY <4>1
      <4>3. i # 1 => g[i - 1] = f[i - 1]
        BY <4>2
      <4> HIDE DEF g
      <4> QED BY <2>1, <4>1, <4>3
    <3> QED BY <3>1, <3>2
  <2>3. g = [i \in 1..(m + 1) |-> g[i]]
    OBVIOUS
  <2> HIDE DEF g
  <2>4. g = [i \in 1..(m + 1) |-> IF i = 1 THEN s[i] ELSE g[i-1] \o s[i]]
    BY <2>2, <2>3
  <2> QED BY <2>4
<1> HIDE DEF Solved
<1>3. Unsolved = {}
  <2> SUFFICES ASSUME Unsolved # {} PROVE FALSE
    OBVIOUS
  <2>1. PICK k \in Unsolved : \A j \in Unsolved : k <= j
    BY LeastOne
  <2>2. k # 1 /\ k - 1 \in Nat \ {0} /\ k - 1 \notin Unsolved
    BY <1>1, <2>1
  <2>3. k = (k - 1) + 1
    BY <2>1
  <2> QED BY <1>2, <2>1, <2>2, <2>3
<1> QED BY <1>3 DEF Solved

\* Each part of a concatenation stands where the lengths of those before it put it: off is
\* the sums of the lengths.
LEMMA FlattenFacts ==
  ASSUME NEW S, NEW s \in Seq(Seq(S)), s # <<>>,
         NEW off \in [0..Len(s) -> Nat], off[0] = 0,
         \A i \in 1..Len(s) : off[i] = off[i - 1] + Len(s[i])
  PROVE  /\ FlattenSeq(s) \in Seq(S)
         /\ Len(FlattenSeq(s)) = off[Len(s)]
         /\ \A j \in 1..Len(s) : Has(FlattenSeq(s), off[j - 1], s[j])
<1> DEFINE F == CHOOSE f : f = [i \in 1..Len(s) |-> IF i = 1 THEN s[i] ELSE f[i-1] \o s[i]]
           L == Len(s)
<1>1. /\ L \in Nat \ {0} /\ L # 0 /\ L = Len(s) /\ \A i \in 1..L : s[i] \in Seq(S)
      /\ off \in [0..L -> Nat] /\ \A i \in 1..L : off[i] = off[i - 1] + Len(s[i])
  OBVIOUS
<1>2. F = [i \in 1..Len(s) |-> IF i = 1 THEN s[i] ELSE F[i-1] \o s[i]]
  BY <1>1, FlattenExists
<1>3. FlattenSeq(s) = F[L]
  BY <1>1 DEF FlattenSeq
<1>4. \A i \in 1..L : F[i] = IF i = 1 THEN s[i] ELSE F[i-1] \o s[i]
  BY <1>2
<1> HIDE DEF L
<1>5. \A i \in 1..L : s[i] \in Seq(S) /\ off[i] \in Nat /\ off[i - 1] \in Nat
  <2>1. \A i \in 1..L : i \in 0..L /\ i - 1 \in 0..L
    BY <1>1
  <2> QED BY <1>1, <2>1
<1> HIDE DEF F
<1> DEFINE Ok(n) == /\ F[n] \in Seq(S) /\ Len(F[n]) = off[n]
                    /\ \A j \in 1..n : Has(F[n], off[j - 1], s[j])
           Wrong == {n \in 1..L : ~ Ok(n)}
<1>6. Ok(1)
  <2>1. F[1] = s[1] /\ 1 \in 1..L
    BY <1>1, <1>4
  <2>2. off[1] = Len(s[1]) /\ Has(s[1], 0, s[1])
    BY <1>1, <1>5 DEF Has
  <2> QED BY <1>5, <2>1, <2>2
<1>7. ASSUME NEW m \in 1..(L - 1), Ok(m) PROVE Ok(m + 1)
  <2> DEFINE front == F[m]
             part == s[m + 1]
  <2>1. m + 1 \in 1..L /\ (m + 1) - 1 = m /\ m + 1 # 1 /\ m \in 1..L
    BY <1>1
  <2>2. F[m + 1] = front \o part
    BY <1>4, <2>1
  <2>3. front \in Seq(S) /\ Len(front) = off[m] /\ \A j \in 1..m : Has(front, off[j - 1], s[j])
    BY <1>7
  <2>4. part \in Seq(S) /\ off[m + 1] = off[m] + Len(part)
    BY <1>1, <2>1
  <2> HIDE DEF front, part
  <2>5. /\ front \o part \in Seq(S) /\ Len(front \o part) = Len(front) + Len(part)
        /\ \A k \in 1..Len(front) : (front \o part)[k] = front[k]
        /\ \A k \in 1..Len(part) : (front \o part)[Len(front) + k] = part[k]
    <3>1. front \in Seq(S) /\ part \in Seq(S)
      BY <2>3, <2>4
    <3> QED BY <3>1, ConcatFacts
  <2>6. F[m + 1] \in Seq(S) /\ Len(F[m + 1]) = off[m + 1]
    BY <2>2, <2>3, <2>4, <2>5
  <2>7. Has(F[m + 1], off[m], part)
    <3>1. Len(front) \in Nat /\ Len(part) \in Nat /\ Len(front) = off[m]
      BY <2>3, <2>4
    <3>2. off[m] + Len(part) <= Len(front \o part)
      BY <2>5, <3>1
    <3>3. \A k \in 1..Len(part) : (front \o part)[off[m] + k] = part[k]
      BY <2>5, <3>1
    <3>4. Has(front \o part, off[m], part)
      BY <3>2, <3>3 DEF Has
    <3> QED BY <2>2, <3>4
  <2>8. ASSUME NEW j \in 1..m PROVE Has(F[m + 1], off[j - 1], s[j])
    <3>1. Has(front, off[j - 1], s[j]) /\ s[j] \in Seq(S) /\ off[j - 1] \in Nat
      BY <1>1, <1>5, <2>1, <2>3, SMTT(30)
    <3>2. Len(front) \in Nat /\ Len(part) \in Nat
      BY <2>3, <2>4
    <3>3. off[j - 1] + Len(s[j]) <= Len(front)
      BY <3>1 DEF Has
    <3>4. \A k \in 1..Len(s[j]) : off[j - 1] + k \in 1..Len(front)
      <4>1. Len(s[j]) \in Nat
        BY <3>1
      <4> QED BY <3>1, <3>2, <3>3, <4>1, SMTT(30)
    <3> QED BY <2>2, <2>5, <3>1, <3>2, <3>3, <3>4, SMTT(30) DEF Has
  <2>9. \A j \in 1..(m + 1) : j \in 1..m \/ j = m + 1
    OBVIOUS
  <2> QED BY <2>1, <2>6, <2>7, <2>8, <2>9 DEF part
<1>8. Wrong = {}
  <2> SUFFICES ASSUME Wrong # {} PROVE FALSE
    OBVIOUS
  <2>1. PICK k \in Wrong : \A j \in Wrong : k <= j
    <3>1. Wrong \in SUBSET Nat
      BY <1>1
    <3> HIDE DEF Wrong
    <3> QED BY <3>1, LeastOne
  <2>2. k # 1 /\ k - 1 \in 1..(L - 1) /\ k - 1 \notin Wrong /\ k = (k - 1) + 1
    BY <1>1, <1>6, <2>1, SMTT(30)
  <2>3. Ok(k - 1)
    BY <1>1, <2>2
  <2>4. Ok((k - 1) + 1)
    BY <1>7, <2>2, <2>3
  <2> QED BY <2>1, <2>2, <2>4
<1>9. Ok(L)
  BY <1>1, <1>8
<1> QED BY <1>1, <1>3, <1>9 DEF Ok

-----------------------------------------------------------------------------
(* Messages and where their fields are.                                    *)

\* A number of two or four bytes is read as it was written.
LEMMA NumberFacts ==
  ASSUME NEW n \in Nat
  PROVE  /\ Uint16(n) \in Seq(Nat) /\ Len(Uint16(n)) = 2 /\ Number16(Uint16(n)) = n
         /\ Uint32(n) \in Seq(Nat) /\ Len(Uint32(n)) = 4 /\ Number32(Uint32(n)) = n
<1>1. \A k \in Nat : /\ k % 256 \in Nat /\ k \div 256 \in Nat /\ (k % 256) + 256 * (k \div 256) = k
                     /\ k % 65536 \in Nat /\ k \div 65536 \in Nat
                     /\ (k % 65536) + 65536 * (k \div 65536) = k
  OBVIOUS
<1>2. ASSUME NEW k \in Nat
      PROVE  /\ Uint16(k) \in Seq(Nat) /\ Len(Uint16(k)) = 2
             /\ Uint16(k)[1] = k % 256 /\ Uint16(k)[2] = k \div 256
  BY <1>1 DEF Uint16
<1>3. Number16(Uint16(n)) = n
  <2>1. Uint16(n)[1] = n % 256 /\ Uint16(n)[2] = n \div 256
    BY <1>2, ZenonT(30)
  <2> QED BY <1>1, <2>1 DEF Number16
<1> DEFINE low == n % 65536
           high == n \div 65536
<1>4. low \in Nat /\ high \in Nat /\ low + 65536 * high = n
  BY <1>1
<1>5. Uint32(n) = Uint16(low) \o Uint16(high)
  BY DEF Uint32
<1> HIDE DEF low, high
<1>6. /\ Uint32(n) \in Seq(Nat) /\ Len(Uint32(n)) = 4
      /\ Uint32(n)[1] = low % 256 /\ Uint32(n)[2] = low \div 256
      /\ Uint32(n)[3] = high % 256 /\ Uint32(n)[4] = high \div 256
  <2>0. low \in Nat /\ high \in Nat
    BY <1>4
  <2>1. /\ Uint16(low) \in Seq(Nat) /\ Len(Uint16(low)) = 2
        /\ Uint16(low)[1] = low % 256 /\ Uint16(low)[2] = low \div 256
    BY <1>2, <2>0
  <2>2. /\ Uint16(high) \in Seq(Nat) /\ Len(Uint16(high)) = 2
        /\ Uint16(high)[1] = high % 256 /\ Uint16(high)[2] = high \div 256
    BY <1>2, <2>0
  <2>3. /\ Uint32(n) \in Seq(Nat) /\ Len(Uint32(n)) = 4
        /\ \A k \in 1..2 : Uint32(n)[k] = Uint16(low)[k]
        /\ \A k \in 1..2 : Uint32(n)[2 + k] = Uint16(high)[k]
    <3>1. Uint16(low) \in Seq(Nat) /\ Uint16(high) \in Seq(Nat)
      BY <2>1, <2>2
    <3>2. /\ Uint16(low) \o Uint16(high) \in Seq(Nat)
          /\ Len(Uint16(low) \o Uint16(high)) = Len(Uint16(low)) + Len(Uint16(high))
          /\ \A k \in 1..Len(Uint16(low)) : (Uint16(low) \o Uint16(high))[k] = Uint16(low)[k]
          /\ \A k \in 1..Len(Uint16(high)) :
               (Uint16(low) \o Uint16(high))[Len(Uint16(low)) + k] = Uint16(high)[k]
      BY <3>1, ConcatFacts
    <3>3. Len(Uint16(low)) = 2 /\ Len(Uint16(high)) = 2
      BY <2>1, <2>2
    <3> QED BY <1>5, <3>2, <3>3
  <2>4. Uint32(n)[2 + 1] = Uint16(high)[1] /\ Uint32(n)[2 + 2] = Uint16(high)[2]
    BY <2>3
  <2> QED BY <2>1, <2>2, <2>3, <2>4
<1>7. Number32(Uint32(n)) = n
  <2>1. (low % 256) + 256 * (low \div 256) = low /\ (high % 256) + 256 * (high \div 256) = high
    BY <1>1, <1>4
  <2>2. /\ low % 256 \in Nat /\ low \div 256 \in Nat
        /\ high % 256 \in Nat /\ high \div 256 \in Nat
    BY <1>1, <1>4
  <2>3. Number32(Uint32(n)) = (low % 256) + 256 * (low \div 256) + 65536 * (high % 256)
                               + 16777216 * (high \div 256)
    BY <1>6 DEF Number32
  <2>4. 65536 * (high % 256) + 16777216 * (high \div 256) = 65536 * high
    BY <1>4, <2>1, <2>2
  <2> QED BY <1>4, <2>1, <2>2, <2>3, <2>4
<1> QED BY <1>2, <1>3, <1>6, <1>7

\* What a message of each kind has.
MessageForm(m) ==
  \/ /\ m.kind = "unlock" /\ m.flags = Struct
     /\ \E k \in IdBytes, c \in IdBytes : m.fields = <<k, c>>
  \/ /\ m.kind = "name" /\ m.flags = Struct
     /\ \E t \in IdBytes, i \in IdBytes, n \in Names : m.fields = <<t, i, n>>
  \/ /\ m.kind = "nameBase" /\ m.flags = Struct
     /\ \E t \in IdBytes, n \in Names : m.fields = <<t, Uint32(7), n>>
  \/ /\ m.kind \in {"removeName", "delete", "other"} /\ m.flags = Struct
     /\ \E i \in IdBytes : m.fields = <<i>>
  \/ /\ m.kind = "craft" /\ m.flags = Struct
     /\ \E n \in 0..MaxItems : \E s \in [1..n -> IdBytes] :
          m.fields = <<Uint16(3), Uint16(Len(s))>> \o s
  \/ /\ m.kind = "connect" /\ m.flags = Struct
     /\ \E i \in IdBytes, p \in Payloads : m.fields = <<i, SizeOf(p), p>>
  \/ /\ m.kind = "request" /\ m.flags = Protobuf
     /\ \E p \in Payloads : m.fields = <<p>>
  \/ /\ m.kind = "answer" /\ m.flags = CCProto
     /\ \E p \in Payloads : m.fields = <<p>>

\* Each message has the form of its kind.
LEMMA FormOf == \A m \in Messages : MessageForm(m)
<1> SUFFICES ASSUME NEW m \in Messages PROVE MessageForm(m)
  OBVIOUS
<1>1. ASSUME NEW k \in IdBytes, NEW c \in IdBytes, m = Message("unlock", Struct, <<k, c>>)
      PROVE  MessageForm(m)
  BY <1>1 DEF MessageForm, Message
<1>2. ASSUME NEW t \in IdBytes, NEW i \in IdBytes, NEW n \in Names,
             m = Message("name", Struct, <<t, i, n>>)
      PROVE  MessageForm(m)
  BY <1>2 DEF MessageForm, Message
<1>3. ASSUME NEW t \in IdBytes, NEW n \in Names, m = Message("nameBase", Struct, <<t, Uint32(7), n>>)
      PROVE  MessageForm(m)
  BY <1>3 DEF MessageForm, Message
<1>4. ASSUME NEW kind \in {"removeName", "delete", "other"}, NEW i \in IdBytes,
             m = Message(kind, Struct, <<i>>)
      PROVE  MessageForm(m)
  BY <1>4 DEF MessageForm, Message
<1>5. ASSUME NEW n \in 0..MaxItems, NEW s \in [1..n -> IdBytes],
             m = Message("craft", Struct, <<Uint16(3), Uint16(Len(s))>> \o s)
      PROVE  MessageForm(m)
  BY <1>5 DEF MessageForm, Message
<1>6. ASSUME NEW i \in IdBytes, NEW p \in Payloads,
             m = Message("connect", Struct, <<i, SizeOf(p), p>>)
      PROVE  MessageForm(m)
  BY <1>6 DEF MessageForm, Message
<1>7. ASSUME NEW p \in Payloads, m = Message("request", Protobuf, <<p>>) PROVE MessageForm(m)
  BY <1>7 DEF MessageForm, Message
<1>8. ASSUME NEW p \in Payloads, m = Message("answer", CCProto, <<p>>) PROVE MessageForm(m)
  BY <1>8 DEF MessageForm, Message
<1> DEFINE Unlock == {Message("unlock", Struct, <<k, c>>) : k \in IdBytes, c \in IdBytes}
           Name == {Message("name", Struct, <<t, i, n>>) : t \in IdBytes, i \in IdBytes, n \in Names}
           NameBase == {Message("nameBase", Struct, <<t, Uint32(7), n>>) : t \in IdBytes, n \in Names}
           ById == {Message(kind, Struct, <<i>>) :
                      kind \in {"removeName", "delete", "other"}, i \in IdBytes}
           Craft == {Message("craft", Struct, <<Uint16(3), Uint16(Len(s))>> \o s) :
                       s \in UNION {[1..n -> IdBytes] : n \in 0..MaxItems}}
           Connect == {Message("connect", Struct, <<i, SizeOf(p), p>>) :
                         i \in IdBytes, p \in Payloads}
           Request == {Message("request", Protobuf, <<p>>) : p \in Payloads}
           Answer == {Message("answer", CCProto, <<p>>) : p \in Payloads}
<1>9. Messages = Unlock \cup Name \cup NameBase \cup ById \cup Craft \cup Connect \cup Request
                 \cup Answer
  BY DEF Messages
<1> HIDE DEF Unlock, Name, NameBase, ById, Craft, Connect, Request, Answer
<1>10. CASE m \in Unlock
  <2>1. \E k \in IdBytes, c \in IdBytes : m = Message("unlock", Struct, <<k, c>>)
    BY <1>10 DEF Unlock
  <2> QED BY <1>1, <2>1
<1>11. CASE m \in Name
  <2>1. \E t \in IdBytes, i \in IdBytes, n \in Names : m = Message("name", Struct, <<t, i, n>>)
    BY <1>11 DEF Name
  <2> QED BY <1>2, <2>1
<1>12. CASE m \in NameBase
  <2>1. \E t \in IdBytes, n \in Names : m = Message("nameBase", Struct, <<t, Uint32(7), n>>)
    BY <1>12 DEF NameBase
  <2> QED BY <1>3, <2>1
<1>13. CASE m \in ById
  <2>1. \E kind \in {"removeName", "delete", "other"}, i \in IdBytes : m = Message(kind, Struct, <<i>>)
    BY <1>13 DEF ById
  <2> QED BY <1>4, <2>1
<1>14. CASE m \in Craft
  <2>1. \E n \in 0..MaxItems : \E s \in [1..n -> IdBytes] :
          m = Message("craft", Struct, <<Uint16(3), Uint16(Len(s))>> \o s)
    BY <1>14 DEF Craft
  <2> QED BY <1>5, <2>1
<1>15. CASE m \in Connect
  <2>1. \E i \in IdBytes, p \in Payloads : m = Message("connect", Struct, <<i, SizeOf(p), p>>)
    BY <1>15 DEF Connect
  <2> QED BY <1>6, <2>1
<1>16. CASE m \in Request
  <2>1. \E p \in Payloads : m = Message("request", Protobuf, <<p>>)
    BY <1>16 DEF Request
  <2> QED BY <1>7, <2>1
<1>17. CASE m \in Answer
  <2>1. \E p \in Payloads : m = Message("answer", CCProto, <<p>>)
    BY <1>17 DEF Answer
  <2> QED BY <1>8, <2>1
<1> QED BY <1>9, <1>10, <1>11, <1>12, <1>13, <1>14, <1>15, <1>16, <1>17

\* Ids have eight bytes, and a name has no zero in it.
LEMMA ConstantTypes ==
  /\ \A i \in IdBytes : i \in Seq(Nat) /\ Len(i) = 8
  /\ \A n \in Names : n \in Seq(Nat) /\ \A k \in 1..Len(n) : n[k] # 0
  /\ \A p \in Payloads : p \in Seq(Nat)
<1>1. ASSUME NEW i \in IdBytes PROVE i \in Seq(Nat) /\ Len(i) = 8
  <2>1. i \in [1..8 -> 0..255]
    BY CodecAssumption DEF CodecAssumption, Byte
  <2>2. i \in Seq(0..255)
    <3>1. i \in UNION {[1..n -> 0..255] : n \in Nat}
      BY <2>1
    <3> QED BY <3>1, SeqDef, Zenon
  <2>3. 0..255 \subseteq Nat
    OBVIOUS
  <2>4. Len(i) = 8
    BY <2>1, <2>2, LenProperties
  <2> QED BY <2>2, <2>3, <2>4, SeqMonotonic
<1>2. ASSUME NEW n \in Names PROVE n \in Seq(Nat) /\ \A k \in 1..Len(n) : n[k] # 0
  <2>1. n \in Seq(1..255)
    BY CodecAssumption DEF CodecAssumption
  <2>2. \A k \in 1..Len(n) : n[k] \in 1..255
    BY <2>1, ElementOfSeq
  <2>3. 1..255 \subseteq Nat /\ 0 \notin 1..255
    OBVIOUS
  <2> QED BY <2>1, <2>2, <2>3, SeqMonotonic, ZenonT(30)
<1>3. ASSUME NEW p \in Payloads PROVE p \in Seq(Nat)
  <2>1. p \in Seq(0..255)
    BY CodecAssumption DEF CodecAssumption, Bytes, Byte
  <2>2. 0..255 \subseteq Nat
    OBVIOUS
  <2> QED BY <2>1, <2>2, SeqMonotonic
<1> QED BY <1>1, <1>2, <1>3

\* Pieces have lengths.
LEMMA PiecesFacts ==
  ASSUME NEW s \in Pieces
  PROVE  Len(s) \in Nat /\ \A i \in 1..Len(s) : s[i] \in Seq(Nat) /\ Len(s[i]) \in Nat
<1>1. Len(s) \in Nat /\ \A i \in 1..Len(s) : s[i] \in Seq(Nat)
  BY DEF Pieces
<1> QED BY <1>1

\* A few pieces, each with its place.
LEMMA FewPieces ==
  ASSUME NEW s \in Pieces, Len(s) \in Nat, 1 <= Len(s), Len(s) <= 3
  PROVE  /\ FlattenSeq(s) \in Seq(Nat) /\ Len(FlattenSeq(s)) = Reach(s, Len(s))
         /\ \A c \in 0..(Len(s) - 1) : Has(FlattenSeq(s), Reach(s, c), s[c + 1])
<1>0. Len(s) \in Nat /\ 1 <= Len(s) /\ Len(s) <= 3
  OBVIOUS
<1> DEFINE off == [i \in 0..Len(s) |-> Reach(s, i)]
<1>1. \A i \in 1..Len(s) : s[i] \in Seq(Nat) /\ Len(s[i]) \in Nat
  BY PiecesFacts
<1>2. Reach(s, 0) = 0 /\ \A i \in 1..Len(s) : Reach(s, i) = Reach(s, i - 1) + Len(s[i]) /\ Reach(s, i) \in Nat
  <2>1. Reach(s, 0) = 0
    BY DEF Reach
  <2>2. /\ Reach(s, 1) = Len(s[1])
        /\ Reach(s, 2) = Len(s[1]) + Len(s[2])
        /\ Reach(s, 3) = Len(s[1]) + Len(s[2]) + Len(s[3])
    BY DEF Reach
  <2>3. \A x, y, z \in Nat : x + y \in Nat /\ x + y + z = (x + y) + z /\ x + y + z \in Nat
    OBVIOUS
  <2>4. ASSUME NEW i \in 1..Len(s)
        PROVE  Reach(s, i) = Reach(s, i - 1) + Len(s[i]) /\ Reach(s, i) \in Nat
    <3>0. i \in 1..3 /\ \A j \in 1..i : Len(s[j]) \in Nat
      BY <1>0, <1>1
    <3>1. CASE i = 1
      BY <1>1, <2>1, <2>2, <3>1
    <3>2. CASE i = 2
      <4>1. Len(s[1]) \in Nat /\ Len(s[2]) \in Nat
        BY <3>0, <3>2
      <4>2. i - 1 = 1
        BY <3>2
      <4>3. Reach(s, 2) = Reach(s, 1) + Len(s[2]) /\ Reach(s, 2) \in Nat
        BY <2>2, <2>3, <4>1, Zenon
      <4> QED BY <3>2, <4>2, <4>3, Zenon
    <3>3. CASE i = 3
      <4>1. Len(s[1]) \in Nat /\ Len(s[2]) \in Nat /\ Len(s[3]) \in Nat
        BY <3>0, <3>3
      <4>2. i - 1 = 2
        BY <3>3
      <4>3. Reach(s, 3) = Reach(s, 2) + Len(s[3])
        BY <2>2, Zenon
      <4>4. Reach(s, 2) \in Nat
        BY <2>2, <2>3, <4>1, Zenon
      <4>5. Reach(s, 3) \in Nat
        BY <2>3, <4>1, <4>3, <4>4, Zenon
      <4> QED BY <3>3, <4>2, <4>3, <4>5, Zenon
    <3>4. i = 1 \/ i = 2 \/ i = 3
      BY <3>0
    <3> QED BY <3>1, <3>2, <3>3, <3>4
  <2> QED BY <2>1, <2>4
<1>3. off \in [0..Len(s) -> Nat] /\ off[0] = 0
  BY <1>2
<1>4. \A i \in 1..Len(s) : off[i] = off[i - 1] + Len(s[i])
  BY <1>2
<1>5. s # <<>> /\ off[Len(s)] = Reach(s, Len(s)) /\ \A j \in 1..Len(s) : off[j - 1] = Reach(s, j - 1)
  OBVIOUS
<1> HIDE DEF off
<1>6. /\ FlattenSeq(s) \in Seq(Nat) /\ Len(FlattenSeq(s)) = off[Len(s)]
      /\ \A j \in 1..Len(s) : Has(FlattenSeq(s), off[j - 1], s[j])
  <2>1. s \in Seq(Seq(Nat))
    BY DEF Pieces
  <2> QED BY <1>3, <1>4, <1>5, <2>1, FlattenFacts
<1>7. \A c \in 0..(Len(s) - 1) : c + 1 \in 1..Len(s) /\ (c + 1) - 1 = c
  OBVIOUS
<1> QED BY <1>5, <1>6, <1>7

\* The fields of a message, and the pieces that are written.
LEMMA FieldTypes ==
  ASSUME NEW m \in Messages
  PROVE  /\ m.fields \in Pieces /\ Len(m.fields) \in Nat /\ 1 <= Len(m.fields)
         /\ m.kind # "craft" => Len(m.fields) <= 3
<1>1. MessageForm(m)
  BY FormOf
<1>2. /\ Uint32(7) \in Seq(Nat) /\ \A p \in Payloads : SizeOf(p) \in Seq(Nat)
      /\ \A n \in Nat : Uint16(n) \in Seq(Nat)
  <2>1. \A p \in Payloads : Len(p) \in Nat
    BY ConstantTypes
  <2> QED BY <2>1, NumberFacts DEF SizeOf
<1>3. \A a, b, c \in Seq(Nat) :
        /\ <<a>> \in Pieces /\ Len(<<a>>) = 1
        /\ <<a, b>> \in Pieces /\ Len(<<a, b>>) = 2
        /\ <<a, b, c>> \in Pieces /\ Len(<<a, b, c>>) = 3
  BY TupleTypes DEF Pieces
<1>4. CASE m.kind = "craft"
  <2>0. PICK n \in 0..MaxItems : \E s \in [1..n -> IdBytes] :
                m.fields = <<Uint16(3), Uint16(Len(s))>> \o s
    BY <1>1, <1>4 DEF MessageForm
  <2>1. PICK s \in [1..n -> IdBytes] : m.fields = <<Uint16(3), Uint16(Len(s))>> \o s
    BY <2>0
  <2>2. s \in Seq(Seq(Nat)) /\ Len(s) = n /\ n \in Nat
    <3>1. n \in Nat /\ s \in [1..n -> Seq(Nat)]
      BY ConstantTypes, AssumedNumbers
    <3>2. s \in UNION {[1..k -> Seq(Nat)] : k \in Nat}
      BY <3>1
    <3>3. s \in Seq(Seq(Nat))
      BY <3>2, SeqDef, Zenon
    <3> QED BY <3>1, <3>3, LenProperties
  <2>3. <<Uint16(3), Uint16(Len(s))>> \in Seq(Seq(Nat)) /\ Len(<<Uint16(3), Uint16(Len(s))>>) = 2
    BY <1>2, <1>3, <2>2 DEF Pieces
  <2>4. m.fields \in Seq(Seq(Nat)) /\ Len(m.fields) = 2 + n
    BY <2>1, <2>2, <2>3, ConcatFacts, SMTT(30)
  <2> QED BY <1>4, <2>2, <2>4 DEF Pieces
<1>5. CASE m.kind # "craft"
  <2>1. /\ \A i \in IdBytes : i \in Seq(Nat)
        /\ \A n \in Names : n \in Seq(Nat)
        /\ \A p \in Payloads : p \in Seq(Nat)
    BY ConstantTypes
  <2>2. \E a, b, c \in Seq(Nat) : m.fields = <<a>> \/ m.fields = <<a, b>> \/ m.fields = <<a, b, c>>
    <3>1. CASE m.kind = "unlock"
      BY <1>1, <2>1, <3>1 DEF MessageForm
    <3>2. CASE m.kind \in {"name", "nameBase"}
      BY <1>1, <1>2, <2>1, <3>2 DEF MessageForm
    <3>3. CASE m.kind = "connect"
      BY <1>1, <1>2, <2>1, <3>3 DEF MessageForm
    <3>4. CASE m.kind \notin {"unlock", "name", "nameBase", "connect"}
      BY <1>1, <1>5, <2>1, <3>4 DEF MessageForm
    <3> QED BY <3>1, <3>2, <3>3, <3>4
  <2>3. PICK a \in Seq(Nat), b \in Seq(Nat), c \in Seq(Nat) : m.fields = <<a>> \/ m.fields = <<a, b>> \/ m.fields = <<a, b, c>>
    BY <2>2
  <2>4. /\ m.fields \in Pieces
        /\ Len(m.fields) = 1 \/ Len(m.fields) = 2 \/ Len(m.fields) = 3
    BY <1>3, <2>3, Zenon
  <2>5. \A k : k = 1 \/ k = 2 \/ k = 3 => k \in Nat /\ 1 <= k /\ k <= 3
    OBVIOUS
  <2> QED BY <2>4, <2>5, Zenon
<1> QED BY <1>4, <1>5

\* A message without a name or a list: its fields, one after the other.
LEMMA PlainWritten ==
  ASSUME NEW m \in Messages, m.kind # "craft", ~ IsNaming(m)
  PROVE  LET f == m.fields IN
         /\ Written(m) \in Seq(Nat) /\ Len(Written(m)) = Reach(f, Len(f))
         /\ \A c \in 0..(Len(f) - 1) : Has(Written(m), Reach(f, c), f[c + 1])
<1>1. Written(m) = FlattenSeq(m.fields)
  BY DEF Written, IsNaming
<1> QED BY <1>1, FieldTypes, FewPieces

\* A name has the sentinel before it, and a zero after it.
LEMMA NamingWritten ==
  ASSUME NEW m \in Messages, IsNaming(m)
  PROVE  LET f == m.fields IN
         /\ Len(f) = 3 /\ Len(f[3]) \in Nat /\ \A k \in 1..Len(f[3]) : f[3][k] # 0
         /\ Written(m) \in Seq(Nat) /\ Len(Written(m)) = Reach(f, 2) + Len(f[3]) + 2
         /\ Has(Written(m), 0, f[1]) /\ Has(Written(m), Len(f[1]), f[2])
         /\ Has(Written(m), Reach(f, 2) + 1, f[3])
         /\ Written(m)[Reach(f, 2) + 1 + Len(f[3]) + 1] = 0
<1> DEFINE f == m.fields
<1>1. PICK a \in Seq(Nat), b \in Seq(Nat), n \in Names : f = <<a, b, n>>
  <2>1. MessageForm(m)
    BY FormOf
  <2>2. Uint32(7) \in Seq(Nat)
    BY NumberFacts
  <2> QED BY <2>1, <2>2, ConstantTypes DEF MessageForm, IsNaming
<1>2. n \in Seq(Nat) /\ \A k \in 1..Len(n) : n[k] # 0
  BY ConstantTypes
<1> DEFINE s == <<a, b, <<1>>, n, <<0>>>>
<1>3. Written(m) = FlattenSeq(s)
  <2>1. Named(f, 3) = s
    <3>1. /\ f \in Pieces /\ Len(f) = 3 /\ <<a, b>> \in Pieces /\ Len(<<a, b>>) = 2
          /\ <<<<1>>, n, <<0>>>> \in Pieces /\ Len(<<<<1>>, n, <<0>>>>) = 3
          /\ s \in Pieces /\ Len(s) = 5
      <4>1. a \in Seq(Nat) /\ b \in Seq(Nat) /\ n \in Seq(Nat) /\ <<1>> \in Seq(Nat) /\ <<0>> \in Seq(Nat)
        BY <1>2
      <4> QED BY <1>1, <4>1, TupleTypes, FiveTypes DEF Pieces
    <3>2. SubSeq(f, 1, 2) = <<a, b>>
      <4>1. f[1] = <<a, b>>[1] /\ f[2] = <<a, b>>[2]
        BY <1>1
      <4> QED BY ONLY <3>1, <4>1, FirstTwo DEF Pieces
    <3>3. SubSeq(f, 1, 3 - 1) = <<a, b>> /\ f[3] = n
      BY <1>1, <3>2
    <3>4. <<a, b>> \o <<<<1>>, n, <<0>>>> = s
      <4> DEFINE front == <<a, b>>
                 back == <<<<1>>, n, <<0>>>>
      <4>1. /\ s[1] = front[1] /\ s[2] = front[2]
            /\ s[3] = back[1] /\ s[4] = back[2] /\ s[5] = back[3]
        OBVIOUS
      <4>2. /\ front \in Seq(Seq(Nat)) /\ Len(front) = 2 /\ back \in Seq(Seq(Nat)) /\ Len(back) = 3
            /\ s \in Seq(Seq(Nat)) /\ Len(s) = 5
        BY <3>1 DEF Pieces
      <4> HIDE DEF front, back, s
      <4>3. front \o back = s
        BY ONLY <4>1, <4>2, PairAndThree
      <4> QED BY <4>3 DEF front, back
    <3> QED BY <3>3, <3>4 DEF Named, Sentinel
  <2> QED BY <2>1 DEF Written, IsNaming
<1>4. Len(a) \in Nat /\ Len(b) \in Nat /\ Len(n) \in Nat
  BY <1>2
<1> DEFINE off == [i \in 0..5 |->
             IF i = 0 THEN 0 ELSE IF i = 1 THEN Len(a) ELSE IF i = 2 THEN Len(a) + Len(b)
             ELSE IF i = 3 THEN Len(a) + Len(b) + 1 ELSE IF i = 4 THEN Len(a) + Len(b) + 1 + Len(n)
             ELSE Len(a) + Len(b) + 2 + Len(n)]
<1>5. s \in Seq(Seq(Nat)) /\ s # <<>> /\ Len(s) = 5
  BY <1>2
<1>6. /\ off \in [0..5 -> Nat] /\ off[0] = 0
      /\ off[1] = Len(a) /\ off[2] = Len(a) + Len(b) /\ off[3] = Len(a) + Len(b) + 1
      /\ off[4] = Len(a) + Len(b) + 1 + Len(n) /\ off[5] = Len(a) + Len(b) + 2 + Len(n)
  BY <1>4
<1>7. /\ s[1] = a /\ s[2] = b /\ s[3] = <<1>> /\ s[4] = n /\ s[5] = <<0>>
      /\ Len(<<1>>) = 1 /\ Len(<<0>>) = 1 /\ <<0>>[1] = 0
  OBVIOUS
<1> HIDE DEF s, off
<1>8. \A i \in 1..5 : off[i] = off[i - 1] + Len(s[i])
  <2>1. /\ off[1] = off[0] + Len(s[1]) /\ off[2] = off[1] + Len(s[2])
        /\ off[3] = off[2] + Len(s[3]) /\ off[4] = off[3] + Len(s[4])
        /\ off[5] = off[4] + Len(s[5])
    BY <1>4, <1>6, <1>7
  <2> QED BY <2>1
<1>9. /\ Written(m) \in Seq(Nat) /\ Len(Written(m)) = off[5]
      /\ \A j \in 1..5 : Has(Written(m), off[j - 1], s[j])
  BY <1>3, <1>5, <1>6, <1>8, FlattenFacts
<1>10. /\ Has(Written(m), 0, a) /\ Has(Written(m), Len(a), b)
       /\ Has(Written(m), Len(a) + Len(b) + 1, n)
       /\ Has(Written(m), Len(a) + Len(b) + 1 + Len(n), <<0>>)
  <2>1. /\ Has(Written(m), off[1 - 1], s[1]) /\ Has(Written(m), off[2 - 1], s[2])
        /\ Has(Written(m), off[4 - 1], s[4]) /\ Has(Written(m), off[5 - 1], s[5])
    BY <1>9
  <2> QED BY <1>6, <1>7, <2>1
<1>11. Written(m)[Len(a) + Len(b) + 1 + Len(n) + 1] = 0
  BY <1>7, <1>10 DEF Has
<1>12. Reach(f, 2) = Len(a) + Len(b) /\ Len(f) = 3 /\ f[1] = a /\ f[2] = b /\ f[3] = n
  BY <1>1 DEF Reach
<1>13. Len(Written(m)) = Len(a) + Len(b) + Len(n) + 2
  BY <1>4, <1>6, <1>9
<1> HIDE DEF f
<1>14. /\ Len(f) = 3 /\ Len(f[3]) \in Nat /\ \A k \in 1..Len(f[3]) : f[3][k] # 0
       /\ Len(Written(m)) = Reach(f, 2) + Len(f[3]) + 2
       /\ Has(Written(m), 0, f[1]) /\ Has(Written(m), Len(f[1]), f[2])
       /\ Has(Written(m), Reach(f, 2) + 1, f[3])
       /\ Written(m)[Reach(f, 2) + 1 + Len(f[3]) + 1] = 0
  BY <1>2, <1>4, <1>10, <1>11, <1>12, <1>13
<1> QED BY <1>9, <1>14 DEF f

\* The kinds have their numbers.
LEMMA KindNumbers ==
  ASSUME NEW m \in Messages
  PROVE  /\ NumberOf(m.kind) \in DOMAIN Kinds /\ NumberOf(m.kind) \in Nat
         /\ Kinds[NumberOf(m.kind)] = m.kind
<1>1. MessageForm(m)
  BY FormOf
<1>2. m.kind \in {"unlock", "name", "nameBase", "removeName", "delete", "craft",
                  "connect", "request", "answer", "other"}
  BY <1>1 DEF MessageForm
<1>3. \E n \in 1..10 : Kinds[n] = m.kind
  <2>1. /\ Kinds[1] = "unlock" /\ Kinds[2] = "name" /\ Kinds[3] = "nameBase" /\ Kinds[4] = "removeName"
        /\ Kinds[5] = "delete" /\ Kinds[6] = "craft" /\ Kinds[7] = "connect" /\ Kinds[8] = "request"
        /\ Kinds[9] = "answer" /\ Kinds[10] = "other"
    BY DEF Kinds
  <2>2. /\ 1 \in 1..10 /\ 2 \in 1..10 /\ 3 \in 1..10 /\ 4 \in 1..10 /\ 5 \in 1..10
        /\ 6 \in 1..10 /\ 7 \in 1..10 /\ 8 \in 1..10 /\ 9 \in 1..10 /\ 10 \in 1..10
    OBVIOUS
  <2> QED BY <1>2, <2>1, <2>2, Zenon
<1>4. DOMAIN Kinds = 1..10
  BY DEF Kinds
<1>5. NumberOf(m.kind) \in DOMAIN Kinds /\ Kinds[NumberOf(m.kind)] = m.kind
  BY <1>3, <1>4, Zenon DEF NumberOf
<1>6. \A n \in 1..10 : n \in Nat
  OBVIOUS
<1> QED BY <1>4, <1>5, <1>6, Zenon

\* A message's type has its number and its flags.
LEMMA TypeTypes ==
  ASSUME NEW m \in Messages
  PROVE  LET type == TypeOf(NumberOf(m.kind), m.flags) IN
         /\ m.flags \in {Struct, Protobuf, CCProto}
         /\ type \in Seq(Nat) /\ Len(type) = 4
         /\ type[1] = NumberOf(m.kind) /\ type[4] = m.flags
<1>1. MessageForm(m)
  BY FormOf
<1>2. m.flags \in {Struct, Protobuf, CCProto}
  BY <1>1 DEF MessageForm
<1>3. m.flags \in Nat
  BY <1>2 DEF Struct, Protobuf, CCProto
<1>4. \A a \in Nat, b \in Nat : /\ <<a, 0, 0, b>> \in Seq(Nat) /\ Len(<<a, 0, 0, b>>) = 4
                                /\ <<a, 0, 0, b>>[1] = a /\ <<a, 0, 0, b>>[4] = b
  OBVIOUS
<1> QED BY <1>2, <1>3, <1>4, KindNumbers, Zenon DEF TypeOf

\* What the trade-up's message has.
LEMMA CraftForm ==
  ASSUME NEW m \in Messages, m.kind = "craft"
  PROVE  LET f == m.fields IN
         /\ f \in Pieces /\ Len(f) \in Nat /\ 2 <= Len(f)
         /\ Len(f[1]) = 2 /\ Len(f[2]) = 2 /\ Number16(f[2]) = Len(f) - 2
         /\ \A r \in 3..Len(f) : Len(f[r]) = 8
<1> DEFINE f == m.fields
<1>1. PICK n \in 0..MaxItems : \E s \in [1..n -> IdBytes] :
              f = <<Uint16(3), Uint16(Len(s))>> \o s
  <2>1. MessageForm(m)
    BY FormOf
  <2> QED BY <2>1 DEF MessageForm
<1>2. PICK s \in [1..n -> IdBytes] : f = <<Uint16(3), Uint16(Len(s))>> \o s
  BY <1>1
<1>3. s \in Seq(Seq(Nat)) /\ Len(s) = n /\ n \in Nat /\ \A k \in 1..n : Len(s[k]) = 8
  <2>1. n \in Nat /\ s \in [1..n -> Seq(Nat)] /\ \A k \in 1..n : Len(s[k]) = 8
    BY ConstantTypes, AssumedNumbers
  <2>2. s \in UNION {[1..k -> Seq(Nat)] : k \in Nat}
    BY <2>1
  <2>3. s \in Seq(Seq(Nat))
    BY <2>2, SeqDef, Zenon
  <2> QED BY <2>1, <2>3, LenProperties
<1> DEFINE pair == <<Uint16(3), Uint16(Len(s))>>
<1>4. pair \in Seq(Seq(Nat)) /\ Len(pair) = 2 /\ pair[1] = Uint16(3) /\ pair[2] = Uint16(n)
  <2>1. Uint16(3) \in Seq(Nat) /\ Uint16(n) \in Seq(Nat)
    BY <1>3, NumberFacts
  <2> QED BY <1>3, <2>1, TupleTypes
<1>5. Len(Uint16(3)) = 2 /\ Len(Uint16(n)) = 2 /\ Number16(Uint16(n)) = n
  <2>1. 3 \in Nat /\ n \in Nat
    BY <1>3
  <2> QED BY ONLY <2>1, NumberFacts
<1> HIDE DEF pair, f
<1>6. /\ f \in Seq(Seq(Nat)) /\ Len(f) = Len(pair) + Len(s)
      /\ \A k \in 1..Len(pair) : f[k] = pair[k]
      /\ \A k \in 1..Len(s) : f[Len(pair) + k] = s[k]
  <2>1. f = pair \o s
    BY <1>2 DEF pair
  <2>2. pair \in Seq(Seq(Nat)) /\ s \in Seq(Seq(Nat))
    BY <1>3, <1>4
  <2> QED BY ONLY <2>1, <2>2, ConcatFacts
<1>7. f \in Seq(Seq(Nat)) /\ Len(f) = 2 + n /\ f[1] = Uint16(3) /\ f[2] = Uint16(n)
  <2>1. Len(f) = 2 + n /\ \A k \in 1..2 : f[k] = pair[k]
    BY <1>3, <1>4, <1>6, Zenon
  <2>2. 1 \in 1..2 /\ 2 \in 1..2
    OBVIOUS
  <2> QED BY <1>4, <1>6, <2>1, <2>2, Zenon
<1>8. ASSUME NEW r \in 3..Len(f) PROVE Len(f[r]) = 8
  <2>1. r - 2 \in 1..n /\ 2 + (r - 2) = r
    BY <1>3, <1>7
  <2>2. f[2 + (r - 2)] = s[r - 2]
    BY <1>3, <1>4, <1>6, <2>1, Zenon
  <2> QED BY <1>3, <2>1, <2>2, Zenon
<1>9. Len(f) \in Nat /\ 2 <= Len(f) /\ n = Len(f) - 2
  BY ONLY <1>3, <1>7
<1> QED BY <1>5, <1>7, <1>8, <1>9 DEF Pieces, f

\* A trade-up: two numbers, then eight bytes for each item, however many there are.
LEMMA CraftWritten ==
  ASSUME NEW m \in Messages, m.kind = "craft"
  PROVE  LET f == m.fields IN
         /\ Written(m) \in Seq(Nat) /\ Len(Written(m)) = 4 + 8 * (Len(f) - 2)
         /\ Has(Written(m), 0, f[1]) /\ Has(Written(m), 2, f[2])
         /\ \A r \in 0..(Len(f) - 3) : Has(Written(m), 4 + 8 * r, f[3 + r])
<1> DEFINE f == m.fields
           L == Len(f)
           off == [i \in 0..L |-> IF i <= 1 THEN 2 * i ELSE 4 + 8 * (i - 2)]
<1>1. /\ f \in Seq(Seq(Nat)) /\ L \in Nat /\ 2 <= L /\ Len(f[1]) = 2 /\ Len(f[2]) = 2
      /\ \A r \in 3..L : Len(f[r]) = 8
  BY CraftForm DEF Pieces
<1>2. Written(m) = FlattenSeq(f)
  BY DEF Written
<1>3. f # <<>>
  BY <1>1
<1> HIDE DEF f
<1>4. L = Len(f)
  OBVIOUS
<1> HIDE DEF L
<1>5. off \in [0..L -> Nat]
  BY <1>1
<1>6. off[0] = 0 /\ off[1] = 2 /\ \A i \in 2..L : off[i] = 4 + 8 * (i - 2)
  BY <1>1
<1> HIDE DEF off
<1>7. ASSUME NEW i \in 1..L PROVE off[i] = off[i - 1] + Len(f[i])
  <2>0. off[0] = 0 /\ off[1] = 2 /\ off[2] = 4 /\ 2 = 0 + 2 /\ 4 = 2 + 2 /\ 1 - 1 = 0 /\ 2 - 1 = 1
    <3>1. 2 \in 2..L /\ 4 + 8 * (2 - 2) = 4
      BY <1>1
    <3> QED BY <1>6, <3>1
  <2>1. CASE i = 1
    BY <1>1, <2>0, <2>1, Zenon
  <2>2. CASE i = 2
    BY <1>1, <2>0, <2>2, Zenon
  <2>3. CASE i \in 3..L
    <3>1. i - 1 \in 2..L /\ i \in 2..L /\ 4 + 8 * (i - 2) = 4 + 8 * (i - 1 - 2) + 8
      BY <1>1, <2>3
    <3>2. off[i - 1] = 4 + 8 * (i - 1 - 2) /\ off[i] = 4 + 8 * (i - 2) /\ Len(f[i]) = 8
      BY <1>1, <1>6, <2>3, <3>1, Zenon
    <3> QED BY <3>1, <3>2, Zenon
  <2>4. i = 1 \/ i = 2 \/ i \in 3..L
    BY <1>1
  <2> QED BY <2>1, <2>2, <2>3, <2>4
<1>8. /\ FlattenSeq(f) \in Seq(Nat) /\ Len(FlattenSeq(f)) = off[L]
      /\ \A j \in 1..L : Has(FlattenSeq(f), off[j - 1], f[j])
  <2>1. off \in [0..Len(f) -> Nat] /\ off[0] = 0 /\ \A i \in 1..Len(f) : off[i] = off[i - 1] + Len(f[i])
    BY <1>4, <1>5, <1>6, <1>7
  <2>2. f \in Seq(Seq(Nat)) /\ f # <<>>
    BY <1>1, <1>3
  <2>3. /\ FlattenSeq(f) \in Seq(Nat) /\ Len(FlattenSeq(f)) = off[Len(f)]
        /\ \A j \in 1..Len(f) : Has(FlattenSeq(f), off[j - 1], f[j])
    BY ONLY <2>1, <2>2, FlattenFacts
  <2> QED BY <1>4, <2>3, Zenon
<1>9. off[L] = 4 + 8 * (L - 2)
  <2>1. L \in 2..L
    BY <1>1
  <2> QED BY <1>6, <2>1
<1>10. Has(FlattenSeq(f), 0, f[1]) /\ Has(FlattenSeq(f), 2, f[2])
  <2>1. 1 \in 1..L /\ 2 \in 1..L /\ 1 - 1 = 0 /\ 2 - 1 = 1
    BY <1>1
  <2> QED BY <1>6, <1>8, <2>1
<1>11. ASSUME NEW r \in 0..(L - 3) PROVE Has(FlattenSeq(f), 4 + 8 * r, f[3 + r])
  <2>1. 3 + r \in 1..L /\ (3 + r) - 1 \in 2..L /\ 4 + 8 * ((3 + r) - 1 - 2) = 4 + 8 * r
    BY <1>1
  <2>2. off[(3 + r) - 1] = 4 + 8 * ((3 + r) - 1 - 2)
    BY <1>6, <2>1
  <2>3. Has(FlattenSeq(f), off[(3 + r) - 1], f[3 + r])
    BY <1>8, <2>1
  <2> QED BY <2>1, <2>2, <2>3
<1> QED BY <1>2, <1>8, <1>9, <1>10, <1>11 DEF f, L

-----------------------------------------------------------------------------
(* What is read: the message with its header, and without the chunk count. *)

\* What is written are bytes.
LEMMA WrittenTypes ==
  ASSUME NEW m \in Messages
  PROVE  Written(m) \in Seq(Nat)
<1>1. CASE m.kind = "craft"
  BY <1>1, CraftWritten
<1>2. CASE IsNaming(m)
  BY <1>2, NamingWritten
<1>3. CASE m.kind # "craft" /\ ~ IsNaming(m)
  BY <1>3, PlainWritten
<1> QED BY <1>1, <1>2, <1>3

\* A message is its header, with the type in front and the size of what the game put there,
\* and then what was written.  Of a coordinator's message the chunk count is gone.
LEMMA SentForm ==
  ASSUME NEW m \in Messages, NEW extra \in Extras
  PROVE  LET b == Sent(m, extra)
             h == HeaderSize(m, extra)
         IN  /\ h \in Nat /\ 8 <= h /\ b \in Seq(Nat)
             /\ Len(b) = h + Len(Written(m)) /\ Len(b) < SizeLimit
             /\ Has(b, 0, TypeOf(NumberOf(m.kind), m.flags))
             /\ m.flags # Struct => Has(b, 4, Uint32(h - 8))
             /\ Has(b, h, Written(m))
<1> DEFINE type == TypeOf(NumberOf(m.kind), m.flags)
           w == Written(m)
           e == Encoded(m, extra)
<1>1. type \in Seq(Nat) /\ Len(type) = 4 /\ m.flags \in {Struct, Protobuf, CCProto}
  BY TypeTypes
<1>2. w \in Seq(Nat) /\ Len(w) \in Nat
  BY WrittenTypes
<1>3. Len(e) < SizeLimit
  BY SizeAssumption
<1>4. extra \in Seq(Nat) /\ Len(extra) \in Nat
  <2>1. <<>> \in Seq(Nat) /\ <<9, 9>> \in Seq(Nat)
    OBVIOUS
  <2>2. extra \in Seq(Nat)
    BY <2>1 DEF Extras
  <2> QED BY <2>2
<1>5. Struct # Protobuf /\ Struct # CCProto /\ Protobuf # CCProto
  BY DEF Struct, Protobuf, CCProto
<1>6. e = Header(m, extra) \o w
  BY DEF Encoded
<1>0. /\ m.kind = "answer" <=> m.flags = CCProto
      /\ m.flags = CCProto => IsCCProto(MaskedType(m))
      /\ MaskedType(m) = type
  <2>1. MessageForm(m) /\ type[4] = m.flags
    BY FormOf, TypeTypes
  <2>2. m.kind = "answer" <=> m.flags = CCProto
    BY <1>5, <2>1 DEF MessageForm
  <2>3. MaskedType(m) = type
    BY DEF MaskedType
  <2>4. m.flags = CCProto => IsCCProto(type)
    <3>1. CCProto >= 128
      BY DEF CCProto
    <3> QED BY <2>1, <3>1 DEF IsCCProto
  <2> QED BY <2>2, <2>3, <2>4
<1> HIDE DEF type, w, e
<1>7. ASSUME NEW rest \in Seq(Nat), Header(m, extra) = type \o rest
      PROVE  LET head == Header(m, extra) IN
             /\ e \in Seq(Nat) /\ Len(head) = 4 + Len(rest) /\ Len(e) = Len(head) + Len(w)
             /\ Has(e, 0, type) /\ Has(e, Len(head), w)
             /\ \A part \in Seq(Nat) : Has(rest, 0, part) => Has(e, 4, part)
  <2> DEFINE head == Header(m, extra)
  <2>0. rest \in Seq(Nat)
    BY <1>7
  <2>1. head \in Seq(Nat) /\ Len(head) = Len(type) + Len(rest)
    <3>1. type \o rest \in Seq(Nat) /\ Len(type \o rest) = Len(type) + Len(rest)
      BY ONLY <1>1, <2>0, ConcatFacts, ZenonT(30)
    <3> QED BY <1>7, <3>1
  <2>2. e \in Seq(Nat) /\ Len(e) = Len(head) + Len(w)
    BY ONLY <1>2, <1>6, <2>1, ConcatFacts
  <2> HIDE DEF head
  <2>3. Has(e, 0, type)
    <3>1. Has(type, 0, type)
      BY ONLY <1>1, HasSelf
    <3>2. Has(head, 0, type)
      <4>1. 0 \in Nat /\ rest \in Seq(Nat)
        BY <1>7
      <4> QED BY ONLY <1>1, <1>7, <3>1, <4>1, HasFront DEF head
    <3>3. 0 \in Nat
      OBVIOUS
    <3>4. Has(head \o w, 0, type)
      BY ONLY <1>1, <1>2, <2>1, <3>2, <3>3, HasFront
    <3> QED BY <1>6, <3>4 DEF head
  <2>4. Has(e, Len(head), w)
    <3>1. Has(w, 0, w) /\ 0 \in Nat
      BY ONLY <1>2, HasSelf
    <3>2. Has(head \o w, Len(head) + 0, w)
      BY ONLY <1>2, <2>1, <3>1, HasBack
    <3>3. Len(head) + 0 = Len(head)
      BY <2>1
    <3> QED BY <1>6, <3>2, <3>3, Zenon DEF head
  <2>5. ASSUME NEW part \in Seq(Nat), Has(rest, 0, part) PROVE Has(e, 4, part)
    <3>0. 0 \in Nat /\ rest \in Seq(Nat) /\ part \in Seq(Nat) /\ 4 \in Nat
      BY <1>7
    <3>1. Has(type \o rest, Len(type) + 0, part)
      BY ONLY <1>1, <2>5, <3>0, HasBack
    <3>2. Has(head, 4, part)
      <4>1. Len(type) + 0 = 4
        BY <1>1
      <4> QED BY <1>7, <3>1, <4>1, Zenon DEF head
    <3>3. Has(head \o w, 4, part)
      BY ONLY <1>2, <2>1, <3>0, <3>2, HasFront
    <3> QED BY <1>6, <3>3, Zenon DEF head
  <2>6. Len(head) = 4 + Len(rest)
    BY <1>1, <2>1
  <2> QED BY <2>2, <2>3, <2>4, <2>5, <2>6 DEF head
<1>8. /\ \A n \in Nat : Uint16(n) \in Seq(Nat) /\ Uint32(n) \in Seq(Nat)
      /\ \A n \in Nat : Len(Uint16(n)) = 2 /\ Len(Uint32(n)) = 4
  BY ONLY NumberFacts
<1>9. CASE m.flags = Struct
  <2> DEFINE rest == Uint32(0) \o Uint64Zero \o Uint16(0)
  <2>1. rest \in Seq(Nat) /\ Len(rest) = 14
    <3>1. Uint64Zero \in Seq(Nat) /\ Len(Uint64Zero) = 8
      <4>1. Uint64Zero \in [1..8 -> Nat] /\ 8 \in Nat
        BY DEF Uint64Zero
      <4>2. Uint64Zero \in UNION {[1..n -> Nat] : n \in Nat}
        BY <4>1
      <4>3. Uint64Zero \in Seq(Nat)
        BY <4>2, SeqDef, Zenon
      <4> QED BY <4>1, <4>3, LenProperties
    <3>2. /\ Uint32(0) \in Seq(Nat) /\ Len(Uint32(0)) = 4
          /\ Uint16(0) \in Seq(Nat) /\ Len(Uint16(0)) = 2
      BY <1>8
    <3>3. Uint32(0) \o Uint64Zero \in Seq(Nat) /\ Len(Uint32(0) \o Uint64Zero) = Len(Uint32(0)) + Len(Uint64Zero)
      BY ONLY <3>1, <3>2, ConcatFacts, ZenonT(30)
    <3>4. rest \in Seq(Nat) /\ Len(rest) = Len(Uint32(0) \o Uint64Zero) + Len(Uint16(0))
      BY ONLY <3>2, <3>3, ConcatFacts
    <3>5. Len(rest) = (4 + 8) + 2
      BY <3>1, <3>2, <3>3, <3>4, Zenon
    <3> QED BY ONLY <3>4, <3>5
  <2>2. Header(m, extra) = type \o rest
    BY <1>0, <1>5, <1>9 DEF Header
  <2> HIDE DEF rest
  <2>3. LET head == Header(m, extra) IN
        /\ e \in Seq(Nat) /\ Len(head) = 4 + Len(rest) /\ Len(e) = Len(head) + Len(w)
        /\ Has(e, 0, type) /\ Has(e, Len(head), w)
    BY <1>7, <2>1, <2>2
  <2>4. HeaderSize(m, extra) = 18 /\ Sent(m, extra) = e
    BY <1>0, <1>5, <1>9 DEF HeaderSize, Sent, Stripped, e
  <2>5. Len(Header(m, extra)) = 18
    BY <2>1, <2>3
  <2>6. 18 \in Nat /\ 8 <= 18
    OBVIOUS
  <2> QED BY <1>3, <1>9, <2>3, <2>4, <2>5, <2>6, Zenon DEF type, w
<1>10. CASE m.flags = Protobuf
  <2> DEFINE rest == SizeOf(extra) \o extra
  <2>1. SizeOf(extra) \in Seq(Nat) /\ Len(SizeOf(extra)) = 4 /\ 0 \in Nat
    BY <1>4, <1>8 DEF SizeOf
  <2>2. rest \in Seq(Nat) /\ Len(rest) = Len(SizeOf(extra)) + Len(extra)
    BY ONLY <1>4, <2>1, ConcatFacts
  <2>3. Has(rest, 0, SizeOf(extra))
    <3>1. Has(SizeOf(extra), 0, SizeOf(extra))
      BY ONLY <2>1, HasSelf
    <3> QED BY ONLY <1>4, <2>1, <3>1, HasFront
  <2>4. Header(m, extra) = type \o rest
    BY <1>0, <1>5, <1>10 DEF Header
  <2> HIDE DEF rest
  <2>5. LET head == Header(m, extra) IN
        /\ e \in Seq(Nat) /\ Len(head) = 4 + Len(rest) /\ Len(e) = Len(head) + Len(w)
        /\ Has(e, 0, type) /\ Has(e, Len(head), w) /\ Has(e, 4, SizeOf(extra))
    BY <1>7, <2>1, <2>2, <2>3, <2>4
  <2>6. HeaderSize(m, extra) = 8 + Len(extra) /\ Sent(m, extra) = e
    BY <1>0, <1>5, <1>10 DEF HeaderSize, Sent, Stripped, e
  <2>7. /\ Len(Header(m, extra)) = 8 + Len(extra)
        /\ 8 + Len(extra) \in Nat /\ 8 <= 8 + Len(extra) /\ (8 + Len(extra)) - 8 = Len(extra)
    <3>1. Len(Header(m, extra)) = 4 + (4 + Len(extra))
      BY <2>1, <2>2, <2>5, Zenon
    <3> QED BY ONLY <1>4, <3>1
  <2>8. SizeOf(extra) = Uint32(Len(extra))
    BY DEF SizeOf
  <2> QED BY <1>3, <2>5, <2>6, <2>7, <2>8, Zenon DEF type, w
<1>11. CASE m.flags = CCProto
  <2> DEFINE rest == Uint32(0) \o Uint32(1)
             front == SubSeq(e, 1, 8)
             back == SubSeq(e, 13, Len(e))
  <2>1. /\ Uint32(0) \in Seq(Nat) /\ Len(Uint32(0)) = 4 /\ Uint32(1) \in Seq(Nat) /\ Len(Uint32(1)) = 4
        /\ 0 \in Nat /\ 4 \in Nat /\ 8 \in Nat /\ 12 \in Nat
    BY <1>8
  <2>2. rest \in Seq(Nat) /\ Len(rest) = 8
    <3>1. rest \in Seq(Nat) /\ Len(rest) = Len(Uint32(0)) + Len(Uint32(1))
      BY ONLY <2>1, ConcatFacts
    <3>2. Len(rest) = 4 + 4
      BY <2>1, <3>1, Zenon
    <3> QED BY ONLY <3>1, <3>2
  <2>3. Has(rest, 0, Uint32(0))
    <3>1. Has(Uint32(0), 0, Uint32(0))
      BY ONLY <2>1, HasSelf
    <3> QED BY ONLY <2>1, <3>1, HasFront
  <2>4. Header(m, extra) = type \o rest
    BY <1>0, <1>5, <1>11 DEF Header
  <2> HIDE DEF rest
  <2>5. LET head == Header(m, extra) IN
        /\ e \in Seq(Nat) /\ Len(head) = 4 + Len(rest) /\ Len(e) = Len(head) + Len(w)
        /\ Has(e, 0, type) /\ Has(e, Len(head), w) /\ Has(e, 4, Uint32(0))
    BY <1>7, <2>1, <2>2, <2>3, <2>4
  <2>6. HeaderSize(m, extra) = 8 /\ Sent(m, extra) = front \o back
    BY <1>0, <1>5, <1>11 DEF HeaderSize, Sent, Stripped, e
  <2>7. Len(e) = 12 + Len(w) /\ Has(e, 12, w)
    <3>1. Len(Header(m, extra)) = 4 + 8
      BY <2>2, <2>5, Zenon
    <3>2. 4 + 8 = 12
      OBVIOUS
    <3> QED BY <2>5, <3>1, <3>2, Zenon
  <2> HIDE DEF front, back
  <2>8. /\ front \in Seq(Nat) /\ Len(front) = 8 /\ back \in Seq(Nat) /\ Len(back) = Len(w)
    <3>1. /\ e \in Seq(Nat) /\ 1 \in 1..(Len(e) + 1) /\ 8 \in (1 - 1)..Len(e)
          /\ 13 \in 1..(Len(e) + 1) /\ Len(e) \in (13 - 1)..Len(e) /\ 8 - 1 + 1 = 8 /\ Len(e) - 13 + 1 = Len(w)
      BY ONLY <1>2, <2>5, <2>7
    <3>2. front \in Seq(Nat) /\ Len(front) = 8 - 1 + 1
      BY ONLY <3>1, SubSeqFacts DEF front
    <3>3. back \in Seq(Nat) /\ Len(back) = Len(e) - 13 + 1
      BY ONLY <3>1, SubSeqFacts DEF back
    <3> QED BY <3>1, <3>2, <3>3, Zenon
  <2>9. Has(front, 0, type) /\ Has(front, 4, Uint32(0))
    <3>1. 8 \in 0..Len(e) /\ 0 + Len(type) <= 8 /\ 4 + Len(Uint32(0)) <= 8
      <4>1. 8 \in 0..Len(e)
        BY ONLY <1>2, <2>7
      <4>2. 0 + 4 <= 8 /\ 4 + 4 <= 8
        OBVIOUS
      <4> QED BY <1>1, <2>1, <4>1, <4>2, Zenon
    <3>2. Has(front, 0, type)
      BY ONLY <1>1, <2>1, <2>5, <3>1, HasCut DEF front
    <3>3. Has(front, 4, Uint32(0))
      BY ONLY <2>1, <2>5, <3>1, HasCut DEF front
    <3> QED BY <3>2, <3>3
  <2>10. Has(back, 0, w)
    <3>1. 12 + 0 = 12 /\ 12 + 1 = 13
      OBVIOUS
    <3>2. Has(e, 12 + 0, w)
      BY <2>7, <3>1, Zenon
    <3>3. Has(SubSeq(e, 12 + 1, Len(e)), 0, w)
      BY ONLY <1>2, <2>1, <2>5, <3>2, HasBehind
    <3> QED BY <3>1, <3>3, Zenon DEF back
  <2> DEFINE b == front \o back
  <2>11. b \in Seq(Nat) /\ Len(b) = Len(front) + Len(back)
    BY ONLY <2>8, ConcatFacts, ZenonT(30)
  <2>12. Has(b, 0, type)
    BY ONLY <1>1, <2>1, <2>8, <2>9, HasFront
  <2>13. Has(b, 4, Uint32(0))
    BY ONLY <2>1, <2>8, <2>9, HasFront
  <2>14. Has(b, Len(front) + 0, w)
    BY ONLY <1>2, <2>1, <2>8, <2>10, HasBack
  <2> HIDE DEF b
  <2>15. SizeLimit \in Nat
    BY AssumedNumbers
  <2>16. Len(b) = 8 + Len(w) /\ 8 + Len(w) < SizeLimit /\ 8 + 0 = 8 /\ 8 - 8 = 0 /\ 8 <= 8
    <3>1. Len(b) = 8 + Len(w)
      BY <2>8, <2>11, Zenon
    <3>2. 12 + Len(w) < SizeLimit
      BY <1>3, <2>7, Zenon
    <3> QED BY ONLY <1>2, <2>15, <3>1, <3>2
  <2>17. Has(b, 8, w)
    BY <2>8, <2>14, <2>16, Zenon
  <2>18. Sent(m, extra) = b
    BY <2>6 DEF b
  <2> QED BY <2>1, <2>6, <2>11, <2>12, <2>13, <2>16, <2>17, <2>18, Zenon DEF type, w
<1> QED BY <1>1, <1>9, <1>10, <1>11

-----------------------------------------------------------------------------
(* One read of a message b, of which there are n bytes.                    *)

\* The message b as it comes: its first n bytes, or more.
Cut(b, n) ==
  /\ b \in Seq(Nat) /\ Len(b) < SizeLimit
  /\ n \in Nat /\ buffer \in Seq(Nat) /\ Len(buffer) = n
  /\ \A k \in 1..n : k <= Len(b) => buffer[k] = b[k]

LEMMA CutFacts ==
  ASSUME NEW b, NEW n, Cut(b, n)
  PROVE  /\ b \in Seq(Nat) /\ Len(b) \in Nat /\ n \in Nat
         /\ buffer \in Seq(Nat) /\ Len(buffer) = n
         /\ \A k \in 1..n : k <= Len(b) => buffer[k] = b[k]
<1>1. b \in Seq(Nat)
  BY DEF Cut
<1>2. Len(b) \in Nat
  BY <1>1
<1> QED BY <1>2 DEF Cut

\* What comes of a message has the parts of the message that lie within it.
LEMMA CutHas ==
  ASSUME NEW b, NEW n, Cut(b, n), NEW part \in Seq(Nat), NEW o \in Nat, Has(b, o, part),
         o + Len(part) <= n
  PROVE  Has(buffer, o, part)
<1>1. /\ Len(b) \in Nat /\ n \in Nat /\ Len(buffer) = n /\ Len(part) \in Nat
      /\ \A k \in 1..n : k <= Len(b) => buffer[k] = b[k]
  BY CutFacts
<1>2. o + Len(part) <= Len(b) /\ \A k \in 1..Len(part) : b[o + k] = part[k]
  BY DEF Has
<1>3. \A k \in 1..Len(part) : o + k \in 1..n /\ o + k <= Len(b)
  BY <1>1, <1>2
<1>4. \A k \in 1..Len(part) : buffer[o + k] = part[k]
  BY <1>1, <1>2, <1>3
<1> QED BY <1>1, <1>4 DEF Has

\* A sum within a message does not wrap around.
LEMMA ModSmall ==
  ASSUME NEW k \in Nat, NEW l \in Nat, k < l PROVE k % l = k
OBVIOUS

\* Where the message has part, it is read, or is found to be cut.
LEMMA ReadPart ==
  ASSUME NEW b, NEW n, Cut(b, n), offset \in Nat, error = FALSE,
         NEW part \in Seq(Nat), Has(b, offset, part), NEW instead, ReadData(Len(part), instead)
  PROVE  /\ offset' \in Nat /\ error' \in BOOLEAN
         /\ error' => n < Len(b) /\ got' = Append(got, instead)
         /\ ~ error' => offset' = offset + Len(part) /\ got' = Append(got, part)
<1>1. /\ b \in Seq(Nat) /\ Len(b) \in Nat /\ n \in Nat
      /\ buffer \in Seq(Nat) /\ Len(buffer) = n
  BY CutFacts
<1>2. Len(part) \in Nat /\ offset + Len(part) <= Len(b) /\ offset + Len(part) \in Nat
  BY HasFacts, <1>1
<1>3. SizeLimit \in Nat /\ Len(b) < SizeLimit
  BY AssumedNumbers DEF Cut
<1>4. (offset + Len(part)) % SizeLimit = offset + Len(part)
  <2>1. offset + Len(part) < SizeLimit
    BY ONLY <1>1, <1>2, <1>3
  <2> QED BY ONLY <1>2, <1>3, <2>1, ModSmall
<1>5. CASE offset + Len(part) <= n
  <2>1. Fits(Len(part))
    BY <1>1, <1>4, <1>5 DEF Fits
  <2>2. /\ offset' = offset + Len(part) /\ got' = Append(got, NextBytes(Len(part)))
        /\ error' = FALSE
    BY <1>4, <2>1 DEF ReadData
  <2>3. Has(buffer, offset, part)
    BY <1>5, CutHas
  <2>4. NextBytes(Len(part)) = part
    <3>1. SubSeq(buffer, offset + 1, offset + Len(part)) = part
      BY <1>1, <2>3, HasRead
    <3> QED BY <3>1 DEF NextBytes
  <2> QED BY <1>2, <2>2, <2>4
<1>6. CASE ~ (offset + Len(part) <= n)
  <2>1. ~ Fits(Len(part))
    BY <1>1, <1>4, <1>6 DEF Fits
  <2>2. offset' = offset /\ got' = Append(got, instead) /\ error' = TRUE
    BY <2>1 DEF ReadData
  <2>3. n < Len(b)
    BY ONLY <1>1, <1>2, <1>6
  <2> QED BY <2>2, <2>3
<1> QED BY <1>5, <1>6

\* After an error nothing is read any more.
LEMMA ReadError ==
  ASSUME error = TRUE, NEW size, NEW instead, ReadData(size, instead)
  PROVE  error' = TRUE /\ offset' = offset /\ got' = Append(got, instead)
BY DEF ReadData

\* What is passed over is there, or the message is found to be cut.
LEMMA PassPart ==
  ASSUME NEW b, NEW n, Cut(b, n), offset \in Nat, error \in BOOLEAN,
         NEW k \in Nat, ~ error => offset + k <= Len(b), PassOver(k)
  PROVE  /\ offset' \in Nat /\ error' \in BOOLEAN /\ got' = got
         /\ error => error'
         /\ error' => error \/ n < Len(b)
         /\ ~ error' => offset' = offset + k
<1>1. Len(b) \in Nat /\ n \in Nat /\ Len(buffer) = n
  BY CutFacts
<1>2. SizeLimit \in Nat /\ Len(b) < SizeLimit
  BY AssumedNumbers DEF Cut
<1>3. error' = (error \/ ~ Fits(k)) /\ got' = got
  BY DEF PassOver
<1>4. CASE error
  BY <1>3, <1>4 DEF PassOver
<1>5. CASE ~ error
  <2>1. offset + k \in Nat /\ offset + k < SizeLimit
    BY <1>1, <1>2, <1>5
  <2>2. (offset + k) % SizeLimit = offset + k
    BY ONLY <1>2, <2>1, ModSmall
  <2>3. Fits(k) <=> offset + k <= n
    BY <1>1, <2>2 DEF Fits
  <2>4. CASE offset + k <= n
    BY <1>3, <1>5, <2>1, <2>2, <2>3, <2>4 DEF PassOver
  <2>5. CASE ~ (offset + k <= n)
    <3>1. n < Len(b)
      BY <1>1, <1>5, <2>1, <2>5
    <3> QED BY <1>3, <1>5, <2>3, <2>5, <3>1 DEF PassOver
  <2> QED BY <2>4, <2>5
<1> QED BY <1>4, <1>5

\* A string is read to the zero behind it.
LEMMA ReadName ==
  ASSUME NEW b, NEW n, Cut(b, n), offset \in Nat, error = FALSE,
         NEW part \in Seq(Nat), Has(b, offset, part), \A k \in 1..Len(part) : part[k] # 0,
         offset + Len(part) + 1 <= Len(b), b[offset + Len(part) + 1] = 0,
         ReadToZero
  PROVE  /\ offset' \in Nat /\ error' \in BOOLEAN
         /\ error' => n < Len(b)
         /\ ~ error' => offset' = offset + Len(part) + 1 /\ got' = Append(got, part)
<1>1. /\ b \in Seq(Nat) /\ Len(b) \in Nat /\ n \in Nat
      /\ buffer \in Seq(Nat) /\ Len(buffer) = n
      /\ \A k \in 1..n : k <= Len(b) => buffer[k] = b[k]
  BY CutFacts
<1> DEFINE stop == offset + Len(part) + 1
<1>2. Len(part) \in Nat /\ stop \in Nat /\ offset + Len(part) <= Len(b) /\ stop - 1 = offset + Len(part)
  BY HasFacts, <1>1
<1>3. \A k \in 1..Len(part) : b[offset + k] = part[k]
  BY DEF Has
<1>4. DOMAIN buffer = 1..n /\ stop <= Len(b)
  BY <1>1
<1> HIDE DEF stop
<1>5. \A z \in Zeros : z \in Nat /\ z \in 1..n /\ stop <= z
  <2> SUFFICES ASSUME NEW z \in Zeros PROVE z \in Nat /\ z \in 1..n /\ stop <= z
    OBVIOUS
  <2>1. z \in 1..n /\ z > offset /\ buffer[z] = 0
    BY <1>4 DEF Zeros
  <2>2. ASSUME z < stop PROVE FALSE
    <3>1. z - offset \in 1..Len(part) /\ offset + (z - offset) = z
      BY ONLY <1>1, <1>2, <2>1, <2>2, offset \in Nat
    <3>2. b[offset + (z - offset)] = part[z - offset]
      BY <1>3, <3>1
    <3>3. b[z] = 0
      <4>1. z <= Len(b)
        BY ONLY <1>1, <1>2, <1>4, <2>1, <2>2
      <4> QED BY <1>1, <2>1, <4>1
    <3> QED BY <3>1, <3>2, <3>3
  <2> QED BY <1>1, <1>2, <2>1, <2>2
<1>6. CASE stop <= n
  <2>1. stop \in Zeros
    <3>1. stop \in 1..n /\ stop > offset
      BY ONLY <1>1, <1>2, <1>6, offset \in Nat DEF stop
    <3>2. buffer[stop] = 0
      BY <1>1, <1>4, <3>1 DEF stop
    <3> QED BY <1>4, <3>1, <3>2 DEF Zeros
  <2>2. PICK z \in Zeros : /\ \A j \in Zeros : z <= j
                           /\ offset' = z /\ error' = FALSE
                           /\ got' = Append(got, SubSeq(buffer, offset + 1, z - 1))
    BY <2>1 DEF ReadToZero
  <2>3. z = stop
    <3>1. z <= stop /\ stop <= z /\ z \in Nat
      BY <1>5, <2>1, <2>2
    <3> QED BY <1>2, <3>1
  <2>4. SubSeq(buffer, offset + 1, offset + Len(part)) = part
    <3>2. offset + Len(part) <= n
      BY ONLY <1>1, <1>2, <1>6
    <3>3. Has(buffer, offset, part)
      BY <3>2, CutHas
    <3> QED BY <1>1, <3>3, HasRead
  <2>5. got' = Append(got, part)
    BY <1>2, <2>2, <2>3, <2>4
  <2> QED BY <1>2, <2>2, <2>3, <2>5 DEF stop
<1>7. CASE ~ (stop <= n)
  <2>1. Zeros = {}
    <3> SUFFICES ASSUME NEW z \in Zeros PROVE FALSE
      OBVIOUS
    <3> QED BY <1>1, <1>2, <1>5, <1>7
  <2>2. error' = TRUE /\ offset' = offset
    BY <2>1 DEF ReadToZero
  <2>3. n < Len(b)
    BY ONLY <1>1, <1>2, <1>7, offset + Len(part) + 1 <= Len(b) DEF stop
  <2> QED BY <2>2, <2>3
<1> QED BY <1>6, <1>7

-----------------------------------------------------------------------------
(* What a handler reads, and the fields its messages have.                 *)

\* A field ends where the next begins.
LEMMA ReachFacts ==
  ASSUME NEW f \in Pieces, NEW c \in 0..2, c < Len(f)
  PROVE  /\ Reach(f, c) \in Nat /\ Reach(f, 0) = 0
         /\ Reach(f, c + 1) \in Nat /\ Reach(f, c + 1) = Reach(f, c) + Len(f[c + 1])
<1>1. Len(f) \in Nat /\ \A i \in 1..Len(f) : Len(f[i]) \in Nat
  BY PiecesFacts
<1>2. /\ Reach(f, 0) = 0 /\ Reach(f, 1) = Len(f[1])
      /\ Reach(f, 2) = Len(f[1]) + Len(f[2])
      /\ Reach(f, 3) = Len(f[1]) + Len(f[2]) + Len(f[3])
  BY DEF Reach
<1>3. \A x, y, z \in Nat : /\ x + y \in Nat /\ x + y + z = (x + y) + z /\ x + y + z \in Nat
                           /\ 0 + x = x
  OBVIOUS
<1>4. CASE c = 0
  <2>1. Len(f[1]) \in Nat /\ 0 + 1 = 1 /\ 0 \in Nat
    BY <1>1, <1>4
  <2> QED BY <1>2, <1>3, <1>4, <2>1, Zenon
<1>5. CASE c = 1
  <2>1. Len(f[1]) \in Nat /\ Len(f[2]) \in Nat /\ 1 + 1 = 2
    BY <1>1, <1>5
  <2> QED BY <1>2, <1>3, <1>5, <2>1, Zenon
<1>6. CASE c = 2
  <2>1. Len(f[1]) \in Nat /\ Len(f[2]) \in Nat /\ Len(f[3]) \in Nat /\ 2 + 1 = 3
    BY <1>1, <1>6
  <2>2. Reach(f, 3) = Reach(f, 2) + Len(f[3])
    BY <1>2, Zenon
  <2>3. Reach(f, 2) \in Nat
    BY <1>2, <1>3, <2>1, ZenonT(30)
  <2>4. Reach(f, 3) \in Nat
    BY <1>3, <2>1, <2>2, <2>3, Zenon
  <2> QED BY <1>2, <1>6, <2>1, <2>2, <2>3, <2>4, Zenon
<1>7. c = 0 \/ c = 1 \/ c = 2
  OBVIOUS
<1> QED BY <1>4, <1>5, <1>6, <1>7

\* The reads, as they are named in todo.
Ops == {"uint16", "uint32", "uint64", "skip", "string", "data", "rest", "valid", "type", "body",
        "items", "unknown"}

\* The reads there are.
LEMMA OpsAre ==
  /\ "uint16" \in Ops /\ "uint32" \in Ops /\ "uint64" \in Ops /\ "skip" \in Ops /\ "string" \in Ops
  /\ "data" \in Ops /\ "rest" \in Ops /\ "valid" \in Ops /\ "type" \in Ops /\ "body" \in Ops
  /\ "items" \in Ops /\ "unknown" \in Ops
BY DEF Ops

\* A field is read by its width, by the size that was read before it, or as what is left.
Reads(h, f, p) ==
  \/ h[p] \in {"uint32", "uint64"} /\ Len(f[p]) = Width[h[p]]
  \/ h[p] = "data" /\ p > 1 /\ f[p - 1] = SizeOf(f[p])
  \/ h[p] = "rest" /\ p = 1 /\ Len(f) = 1

\* A handler reads the fields that its message has, each as it was written, and asks IsValid
\* at the end.
LEMMA PlainHandler ==
  ASSUME NEW m \in Messages, m.kind \notin {"craft", "other"}, ~ IsNaming(m)
  PROVE  LET h == Handler(m.kind)
             f == m.fields
         IN  /\ h \in Seq(Ops) /\ Len(h) = Len(f) + 1 /\ h[Len(f) + 1] = "valid"
             /\ \A p \in 1..Len(f) : Reads(h, f, p)
<1> DEFINE h == Handler(m.kind)
           f == m.fields
<1>1. MessageForm(m)
  BY FormOf
<1>2. \A i \in IdBytes : Len(i) = 8
  BY ConstantTypes
<1>3. Width["uint32"] = 4 /\ Width["uint64"] = 8
  BY DEF Width
<1>4. \A p \in Payloads : Len(SizeOf(p)) = 4
  <2>1. \A p \in Payloads : Len(p) \in Nat
    BY ConstantTypes
  <2> QED BY <2>1, NumberFacts DEF SizeOf
<1>5. CASE m.kind = "unlock"
  <2>1. PICK k \in IdBytes, c \in IdBytes : f = <<k, c>>
    BY <1>1, <1>5 DEF MessageForm
  <2>2. h = <<"uint64", "uint64", "valid">>
    BY <1>5 DEF Handler
  <2>3. h \in Seq(Ops) /\ Len(h) = 3 /\ h[1] = "uint64" /\ h[2] = "uint64" /\ h[3] = "valid"
    BY <2>2, OpsAre
  <2>4. Len(f) = 2 /\ f[1] = k /\ f[2] = c
    BY <2>1
  <2> HIDE DEF h, f
  <2>5. Reads(h, f, 1) /\ Reads(h, f, 2)
    BY <1>2, <1>3, <2>3, <2>4, Zenon DEF Reads
  <2>6. 3 = 2 + 1 /\ \A p \in 1..2 : p = 1 \/ p = 2
    OBVIOUS
  <2> QED BY <2>3, <2>4, <2>5, <2>6, Zenon DEF h, f
<1>6. CASE m.kind \in {"removeName", "delete"}
  <2>1. PICK i \in IdBytes : f = <<i>>
    BY <1>1, <1>6 DEF MessageForm
  <2>2. h = <<"uint64", "valid">>
    BY <1>6 DEF Handler
  <2>3. h \in Seq(Ops) /\ Len(h) = 2 /\ h[1] = "uint64" /\ h[2] = "valid"
    BY <2>2, OpsAre
  <2>4. Len(f) = 1 /\ f[1] = i
    BY <2>1
  <2> HIDE DEF h, f
  <2>5. Reads(h, f, 1)
    BY <1>2, <1>3, <2>3, <2>4, Zenon DEF Reads
  <2>6. 2 = 1 + 1 /\ \A p \in 1..1 : p = 1
    OBVIOUS
  <2> QED BY <2>3, <2>4, <2>5, <2>6, Zenon DEF h, f
<1>7. CASE m.kind = "connect"
  <2>1. PICK i \in IdBytes, x \in Payloads : f = <<i, SizeOf(x), x>>
    BY <1>1, <1>7 DEF MessageForm
  <2>2. h = <<"uint64", "uint32", "data", "valid">>
    BY <1>7 DEF Handler
  <2>3. /\ h \in Seq(Ops) /\ Len(h) = 4
        /\ h[1] = "uint64" /\ h[2] = "uint32" /\ h[3] = "data" /\ h[4] = "valid"
    BY <2>2, OpsAre
  <2>4. Len(f) = 3 /\ f[1] = i /\ f[2] = SizeOf(x) /\ f[3] = x
    BY <2>1
  <2> HIDE DEF h, f
  <2>5. 3 > 1 /\ 3 - 1 = 2
    OBVIOUS
  <2>6. Reads(h, f, 1) /\ Reads(h, f, 2) /\ Reads(h, f, 3)
    BY <1>2, <1>3, <1>4, <2>3, <2>4, <2>5, Zenon DEF Reads
  <2>7. 4 = 3 + 1 /\ \A p \in 1..3 : p = 1 \/ p = 2 \/ p = 3
    OBVIOUS
  <2> QED BY <2>3, <2>4, <2>6, <2>7, Zenon DEF h, f
<1>8. CASE m.kind \in {"request", "answer"}
  <2>1. PICK x \in Payloads : f = <<x>>
    BY <1>1, <1>8 DEF MessageForm
  <2>2. h = <<"rest", "valid">>
    BY <1>8 DEF Handler
  <2>3. h \in Seq(Ops) /\ Len(h) = 2 /\ h[1] = "rest" /\ h[2] = "valid"
    BY <2>2, OpsAre
  <2>4. Len(f) = 1
    BY <2>1
  <2> HIDE DEF h, f
  <2>5. Reads(h, f, 1)
    BY <2>3, <2>4, Zenon DEF Reads
  <2>6. 2 = 1 + 1 /\ \A p \in 1..1 : p = 1
    OBVIOUS
  <2> QED BY <2>3, <2>4, <2>5, <2>6, Zenon DEF h, f
<1>9. m.kind \in {"unlock", "removeName", "delete", "connect", "request", "answer"}
  BY <1>1 DEF MessageForm, IsNaming
<1> QED BY <1>5, <1>6, <1>7, <1>8, <1>9

\* The handlers of names pass over the sentinel, then read the string.
LEMMA NamingHandler ==
  ASSUME NEW m \in Messages, IsNaming(m)
  PROVE  LET h == Handler(m.kind)
             f == m.fields
         IN  /\ h \in Seq(Ops) /\ Len(h) = 5
             /\ Reads(h, f, 1) /\ Reads(h, f, 2)
             /\ h[3] = "skip" /\ h[4] = "string" /\ h[5] = "valid"
<1> DEFINE h == Handler(m.kind)
           f == m.fields
<1>1. MessageForm(m)
  BY FormOf
<1>2. \A i \in IdBytes : Len(i) = 8
  BY ConstantTypes
<1>3. Width["uint32"] = 4 /\ Width["uint64"] = 8 /\ Len(Uint32(7)) = 4
  BY NumberFacts DEF Width
<1>4. CASE m.kind = "name"
  <2>1. \E t \in IdBytes, i \in IdBytes : f[1] = t /\ f[2] = i
    BY <1>1, <1>4 DEF MessageForm
  <2>2. h = <<"uint64", "uint64", "skip", "string", "valid">>
    BY <1>4 DEF Handler
  <2>3. /\ h \in Seq(Ops) /\ Len(h) = 5 /\ h[1] = "uint64" /\ h[2] = "uint64"
        /\ h[3] = "skip" /\ h[4] = "string" /\ h[5] = "valid"
    BY <2>2, OpsAre
  <2> HIDE DEF h, f
  <2>4. Reads(h, f, 1) /\ Reads(h, f, 2)
    BY <1>2, <1>3, <2>1, <2>3, Zenon DEF Reads
  <2> QED BY <2>3, <2>4 DEF h, f
<1>5. CASE m.kind = "nameBase"
  <2>1. \E t \in IdBytes : f[1] = t /\ f[2] = Uint32(7)
    BY <1>1, <1>5 DEF MessageForm
  <2>2. h = <<"uint64", "uint32", "skip", "string", "valid">>
    BY <1>5 DEF Handler
  <2>3. /\ h \in Seq(Ops) /\ Len(h) = 5 /\ h[1] = "uint64" /\ h[2] = "uint32"
        /\ h[3] = "skip" /\ h[4] = "string" /\ h[5] = "valid"
    BY <2>2, OpsAre
  <2> HIDE DEF h, f
  <2>4. Reads(h, f, 1) /\ Reads(h, f, 2)
    BY <1>2, <1>3, <2>1, <2>3, Zenon DEF Reads
  <2> QED BY <2>3, <2>4 DEF h, f
<1> QED BY <1>4, <1>5 DEF IsNaming

\* A trade-up's handler reads two numbers first; a type nobody handles is not read.
LEMMA OtherHandlers ==
  ASSUME NEW m \in Messages
  PROVE  LET h == Handler(m.kind) IN
         /\ m.kind = "craft" => /\ h \in Seq(Ops) /\ Len(h) = 3
                                /\ h[1] = "uint16" /\ h[2] = "uint16" /\ h[3] = "items"
         /\ m.kind = "other" => h \in Seq(Ops) /\ Len(h) = 1 /\ h[1] = "unknown"
<1>1. m.kind = "craft" => Handler(m.kind) = <<"uint16", "uint16", "items">>
  BY DEF Handler
<1>2. m.kind = "other" => Handler(m.kind) = <<"unknown">>
  BY DEF Handler
<1>3. /\ <<"uint16", "uint16", "items">> \in Seq(Ops) /\ Len(<<"uint16", "uint16", "items">>) = 3
      /\ <<"unknown">> \in Seq(Ops) /\ Len(<<"unknown">>) = 1
  BY OpsAre
<1>4. /\ <<"uint16", "uint16", "items">>[1] = "uint16" /\ <<"uint16", "uint16", "items">>[2] = "uint16"
      /\ <<"uint16", "uint16", "items">>[3] = "items" /\ <<"unknown">>[1] = "unknown"
  OBVIOUS
<1> QED BY <1>1, <1>2, <1>3, <1>4, Zenon

\* The field that is read behind p reads, and how far its reading gets; it has more bytes behind
\* it if it is a name.
FieldAt(m, p, more) ==
  LET c == Counted(m, p)
      f == m.fields
  IN  /\ c + 1 \in 1..Len(f) /\ Counted(m, p + 1) = c + 1
      /\ Place(m, p) \in Nat /\ Place(m, p + 1) = Place(m, p) + Len(f[c + 1]) + more
      /\ Has(Written(m), Place(m, p), f[c + 1])

\* A field as Reads has it.
ReadsField(m, p, op) ==
  LET c == Counted(m, p)
      f == m.fields
  IN  /\ FieldAt(m, p, 0)
      /\ \/ op \in {"uint32", "uint64"} /\ Len(f[c + 1]) = Width[op]
         \/ op = "data" /\ c \in 1..Len(f) /\ f[c] = SizeOf(f[c + 1])
         \/ op = "rest" /\ Len(Written(m)) = Place(m, p) + Len(f[c + 1])

\* How many fields there are after p reads.
LEMMA CountedFacts ==
  ASSUME NEW m, Len(m.fields) \in Nat, NEW p \in Nat
  PROVE  /\ IsNaming(m) => /\ p <= 2 /\ p <= Len(m.fields) => Counted(m, p) = p
                           /\ Counted(m, 3) = 2 /\ (p > 3 => Counted(m, p) = 3)
         /\ ~ IsNaming(m) => /\ p <= Len(m.fields) => Counted(m, p) = p
                             /\ p >= Len(m.fields) => Counted(m, p) = Len(m.fields)
BY DEF Counted

\* Each read of a handler is of the next field, where it stands, or it is the last return.
LEMMA PlainSteps ==
  ASSUME NEW m \in Messages, m.kind \notin {"craft", "other"}, ~ IsNaming(m),
         NEW p \in 0..(Len(Handler(m.kind)) - 1)
  PROVE  LET h == Handler(m.kind) IN
         \/ ReadsField(m, p, h[p + 1])
         \/ /\ h[p + 1] = "valid" /\ p + 1 = Len(h)
            /\ Counted(m, p) = Len(m.fields) /\ Counted(m, p + 1) = Counted(m, p)
            /\ Place(m, p + 1) = Place(m, p)
<1> DEFINE h == Handler(m.kind)
           f == m.fields
<1>1. /\ h \in Seq(Ops) /\ Len(h) = Len(f) + 1 /\ h[Len(f) + 1] = "valid"
      /\ \A q \in 1..Len(f) : Reads(h, f, q)
  BY PlainHandler
<1>2. /\ f \in Pieces /\ Len(f) \in Nat /\ 1 <= Len(f) /\ Len(f) <= 3
  BY FieldTypes
<1>3. /\ Len(Written(m)) = Reach(f, Len(f))
      /\ \A c \in 0..(Len(f) - 1) : Has(Written(m), Reach(f, c), f[c + 1])
  BY PlainWritten
<1>4. \A q \in Nat : Place(m, q) = Reach(f, Counted(m, q)) + 0
  BY DEF Place
<1>5. p \in Nat /\ p + 1 \in Nat /\ p <= Len(f)
  BY <1>1, <1>2
<1> HIDE DEF h, f
<1>6. CASE p < Len(f)
  <2>1. p \in 0..2 /\ p \in 0..(Len(f) - 1) /\ p + 1 \in 1..Len(f) /\ p + 1 <= Len(f) /\ (p + 1) - 1 = p
    BY <1>2, <1>5, <1>6
  <2>2. Counted(m, p) = p /\ Counted(m, p + 1) = p + 1
    BY <1>2, <1>5, <2>1, CountedFacts DEF f
  <2>3. /\ Reach(f, p) \in Nat /\ Reach(f, p + 1) = Reach(f, p) + Len(f[p + 1])
        /\ Reach(f, p + 1) \in Nat
    BY <1>2, <1>6, <2>1, ReachFacts
  <2>4. Place(m, p) = Reach(f, p) /\ Place(m, p + 1) = Reach(f, p + 1)
    <3>1. Reach(f, p) + 0 = Reach(f, p) /\ Reach(f, p + 1) + 0 = Reach(f, p + 1)
      BY <2>3
    <3> QED BY <1>4, <1>5, <2>2, <3>1, Zenon
  <2>5. Reach(f, p) + Len(f[p + 1]) + 0 = Reach(f, p + 1)
    BY <2>3
  <2>6. FieldAt(m, p, 0)
    <3>1. Has(Written(m), Reach(f, p), f[p + 1])
      BY <1>3, <2>1
    <3> QED BY <2>1, <2>2, <2>3, <2>4, <2>5, <3>1, Zenon DEF FieldAt, f
  <2>7. \/ h[p + 1] \in {"uint32", "uint64"} /\ Len(f[p + 1]) = Width[h[p + 1]]
        \/ h[p + 1] = "data" /\ p \in 1..Len(f) /\ f[p] = SizeOf(f[p + 1])
        \/ h[p + 1] = "rest" /\ p = 0 /\ Len(f) = 1
    <3>1. Reads(h, f, p + 1)
      BY <1>1, <2>1
    <3>2. p + 1 > 1 => p \in 1..Len(f)
      BY <1>2, <2>1
    <3>3. p + 1 = 1 => p = 0
      BY <1>5
    <3> QED BY <2>1, <3>1, <3>2, <3>3, Zenon DEF Reads
  <2>8. p = 0 /\ Len(f) = 1 => Len(Written(m)) = Place(m, p) + Len(f[p + 1])
    <3>1. 0 + 1 = 1
      OBVIOUS
    <3> QED BY <1>3, <2>3, <2>4, <3>1, Zenon
  <2>9. ReadsField(m, p, h[p + 1])
    BY <2>2, <2>6, <2>7, <2>8, Zenon DEF ReadsField, f
  <2> QED BY <2>9 DEF h
<1>7. CASE p = Len(f)
  <2>1. /\ Counted(m, p) = Len(f) /\ Counted(m, p + 1) = Len(f)
    BY <1>2, <1>5, <1>7, CountedFacts DEF f
  <2>2. Place(m, p + 1) = Place(m, p)
    BY <1>4, <1>5, <2>1, Zenon
  <2> QED BY <1>1, <1>7, <2>1, <2>2, Zenon DEF h, f
<1> QED BY <1>2, <1>5, <1>6, <1>7

\* The same of the handlers of names, with the sentinel and the zero.
LEMMA NamingSteps ==
  ASSUME NEW m \in Messages, IsNaming(m), NEW p \in 0..4
  PROVE  LET h == Handler(m.kind)
             w == Written(m)
             c == Counted(m, p)
             f == m.fields
         IN  \/ ReadsField(m, p, h[p + 1])
             \/ /\ h[p + 1] = "skip" /\ Counted(m, p + 1) = c
                /\ Place(m, p) \in Nat /\ Place(m, p + 1) = Place(m, p) + 1
                /\ Place(m, p) + 1 <= Len(w)
             \/ /\ h[p + 1] = "string" /\ FieldAt(m, p, 1)
                /\ \A k \in 1..Len(f[c + 1]) : f[c + 1][k] # 0
                /\ Place(m, p) + Len(f[c + 1]) + 1 <= Len(w)
                /\ w[Place(m, p) + Len(f[c + 1]) + 1] = 0
             \/ /\ h[p + 1] = "valid" /\ p + 1 = Len(h)
                /\ c = Len(f) /\ Counted(m, p + 1) = c
                /\ Place(m, p + 1) = Place(m, p)
<1> DEFINE h == Handler(m.kind)
           f == m.fields
           w == Written(m)
           r == Reach(f, 2)
           l == Len(f[3])
<1>1. /\ Len(h) = 5 /\ Reads(h, f, 1) /\ Reads(h, f, 2)
      /\ h[3] = "skip" /\ h[4] = "string" /\ h[5] = "valid"
  BY NamingHandler
<1>2. f \in Pieces
  BY FieldTypes
<1>3. /\ Len(f) = 3 /\ l \in Nat /\ \A k \in 1..l : f[3][k] # 0
      /\ Len(w) = r + l + 2
      /\ Has(w, 0, f[1]) /\ Has(w, Len(f[1]), f[2]) /\ Has(w, r + 1, f[3])
      /\ w[r + 1 + l + 1] = 0
  BY NamingWritten
<1>4. IsNaming(m)
  OBVIOUS
<1> HIDE DEF h, w
<1>5. /\ Reach(f, 0) = 0 /\ Reach(f, 0 + 1) = Reach(f, 0) + Len(f[0 + 1])
      /\ Reach(f, 1) \in Nat /\ Reach(f, 1 + 1) = Reach(f, 1) + Len(f[1 + 1])
      /\ Reach(f, 2) \in Nat /\ Reach(f, 2 + 1) = Reach(f, 2) + Len(f[2 + 1])
  <2>1. 0 < Len(f) /\ 1 < Len(f) /\ 2 < Len(f) /\ 0 \in 0..2 /\ 1 \in 0..2 /\ 2 \in 0..2
    BY <1>3
  <2> QED BY ONLY <1>2, <2>1, ReachFacts
<1>6. /\ 0 + 1 = 1 /\ 1 + 1 = 2 /\ 2 + 1 = 3 /\ 3 + 1 = 4 /\ 4 + 1 = 5
      /\ ~ (0 > 2) /\ ~ (1 > 2) /\ ~ (2 > 2) /\ 3 > 2 /\ 4 > 2 /\ 5 > 2
      /\ 4 # 3 /\ 5 # 3 /\ 0 < 3 /\ 1 < 3 /\ 2 < 3
      /\ 1 \in 1..3 /\ 2 \in 1..3 /\ 3 \in 1..3 /\ 1 - 1 = 0 /\ 2 - 1 = 1 /\ 2 > 1 /\ 0 \in Nat /\ 2 - 1 \in 1..3
  OBVIOUS
<1>7. /\ Counted(m, 0) = 0 /\ Counted(m, 1) = 1 /\ Counted(m, 2) = 2
      /\ Counted(m, 3) = 2 /\ Counted(m, 4) = 3 /\ Counted(m, 5) = 3
  BY <1>3, <1>4, <1>6, Zenon DEF Counted, f
<1>8. r \in Nat /\ Len(f[1]) \in Nat /\ r = Reach(f, 2) /\ l = Len(f[3])
  <2>1. Reach(f, 1) = Len(f[1])
    BY DEF Reach
  <2> QED BY <1>5, <2>1
<1>9. /\ Place(m, 0) = 0 /\ Place(m, 1) = Len(f[1]) /\ Place(m, 2) = r
      /\ Place(m, 3) = r + 1 /\ Place(m, 4) = r + l + 2 /\ Place(m, 5) = r + l + 2
  <2>1. /\ Place(m, 0) = Reach(f, 0) + 0 /\ Place(m, 1) = Reach(f, 1) + 0
        /\ Place(m, 2) = Reach(f, 2) + 0 /\ Place(m, 3) = Reach(f, 2) + 1
        /\ Place(m, 4) = Reach(f, 3) + 2 /\ Place(m, 5) = Reach(f, 3) + 2
    BY <1>4, <1>6, <1>7, Zenon DEF Place, f
  <2>2. Reach(f, 1) = Len(f[1]) /\ Reach(f, 3) = r + l
    BY <1>5, <1>6, Zenon DEF Reach
  <2>3. 0 + 0 = 0 /\ Len(f[1]) + 0 = Len(f[1]) /\ r + 0 = r
    BY <1>8
  <2> QED BY <1>5, <1>8, <2>1, <2>2, <2>3, Zenon
<1> HIDE DEF f, r, l
<1>10. CASE p = 0
  <2>1. FieldAt(m, 0, 0)
    <3>1. 0 + Len(f[1]) + 0 = Len(f[1])
      BY <1>8
    <3> QED BY <1>3, <1>6, <1>7, <1>9, <3>1, Zenon DEF FieldAt, f, w
  <2>2. h[1] \in {"uint32", "uint64"} /\ Len(f[1]) = Width[h[1]]
    <3>1. ~ (1 > 1) /\ Len(f) # 1
      BY <1>3
    <3> QED BY <1>1, <3>1, Zenon DEF Reads
  <2> QED BY <1>6, <1>7, <1>10, <2>1, <2>2, Zenon DEF ReadsField, h, f
<1>11. CASE p = 1
  <2>0. Reach(f, 1) = Len(f[1]) /\ r = Len(f[1]) + Len(f[2])
    BY DEF Reach, r
  <2>1. FieldAt(m, 1, 0)
    <3>1. Len(f[2]) \in Nat
      BY <1>2, <1>3, PiecesFacts
    <3>2. Len(f[1]) + Len(f[2]) + 0 = r
      <4>1. \A x, y \in Nat : x + y + 0 = x + y
        OBVIOUS
      <4> QED BY <1>8, <2>0, <3>1, <4>1, Zenon
    <3> QED BY <1>3, <1>6, <1>7, <1>8, <1>9, <3>2, Zenon DEF FieldAt, f, w
  <2>2. \/ h[2] \in {"uint32", "uint64"} /\ Len(f[2]) = Width[h[2]]
        \/ h[2] = "data" /\ f[1] = SizeOf(f[2])
    <3>1. 2 # 1
      OBVIOUS
    <3> QED BY <1>1, <1>6, <3>1, Zenon DEF Reads
  <2> QED BY <1>3, <1>6, <1>7, <1>11, <2>1, <2>2, Zenon DEF ReadsField, h, f
<1>12. CASE p = 2
  <2>1. r + 1 <= Len(w)
    BY <1>3, <1>8
  <2> QED BY <1>1, <1>6, <1>7, <1>8, <1>9, <1>12, <2>1, Zenon DEF h, w
<1>13. CASE p = 3
  <2>1. /\ r + 1 \in Nat /\ (r + 1) + l + 1 = r + l + 2 /\ r + 1 + l + 1 <= Len(w)
    BY <1>3, <1>8
  <2>2. FieldAt(m, 3, 1)
    BY <1>3, <1>6, <1>7, <1>8, <1>9, <2>1, Zenon DEF FieldAt, f, w, l
  <2> QED BY <1>1, <1>3, <1>6, <1>7, <1>8, <1>9, <1>13, <2>1, <2>2, Zenon DEF h, w, f, l
<1>14. CASE p = 4
  BY <1>1, <1>3, <1>6, <1>7, <1>9, <1>14, Zenon DEF h, f
<1>15. p = 0 \/ p = 1 \/ p = 2 \/ p = 3 \/ p = 4
  OBVIOUS
<1> QED BY <1>10, <1>11, <1>12, <1>13, <1>14, <1>15, Zenon

\* A trade-up's two numbers.
LEMMA CraftSteps ==
  ASSUME NEW m \in Messages, m.kind = "craft", NEW p \in 0..1
  PROVE  /\ FieldAt(m, p, 0) /\ Len(m.fields[p + 1]) = 2 /\ Counted(m, p) = p
         /\ Place(m, 2) = 4 /\ Counted(m, 2) = 2
<1> DEFINE f == m.fields
           w == Written(m)
<1>1. f \in Pieces /\ Len(f) \in Nat /\ 2 <= Len(f) /\ Len(f[1]) = 2 /\ Len(f[2]) = 2
  BY CraftForm
<1>2. Has(w, 0, f[1]) /\ Has(w, 2, f[2])
  BY CraftWritten
<1>3. ~ IsNaming(m)
  BY DEF IsNaming
<1>4. /\ Counted(m, 0) = 0 /\ Counted(m, 1) = 1 /\ Counted(m, 2) = 2
  BY <1>1, <1>3, CountedFacts
<1>5. /\ Place(m, 0) = Reach(f, 0) + 0 /\ Place(m, 1) = Reach(f, 1) + 0 /\ Place(m, 2) = Reach(f, 2) + 0
  BY <1>3, <1>4, Zenon DEF Place
<1>6. Reach(f, 0) = 0 /\ Reach(f, 1) = Len(f[1]) /\ Reach(f, 2) = Len(f[1]) + Len(f[2])
  BY DEF Reach
<1> HIDE DEF f, w
<1>7. /\ 0 + 0 = 0 /\ 2 + 0 = 2 /\ 2 + 2 = 4 /\ 4 + 0 = 4 /\ 0 + 1 = 1 /\ 1 + 1 = 2 /\ 0 \in Nat /\ 2 \in Nat
      /\ 0 + 2 + 0 = 2 /\ 2 + 2 + 0 = 4
  OBVIOUS
<1>8. Place(m, 0) = 0 /\ Place(m, 1) = 2 /\ Place(m, 2) = 4
  BY <1>1, <1>5, <1>6, <1>7, Zenon
<1>9. 1 \in 1..Len(f) /\ 2 \in 1..Len(f)
  BY <1>1
<1>10. FieldAt(m, 0, 0) /\ FieldAt(m, 1, 0)
  BY <1>1, <1>2, <1>4, <1>7, <1>8, <1>9, Zenon DEF FieldAt, f, w
<1>11. p = 0 \/ p = 1
  OBVIOUS
<1> QED BY <1>1, <1>4, <1>7, <1>8, <1>10, <1>11, Zenon DEF f

-----------------------------------------------------------------------------
(* One step.                                                               *)

\* What is done with the first of the reads.
Does(op) ==
  \/ /\ op \in {"uint16", "uint32", "uint64"} /\ Rest
     /\ ReadData(Width[op], [i \in 1..Width[op] |-> 0])
  \/ op = "skip" /\ Rest /\ PassOver(1)
  \/ op = "data" /\ Rest /\ ReadData(Number32(Last(got)), <<>>)
  \/ /\ op = "rest" /\ ReadData(Len(buffer) - offset, <<>>)
     /\ Rest \/ (~ whole /\ outcome' = "ignored")
  \/ op = "string" /\ Rest /\ ReadToZero
  \/ /\ op = "type"
     /\ todo' = (IF IsProtobuf(Last(got)) THEN ProtobufHeader ELSE StructHeader)
                \o <<"body">> \o HandlerOf(Last(got))
     /\ UNCHANGED <<offset, error, got, outcome>>
  \/ op = "body" /\ Rest /\ got' = <<>> /\ UNCHANGED <<offset, error>>
  \/ /\ op = "items" /\ todo' = ItemsReads(Number16(Last(got)))
     /\ UNCHANGED <<offset, error, got, outcome>>
  \/ /\ op = "valid" /\ ~ error /\ Rest /\ UNCHANGED <<offset, error, got>>
  \/ /\ op = "valid" /\ error /\ outcome' = "ignored" /\ UNCHANGED <<offset, error, got>>
  \/ op = "unknown" /\ outcome' = "ignored" /\ UNCHANGED <<offset, error, got>>

\* A step does what the first of the reads calls for.
LEMMA NextDoes ==
  ASSUME CodecTypes, CodecNext, todo # <<>>
  PROVE  /\ outcome = "reading" /\ UNCHANGED <<message, whole, buffer>>
         /\ Does(Head(todo))
<1>1. CASE ReadVariable
  BY <1>1 DEF ReadVariable, Doing, Does
<1>2. CASE SkipData
  BY <1>2 DEF SkipData, Doing, Does, Width
<1>3. CASE ReadSized
  BY <1>3 DEF ReadSized, Doing, Does
<1>4. CASE ReadProtobuf
  BY <1>4 DEF ReadProtobuf, Doing, Does
<1>5. CASE ReadString
  BY <1>5 DEF ReadString, Doing, Does
<1>6. CASE ReadType
  BY <1>6 DEF ReadType, Doing, Does
<1>7. CASE BeginHandler
  BY <1>7 DEF BeginHandler, Doing, Does
<1>8. CASE ReadItems
  BY <1>8 DEF ReadItems, Doing, Does
<1>9. CASE CheckValid
  BY <1>9 DEF CheckValid, Doing, Does, Rest, Invalid, CodecTypes
<1>10. CASE UnknownType
  BY <1>10 DEF UnknownType, Doing, Does
<1>11. CASE Handled
  BY <1>11 DEF Handled
<1> QED BY <1>1, <1>2, <1>3, <1>4, <1>5, <1>6, <1>7, <1>8, <1>9, <1>10, <1>11 DEF CodecNext

\* When there is nothing left to read, the message is handled.
LEMMA NextHandles ==
  ASSUME CodecNext, todo = <<>>
  PROVE  /\ outcome = "reading" /\ outcome' = "handled"
         /\ UNCHANGED <<message, whole, buffer, offset, error, todo, got>>
BY DEF CodecNext, ReadVariable, SkipData, ReadSized, ReadProtobuf, ReadString, ReadType, BeginHandler,
       ReadItems, CheckValid, UnknownType, Handled, Doing

\* The reads of a program, one after the other.
LEMMA LeftStep ==
  ASSUME NEW s \in Seq(Ops), NEW p \in Nat, p < Len(s), todo = Left(s, p)
  PROVE  todo # <<>> /\ Head(todo) = s[p + 1] /\ (Rest => todo' = Left(s, p + 1) /\ outcome' = outcome)
<1>1. p \in 0..Len(s) /\ p # Len(s)
  OBVIOUS
<1> QED BY <1>1, LeftFacts DEF Rest

\* What is appended by a read of part, or instead of it.
Taken(part, instead) ==
  /\ offset' \in Nat /\ error' \in BOOLEAN /\ got' \in Pieces
  /\ got' # <<>> /\ Len(got') = Len(got) + 1
  /\ error => error'
  /\ error' => error \/ ~ whole
  /\ error' => got' = Append(got, instead) /\ Last(got') = instead
  /\ ~ error' => /\ offset' = offset + Len(part)
                 /\ got' = Append(got, part) /\ Last(got') = part

\* What is appended comes last, and what was there before stays.
LEMMA AppendFacts ==
  ASSUME NEW S, NEW s \in Seq(S), NEW x \in S
  PROVE  /\ Append(s, x) \in Seq(S) /\ Append(s, x) # <<>> /\ Len(Append(s, x)) = Len(s) + 1
         /\ Last(Append(s, x)) = x
         /\ \A k \in 1..Len(s) : Append(s, x)[k] = s[k]
         /\ Append(s, x)[Len(s) + 1] = x
BY DEF Last

\* A message as it is read is one that was cut.
LEMMA CutIsCut ==
  ASSUME CodecTypes, NEW extra \in Extras, NEW n, CutAt(extra, n)
  PROVE  LET b == Sent(message, extra) IN Cut(b, n) /\ (n < Len(b) => ~ whole)
<1>1. /\ Sent(message, extra) \in Seq(Nat) /\ Len(Sent(message, extra)) < SizeLimit
  BY SentForm DEF CodecTypes
<1> DEFINE b == Sent(message, extra)
<1>2. /\ n \in Nat /\ buffer \in Seq(Nat) /\ Len(buffer) = n
      /\ \A k \in 1..n : k <= Len(b) => buffer[k] = b[k]
      /\ whole = (n >= Len(b))
  BY Zenon DEF CutAt
<1> HIDE DEF b
<1>3. Cut(b, n)
  BY <1>1, <1>2 DEF Cut, b
<1>4. n < Len(b) => ~ (n >= Len(b))
  BY <1>1, <1>2 DEF b
<1>5. n < Len(b) => ~ whole
  BY <1>2, <1>4, Zenon
<1> QED BY <1>3, <1>5 DEF b

\* A read where the message has part appends it, or finds the message cut.
LEMMA ReadTakes ==
  ASSUME CodecTypes, NEW extra \in Extras, NEW n, CutAt(extra, n),
         NEW part \in Seq(Nat), NEW instead \in Seq(Nat), NEW size,
         ~ error => size = Len(part) /\ Has(Sent(message, extra), offset, part),
         ReadData(size, instead)
  PROVE  Taken(part, instead)
<1> DEFINE b == Sent(message, extra)
<1>1. Cut(b, n) /\ (n < Len(b) => ~ whole)
  BY CutIsCut
<1>2. offset \in Nat /\ error \in BOOLEAN /\ got \in Seq(Seq(Nat))
  BY DEF CodecTypes, Pieces
<1>3. /\ \A x \in Seq(Nat) : /\ Append(got, x) \in Seq(Seq(Nat)) /\ Append(got, x) # <<>>
                             /\ Len(Append(got, x)) = Len(got) + 1 /\ Last(Append(got, x)) = x
  BY <1>2, AppendFacts
<1> HIDE DEF b
<1>4. CASE error = TRUE
  <2>1. error' = TRUE /\ offset' = offset /\ got' = Append(got, instead)
    BY <1>4, ReadError
  <2> QED BY <1>2, <1>3, <1>4, <2>1 DEF Taken, Pieces
<1>5. CASE error = FALSE
  <2>1. ReadData(Len(part), instead) /\ Has(b, offset, part)
    BY <1>5 DEF b
  <2>2. /\ offset' \in Nat /\ error' \in BOOLEAN
        /\ error' => n < Len(b) /\ got' = Append(got, instead)
        /\ ~ error' => offset' = offset + Len(part) /\ got' = Append(got, part)
    BY <1>1, <1>2, <1>5, <2>1, ReadPart
  <2> QED BY <1>1, <1>2, <1>3, <1>5, <2>2 DEF Taken, Pieces
<1> QED BY <1>2, <1>4, <1>5

\* There is always something to read.
LEMMA AnyPart ==
  ASSUME NEW b \in Seq(Nat), NEW o \in Nat, NEW k \in Nat, o + k <= Len(b)
  PROVE  \E part \in Seq(Nat) : Len(part) = k /\ Has(b, o, part)
<1> DEFINE part == SubSeq(b, o + 1, o + k)
<1>0. b \in Seq(Nat) /\ Len(b) \in Nat
  OBVIOUS
<1>1. /\ o + 1 \in 1..(Len(b) + 1) /\ o + k \in ((o + 1) - 1)..Len(b)
      /\ (o + k) - (o + 1) + 1 = k /\ \A i \in 1..k : (o + 1) + i - 1 = o + i
  BY <1>0
<1>2. /\ part \in Seq(Nat) /\ Len(part) = (o + k) - (o + 1) + 1
      /\ \A i \in 1..((o + k) - (o + 1) + 1) : part[i] = b[(o + 1) + i - 1]
  <2> DEFINE from == o + 1
             to == o + k
  <2>1. from \in 1..(Len(b) + 1) /\ to \in (from - 1)..Len(b)
    BY <1>1
  <2> HIDE DEF from, to
  <2>2. /\ SubSeq(b, from, to) \in Seq(Nat) /\ Len(SubSeq(b, from, to)) = to - from + 1
        /\ \A i \in 1..(to - from + 1) : SubSeq(b, from, to)[i] = b[from + i - 1]
    BY ONLY <1>0, <2>1, SubSeqFacts
  <2> QED BY <2>2 DEF from, to
<1> HIDE DEF part
<1>3. part \in Seq(Nat) /\ Len(part) = k /\ \A i \in 1..k : part[i] = b[o + i]
  BY <1>1, <1>2
<1>4. Has(b, o, part)
  BY <1>3 DEF Has
<1> QED BY <1>3, <1>4

\* What is read instead of a number is zeros, of its width.
LEMMA ZeroWidth ==
  /\ Width["uint16"] = 2 /\ Width["uint32"] = 4 /\ Width["uint64"] = 8
  /\ \A op \in {"uint16", "uint32", "uint64"} : [i \in 1..Width[op] |-> 0] \in Seq(Nat)
  /\ [i \in 1..Width["uint16"] |-> 0] = <<0, 0>>
<1>1. Width["uint16"] = 2 /\ Width["uint32"] = 4 /\ Width["uint64"] = 8
  BY DEF Width
<1>2. ASSUME NEW k \in Nat PROVE [i \in 1..k |-> 0] \in Seq(Nat)
  <2>1. [i \in 1..k |-> 0] \in [1..k -> Nat]
    OBVIOUS
  <2>2. [i \in 1..k |-> 0] \in UNION {[1..j -> Nat] : j \in Nat}
    BY <2>1
  <2> QED BY <2>2, SeqDef, Zenon
<1>3. [i \in 1..2 |-> 0] = <<0, 0>>
  <2> DEFINE z == [i \in 1..2 |-> 0]
  <2>1. z \in Seq(Nat) /\ Len(z) = 2 /\ z[1] = 0 /\ z[2] = 0
    <3>1. z \in Seq(Nat)
      BY <1>2
    <3>2. Len(z) = 2
      <4>1. z \in [1..2 -> Nat] /\ 2 \in Nat
        OBVIOUS
      <4> QED BY <3>1, <4>1, LenProperties
    <3> QED BY <3>1, <3>2
  <2> HIDE DEF z
  <2>2. z = <<0, 0>>
    <3>1. /\ <<0, 0>> \in Seq(Nat) /\ Len(<<0, 0>>) = 2 /\ <<0, 0>>[1] = 0 /\ <<0, 0>>[2] = 0
          /\ \A k \in 1..2 : k = 1 \/ k = 2
      OBVIOUS
    <3>2. Len(z) = Len(<<0, 0>>) /\ \A k \in 1..Len(z) : z[k] = <<0, 0>>[k]
      BY <2>1, <3>1, Zenon
    <3> QED BY ONLY <2>1, <3>1, <3>2, SeqEqual
  <2> QED BY <2>2 DEF z
<1>4. 2 \in Nat /\ 4 \in Nat /\ 8 \in Nat
  OBVIOUS
<1> QED BY <1>1, <1>2, <1>3, <1>4, Zenon

\* What a step leads to.
Goes(extra) ==
  /\ UNCHANGED <<message, whole, buffer>>
  /\ offset' \in Nat /\ error' \in BOOLEAN /\ got' \in Pieces
  /\ \/ outcome' = "reading" /\ Reading(extra)'
     \/ outcome' = "ignored" /\ (whole => message.kind = "other")
     \/ /\ outcome' = "handled" /\ message.kind # "other"
        /\ \/ got' = message.fields
           \/ /\ message.flags # Struct /\ ~ whole
              /\ Len(got') = 1 /\ IsPrefix(got'[1], message.fields[1])
           \/ /\ message.kind = "craft" /\ ~ whole
              /\ Len(got') > 2 => \A i \in 1..(Len(got') - 1) : got'[i] = message.fields[i]

\* What comes behind the type.
LEMMA ProgramFacts ==
  ASSUME NEW m \in Messages
  PROVE  LET t == TypeHeader(m)
             a == AfterType(m)
             h == Handler(m.kind)
         IN  /\ h \in Seq(Ops) /\ h # <<>> /\ Len(h) \in Nat /\ 1 <= Len(h)
             /\ m.flags = Struct => /\ Len(t) = 4 /\ t[1] = "uint32" /\ t[2] = "uint64"
                                    /\ t[3] = "uint16" /\ t[4] = "valid"
             /\ m.flags # Struct => /\ Len(t) = 3 /\ t[1] = "uint32" /\ t[2] = "data"
                                    /\ t[3] = "valid"
             /\ a \in Seq(Ops) /\ Len(a) = Len(t) + 1 + Len(h)
             /\ \A p \in 1..Len(t) : a[p] = t[p]
             /\ a[Len(t) + 1] = "body" /\ Left(a, Len(t) + 1) = h
<1> DEFINE t == TypeHeader(m)
           a == AfterType(m)
           h == Handler(m.kind)
<1>1. h \in Seq(Ops) /\ h # <<>> /\ Len(h) \in Nat /\ 1 <= Len(h)
  <2>1. h \in Seq(Ops) /\ 1 <= Len(h)
    <3>1. CASE m.kind \in {"craft", "other"}
      BY <3>1, OtherHandlers
    <3>2. CASE m.kind \notin {"craft", "other"} /\ IsNaming(m)
      BY <3>2, NamingHandler
    <3>3. CASE m.kind \notin {"craft", "other"} /\ ~ IsNaming(m)
      BY <3>3, PlainHandler, FieldTypes
    <3> QED BY <3>1, <3>2, <3>3
  <2> QED BY <2>1
<1>2. m.flags = Struct => /\ t \in Seq(Ops) /\ Len(t) = 4 /\ t[1] = "uint32" /\ t[2] = "uint64"
                          /\ t[3] = "uint16" /\ t[4] = "valid"
  BY OpsAre DEF TypeHeader, StructHeader
<1>3. m.flags # Struct => /\ t \in Seq(Ops) /\ Len(t) = 3 /\ t[1] = "uint32" /\ t[2] = "data"
                          /\ t[3] = "valid"
  BY OpsAre DEF TypeHeader, ProtobufHeader
<1>4. t \in Seq(Ops) /\ Len(t) \in Nat
  BY <1>2, <1>3
<1> HIDE DEF t, h
<1> DEFINE front == t \o <<"body">>
<1>5. /\ front \in Seq(Ops) /\ Len(front) = Len(t) + 1 /\ \A p \in 1..Len(t) : front[p] = t[p]
      /\ front[Len(t) + 1] = "body"
  <2>1. <<"body">> \in Seq(Ops) /\ Len(<<"body">>) = 1 /\ <<"body">>[1] = "body" /\ 1 \in 1..1
    BY OpsAre
  <2>2. /\ front \in Seq(Ops) /\ Len(front) = Len(t) + Len(<<"body">>)
        /\ \A p \in 1..Len(t) : front[p] = t[p]
        /\ \A p \in 1..Len(<<"body">>) : front[Len(t) + p] = <<"body">>[p]
    BY ONLY <1>4, <2>1, ConcatFacts
  <2> QED BY <2>1, <2>2, Zenon
<1> HIDE DEF front
<1>6. a = front \o h
  BY DEF AfterType, front, t, h
<1>7. /\ a \in Seq(Ops) /\ Len(a) = Len(front) + Len(h)
      /\ \A p \in 1..Len(front) : a[p] = front[p]
      /\ \A p \in 1..Len(h) : a[Len(front) + p] = h[p]
  <2> DEFINE joined == front \o h
  <2>1. /\ joined \in Seq(Ops) /\ Len(joined) = Len(front) + Len(h)
        /\ \A p \in 1..Len(front) : joined[p] = front[p]
        /\ \A p \in 1..Len(h) : joined[Len(front) + p] = h[p]
    <3>1. front \in Seq(Ops) /\ h \in Seq(Ops)
      BY <1>1, <1>5
    <3> QED BY ONLY <3>1, ConcatFacts
  <2>2. joined = a
    BY <1>6
  <2> HIDE DEF joined, a
  <2> QED BY <2>1, <2>2
<1> HIDE DEF a
<1>8. (\A p \in 1..Len(t) : a[p] = t[p]) /\ a[Len(t) + 1] = "body"
  <2>1. Len(t) + 1 \in 1..Len(front) /\ \A p \in 1..Len(t) : p \in 1..Len(front)
    BY <1>4, <1>5
  <2> QED BY <1>5, <1>7, <2>1, Zenon
<1>9. Left(a, Len(t) + 1) = h
  <2> DEFINE l == Left(a, Len(t) + 1)
  <2>1. Has(a, Len(front) + 0, h)
    <3>1. Has(h, 0, h) /\ 0 \in Nat
      BY ONLY <1>1, HasSelf
    <3> QED BY ONLY <1>1, <1>5, <1>6, <3>1, HasBack
  <2>2. Len(front) + 0 = Len(t) + 1 /\ Len(t) + 1 \in Nat /\ (Len(t) + 1) + Len(h) = Len(a)
    BY <1>1, <1>4, <1>5, <1>7
  <2>3. Has(a, Len(t) + 1, h)
    BY <2>1, <2>2, Zenon
  <2>4. SubSeq(a, (Len(t) + 1) + 1, (Len(t) + 1) + Len(h)) = h
    BY ONLY <1>1, <1>7, <2>2, <2>3, HasRead
  <2> QED BY <2>2, <2>4, Zenon DEF Left
<1>10. Len(a) = Len(t) + 1 + Len(h)
  BY <1>1, <1>4, <1>5, <1>7
<1> QED BY <1>1, <1>2, <1>3, <1>7, <1>8, <1>9, <1>10, Zenon DEF t, a, h

\* The program that the type calls for.
LEMMA TypeReads ==
  ASSUME NEW type, message \in Messages,
         type = TypeOf(NumberOf(message.kind), message.flags)
  PROVE  (IF IsProtobuf(type) THEN ProtobufHeader ELSE StructHeader) \o <<"body">> \o HandlerOf(type)
           = AfterType(message)
<1>1. MessageForm(message)
  BY FormOf
<1>2. /\ message.flags \in {Struct, Protobuf, CCProto}
      /\ type[1] = NumberOf(message.kind) /\ type[4] = message.flags
  BY TypeTypes
<1>3. /\ message.kind = "answer" => message.flags = CCProto
      /\ message.kind # "answer" => message.flags \in {Struct, Protobuf}
  BY <1>1 DEF MessageForm
<1>4. IsProtobuf(type) <=> message.flags # Struct
  BY <1>2 DEF IsProtobuf, Struct, Protobuf, CCProto
<1>5. Unmasked(message, type[4]) = 0
  <2>1. /\ 0 % 128 = 0 /\ 128 % 128 = 0 /\ 144 % 128 = 16 /\ (144 \div 16) % 2 = 1 /\ 16 - 16 * 1 = 0
    OBVIOUS
  <2>2. WithoutProtobuf(0) = 0 /\ WithoutProtobuf(128) = 0 /\ WithoutCCProto(144) = 0
    BY <2>1, Zenon DEF WithoutProtobuf, WithoutCCProto
  <2> QED BY <1>2, <1>3, <2>2, Zenon DEF Unmasked, Struct, Protobuf, CCProto
<1>6. type[1] \in DOMAIN Kinds /\ Kinds[type[1]] = message.kind
  BY <1>2, KindNumbers
<1>7. HandlerOf(type) = Handler(message.kind)
  BY <1>5, <1>6 DEF HandlerOf
<1> QED BY <1>4, <1>7 DEF AfterType, TypeHeader

\* While the constructor reads the type.
LEMMA TypePhase ==
  ASSUME CodecTypes, NEW extra \in Extras, NEW n, CutAt(extra, n), AtType, CodecNext
  PROVE  Goes(extra)
<1>1. PICK p \in 0..2 : TypeAt(p)
  BY DEF AtType
<1>2. First \in Seq(Ops) /\ Len(First) = 3 /\ First[1] = "uint32" /\ First[2] = "valid" /\ First[3] = "type"
  BY OpsAre DEF First
<1>3. /\ todo # <<>> /\ Head(todo) = First[p + 1]
      /\ Rest => todo' = Left(First, p + 1) /\ outcome' = outcome
  <2>1. p \in Nat /\ p < Len(First) /\ todo = Left(First, p)
    BY <1>1, <1>2 DEF TypeAt
  <2> QED BY <1>2, <2>1, LeftStep
<1>4. outcome = "reading" /\ UNCHANGED <<message, whole, buffer>> /\ Does(Head(todo))
  BY <1>3, NextDoes
<1> DEFINE type == TypeOf(NumberOf(message.kind), message.flags)
<1>5. message \in Messages /\ offset \in Nat /\ error \in BOOLEAN /\ got \in Pieces
  BY DEF CodecTypes
<1>6. type \in Seq(Nat) /\ Len(type) = 4 /\ Has(Sent(message, extra), 0, type)
  BY <1>5, TypeTypes, SentForm
<1> HIDE DEF type
<1>7. CASE p = 0
  <2>1. Rest /\ ReadData(4, [i \in 1..Width["uint32"] |-> 0])
    <3>1. Head(todo) = "uint32"
      BY <1>2, <1>3, <1>7
    <3> QED BY <1>4, <3>1, ZeroWidth DEF Does
  <2>2. ~ error /\ offset = 0
    BY <1>1, <1>7 DEF TypeAt
  <2>3. Taken(type, [i \in 1..Width["uint32"] |-> 0])
    <3>1. 4 = Len(type) /\ Has(Sent(message, extra), offset, type)
      BY <1>6, <2>2
    <3> QED BY <1>6, <2>1, <3>1, ReadTakes, ZeroWidth
  <2>4. todo' = Left(First, 1) /\ outcome' = "reading"
    BY <1>3, <1>4, <1>7, <2>1
  <2>5. TypeAt(1)'
    <3>1. error' => ~ whole'
      BY <1>4, <2>2, <2>3 DEF Taken
    <3>2. ~ error' => offset' = 4 /\ Last(got') = type
      BY <1>6, <2>2, <2>3 DEF Taken
    <3>3. type = TypeOf(NumberOf(message'.kind), message'.flags)
      BY <1>4 DEF type
    <3>4. got' # <<>>
      BY <2>3 DEF Taken
    <3> QED BY <2>4, <3>1, <3>2, <3>3, <3>4 DEF TypeAt
  <2>6. Reading(extra)'
    <3>1. 1 \in 0..2
      OBVIOUS
    <3> QED BY <2>5, <3>1 DEF Reading, AtType
  <2> QED BY <1>4, <2>3, <2>4, <2>6 DEF Goes, Taken
<1>8. CASE p = 1
  <2>1. Head(todo) = "valid"
    BY <1>2, <1>3, <1>8
  <2>2. CASE ~ error
    <3>1. Rest /\ UNCHANGED <<offset, error, got>>
      BY <1>4, <2>1, <2>2 DEF Does
    <3>2. todo' = Left(First, 2) /\ outcome' = "reading"
      BY <1>3, <1>4, <1>8, <3>1
    <3>3. TypeAt(2)'
      BY <1>1, <1>4, <1>8, <2>2, <3>1, <3>2 DEF TypeAt
    <3>4. Reading(extra)'
      <4>1. 2 \in 0..2
        OBVIOUS
      <4> QED BY <3>3, <4>1 DEF Reading, AtType
    <3> QED BY <1>4, <1>5, <3>1, <3>2, <3>4 DEF Goes
  <2>3. CASE error
    <3>1. outcome' = "ignored" /\ UNCHANGED <<offset, error, got>>
      BY <1>4, <2>1, <2>3 DEF Does
    <3>2. ~ whole
      BY <1>1, <2>3 DEF TypeAt
    <3> QED BY <1>4, <1>5, <3>1, <3>2 DEF Goes
  <2> QED BY <2>2, <2>3
<1>9. CASE p = 2
  <2>1. Head(todo) = "type"
    BY <1>2, <1>3, <1>9
  <2>2. /\ todo' = (IF IsProtobuf(Last(got)) THEN ProtobufHeader ELSE StructHeader)
                   \o <<"body">> \o HandlerOf(Last(got))
        /\ UNCHANGED <<offset, error, got, outcome>>
    BY <1>4, <2>1 DEF Does
  <2>3. ~ error /\ offset = 4 /\ Last(got) = TypeOf(NumberOf(message.kind), message.flags)
    BY <1>1, <1>9 DEF TypeAt
  <2>4. todo' = AfterType(message)
    BY <1>5, <2>2, <2>3, TypeReads
  <2>5. HeaderAt(extra, 0)'
    <3>1. AfterType(message) = Left(AfterType(message), 0)
      <4>1. AfterType(message) \in Seq(Ops)
        BY <1>5, ProgramFacts
      <4>2. \A s \in Seq(Ops) : SubSeq(s, 0 + 1, Len(s)) = s
        OBVIOUS
      <4> QED BY <4>1, <4>2, Zenon DEF Left
    <3>2. HeaderPlace(message, extra, 0) = 4
      BY DEF HeaderPlace
    <3>3. todo' = Left(AfterType(message'), 0) /\ HeaderPlace(message', extra, 0) = 4
      BY <1>4, <2>4, <3>1, <3>2
    <3>4. ~ error' /\ offset' = 4
      BY <2>2, <2>3
    <3> QED BY <3>3, <3>4 DEF HeaderAt
  <2>6. AtHeader(extra)'
    <3>1. 0 \in 0..Len(TypeHeader(message'))
      <4>1. Len(TypeHeader(message)) = 4 \/ Len(TypeHeader(message)) = 3
        BY <1>5, ProgramFacts
      <4>2. 0 \in 0..Len(TypeHeader(message))
        BY <4>1
      <4> QED BY <1>4, <4>2
    <3> QED BY <2>5, <3>1 DEF AtHeader
  <2> QED BY <1>4, <1>5, <2>2, <2>6 DEF Goes, Reading
<1>10. p = 0 \/ p = 1 \/ p = 2
  OBVIOUS
<1> QED BY <1>7, <1>8, <1>9, <1>10

\* Where each of the header's reads begins.
LEMMA HeaderPlaces ==
  ASSUME NEW m, NEW extra
  PROVE  /\ m.flags = Struct => /\ HeaderSize(m, extra) = 18
                                /\ HeaderPlace(m, extra, 0) = 4 /\ HeaderPlace(m, extra, 1) = 8
                                /\ HeaderPlace(m, extra, 2) = 16 /\ HeaderPlace(m, extra, 3) = 18
                                /\ HeaderPlace(m, extra, 4) = 18
         /\ m.flags # Struct => /\ HeaderPlace(m, extra, 0) = 4 /\ HeaderPlace(m, extra, 1) = 8
                                /\ HeaderPlace(m, extra, 2) = HeaderSize(m, extra)
                                /\ HeaderPlace(m, extra, 3) = HeaderSize(m, extra)
<1>1. m.flags = Struct => HeaderSize(m, extra) = 18
  BY DEF HeaderSize, Struct, Protobuf, CCProto
<1>2. 1 # 0 /\ 2 # 0 /\ 3 # 0 /\ 4 # 0 /\ 2 # 1 /\ 3 # 1 /\ 4 # 1 /\ 3 # 2 /\ 4 # 2
  OBVIOUS
<1> QED BY <1>1, <1>2, Zenon DEF HeaderPlace

\* The header's next read leads to the one behind it.
LEMMA HeaderStep ==
  ASSUME CodecTypes, NEW extra \in Extras, NEW n, CutAt(extra, n),
         NEW p \in Nat, NEW part \in Seq(Nat), NEW instead \in Seq(Nat),
         p + 1 < Len(TypeHeader(message)),
         error => ~ whole,
         Taken(part, instead), todo' = Left(AfterType(message), p + 1), outcome' = "reading",
         UNCHANGED <<message, whole, buffer>>,
         ~ error => offset + Len(part) = HeaderPlace(message, extra, p + 1),
         message.flags # Struct /\ p = 0 => part = Uint32(HeaderSize(message, extra) - 8)
  PROVE  Goes(extra)
<1>1. HeaderAt(extra, p + 1)'
  <2>1. error' => ~ whole'
    BY DEF Taken
  <2>2. ~ error' => offset' = HeaderPlace(message', extra, p + 1)
    BY DEF Taken
  <2>3. p + 1 \notin {0, Len(TypeHeader(message'))}
    OBVIOUS
  <2>4. ~ error' /\ p + 1 = 1 /\ message'.flags # Struct =>
          got' # <<>> /\ Last(got') = Uint32(HeaderSize(message', extra) - 8)
    BY DEF Taken
  <2> QED BY <2>1, <2>2, <2>3, <2>4 DEF HeaderAt
<1>2. AtHeader(extra)'
  <2>1. Len(TypeHeader(message)) \in Nat
    <3>1. message \in Messages
      BY DEF CodecTypes
    <3> QED BY <3>1, ProgramFacts
  <2>2. p + 1 \in 0..Len(TypeHeader(message'))
    BY <2>1
  <2> QED BY <1>1, <2>2 DEF AtHeader
<1> QED BY <1>2 DEF Goes, Reading, Taken

\* While the constructor reads the header.
LEMMA HeaderPhase ==
  ASSUME CodecTypes, NEW extra \in Extras, NEW n, CutAt(extra, n), AtHeader(extra), CodecNext
  PROVE  Goes(extra)
<1> DEFINE t == TypeHeader(message)
           a == AfterType(message)
           h == Handler(message.kind)
           b == Sent(message, extra)
           size == HeaderSize(message, extra)
<1>1. PICK p \in 0..Len(t) : HeaderAt(extra, p)
  BY DEF AtHeader
<1>2. message \in Messages /\ offset \in Nat /\ error \in BOOLEAN /\ got \in Pieces
  BY DEF CodecTypes
<1>3. /\ h \in Seq(Ops) /\ Len(h) \in Nat /\ 1 <= Len(h)
      /\ message.flags = Struct => /\ Len(t) = 4 /\ t[1] = "uint32" /\ t[2] = "uint64"
                                   /\ t[3] = "uint16" /\ t[4] = "valid"
      /\ message.flags # Struct => /\ Len(t) = 3 /\ t[1] = "uint32" /\ t[2] = "data"
                                   /\ t[3] = "valid"
      /\ a \in Seq(Ops) /\ Len(a) = Len(t) + 1 + Len(h)
      /\ \A q \in 1..Len(t) : a[q] = t[q]
      /\ a[Len(t) + 1] = "body" /\ Left(a, Len(t) + 1) = h
  BY <1>2, ProgramFacts
<1>4. /\ size \in Nat /\ 8 <= size /\ b \in Seq(Nat) /\ Len(b) \in Nat
      /\ size <= Len(b)
      /\ message.flags # Struct => Has(b, 4, Uint32(size - 8))
  <2>1. /\ size \in Nat /\ 8 <= size /\ b \in Seq(Nat) /\ Len(b) = size + Len(Written(message))
        /\ message.flags # Struct => Has(b, 4, Uint32(size - 8))
    BY <1>2, SentForm
  <2>2. Len(Written(message)) \in Nat
    BY <1>2, WrittenTypes
  <2> HIDE DEF size, b
  <2> QED BY <2>1, <2>2
<1>5. /\ message.flags = Struct => /\ size = 18
                                   /\ HeaderPlace(message, extra, 0) = 4
                                   /\ HeaderPlace(message, extra, 1) = 8
                                   /\ HeaderPlace(message, extra, 2) = 16
                                   /\ HeaderPlace(message, extra, 3) = 18
                                   /\ HeaderPlace(message, extra, 4) = 18
      /\ message.flags # Struct => /\ HeaderPlace(message, extra, 0) = 4
                                   /\ HeaderPlace(message, extra, 1) = 8
                                   /\ HeaderPlace(message, extra, 2) = size
                                   /\ HeaderPlace(message, extra, 3) = size
  BY HeaderPlaces
<1> HIDE DEF t, a, h, b, size
<1>6. Len(t) \in Nat /\ 3 <= Len(t)
  BY <1>3
<1>7. /\ todo = Left(a, p) /\ (p \in {0, Len(t)} => ~ error) /\ (error => ~ whole)
      /\ ~ error => offset = HeaderPlace(message, extra, p)
      /\ ~ error /\ p = 1 /\ message.flags # Struct => got # <<>> /\ Last(got) = Uint32(size - 8)
  BY <1>1 DEF HeaderAt, a, t, size
<1>8. /\ todo # <<>> /\ Head(todo) = a[p + 1]
      /\ Rest => todo' = Left(a, p + 1) /\ outcome' = outcome
  <2>1. p \in Nat /\ p < Len(a)
    BY <1>3, <1>6
  <2> QED BY <1>3, <1>7, <2>1, LeftStep
<1>9. outcome = "reading" /\ UNCHANGED <<message, whole, buffer>> /\ Does(Head(todo))
  BY <1>8, NextDoes
<1>10. CASE p = Len(t)
  <2>1. Head(todo) = "body"
    BY <1>3, <1>8, <1>10
  <2>2. Rest /\ got' = <<>> /\ UNCHANGED <<offset, error>>
    BY <1>9, <2>1 DEF Does
  <2>3. todo' = h /\ outcome' = "reading" /\ ~ error /\ offset = size
    <3>1. offset = HeaderPlace(message, extra, Len(t)) /\ ~ error
      BY <1>7, <1>10
    <3>2. HeaderPlace(message, extra, Len(t)) = size
      BY <1>3, <1>5
    <3> QED BY <1>3, <1>8, <1>9, <1>10, <2>2, <3>1, <3>2
  <2>4. Counted(message, 0) = 0 /\ Place(message, 0) = 0 /\ SubSeq(message.fields, 1, 0) = <<>>
    <3>1. Len(message.fields) \in Nat /\ 1 <= Len(message.fields)
      BY <1>2, FieldTypes
    <3>2. 0 < Len(message.fields) /\ ~ (0 > 2) /\ 0 + 0 = 0
      BY <3>1
    <3>3. Counted(message, 0) = 0
      BY <3>2, Zenon DEF Counted
    <3>4. Reach(message.fields, 0) = 0
      BY DEF Reach
    <3>5. Place(message, 0) = 0
      BY <3>2, <3>3, <3>4, Zenon DEF Place
    <3> QED BY <3>3, <3>5
  <2>5. Left(h, 0) = h
    <3>1. \A s \in Seq(Ops) : SubSeq(s, 0 + 1, Len(s)) = s
      OBVIOUS
    <3> QED BY <1>3, <3>1, Zenon DEF Left
  <2>6. FieldsAt(extra, 0)'
    <3>1. todo' = Left(Handler(message'.kind), 0) /\ 0 < Len(Handler(message'.kind))
      <4>1. 0 < Len(h)
        BY <1>3
      <4> QED BY <1>9, <2>3, <2>5, <4>1 DEF h
    <3>2. ~ error' /\ offset' = HeaderSize(message', extra) + Place(message', 0)
      <4>1. offset' = size + 0
        BY <1>4, <2>2, <2>3
      <4> QED BY <1>9, <2>2, <2>3, <2>4, <4>1 DEF size
    <3>3. got' = SubSeq(message'.fields, 1, Counted(message', 0)) /\ Len(got') = 0
      <4>1. Len(<<>>) = 0
        OBVIOUS
      <4> QED BY <1>9, <2>2, <2>4, <4>1
    <3>4. 0 = 0 /\ ~ error' /\ got' = <<>> /\ offset' = HeaderSize(message', extra)
      BY <1>9, <2>2, <2>3 DEF size
    <3> QED BY <3>1, <3>2, <3>3, <3>4 DEF FieldsAt
  <2>7. AtFields(extra)'
    <3>1. 0 \in 0..Len(h)
      BY <1>3
    <3>2. 0 \in 0..Len(Handler(message'.kind))
      BY <1>9, <3>1 DEF h
    <3> QED BY <2>6, <3>2 DEF AtFields
  <2>8. got' \in Pieces
    BY <2>2 DEF Pieces
  <2> QED BY <1>2, <1>9, <2>2, <2>3, <2>7, <2>8 DEF Goes, Reading
<1>11. CASE p = Len(t) - 1
  <2>1. Head(todo) = "valid"
    <3>1. p + 1 \in 1..Len(t) /\ p + 1 = Len(t)
      BY <1>6, <1>11
    <3> QED BY <1>3, <1>8, <3>1
  <2>2. CASE error
    <3>1. outcome' = "ignored" /\ UNCHANGED <<offset, error, got>>
      BY <1>9, <2>1, <2>2 DEF Does
    <3> QED BY <1>2, <1>7, <1>9, <2>2, <3>1 DEF Goes
  <2>3. CASE ~ error
    <3>1. Rest /\ UNCHANGED <<offset, error, got>>
      BY <1>9, <2>1, <2>3 DEF Does
    <3>2. todo' = Left(a, Len(t)) /\ outcome' = "reading"
      <4>1. p + 1 = Len(t)
        BY <1>6, <1>11
      <4> QED BY <1>8, <1>9, <3>1, <4>1
    <3>3. offset = HeaderPlace(message, extra, p + 1)
      <4>1. CASE message.flags = Struct
        <5>1. p = 3 /\ p + 1 = 4
          BY <1>3, <1>11, <4>1
        <5> QED BY <1>5, <1>7, <2>3, <4>1, <5>1, Zenon
      <4>2. CASE message.flags # Struct
        <5>1. p = 2 /\ p + 1 = 3
          BY <1>3, <1>11, <4>2
        <5> QED BY <1>5, <1>7, <2>3, <4>2, <5>1, Zenon
      <4> QED BY <4>1, <4>2
    <3>4. HeaderAt(extra, p + 1)'
      <4>1. t = TypeHeader(message') /\ a = AfterType(message')
        BY <1>9 DEF t, a
      <4>2. ~ error' /\ offset' = HeaderPlace(message', extra, p + 1) /\ p + 1 # 1
        BY <1>6, <1>9, <1>11, <2>3, <3>1, <3>3
      <4>3. todo' = Left(a, p + 1)
        BY <1>8, <3>1
      <4> QED BY <4>1, <4>2, <4>3 DEF HeaderAt
    <3>5. AtHeader(extra)'
      <4>1. p + 1 \in 0..Len(t)
        BY <1>6, <1>11
      <4>2. p + 1 \in 0..Len(TypeHeader(message'))
        BY <1>9, <4>1 DEF t
      <4> QED BY <3>4, <4>2 DEF AtHeader
    <3> QED BY <1>2, <1>9, <3>1, <3>2, <3>5 DEF Goes, Reading
  <2> QED BY <2>2, <2>3
<1>12. CASE p < Len(t) - 1
  <2>1. p + 1 < Len(t) /\ p + 1 \in 1..Len(t) /\ p \in Nat
    BY <1>6, <1>12
  <2>2. Head(todo) = t[p + 1]
    BY <1>3, <1>8, <2>1
  <2>3. Rest => todo' = Left(a, p + 1) /\ outcome' = "reading"
    BY <1>8, <1>9
  <2>4. ASSUME NEW part \in Seq(Nat), NEW instead \in Seq(Nat), Rest, Taken(part, instead),
               ~ error => offset + Len(part) = HeaderPlace(message, extra, p + 1),
               message.flags # Struct /\ p = 0 => part = Uint32(size - 8)
        PROVE  Goes(extra)
    <3>1. todo' = Left(AfterType(message), p + 1) /\ outcome' = "reading"
      BY <2>3, <2>4 DEF a
    <3>2. p + 1 < Len(TypeHeader(message))
      BY <2>1 DEF t
    <3> QED BY <1>7, <1>9, <2>1, <2>4, <3>1, <3>2, HeaderStep DEF size
  <2>5. CASE message.flags = Struct
    <3>1. /\ t[p + 1] \in {"uint16", "uint32", "uint64"}
          /\ HeaderPlace(message, extra, p) \in Nat
          /\ HeaderPlace(message, extra, p + 1) = HeaderPlace(message, extra, p) + Width[t[p + 1]]
          /\ HeaderPlace(message, extra, p + 1) <= 18 /\ Width[t[p + 1]] \in Nat
      <4>0. /\ 0 + 1 = 1 /\ 1 + 1 = 2 /\ 2 + 1 = 3 /\ 4 \in Nat /\ 8 \in Nat /\ 16 \in Nat /\ 2 \in Nat
            /\ 8 = 4 + 4 /\ 16 = 8 + 8 /\ 18 = 16 + 2 /\ 8 <= 18 /\ 16 <= 18 /\ 18 <= 18
        OBVIOUS
      <4>1. CASE p = 0
        BY <1>3, <1>5, <2>5, <4>0, <4>1, ZeroWidth, ZenonT(30)
      <4>2. CASE p = 1
        BY <1>3, <1>5, <2>5, <4>0, <4>2, ZeroWidth, ZenonT(30)
      <4>3. CASE p = 2
        BY <1>3, <1>5, <2>5, <4>0, <4>3, ZeroWidth, ZenonT(30)
      <4>4. p = 0 \/ p = 1 \/ p = 2
        <5>1. Len(t) = 4
          BY <1>3, <2>5
        <5> QED BY <2>1, <5>1
      <4> QED BY <4>1, <4>2, <4>3, <4>4
    <3> DEFINE op == t[p + 1]
               zero == [i \in 1..Width[op] |-> 0]
    <3>2. Rest /\ ReadData(Width[op], zero) /\ zero \in Seq(Nat)
      <4>1. Head(todo) = op
        BY <2>2
      <4> HIDE DEF op
      <4> QED BY <1>9, <3>1, <4>1, ZeroWidth DEF Does, op
    <3>3. PICK part \in Seq(Nat) : Len(part) = Width[op] /\ Has(b, HeaderPlace(message, extra, p), part)
      <4>1. HeaderPlace(message, extra, p) + Width[op] <= Len(b)
        <5>1. HeaderPlace(message, extra, p) + Width[op] <= 18
          BY <3>1
        <5>2. 18 <= Len(b)
          BY <1>4, <1>5, <2>5
        <5> HIDE DEF op
        <5> QED BY <1>4, <3>1, <5>1, <5>2, SMTT(30) DEF op
      <4> QED BY <1>4, <3>1, <4>1, AnyPart
    <3> HIDE DEF op, zero
    <3>4. Taken(part, zero)
      <4>1. ~ error => Width[op] = Len(part) /\ Has(Sent(message, extra), offset, part)
        BY <1>7, <3>3 DEF b
      <4> QED BY <3>2, <4>1, ReadTakes
    <3>5. ~ error => offset + Len(part) = HeaderPlace(message, extra, p + 1)
      BY <1>7, <3>1, <3>3 DEF op
    <3> QED BY <2>4, <2>5, <3>2, <3>4, <3>5
  <2>6. CASE message.flags # Struct /\ p = 0
    <3> DEFINE part == Uint32(size - 8)
               zero == [i \in 1..Width["uint32"] |-> 0]
    <3>1. part \in Seq(Nat) /\ Len(part) = 4
      <4>1. size - 8 \in Nat
        BY <1>4
      <4> QED BY <4>1, NumberFacts
    <3>2. Rest /\ ReadData(4, zero) /\ zero \in Seq(Nat)
      <4>1. Head(todo) = "uint32"
        BY <1>3, <2>2, <2>6
      <4> QED BY <1>9, <4>1, ZeroWidth DEF Does
    <3> HIDE DEF part, zero
    <3>3. ~ error /\ offset = 4
      BY <1>5, <1>7, <2>6
    <3>4. Taken(part, zero)
      <4>1. 4 = Len(part) /\ Has(Sent(message, extra), offset, part)
        BY <1>4, <2>6, <3>1, <3>3 DEF b, part
      <4> QED BY <3>1, <3>2, <4>1, ReadTakes
    <3>5. offset + Len(part) = HeaderPlace(message, extra, p + 1)
      <4>1. HeaderPlace(message, extra, p + 1) = 8
        BY <1>5, <2>6
      <4> QED BY <3>1, <3>3, <4>1
    <3> QED BY <2>4, <3>1, <3>2, <3>4, <3>5 DEF part
  <2>7. CASE message.flags # Struct /\ p = 1
    <3>1. Rest /\ ReadData(Number32(Last(got)), <<>>) /\ <<>> \in Seq(Nat)
      <4>1. Head(todo) = "data"
        BY <1>3, <2>2, <2>7
      <4> QED BY <1>9, <4>1 DEF Does
    <3>2. PICK part \in Seq(Nat) : Len(part) = size - 8 /\ Has(b, 8, part)
      <4>1. size - 8 \in Nat /\ 8 \in Nat /\ 8 + (size - 8) <= Len(b)
        BY <1>4
      <4> QED BY <1>4, <4>1, AnyPart
    <3>3. ~ error => offset = 8 /\ Number32(Last(got)) = size - 8
      <4>1. size - 8 \in Nat
        BY <1>4
      <4>2. Number32(Uint32(size - 8)) = size - 8
        BY <4>1, NumberFacts
      <4> QED BY <1>5, <1>7, <2>7, <4>2
    <3>4. Taken(part, <<>>)
      <4>1. ~ error => Number32(Last(got)) = Len(part) /\ Has(Sent(message, extra), offset, part)
        BY <3>2, <3>3 DEF b
      <4> QED BY <3>1, <4>1, ReadTakes
    <3>5. ~ error => offset + Len(part) = HeaderPlace(message, extra, p + 1)
      <4>1. HeaderPlace(message, extra, p + 1) = size
        <5>1. 1 + 1 = 2
          OBVIOUS
        <5> QED BY <1>5, <2>7, <5>1, Zenon
      <4>2. 8 + (size - 8) = size
        BY <1>4
      <4>3. ~ error => offset + Len(part) = 8 + (size - 8)
        BY <3>2, <3>3
      <4> QED BY <4>1, <4>2, <4>3
    <3>6. p # 0 /\ part \in Seq(Nat) /\ <<>> \in Seq(Nat) /\ Rest
      BY <2>7, <3>1
    <3> QED BY <2>4, <3>4, <3>5, <3>6, Zenon
  <2>8. message.flags # Struct => p = 0 \/ p = 1
    BY <1>3, <2>1, SMTT(30)
  <2> QED BY <2>5, <2>6, <2>7, <2>8
<1>13. p = Len(t) \/ p = Len(t) - 1 \/ p < Len(t) - 1
  BY <1>6
<1> QED BY <1>10, <1>11, <1>12, <1>13

-----------------------------------------------------------------------------
(* The fields.                                                             *)

\* The next element appended to those before it.
LEMMA AppendSub ==
  ASSUME NEW S, NEW s \in Seq(S), NEW c \in Nat, c < Len(s)
  PROVE  Append(SubSeq(s, 1, c), s[c + 1]) = SubSeq(s, 1, c + 1)
<1> DEFINE l == SubSeq(s, 1, c)
           w == SubSeq(s, 1, c + 1)
           x == s[c + 1]
           v == Append(l, x)
<1>1. /\ 1 \in 1..(Len(s) + 1) /\ c \in (1 - 1)..Len(s) /\ c + 1 \in (1 - 1)..Len(s)
      /\ c - 1 + 1 = c /\ (c + 1) - 1 + 1 = c + 1 /\ \A k \in 1..(c + 1) : 1 + k - 1 = k
      /\ c + 1 \in 1..Len(s) /\ s \in Seq(S)
  OBVIOUS
<1>2. /\ l \in Seq(S) /\ Len(l) = c - 1 + 1 /\ \A k \in 1..(c - 1 + 1) : l[k] = s[1 + k - 1]
  BY ONLY <1>1, SubSeqFacts
<1>3. /\ w \in Seq(S) /\ Len(w) = (c + 1) - 1 + 1
      /\ \A k \in 1..((c + 1) - 1 + 1) : w[k] = s[1 + k - 1]
  BY ONLY <1>1, SubSeqFacts
<1>4. x \in S
  BY <1>1
<1> HIDE DEF l, w, x
<1>5. /\ v \in Seq(S) /\ Len(v) = Len(l) + 1 /\ (\A k \in 1..Len(l) : v[k] = l[k]) /\ v[Len(l) + 1] = x
  BY ONLY <1>2, <1>4, AppendFacts
<1> HIDE DEF v
<1>6. Len(l) = c /\ Len(w) = c + 1 /\ Len(v) = c + 1
  BY <1>1, <1>2, <1>3, <1>5
<1>7. \A k \in 1..(c + 1) : w[k] = s[k]
  BY <1>1, <1>3
<1>8. ASSUME NEW k \in 1..(c + 1) PROVE v[k] = w[k]
  <2>1. CASE k = c + 1
    BY <1>5, <1>6, <1>7, <2>1 DEF x
  <2>2. CASE k \in 1..c
    <3>1. v[k] = l[k] /\ l[k] = s[1 + k - 1] /\ 1 + k - 1 = k
      BY <1>1, <1>2, <1>5, <1>6, <2>2
    <3> QED BY <1>7, <3>1
  <2> QED BY <2>1, <2>2
<1>9. v = w
  BY ONLY <1>3, <1>5, <1>6, <1>8, SeqEqual
<1> QED BY <1>9 DEF v, w, l, x

\* The reads of all handlers but two.
LEMMA HandlerSteps ==
  ASSUME NEW m \in Messages, m.kind \notin {"craft", "other"},
         NEW p \in 0..(Len(Handler(m.kind)) - 1)
  PROVE  LET h == Handler(m.kind)
             w == Written(m)
             c == Counted(m, p)
             f == m.fields
         IN  /\ h \in Seq(Ops) /\ Len(h) \in Nat /\ 1 <= Len(h) /\ h[Len(h)] = "valid"
             /\ \/ ReadsField(m, p, h[p + 1])
                \/ /\ h[p + 1] = "skip" /\ Counted(m, p + 1) = c
                   /\ Place(m, p) \in Nat /\ Place(m, p + 1) = Place(m, p) + 1
                   /\ Place(m, p) + 1 <= Len(w)
                \/ /\ h[p + 1] = "string" /\ FieldAt(m, p, 1)
                   /\ \A k \in 1..Len(f[c + 1]) : f[c + 1][k] # 0
                   /\ Place(m, p) + Len(f[c + 1]) + 1 <= Len(w)
                   /\ w[Place(m, p) + Len(f[c + 1]) + 1] = 0
                \/ /\ h[p + 1] = "valid" /\ p + 1 = Len(h)
                   /\ c = Len(f) /\ Counted(m, p + 1) = c
                   /\ Place(m, p + 1) = Place(m, p)
<1> DEFINE h == Handler(m.kind)
<1>0. h \in Seq(Ops) /\ Len(h) \in Nat /\ 1 <= Len(h)
  BY ProgramFacts
<1>1. CASE IsNaming(m)
  <2>1. Len(h) = 5 /\ h[5] = "valid"
    BY <1>1, NamingHandler
  <2>2. p \in 0..4
    BY <2>1
  <2> QED BY <1>0, <1>1, <2>1, <2>2, NamingSteps
<1>2. CASE ~ IsNaming(m)
  <2>1. h[Len(h)] = "valid"
    BY <1>2, PlainHandler
  <2> QED BY <1>0, <1>2, <2>1, PlainSteps
<1> QED BY <1>1, <1>2

\* After the last read there are all the fields.
LEMMA CountedAll ==
  ASSUME NEW m \in Messages, m.kind \notin {"craft", "other"}
  PROVE  Counted(m, Len(Handler(m.kind))) = Len(m.fields)
<1> DEFINE h == Handler(m.kind)
           p == Len(h) - 1
<1>1. Len(h) \in Nat /\ 1 <= Len(h)
  BY ProgramFacts
<1>2. p \in 0..(Len(h) - 1) /\ p + 1 = Len(h)
  BY <1>1
<1> HIDE DEF p
<1>3. h[Len(h)] = "valid"
  BY <1>2, HandlerSteps
<1>4. ~ ReadsField(m, p, h[p + 1])
  BY <1>2, <1>3 DEF ReadsField
<1> QED BY <1>2, <1>3, <1>4, HandlerSteps

\* Where a field is in the message.
LEMMA FieldIsThere ==
  ASSUME NEW m \in Messages, NEW extra \in Extras, NEW p, NEW more, FieldAt(m, p, more)
  PROVE  LET part == m.fields[Counted(m, p) + 1] IN
         /\ part \in Seq(Nat) /\ Len(part) \in Nat
         /\ Has(Sent(m, extra), HeaderSize(m, extra) + Place(m, p), part)
<1> DEFINE part == m.fields[Counted(m, p) + 1]
           b == Sent(m, extra)
           size == HeaderSize(m, extra)
           w == Written(m)
           o == Place(m, p)
<1>1. part \in Seq(Nat) /\ Len(part) \in Nat
  BY FieldTypes, PiecesFacts DEF FieldAt
<1>2. size \in Nat /\ b \in Seq(Nat) /\ Has(b, size, w)
  BY SentForm
<1>3. w \in Seq(Nat) /\ o \in Nat /\ Has(w, o, part)
  BY WrittenTypes DEF FieldAt
<1> HIDE DEF part, b, size, w, o
<1>4. Has(b, size + o, part)
  BY ONLY <1>1, <1>2, <1>3, HasWithin
<1> QED BY <1>1, <1>4 DEF part, b, size, w, o

\* A field that has been read.
LEMMA FieldTaken ==
  ASSUME CodecTypes, NEW extra \in Extras, NEW p \in Nat, FieldsAt(extra, p),
         FieldAt(message, p, 0), NEW instead,
         Taken(message.fields[Counted(message, p) + 1], instead), ~ error'
  PROVE  /\ offset' = HeaderSize(message, extra) + Place(message, p + 1)
         /\ got' = SubSeq(message.fields, 1, Counted(message, p + 1))
<1> DEFINE f == message.fields
           c == Counted(message, p)
           part == f[c + 1]
           size == HeaderSize(message, extra)
           o == Place(message, p)
<1>0. message \in Messages
  BY DEF CodecTypes
<1>1. ~ error
  BY DEF Taken
<1>2. offset = size + o /\ got = SubSeq(f, 1, c)
  BY <1>1 DEF FieldsAt
<1>3. offset' = offset + Len(part) /\ got' = Append(got, part)
  BY DEF Taken
<1>4. /\ c + 1 \in 1..Len(f) /\ Counted(message, p + 1) = c + 1
      /\ o \in Nat /\ Place(message, p + 1) = o + Len(part) + 0
  BY DEF FieldAt
<1>5. f \in Seq(Seq(Nat)) /\ Len(f) \in Nat
  BY <1>0, FieldTypes DEF Pieces
<1>6. Len(part) \in Nat /\ size \in Nat
  BY <1>0, FieldIsThere, SentForm
<1>7. c \in Nat
  <2>1. p \in Nat /\ 2 \in Nat /\ 3 \in Nat
    OBVIOUS
  <2> QED BY <1>5, <2>1, Zenon DEF Counted
<1> HIDE DEF f, part, size, o, c
<1>8. offset' = size + Place(message, p + 1)
  BY <1>2, <1>3, <1>4, <1>6
<1>9. Append(SubSeq(f, 1, c), f[c + 1]) = SubSeq(f, 1, c + 1)
  <2>1. c < Len(f)
    BY <1>4, <1>5, <1>7
  <2> QED BY ONLY <1>5, <1>7, <2>1, AppendSub
<1>10. got' = SubSeq(f, 1, Counted(message, p + 1))
  BY <1>2, <1>3, <1>4, <1>9 DEF part
<1> QED BY <1>8, <1>10 DEF f, size

\* The handler's next read leads to the one behind it.
LEMMA FieldStep ==
  ASSUME CodecTypes, NEW extra \in Extras, NEW p \in 0..(Len(Handler(message.kind)) - 1),
         UNCHANGED <<message, whole, buffer>>, message.flags = Struct,
         offset' \in Nat, error' \in BOOLEAN, got' \in Pieces,
         todo' = Left(Handler(message.kind), p + 1), outcome' = "reading",
         message.kind \in {"craft", "other"} => p + 1 < Len(Handler(message.kind)),
         error' => ~ whole /\ p + 1 < Len(Handler(message.kind)),
         ~ error' => /\ offset' = HeaderSize(message, extra) + Place(message, p + 1)
                     /\ got' = SubSeq(message.fields, 1, Counted(message, p + 1)),
         message.kind = "craft" => Len(got') = p + 1 /\ (error' => Last(got') = <<0, 0>>)
  PROVE  Goes(extra)
<1>1. FieldsAt(extra, p + 1)'
  <2>1. p + 1 > 0
    OBVIOUS
  <2> QED BY <2>1 DEF FieldsAt
<1>2. AtFields(extra)'
  <2>1. Len(Handler(message.kind)) \in Nat
    BY ProgramFacts DEF CodecTypes
  <2>2. p + 1 \in 0..Len(Handler(message'.kind))
    BY <2>1
  <2> QED BY <1>1, <2>2 DEF AtFields
<1> QED BY <1>2 DEF Goes, Reading

\* Only protobuf messages are read to the end at once.
LEMMA RestKinds ==
  ASSUME NEW m \in Messages, NEW p \in 1..Len(Handler(m.kind)), Handler(m.kind)[p] = "rest"
  PROVE  m.kind \in {"request", "answer"}
<1> SUFFICES ASSUME m.kind \notin {"request", "answer"} PROVE Handler(m.kind)[p] # "rest"
  OBVIOUS
<1>1. MessageForm(m)
  BY FormOf
<1>2. CASE IsNaming(m)
  <2>1. Len(Handler(m.kind)) = 5
    BY <1>2, NamingHandler
  <2>2. \A q \in 1..5 : q = 1 \/ q = 2 \/ q = 3 \/ q = 4 \/ q = 5
    OBVIOUS
  <2>3. /\ Handler(m.kind)[1] = "uint64" /\ Handler(m.kind)[2] # "rest" /\ Handler(m.kind)[3] = "skip"
        /\ Handler(m.kind)[4] = "string" /\ Handler(m.kind)[5] = "valid"
    BY <1>2 DEF IsNaming, Handler
  <2> QED BY <2>1, <2>2, <2>3
<1>3. CASE m.kind = "unlock"
  BY <1>3 DEF Handler
<1>4. CASE m.kind \in {"removeName", "delete"}
  BY <1>4 DEF Handler
<1>5. CASE m.kind = "connect"
  BY <1>5 DEF Handler
<1>6. CASE m.kind = "craft"
  BY <1>6 DEF Handler
<1>7. CASE m.kind = "other"
  BY <1>7 DEF Handler
<1>8. m.kind \in {"unlock", "name", "nameBase", "removeName", "delete", "craft", "connect", "other"}
  BY <1>1 DEF MessageForm
<1> QED BY <1>2, <1>3, <1>4, <1>5, <1>6, <1>7, <1>8 DEF IsNaming

\* While a handler reads the fields of a struct message.
LEMMA FieldsPhase ==
  ASSUME CodecTypes, NEW extra \in Extras, NEW n, CutAt(extra, n),
         NEW p \in 0..(Len(Handler(message.kind)) - 1), FieldsAt(extra, p),
         message.kind \notin {"craft", "other"}, message.flags = Struct, CodecNext
  PROVE  Goes(extra)
<1> DEFINE h == Handler(message.kind)
           f == message.fields
           c == Counted(message, p)
           part == f[c + 1]
           b == Sent(message, extra)
           size == HeaderSize(message, extra)
           w == Written(message)
           o == Place(message, p)
<1>1. message \in Messages /\ offset \in Nat /\ error \in BOOLEAN /\ got \in Pieces
  BY DEF CodecTypes
<1>2. /\ h \in Seq(Ops) /\ Len(h) \in Nat /\ 1 <= Len(h) /\ h[Len(h)] = "valid"
      /\ \/ ReadsField(message, p, h[p + 1])
         \/ /\ h[p + 1] = "skip" /\ Counted(message, p + 1) = c
            /\ o \in Nat /\ Place(message, p + 1) = o + 1
            /\ o + 1 <= Len(w)
         \/ /\ h[p + 1] = "string" /\ FieldAt(message, p, 1)
            /\ \A k \in 1..Len(part) : part[k] # 0
            /\ o + Len(part) + 1 <= Len(w)
            /\ w[o + Len(part) + 1] = 0
         \/ /\ h[p + 1] = "valid" /\ p + 1 = Len(h)
            /\ c = Len(f) /\ Counted(message, p + 1) = c
            /\ Place(message, p + 1) = o
  BY <1>1, HandlerSteps
<1>3. /\ size \in Nat /\ b \in Seq(Nat) /\ Len(b) = size + Len(w) /\ Has(b, size, w)
      /\ w \in Seq(Nat) /\ Len(w) \in Nat
  BY <1>1, SentForm, WrittenTypes
<1>4. f \in Seq(Seq(Nat)) /\ Len(f) \in Nat
  BY <1>1, FieldTypes DEF Pieces
<1>5. /\ todo = Left(h, p) /\ (error => ~ whole)
      /\ ~ error => offset = size + o /\ got = SubSeq(f, 1, c)
  BY DEF FieldsAt
<1>6. p \in Nat /\ p < Len(h) /\ p + 1 <= Len(h) /\ p \in 0..(Len(Handler(message.kind)) - 1)
  BY <1>2
<1> HIDE DEF h, f, c, b, size, w, o
<1>7. /\ todo # <<>> /\ Head(todo) = h[p + 1]
      /\ Rest => todo' = Left(h, p + 1) /\ outcome' = outcome
  BY <1>2, <1>5, <1>6, LeftStep
<1>8. outcome = "reading" /\ UNCHANGED <<message, whole, buffer>> /\ Does(h[p + 1])
  BY <1>7, NextDoes
<1>9. h[p + 1] # "valid" => p + 1 < Len(h)
  BY <1>2, <1>6
<1>10. ASSUME Rest, h[p + 1] # "valid", offset' \in Nat, error' \in BOOLEAN, got' \in Pieces,
              error' => ~ whole,
              ~ error' => /\ offset' = size + Place(message, p + 1)
                          /\ got' = SubSeq(f, 1, Counted(message, p + 1))
       PROVE  Goes(extra)
  <2>1. todo' = Left(Handler(message.kind), p + 1) /\ outcome' = "reading"
    BY <1>7, <1>8, <1>10 DEF h
  <2>2. error' => ~ whole /\ p + 1 < Len(Handler(message.kind))
    BY <1>9, <1>10 DEF h
  <2>3. message.kind \notin {"craft", "other"}
    OBVIOUS
  <2> QED BY <1>6, <1>8, <1>10, <2>1, <2>2, <2>3, FieldStep DEF f, size
<1>11. CASE ReadsField(message, p, h[p + 1])
  <2>1. FieldAt(message, p, 0)
    BY <1>11 DEF ReadsField
  <2>2. part \in Seq(Nat) /\ Len(part) \in Nat /\ Has(b, size + o, part)
    BY <1>1, <2>1, FieldIsThere DEF f, c, b, size, o
  <2>3. h[p + 1] # "valid" /\ h[p + 1] \in {"uint32", "uint64", "data"}
    <3>1. h[p + 1] \in {"uint32", "uint64", "data", "rest"}
      BY <1>11 DEF ReadsField
    <3>2. ASSUME h[p + 1] = "rest" PROVE FALSE
      <4>1. p + 1 \in 1..Len(h)
        BY <1>2, <1>6
      <4>2. message.kind \in {"request", "answer"}
        BY <1>1, <3>2, <4>1, RestKinds DEF h
      <4>3. MessageForm(message)
        BY <1>1, FormOf
      <4> QED BY <4>2, <4>3 DEF MessageForm, Struct, Protobuf, CCProto
    <3> QED BY <3>1, <3>2
  <2>4. Rest
    BY <1>8, <2>3 DEF Does
  <2>5. \E instead \in Seq(Nat) : Taken(part, instead)
    <3>1. CASE h[p + 1] \in {"uint32", "uint64"}
      <4> DEFINE op == h[p + 1]
                 zero == [i \in 1..Width[op] |-> 0]
      <4>1. ReadData(Width[op], zero) /\ zero \in Seq(Nat)
        BY <1>8, <3>1, ZeroWidth DEF Does
      <4>2. Width[op] = Len(part)
        BY <1>11, <3>1 DEF ReadsField, f, c
      <4> HIDE DEF op, zero, part
      <4>3. ~ error => Width[op] = Len(part) /\ Has(Sent(message, extra), offset, part)
        BY <1>5, <2>2, <4>2 DEF b
      <4>4. Taken(part, zero)
        BY <2>2, <4>1, <4>3, ReadTakes
      <4> QED BY <4>1, <4>4
    <3>2. CASE h[p + 1] = "data"
      <4>1. ReadData(Number32(Last(got)), <<>>) /\ <<>> \in Seq(Nat)
        BY <1>8, <3>2 DEF Does
      <4>2. c \in 1..Len(f) /\ f[c] = SizeOf(part)
        BY <1>11, <3>2 DEF ReadsField, f, c
      <4> HIDE DEF part
      <4>3. ~ error => Number32(Last(got)) = Len(part)
        <5>1. Number32(SizeOf(part)) = Len(part)
          BY <2>2, NumberFacts DEF SizeOf
        <5>2. Last(SubSeq(f, 1, c)) = f[c]
          <6> DEFINE l == SubSeq(f, 1, c)
          <6>1. /\ 1 \in 1..(Len(f) + 1) /\ c \in (1 - 1)..Len(f) /\ c - 1 + 1 = c /\ 1 + c - 1 = c
                /\ c \in 1..(c - 1 + 1) /\ f \in Seq(Seq(Nat))
            BY <1>4, <4>2
          <6>2. Len(l) = c - 1 + 1 /\ \A k \in 1..(c - 1 + 1) : l[k] = f[1 + k - 1]
            BY ONLY <6>1, SubSeqFacts
          <6> HIDE DEF l
          <6>3. l[Len(l)] = f[c]
            BY <6>1, <6>2
          <6> QED BY <6>3 DEF Last, l
        <5> QED BY <1>5, <4>2, <5>1, <5>2
      <4>4. ~ error => Number32(Last(got)) = Len(part) /\ Has(Sent(message, extra), offset, part)
        BY <1>5, <2>2, <4>3 DEF b
      <4>5. Taken(part, <<>>)
        BY <2>2, <4>1, <4>4, ReadTakes
      <4> QED BY <4>1, <4>5
    <3> QED BY <2>3, <3>1, <3>2
  <2>6. PICK instead \in Seq(Nat) : Taken(part, instead)
    BY <2>5
  <2>7. ~ error' => /\ offset' = size + Place(message, p + 1)
                    /\ got' = SubSeq(f, 1, Counted(message, p + 1))
    BY <1>6, <2>1, <2>6, FieldTaken DEF f, c, size
  <2>8. offset' \in Nat /\ error' \in BOOLEAN /\ got' \in Pieces /\ (error' => ~ whole)
    BY <1>5, <2>6 DEF Taken
  <2> QED BY <1>10, <2>3, <2>4, <2>7, <2>8
<1>12. CASE /\ h[p + 1] = "skip" /\ Counted(message, p + 1) = c
            /\ o \in Nat /\ Place(message, p + 1) = o + 1 /\ o + 1 <= Len(w)
  <2>1. Rest /\ PassOver(1)
    BY <1>8, <1>12 DEF Does
  <2>2. /\ offset' \in Nat /\ error' \in BOOLEAN /\ got' = got /\ (error => error')
        /\ error' => error \/ n < Len(b)
        /\ ~ error' => offset' = offset + 1
    <3>1. Cut(b, n) /\ 1 \in Nat
      BY CutIsCut DEF b
    <3>2. ~ error => offset + 1 <= Len(b)
      BY <1>3, <1>5, <1>12
    <3> QED BY <1>1, <2>1, <3>1, <3>2, PassPart
  <2>3. error' => ~ whole
    BY <1>5, <2>2, CutIsCut DEF b
  <2>4. ~ error' => /\ offset' = size + Place(message, p + 1)
                    /\ got' = SubSeq(f, 1, Counted(message, p + 1))
    <3>1. size + o + 1 = size + (o + 1)
      BY <1>3, <1>12
    <3> QED BY <1>5, <1>12, <2>2, <3>1
  <2>5. h[p + 1] # "valid" /\ got' \in Pieces
    BY <1>1, <1>12, <2>2
  <2> QED BY <1>10, <2>1, <2>2, <2>3, <2>4, <2>5
<1>13. CASE /\ h[p + 1] = "string" /\ FieldAt(message, p, 1)
            /\ \A k \in 1..Len(part) : part[k] # 0
            /\ o + Len(part) + 1 <= Len(w)
            /\ w[o + Len(part) + 1] = 0
  <2>1. part \in Seq(Nat) /\ Len(part) \in Nat /\ Has(b, size + o, part)
    BY <1>1, <1>13, FieldIsThere DEF f, c, b, size, o
  <2>2. /\ o \in Nat /\ c + 1 \in 1..Len(f) /\ Counted(message, p + 1) = c + 1
        /\ Place(message, p + 1) = o + Len(part) + 1
    BY <1>13 DEF FieldAt, o, c, f
  <2>3. Rest /\ ReadToZero /\ h[p + 1] # "valid"
    BY <1>8, <1>13 DEF Does
  <2>4. Cut(b, n) /\ (n < Len(b) => ~ whole)
    BY CutIsCut DEF b
  <2> HIDE DEF part
  <2>5. CASE ~ error
    <3>1. offset = size + o /\ got = SubSeq(f, 1, c) /\ error = FALSE
      BY <1>1, <1>5, <2>5
    <3>2. /\ offset + Len(part) + 1 <= Len(b)
          /\ b[offset + Len(part) + 1] = 0
      <4>1. /\ o + Len(part) + 1 \in 1..Len(w) /\ size + (o + Len(part) + 1) = offset + Len(part) + 1
        BY <1>3, <1>13, <2>1, <2>2, <3>1
      <4>2. b[size + (o + Len(part) + 1)] = w[o + Len(part) + 1]
        BY <1>3, <4>1 DEF Has
      <4>3. offset + Len(part) + 1 <= size + Len(w)
        BY <1>3, <4>1
      <4> QED BY <1>3, <1>13, <4>1, <4>2, <4>3
    <3>3. /\ offset' \in Nat /\ error' \in BOOLEAN
          /\ error' => n < Len(b)
          /\ ~ error' => offset' = offset + Len(part) + 1 /\ got' = Append(got, part)
      <4>1. Has(b, offset, part) /\ \A k \in 1..Len(part) : part[k] # 0
        BY <1>13, <2>1, <3>1
      <4> QED BY <1>1, <2>1, <2>3, <2>4, <3>1, <3>2, <4>1, ReadName
    <3>4. ~ error' => /\ offset' = size + Place(message, p + 1)
                      /\ got' = SubSeq(f, 1, Counted(message, p + 1))
      <4>1. size + o + Len(part) + 1 = size + (o + Len(part) + 1)
        BY <1>3, <2>1, <2>2
      <4>2. Append(SubSeq(f, 1, c), f[c + 1]) = SubSeq(f, 1, c + 1)
        <5>1. c \in Nat
          <6>1. 2 \in Nat /\ 3 \in Nat
            OBVIOUS
          <6> QED BY <1>4, <1>6, <6>1, Zenon DEF Counted, c, f
        <5>2. c < Len(f)
          BY <1>4, <2>2, <5>1
        <5> QED BY ONLY <1>4, <5>1, <5>2, AppendSub
      <4> QED BY <2>2, <3>1, <3>3, <4>1, <4>2 DEF part
    <3>5. got' \in Pieces
      <4>1. \A x \in Seq(Nat) : Append(got, x) \in Seq(Seq(Nat)) /\ <<>> \in Seq(Nat)
        BY <1>1, AppendFacts DEF Pieces
      <4>2. got' = Append(got, <<>>) \/ got' \in {Append(got, part)}
        BY <2>3, <3>3 DEF ReadToZero
      <4> QED BY <2>1, <4>1, <4>2 DEF Pieces
    <3> QED BY <1>10, <2>3, <2>4, <3>3, <3>4, <3>5
  <2>6. CASE error
    <3>1. error' = TRUE /\ got' = Append(got, <<>>) /\ offset' = offset
      BY <2>3, <2>6 DEF ReadToZero
    <3>2. got' \in Pieces
      <4>1. \A x \in Seq(Nat) : Append(got, x) \in Seq(Seq(Nat)) /\ <<>> \in Seq(Nat)
        BY <1>1, AppendFacts DEF Pieces
      <4>2. <<>> \in Seq(Nat)
        OBVIOUS
      <4> QED BY <3>1, <4>1, <4>2 DEF Pieces
    <3> QED BY <1>1, <1>5, <1>10, <2>3, <2>6, <3>1, <3>2
  <2> QED BY <2>5, <2>6
<1>14. CASE /\ h[p + 1] = "valid" /\ p + 1 = Len(h)
            /\ c = Len(f) /\ Counted(message, p + 1) = c
            /\ Place(message, p + 1) = o
  <2>1. CASE error
    <3>1. outcome' = "ignored" /\ UNCHANGED <<offset, error, got>>
      BY <1>8, <1>14, <2>1 DEF Does
    <3> QED BY <1>1, <1>5, <1>8, <2>1, <3>1 DEF Goes
  <2>2. CASE ~ error
    <3>1. Rest /\ UNCHANGED <<offset, error, got>>
      BY <1>8, <1>14, <2>2 DEF Does
    <3>2. todo' = Left(Handler(message.kind), p + 1) /\ outcome' = "reading"
      BY <1>7, <1>8, <3>1 DEF h
    <3>3. /\ ~ error' /\ offset' \in Nat /\ error' \in BOOLEAN /\ got' \in Pieces
          /\ offset' = HeaderSize(message, extra) + Place(message, p + 1)
          /\ got' = SubSeq(message.fields, 1, Counted(message, p + 1))
      BY <1>1, <1>5, <1>14, <2>2, <3>1 DEF size, f
    <3>4. message.kind \notin {"craft", "other"}
      OBVIOUS
    <3> QED BY <1>6, <1>8, <3>2, <3>3, <3>4, FieldStep
  <2> QED BY <2>1, <2>2
<1> QED BY <1>2, <1>11, <1>12, <1>13, <1>14

\* After its last read a handler has the fields that were written.
LEMMA FieldsEnd ==
  ASSUME CodecTypes, NEW extra \in Extras, FieldsAt(extra, Len(Handler(message.kind))),
         message.kind \notin {"craft", "other"}, CodecNext
  PROVE  Goes(extra)
<1> DEFINE h == Handler(message.kind)
           f == message.fields
<1>1. message \in Messages /\ offset \in Nat /\ error \in BOOLEAN /\ got \in Pieces
  BY DEF CodecTypes
<1>2. todo = <<>>
  <2>1. h \in Seq(Ops) /\ Len(h) \in 0..Len(h)
    <3>1. h \in Seq(Ops) /\ Len(h) \in Nat
      BY <1>1, ProgramFacts
    <3> QED BY <3>1
  <2>2. Left(h, Len(h)) = <<>>
    BY <2>1, LeftFacts
  <2> QED BY <2>2 DEF FieldsAt
<1>3. outcome' = "handled" /\ UNCHANGED <<message, whole, buffer, offset, error, todo, got>>
  BY <1>2, NextHandles
<1>4. ~ error
  <2>1. Len(h) \in Nat
    BY <1>1, ProgramFacts
  <2> HIDE DEF h
  <2>2. ~ (Len(h) < Len(h))
    BY <2>1
  <2> QED BY <2>2 DEF FieldsAt, h
<1>5. got = SubSeq(f, 1, Len(f))
  BY <1>1, <1>4, CountedAll DEF FieldsAt
<1>6. f \in Seq(Seq(Nat))
  BY <1>1, FieldTypes DEF Pieces
<1>7. got = f
  <2>1. \A s \in Seq(Seq(Nat)) : SubSeq(s, 1, Len(s)) = s
    OBVIOUS
  <2> HIDE DEF f
  <2> QED BY <1>5, <1>6, <2>1
<1> QED BY <1>1, <1>3, <1>7 DEF Goes

\* The front of a sequence.
LEMMA PrefixFacts ==
  ASSUME NEW x \in Seq(Nat), NEW y \in Seq(Nat), Len(y) <= Len(x),
         \A k \in 1..Len(y) : y[k] = x[k]
  PROVE  IsPrefix(y, x) /\ (Len(y) = Len(x) => y = x)
<1>1. Len(x) \in Nat /\ Len(y) \in Nat
  OBVIOUS
<1>2. SubSeq(y, 1, Len(y)) = y
  OBVIOUS
<1> DEFINE front == SubSeq(x, 1, Len(y))
<1>3. /\ 1 \in 1..(Len(x) + 1) /\ Len(y) \in (1 - 1)..Len(x) /\ Len(y) - 1 + 1 = Len(y)
      /\ \A k \in 1..Len(y) : 1 + k - 1 = k
  BY <1>1
<1>4. /\ front \in Seq(Nat) /\ Len(front) = Len(y) - 1 + 1
      /\ \A k \in 1..(Len(y) - 1 + 1) : front[k] = x[1 + k - 1]
  BY <1>3, SubSeqFacts
<1> HIDE DEF front
<1>5. Len(front) = Len(y) /\ \A k \in 1..Len(front) : front[k] = y[k]
  BY <1>3, <1>4
<1>6. front = y
  BY ONLY <1>4, <1>5, y \in Seq(Nat), SeqEqual
<1>7. Len(y) = Len(x) => y = x
  BY SeqEqual
<1> QED BY <1>2, <1>6, <1>7 DEF IsPrefix, front

\* What a protobuf message has: one field, which is what was written.
LEMMA RestForm ==
  ASSUME NEW m \in Messages, m.flags # Struct
  PROVE  /\ m.kind \in {"request", "answer"} /\ Handler(m.kind) = <<"rest", "valid">>
         /\ m.fields[1] \in Seq(Nat) /\ m.fields = <<m.fields[1]>>
         /\ Len(Written(m)) = Len(m.fields[1]) /\ Has(Written(m), 0, m.fields[1])
<1>1. MessageForm(m)
  BY FormOf
<1>2. m.kind \in {"request", "answer"}
  BY <1>1 DEF MessageForm
<1>3. PICK x \in Payloads : m.fields = <<x>>
  BY <1>1, <1>2 DEF MessageForm
<1>4. m.fields[1] = x /\ Len(m.fields) = 1 /\ x \in Seq(Nat)
  BY <1>3, ConstantTypes
<1>5. Handler(m.kind) = <<"rest", "valid">>
  BY <1>2 DEF Handler
<1>6. /\ Len(Written(m)) = Reach(m.fields, 1)
      /\ Has(Written(m), Reach(m.fields, 0), m.fields[0 + 1])
  <2>1. m.kind # "craft" /\ ~ IsNaming(m)
    BY <1>2 DEF IsNaming
  <2>2. 0 \in 0..(1 - 1)
    OBVIOUS
  <2> QED BY <1>4, <2>1, <2>2, PlainWritten
<1>7. Reach(m.fields, 1) = Len(m.fields[1]) /\ Reach(m.fields, 0) = 0 /\ 0 + 1 = 1
  BY DEF Reach
<1> QED BY <1>2, <1>3, <1>4, <1>5, <1>6, <1>7, Zenon

\* A protobuf message is read to its end at once, wherever that is.
LEMMA RestPhase ==
  ASSUME CodecTypes, ReaderInv, NEW extra \in Extras, NEW n, CutAt(extra, n),
         FieldsAt(extra, 0), message.flags # Struct, CodecNext
  PROVE  Goes(extra)
<1> DEFINE b == Sent(message, extra)
           size == HeaderSize(message, extra)
           w == Written(message)
           x == message.fields[1]
           k == Len(buffer) - offset
           y == NextBytes(k)
<1>1. message \in Messages /\ offset \in Nat /\ error \in BOOLEAN
  BY DEF CodecTypes
<1>2. /\ message.kind \in {"request", "answer"} /\ Handler(message.kind) = <<"rest", "valid">>
      /\ x \in Seq(Nat) /\ message.fields = <<x>>
      /\ Len(w) = Len(x) /\ Has(w, 0, x)
  BY <1>1, RestForm
<1>3. /\ size \in Nat /\ b \in Seq(Nat) /\ Len(b) = size + Len(w) /\ Has(b, size, w)
      /\ Len(b) < SizeLimit /\ w \in Seq(Nat) /\ Len(w) \in Nat
  BY <1>1, SentForm, WrittenTypes
<1>4. /\ todo = Left(Handler(message.kind), 0)
      /\ ~ error /\ got = <<>> /\ offset = size
  BY DEF FieldsAt
<1>5. /\ n \in Nat /\ n <= Len(b) /\ buffer \in Seq(Nat) /\ Len(buffer) = n
      /\ \A i \in 1..n : i <= Len(b) => buffer[i] = b[i]
      /\ whole = (n >= Len(b))
  BY Zenon DEF CutAt
<1>6. offset <= n
  BY <1>5 DEF ReaderInv
<1> HIDE DEF b, size, w, x
<1>7. k \in Nat /\ offset + k = n /\ k = n - size
  BY <1>1, <1>3, <1>4, <1>5, <1>6
<1>8. /\ todo # <<>> /\ Head(todo) = "rest"
      /\ Rest => todo' = <<"valid">> /\ outcome' = outcome
  <2> DEFINE h == <<"rest", "valid">>
  <2>1. h \in Seq(Ops) /\ Len(h) = 2 /\ h[1] = "rest" /\ h[2] = "valid"
    BY OpsAre
  <2>2. todo = Left(h, 0)
    BY <1>2, <1>4
  <2> HIDE DEF h
  <2>3. 0 \in Nat /\ 0 < Len(h) /\ 0 + 1 = 1 /\ 1 + 1 = 2
    BY <2>1
  <2>4. todo # <<>> /\ Head(todo) = h[1] /\ (Rest => todo' = Left(h, 1) /\ outcome' = outcome)
    BY <2>1, <2>2, <2>3, LeftStep
  <2> DEFINE l == SubSeq(h, 2, 2)
  <2>5. l \in Seq(Ops) /\ Len(l) = 1 /\ l[1] = "valid"
    <3>1. /\ 2 \in 1..(Len(h) + 1) /\ 2 \in (2 - 1)..Len(h) /\ 2 - 2 + 1 = 1
          /\ 2 + 1 - 1 = 2 /\ 1 \in 1..(2 - 2 + 1)
      BY <2>1
    <3>2. /\ l \in Seq(Ops) /\ Len(l) = 2 - 2 + 1
          /\ \A i \in 1..(2 - 2 + 1) : l[i] = h[2 + i - 1]
      BY <2>1, <3>1, SubSeqFacts
    <3> HIDE DEF l
    <3> QED BY <2>1, <3>1, <3>2
  <2> HIDE DEF l
  <2>6. l = <<"valid">>
    BY <2>5
  <2>7. Left(h, 1) = l
    BY <2>1, <2>3, Zenon DEF Left, l
  <2> QED BY <2>1, <2>4, <2>6, <2>7
<1>9. /\ outcome = "reading" /\ UNCHANGED <<message, whole, buffer>>
      /\ ReadData(k, <<>>) /\ (Rest \/ (~ whole /\ outcome' = "ignored"))
  <2>1. outcome = "reading" /\ UNCHANGED <<message, whole, buffer>> /\ Does("rest")
    BY <1>8, NextDoes
  <2> QED BY <2>1 DEF Does
<1> HIDE DEF y, k
<1>10. offset' = n /\ error' = FALSE /\ got' = Append(got, y)
  <2>1. SizeLimit \in Nat /\ n < SizeLimit
    BY <1>3, <1>5, AssumedNumbers
  <2>2. (offset + k) % SizeLimit = n
    BY <1>5, <1>7, <2>1, ModSmall
  <2>3. Fits(k)
    BY <1>5, <2>2 DEF Fits
  <2>4. ReadData(k, <<>>) /\ ~ error /\ error \in BOOLEAN
    BY <1>1, <1>4, <1>9
  <2>5. offset' = (offset + k) % SizeLimit /\ got' = Append(got, NextBytes(k)) /\ error' = error
    BY <2>3, <2>4, Zenon DEF ReadData
  <2>6. error' = FALSE
    BY <2>4, <2>5
  <2> QED BY <2>2, <2>5, <2>6, Zenon DEF y
<1>11. y \in Seq(Nat) /\ Len(y) = k /\ \A i \in 1..k : y[i] = buffer[size + i]
  <2> DEFINE from == offset + 1
             l == SubSeq(buffer, from, n)
  <2>1. /\ from \in 1..(Len(buffer) + 1) /\ n \in (from - 1)..Len(buffer)
        /\ n - from + 1 = k /\ \A i \in 1..k : from + i - 1 = size + i
    BY <1>1, <1>3, <1>4, <1>5, <1>6, <1>7
  <2> HIDE DEF from
  <2>2. buffer \in Seq(Nat)
    BY <1>5
  <2>3. /\ l \in Seq(Nat) /\ Len(l) = n - from + 1
        /\ \A i \in 1..(n - from + 1) : l[i] = buffer[from + i - 1]
    BY ONLY <2>1, <2>2, SubSeqFacts
  <2>4. y = l
    BY <1>7, Zenon DEF NextBytes, y, from
  <2> HIDE DEF l
  <2> QED BY <2>1, <2>3, <2>4
<1>12. Len(y) <= Len(x) /\ \A i \in 1..Len(y) : y[i] = x[i]
  <2>1. k <= Len(x) /\ \A i \in 1..k : size + i \in 1..n /\ size + i <= Len(b) /\ i \in 1..Len(x)
    BY <1>2, <1>3, <1>5, <1>7
  <2>2. \A i \in 1..Len(x) : b[size + i] = w[i] /\ w[i] = x[i]
    <3>1. \A i \in 1..Len(w) : b[size + i] = w[i]
      BY <1>3 DEF Has
    <3>2. \A i \in 1..Len(x) : w[0 + i] = x[i] /\ 0 + i = i
      BY <1>2 DEF Has
    <3> QED BY <1>2, <3>1, <3>2
  <2>3. \A i \in 1..k : y[i] = x[i]
    BY <1>5, <1>11, <2>1, <2>2
  <2> QED BY <1>11, <2>1, <2>3
<1>13. IsPrefix(y, x) /\ (Len(y) = Len(x) => y = x)
  BY <1>2, <1>11, <1>12, PrefixFacts
<1>14. got' = <<y>> /\ got' \in Pieces
  <2>1. got' = <<y>>
    BY <1>4, <1>10
  <2>2. <<y>> \in Seq(Seq(Nat))
    BY <1>11
  <2> QED BY <2>1, <2>2 DEF Pieces
<1>15. whole => y = x
  <2>1. whole => n >= Len(b)
    BY <1>5
  <2>2. whole => k = Len(x)
    BY <1>2, <1>3, <1>5, <1>7, <2>1
  <2> QED BY <1>11, <1>13, <2>2
<1>16. CASE Rest
  <2>1. todo' = <<"valid">> /\ outcome' = "reading"
    BY <1>8, <1>9, <1>16
  <2>2. whole' => got' = message'.fields
    BY <1>2, <1>9, <1>14, <1>15
  <2>3. \E z \in Seq(Nat) : got' = <<z>> /\ IsPrefix(z, message'.fields[1])
    BY <1>9, <1>11, <1>13, <1>14 DEF x
  <2>4. AtRest'
    BY <1>9, <1>10, <2>1, <2>2, <2>3 DEF AtRest
  <2> QED BY <1>5, <1>9, <1>10, <1>14, <2>1, <2>4 DEF Goes, Reading
<1>17. CASE ~ whole /\ outcome' = "ignored"
  BY <1>5, <1>9, <1>10, <1>14, <1>17 DEF Goes
<1> QED BY <1>9, <1>16, <1>17

\* Then it is handled: the reader has found no error.
LEMMA RestEnd ==
  ASSUME CodecTypes, NEW extra \in Extras, AtRest, CodecNext
  PROVE  Goes(extra)
<1>1. message \in Messages /\ offset \in Nat /\ error \in BOOLEAN /\ got \in Pieces
  BY DEF CodecTypes
<1>2. message.flags # Struct /\ ~ error /\ (whole => got = message.fields)
  BY DEF AtRest
<1>3. PICK y \in Seq(Nat) : got = <<y>> /\ IsPrefix(y, message.fields[1])
  BY DEF AtRest
<1>4. message.kind # "other"
  BY <1>1, <1>2, RestForm
<1>5. CASE todo = <<"valid">>
  <2>1. todo # <<>> /\ Head(todo) = "valid" /\ Tail(todo) = <<>>
    BY <1>5
  <2>2. outcome = "reading" /\ UNCHANGED <<message, whole, buffer>> /\ Does("valid")
    BY <2>1, NextDoes
  <2>3. Rest /\ UNCHANGED <<offset, error, got>>
    BY <1>2, <2>2 DEF Does
  <2>4. todo' = <<>> /\ outcome' = "reading"
    BY <2>1, <2>2, <2>3 DEF Rest
  <2>5. AtRest'
    BY <1>2, <1>3, <2>2, <2>3, <2>4 DEF AtRest
  <2> QED BY <1>1, <2>2, <2>3, <2>4, <2>5 DEF Goes, Reading
<1>6. CASE todo = <<>>
  <2>1. outcome' = "handled" /\ UNCHANGED <<message, whole, buffer, offset, error, todo, got>>
    BY <1>6, NextHandles
  <2>2. Len(got') = 1 /\ got'[1] = y
    BY <1>3, <2>1
  <2>3. \/ got' = message.fields
        \/ /\ message.flags # Struct /\ ~ whole
           /\ Len(got') = 1 /\ IsPrefix(got'[1], message.fields[1])
    BY <1>2, <1>3, <2>1, <2>2
  <2> QED BY <1>1, <1>4, <2>1, <2>3 DEF Goes
<1> QED BY <1>5, <1>6 DEF AtRest

\* A type that nobody handles is ignored.
LEMMA OtherPhase ==
  ASSUME CodecTypes, NEW extra \in Extras, NEW p \in 0..Len(Handler(message.kind)), FieldsAt(extra, p),
         message.kind = "other", CodecNext
  PROVE  Goes(extra)
<1> DEFINE h == Handler(message.kind)
<1>1. message \in Messages /\ offset \in Nat /\ error \in BOOLEAN /\ got \in Pieces
  BY DEF CodecTypes
<1>2. h \in Seq(Ops) /\ Len(h) = 1 /\ h[1] = "unknown"
  BY <1>1, OtherHandlers
<1>3. p = 0 /\ todo = Left(h, 0)
  <2>1. p < Len(h) /\ todo = Left(h, p)
    BY DEF FieldsAt
  <2> HIDE DEF h
  <2>2. p < 1 /\ p \in Nat
    <3>1. p \in 0..1
      BY <1>2 DEF h
    <3> QED BY <1>2, <2>1, <3>1
  <2>3. p = 0
    BY <2>2
  <2> QED BY <2>1, <2>3
<1>4. todo # <<>> /\ Head(todo) = "unknown"
  <2>1. 0 \in Nat /\ 0 < Len(h) /\ 0 + 1 = 1
    BY <1>2
  <2> HIDE DEF h
  <2> QED BY <1>2, <1>3, <2>1, LeftStep
<1>5. UNCHANGED <<message, whole, buffer>> /\ Does("unknown")
  BY <1>4, NextDoes
<1> QED BY <1>1, <1>5 DEF Goes, Does

-----------------------------------------------------------------------------
(* A trade-up's items.                                                     *)

\* The reads of a trade-up's items take turns: IsValid, then an item.
LEMMA ParityFacts ==
  /\ \A k \in Nat : (2 * k) % 2 = 0 /\ (2 * k + 1) % 2 = 1
OBVIOUS

\* HandleCraft's loop asks and reads, as often as there are items.
LEMMA ItemsReadsForm ==
  ASSUME NEW n \in Nat PROVE ItemsOf(ItemsReads(n), 2 * n)
<1> DEFINE S == {"valid", "uint64"}
           pair == <<"valid", "uint64">>
           s == [i \in 1..n |-> pair]
<1>1. CASE n = 0
  <2>1. s = <<>>
    BY <1>1
  <2>2. ItemsReads(n) = <<>>
    BY <2>1 DEF ItemsReads, FlattenSeq
  <2>3. ItemsOf(<<>>, 0)
    <3>1. <<>> \in Seq({"valid", "uint64"}) /\ Len(<<>>) = 0 /\ 1..0 = {}
      OBVIOUS
    <3> QED BY <3>1 DEF ItemsOf
  <2>4. 2 * n = 0
    BY <1>1
  <2> QED BY <2>2, <2>3, <2>4
<1>2. CASE n > 0
  <2>1. pair \in Seq(S) /\ Len(pair) = 2 /\ pair[1] = "valid" /\ pair[2] = "uint64"
    OBVIOUS
  <2>2. s \in Seq(Seq(S)) /\ Len(s) = n /\ \A i \in 1..n : s[i] = pair
    <3> HIDE DEF S, pair
    <3>1. s \in [1..n -> Seq(S)]
      BY <2>1
    <3>2. s \in UNION {[1..k -> Seq(S)] : k \in Nat}
      BY <3>1
    <3>3. s \in Seq(Seq(S))
      BY <3>2, SeqDef, Zenon
    <3>4. Len(s) = n
      BY <3>1, <3>3, LenProperties
    <3> QED BY <3>3, <3>4
  <2> HIDE DEF S, pair, s
  <2> DEFINE off == [i \in 0..n |-> 2 * i]
             r == FlattenSeq(s)
  <2>3. s # <<>>
    BY <1>2, <2>2
  <2>4. /\ off \in [0..Len(s) -> Nat] /\ off[0] = 0
        /\ \A i \in 1..Len(s) : off[i] = off[i - 1] + Len(s[i])
    <3>1. \A i \in 1..n : i \in 0..n /\ i - 1 \in 0..n /\ 2 * i = 2 * (i - 1) + 2
      OBVIOUS
    <3>2. \A i \in 1..n : off[i] = off[i - 1] + 2
      BY <3>1
    <3>3. off \in [0..n -> Nat] /\ off[0] = 0
      OBVIOUS
    <3> HIDE DEF off
    <3> QED BY <2>1, <2>2, <3>2, <3>3
  <2>5. off[n] = 2 * n /\ \A j \in 1..n : off[j - 1] = 2 * (j - 1)
    OBVIOUS
  <2> HIDE DEF off
  <2>6. r \in Seq(S) /\ Len(r) = off[Len(s)] /\ \A j \in 1..Len(s) : Has(r, off[j - 1], s[j])
    BY ONLY <2>2, <2>3, <2>4, FlattenFacts
  <2> HIDE DEF r
  <2>7. /\ r \in Seq(S) /\ Len(r) = 2 * n
        /\ \A j \in 1..n : r[2 * (j - 1) + 1] = "valid" /\ r[2 * (j - 1) + 2] = "uint64"
    <3>1. \A j \in 1..n : Has(r, 2 * (j - 1), pair)
      BY <2>2, <2>5, <2>6
    <3>2. \A j \in 1..n : \A k \in 1..2 : r[2 * (j - 1) + k] = pair[k]
      BY <2>1, <3>1 DEF Has
    <3>3. 1 \in 1..2 /\ 2 \in 1..2
      OBVIOUS
    <3>4. Len(r) = 2 * n
      BY <2>2, <2>5, <2>6
    <3> QED BY <2>1, <2>6, <3>2, <3>3, <3>4
  <2>8. ASSUME NEW i \in 1..(2 * n)
        PROVE  r[i] = IF (2 * n - i) % 2 = 0 THEN "uint64" ELSE "valid"
    <3>1. PICK j \in 1..n : i = 2 * (j - 1) + 1 \/ i = 2 * (j - 1) + 2
      <4>1. i \in Nat /\ i \div 2 \in Nat /\ (i = 2 * (i \div 2) \/ i = 2 * (i \div 2) + 1)
        OBVIOUS
      <4>2. CASE i = 2 * (i \div 2)
        <5>1. i \div 2 \in 1..n /\ i = 2 * ((i \div 2) - 1) + 2
          BY <4>1, <4>2
        <5> QED BY <5>1
      <4>3. CASE i = 2 * (i \div 2) + 1
        <5>1. (i \div 2) + 1 \in 1..n /\ i = 2 * (((i \div 2) + 1) - 1) + 1
          BY <4>1, <4>3
        <5> QED BY <5>1
      <4> QED BY <4>1, <4>2, <4>3
    <3>2. CASE i = 2 * (j - 1) + 1
      <4>1. n - j \in Nat /\ 2 * n - i = 2 * (n - j) + 1
        BY <3>2
      <4>2. (2 * n - i) % 2 = 1
        BY <4>1, ParityFacts
      <4> QED BY <2>7, <3>2, <4>2
    <3>3. CASE i = 2 * (j - 1) + 2
      <4>1. n - j \in Nat /\ 2 * n - i = 2 * (n - j)
        BY <3>3
      <4>2. (2 * n - i) % 2 = 0
        BY <4>1, ParityFacts
      <4> QED BY <2>7, <3>3, <4>2
    <3> QED BY <3>1, <3>2, <3>3
  <2>9. ItemsReads(n) = r
    BY DEF ItemsReads, r, s, pair
  <2> QED BY <2>7, <2>8, <2>9 DEF ItemsOf, S
<1> QED BY <1>1, <1>2

\* The first of those reads, and those after it.
LEMMA ItemsTail ==
  ASSUME NEW s, NEW k \in Nat, k > 0, ItemsOf(s, k)
  PROVE  /\ s # <<>> /\ Head(s) = IF (k - 1) % 2 = 0 THEN "uint64" ELSE "valid"
         /\ ItemsOf(Tail(s), k - 1)
<1> DEFINE S == {"valid", "uint64"}
<1>1. s \in Seq(S) /\ Len(s) = k /\ \A i \in 1..k : s[i] = IF (k - i) % 2 = 0 THEN "uint64" ELSE "valid"
  BY DEF ItemsOf
<1> HIDE DEF S
<1>2. s # <<>> /\ 1 \in 1..k /\ k \in Nat
  BY <1>1
<1>3. Head(s) = s[1]
  BY <1>1, <1>2
<1>4. /\ Tail(s) \in Seq(S) /\ Len(Tail(s)) = Len(s) - 1
      /\ \A i \in 1..(Len(s) - 1) : Tail(s)[i] = s[i + 1]
  BY <1>1, <1>2
<1>5. \A i \in 1..(k - 1) : i + 1 \in 1..k /\ k - (i + 1) = (k - 1) - i
  BY <1>2
<1>6. \A i \in 1..(k - 1) : Tail(s)[i] = IF ((k - 1) - i) % 2 = 0 THEN "uint64" ELSE "valid"
  BY <1>1, <1>4, <1>5
<1> QED BY <1>1, <1>2, <1>3, <1>4, <1>6 DEF ItemsOf, S

\* While HandleCraft reads its two numbers: it does not ask after them, so a message that is cut
\* there has no items.
LEMMA CraftFieldsPhase ==
  ASSUME CodecTypes, NEW extra \in Extras, NEW n, CutAt(extra, n),
         NEW p \in 0..Len(Handler(message.kind)), FieldsAt(extra, p),
         message.kind = "craft", CodecNext
  PROVE  Goes(extra)
<1> DEFINE h == Handler(message.kind)
           f == message.fields
           b == Sent(message, extra)
           size == HeaderSize(message, extra)
<1>1. message \in Messages /\ offset \in Nat /\ error \in BOOLEAN /\ got \in Pieces
  BY DEF CodecTypes
<1>2. h \in Seq(Ops) /\ Len(h) = 3 /\ h[1] = "uint16" /\ h[2] = "uint16" /\ h[3] = "items"
  BY <1>1, OtherHandlers
<1>3. /\ todo = Left(h, p) /\ (error => ~ whole) /\ p < Len(h)
      /\ ~ error => offset = size + Place(message, p) /\ got = SubSeq(f, 1, Counted(message, p))
      /\ Len(got) = p /\ (error => p > 0 /\ Last(got) = <<0, 0>>)
  BY DEF FieldsAt
<1>4. /\ f \in Seq(Seq(Nat)) /\ Len(f) \in Nat /\ 2 <= Len(f) /\ Number16(f[2]) = Len(f) - 2
  BY <1>1, CraftForm DEF Pieces
<1>5. size \in Nat
  BY <1>1, SentForm
<1>6. p \in 0..Len(h)
  OBVIOUS
<1> HIDE DEF h, f, b, size
<1>7. p \in Nat /\ p < 3
  BY <1>2, <1>3, <1>6
<1>8. /\ todo # <<>> /\ Head(todo) = h[p + 1]
      /\ Rest => todo' = Left(h, p + 1) /\ outcome' = outcome
  BY <1>2, <1>3, <1>7, LeftStep
<1>9. outcome = "reading" /\ UNCHANGED <<message, whole, buffer>> /\ Does(h[p + 1])
  BY <1>8, NextDoes
<1>10. CASE p \in 0..1
  <2>1. h[p + 1] = "uint16"
    <3>1. p = 0 \/ p = 1
      BY <1>10
    <3> QED BY <1>2, <3>1
  <2>2. Rest /\ ReadData(2, <<0, 0>>)
    BY <1>9, <2>1, ZeroWidth DEF Does
  <2>3. FieldAt(message, p, 0) /\ Len(f[p + 1]) = 2 /\ Counted(message, p) = p
    BY <1>1, <1>10, CraftSteps DEF f
  <2> DEFINE part == f[p + 1]
  <2>4. part \in Seq(Nat) /\ Has(b, size + Place(message, p), part)
    BY <1>1, <2>3, FieldIsThere DEF f, b, size
  <2>5. Len(part) = 2
    BY <2>3
  <2> HIDE DEF part
  <2>6. Taken(part, <<0, 0>>)
    <3>1. <<0, 0>> \in Seq(Nat)
      OBVIOUS
    <3>2. ~ error => 2 = Len(part) /\ Has(Sent(message, extra), offset, part)
      BY <1>3, <2>4, <2>5 DEF b
    <3> QED BY <2>2, <2>4, <3>1, <3>2, ReadTakes
  <2>7. ~ error' => /\ offset' = size + Place(message, p + 1)
                    /\ got' = SubSeq(f, 1, Counted(message, p + 1))
    BY <1>7, <2>3, <2>6, FieldTaken DEF f, size, part
  <2>8. /\ offset' \in Nat /\ error' \in BOOLEAN /\ got' \in Pieces /\ (error' => ~ whole)
        /\ Len(got') = p + 1 /\ (error' => Last(got') = <<0, 0>>)
    BY <1>3, <2>6 DEF Taken
  <2>9. todo' = Left(Handler(message.kind), p + 1) /\ outcome' = "reading"
    BY <1>8, <1>9, <2>2 DEF h
  <2>10. /\ p + 1 < Len(Handler(message.kind)) /\ p \in 0..(Len(Handler(message.kind)) - 1)
    <3>1. p + 1 < 3 /\ p \in 0..(3 - 1)
      BY <1>10
    <3> QED BY <1>2, <3>1 DEF h
  <2>11. message.flags = Struct
    <3>1. MessageForm(message)
      BY <1>1, FormOf
    <3> QED BY <3>1 DEF MessageForm
  <2> QED BY <1>9, <2>7, <2>8, <2>9, <2>10, <2>11, FieldStep DEF f, size
<1>11. CASE p = 2
  <2>1. h[p + 1] = "items"
    BY <1>2, <1>11
  <2>2. /\ todo' = ItemsReads(Number16(Last(got)))
        /\ UNCHANGED <<offset, error, got, outcome>>
    BY <1>9, <2>1 DEF Does
  <2>3. CASE error
    <3>1. Number16(Last(got)) = 0
      <4>1. <<0, 0>>[1] = 0 /\ <<0, 0>>[2] = 0 /\ 0 + 256 * 0 = 0
        OBVIOUS
      <4>2. Number16(<<0, 0>>) = 0
        BY <4>1, Zenon DEF Number16
      <4> QED BY <1>3, <2>3, <4>2
    <3>2. todo' = <<>>
      <4>1. ItemsOf(ItemsReads(0), 2 * 0)
        BY ItemsReadsForm
      <4>2. 2 * 0 = 0
        OBVIOUS
      <4>3. ItemsReads(0) \in Seq({"valid", "uint64"}) /\ Len(ItemsReads(0)) = 0
        BY <4>1, <4>2 DEF ItemsOf
      <4>4. ItemsReads(0) = <<>>
        BY <4>3
      <4> QED BY <2>2, <3>1, <4>4
    <3>3. AtItems(extra)'
      BY <1>3, <1>9, <1>11, <2>2, <2>3, <3>2 DEF AtItems
    <3> QED BY <1>1, <1>9, <2>2, <3>3 DEF Goes, Reading
  <2>4. CASE ~ error
    <3>1. Counted(message, 2) = 2 /\ Place(message, 2) = 4
      <4>1. 0 \in 0..1
        OBVIOUS
      <4> QED BY <1>1, <4>1, CraftSteps
    <3>2. got = SubSeq(f, 1, 2) /\ offset = size + 4
      BY <1>3, <1>11, <2>4, <3>1
    <3>3. got[1] = f[1] /\ Last(got) = f[2]
      <4>1. /\ 1 \in 1..(Len(f) + 1) /\ 2 \in (1 - 1)..Len(f) /\ f \in Seq(Seq(Nat))
            /\ 2 - 1 + 1 = 2 /\ 1 + 1 - 1 = 1 /\ 1 + 2 - 1 = 2 /\ 1 \in 1..2 /\ 2 \in 1..2
        BY <1>4
      <4>2. \A k \in 1..(2 - 1 + 1) : SubSeq(f, 1, 2)[k] = f[1 + k - 1]
        BY ONLY <4>1, SubSeqFacts
      <4>3. got[1] = f[1] /\ got[2] = f[2]
        BY <3>2, <4>1, <4>2
      <4> QED BY <1>3, <1>11, <4>3 DEF Last
    <3> DEFINE k == Len(f) - 2
    <3>4. ItemsOf(todo', 2 * k)
      <4>1. k \in Nat
        BY <1>4
      <4>2. todo' = ItemsReads(k)
        BY <1>4, <2>2, <3>3
      <4> HIDE DEF k
      <4> QED BY <4>1, <4>2, ItemsReadsForm
    <3>5. ItemsAt(extra, 0)'
      <4>1. ItemsLeft(2 * (Len(message.fields) - 2 - 0))'
        <5>1. k - 0 = k
          BY <1>4
        <5>2. ItemsOf(todo', 2 * (Len(message'.fields) - 2 - 0))
          BY <1>9, <3>4, <5>1 DEF f
        <5> QED BY <5>2 DEF ItemsLeft
      <4>2. /\ Len(got') = 2 + 0 /\ \A i \in 1..(1 + 0) : got'[i] = message'.fields[i]
        <5>1. 2 + 0 = 2 /\ \A i \in 1..(1 + 0) : i = 1
          OBVIOUS
        <5> QED BY <1>3, <1>9, <1>11, <2>2, <3>3, <5>1 DEF f
      <4>3. /\ got' = SubSeq(message'.fields, 1, 2 + 0)
            /\ offset' = HeaderSize(message', extra) + 4 + 8 * 0
        <5>1. 2 + 0 = 2 /\ size + 4 + 8 * 0 = size + 4
          BY <1>5
        <5> QED BY <1>9, <2>2, <3>2, <5>1 DEF f, size
      <4> QED BY <4>1, <4>2, <4>3 DEF ItemsAt
    <3>6. AtItems(extra)'
      <4>1. 0 \in 0..(Len(message'.fields) - 2)
        BY <1>4, <1>9 DEF f
      <4>2. message'.kind = "craft" /\ ~ error'
        BY <1>9, <2>2, <2>4
      <4> QED BY <3>5, <4>1, <4>2 DEF AtItems
    <3> QED BY <1>1, <1>9, <2>2, <3>6 DEF Goes, Reading
  <2> QED BY <2>3, <2>4
<1>12. p \in 0..1 \/ p = 2
  BY <1>7
<1> QED BY <1>10, <1>11, <1>12

\* While HandleCraft reads the items: it asks before each, so only the last can be one that was
\* not there.
LEMMA ItemsPhase ==
  ASSUME CodecTypes, NEW extra \in Extras, NEW n, CutAt(extra, n), AtItems(extra), CodecNext
  PROVE  Goes(extra)
<1> DEFINE f == message.fields
           b == Sent(message, extra)
           size == HeaderSize(message, extra)
           w == Written(message)
           N == Len(f) - 2
<1>1. message \in Messages /\ offset \in Nat /\ error \in BOOLEAN /\ got \in Pieces
  BY DEF CodecTypes
<1>2. message.kind = "craft" /\ (error => ~ whole) /\ message.kind # "other"
  BY DEF AtItems
<1>3. /\ f \in Seq(Seq(Nat)) /\ Len(f) \in Nat /\ 2 <= Len(f)
      /\ \A q \in 3..Len(f) : f[q] \in Seq(Nat) /\ Len(f[q]) = 8
  <2>1. f \in Pieces /\ Len(f) \in Nat /\ 2 <= Len(f) /\ \A q \in 3..Len(f) : Len(f[q]) = 8
    BY <1>1, <1>2, CraftForm
  <2>2. \A q \in 1..Len(f) : f[q] \in Seq(Nat)
    BY <2>1, PiecesFacts
  <2> HIDE DEF f
  <2>3. \A q \in 3..Len(f) : q \in 1..Len(f)
    BY <2>1
  <2> QED BY <2>1, <2>2, <2>3 DEF Pieces
<1>4. /\ size \in Nat /\ b \in Seq(Nat) /\ Has(b, size, w) /\ w \in Seq(Nat)
      /\ \A q \in 0..(Len(f) - 3) : Has(w, 4 + 8 * q, f[3 + q])
  BY <1>1, <1>2, SentForm, CraftWritten
<1>5. CASE error /\ todo = <<>> /\ Len(got) = 2
  <2>1. outcome' = "handled" /\ UNCHANGED <<message, whole, buffer, offset, error, todo, got>>
    BY <1>5, NextHandles
  <2>2. ~ (Len(got') > 2)
    BY <1>5, <2>1
  <2> QED BY <1>1, <1>2, <1>5, <2>1, <2>2 DEF Goes
<1>6. ASSUME NEW r \in 0..N, ItemsAt(extra, r) PROVE Goes(extra)
  <2>1. /\ \/ ItemsOf(todo, 2 * (N - r))
           \/ ~ error /\ r < N /\ ItemsOf(todo, 2 * (N - r) - 1)
        /\ Len(got) = 2 + r
        /\ \A i \in 1..(1 + r) : got[i] = f[i]
        /\ ~ error => got = SubSeq(f, 1, 2 + r) /\ offset = size + 4 + 8 * r
    BY <1>6 DEF ItemsAt, ItemsLeft
  <2> HIDE DEF f, b, size, w
  <2>2. N \in Nat /\ r \in Nat /\ r <= N /\ N = Len(f) - 2
    BY <1>3, <1>6
  <2> HIDE DEF N
  <2>3. CASE ItemsOf(todo, 2 * (N - r)) /\ r = N
    <3>1. todo = <<>>
      <4>1. 2 * (N - r) = 0
        BY <2>2, <2>3
      <4>2. todo \in Seq({"valid", "uint64"}) /\ Len(todo) = 0
        BY <2>3, <4>1 DEF ItemsOf
      <4> QED BY <4>2
    <3>2. outcome' = "handled" /\ UNCHANGED <<message, whole, buffer, offset, error, todo, got>>
      BY <3>1, NextHandles
    <3>3. CASE ~ error
      <4>1. 2 + r = Len(f)
        BY <1>3, <2>2, <2>3
      <4>2. \A s \in Seq(Seq(Nat)) : SubSeq(s, 1, Len(s)) = s
        OBVIOUS
      <4>3. got = f
        BY <1>3, <2>1, <3>3, <4>1, <4>2
      <4> QED BY <1>1, <1>2, <3>2, <4>3 DEF Goes, f
    <3>4. CASE error
      <4>1. Len(got') - 1 = 1 + r /\ got' = got
        BY <2>1, <2>2, <3>2
      <4>2. \A i \in 1..(Len(got') - 1) : got'[i] = message.fields[i]
        BY <2>1, <4>1 DEF f
      <4> QED BY <1>1, <1>2, <3>2, <3>4, <4>2 DEF Goes
    <3> QED BY <3>3, <3>4
  <2>4. CASE ItemsOf(todo, 2 * (N - r)) /\ r < N
    <3> DEFINE k == 2 * (N - r)
    <3>1. k \in Nat /\ k > 0 /\ (k - 1) % 2 = 1
      <4>1. (N - r) - 1 \in Nat /\ k - 1 = 2 * ((N - r) - 1) + 1
        BY <2>2, <2>4
      <4>2. k \in Nat /\ k > 0
        BY <2>2, <2>4
      <4> HIDE DEF k
      <4> QED BY <4>1, <4>2, ParityFacts
    <3>2. todo # <<>> /\ Head(todo) = "valid" /\ ItemsOf(Tail(todo), k - 1)
      <4>1. ItemsOf(todo, k)
        BY <2>4
      <4> HIDE DEF k
      <4> QED BY <3>1, <4>1, ItemsTail
    <3>3. outcome = "reading" /\ UNCHANGED <<message, whole, buffer>> /\ Does("valid")
      BY <3>2, NextDoes
    <3>4. CASE error
      <4>1. outcome' = "ignored" /\ UNCHANGED <<offset, error, got>>
        BY <3>3, <3>4 DEF Does
      <4> QED BY <1>1, <1>2, <3>3, <3>4, <4>1 DEF Goes
    <3>5. CASE ~ error
      <4>1. todo' = Tail(todo) /\ outcome' = "reading" /\ UNCHANGED <<offset, error, got>>
        BY <3>3, <3>5 DEF Does, Rest
      <4>2. ItemsAt(extra, r)'
        <5>1. N = Len(message'.fields) - 2
          BY <2>2, <3>3 DEF f
        <5>2. ~ error' /\ r < Len(message'.fields) - 2
          BY <2>4, <3>5, <4>1, <5>1
        <5>3. ItemsOf(todo', 2 * (Len(message'.fields) - 2 - r) - 1)
          BY <3>2, <4>1, <5>1
        <5>4. /\ Len(got') = 2 + r /\ \A i \in 1..(1 + r) : got'[i] = message'.fields[i]
              /\ got' = SubSeq(message'.fields, 1, 2 + r)
              /\ offset' = HeaderSize(message', extra) + 4 + 8 * r
          BY <2>1, <3>3, <3>5, <4>1 DEF f, size
        <5> QED BY <5>2, <5>3, <5>4 DEF ItemsAt, ItemsLeft
      <4>3. AtItems(extra)'
        <5>1. r \in 0..(Len(message'.fields) - 2)
          <6>1. r \in 0..N /\ Len(message'.fields) - 2 = N
            BY <2>2, <3>3 DEF f
          <6> QED BY <6>1
        <5>2. message'.kind = "craft" /\ ~ error'
          BY <1>2, <3>3, <3>5, <4>1
        <5> QED BY <4>2, <5>1, <5>2 DEF AtItems
      <4> QED BY <1>1, <3>3, <4>1, <4>3 DEF Goes, Reading
    <3> QED BY <3>4, <3>5
  <2>5. CASE ~ error /\ r < N /\ ItemsOf(todo, 2 * (N - r) - 1)
    <3> DEFINE k == 2 * (N - r) - 1
               part == f[3 + r]
               zero == [i \in 1..Width["uint64"] |-> 0]
    <3>1. k \in Nat /\ k > 0 /\ (k - 1) % 2 = 0 /\ k - 1 = 2 * (N - (r + 1))
      <4>1. (N - r) - 1 \in Nat /\ k - 1 = 2 * ((N - r) - 1) /\ k - 1 = 2 * (N - (r + 1))
        BY <2>2, <2>5
      <4>2. k \in Nat /\ k > 0
        BY <2>2, <2>5
      <4> HIDE DEF k
      <4> QED BY <4>1, <4>2, ParityFacts
    <3>2. todo # <<>> /\ Head(todo) = "uint64" /\ ItemsOf(Tail(todo), k - 1)
      <4>1. ItemsOf(todo, k)
        BY <2>5
      <4> HIDE DEF k
      <4> QED BY <3>1, <4>1, ItemsTail
    <3>3. outcome = "reading" /\ UNCHANGED <<message, whole, buffer>> /\ Does("uint64")
      BY <3>2, NextDoes
    <3>4. /\ todo' = Tail(todo) /\ outcome' = "reading"
          /\ ReadData(8, zero) /\ zero \in Seq(Nat)
      BY <3>3, ZeroWidth DEF Does, Rest
    <3>5. part \in Seq(Nat) /\ Len(part) = 8 /\ Has(w, 4 + 8 * r, part) /\ 4 + 8 * r \in Nat
      <4>1. 3 + r \in 3..Len(f) /\ r \in 0..(Len(f) - 3) /\ 4 + 8 * r \in Nat
        BY <1>3, <2>2, <2>5
      <4> QED BY <1>3, <1>4, <4>1 DEF f, w
    <3> HIDE DEF k, part, zero
    <3>6. Has(b, size + (4 + 8 * r), part) /\ offset = size + (4 + 8 * r)
      <4>1. b \in Seq(Nat) /\ w \in Seq(Nat) /\ size \in Nat /\ Has(b, size, w)
        BY <1>4 DEF b, w, size
      <4>2. Has(b, size + (4 + 8 * r), part)
        BY ONLY <3>5, <4>1, HasWithin
      <4>3. size + 4 + 8 * r = size + (4 + 8 * r)
        BY <2>2, <4>1
      <4> QED BY <2>1, <2>5, <4>2, <4>3
    <3>7. Taken(part, zero)
      <4>1. 8 = Len(part) /\ Has(Sent(message, extra), offset, part)
        BY <3>5, <3>6 DEF b
      <4> QED BY <3>4, <3>5, <4>1, ReadTakes
    <3>8. /\ got' \in Pieces /\ Len(got') = 2 + (r + 1) /\ offset' \in Nat /\ error' \in BOOLEAN
          /\ error' => ~ whole
      <4>1. (2 + r) + 1 = 2 + (r + 1)
        BY <2>2
      <4> QED BY <2>1, <2>5, <3>7, <4>1 DEF Taken
    <3>9. \A i \in 1..(1 + (r + 1)) : got'[i] = f[i]
      <4>1. \E x \in Seq(Nat) : got' = Append(got, x)
        BY <3>4, <3>5, <3>7 DEF Taken
      <4>2. PICK x \in Seq(Nat) : got' = Append(got, x)
        BY <4>1
      <4>3. \A i \in 1..Len(got) : got'[i] = got[i]
        <5>1. got \in Seq(Seq(Nat)) /\ x \in Seq(Nat)
          BY <1>1 DEF Pieces
        <5>2. \A i \in 1..Len(got) : Append(got, x)[i] = got[i]
          BY ONLY <5>1, AppendFacts
        <5> QED BY <4>2, <5>2
      <4>4. got = SubSeq(f, 1, 2 + r)
        BY <2>1, <2>5
      <4>5. \A i \in 1..(2 + r) : SubSeq(f, 1, 2 + r)[i] = f[i]
        <5>1. /\ 1 \in 1..(Len(f) + 1) /\ 2 + r \in (1 - 1)..Len(f) /\ f \in Seq(Seq(Nat))
              /\ (2 + r) - 1 + 1 = 2 + r /\ \A i \in 1..(2 + r) : 1 + i - 1 = i
          BY <1>3, <2>2, <2>5 DEF f
        <5>2. \A i \in 1..((2 + r) - 1 + 1) : SubSeq(f, 1, 2 + r)[i] = f[1 + i - 1]
          BY ONLY <5>1, SubSeqFacts
        <5> QED BY <5>1, <5>2
      <4>6. 1 + (r + 1) = 2 + r /\ Len(got) = 2 + r
        BY <2>1, <2>2
      <4> QED BY <4>3, <4>4, <4>5, <4>6
    <3>10. ~ error' => /\ got' = SubSeq(f, 1, 2 + (r + 1))
                       /\ offset' = size + 4 + 8 * (r + 1)
      <4>1. ~ error' => offset' = offset + 8 /\ got' = Append(SubSeq(f, 1, 2 + r), part)
        BY <2>1, <2>5, <3>5, <3>7 DEF Taken
      <4>2. /\ size + (4 + 8 * r) + 8 = size + 4 + 8 * (r + 1) /\ (2 + r) + 1 = 2 + (r + 1)
            /\ (2 + r) + 1 = 3 + r /\ 2 + r \in Nat /\ 2 + r < Len(f)
        BY <1>3, <1>4, <2>2, <2>5, SMTT(30) DEF f, size
      <4>3. Append(SubSeq(f, 1, 2 + r), f[(2 + r) + 1]) = SubSeq(f, 1, (2 + r) + 1)
        <5>1. f \in Seq(Seq(Nat))
          BY <1>3 DEF f
        <5> QED BY ONLY <4>2, <5>1, AppendSub
      <4>4. Append(SubSeq(f, 1, 2 + r), part) = SubSeq(f, 1, 2 + (r + 1))
        <5>1. part = f[(2 + r) + 1]
          BY <4>2 DEF part
        <5> QED BY <4>2, <4>3, <5>1
      <4> QED BY <3>6, <4>1, <4>2, <4>4
    <3>11. ItemsAt(extra, r + 1)'
      <4>1. ItemsOf(todo', 2 * (Len(message'.fields) - 2 - (r + 1)))
        BY <2>2, <3>1, <3>2, <3>3, <3>4 DEF f
      <4>2. /\ Len(got') = 2 + (r + 1) /\ \A i \in 1..(1 + (r + 1)) : got'[i] = message'.fields[i]
            /\ ~ error' => /\ got' = SubSeq(message'.fields, 1, 2 + (r + 1))
                           /\ offset' = HeaderSize(message', extra) + 4 + 8 * (r + 1)
        BY <3>3, <3>8, <3>9, <3>10 DEF f, size
      <4> QED BY <4>1, <4>2 DEF ItemsAt, ItemsLeft
    <3>12. AtItems(extra)'
      <4>1. r + 1 \in 0..(Len(message'.fields) - 2)
        <5>1. r + 1 \in 0..N
          BY <2>2, <2>5
        <5>2. Len(message'.fields) - 2 = N
          BY <2>2, <3>3 DEF f
        <5> QED BY <5>1, <5>2
      <4>2. message'.kind = "craft" /\ (error' => ~ whole')
        BY <1>2, <3>3, <3>8
      <4> QED BY <3>11, <4>1, <4>2 DEF AtItems
    <3> QED BY <3>3, <3>4, <3>8, <3>12 DEF Goes, Reading
  <2>6. r = N \/ r < N
    BY <2>2
  <2> QED BY <2>1, <2>3, <2>4, <2>5, <2>6
<1> QED BY <1>5, <1>6 DEF AtItems

-----------------------------------------------------------------------------
(* The invariant and the theorem.                                          *)

\* A message as it arrives: cut, or whole and, if it is a struct message, with more behind it.
InitAt(extra) ==
  LET bytes == Sent(message, extra) IN
  \/ \E n \in 0..(Len(bytes) - 1) :
       /\ message.kind = "answer" => n >= 8
       /\ buffer = SubSeq(bytes, 1, n)
       /\ whole = FALSE
  \/ \E tail \in Tails :
       /\ buffer = IF message.flags = Struct THEN bytes \o tail ELSE bytes
       /\ whole = TRUE

LEMMA InitCutAt ==
  ASSUME message \in Messages, NEW extra \in Extras, InitAt(extra)
  PROVE  \E n \in Nat : CutAt(extra, n)
<1> DEFINE b == Sent(message, extra)
<1>1. b \in Seq(Nat)
  BY SentForm
<1>2. \/ \E n \in 0..(Len(b) - 1) : buffer = SubSeq(b, 1, n) /\ whole = FALSE
      \/ \E tail \in Tails : /\ buffer = IF message.flags = Struct THEN b \o tail ELSE b
                            /\ whole = TRUE
  BY DEF InitAt
<1> HIDE DEF b
<1>3. Len(b) \in Nat
  BY <1>1
<1>4. ASSUME NEW n \in Nat, message.flags # Struct => n <= Len(b),
             buffer \in Seq(Nat), Len(buffer) = n,
             \A k \in 1..n : k <= Len(b) => buffer[k] = b[k],
             whole = (n >= Len(b))
      PROVE  CutAt(extra, n)
  BY <1>4 DEF CutAt, b
<1>5. ASSUME NEW n \in 0..(Len(b) - 1), buffer = SubSeq(b, 1, n), whole = FALSE
      PROVE  CutAt(extra, n) /\ n \in Nat
  <2>1. /\ 1 \in 1..(Len(b) + 1) /\ n \in (1 - 1)..Len(b) /\ n - 1 + 1 = n
        /\ n \in Nat /\ n <= Len(b) /\ ~ (n >= Len(b)) /\ \A k \in 1..n : 1 + k - 1 = k
    BY <1>3
  <2>2. /\ buffer \in Seq(Nat) /\ Len(buffer) = n - 1 + 1
        /\ \A k \in 1..(n - 1 + 1) : buffer[k] = b[1 + k - 1]
    BY <1>1, <1>5, <2>1, SubSeqFacts
  <2>3. Len(buffer) = n /\ \A k \in 1..n : buffer[k] = b[k]
    BY <2>1, <2>2
  <2>4. whole = (n >= Len(b))
    <3>1. (n >= Len(b)) = FALSE
      BY <2>1
    <3> QED BY <1>5, <3>1, Zenon
  <2> QED BY <1>4, <2>1, <2>2, <2>3, <2>4
<1>6. ASSUME buffer = b, whole = TRUE PROVE CutAt(extra, Len(b))
  <2>1. Len(b) <= Len(b) /\ Len(b) >= Len(b)
    BY <1>3
  <2> QED BY <1>1, <1>3, <1>4, <1>6, <2>1
<1>7. ASSUME NEW tail \in Tails, message.flags = Struct, buffer = b \o tail, whole = TRUE
      PROVE  CutAt(extra, Len(b) + Len(tail)) /\ Len(b) + Len(tail) \in Nat
  <2>1. tail \in Seq(Nat) /\ Len(tail) \in Nat
    <3>1. tail \in Seq(0..255)
      BY CodecAssumption DEF CodecAssumption, Bytes, Byte
    <3>2. 0..255 \subseteq Nat
      OBVIOUS
    <3>3. tail \in Seq(Nat)
      BY <3>1, <3>2, SeqMonotonic
    <3> QED BY <3>3
  <2>2. /\ buffer \in Seq(Nat) /\ Len(buffer) = Len(b) + Len(tail)
        /\ \A k \in 1..Len(b) : buffer[k] = b[k]
    BY <1>1, <1>7, <2>1, ConcatFacts
  <2> DEFINE n == Len(b) + Len(tail)
  <2>3. n \in Nat /\ n >= Len(b) /\ \A k \in 1..n : k <= Len(b) => k \in 1..Len(b)
    BY <1>3, <2>1
  <2>4. Len(buffer) = n
    BY <2>2
  <2> HIDE DEF n
  <2>5. \A k \in 1..n : k <= Len(b) => buffer[k] = b[k]
    BY <2>2, <2>3
  <2>6. whole = (n >= Len(b))
    BY <1>7, <2>3
  <2>7. CutAt(extra, n)
    BY <1>4, <1>7, <2>2, <2>3, <2>4, <2>5, <2>6
  <2> QED BY <2>3, <2>7 DEF n
<1> QED BY <1>2, <1>3, <1>5, <1>6, <1>7

\* The invariant holds when a message arrives,
LEMMA InitCodecInv == CodecInit => CodecInv
<1> SUFFICES ASSUME CodecInit PROVE CodecInv
  OBVIOUS
<1>1. /\ message \in Messages /\ offset = 0 /\ error = FALSE /\ todo = First
      /\ got = <<>> /\ outcome = "reading"
  BY DEF CodecInit, First
<1>2. PICK extra \in Extras : InitAt(extra)
  BY Zenon DEF CodecInit, InitAt, Sent
<1>7. PICK n \in Nat : CutAt(extra, n)
  BY <1>1, <1>2, InitCutAt
<1>8. ReaderInv
  BY <1>1, <1>7 DEF CutAt, ReaderInv
<1>3. CodecTypes
  <2>1. <<>> \in Seq(Seq(Nat))
    OBVIOUS
  <2> QED BY <1>1, <2>1 DEF CodecTypes, Pieces
<1>4. TypeAt(0)
  <2>1. Left(First, 0) = First
    <3>1. First \in Seq(Ops)
      BY OpsAre DEF First
    <3>2. \A s \in Seq(Ops) : SubSeq(s, 0 + 1, Len(s)) = s
      OBVIOUS
    <3> QED BY <3>1, <3>2, Zenon DEF Left
  <2> QED BY <1>1, <2>1 DEF TypeAt
<1>5. AtType
  <2>1. 0 \in 0..2
    OBVIOUS
  <2> QED BY <1>4, <2>1 DEF AtType
<1>6. HandledAsWritten
  BY <1>1 DEF HandledAsWritten
<1> QED BY <1>3, <1>5, <1>6, <1>7, <1>8 DEF CodecInv, Reading

\* Nothing is done any more when the message has been handled or ignored.
LEMMA NextReads == CodecNext => outcome = "reading"
BY DEF CodecNext, ReadVariable, SkipData, ReadSized, ReadProtobuf, ReadString, ReadType, BeginHandler,
       ReadItems, CheckValid, UnknownType, Handled, Doing

\* Every step of the reader leads on, or to an outcome that is right.
LEMMA NextGoes ==
  ASSUME CodecTypes, ReaderInv, NEW extra \in Extras, NEW n, CutAt(extra, n), Reading(extra),
         CodecNext
  PROVE  Goes(extra)
<1>1. CASE AtType
  BY <1>1, TypePhase
<1>2. CASE AtHeader(extra)
  BY <1>2, HeaderPhase
<1>3. CASE AtFields(extra)
  <2>1. PICK p \in 0..Len(Handler(message.kind)) : FieldsAt(extra, p)
    BY <1>3 DEF AtFields
  <2>2. CASE message.kind = "craft"
    BY <2>1, <2>2, CraftFieldsPhase
  <2>3. CASE message.kind = "other"
    BY <2>1, <2>3, OtherPhase
  <2>4. CASE message.kind \notin {"craft", "other"} /\ message.flags = Struct
    <3>1. Len(Handler(message.kind)) \in Nat
      BY ProgramFacts DEF CodecTypes
    <3>2. p \in 0..(Len(Handler(message.kind)) - 1) \/ p = Len(Handler(message.kind))
      BY <3>1
    <3> QED BY <2>1, <2>4, <3>2, FieldsPhase, FieldsEnd
  <2>5. CASE message.flags # Struct
    <3>1. p = 0
      BY <2>1, <2>5 DEF FieldsAt
    <3> QED BY <2>1, <2>5, <3>1, RestPhase
  <2> QED BY <2>2, <2>3, <2>4, <2>5
<1>4. CASE AtItems(extra)
  BY <1>4, ItemsPhase
<1>5. CASE AtRest
  BY <1>5, RestEnd
<1> QED BY <1>1, <1>2, <1>3, <1>4, <1>5 DEF Reading

\* and every step keeps it.
LEMMA NextCodecInv == CodecInv /\ [CodecNext]_codecVars => CodecInv'
<1> SUFFICES ASSUME CodecInv, [CodecNext]_codecVars PROVE CodecInv'
  OBVIOUS
<1>1. CASE CodecNext
  <2>1. CodecTypes /\ ReaderInv /\ outcome = "reading"
    BY <1>1, NextReads DEF CodecInv
  <2>2. PICK extra \in Extras : /\ \E n \in Nat : CutAt(extra, n)
                                /\ Reading(extra)
    BY <2>1 DEF CodecInv
  <2>3. PICK n \in Nat : CutAt(extra, n)
    BY <2>2
  <2>4. Goes(extra)
    BY <1>1, <2>1, <2>2, <2>3, NextGoes
  <2>5. UNCHANGED <<message, whole, buffer>>
    BY <2>4 DEF Goes
  <2>6. CodecTypes'
    BY <2>1, <2>4 DEF Goes, CodecTypes
  <2>7. \E k \in Nat : CutAt(extra, k)'
    <3>1. CutAt(extra, n)'
      BY <2>3, <2>5 DEF CutAt
    <3> QED BY <2>3, <3>1
  <2>8. outcome' = "reading" => Reading(extra)'
    BY <2>4 DEF Goes
  <2>9. HandledAsWritten'
    BY <2>4, <2>5 DEF Goes, HandledAsWritten
  <2>10. ReaderInv'
    BY <1>1, <2>1, NextReaderInv
  <2> QED BY <2>6, <2>7, <2>8, <2>9, <2>10 DEF CodecInv
<1>2. CASE UNCHANGED codecVars
  <2>1. /\ message' = message /\ whole' = whole /\ buffer' = buffer /\ offset' = offset
        /\ error' = error /\ todo' = todo /\ got' = got /\ outcome' = outcome
    BY <1>2 DEF codecVars
  <2>2. PICK extra \in Extras : /\ \E n \in Nat : CutAt(extra, n)
                                /\ outcome = "reading" => Reading(extra)
    BY DEF CodecInv
  <2>3. PICK n \in Nat : CutAt(extra, n)
    BY <2>2
  <2>4. CodecTypes' /\ HandledAsWritten'
    BY <2>1 DEF CodecInv, CodecTypes, HandledAsWritten
  <2>5. \E k \in Nat : CutAt(extra, k)'
    <3>1. CutAt(extra, n)'
      BY <2>1, <2>3 DEF CutAt
    <3> QED BY <2>3, <3>1
  <2>6. ASSUME AtType PROVE AtType'
    BY <2>1, <2>6 DEF AtType, TypeAt
  <2>7. ASSUME AtHeader(extra) PROVE AtHeader(extra)'
    <3>1. PICK p \in 0..Len(TypeHeader(message)) : HeaderAt(extra, p)
      BY <2>7 DEF AtHeader
    <3>2. HeaderAt(extra, p)' /\ p \in 0..Len(TypeHeader(message'))
      BY <2>1, <3>1 DEF HeaderAt
    <3> QED BY <3>2 DEF AtHeader
  <2>8. ASSUME AtFields(extra) PROVE AtFields(extra)'
    <3>1. PICK p \in 0..Len(Handler(message.kind)) : FieldsAt(extra, p)
      BY <2>8 DEF AtFields
    <3>2. FieldsAt(extra, p)' /\ p \in 0..Len(Handler(message'.kind))
      BY <2>1, <3>1 DEF FieldsAt
    <3> QED BY <3>2 DEF AtFields
  <2>9. ASSUME AtItems(extra) PROVE AtItems(extra)'
    <3>1. message'.kind = "craft" /\ (error' => ~ whole')
      BY <2>1, <2>9 DEF AtItems
    <3>2. CASE error /\ todo = <<>> /\ Len(got) = 2
      BY <2>1, <3>1, <3>2 DEF AtItems
    <3>3. ASSUME NEW r \in 0..(Len(message.fields) - 2), ItemsAt(extra, r) PROVE AtItems(extra)'
      <4>1. ItemsAt(extra, r)' /\ r \in 0..(Len(message'.fields) - 2)
        BY <2>1, <3>3 DEF ItemsAt, ItemsLeft
      <4> QED BY <3>1, <4>1 DEF AtItems
    <3> QED BY <2>9, <3>2, <3>3 DEF AtItems
  <2>10. ASSUME AtRest PROVE AtRest'
    BY <2>1, <2>10 DEF AtRest
  <2>11. outcome' = "reading" => Reading(extra)'
    BY <2>1, <2>2, <2>6, <2>7, <2>8, <2>9, <2>10 DEF Reading
  <2>12. ReaderInv'
    BY <1>2, NextReaderInv DEF CodecInv
  <2> QED BY <2>2, <2>4, <2>5, <2>11, <2>12 DEF CodecInv
<1> QED BY <1>1, <1>2

\* A message that was not cut is handled if its type is known, and what is handled is what was
\* written, but for the two kinds that HandledAsWritten names: whatever the ids, names, payloads
\* and lists of items are, wherever it was cut, and whatever comes behind a struct message.
THEOREM HandledAsWrittenHolds == CodecSpec => []HandledAsWritten
<1>1. CodecInv => HandledAsWritten
  BY DEF CodecInv
<1> QED BY <1>1, InitCodecInv, NextCodecInv, PTL DEF CodecSpec
=============================================================================
