--------------------------- MODULE ChunkAssembly ---------------------------
(***************************************************************************)
(* How TCPConnection (src/csgo_gc/tcp_connection.cpp) puts the messages of *)
(* the coordinator together that arrive in several chunks: Update looks at *)
(* the chunk count, HandleChunkMsg collects the chunks by message type in  *)
(* m_pendingMessages, in the order they arrive, and ProcessChunkMsg takes  *)
(* a whole message.  Disconnecting drops what has been collected.          *)
(*                                                                         *)
(* The socket keeps the order of what is sent on it.  The coordinator      *)
(* (external) sends the messages of one type one after the other; chunks   *)
(* of different types may alternate.                                       *)
(***************************************************************************)
EXTENDS Naturals, SequencesExt

CONSTANTS
  Types,       \* message types
  MaxChunks,   \* chunks of the largest message
  MaxMessages, \* messages the coordinator sends (a bound)
  MaxBreaks    \* times the connection breaks (a bound)

ASSUME ChunkAssumption ==
  /\ MaxChunks \in Nat \ {0}
  /\ MaxMessages \in Nat /\ MaxBreaks \in Nat

VARIABLES
  sending,   \* of each type, the chunks of the current message still to be sent
  wire,      \* the chunks sent on m_socket and not yet read
  pending,   \* m_pendingMessages
  received,  \* the messages ProcessChunkMsg got, each a sequence of parts
  ended,     \* the last message begun by the time a connection ended
  sent, breaks   \* counters for the bounds; sent numbers the messages

vars == <<sending, wire, pending, received, ended, sent, breaks>>

Ids == 1..MaxMessages

\* A part of message m; a chunk is a part with its header: type and chunk count.
Parts == [message : Ids, index : 1..MaxChunks]
Chunks == [type : Types, count : 1..MaxChunks, part : Parts]

\* An entry of m_pendingMessages: chunks and expectedChunks.  receivedChunks is
\* the number of chunks filled, and an entry without any is taken for a new one.
Entries == [expected : 0..MaxChunks, chunks : Seq(Parts)]
NoEntry == [expected |-> 0, chunks |-> <<>>]
NothingPending == [t \in Types |-> NoEntry]

WholeMessage(t, m, n) ==
  [i \in 1..n |-> [type |-> t, count |-> n, part |-> [message |-> m, index |-> i]]]

Init ==
  /\ sending = [t \in Types |-> <<>>]
  /\ wire = <<>>
  /\ pending = NothingPending
  /\ received = <<>>
  /\ ended = 0
  /\ sent = 0 /\ breaks = 0

\* The coordinator begins a message of type t, once the one before is sent.
BeginMessage(t) ==
  /\ sent < MaxMessages
  /\ sending[t] = <<>>
  /\ sent' = sent + 1
  /\ \E n \in 1..MaxChunks :
       sending' = [sending EXCEPT ![t] = WholeMessage(t, sent + 1, n)]
  /\ UNCHANGED <<wire, pending, received, ended, breaks>>

SendChunk(t) ==
  /\ sending[t] # <<>>
  /\ wire' = Append(wire, Head(sending[t]))
  /\ sending' = [sending EXCEPT ![t] = Tail(@)]
  /\ UNCHANGED <<pending, received, ended, sent, breaks>>

\* The entry with a chunk added: expectedChunks is that of the first one.
Collected(entry, chunk) ==
  [expected |-> IF entry.chunks = <<>> THEN chunk.count ELSE entry.expected,
   chunks |-> Append(entry.chunks, chunk.part)]

\* All chunks have been received; and a slip: one more is waited for.
CompleteLate(entry) == Len(entry.chunks) > entry.expected
Complete(entry) == Len(entry.chunks) = entry.expected

\* Update reads a chunk; a message of one chunk is processed at once.
ReadSingle ==
  /\ wire # <<>>
  /\ Head(wire).count <= 1
  /\ wire' = Tail(wire)
  /\ received' = Append(received, <<Head(wire).part>>)
  /\ UNCHANGED <<sending, pending, ended, sent, breaks>>

\* HandleChunkMsg: collect the chunk, and process the message when it is complete.
HandleChunkMsg ==
  /\ wire # <<>>
  /\ Head(wire).count > 1
  /\ wire' = Tail(wire)
  /\ LET t == Head(wire).type
         entry == Collected(pending[t], Head(wire)) IN
     IF Complete(entry)
       THEN /\ received' = Append(received, entry.chunks)
            /\ pending' = [pending EXCEPT ![t] = NoEntry]
       ELSE /\ pending' = [pending EXCEPT ![t] = entry]
            /\ UNCHANGED received
  /\ UNCHANGED <<sending, ended, sent, breaks>>

\* The chunks of a type that have not been read, and the messages whose last one is
\* among them.
Unread(t) == {c \in Range(wire) \cup Range(sending[t]) : c.type = t}
IsLast(c) == c.part.index = c.count
Transit == [t \in Types |-> {c.part.message : c \in {d \in Unread(t) : IsLast(d)}}]

\* What is left of m_pendingMessages by CCDisconnect; and a slip: all of it.
PendingKept == pending
PendingAfterDisconnect == NothingPending

\* What was sent on the socket is gone with it.
SocketGone ==
  /\ wire' = <<>>
  /\ sending' = [t \in Types |-> <<>>]
  /\ ended' = sent
  /\ UNCHANGED <<received, sent>>

\* The connection is ended, refused or given up: CCDisconnect, and another one.
Disconnect ==
  /\ breaks < MaxBreaks
  /\ breaks' = breaks + 1
  /\ SocketGone
  /\ pending' = PendingAfterDisconnect

\* SocketStatusCallback of a socket connected for another instance: it becomes
\* m_socket, and nothing else is touched.
Switch ==
  /\ SocketGone
  /\ UNCHANGED <<pending, breaks>>

Update == ReadSingle \/ HandleChunkMsg

Next ==
  \/ \E t \in Types : BeginMessage(t) \/ SendChunk(t)
  \/ Update
  \/ Disconnect

Spec == Init /\ [][Next]_vars

\* With two instances, any number of switches: what is left of the promises then is
\* a matter of proof (MessageProofs).
SwitchingSpec == Init /\ [][Next \/ Switch]_vars

\* The frame loop calls Update, which reads all there is; a message begun is sent
\* to its end.
FairSpec == Spec /\ WF_vars(Update) /\ \A t \in Types : WF_vars(SendChunk(t))

-----------------------------------------------------------------------------
(* Properties.                                                             *)

\* Types and ranges; no entry has more chunks than the largest message.
TypeOK ==
  /\ sending \in [Types -> Seq(Chunks)]
  /\ wire \in Seq(Chunks)
  /\ pending \in [Types -> Entries]
  /\ \A t \in Types : Len(pending[t].chunks) <= MaxChunks
  /\ received \in Seq(Seq(Parts))
  /\ ended \in 0..MaxMessages
  /\ sent \in 0..MaxMessages /\ breaks \in 0..MaxBreaks

\* The place a chunk is stored at (chunks[receivedChunks]) is within the vector,
\* which has expectedChunks places: an entry kept is not full, and is of a message
\* of several chunks, whatever sockets the chunks came from.
InBounds ==
  \A t \in Types :
    \/ pending[t] = NoEntry
    \/ Len(pending[t].chunks) \in 1..pending[t].expected - 1

\* The parts are all of one message, from its first on.
Whole(parts) ==
  /\ parts # <<>>
  /\ \A i \in DOMAIN parts :
       parts[i].message = parts[1].message /\ parts[i].index = i

\* The message the parts make up; 0, which is none, if they do not.
Assembled(parts) == IF Whole(parts) THEN parts[1].message ELSE 0

\* TCPConnection hands messages over as MessageDelivery says: whole, once, in the
\* order of their type; what is under way when the connection breaks is lost.
Delivery ==
  INSTANCE MessageDelivery WITH
    transit <- Transit,
    delivered <- [i \in DOMAIN received |-> Assembled(received[i])]
DeliversWholeMessages == Delivery!Spec

\* Every message begun is handed over in the end, unless its connection broke.
EveryMessageArrives ==
  \A m \in Ids :
    m <= sent ~> \/ m <= ended
                 \/ \E i \in DOMAIN received : Assembled(received[i]) = m
=============================================================================
