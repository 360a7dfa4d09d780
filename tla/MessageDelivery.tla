-------------------------- MODULE MessageDelivery --------------------------
(***************************************************************************)
(* What TCPConnection (src/csgo_gc/tcp_connection.cpp) promises ClientGC   *)
(* of the coordinator's messages, whatever their size: those of one type   *)
(* are handed over whole, once and in the order they were sent, and those  *)
(* under way when the connection breaks are lost.  Messages of different   *)
(* types may overtake one another.  ChunkAssembly implements this.         *)
(***************************************************************************)
EXTENDS Naturals, Sequences

CONSTANT Types

VARIABLES
  sent,       \* the number of messages sent: each has the next number
  transit,    \* of each type, the messages sent and not yet handed over
  delivered   \* the messages handed over, in order

deliveryVars == <<sent, transit, delivered>>

Init ==
  /\ sent = 0
  /\ transit = [t \in Types |-> {}]
  /\ delivered = <<>>

Send(t) ==
  /\ sent' = sent + 1
  /\ transit' = [transit EXCEPT ![t] = @ \cup {sent + 1}]
  /\ UNCHANGED delivered

\* The message of the type that was sent before the others.
Deliver(t) ==
  /\ \E m \in transit[t] :
       /\ \A other \in transit[t] : m <= other
       /\ delivered' = Append(delivered, m)
       /\ transit' = [transit EXCEPT ![t] = @ \ {m}]
  /\ UNCHANGED sent

Break ==
  /\ transit' = [t \in Types |-> {}]
  /\ UNCHANGED <<sent, delivered>>

Next == (\E t \in Types : Send(t) \/ Deliver(t)) \/ Break

Spec == Init /\ [][Next]_deliveryVars
=============================================================================
