----------------------------- MODULE SteamProofs -----------------------------
(***************************************************************************)
(* Proofs about what goes through Steam: P2PSession, for any number of     *)
(* servers, tickets, changes, hellos and losses of Steam, and SteamHooks,  *)
(* for any users, callbacks and bounds.                                    *)
(*                                                                         *)
(* P2PSession.  BoundByLiveTicket is inductive together with the types of  *)
(* the client's members and the fact that there is one live ticket at a    *)
(* time: a server with two would be unbound when the first of them is      *)
(* cancelled.  GoneMeansForgotten is inductive given the types of the      *)
(* queues.  The first welcome needs to know what the queue holds before    *)
(* the hello and before the welcome (WelcomeInv).                          *)
(*                                                                         *)
(* SteamHooks.  The list the loop goes through is, as far as it goes, the  *)
(* one it began with (LoopInv), so that a callback has been run as often   *)
(* as the loop has passed it there (CountInv).                             *)
(***************************************************************************)
EXTENDS P2PSession, SteamHooks, FiniteSetTheorems, TLAPS

ClientOK ==
  /\ serverSteamId \in Servers \cup {NoServer}
  /\ \A h \in DOMAIN tickets : tickets[h] \in Servers \cup {NoServer}
OneTicket == \A g, h \in DOMAIN tickets : g = h

IInv == ClientOK /\ OneTicket /\ BoundByLiveTicket

\* The initial states satisfy the invariant.
LEMMA InitIInv == Init => IInv
BY P2PAssumption DEF Init, IInv, ClientOK, OneTicket, BoundByLiveTicket

\* Nothing but the client's steps touches the tickets or the server identity.
LEMMA OthersKeepClient ==
  ASSUME NEW s \in Servers,
         \/ OnServerHello(s) \/ ClientDisconnected(s) \/ ServerUpdate(s)
         \/ IncrementKillCount(s) \/ RetrieveMessage(s) \/ LogOn(s) \/ LogOff(s)
         \/ \E h \in Tickets, sendResult \in BOOLEAN : ClientConnected(s, h, sendResult)
  PROVE  UNCHANGED <<tickets, serverSteamId>>
BY DEF OnServerHello, ClientDisconnected, ServerUpdate, IncrementKillCount, RetrieveMessage,
       LogOn, LogOff, ClientConnected, client

\* Every step keeps the invariant.
LEMMA NextIInv == IInv /\ [Next]_vars => IInv'
<1> SUFFICES ASSUME IInv, [Next]_vars PROVE IInv'
  OBVIOUS
<1> USE DEF IInv
<1>1. NoServer \notin Servers
  BY P2PAssumption
<1>2. ASSUME UNCHANGED <<tickets, serverSteamId>> PROVE IInv'
  BY <1>2 DEF ClientOK, OneTicket, BoundByLiveTicket
<1>3. CASE SetAuthTicket
  <2>1. DOMAIN tickets = {} /\ serverSteamId' = serverSteamId
    BY <1>3 DEF SetAuthTicket
  <2>2. tickets' = [h \in {issued + 1} |-> NoServer]
    BY <1>3 DEF SetAuthTicket
  <2>3. serverSteamId = NoServer
    BY <2>1 DEF ClientOK, BoundByLiveTicket
  <2> QED
    BY <1>1, <2>1, <2>2, <2>3 DEF ClientOK, OneTicket, BoundByLiveTicket
<1>4. ASSUME NEW h \in Tickets, ClearAuthTicket(h) PROVE IInv'
  <2>1. h \in DOMAIN tickets
    BY <1>4 DEF ClearAuthTicket
  <2>2. tickets' = [g \in DOMAIN tickets \ {h} |-> tickets[g]]
    BY <1>4 DEF ClearAuthTicket
  <2>3. DOMAIN tickets = {h} /\ DOMAIN tickets' = {}
    BY <2>1, <2>2 DEF OneTicket
  <2>4. serverSteamId' = NoServer
    <3>1. CASE tickets[h] = NoServer
      <4>1. serverSteamId' = serverSteamId
        BY <1>4, <3>1 DEF ClearAuthTicket
      <4> QED
        BY <1>1, <2>3, <3>1, <4>1 DEF ClientOK, BoundByLiveTicket
    <3>2. CASE tickets[h] # NoServer
      <4>1. serverSteamId' = IdentityCleared(tickets[h])
        BY <1>4, <3>2 DEF ClearAuthTicket
      <4>2. tickets[h] \in Servers
        BY <2>1, <3>2 DEF ClientOK
      <4>3. serverSteamId = tickets[h]
        BY <2>1, <4>2 DEF BoundByLiveTicket
      <4> QED
        BY <4>1, <4>3 DEF IdentityCleared
    <3> QED
      BY <3>1, <3>2
  <2> QED
    BY <1>1, <2>3, <2>4 DEF ClientOK, OneTicket, BoundByLiveTicket
<1>5. ASSUME NEW s \in Servers, ClientUpdate(s) PROVE IInv'
  <2> DEFINE p == Head(toClient[s])
  <2>1. CASE p.kind = "connect" /\ ValidateTicket(p.ticket)
    <3>1. tickets' = [h \in DOMAIN tickets |-> IF h = p.ticket THEN s ELSE tickets[h]]
      BY <1>5, <2>1 DEF ClientUpdate
    <3>2. serverSteamId' = s
      BY <1>5, <2>1 DEF ClientUpdate
    <3>3. p.ticket \in DOMAIN tickets
      BY <2>1 DEF ValidateTicket
    <3>4. DOMAIN tickets = {p.ticket}
      BY <3>3 DEF OneTicket
    <3>5. DOMAIN tickets' = {p.ticket} /\ tickets'[p.ticket] = s
      BY <3>1, <3>4
    <3> HIDE DEF p
    <3> QED
      BY <3>2, <3>5 DEF ClientOK, OneTicket, BoundByLiveTicket
  <2>2. CASE ~(p.kind = "connect" /\ ValidateTicket(p.ticket))
    <3>1. UNCHANGED <<tickets, serverSteamId>>
      BY <1>5, <2>2 DEF ClientUpdate
    <3> QED
      BY <1>2, <3>1
  <2> QED
    BY <2>1, <2>2
<1>6. CASE NetSendMessage
  BY <1>2, <1>6 DEF NetSendMessage
<1>7. CASE UNCHANGED vars
  BY <1>2, <1>7 DEF vars, client
<1> QED
  BY <1>2, <1>3, <1>4, <1>5, <1>6, <1>7, OthersKeepClient DEF Next

\* The player is bound to a game server exactly while a ticket is live that the
\* server has presented, in every reachable state.
THEOREM BoundWhileTicketIsLive == Spec => []BoundByLiveTicket
<1>1. IInv => BoundByLiveTicket
  BY DEF IInv
<1> QED
  BY <1>1, InitIInv, NextIInv, PTL DEF Spec

-----------------------------------------------------------------------------
(* Types.                                                                  *)

\* What is put into a queue is of its kind.
LEMMA MessageTypes ==
  /\ Plain("welcome") \in GameMessages /\ Plain("unsubscribed") \in GameMessages
  /\ Kill \in ClientPackets
  /\ \A h \in Tickets : Connect(h) \in ClientPackets
  /\ \A v \in Versions : Cache(v) \in ServerPackets /\ Update(v) \in ServerPackets
  /\ ServerPackets \subseteq GameMessages
BY DEF Plain, Kill, Connect, Cache, Update, GameMessages, ClientPackets, ServerPackets

\* What a server's game makes of a message is a version or nothing.
LEMMA ViewedType ==
  ASSUME NEW m \in GameMessages, NEW v \in Versions \cup {Nothing}
  PROVE  Viewed(v, m) \in Versions \cup {Nothing}
BY DEF Viewed, GameMessages, ServerPackets

\* A packet to a server, or to none, leaves queues of packets.
LEMMA SentToType ==
  ASSUME TypeOK, NEW m \in ServerPackets, NEW s \in Servers \cup {NoServer}
  PROVE  SentTo(s, m) \in [Servers -> Seq(ServerPackets)]
BY DEF SentTo, TypeOK

\* Closing a session leaves queues of packets.
LEMMA SessionClosedType ==
  ASSUME TypeOK, NEW s \in Servers, SessionClosed(s)
  PROVE  /\ toClient' \in [Servers -> Seq(ClientPackets)]
         /\ toServer' \in [Servers -> Seq(ServerPackets)]
<1>1. /\ toClient \in [Servers -> Seq(ClientPackets)]
      /\ toServer \in [Servers -> Seq(ServerPackets)]
  BY DEF TypeOK
<1>2. CASE UNCHANGED packets
  BY <1>1, <1>2 DEF packets
<1>3. CASE /\ toClient' = [toClient EXCEPT ![s] = <<>>]
           /\ toServer' = [toServer EXCEPT ![s] = <<>>]
  <2>1. <<>> \in Seq(ClientPackets) /\ <<>> \in Seq(ServerPackets)
    OBVIOUS
  <2> QED
    BY <1>1, <1>3, <2>1
<1> QED
  BY <1>2, <1>3 DEF SessionClosed

\* The types hold initially.
LEMMA InitType == Init => TypeOK
<1> SUFFICES ASSUME Init PROVE TypeOK
  OBVIOUS
<1>1. \A S : <<>> \in Seq(S)
  OBVIOUS
<1>2. DOMAIN tickets = {} /\ tickets \in [DOMAIN tickets -> Servers \cup {NoServer}]
  BY DEF Init
<1> QED
  BY <1>1, <1>2, P2PAssumption DEF Init, TypeOK, Versions, Nothing

\* Every step keeps the types.
LEMMA NextType == TypeOK /\ [Next]_vars => TypeOK'
<1> SUFFICES ASSUME TypeOK, [Next]_vars PROVE TypeOK'
  OBVIOUS
<1> USE P2PAssumption
<1>1. CASE SetAuthTicket
  <2>1. issued + 1 \in Tickets /\ issued' \in 0..MaxTickets
    BY SMTT(30), <1>1 DEF SetAuthTicket, TypeOK, Tickets
  <2>2. DOMAIN tickets' = {issued + 1}
        /\ tickets' \in [DOMAIN tickets' -> Servers \cup {NoServer}]
    BY <1>1 DEF SetAuthTicket
  <2> QED
    BY <1>1, <2>1, <2>2 DEF SetAuthTicket, TypeOK, packets, server, games, bounds
<1>2. CASE NetSendMessage
  <2>1. version + 1 \in Versions
    BY SMTT(30), <1>2 DEF NetSendMessage, TypeOK, Versions
  <2>2. toServer' \in [Servers -> Seq(ServerPackets)]
    BY <1>2, <2>1, SentToType, MessageTypes DEF NetSendMessage, TypeOK
  <2> QED
    BY <1>2, <2>1, <2>2 DEF NetSendMessage, TypeOK, server, games, bounds
<1>3. ASSUME NEW h \in Tickets, ClearAuthTicket(h) PROVE TypeOK'
  <2>1. tickets' = [g \in DOMAIN tickets \ {h} |-> tickets[g]] /\ h \in DOMAIN tickets
    BY <1>3 DEF ClearAuthTicket
  <2>2. DOMAIN tickets' \subseteq Tickets
        /\ tickets' \in [DOMAIN tickets' -> Servers \cup {NoServer}]
    BY <2>1 DEF TypeOK
  <2>3. /\ serverSteamId' \in Servers \cup {NoServer}
        /\ toClient' \in [Servers -> Seq(ClientPackets)]
        /\ toServer' \in [Servers -> Seq(ServerPackets)]
    <3>1. CASE tickets[h] = NoServer
      BY <1>3, <3>1 DEF ClearAuthTicket, TypeOK, packets
    <3>2. CASE tickets[h] # NoServer
      <4>1. SessionClosed(tickets[h]) /\ serverSteamId' = IdentityCleared(tickets[h])
        BY <1>3, <3>2 DEF ClearAuthTicket
      <4>2. tickets[h] \in Servers
        BY <2>1, <3>2 DEF TypeOK
      <4> QED
        BY <4>1, <4>2, SessionClosedType DEF IdentityCleared, TypeOK
    <3> QED
      BY <3>1, <3>2
  <2> QED
    BY <1>3, <2>2, <2>3 DEF ClearAuthTicket, TypeOK, server, games, bounds
<1>4. ASSUME NEW s \in Servers, ClientUpdate(s) PROVE TypeOK'
  <2>1. toClient' \in [Servers -> Seq(ClientPackets)]
    BY <1>4 DEF ClientUpdate, TypeOK
  <2>2. /\ DOMAIN tickets' = DOMAIN tickets
        /\ tickets' \in [DOMAIN tickets' -> Servers \cup {NoServer}]
        /\ serverSteamId' \in Servers \cup {NoServer}
        /\ toServer' \in [Servers -> Seq(ServerPackets)]
    <3> DEFINE p == Head(toClient[s])
    <3>1. CASE p.kind = "connect" /\ ValidateTicket(p.ticket)
      <4>1. /\ tickets' = [h \in DOMAIN tickets |-> IF h = p.ticket THEN s ELSE tickets[h]]
            /\ serverSteamId' = s
            /\ toServer' = SentTo(s, Cache(version))
        BY <1>4, <3>1 DEF ClientUpdate, IdentityNow
      <4>2. SentTo(s, Cache(version)) \in [Servers -> Seq(ServerPackets)]
        BY SentToType, MessageTypes DEF TypeOK
      <4> HIDE DEF p
      <4> QED
        BY <4>1, <4>2 DEF TypeOK
    <3>2. CASE ~(p.kind = "connect" /\ ValidateTicket(p.ticket))
      <4>1. UNCHANGED <<tickets, serverSteamId, toServer>>
        BY <1>4, <3>2 DEF ClientUpdate
      <4> QED
        BY <4>1 DEF TypeOK
    <3> QED
      BY <3>1, <3>2
  <2> QED
    BY <1>4, <2>1, <2>2 DEF ClientUpdate, TypeOK, server, games, bounds
<1>5. ASSUME NEW s \in Servers, OnServerHello(s) PROVE TypeOK'
  <2>1. outgoing' \in [Servers -> Seq(GameMessages)]
    BY <1>5, MessageTypes DEF OnServerHello, TypeOK
  <2>2. hellos' \in [Servers -> 0..MaxHellos] /\ receivedHello' \in [Servers -> BOOLEAN]
    BY SMTT(30), <1>5 DEF OnServerHello, TypeOK
  <2> QED
    BY <1>5, <2>1, <2>2 DEF OnServerHello, TypeOK, client, packets, games
<1>6. ASSUME NEW s \in Servers, NEW h \in Tickets, NEW sendResult \in BOOLEAN,
             ClientConnected(s, h, sendResult)
      PROVE  TypeOK'
  <2>1. seat' \in [Servers -> 0..MaxTickets] /\ used' \subseteq Tickets
    BY SMTT(30), <1>6 DEF ClientConnected, TypeOK, Tickets
  <2>2. /\ clients' \in [Servers -> BOOLEAN]
        /\ toClient' \in [Servers -> Seq(ClientPackets)]
    <3>1. /\ clients \in [Servers -> BOOLEAN]
          /\ toClient \in [Servers -> Seq(ClientPackets)]
      BY DEF TypeOK
    <3>2. CASE /\ clients' = [clients EXCEPT ![s] = TRUE]
               /\ toClient' = [toClient EXCEPT ![s] = Append(@, Connect(h))]
      <4>1. Append(toClient[s], Connect(h)) \in Seq(ClientPackets)
        BY <3>1, MessageTypes
      <4> QED
        BY <3>1, <3>2, <4>1
    <3>3. CASE UNCHANGED <<clients, toClient>>
      BY <3>1, <3>3
    <3> QED
      BY <1>6, <3>2, <3>3 DEF ClientConnected
  <2> QED
    BY <1>6, <2>1, <2>2 DEF ClientConnected, TypeOK, client, bounds
<1>7. ASSUME NEW s \in Servers, ClientDisconnected(s) PROVE TypeOK'
  <2>1. outgoing' \in [Servers -> Seq(GameMessages)]
    BY <1>7, MessageTypes DEF ClientDisconnected, TypeOK
  <2>2. seat' \in [Servers -> 0..MaxTickets]
    BY <1>7 DEF ClientDisconnected, TypeOK
  <2>3. /\ clients' \in [Servers -> BOOLEAN]
        /\ toClient' \in [Servers -> Seq(ClientPackets)]
        /\ toServer' \in [Servers -> Seq(ServerPackets)]
    BY <1>7, SessionClosedType DEF ClientDisconnected, TypeOK, packets
  <2> QED
    BY <1>7, <2>1, <2>2, <2>3 DEF ClientDisconnected, TypeOK, client, bounds
<1>8. ASSUME NEW s \in Servers, ServerUpdate(s) PROVE TypeOK'
  <2>1. Head(toServer[s]) \in GameMessages
    BY <1>8, MessageTypes DEF ServerUpdate, TypeOK
  <2>2. outgoing' \in [Servers -> Seq(GameMessages)]
    BY SMTT(30), <1>8, <2>1 DEF ServerUpdate, TypeOK
  <2>3. toServer' \in [Servers -> Seq(ServerPackets)]
    BY <1>8 DEF ServerUpdate, TypeOK
  <2> QED
    BY <1>8, <2>2, <2>3 DEF ServerUpdate, TypeOK, client, games, bounds
<1>9. ASSUME NEW s \in Servers, IncrementKillCount(s) PROVE TypeOK'
  <2>1. toClient' \in [Servers -> Seq(ClientPackets)]
    <3>1. toClient \in [Servers -> Seq(ClientPackets)]
      BY DEF TypeOK
    <3>2. Append(toClient[s], Kill) \in Seq(ClientPackets)
      BY <3>1, MessageTypes
    <3> QED
      BY <1>9, <3>1, <3>2 DEF IncrementKillCount
  <2> QED
    BY <1>9, <2>1 DEF IncrementKillCount, TypeOK, client, server, games, bounds
<1>10. ASSUME NEW s \in Servers, RetrieveMessage(s) PROVE TypeOK'
  <2>1. Head(outgoing[s]) \in GameMessages
    BY <1>10 DEF RetrieveMessage, TypeOK
  <2>2. view' \in [Servers -> Versions \cup {Nothing}]
    BY <1>10, <2>1, ViewedType DEF RetrieveMessage, TypeOK
  <2>3. outgoing' \in [Servers -> Seq(GameMessages)]
    BY <1>10 DEF RetrieveMessage, TypeOK
  <2> QED
    BY <1>10, <2>2, <2>3 DEF RetrieveMessage, TypeOK, client, packets, bounds
<1>11. ASSUME NEW s \in Servers, LogOn(s) \/ LogOff(s) PROVE TypeOK'
  <2>1. loggedOn' \in [Servers -> BOOLEAN] /\ logOffs' \in 0..MaxLogOffs
    <3>1. loggedOn \in [Servers -> BOOLEAN] /\ logOffs \in 0..MaxLogOffs
      BY DEF TypeOK
    <3>2. CASE LogOn(s)
      BY <3>1, <3>2 DEF LogOn, bounds
    <3>3. CASE LogOff(s)
      <4>1. logOffs' \in 0..MaxLogOffs
        BY <3>1, <3>3 DEF LogOff
      <4>2. loggedOn' = [loggedOn EXCEPT ![s] = FALSE]
        BY <3>3 DEF LogOff
      <4> QED
        BY <3>1, <4>1, <4>2
    <3> QED
      BY <1>11, <3>2, <3>3
  <2>2. UNCHANGED <<client, packets, receivedHello, clients, outgoing, games, hellos>>
    BY <1>11 DEF LogOn, LogOff, bounds
  <2> QED
    BY <2>1, <2>2 DEF TypeOK, client, packets, games
<1>12. CASE UNCHANGED vars
  BY <1>12 DEF TypeOK, vars, client, packets, server, games, bounds
<1> QED
  BY <1>1, <1>2, <1>3, <1>4, <1>5, <1>6, <1>7, <1>8, <1>9, <1>10, <1>11, <1>12 DEF Next

\* Queues hold packets and messages of their kinds, and counters keep their bounds.
THEOREM TypeCorrect == Spec => []TypeOK
BY InitType, NextType, PTL DEF Spec

-----------------------------------------------------------------------------
(* What a server's queue holds.  Only five steps change the queue, what    *)
(* the server's game knows, or whether the player has a session.           *)

\* The steps that change none of it.
QueueKept == UNCHANGED <<outgoing, view, clients, receivedHello, hellos>>

LEMMA OthersKeepQueues ==
  ASSUME [Next]_vars
  PROVE  \/ QueueKept
         \/ \E s \in Servers :
              \/ OnServerHello(s) \/ ClientDisconnected(s) \/ ServerUpdate(s)
              \/ RetrieveMessage(s)
              \/ \E h \in Tickets, sendResult \in BOOLEAN : ClientConnected(s, h, sendResult)
BY DEF Next, QueueKept, vars, client, packets, server, games, bounds, SetAuthTicket,
       NetSendMessage, ClearAuthTicket, ClientUpdate, IncrementKillCount, LogOn, LogOff

\* The queue of one server without a session: what its game knows and every cache in
\* the queue are followed by a message that makes it forget.
Forgetting(msgs, known) ==
  /\ known # Nothing => \E j \in DOMAIN msgs : Forgets(msgs[j])
  /\ \A i \in DOMAIN msgs :
       msgs[i].kind = "cache" => \E j \in DOMAIN msgs : j > i /\ Forgets(msgs[j])

\* A message that makes the game forget, at the end of the queue, takes care of all.
LEMMA ForgettingAppended ==
  ASSUME NEW msgs \in Seq(GameMessages), NEW m \in GameMessages, Forgets(m), NEW known
  PROVE  Forgetting(Append(msgs, m), known)
<1> DEFINE q == Append(msgs, m)
<1>1. DOMAIN q = 1..(Len(msgs) + 1) /\ q[Len(msgs) + 1] = m
  OBVIOUS
<1>2. \A i \in DOMAIN msgs : q[i] = msgs[i]
  OBVIOUS
<1>3. Len(msgs) + 1 \in DOMAIN q /\ Forgets(q[Len(msgs) + 1])
  BY <1>1
<1>4. ASSUME NEW i \in DOMAIN q, q[i].kind = "cache" PROVE Len(msgs) + 1 > i
  BY <1>1, <1>4 DEF Forgets
<1> QED
  BY <1>3, <1>4 DEF Forgetting

\* Reading the first message of such a queue leaves one.
LEMMA ForgettingRead ==
  ASSUME NEW msgs \in Seq(GameMessages), msgs # <<>>, NEW known,
         Forgetting(msgs, known)
  PROVE  Forgetting(Tail(msgs), Viewed(known, Head(msgs)))
<1> DEFINE q == Tail(msgs)
<1>1. DOMAIN msgs = 1..Len(msgs) /\ DOMAIN q = 1..(Len(msgs) - 1) /\ Len(msgs) \in Nat
      /\ Len(msgs) > 0
  OBVIOUS
<1>2. \A i \in DOMAIN q : q[i] = msgs[i + 1]
  OBVIOUS
<1>3. Head(msgs) = msgs[1] /\ 1 \in DOMAIN msgs
  BY <1>1
<1>4. \A j \in DOMAIN msgs : j > 1 => j - 1 \in DOMAIN q /\ q[j - 1] = msgs[j]
  BY <1>1, <1>2
<1> HIDE DEF q
<1>5. ASSUME Viewed(known, Head(msgs)) # Nothing
      PROVE  \E j \in DOMAIN q : Forgets(q[j])
  <2>1. ~ Forgets(msgs[1])
    BY <1>3, <1>5 DEF Forgets, Viewed
  <2>2. msgs[1].kind = "cache" \/ known # Nothing
    BY <1>3, <1>5 DEF Viewed
  <2>3. PICK j \in DOMAIN msgs : Forgets(msgs[j])
    BY <1>3, <2>2 DEF Forgetting
  <2>4. j > 1
    BY <1>1, <2>1, <2>3
  <2> QED
    BY <1>4, <2>3, <2>4
<1>6. ASSUME NEW i \in DOMAIN q, q[i].kind = "cache"
      PROVE  \E j \in DOMAIN q : j > i /\ Forgets(q[j])
  <2>1. i + 1 \in DOMAIN msgs /\ msgs[i + 1].kind = "cache" /\ i \in Nat /\ i > 0
    BY <1>1, <1>2, <1>6
  <2>2. PICK j \in DOMAIN msgs : j > i + 1 /\ Forgets(msgs[j])
    BY <2>1 DEF Forgetting
  <2>3. j \in Nat /\ j > 1 /\ j - 1 > i
    BY <1>1, <2>1, <2>2
  <2> QED
    BY <1>4, <2>2, <2>3
<1> QED
  BY <1>5, <1>6 DEF Forgetting, q

GoneInv == \A s \in Servers : ~clients[s] => Forgetting(outgoing[s], view[s])

LEMMA InitGone == Init => GoneInv
BY DEF Init, GoneInv, Forgetting

\* A server without a session goes on forgetting, whatever happens to any server.
LEMMA NextGone == TypeOK /\ GoneInv /\ [Next]_vars => GoneInv'
<1> SUFFICES ASSUME TypeOK, GoneInv, [Next]_vars PROVE GoneInv'
  OBVIOUS
<1>1. /\ outgoing \in [Servers -> Seq(GameMessages)] /\ clients \in [Servers -> BOOLEAN]
      /\ DOMAIN view = Servers
  BY DEF TypeOK
<1>2. Forgets(Plain("welcome")) /\ Forgets(Plain("unsubscribed"))
  BY DEF Forgets, Plain
<1>3. CASE QueueKept
  BY <1>3 DEF QueueKept, GoneInv
<1>4. ASSUME NEW s \in Servers, OnServerHello(s) PROVE GoneInv'
  <2>1. /\ outgoing' = [outgoing EXCEPT ![s] = Append(@, Plain("welcome"))]
        /\ UNCHANGED <<clients, view>>
    BY <1>4 DEF OnServerHello, games
  <2>2. Forgetting(outgoing'[s], view'[s])
    BY <1>1, <1>2, <2>1, ForgettingAppended, MessageTypes
  <2> QED
    BY <1>1, <2>1, <2>2 DEF GoneInv
<1>5. ASSUME NEW s \in Servers, ClientDisconnected(s) PROVE GoneInv'
  <2>1. /\ outgoing' = [outgoing EXCEPT ![s] = Append(@, Plain("unsubscribed"))]
        /\ view' = view
        /\ \A t \in Servers \ {s} : clients'[t] = clients[t]
    BY <1>1, <1>5 DEF ClientDisconnected
  <2>2. Forgetting(outgoing'[s], view'[s])
    BY <1>1, <1>2, <2>1, ForgettingAppended, MessageTypes
  <2> QED
    BY <1>1, <2>1, <2>2 DEF GoneInv
<1>6. ASSUME NEW s \in Servers, ServerUpdate(s) PROVE GoneInv'
  <2>1. UNCHANGED <<clients, view>>
    BY <1>6 DEF ServerUpdate, games
  <2>2. \A t \in Servers : ~clients[t] => outgoing'[t] = outgoing[t]
    BY <1>1, <1>6 DEF ServerUpdate, HasSession
  <2> QED
    BY <2>1, <2>2 DEF GoneInv
<1>7. ASSUME NEW s \in Servers, RetrieveMessage(s) PROVE GoneInv'
  <2>1. /\ outgoing[s] # <<>>
        /\ outgoing' = [outgoing EXCEPT ![s] = Tail(@)]
        /\ view' = [view EXCEPT ![s] = Viewed(@, Head(outgoing[s]))]
        /\ clients' = clients
    BY <1>7 DEF RetrieveMessage
  <2>2. ~clients[s] => Forgetting(outgoing'[s], view'[s])
    BY <1>1, <2>1, ForgettingRead DEF GoneInv
  <2> QED
    BY <1>1, <2>1, <2>2 DEF GoneInv
<1>8. ASSUME NEW s \in Servers, NEW h \in Tickets, NEW sendResult \in BOOLEAN,
             ClientConnected(s, h, sendResult)
      PROVE  GoneInv'
  <2>1. UNCHANGED <<outgoing, view>>
    BY <1>8 DEF ClientConnected
  <2>2. \A t \in Servers : ~clients'[t] => ~clients[t]
    BY <1>1, <1>8 DEF ClientConnected
  <2> QED
    BY <2>1, <2>2 DEF GoneInv
<1> QED
  BY <1>3, <1>4, <1>5, <1>6, <1>7, <1>8, OthersKeepQueues

\* A server the player has left knows nothing of the player once its game has read its
\* queue, for any number of servers, tickets, changes and losses of Steam.
THEOREM LeftServersForget == Spec => []GoneMeansForgotten
<1>1. GoneInv => GoneMeansForgotten
  BY DEF GoneInv, GoneMeansForgotten, Forgetting
<1>2. TypeOK /\ GoneInv /\ [Next]_vars => TypeOK' /\ GoneInv'
  BY NextType, NextGone
<1> QED
  BY <1>1, <1>2, InitType, InitGone, PTL DEF Spec

-----------------------------------------------------------------------------
(* The first welcome of a server.                                          *)

\* Until the first hello there is nothing a player has sent; until the first welcome is
\* read, nothing of it is before the welcome.
BeforeHello(msgs, known) ==
  known = Nothing /\ \A i \in DOMAIN msgs : msgs[i].kind = "unsubscribed"
BeforeWelcome(msgs, known) ==
  \A i \in DOMAIN msgs :
    msgs[i].kind = "welcome" =>
      known = Nothing /\ \A j \in 1..(i - 1) : msgs[j].kind = "unsubscribed"

WelcomeInv ==
  \A s \in Servers :
    /\ receivedHello[s] => hellos[s] > 0
    /\ hellos[s] = 0 => BeforeHello(outgoing[s], view[s])
    /\ hellos[s] = 1 => BeforeWelcome(outgoing[s], view[s])

\* The welcome comes behind what was there before the hello.
LEMMA WelcomeAppended ==
  ASSUME NEW msgs \in Seq(GameMessages), NEW known, BeforeHello(msgs, known)
  PROVE  BeforeWelcome(Append(msgs, Plain("welcome")), known)
<1> DEFINE q == Append(msgs, Plain("welcome"))
<1>1. DOMAIN q = 1..(Len(msgs) + 1) /\ DOMAIN msgs = 1..Len(msgs) /\ Len(msgs) \in Nat
  OBVIOUS
<1>2. \A i \in DOMAIN msgs : q[i] = msgs[i]
  OBVIOUS
<1> HIDE DEF q
<1>3. ASSUME NEW i \in DOMAIN q, NEW j \in 1..(i - 1) PROVE q[j].kind = "unsubscribed"
  <2>1. j \in DOMAIN msgs
    BY <1>1
  <2> QED
    BY <1>2, <2>1 DEF BeforeHello
<1> QED
  BY <1>3 DEF BeforeWelcome, BeforeHello, q

\* Nothing else that is appended is a welcome.
LEMMA OtherAppended ==
  ASSUME NEW msgs \in Seq(GameMessages), NEW known, NEW m, m.kind # "welcome",
         BeforeWelcome(msgs, known)
  PROVE  BeforeWelcome(Append(msgs, m), known)
<1> DEFINE q == Append(msgs, m)
<1>1. DOMAIN q = 1..(Len(msgs) + 1) /\ DOMAIN msgs = 1..Len(msgs) /\ Len(msgs) \in Nat
      /\ q[Len(msgs) + 1] = m
  OBVIOUS
<1>2. \A i \in DOMAIN msgs : q[i] = msgs[i]
  OBVIOUS
<1> HIDE DEF q
<1>3. ASSUME NEW i \in DOMAIN q, q[i].kind = "welcome"
      PROVE  known = Nothing /\ \A j \in 1..(i - 1) : q[j].kind = "unsubscribed"
  <2>1. i \in DOMAIN msgs /\ msgs[i].kind = "welcome"
    BY <1>1, <1>2, <1>3
  <2>2. known = Nothing /\ \A j \in 1..(i - 1) : msgs[j].kind = "unsubscribed"
    BY <2>1 DEF BeforeWelcome
  <2>3. \A j \in 1..(i - 1) : j \in DOMAIN msgs
    BY <1>1, <2>1
  <2> QED
    BY <1>2, <2>2, <2>3
<1> QED
  BY <1>3 DEF BeforeWelcome, q

\* The game reads on: what is left still has nothing of a player before the welcome.
LEMMA WelcomeRead ==
  ASSUME NEW msgs \in Seq(GameMessages), msgs # <<>>, NEW known
  PROVE  /\ BeforeHello(msgs, known) => BeforeHello(Tail(msgs), Viewed(known, Head(msgs)))
         /\ BeforeWelcome(msgs, known) => BeforeWelcome(Tail(msgs), Viewed(known, Head(msgs)))
<1> DEFINE q == Tail(msgs)
<1>1. DOMAIN msgs = 1..Len(msgs) /\ DOMAIN q = 1..(Len(msgs) - 1) /\ Len(msgs) \in Nat
      /\ Len(msgs) > 0 /\ Head(msgs) = msgs[1]
  OBVIOUS
<1>2. \A i \in DOMAIN q : q[i] = msgs[i + 1] /\ i + 1 \in DOMAIN msgs /\ i \in Nat
  OBVIOUS
<1> HIDE DEF q
<1>3. msgs[1].kind = "unsubscribed" => Viewed(known, Head(msgs)) = Nothing
  BY <1>1 DEF Viewed
<1>4. ASSUME BeforeHello(msgs, known) PROVE BeforeHello(q, Viewed(known, Head(msgs)))
  BY <1>1, <1>2, <1>3, <1>4 DEF BeforeHello
<1>5. ASSUME BeforeWelcome(msgs, known) PROVE BeforeWelcome(q, Viewed(known, Head(msgs)))
  <2>1. ASSUME NEW i \in DOMAIN q, q[i].kind = "welcome"
        PROVE  /\ Viewed(known, Head(msgs)) = Nothing
               /\ \A j \in 1..(i - 1) : q[j].kind = "unsubscribed"
    <3>1. i + 1 \in DOMAIN msgs /\ msgs[i + 1].kind = "welcome" /\ i \in Nat /\ i >= 1
      BY <1>1, <1>2, <2>1
    <3>2. \A j \in 1..i : msgs[j].kind = "unsubscribed"
      BY <1>5, <3>1 DEF BeforeWelcome
    <3>3. \A j \in 1..(i - 1) : j \in DOMAIN q /\ j + 1 \in 1..i
      BY <1>1, <3>1
    <3>4. 1 \in 1..i
      BY <3>1
    <3> QED
      BY <1>2, <1>3, <3>2, <3>3, <3>4
  <2> QED
    BY <2>1 DEF BeforeWelcome
<1> QED
  BY <1>4, <1>5 DEF q

LEMMA InitWelcome == Init => WelcomeInv
<1> SUFFICES ASSUME Init, NEW s \in Servers
             PROVE  /\ receivedHello[s] => hellos[s] > 0
                    /\ hellos[s] = 0 => BeforeHello(outgoing[s], view[s])
                    /\ hellos[s] = 1 => BeforeWelcome(outgoing[s], view[s])
  BY DEF WelcomeInv
<1>1. hellos[s] = 0 /\ receivedHello[s] = FALSE /\ outgoing[s] = <<>> /\ view[s] = Nothing
  BY DEF Init
<1> QED
  BY <1>1 DEF BeforeHello

\* Every step keeps what players send behind the first welcome.
LEMMA NextWelcome == TypeOK /\ WelcomeInv /\ [Next]_vars => WelcomeInv'
<1> SUFFICES ASSUME TypeOK, WelcomeInv, [Next]_vars PROVE WelcomeInv'
  OBVIOUS
<1>1. /\ outgoing \in [Servers -> Seq(GameMessages)] /\ hellos \in [Servers -> 0..MaxHellos]
      /\ DOMAIN view = Servers /\ receivedHello \in [Servers -> BOOLEAN]
      /\ toServer \in [Servers -> Seq(ServerPackets)]
  BY DEF TypeOK
<1>2. MaxHellos \in Nat
  BY P2PAssumption
<1>3. CASE QueueKept
  BY <1>3 DEF QueueKept, WelcomeInv
<1>4. ASSUME NEW s \in Servers, OnServerHello(s) PROVE WelcomeInv'
  <2>1. /\ outgoing' = [outgoing EXCEPT ![s] = Append(@, Plain("welcome"))]
        /\ hellos' = [hellos EXCEPT ![s] = @ + 1]
        /\ receivedHello' = [receivedHello EXCEPT ![s] = TRUE]
        /\ view' = view
    BY <1>4 DEF OnServerHello, games
  <2>2. hellos[s] \in Nat /\ hellos'[s] = hellos[s] + 1
    BY <1>1, <1>2, <2>1
  <2>3. hellos'[s] = 1 => BeforeWelcome(outgoing'[s], view'[s])
    BY <1>1, <2>1, <2>2, WelcomeAppended DEF WelcomeInv
  <2> QED
    BY <1>1, <2>1, <2>2, <2>3 DEF WelcomeInv
<1>5. ASSUME NEW s \in Servers, ClientDisconnected(s) PROVE WelcomeInv'
  <2>1. /\ outgoing' = [outgoing EXCEPT ![s] = Append(@, Plain("unsubscribed"))]
        /\ UNCHANGED <<hellos, receivedHello, view>>
    BY <1>5 DEF ClientDisconnected, bounds
  <2>2. Plain("unsubscribed").kind = "unsubscribed"
    BY DEF Plain
  <2>3. hellos[s] = 0 => BeforeHello(outgoing'[s], view'[s])
    BY <1>1, <2>1, <2>2 DEF WelcomeInv, BeforeHello
  <2>4. hellos[s] = 1 => BeforeWelcome(outgoing'[s], view'[s])
    BY <1>1, <2>1, <2>2, OtherAppended DEF WelcomeInv
  <2> QED
    BY <1>1, <2>1, <2>3, <2>4 DEF WelcomeInv
<1>6. ASSUME NEW s \in Servers, ServerUpdate(s) PROVE WelcomeInv'
  <2>1. /\ UNCHANGED <<hellos, receivedHello, view>>
        /\ hellos[s] > 0 /\ toServer[s] # <<>>
        /\ outgoing' = outgoing \/ outgoing' = [outgoing EXCEPT ![s] = Append(@, Head(toServer[s]))]
    BY <1>6 DEF ServerUpdate, Runs, games, bounds, WelcomeInv
  <2>2. Head(toServer[s]).kind # "welcome"
    <3>1. Head(toServer[s]) \in ServerPackets
      BY <1>1, <2>1
    <3> QED
      BY <3>1 DEF ServerPackets
  <2>3. CASE outgoing' = outgoing
    BY <2>1, <2>3 DEF WelcomeInv
  <2>4. CASE outgoing' = [outgoing EXCEPT ![s] = Append(@, Head(toServer[s]))]
    <3>1. hellos[s] = 1 => BeforeWelcome(outgoing'[s], view'[s])
      BY <1>1, <2>1, <2>2, <2>4, OtherAppended DEF WelcomeInv
    <3>2. \A t \in Servers \ {s} : outgoing'[t] = outgoing[t]
      BY <1>1, <2>4
    <3>3. hellos[s] # 0
      BY <1>1, <1>2, <2>1
    <3> QED
      BY <1>1, <2>1, <3>1, <3>2, <3>3 DEF WelcomeInv
  <2> QED
    BY <2>1, <2>3, <2>4
<1>7. ASSUME NEW s \in Servers, RetrieveMessage(s) PROVE WelcomeInv'
  <2>1. /\ outgoing[s] # <<>>
        /\ outgoing' = [outgoing EXCEPT ![s] = Tail(@)]
        /\ view' = [view EXCEPT ![s] = Viewed(@, Head(outgoing[s]))]
        /\ UNCHANGED <<hellos, receivedHello>>
    BY <1>7 DEF RetrieveMessage, bounds
  <2> QED
    BY <1>1, <2>1, WelcomeRead DEF WelcomeInv
<1>8. ASSUME NEW s \in Servers, NEW h \in Tickets, NEW sendResult \in BOOLEAN,
             ClientConnected(s, h, sendResult)
      PROVE  WelcomeInv'
  BY <1>8 DEF ClientConnected, bounds, WelcomeInv
<1> QED
  BY <1>3, <1>4, <1>5, <1>6, <1>7, <1>8, OthersKeepQueues

\* The first welcome of a server's game finds nothing to wipe, for any number of
\* servers, players' tickets, changes, hellos and losses of Steam.
THEOREM FirstWelcomeFindsNothing == Spec => FirstWelcomeWipesNothing
<1>1. ASSUME TypeOK, WelcomeInv, NEW s \in Servers, RetrieveMessage(s),
             Head(outgoing[s]).kind = "welcome", hellos[s] = 1
      PROVE  view[s] = Nothing
  <2>1. /\ outgoing[s] # <<>> /\ outgoing[s] \in Seq(GameMessages)
    BY <1>1 DEF RetrieveMessage, TypeOK
  <2>2. 1 \in DOMAIN outgoing[s] /\ outgoing[s][1].kind = "welcome"
    BY <1>1, <2>1
  <2> QED
    BY <1>1, <2>2 DEF WelcomeInv, BeforeWelcome
<1>2. TypeOK /\ WelcomeInv /\ [Next]_vars => TypeOK' /\ WelcomeInv'
  BY NextType, NextWelcome
<1>3. TypeOK /\ WelcomeInv /\ [Next]_vars =>
        [\A s \in Servers :
           RetrieveMessage(s) /\ Head(outgoing[s]).kind = "welcome" /\ hellos[s] = 1
             => view[s] = Nothing]_vars
  BY <1>1
<1> QED
  BY <1>2, <1>3, InitType, InitWelcome, PTL DEF Spec, FirstWelcomeWipesNothing

-----------------------------------------------------------------------------
(* SteamHooks.                                                             *)

\* The list the loop goes through is, as far as the loop goes, the one it began with;
\* no callback of ours is known to Steam, so none is ever taken out.
LoopInv ==
  /\ Len(hooks) <= registrations
  /\ numbered \subseteq Other
  /\ Len(list) = end
  /\ next <= end + 1
  /\ \A c \in Callbacks : told[c] <= next - 1
  /\ ~moved => end <= Len(hooks) /\ \A i \in 1..end : hooks[i] = list[i]

\* The places before the loop's next one where the list has the callback c.
Passed(c) == {i \in 1..(next - 1) : list[i] = c}

\* How often the loop has run each callback.
CountInv ==
  ~moved => \A c \in Callbacks :
    told[c] = IF c \in Available \ ServerFlagged THEN Cardinality(Passed(c)) ELSE 0

HooksInv == HooksTypeOK /\ LoopInv

-----------------------------------------------------------------------------
(* Types and the loop.                                                     *)

LEMMA InitHooksInv == HooksInit => HooksInv
<1> SUFFICES ASSUME HooksInit PROVE HooksInv
  OBVIOUS
<1> USE SessionsAssumption DEF HooksInit, NoGC
<1>1. hooks \in Seq(Callbacks) /\ list \in Seq(Callbacks) /\ Len(hooks) = 0 /\ Len(list) = 0
  OBVIOUS
<1>2. told \in [Callbacks -> 0..MaxRegistered] /\ \A c \in Callbacks : told[c] <= next - 1
  BY DEF Untold
<1>3. HooksTypeOK
  <2>1. moved \in BOOLEAN
    BY Zenon
  <2> QED
    BY <1>1, <1>2, <2>1 DEF HooksTypeOK
<1>4. LoopInv
  BY <1>1, <1>2 DEF LoopInv
<1> QED
  BY <1>3, <1>4 DEF HooksInv

\* A handler that leaves the list and the loop alone preserves what is said of them.
LEMMA LoopUntouched ==
  ASSUME LoopInv, UNCHANGED <<hooks, numbered, registrations, next, end, moved, told, list>>
  PROVE  LoopInv'
BY DEF LoopInv

\* ShouldHookCallback is never true of a callback Steam has numbered.
LEMMA NothingRemoved ==
  ASSUME HooksInv, NEW c \in Callbacks, UnregisterCallback(c)
  PROVE  hooks' = hooks
BY CallbacksAssumption DEF HooksInv, LoopInv, UnregisterCallback, ShouldHookCallback

LEMMA NextHooksInv == HooksInv /\ [HooksNext]_hooksVars => HooksInv'
<1> SUFFICES ASSUME HooksInv, [HooksNext]_hooksVars PROVE HooksInv'
  OBVIOUS
<1> USE SessionsAssumption DEF HooksInv, NoGC
<1>1. CASE \E u \in Users : GetCoordinator(u) \/ ReleaseUser(u)
  <2>1. PICK u \in Users : GetCoordinator(u) \/ ReleaseUser(u)
    BY <1>1
  <2>2. UNCHANGED <<callbacks, loop>>
    BY <2>1 DEF GetCoordinator, ReleaseUser
  <2>3. LoopInv'
    BY <2>2, LoopUntouched DEF callbacks, loop
  <2>4. coordinators' \subseteq Users
    BY <2>1 DEF HooksTypeOK, GetCoordinator, ReleaseUser
  <2>5. /\ made' \in 0..MaxSessions /\ clientGC' \in 0..made' /\ existing' \subseteq 1..made'
        /\ produced' \in 0..MaxMessages /\ queued' \in 0..produced'
    <3>1. CASE GetCoordinator(u)
      <4>1. CASE MakesCoordinator(u) /\ u \in ClientUsers
        <5>1. /\ made' = made + 1 /\ made < MaxSessions /\ clientGC' = made + 1
              /\ existing' = existing \cup {made + 1} /\ queued' = 0 /\ produced' = produced
          BY <3>1, <4>1 DEF GetCoordinator
        <5>2. existing' \subseteq 1..made'
          BY <5>1 DEF HooksTypeOK
        <5> QED
          BY <5>1, <5>2 DEF HooksTypeOK
      <4>2. CASE ~(MakesCoordinator(u) /\ u \in ClientUsers)
        BY <3>1, <4>2 DEF HooksTypeOK, GetCoordinator
      <4> QED
        BY <4>1, <4>2
    <3>2. CASE ReleaseUser(u)
      BY <3>2 DEF HooksTypeOK, ReleaseUser, DeletedGC
    <3> QED
      BY <2>1, <3>1, <3>2
  <2>6. HooksTypeOK'
    BY <2>2, <2>4, <2>5 DEF HooksTypeOK, callbacks, loop
  <2> QED
    BY <2>3, <2>6
<1>2. CASE ReadMessage
  <2>1. LoopInv'
    BY <1>2, LoopUntouched DEF ReadMessage, callbacks
  <2>2. HooksTypeOK'
    BY <1>2 DEF HooksTypeOK, ReadMessage, proxy, callbacks
  <2> QED
    BY <2>1, <2>2
<1>3. CASE SendMessage
  <2>1. LoopInv'
    BY <1>3, LoopUntouched DEF SendMessage, callbacks, loop
  <2>2. HooksTypeOK'
    BY <1>3 DEF HooksTypeOK, SendMessage, proxy, callbacks, loop
  <2> QED
    BY <2>1, <2>2
<1>4. ASSUME NEW c \in Callbacks, RegisterCallback(c) PROVE HooksInv'
  <2>1. HooksTypeOK'
    <3>1. hooks' \in Seq(Callbacks) /\ numbered' \subseteq Callbacks
      <4>1. hooks' = Append(hooks, c) \/ hooks' = hooks
        BY <1>4 DEF RegisterCallback
      <4>2. numbered' = numbered \/ numbered' = numbered \cup {c}
        BY <1>4 DEF RegisterCallback
      <4>3. hooks' \in Seq(Callbacks)
        <5>1. hooks \in Seq(Callbacks)
          BY DEF HooksTypeOK
        <5>2. Append(hooks, c) \in Seq(Callbacks)
          BY <5>1, c \in Callbacks
        <5> QED
          BY <4>1, <5>1, <5>2
      <4>4. numbered' \subseteq Callbacks
        BY <4>2, Zenon DEF HooksTypeOK
      <4> QED
        BY <4>3, <4>4
    <3>2. moved' \in BOOLEAN
      BY <1>4, Zenon DEF HooksTypeOK, RegisterCallback
    <3>3. registrations' \in 0..MaxRegistered /\ registered' \subseteq Callbacks
      BY <1>4 DEF HooksTypeOK, RegisterCallback
    <3> QED
      BY <1>4, <3>1, <3>2, <3>3 DEF HooksTypeOK, RegisterCallback, proxy, queue
  <2>2. LoopInv'
    <3>1. CASE ShouldHookCallback(c)
      <4>1. hooks' = Append(hooks, c) /\ numbered' = numbered
        BY <3>1, <1>4 DEF RegisterCallback
      <4>2. Len(hooks') = Len(hooks) + 1 /\ \A i \in 1..Len(hooks) : hooks'[i] = hooks[i]
        BY <4>1 DEF HooksTypeOK
      <4>3. moved' \/ moved' = moved
        BY <3>1, <1>4 DEF RegisterCallback, HooksTypeOK
      <4> QED
        BY <4>1, <4>2, <4>3, <1>4 DEF LoopInv, HooksTypeOK, RegisterCallback
    <3>2. CASE ~ShouldHookCallback(c)
      BY <3>2, <1>4 DEF LoopInv, HooksTypeOK, RegisterCallback, ShouldHookCallback, Callbacks
    <3> QED
      BY <3>1, <3>2
  <2> QED
    BY <2>1, <2>2
<1>5. ASSUME NEW c \in Callbacks, UnregisterCallback(c) PROVE HooksInv'
  <2>1. hooks' = hooks
    BY <1>5, NothingRemoved
  <2>2. LoopInv'
    BY <1>5, <2>1, LoopUntouched DEF UnregisterCallback, loop
  <2>3. HooksTypeOK'
    BY <1>5, <2>1 DEF HooksTypeOK, UnregisterCallback, proxy, queue, loop
  <2> QED
    BY <2>2, <2>3
<1>6. CASE RunCallbacks
  <2>1. HooksTypeOK'
    <3>1. moved' \in BOOLEAN
      BY <1>6, Zenon DEF RunCallbacks
    <3>2. told' \in [Callbacks -> 0..MaxRegistered]
      BY <1>6 DEF RunCallbacks, Untold
    <3>3. at' \in {"game", "loop", "update"}
      BY <1>6 DEF RunCallbacks
    <3>4. next' \in 1..(MaxRegistered + 1) /\ end' \in 0..MaxRegistered
      BY <1>6 DEF HooksTypeOK, LoopInv, RunCallbacks
    <3> QED
      BY <1>6, <3>1, <3>2, <3>3, <3>4 DEF HooksTypeOK, RunCallbacks, proxy, queue, callbacks
  <2>2. LoopInv'
    BY <1>6 DEF HooksTypeOK, LoopInv, RunCallbacks, Untold, callbacks
  <2> QED
    BY <2>1, <2>2
<1>7. CASE RunEntry
  <2>1. next' = next + 1 /\ next <= end
    BY <1>7 DEF RunEntry, EndOfLoop
  <2>2. told' = told \/ \E c \in Callbacks : told' = [told EXCEPT ![c] = @ + 1]
    BY <1>7 DEF RunEntry, Entries, HooksTypeOK, Matches, Callbacks
  <2>3. told' \in [Callbacks -> 0..MaxRegistered]
    <3>1. told \in [Callbacks -> 0..MaxRegistered]
      BY DEF HooksTypeOK
    <3>2. \A c \in Callbacks : told[c] <= next - 1
      BY DEF LoopInv
    <3>3. next \in Nat /\ end \in 0..MaxRegistered /\ MaxRegistered \in Nat
      BY DEF HooksTypeOK
    <3>4. \A c \in Callbacks : told[c] + 1 \in 0..MaxRegistered
      <4> TAKE c \in Callbacks
      <4>1. told[c] \in Nat /\ told[c] <= next - 1
        BY <3>1, <3>2
      <4> QED
        BY ONLY <4>1, <3>3, <2>1
    <3>5. \A c \in Callbacks : [told EXCEPT ![c] = @ + 1] \in [Callbacks -> 0..MaxRegistered]
      BY ONLY <3>1, <3>4
    <3> QED
      BY ONLY <2>2, <3>1, <3>5
  <2>4. \A c \in Callbacks : told'[c] <= next' - 1
    <3> TAKE d \in Callbacks
    <3>1. told[d] <= next - 1 /\ told[d] \in Nat /\ next \in Nat
      BY DEF HooksTypeOK, LoopInv
    <3>2. told'[d] = told[d] \/ told'[d] = told[d] + 1
      BY <2>2 DEF HooksTypeOK
    <3> QED
      BY <2>1, <3>1, <3>2
  <2>5. reading' \in {"no", "told", "read"}
    BY <1>7 DEF RunEntry, HooksTypeOK
  <2>6. HooksTypeOK'
    BY <1>7, <2>1, <2>3, <2>5 DEF HooksTypeOK, RunEntry, proxy, queue, callbacks
  <2>7. LoopInv'
    <3>1. UNCHANGED <<hooks, numbered, registrations, list, end, moved>>
      BY <1>7 DEF RunEntry, callbacks
    <3>2. next' <= end + 1
      BY <2>1 DEF HooksTypeOK
    <3> QED
      BY <2>4, <3>1, <3>2 DEF LoopInv
  <2> QED
    BY <2>6, <2>7
<1>8. CASE LoopEnds \/ UpdateGC
  <2>1. LoopInv'
    BY <1>8, LoopUntouched DEF LoopEnds, UpdateGC, callbacks
  <2>2. HooksTypeOK'
    <3>1. produced' \in 0..MaxMessages /\ queued' \in 0..produced'
      BY <1>8 DEF HooksTypeOK, LoopEnds, UpdateGC, queue
    <3>2. at' \in {"game", "loop", "update"}
      BY <1>8 DEF LoopEnds, UpdateGC
    <3>3. UNCHANGED <<proxy, callbacks, next, end, moved, reading, told, list>>
      BY <1>8 DEF LoopEnds, UpdateGC
    <3> QED
      BY <3>1, <3>2, <3>3 DEF HooksTypeOK, proxy, callbacks
  <2> QED
    BY <2>1, <2>2
<1>9. CASE CallbackReturns
  <2>1. LoopInv'
    BY <1>9, LoopUntouched DEF CallbackReturns, callbacks
  <2>2. HooksTypeOK'
    BY <1>9 DEF HooksTypeOK, CallbackReturns, proxy, queue, callbacks
  <2> QED
    BY <2>1, <2>2
<1>10. CASE UNCHANGED hooksVars
  BY <1>10 DEF HooksTypeOK, LoopInv, hooksVars, proxy, queue, callbacks, loop
<1> QED
  BY <1>1, <1>2, <1>3, <1>4, <1>5, <1>6, <1>7, <1>8, <1>9, <1>10 DEF HooksNext, Frame

\* Every variable keeps its type: above all, the loop stays within the list's length
\* and no callback is run more often than there were entries.
THEOREM TypesKept == HooksSpec => []HooksTypeOK
<1>1. HooksInit => HooksInv
  BY InitHooksInv
<1>2. HooksInv /\ [HooksNext]_hooksVars => HooksInv'
  BY NextHooksInv
<1>3. HooksInv => HooksTypeOK
  BY DEF HooksInv
<1> QED
  BY <1>1, <1>2, <1>3, PTL DEF HooksSpec

-----------------------------------------------------------------------------
(* One ClientGC.                                                           *)

\* A ClientGC is made only when the client's user gets a coordinator proxy, which it
\* can only have given up with the ClientGC before: whichever user's proxy is
\* released, s_clientGC is the only instance there is.
THEOREM OneCoordinatorKept == HooksSpec => []OneCoordinator
<1>1. HooksInit => OneCoordinator
  BY DEF HooksInit, OneCoordinator, NoGC
<1>2. HooksTypeOK /\ OneCoordinator /\ [HooksNext]_hooksVars => OneCoordinator'
  <2> SUFFICES ASSUME HooksTypeOK, OneCoordinator, [HooksNext]_hooksVars PROVE OneCoordinator'
    OBVIOUS
  <2>1. ASSUME NEW u \in Users, GetCoordinator(u) PROVE OneCoordinator'
    <3>1. CASE MakesCoordinator(u) /\ u \in ClientUsers
      <4>1. coordinators \cap ClientUsers = {}
        BY <3>1, OneClientAssumption DEF MakesCoordinator
      <4>2. clientGC = NoGC /\ existing = {}
        BY <4>1 DEF OneCoordinator
      <4>3. clientGC' = made + 1 /\ existing' = {made + 1}
        BY <2>1, <3>1, <4>2 DEF GetCoordinator
      <4>4. u \in coordinators' \cap ClientUsers
        BY <2>1, <3>1 DEF GetCoordinator
      <4>5. made + 1 # NoGC
        BY SessionsAssumption DEF HooksTypeOK, NoGC
      <4> QED
        BY <4>3, <4>4, <4>5 DEF OneCoordinator
    <3>2. CASE ~(MakesCoordinator(u) /\ u \in ClientUsers)
      BY <2>1, <3>2 DEF GetCoordinator, OneCoordinator
    <3> QED
      BY <3>1, <3>2
  <2>2. ASSUME NEW u \in Users, ReleaseUser(u) PROVE OneCoordinator'
    BY <2>2 DEF ReleaseUser, DeletedGC, OneCoordinator
  <2>3. ASSUME UNCHANGED proxy PROVE OneCoordinator'
    BY <2>3 DEF proxy, OneCoordinator
  <2>4. CASE ReadMessage \/ SendMessage \/ CallbackReturns
    BY <2>3, <2>4 DEF ReadMessage, SendMessage, CallbackReturns
  <2>5. ASSUME NEW c \in Callbacks, RegisterCallback(c) \/ UnregisterCallback(c)
        PROVE  OneCoordinator'
    BY <2>3, <2>5 DEF RegisterCallback, UnregisterCallback
  <2>6. CASE Frame
    BY <2>3, <2>6 DEF Frame, RunCallbacks, RunEntry, LoopEnds, UpdateGC
  <2>7. CASE UNCHANGED hooksVars
    BY <2>3, <2>7 DEF hooksVars
  <2> QED
    BY <2>1, <2>2, <2>4, <2>5, <2>6, <2>7 DEF HooksNext
<1> QED
  BY <1>1, <1>2, TypesKept, PTL DEF HooksSpec

-----------------------------------------------------------------------------
(* Every callback once.                                                    *)

\* Going one entry on, only that entry's callback has been passed once more.
LEMMA PassedOn ==
  ASSUME HooksInv, RunEntry, ~moved, NEW c \in Callbacks
  PROVE  /\ IsFiniteSet(Passed(c))
         /\ hooks[next] \in Callbacks
         /\ Cardinality(Passed(c)') =
              IF c = hooks[next] THEN Cardinality(Passed(c)) + 1 ELSE Cardinality(Passed(c))
<1>1. next \in Nat /\ next >= 1 /\ next <= end /\ next' = next + 1 /\ list' = list
  BY SessionsAssumption DEF HooksInv, HooksTypeOK, RunEntry, EndOfLoop
<1>2. next <= Len(hooks) /\ hooks[next] = list[next] /\ hooks[next] \in Callbacks
  BY SMTT(30), <1>1 DEF HooksInv, HooksTypeOK, LoopInv
<1>3. IsFiniteSet(Passed(c))
  <2>1. IsFiniteSet(1..(next - 1))
    BY <1>1, FS_Interval
  <2> QED
    BY <2>1, FS_Subset DEF Passed
<1>4. next \notin Passed(c)
  BY <1>1 DEF Passed
<1>5. CASE c = hooks[next]
  <2>1. Passed(c)' = Passed(c) \cup {next}
    BY <1>1, <1>2, <1>5 DEF Passed
  <2> QED
    BY <1>2, <1>3, <1>4, <1>5, <2>1, FS_AddElement
<1>6. CASE c # hooks[next]
  <2>1. Passed(c)' = Passed(c)
    BY <1>1, <1>2, <1>6 DEF Passed
  <2> QED
    BY <1>2, <1>3, <1>6, <2>1
<1> QED
  BY <1>5, <1>6

\* A handler that leaves the loop alone leaves the counts.
LEMMA CountUntouched ==
  ASSUME CountInv, UNCHANGED <<next, moved, told, list>>
  PROVE  CountInv'
BY DEF CountInv, Passed

LEMMA NextCount == HooksInv /\ CountInv /\ [HooksNext]_hooksVars => CountInv'
<1> SUFFICES ASSUME HooksInv, CountInv, [HooksNext]_hooksVars PROVE CountInv'
  OBVIOUS
<1>1. ASSUME NEW u \in Users, GetCoordinator(u) \/ ReleaseUser(u) PROVE CountInv'
  BY <1>1, CountUntouched DEF GetCoordinator, ReleaseUser, loop
<1>2. CASE ReadMessage \/ SendMessage \/ CallbackReturns
  BY <1>2, CountUntouched DEF ReadMessage, SendMessage, CallbackReturns, loop
<1>3. ASSUME NEW c \in Callbacks, RegisterCallback(c) PROVE CountInv'
  <2>1. CASE moved'
    BY <2>1 DEF CountInv
  <2>2. CASE ~moved'
    <3>1. ~moved
      BY <1>3, <2>2 DEF RegisterCallback
    <3> QED
      BY <1>3, <3>1 DEF RegisterCallback, CountInv, Passed
  <2> QED
    BY <2>1, <2>2
<1>4. ASSUME NEW c \in Callbacks, UnregisterCallback(c) PROVE CountInv'
  BY <1>4, CountUntouched DEF UnregisterCallback, loop
<1>5. CASE RunCallbacks
  <2>1. \A c \in Callbacks : Passed(c)' = {}
    BY <1>5 DEF RunCallbacks, Passed
  <2>2. \A c \in Callbacks : told'[c] = 0
    BY <1>5 DEF RunCallbacks, Untold
  <2> QED
    BY <2>1, <2>2, FS_EmptySet DEF CountInv
<1>6. CASE RunEntry
  <2>1. CASE moved
    BY <1>6, <2>1 DEF RunEntry, CountInv
  <2>2. CASE ~moved
    <3>1. Entries = {hooks[next]}
      BY SMTT(30), <1>6, <2>2 DEF RunEntry, EndOfLoop, Entries, HooksInv, HooksTypeOK, LoopInv
    <3>2. ASSUME NEW c \in Callbacks
          PROVE  told'[c] = IF c \in Available \ ServerFlagged THEN Cardinality(Passed(c)')
                            ELSE 0
      <4>1. /\ hooks[next] \in Callbacks
            /\ Cardinality(Passed(c)') =
                 IF c = hooks[next] THEN Cardinality(Passed(c)) + 1 ELSE Cardinality(Passed(c))
        BY <1>6, <2>2, PassedOn
      <4>2. told[c] = IF c \in Available \ ServerFlagged THEN Cardinality(Passed(c)) ELSE 0
        BY <2>2 DEF CountInv
      <4>3. told' = IF hooks[next] \in Available \ ServerFlagged
                      THEN [told EXCEPT ![hooks[next]] = @ + 1] ELSE told
        BY <1>6, <3>1 DEF RunEntry, Matches
      <4> QED
        BY <4>1, <4>2, <4>3 DEF HooksInv, HooksTypeOK
    <3>3. ~moved'
      BY <1>6, <2>2 DEF RunEntry
    <3> QED
      BY <3>2 DEF CountInv, Passed
  <2> QED
    BY <2>1, <2>2
<1>7. CASE LoopEnds \/ UpdateGC
  BY <1>7, CountUntouched DEF LoopEnds, UpdateGC
<1>8. CASE UNCHANGED hooksVars
  BY <1>8, CountUntouched DEF hooksVars, loop
<1> QED
  BY <1>1, <1>2, <1>3, <1>4, <1>5, <1>6, <1>7, <1>8 DEF HooksNext, Frame

\* When the loop has ended every callback it was to run has been run once for each
\* entry, and no other, whatever was registered meanwhile, unless the list was moved.
THEOREM EachToldOnceHolds == HooksSpec => []EachToldOnce
<1>1. HooksInit => HooksInv /\ CountInv
  <2>1. ASSUME HooksInit PROVE CountInv
    <3>1. \A c \in Callbacks : Passed(c) = {} /\ told[c] = 0
      BY <2>1 DEF HooksInit, Passed, Untold
    <3> QED
      BY <3>1, FS_EmptySet DEF CountInv
  <2> QED
    BY <2>1, InitHooksInv
<1>2. HooksInv /\ CountInv /\ [HooksNext]_hooksVars => (HooksInv /\ CountInv)'
  BY NextHooksInv, NextCount
<1>3. HooksInv /\ CountInv => EachToldOnce
  <2> SUFFICES ASSUME HooksInv, CountInv, ~moved, next > end, NEW c \in Callbacks
               PROVE  told[c] = IF c \in Available \ ServerFlagged
                                  THEN Cardinality({i \in DOMAIN list : list[i] = c})
                                  ELSE 0
    BY DEF EachToldOnce
  <2>1. DOMAIN list = 1..(next - 1)
    BY SessionsAssumption DEF HooksInv, HooksTypeOK, LoopInv
  <2> QED
    BY <2>1 DEF CountInv, Passed
<1> QED
  BY <1>1, <1>2, <1>3, PTL DEF HooksSpec
=============================================================================
