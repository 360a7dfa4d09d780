----------------------------- MODULE P2PSession -----------------------------
(***************************************************************************)
(* How a player's items reach the game server: NetworkingClient            *)
(* (src/csgo_gc/networking_client.cpp) on the player's side, ServerGC and  *)
(* NetworkingServer (gc_server.cpp, networking_server.cpp) on each         *)
(* server's.  A server that lets the player in sends the player's auth     *)
(* ticket back as a connect message; a client that has issued that ticket  *)
(* takes the server for its game server and sends it the cache, and from   *)
(* then on every change.  The server passes what it gets to its game.      *)
(*                                                                         *)
(* One player, any number of servers.  Steam's P2P packets are reliable    *)
(* and ordered; closing a session may discard those under way.  The games  *)
(* are external: the player's holds one ticket at a time and presents each *)
(* to one server, a server's ends one auth session before it begins the    *)
(* next, and the two notice in any order that the player has left.         *)
(*                                                                         *)
(* The contents of the cache are a version number here, which ClientGC     *)
(* always sends up to date (ClientGC models what it really sends).         *)
(***************************************************************************)
EXTENDS Naturals, Sequences

CONSTANTS
  Servers,
  MaxTickets,   \* auth tickets the player's game asks for (a bound)
  MaxChanges,   \* changes of the player's items (a bound)
  MaxHellos,    \* hellos of each server's game (a bound)
  MaxLogOffs,   \* times a server loses Steam (a bound)
  MaxKills,     \* packets under way that still let a kill count follow (a bound)
  InitiallyOn   \* the servers that are logged on to begin with

NoServer == "no server"

ASSUME P2PAssumption ==
  /\ NoServer \notin Servers
  /\ InitiallyOn \subseteq Servers
  /\ MaxTickets \in Nat /\ MaxChanges \in Nat /\ MaxHellos \in Nat
  /\ MaxLogOffs \in Nat /\ MaxKills \in Nat

VARIABLES
  issued,           \* tickets the player's game has asked for
  tickets,          \* m_tickets: each live ticket with its steamId
  serverSteamId,    \* m_serverSteamId
  version,          \* of the player's items
  toClient,         \* packets to the player, of each server
  toServer,         \* packets to each server
  loggedOn,         \* IsSteamConnected() of each server
  receivedHello,    \* m_receivedHello
  clients,          \* the player is in m_clients
  outgoing,         \* m_outgoingMessages of each server
  seat,             \* the ticket of the player's auth session on each server, or 0
  used,             \* the tickets the player's game has presented
  view,             \* the version each server's game has, or Nothing
  hellos, logOffs   \* counters for the bounds

client == <<issued, tickets, serverSteamId, version>>
packets == <<toClient, toServer>>
server == <<loggedOn, receivedHello, clients, outgoing>>
games == <<seat, used, view>>
bounds == <<hellos, logOffs>>
vars == <<client, packets, server, games, bounds>>

Tickets == 1..MaxTickets
Versions == 1..MaxChanges + 1
Nothing == 0

\* Packets and messages.
Connect(h) == [kind |-> "connect", ticket |-> h]
Kill == [kind |-> "kill", ticket |-> 0]
Cache(v) == [kind |-> "cache", version |-> v]
Update(v) == [kind |-> "update", version |-> v]
Plain(kind) == [kind |-> kind]

ClientPackets == [kind : {"connect"}, ticket : Tickets] \cup [kind : {"kill"}, ticket : {0}]
ServerPackets == [kind : {"cache", "update"}, version : Versions]
GameMessages == ServerPackets \cup [kind : {"welcome", "unsubscribed"}]

Init ==
  /\ issued = 0 /\ tickets = [h \in {} |-> NoServer] /\ serverSteamId = NoServer
  /\ version = 1
  /\ toClient = [s \in Servers |-> <<>>] /\ toServer = [s \in Servers |-> <<>>]
  /\ loggedOn = [s \in Servers |-> s \in InitiallyOn]
  /\ receivedHello = [s \in Servers |-> FALSE]
  /\ clients = [s \in Servers |-> FALSE]
  /\ outgoing = [s \in Servers |-> <<>>]
  /\ seat = [s \in Servers |-> 0] /\ used = {} /\ view = [s \in Servers |-> Nothing]
  /\ hellos = [s \in Servers |-> 0] /\ logOffs = 0

\* CloseP2PSessionWithUser, on either side: what is under way may be discarded.
SessionClosed(s) ==
  \/ UNCHANGED packets
  \/ /\ toClient' = [toClient EXCEPT ![s] = <<>>]
     /\ toServer' = [toServer EXCEPT ![s] = <<>>]

-----------------------------------------------------------------------------
(* The player's side: NetworkingClient.                                    *)

\* The game asks for a ticket to join a server.
SetAuthTicket ==
  /\ DOMAIN tickets = {}
  /\ issued < MaxTickets
  /\ issued' = issued + 1
  /\ tickets' = [h \in {issued + 1} |-> NoServer]
  /\ UNCHANGED <<serverSteamId, version, packets, server, games, bounds>>

\* The server identity once a ticket the server bound had validated is cleared;
\* and a slip: it stays.
IdentityKept(bound) == serverSteamId
IdentityCleared(bound) == IF bound = serverSteamId THEN NoServer ELSE serverSteamId

ClearAuthTicket(h) ==
  /\ h \in DOMAIN tickets
  /\ tickets' = [g \in DOMAIN tickets \ {h} |-> tickets[g]]
  /\ IF tickets[h] = NoServer
       THEN UNCHANGED <<serverSteamId, packets>>
       ELSE /\ SessionClosed(tickets[h])
            /\ serverSteamId' = IdentityCleared(tickets[h])
  /\ UNCHANGED <<issued, version, server, games, bounds>>

\* ValidateTicket: the ticket is one of the live ones; and a slip: that of a ticket
\* that has been cancelled is accepted too.
ValidateAny(h) == h <= issued
ValidateTicket(h) == h \in DOMAIN tickets

\* NetSendMessage to the server with the given identity, if there is one.
SentTo(s, m) ==
  IF s = NoServer THEN toServer ELSE [toServer EXCEPT ![s] = Append(@, m)]

\* The identity when the cache is sent to the server that has just presented a
\* ticket: that server's, as it is set first.  And a slip: it is set afterwards.
IdentityBefore(s) == serverSteamId
IdentityNow(s) == s

\* Update: one packet a frame, of any server that has sent one.  A connect message
\* with a live ticket makes its server the player's server, and the cache goes
\* there; anything else is ignored, kill counts too, which ClientGC does nothing
\* with.
ClientUpdate(s) ==
  /\ toClient[s] # <<>>
  /\ toClient' = [toClient EXCEPT ![s] = Tail(@)]
  /\ LET p == Head(toClient[s]) IN
     IF p.kind = "connect" /\ ValidateTicket(p.ticket)
       THEN /\ tickets' = [h \in DOMAIN tickets |-> IF h = p.ticket THEN s ELSE tickets[h]]
            /\ serverSteamId' = s
            /\ toServer' = SentTo(IdentityNow(s), Cache(version))
       ELSE UNCHANGED <<tickets, serverSteamId, toServer>>
  /\ UNCHANGED <<issued, version, server, games, bounds>>

\* NetSendMessage of a change to the server the player is bound to, if any.
NetSendMessage ==
  /\ version <= MaxChanges
  /\ version' = version + 1
  /\ toServer' = SentTo(serverSteamId, Update(version + 1))
  /\ UNCHANGED <<issued, tickets, serverSteamId, toClient, server, games, bounds>>

-----------------------------------------------------------------------------
(* A server's side: ServerGC and NetworkingServer.                         *)

\* OnServerHello: reply with the welcome; networking runs from now on.
OnServerHello(s) ==
  /\ hellos[s] < MaxHellos
  /\ hellos' = [hellos EXCEPT ![s] = @ + 1]
  /\ outgoing' = [outgoing EXCEPT ![s] = Append(@, Plain("welcome"))]
  /\ receivedHello' = [receivedHello EXCEPT ![s] = TRUE]
  /\ UNCHANGED <<client, packets, loggedOn, clients, games, logOffs>>

\* The server lets the player in with ticket h: ClientConnected, which does nothing
\* while Steam is away, and forgets the player again if the packet cannot be sent.
ClientConnected(s, h, sendResult) ==
  /\ seat[s] = 0
  /\ h \in DOMAIN tickets \ used
  /\ seat' = [seat EXCEPT ![s] = h]
  /\ used' = used \cup {h}
  /\ IF loggedOn[s] /\ ~clients[s] /\ sendResult
       THEN /\ clients' = [clients EXCEPT ![s] = TRUE]
            /\ toClient' = [toClient EXCEPT ![s] = Append(@, Connect(h))]
       ELSE UNCHANGED <<clients, toClient>>
  /\ UNCHANGED <<client, toServer, loggedOn, receivedHello, outgoing, view, bounds>>

\* The server's game ends the auth session: the player's objects are unsubscribed
\* whether or not there ever were any.
ClientDisconnected(s) ==
  /\ seat[s] # 0
  /\ seat' = [seat EXCEPT ![s] = 0]
  /\ IF clients[s]
       THEN /\ clients' = [clients EXCEPT ![s] = FALSE]
            /\ SessionClosed(s)
       ELSE UNCHANGED <<clients, packets>>
  /\ outgoing' = [outgoing EXCEPT ![s] = Append(@, Plain("unsubscribed"))]
  /\ UNCHANGED <<client, loggedOn, receivedHello, used, view, bounds>>

\* The player has a session with the server; and a slip: anybody has.
AnySession(s) == TRUE
HasSession(s) == clients[s]

\* Networking runs once the game's hello has been answered; and a slip: at once.
RunsAtOnce(s) == TRUE
Runs(s) == receivedHello[s]

\* Update, once the hello has been received and while Steam is there: one packet a
\* frame, passed to the game if the player has a session.
ServerUpdate(s) ==
  /\ Runs(s) /\ loggedOn[s]
  /\ toServer[s] # <<>>
  /\ toServer' = [toServer EXCEPT ![s] = Tail(@)]
  /\ outgoing' = IF HasSession(s) THEN [outgoing EXCEPT ![s] = Append(@, Head(toServer[s]))]
                 ELSE outgoing
  /\ UNCHANGED <<client, toClient, loggedOn, receivedHello, clients, games, bounds>>

\* IncrementKillCount, sent if the player has a session.
IncrementKillCount(s) ==
  /\ clients[s]
  /\ Len(toClient[s]) < MaxKills
  /\ toClient' = [toClient EXCEPT ![s] = Append(@, Kill)]
  /\ UNCHANGED <<client, toServer, server, games, bounds>>

-----------------------------------------------------------------------------
(* The servers' games and Steam (external).                                *)

\* What a server's game knows of the player after the message m.
Viewed(v, m) ==
  CASE m.kind = "cache" -> m.version
    [] m.kind = "update" /\ v # Nothing -> m.version
    [] OTHER -> Nothing

RetrieveMessage(s) ==
  /\ outgoing[s] # <<>>
  /\ outgoing' = [outgoing EXCEPT ![s] = Tail(@)]
  /\ view' = [view EXCEPT ![s] = Viewed(@, Head(outgoing[s]))]
  /\ UNCHANGED <<client, packets, loggedOn, receivedHello, clients, seat, used, bounds>>

LogOn(s) ==
  /\ ~loggedOn[s]
  /\ loggedOn' = [loggedOn EXCEPT ![s] = TRUE]
  /\ UNCHANGED <<client, packets, receivedHello, clients, outgoing, games, bounds>>

LogOff(s) ==
  /\ loggedOn[s]
  /\ logOffs < MaxLogOffs
  /\ logOffs' = logOffs + 1
  /\ loggedOn' = [loggedOn EXCEPT ![s] = FALSE]
  /\ UNCHANGED <<client, packets, receivedHello, clients, outgoing, games, hellos>>

Next ==
  \/ SetAuthTicket \/ NetSendMessage
  \/ \E h \in Tickets : ClearAuthTicket(h)
  \/ \E s \in Servers :
       \/ ClientUpdate(s) \/ OnServerHello(s) \/ ClientDisconnected(s) \/ ServerUpdate(s)
       \/ IncrementKillCount(s) \/ RetrieveMessage(s) \/ LogOn(s) \/ LogOff(s)
       \/ \E h \in Tickets, sendResult \in BOOLEAN : ClientConnected(s, h, sendResult)

Spec == Init /\ [][Next]_vars

\* Both frame loops run and the servers' games take their messages.
FairSpec ==
  /\ Spec
  /\ \A s \in Servers :
       /\ WF_vars(ClientUpdate(s)) /\ WF_vars(ServerUpdate(s))
       /\ WF_vars(RetrieveMessage(s)) /\ WF_vars(LogOn(s))

-----------------------------------------------------------------------------
(* Properties.                                                             *)

\* Types of all variables.
TypeOK ==
  /\ issued \in 0..MaxTickets /\ version \in Versions
  /\ tickets \in [DOMAIN tickets -> Servers \cup {NoServer}]
  /\ DOMAIN tickets \subseteq Tickets
  /\ serverSteamId \in Servers \cup {NoServer}
  /\ toClient \in [Servers -> Seq(ClientPackets)]
  /\ toServer \in [Servers -> Seq(ServerPackets)]
  /\ loggedOn \in [Servers -> BOOLEAN] /\ receivedHello \in [Servers -> BOOLEAN]
  /\ clients \in [Servers -> BOOLEAN]
  /\ outgoing \in [Servers -> Seq(GameMessages)]
  /\ seat \in [Servers -> 0..MaxTickets] /\ used \subseteq Tickets
  /\ view \in [Servers -> Versions \cup {Nothing}]
  /\ hellos \in [Servers -> 0..MaxHellos] /\ logOffs \in 0..MaxLogOffs

\* The player sends items to a server exactly as long as a ticket is live that this
\* server has presented: cancelling the ticket ends it, whatever is still under way.
BoundByLiveTicket ==
  \A s \in Servers : serverSteamId = s <=> \E h \in DOMAIN tickets : tickets[h] = s

\* A server with which the player has no session knows nothing of the player's items
\* once its game has read its messages: what the player sends after leaving, or
\* has sent before, cannot subscribe them again.  What its game knows, and every
\* cache it has still to read, is followed by a message that takes it away.
Forgets(m) == m.kind \in {"welcome", "unsubscribed"}
GoneMeansForgotten ==
  \A s \in Servers : ~clients[s] =>
    /\ view[s] # Nothing => \E j \in DOMAIN outgoing[s] : Forgets(outgoing[s][j])
    /\ \A i \in DOMAIN outgoing[s] :
         outgoing[s][i].kind = "cache" =>
           \E j \in DOMAIN outgoing[s] : j > i /\ Forgets(outgoing[s][j])

\* The welcome, which has a server's game start with no objects at all, never wipes a
\* player's: networking waits for the hello and the queue keeps the order.  Only a game
\* that says hello again is told to start over.
FirstWelcomeWipesNothing ==
  [][\A s \in Servers :
       RetrieveMessage(s) /\ Head(outgoing[s]).kind = "welcome" /\ hellos[s] = 1
         => view[s] = Nothing]_vars

\* A server whose game and the player's agree for good that the player is there
\* ends with the player's items as they are, if it was reached at all.
Playing(s) == clients[s] /\ seat[s] \in DOMAIN tickets
ServerCatchesUp ==
  \A s \in Servers :
    <>[](Playing(s) /\ receivedHello[s] /\ loggedOn[s]) => <>[](view[s] = version)
=============================================================================
