---------------------------- MODULE GCConnection ----------------------------
(***************************************************************************)
(* TCPConnection (src/csgo_gc/tcp_connection.cpp): the link of the game    *)
(* client to the remote game coordinator over Steam's legacy connection    *)
(* sockets.  ClientGC::OnClientHello makes a new TCPConnection each time   *)
(* the game says hello; the previous one is neither deleted nor            *)
(* unregistered, so several instances can be alive.  Only the newest one   *)
(* is updated, but a SocketStatusCallback_t reaches every registered one,  *)
(* whatever socket it is about.                                            *)
(*                                                                         *)
(* Everything the program does runs on the game's main thread, in frames:  *)
(* the game's own code ("game"), Steam's callback dispatch ("callbacks",   *)
(* "dispatch"), then TCPConnection::Update, whose receive loop is a step   *)
(* per message ("drain").  Steam's sockets and the remote server are       *)
(* external and may act between any two of these steps.                    *)
(***************************************************************************)
EXTENDS Heartbeat, Sequences, FiniteSets

CONSTANTS
  MaxConns,           \* instances the game's hellos make (a bound)
  MaxSockets,         \* sockets ever created (a bound)
  MaxFaults,          \* socket failures the network causes (a bound)
  MaxInbox,           \* answers waiting on a socket (a bound)
  MAX_RECONNECT_ATTEMPTS,
  CallsMayFail,       \* whether gethostbyname and GetAuthSessionTicket may fail
  Junk,               \* an auth ticket handle this component never obtained
  InitialHandles      \* what m_tempauthhandle may hold before its first assignment

ASSUME BoundsAssumption ==
  /\ MaxConns \in Nat \ {0}
  /\ MaxSockets \in Nat \ {0}
  /\ MaxFaults \in Nat
  /\ MaxInbox \in Nat \ {0}
  /\ MAX_RECONNECT_ATTEMPTS \in Nat

ASSUME HeartbeatAssumption ==
  /\ HeartbeatInterval \in Nat \ {0}
  /\ HeartbeatTimeout \in Nat
  /\ HeartbeatInterval < HeartbeatTimeout

ASSUME ChoiceAssumption == CallsMayFail \in BOOLEAN

Conns == 1..MaxConns
Sockets == 1..MaxSockets
NoSocket == 0
NoTicket == 0     \* k_HAuthTicketInvalid

\* The handle an instance gets for a socket is named by that socket, so that
\* <<c, s>> names a ticket.
Tickets == {NoTicket} \cup Sockets

ASSUME HandleAssumption ==
  /\ Junk \notin Tickets
  /\ InitialHandles \in SUBSET {NoTicket, Junk}

(* ESNetSocketState, the values the callback tells apart. *)
k_ESNetSocketStateConnected == 1
k_ESNetSocketStateLocalDisconnect == 22
k_ESNetSocketStateTimeoutDuringConnect == 23
k_ESNetSocketStateConnectionBroken == 25
SocketStates == 0..25

VARIABLES
  made,      \* instances constructed so far; the newest is m_gcConnection
  link,      \* the members of each instance
  phase,     \* where the main thread is in its frame
  todo,      \* instances the event being dispatched has still to reach
  events,    \* SocketStatusCallback_t events Steam has queued
  opened,    \* sockets created so far
  sock,      \* each socket: its state, the messages received and not yet read,
             \* the GCWelcomes and heartbeats the server has not answered
  live,      \* auth tickets obtained and not cancelled
  faults     \* socket failures so far

program == <<made, link, phase, todo>>
steam == <<events, opened, sock, live, faults>>
vars == <<program, steam>>

Links == [socket : {NoSocket} \cup Sockets, connected : BOOLEAN,
          registered : BOOLEAN, sent : BOOLEAN, age : 0..HeartbeatTimeout,
          verified : BOOLEAN, ticket : Tickets \cup {Junk},
          attempts : 0..MAX_RECONNECT_ATTEMPTS]

Messages == {"confirm", "reject", "heartbeat"}

SocketStatus ==
  {"unused", "connecting", "connected", "failed", "destroyed", "closed"}
SocketRecords == [status : SocketStatus, inbox : Seq(Messages),
                  greetings : Nat, pings : Nat]

\* A socket no message has travelled on.
Quiet(status) == [status |-> status, inbox |-> <<>>, greetings |-> 0, pings |-> 0]

\* The constructor; every member but m_tempauthhandle is initialised.
Constructed(handle) ==
  [socket |-> NoSocket, connected |-> FALSE, registered |-> FALSE,
   sent |-> FALSE, age |-> 0, verified |-> FALSE, ticket |-> handle,
   attempts |-> 0]

Init ==
  /\ made = 0
  /\ link = [c \in Conns |-> Constructed(NoTicket)]
  /\ phase = "game"
  /\ todo = {}
  /\ events = <<>>
  /\ opened = 0
  /\ sock = [s \in Sockets |-> Quiet("unused")]
  /\ live = {}
  /\ faults = 0

-----------------------------------------------------------------------------
(* The members' updates, as functions of an instance's members.            *)

\* CCConnect once the host name has resolved.
ConnectStarted(r) ==
  [r EXCEPT !.verified = FALSE, !.sent = FALSE, !.age = 0, !.registered = TRUE]

\* Two slips CCDisconnect could have: the ticket, or m_connected, not reset.
DisconnectedTicketKept(r) ==
  [r EXCEPT !.registered = FALSE, !.socket = NoSocket, !.connected = FALSE]
DisconnectedFlagKept(r) ==
  [r EXCEPT !.registered = FALSE, !.socket = NoSocket, !.ticket = NoTicket]

\* CCDisconnect.
Disconnected(r) ==
  [r EXCEPT !.registered = FALSE, !.socket = NoSocket, !.connected = FALSE,
            !.ticket = NoTicket]

\* The Connected branch of SocketStatusCallback.
Attached(r, s, handle) ==
  [r EXCEPT !.socket = s, !.connected = TRUE, !.ticket = handle]

\* The tickets left when instance c cancels the handle h; a handle that is no live
\* ticket, such as that of the uninitialised member, cancels nothing.
Cancelled(c, h) == live \ {<<c, h>>}

\* SteamNetworking()->DestroySocket(h): what was under way on it is lost.
Destroyed(sk, h) ==
  IF h = NoSocket THEN sk ELSE [sk EXCEPT ![h] = Quiet("destroyed")]

\* CCDisconnect by c: the temporary ticket is cancelled unless it is invalid.
DisconnectEffects(c) ==
  live' = IF link[c].ticket = NoTicket THEN live ELSE Cancelled(c, link[c].ticket)

\* CCConnect by an instance with members r that is not connected, when Steam's
\* sockets are sk: a socket is requested, or the name does not resolve.
Connect(c, r, sk) ==
  \/ /\ link' = [link EXCEPT ![c] = ConnectStarted(r)]
     /\ opened' = opened + 1
     /\ sock' = [sk EXCEPT ![opened + 1] = Quiet("connecting")]
  \/ /\ CallsMayFail
     /\ link' = [link EXCEPT ![c] = r]
     /\ opened' = opened
     /\ sock' = sk

\* CCDisconnect followed by CCConnect.
Reconnect(c, r) ==
  /\ opened < MaxSockets
  /\ DisconnectEffects(c)
  /\ Connect(c, Disconnected(r), Destroyed(sock, r.socket))

-----------------------------------------------------------------------------
(* The game and Steam's callback dispatch.                                 *)

\* ClientGC::OnClientHello: a new instance, connected at once; the previous
\* one stays as it is.
OnClientHello ==
  /\ phase = "game"
  /\ made < MaxConns
  /\ opened < MaxSockets
  /\ made' = made + 1
  /\ \E handle \in InitialHandles : Connect(made + 1, Constructed(handle), sock)
  /\ UNCHANGED <<phase, todo, events, live, faults>>

\* The game calls SteamAPI_RunCallbacks.
RunCallbacks ==
  /\ phase = "game"
  /\ phase' = "callbacks"
  /\ UNCHANGED <<made, link, todo, steam>>

\* The instances whose callback is registered; without the Unregister of
\* CCDisconnect it would be every instance.
EveryInstance == 1..made
Listeners == {c \in Conns : link[c].registered}

\* Steam takes up the next event, for every instance registered at that time.
StartDispatch ==
  /\ phase = "callbacks"
  /\ events # <<>>
  /\ phase' = "dispatch"
  /\ todo' = Listeners
  /\ UNCHANGED <<made, link, steam>>

EndDispatch ==
  /\ phase = "dispatch"
  /\ todo = {}
  /\ phase' = "callbacks"
  /\ events' = Tail(events)
  /\ UNCHANGED <<made, link, todo, opened, sock, live, faults>>

\* Two slips in the comparison of SocketStatusCallback.
IsLossAfterTimeout(state) ==
  state = 0 \/ state > k_ESNetSocketStateTimeoutDuringConnect
IsLossOnTimeoutOnly(state) ==
  state = 0 \/ state = k_ESNetSocketStateTimeoutDuringConnect

\* The states after which SocketStatusCallback reconnects.
IsLoss(state) ==
  state = 0 \/ state >= k_ESNetSocketStateTimeoutDuringConnect

\* SocketStatusCallback, not Connected: reconnect after a loss, else nothing.
StatusLost(c) ==
  /\ phase = "dispatch"
  /\ c \in todo
  /\ Head(events).state # k_ESNetSocketStateConnected
  /\ IF IsLoss(Head(events).state)
       THEN Reconnect(c, link[c])
       ELSE UNCHANGED <<link, opened, sock, live>>
  /\ todo' = todo \ {c}
  /\ UNCHANGED <<made, phase, events, faults>>

\* SocketStatusCallback, Connected: take the event's socket, get a ticket
\* (Steam may refuse one) over whatever handle was there, and send GCWelcome.
StatusConnected(c) ==
  LET s == Head(events).socket IN
  /\ phase = "dispatch"
  /\ c \in todo
  /\ Head(events).state = k_ESNetSocketStateConnected
  /\ \E handle \in {s} \cup (IF CallsMayFail THEN {NoTicket} ELSE {}) :
       /\ link' = [link EXCEPT ![c] = Attached(link[c], s, handle)]
       /\ live' = IF handle = NoTicket THEN live ELSE live \cup {<<c, handle>>}
  /\ sock' = IF sock[s].status = "connected"
               THEN [sock EXCEPT ![s].greetings = @ + 1] ELSE sock
  /\ todo' = todo \ {c}
  /\ UNCHANGED <<made, phase, events, opened, faults>>

-----------------------------------------------------------------------------
(* TCPConnection::Update of the newest instance.                           *)

SocketUp(c) ==
  link[c].socket # NoSocket /\ sock[link[c].socket].status = "connected"

\* Update runs when the callbacks have; it returns at once without a socket or
\* when GetSocketInfo does not say Connected.
BeginUpdate ==
  /\ phase = "callbacks"
  /\ events = <<>>
  /\ phase' = IF made # 0 /\ SocketUp(made) THEN "drain" ELSE "game"
  /\ UNCHANGED <<made, link, todo, steam>>

DataAvailable(c) ==
  link[c].socket # NoSocket /\ sock[link[c].socket].inbox # <<>>

\* The next message is m; what its handler leaves alone.
Received(c, m) ==
  /\ phase = "drain"
  /\ DataAvailable(c)
  /\ Head(sock[link[c].socket].inbox) = m
  /\ UNCHANGED <<made, phase, todo, events, opened, faults>>

\* RetrieveDataFromSocket on c's socket.
Retrieved(c) == [sock EXCEPT ![link[c].socket].inbox = Tail(@)]

\* GCConfirmAuth, accepted: the ticket has served, whatever it is by now.
ConfirmAuth(c) ==
  /\ Received(c, "confirm")
  /\ link' = [link EXCEPT ![c].verified = TRUE, ![c].ticket = NoTicket]
  /\ live' = Cancelled(c, link[c].ticket)
  /\ sock' = Retrieved(c)

\* GCConfirmAuth, rejected: the connection is given up.
RejectAuth(c) ==
  /\ Received(c, "reject")
  /\ link' = [link EXCEPT ![c] = Disconnected(link[c])]
  /\ sock' = Destroyed(sock, link[c].socket)
  /\ DisconnectEffects(c)

\* GCHeartbeat: the server is alive.
HeartbeatReply(c) ==
  /\ Received(c, "heartbeat")
  /\ link' = [link EXCEPT ![c].age = 0, ![c].sent = FALSE]
  /\ sock' = Retrieved(c)
  /\ UNCHANGED live

\* The end of Update, when no data is left.
Drained(c) == phase = "drain" /\ ~DataAvailable(c)

MayRetry(r) == r.attempts < MAX_RECONNECT_ATTEMPTS

\* No heartbeat came back: drop the link, and reconnect while attempts remain.
HeartbeatLost(c) ==
  /\ Drained(c)
  /\ TimedOut(link[c].sent, link[c].age)
  /\ IF MayRetry(link[c])
       THEN Reconnect(c, [link[c] EXCEPT !.attempts = @ + 1])
       ELSE /\ link' = [link EXCEPT ![c] = Disconnected(link[c])]
            /\ sock' = Destroyed(sock, link[c].socket)
            /\ DisconnectEffects(c)
            /\ UNCHANGED opened
  /\ phase' = "game"
  /\ UNCHANGED <<made, todo, events, faults>>

\* A heartbeat is due: it is sent, if NetSendMessage finds the link connected.
SendHeartbeat(c) ==
  /\ Drained(c)
  /\ BeatDue(link[c].sent, link[c].age)
  /\ link' = [link EXCEPT ![c].sent = TRUE]
  /\ sock' = IF link[c].connected /\ SocketUp(c)
               THEN [sock EXCEPT ![link[c].socket].pings = @ + 1] ELSE sock
  /\ phase' = "game"
  /\ UNCHANGED <<made, todo, events, opened, live, faults>>

NoHeartbeat(c) ==
  /\ Drained(c)
  /\ ~TimedOut(link[c].sent, link[c].age)
  /\ ~BeatDue(link[c].sent, link[c].age)
  /\ phase' = "game"
  /\ UNCHANGED <<made, link, todo, steam>>

Update(c) ==
  \/ ConfirmAuth(c) \/ RejectAuth(c) \/ HeartbeatReply(c)
  \/ HeartbeatLost(c) \/ SendHeartbeat(c) \/ NoHeartbeat(c)

-----------------------------------------------------------------------------
(* Steam's sockets, the server and the clock (external).                   *)

\* Time passes; an age beyond the timeout is not told apart from it, and the age
\* of a superseded instance, whose Update never runs, is not counted.
Tick ==
  /\ made # 0
  /\ link[made].age < HeartbeatTimeout
  /\ link' = [link EXCEPT ![made].age = @ + 1]
  /\ UNCHANGED <<made, phase, todo, steam>>

Posted(s, state) == Append(events, [socket |-> s, state |-> state])

\* The socket connects and Steam queues the event.
SocketConnects(s) ==
  /\ sock[s].status = "connecting"
  /\ sock' = [sock EXCEPT ![s].status = "connected"]
  /\ events' = Posted(s, k_ESNetSocketStateConnected)
  /\ UNCHANGED <<program, opened, live, faults>>

\* The attempt times out, or the remote end or the network ends the link; what
\* the server had still to answer is lost.
SocketFails(s) ==
  /\ faults < MaxFaults
  /\ faults' = faults + 1
  /\ \/ /\ sock[s].status = "connecting"
        /\ events' = Posted(s, k_ESNetSocketStateTimeoutDuringConnect)
     \/ /\ sock[s].status = "connected"
        /\ events' = Posted(s, k_ESNetSocketStateConnectionBroken)
  /\ sock' = [sock EXCEPT ![s].status = "failed", ![s].greetings = 0, ![s].pings = 0]
  /\ UNCHANGED <<program, opened, live>>

\* Steam reports that a socket destroyed here is gone.
SocketClosed(s) ==
  /\ sock[s].status = "destroyed"
  /\ sock' = [sock EXCEPT ![s].status = "closed"]
  /\ events' = Posted(s, k_ESNetSocketStateLocalDisconnect)
  /\ UNCHANGED <<program, opened, live, faults>>

\* The server answers a GCWelcome: accepted or not.
AnswerGreeting(s) ==
  /\ sock[s].status = "connected"
  /\ sock[s].greetings > 0
  /\ Len(sock[s].inbox) < MaxInbox
  /\ \E m \in {"confirm", "reject"} :
       sock' = [sock EXCEPT ![s].greetings = @ - 1, ![s].inbox = Append(@, m)]
  /\ UNCHANGED <<program, events, opened, live, faults>>

AnswerPing(s) ==
  /\ sock[s].status = "connected"
  /\ sock[s].pings > 0
  /\ Len(sock[s].inbox) < MaxInbox
  /\ sock' = [sock EXCEPT ![s].pings = @ - 1, ![s].inbox = Append(@, "heartbeat")]
  /\ UNCHANGED <<program, events, opened, live, faults>>

StatusCallback == \E c \in Conns : StatusLost(c) \/ StatusConnected(c)

Client ==
  \/ OnClientHello \/ RunCallbacks \/ StartDispatch \/ EndDispatch
  \/ StatusCallback
  \/ BeginUpdate
  \/ made # 0 /\ Update(made)

Environment ==
  \/ Tick
  \/ \E s \in Sockets :
       \/ SocketConnects(s) \/ SocketFails(s) \/ SocketClosed(s)
       \/ AnswerGreeting(s) \/ AnswerPing(s)

Next == Client \/ Environment

Spec == Init /\ [][Next]_vars

\* The game runs its frames, and Steam settles each socket request (5 seconds,
\* the last argument of CreateConnectionSocket); the server answers while the
\* socket is up.  Nothing obliges the game to say hello, or time to pass.
Frame ==
  \/ RunCallbacks \/ StartDispatch \/ EndDispatch \/ StatusCallback
  \/ BeginUpdate
  \/ made # 0 /\ Update(made)

Fairness ==
  /\ WF_vars(Frame)
  /\ \A s \in Sockets : /\ WF_vars(SocketConnects(s) \/ SocketFails(s))
                         /\ WF_vars(AnswerGreeting(s))
                         /\ WF_vars(AnswerPing(s))

FairSpec == Spec /\ Fairness

-----------------------------------------------------------------------------
(* Properties.                                                             *)

TypeOK ==
  /\ made \in 0..MaxConns
  /\ link \in [Conns -> Links]
  /\ phase \in {"game", "callbacks", "dispatch", "drain"}
  /\ todo \in SUBSET Conns
  /\ events \in Seq([socket : Sockets, state : SocketStates])
  /\ opened \in 0..MaxSockets
  /\ sock \in [Sockets -> SocketRecords]
  /\ live \in SUBSET (Conns \X Sockets)
  /\ faults \in 0..MaxFaults

\* However connects, losses, rejections and timeouts interleave, and however
\* many instances share the events: an instance has a socket exactly while it is
\* connected, only with its callback registered (or the next loss would pass it
\* by), and the ticket it holds is an uncancelled one of that very socket.
LinkConsistent ==
  \A c \in Conns :
    /\ link[c].connected <=> link[c].socket # NoSocket
    /\ link[c].connected => link[c].registered
    /\ link[c].ticket \in Sockets =>
         /\ link[c].ticket = link[c].socket
         /\ <<c, link[c].ticket>> \in live

\* Steam hands an event only to instances registered when it took the event up,
\* and none of those still to be reached has unregistered meanwhile: what one
\* instance's callback does never takes another's registration away.
DispatchConsistent ==
  /\ phase = "dispatch" => events # <<>>
  /\ phase # "dispatch" => todo = {}
  /\ \A c \in todo : link[c].registered

\* With a single instance, the handle a connected instance sends on was never
\* destroyed by the program itself: the order of late events, timeouts and
\* rejections cannot leave it with a dead handle.
SocketUsable ==
  \A c \in Conns :
    link[c].connected =>
      link[c].socket \in
        {s \in Sockets : sock[s].status \in {"connected", "failed"}}

\* An instance that has given up (it was rejected, it is out of attempts, or the
\* name did not resolve) stays down after its Update: no late event about any
\* socket, its own or another instance's, brings it back.
GivenUpStaysDown ==
  [][\A c \in 1..made :
       ~link[c].registered /\ phase # "drain" =>
         ~link'[c].registered /\ ~link'[c].connected]_vars

\* A lost link is replaced: a registered instance without a connection is
\* eventually connected, or gives up.
LostLinkIsReplaced ==
  \A c \in Conns :
    link[c].registered /\ ~link[c].connected
      ~> link[c].connected \/ ~link[c].registered

\* A connection of the newest instance is eventually authenticated or dropped,
\* never left hanging.
ConnectionIsVerified ==
  \A c \in Conns :
    made = c /\ link[c].connected
      ~> link[c].verified \/ ~link[c].connected \/ made # c

\* What SocketStatusCallback says of the events it reconnects on ("This means we
\* timeout'd...", tcp_connection.cpp:529): the socket lost is the instance's, not one
\* that CCDisconnect had destroyed before the event came.  The run shows that it may be.
LossIsOwn ==
  [][\A c \in Conns :
       StatusLost(c) /\ IsLoss(Head(events).state) =>
         sock[Head(events).socket].status \notin {"destroyed", "closed"}]_vars
=============================================================================
