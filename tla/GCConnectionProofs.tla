------------------------- MODULE GCConnectionProofs -------------------------
(***************************************************************************)
(* Proofs about TCPConnection, for any number of instances, sockets,       *)
(* faults and attempts; and, of a single instance, that it is never left   *)
(* on a socket it has destroyed: for that, which events may still be in    *)
(* Steam's queue has to be said as well.                                   *)
(*                                                                         *)
(* At the end: its heartbeat by the clock (HeartbeatTiming).               *)
(***************************************************************************)
EXTENDS GCConnection, HeartbeatTiming, SequenceTheorems, TLAPS

USE BoundsAssumption, HeartbeatAssumption, ChoiceAssumption, HandleAssumption

IInv == TypeOK /\ LinkConsistent /\ DispatchConsistent

-----------------------------------------------------------------------------
(* What the members' updates return.                                       *)

\* A new instance has types, and neither a connection nor a registration.
LEMMA ConstructedType ==
  ASSUME NEW handle \in InitialHandles \cup {NoTicket}
  PROVE  /\ Constructed(handle) \in Links
         /\ ~Constructed(handle).connected
         /\ ~Constructed(handle).registered
         /\ Constructed(handle).socket = NoSocket
         /\ Constructed(handle).ticket = handle
         /\ Constructed(handle).ticket \notin Sockets
BY DEF Constructed, Links, Tickets, NoTicket, NoSocket, Sockets

\* CCDisconnect leaves nothing of the link behind.
LEMMA DisconnectedType ==
  ASSUME NEW r \in Links
  PROVE  /\ Disconnected(r) \in Links
         /\ ~Disconnected(r).connected
         /\ ~Disconnected(r).registered
         /\ Disconnected(r).socket = NoSocket
         /\ Disconnected(r).ticket \notin Sockets
<1>1. Disconnected(r) \in Links
  BY DEF Disconnected, Links, Tickets
<1>2. ~Disconnected(r).connected /\ ~Disconnected(r).registered
  BY DEF Disconnected, Links
<1>3. Disconnected(r).socket = NoSocket /\ Disconnected(r).ticket \notin Sockets
  BY DEF Disconnected, Links, NoTicket, NoSocket, Sockets
<1> QED BY <1>1, <1>2, <1>3

\* CCConnect registers the callback and touches neither socket nor ticket.
LEMMA ConnectStartedType ==
  ASSUME NEW r \in Links
  PROVE  /\ ConnectStarted(r) \in Links
         /\ ConnectStarted(r).connected = r.connected
         /\ ConnectStarted(r).registered
         /\ ConnectStarted(r).socket = r.socket
         /\ ConnectStarted(r).ticket = r.ticket
<1> DEFINE n == ConnectStarted(r)
<1>0. 0 \in 0..HeartbeatTimeout
  OBVIOUS
<1>1. n \in Links
  BY <1>0, Zenon DEF ConnectStarted, Links
<1>2. n.registered /\ n.socket = r.socket /\ n.ticket = r.ticket
  BY DEF ConnectStarted, Links
<1>3. n.connected = r.connected
  BY Zenon DEF ConnectStarted, Links
<1> QED BY <1>1, <1>2, <1>3

\* Taking over a connected socket changes connection, socket and ticket only.
LEMMA AttachedType ==
  ASSUME NEW r \in Links, NEW s \in Sockets, NEW handle \in Tickets
  PROVE  /\ Attached(r, s, handle) \in Links
         /\ Attached(r, s, handle).connected
         /\ Attached(r, s, handle).registered = r.registered
         /\ Attached(r, s, handle).socket = s
         /\ Attached(r, s, handle).ticket = handle
<1> DEFINE n == Attached(r, s, handle)
<1>1. n \in Links
  BY DEF Attached, Links, Tickets
<1>2. n.connected /\ n.socket = s /\ n.ticket = handle
  BY DEF Attached, Links, Tickets
<1>3. n.registered = r.registered
  BY DEF Attached, Links
<1> QED BY <1>1, <1>2, <1>3

\* A socket with nothing on it is a socket.
LEMMA QuietType ==
  ASSUME NEW status \in SocketStatus
  PROVE  Quiet(status) \in SocketRecords
BY DEF Quiet, SocketRecords

\* A socket of which one field changes is still a socket.
LEMMA SocketChanged ==
  ASSUME NEW q \in SocketRecords
  PROVE  /\ \A status \in SocketStatus :
              /\ [q EXCEPT !.status = status] \in SocketRecords
              /\ [q EXCEPT !.status = status, !.greetings = 0, !.pings = 0]
                   \in SocketRecords
         /\ \A n \in Nat : /\ [q EXCEPT !.greetings = n] \in SocketRecords
                           /\ [q EXCEPT !.pings = n] \in SocketRecords
         /\ \A inbox \in Seq(Messages) :
              /\ [q EXCEPT !.inbox = inbox] \in SocketRecords
              /\ \A n \in Nat :
                   /\ [q EXCEPT !.greetings = n, !.inbox = inbox] \in SocketRecords
                   /\ [q EXCEPT !.pings = n, !.inbox = inbox] \in SocketRecords
<1>1. 0 \in Nat
  OBVIOUS
<1> QED BY <1>1, Zenon DEF SocketRecords

\* Closing a socket, or none, leaves sockets.
LEMMA DestroyedType ==
  ASSUME NEW sk \in [Sockets -> SocketRecords], NEW h \in {NoSocket} \cup Sockets
  PROVE  Destroyed(sk, h) \in [Sockets -> SocketRecords]
BY QuietType DEF Destroyed, SocketStatus

-----------------------------------------------------------------------------
(* What an action that changes one instance's members must show.           *)

\* An instance's members n are consistent with the live tickets lv.
Consistent(c, n, lv) ==
  /\ n.connected <=> n.socket # NoSocket
  /\ n.connected => n.registered
  /\ n.ticket \in Sockets => n.ticket = n.socket /\ <<c, n.ticket>> \in lv

\* An instance without a link is consistent whatever tickets are live.
LEMMA DownConsistent ==
  ASSUME NEW c, NEW n, NEW lv,
         ~n.connected, n.socket = NoSocket, n.ticket \notin Sockets
  PROVE  Consistent(c, n, lv)
BY DEF Consistent

\* Replacing c's members by consistent ones keeps LinkConsistent as long as no
\* other instance's ticket is cancelled.
LEMMA OneLinkChanged ==
  ASSUME TypeOK, LinkConsistent, NEW c \in Conns, NEW n \in Links,
         link' = [link EXCEPT ![c] = n],
         Consistent(c, n, live'),
         \A d \in Conns \ {c}, t \in Sockets : <<d, t>> \in live => <<d, t>> \in live'
  PROVE  LinkConsistent'
<1> SUFFICES ASSUME NEW d \in Conns PROVE Consistent(d, link'[d], live')
  BY DEF LinkConsistent, Consistent
<1>1. CASE d = c
  BY <1>1 DEF TypeOK
<1>2. CASE d # c
  <2>1. link'[d] = link[d]
    BY <1>2 DEF TypeOK
  <2>2. Consistent(d, link[d], live)
    BY DEF LinkConsistent, Consistent
  <2> QED BY <1>2, <2>1, <2>2 DEF Consistent
<1> QED BY <1>1, <1>2

\* Cancelling a ticket, or the whole of CCDisconnect, removes tickets of its own
\* instance only.
LEMMA DisconnectEffectsType ==
  ASSUME TypeOK, NEW c \in Conns, DisconnectEffects(c)
  PROVE  /\ live' \in SUBSET (Conns \X Sockets)
         /\ \A d \in Conns \ {c}, t \in Sockets : <<d, t>> \in live => <<d, t>> \in live'
BY DEF TypeOK, DisconnectEffects, Cancelled

\* CCConnect after CCDisconnect: the instance is down, registered or not.
LEMMA ReconnectType ==
  ASSUME TypeOK, NEW c \in Conns, NEW r \in Links, Reconnect(c, r)
  PROVE  /\ \E n \in Links : /\ link' = [link EXCEPT ![c] = n]
                             /\ ~n.connected
                             /\ n.socket = NoSocket
                             /\ n.ticket \notin Sockets
         /\ opened' \in 0..MaxSockets
         /\ sock' \in [Sockets -> SocketRecords]
         /\ live' \in SUBSET (Conns \X Sockets)
         /\ \A d \in Conns \ {c}, t \in Sockets : <<d, t>> \in live => <<d, t>> \in live'
<1> DEFINE dn == Disconnected(r)
           sk == Destroyed(sock, r.socket)
<1>1. /\ dn \in Links /\ ~dn.connected /\ dn.socket = NoSocket
      /\ dn.ticket \notin Sockets
  BY DisconnectedType
<1>2. /\ ConnectStarted(dn) \in Links
      /\ ~ConnectStarted(dn).connected
      /\ ConnectStarted(dn).socket = NoSocket
      /\ ConnectStarted(dn).ticket \notin Sockets
  BY <1>1, ConnectStartedType
<1>3. sk \in [Sockets -> SocketRecords]
  BY DestroyedType DEF TypeOK, Links
<1>4. Quiet("connecting") \in SocketRecords
  BY QuietType DEF SocketStatus
<1>5. Connect(c, dn, sk) /\ opened < MaxSockets /\ DisconnectEffects(c)
  BY DEF Reconnect
<1> HIDE DEF dn, sk
<1>6. CASE /\ link' = [link EXCEPT ![c] = ConnectStarted(dn)]
           /\ opened' = opened + 1
           /\ sock' = [sk EXCEPT ![opened + 1] = Quiet("connecting")]
  <2>1. opened + 1 \in Sockets /\ opened' \in 0..MaxSockets
    BY <1>5, <1>6 DEF TypeOK, Sockets
  <2>2. sock' \in [Sockets -> SocketRecords]
    BY <1>3, <1>4, <1>6, <2>1
  <2> QED BY <1>2, <1>5, <1>6, <2>1, <2>2, DisconnectEffectsType
<1>7. CASE link' = [link EXCEPT ![c] = dn] /\ opened' = opened /\ sock' = sk
  <2>1. opened' \in 0..MaxSockets
    BY <1>7 DEF TypeOK
  <2> QED BY <1>1, <1>3, <1>5, <1>7, <2>1, DisconnectEffectsType
<1> QED BY <1>5, <1>6, <1>7 DEF Connect

-----------------------------------------------------------------------------
(* The invariant, action by action.                                        *)

\* The initial states satisfy the invariant.
LEMMA InitIInv == Init => IInv
<1> SUFFICES ASSUME Init PROVE IInv
  OBVIOUS
<1>1. \A c \in Conns : link[c] = Constructed(NoTicket)
  BY DEF Init
<1>2. TypeOK
  <2>1. link \in [Conns -> Links]
    BY ConstructedType DEF Init
  <2>2. sock \in [Sockets -> SocketRecords]
    BY QuietType DEF Init, SocketStatus
  <2>3. made \in 0..MaxConns /\ opened \in 0..MaxSockets /\ faults \in 0..MaxFaults
    BY DEF Init
  <2>4. todo \in SUBSET Conns /\ live \in SUBSET (Conns \X Sockets)
    BY Zenon DEF Init
  <2>5. events \in Seq([socket : Sockets, state : SocketStates])
    BY DEF Init
  <2>6. phase \in {"game", "callbacks", "dispatch", "drain"}
    BY DEF Init
  <2> QED BY <2>1, <2>2, <2>3, <2>4, <2>5, <2>6, Zenon DEF TypeOK
<1>3. LinkConsistent
  BY <1>1, ConstructedType DEF LinkConsistent
<1>4. DispatchConsistent
  BY DEF Init, DispatchConsistent
<1> QED BY <1>2, <1>3, <1>4 DEF IInv

\* A hello makes a new instance and changes no other.
LEMMA HelloIInv == IInv /\ OnClientHello => IInv'
<1> SUFFICES ASSUME IInv, OnClientHello PROVE IInv'
  OBVIOUS
<1> DEFINE c == made + 1
<1>1. c \in Conns /\ c # made
  BY DEF IInv, TypeOK, OnClientHello, Conns
<1>2. PICK handle \in InitialHandles : Connect(c, Constructed(handle), sock)
  BY DEF OnClientHello
<1> DEFINE r == Constructed(handle)
<1>3. /\ r \in Links /\ ~r.connected /\ r.socket = NoSocket /\ r.ticket \notin Sockets
  BY ConstructedType
<1>4. /\ ConnectStarted(r) \in Links
      /\ ~ConnectStarted(r).connected
      /\ ConnectStarted(r).socket = NoSocket
      /\ ConnectStarted(r).ticket \notin Sockets
  BY <1>3, ConnectStartedType
<1>5. opened + 1 \in Sockets /\ Quiet("connecting") \in SocketRecords
  BY QuietType DEF SocketStatus, OnClientHello, IInv, TypeOK, Sockets
<1> HIDE DEF c, r
<1>6. PICK n \in Links : /\ link' = [link EXCEPT ![c] = n]
                         /\ ~n.connected /\ n.socket = NoSocket
                         /\ n.ticket \notin Sockets
  BY <1>2, <1>3, <1>4 DEF Connect, r
<1>7. /\ opened' \in 0..MaxSockets
      /\ sock' \in [Sockets -> SocketRecords]
  BY <1>2, <1>5 DEF Connect, IInv, TypeOK, Sockets, r
<1>8. TypeOK'
  BY <1>1, <1>6, <1>7 DEF IInv, TypeOK, OnClientHello, Conns, c
<1>9. LinkConsistent'
  BY <1>1, <1>6, DownConsistent, OneLinkChanged DEF IInv, OnClientHello
<1>10. DispatchConsistent'
  BY DEF IInv, DispatchConsistent, OnClientHello
<1> QED BY <1>8, <1>9, <1>10 DEF IInv

\* Steam's taking up and finishing an event keeps who is still to be told registered.
LEMMA DispatchIInv ==
  IInv /\ (RunCallbacks \/ StartDispatch \/ EndDispatch \/ BeginUpdate) => IInv'
<1> SUFFICES ASSUME IInv,
                    RunCallbacks \/ StartDispatch \/ EndDispatch \/ BeginUpdate
             PROVE  IInv'
  OBVIOUS
<1> USE DEF IInv, TypeOK, steam
<1>1. CASE RunCallbacks
  BY <1>1 DEF RunCallbacks, LinkConsistent, DispatchConsistent
<1>2. CASE StartDispatch
  BY <1>2 DEF StartDispatch, LinkConsistent, DispatchConsistent, Listeners
<1>3. CASE EndDispatch
  <2>1. events' \in Seq([socket : Sockets, state : SocketStates])
    BY <1>3 DEF EndDispatch, DispatchConsistent
  <2> QED BY <1>3, <2>1 DEF EndDispatch, LinkConsistent, DispatchConsistent
<1>4. CASE BeginUpdate
  BY <1>4 DEF BeginUpdate, LinkConsistent, DispatchConsistent
<1> QED BY <1>1, <1>2, <1>3, <1>4

\* An event of loss reconnects the instance it reaches, or has it give up.
LEMMA StatusLostIInv ==
  ASSUME IInv, NEW c \in Conns, StatusLost(c) PROVE IInv'
<1>1. CASE IsLoss(Head(events).state)
  <2>0. link[c] \in Links /\ Reconnect(c, link[c])
    BY <1>1 DEF StatusLost, IInv, TypeOK
  <2>1. PICK n \in Links : /\ link' = [link EXCEPT ![c] = n]
                           /\ ~n.connected /\ n.socket = NoSocket
                           /\ n.ticket \notin Sockets
    BY <2>0, ReconnectType DEF IInv
  <2>2. TypeOK'
    BY <2>0, <2>1, ReconnectType DEF IInv, TypeOK, StatusLost
  <2>3. LinkConsistent'
    BY <2>0, <2>1, ReconnectType, DownConsistent, OneLinkChanged DEF IInv
  <2>4. DispatchConsistent'
    BY <2>1 DEF IInv, TypeOK, DispatchConsistent, StatusLost
  <2> QED BY <2>2, <2>3, <2>4 DEF IInv
<1>2. CASE ~IsLoss(Head(events).state)
  BY <1>2 DEF StatusLost, IInv, TypeOK, LinkConsistent, DispatchConsistent
<1> QED BY <1>1, <1>2

\* A Connected event attaches its socket, with a new ticket, to a registered instance.
LEMMA StatusConnectedIInv ==
  ASSUME IInv, NEW c \in Conns, StatusConnected(c) PROVE IInv'
<1> DEFINE s == Head(events).socket
<1>1. s \in Sockets
  <2>1. events \in Seq([socket : Sockets, state : SocketStates]) /\ events # <<>>
    BY DEF IInv, TypeOK, DispatchConsistent, StatusConnected
  <2>2. Head(events) \in [socket : Sockets, state : SocketStates]
    BY <2>1, HeadTailProperties
  <2> QED BY <2>2
<1>2. PICK handle \in {s, NoTicket} :
        /\ link' = [link EXCEPT ![c] = Attached(link[c], s, handle)]
        /\ live' = IF handle = NoTicket THEN live ELSE live \cup {<<c, handle>>}
  BY DEF StatusConnected
<1>3. link[c] \in Links /\ link[c].registered
  BY DEF IInv, TypeOK, DispatchConsistent, StatusConnected
<1>4. handle \in Tickets /\ NoSocket \notin Sockets /\ NoTicket \notin Sockets
  BY <1>1 DEF Tickets, Sockets, NoSocket, NoTicket
<1> DEFINE n == Attached(link[c], s, handle)
<1>5. /\ n \in Links /\ n.connected /\ n.registered
      /\ n.socket = s /\ n.ticket = handle
  BY <1>1, <1>3, <1>4, AttachedType
<1> HIDE DEF s, n
<1>6. Consistent(c, n, live')
  BY <1>1, <1>2, <1>4, <1>5 DEF Consistent
<1>7. sock' \in [Sockets -> SocketRecords]
  <2>1. sock \in [Sockets -> SocketRecords] /\ sock[s] \in SocketRecords
    BY <1>1 DEF IInv, TypeOK
  <2>2. [sock[s] EXCEPT !.greetings = @ + 1] \in SocketRecords
    <3>1. sock[s].greetings + 1 \in Nat
      BY <2>1 DEF SocketRecords
    <3> QED BY <2>1, <3>1, SocketChanged
  <2>3. \/ sock' = sock
        \/ sock' = [sock EXCEPT ![s].greetings = @ + 1]
    BY Zenon DEF StatusConnected, s
  <2> QED BY <1>1, <2>1, <2>2, <2>3
<1>8. TypeOK'
  <2>1. link' \in [Conns -> Links]
    BY <1>2, <1>5 DEF IInv, TypeOK, n
  <2>2. live' \subseteq Conns \X Sockets
    BY <1>1, <1>2 DEF IInv, TypeOK
  <2> QED BY <1>7, <2>1, <2>2 DEF IInv, TypeOK, StatusConnected
<1>9. LinkConsistent'
  <2>1. \A d \in Conns \ {c}, t \in Sockets : <<d, t>> \in live => <<d, t>> \in live'
    BY <1>2
  <2> QED BY <1>2, <1>5, <1>6, <2>1, OneLinkChanged DEF IInv, n
<1>10. DispatchConsistent'
  BY <1>2, <1>5 DEF IInv, TypeOK, DispatchConsistent, StatusConnected, n
<1> QED BY <1>8, <1>9, <1>10 DEF IInv

\* Reading a message off a socket leaves a socket.
LEMMA RetrievedType ==
  ASSUME TypeOK, NEW c \in Conns, link[c].socket # NoSocket, DataAvailable(c)
  PROVE  Retrieved(c) \in [Sockets -> SocketRecords]
<1> DEFINE h == link[c].socket
<1>1. h \in Sockets
  BY DEF TypeOK, Links
<1>2. sock \in [Sockets -> SocketRecords] /\ sock[h] \in SocketRecords
  BY <1>1 DEF TypeOK
<1>3. Tail(sock[h].inbox) \in Seq(Messages)
  <2>1. sock[h].inbox \in Seq(Messages)
    BY <1>2 DEF SocketRecords
  <2>2. sock[h].inbox # <<>>
    BY DEF DataAvailable
  <2> QED BY <2>1, <2>2, HeadTailProperties
<1>4. [sock[h] EXCEPT !.inbox = Tail(sock[h].inbox)] \in SocketRecords
  BY <1>2, <1>3, SocketChanged
<1> QED BY <1>1, <1>2, <1>4 DEF Retrieved

\* A confirmation ends the temporary ticket of its instance only.
LEMMA ConfirmAuthIInv ==
  ASSUME IInv, NEW c \in Conns, ConfirmAuth(c) PROVE IInv'
<1> DEFINE n == [link[c] EXCEPT !.verified = TRUE, !.ticket = NoTicket]
<1>1. link[c] \in Links /\ NoTicket \notin Sockets
  BY DEF IInv, TypeOK, NoTicket, Sockets
<1>2. /\ n \in Links /\ n.ticket = NoTicket
      /\ n.connected = link[c].connected /\ n.registered = link[c].registered
      /\ n.socket = link[c].socket
  BY <1>1 DEF Links, Tickets
<1>3. link' = [link EXCEPT ![c] = n]
  BY <1>1 DEF ConfirmAuth, IInv, TypeOK
<1> HIDE DEF n
<1>4. \A d \in Conns \ {c}, t \in Sockets : <<d, t>> \in live => <<d, t>> \in live'
  BY DEF ConfirmAuth, Cancelled
<1>5. TypeOK'
  <2>1. sock' \in [Sockets -> SocketRecords]
    BY RetrievedType DEF ConfirmAuth, Received, DataAvailable, IInv
  <2>2. live' \in SUBSET (Conns \X Sockets)
    BY DEF ConfirmAuth, Cancelled, IInv, TypeOK
  <2>3. link' \in [Conns -> Links]
    BY <1>2, <1>3 DEF IInv, TypeOK
  <2> QED BY <2>1, <2>2, <2>3 DEF IInv, TypeOK, ConfirmAuth, Received
<1>6. LinkConsistent'
  <2>1. Consistent(c, n, live')
    BY <1>1, <1>2 DEF IInv, LinkConsistent, Consistent
  <2> QED BY <1>2, <1>3, <1>4, <2>1, OneLinkChanged DEF IInv
<1>7. DispatchConsistent'
  BY DEF IInv, DispatchConsistent, ConfirmAuth, Received
<1> QED BY <1>5, <1>6, <1>7 DEF IInv

\* A rejection leaves its instance without link and ticket.
LEMMA RejectAuthIInv ==
  ASSUME IInv, NEW c \in Conns, RejectAuth(c) PROVE IInv'
<1> DEFINE n == Disconnected(link[c])
<1>1. link[c] \in Links
  BY DEF IInv, TypeOK
<1>2. n \in Links /\ ~n.connected /\ n.socket = NoSocket /\ n.ticket \notin Sockets
  BY <1>1, DisconnectedType
<1> HIDE DEF n
<1>3. link' = [link EXCEPT ![c] = n] /\ DisconnectEffects(c)
  BY DEF RejectAuth, n
<1>4. sock' \in [Sockets -> SocketRecords]
  BY <1>1, DestroyedType DEF RejectAuth, IInv, TypeOK, Links
<1>5. TypeOK'
  BY <1>2, <1>3, <1>4, DisconnectEffectsType DEF IInv, TypeOK, RejectAuth, Received
<1>6. LinkConsistent'
  BY <1>2, <1>3, DisconnectEffectsType, DownConsistent, OneLinkChanged DEF IInv
<1>7. DispatchConsistent'
  BY DEF IInv, DispatchConsistent, RejectAuth, Received
<1> QED BY <1>5, <1>6, <1>7 DEF IInv

\* An answer touches the age and the flag of its instance.
LEMMA HeartbeatReplyIInv ==
  ASSUME IInv, NEW c \in Conns, HeartbeatReply(c) PROVE IInv'
<1> DEFINE n == [link[c] EXCEPT !.age = 0, !.sent = FALSE]
<1>1. link[c] \in Links /\ 0 \in 0..HeartbeatTimeout
  BY DEF IInv, TypeOK
<1>2. n \in Links
  BY <1>1, Zenon DEF Links
<1>3. /\ n.connected = link[c].connected /\ n.registered = link[c].registered
      /\ n.socket = link[c].socket /\ n.ticket = link[c].ticket
  BY <1>1 DEF Links
<1>4. link' = [link EXCEPT ![c] = n]
  BY <1>1 DEF HeartbeatReply, IInv, TypeOK
<1> HIDE DEF n
<1>5. TypeOK'
  <2>1. sock' \in [Sockets -> SocketRecords]
    BY RetrievedType DEF HeartbeatReply, Received, DataAvailable, IInv
  <2> QED BY <1>2, <1>4, <2>1 DEF IInv, TypeOK, HeartbeatReply, Received
<1>6. LinkConsistent'
  <2>1. Consistent(c, n, live')
    BY <1>3 DEF IInv, LinkConsistent, Consistent, HeartbeatReply
  <2> QED BY <1>2, <1>4, <2>1, OneLinkChanged DEF IInv, HeartbeatReply
<1>7. DispatchConsistent'
  BY DEF IInv, DispatchConsistent, HeartbeatReply, Received
<1> QED BY <1>5, <1>6, <1>7 DEF IInv

\* A timeout disconnects, then connects anew or gives up.
LEMMA HeartbeatLostIInv ==
  ASSUME IInv, NEW c \in Conns, HeartbeatLost(c) PROVE IInv'
<1>1. link[c] \in Links
  BY DEF IInv, TypeOK
<1>2. /\ \E n \in Links : /\ link' = [link EXCEPT ![c] = n]
                          /\ ~n.connected
                          /\ n.socket = NoSocket
                          /\ n.ticket \notin Sockets
      /\ opened' \in 0..MaxSockets
      /\ sock' \in [Sockets -> SocketRecords]
      /\ live' \in SUBSET (Conns \X Sockets)
      /\ \A d \in Conns \ {c}, t \in Sockets : <<d, t>> \in live => <<d, t>> \in live'
  <2>1. CASE MayRetry(link[c])
    <3> DEFINE r == [link[c] EXCEPT !.attempts = @ + 1]
    <3>1. r \in Links
      <4>1. link[c].attempts + 1 \in 0..MAX_RECONNECT_ATTEMPTS
        BY <1>1, <2>1 DEF MayRetry, Links
      <4> QED BY <1>1, <4>1, Zenon DEF Links
    <3>2. Reconnect(c, r)
      BY <2>1 DEF HeartbeatLost
    <3> QED BY <3>1, <3>2, ReconnectType DEF IInv
  <2>2. CASE ~MayRetry(link[c])
    <3>1. /\ link' = [link EXCEPT ![c] = Disconnected(link[c])]
          /\ sock' = Destroyed(sock, link[c].socket)
          /\ DisconnectEffects(c)
          /\ opened' = opened
      BY <2>2 DEF HeartbeatLost
    <3>2. sock' \in [Sockets -> SocketRecords]
      BY <1>1, <3>1, DestroyedType DEF IInv, TypeOK, Links
    <3> QED BY <1>1, <3>1, <3>2, DisconnectedType, DisconnectEffectsType DEF IInv, TypeOK
  <2> QED BY <2>1, <2>2
<1>3. TypeOK'
  BY <1>2 DEF IInv, TypeOK, HeartbeatLost
<1>4. LinkConsistent'
  BY <1>2, DownConsistent, OneLinkChanged DEF IInv
<1>5. DispatchConsistent'
  BY DEF IInv, DispatchConsistent, HeartbeatLost, Drained
<1> QED BY <1>3, <1>4, <1>5 DEF IInv

\* A heartbeat sets a flag and is put on the socket.
LEMMA SendHeartbeatIInv ==
  ASSUME IInv, NEW c \in Conns, SendHeartbeat(c) PROVE IInv'
<1> DEFINE n == [link[c] EXCEPT !.sent = TRUE]
           h == link[c].socket
<1>1. link[c] \in Links
  BY DEF IInv, TypeOK
<1>2. /\ n \in Links
      /\ n.connected = link[c].connected /\ n.registered = link[c].registered
      /\ n.socket = h /\ n.ticket = link[c].ticket
  BY <1>1 DEF Links
<1>3. link' = [link EXCEPT ![c] = n]
  BY <1>1 DEF SendHeartbeat, IInv, TypeOK
<1>4. sock' \in [Sockets -> SocketRecords]
  <2>1. CASE SocketUp(c)
    <3>1. h \in Sockets
      BY <1>1, <2>1 DEF SocketUp, Links
    <3>2. sock[h] \in SocketRecords /\ sock[h].pings + 1 \in Nat
      BY <3>1 DEF IInv, TypeOK, SocketRecords
    <3>3. [sock[h] EXCEPT !.pings = sock[h].pings + 1] \in SocketRecords
      BY <3>2, SocketChanged
    <3> QED BY <3>1, <3>2, <3>3 DEF SendHeartbeat, IInv, TypeOK
  <2>2. CASE ~SocketUp(c)
    BY <2>2 DEF SendHeartbeat, IInv, TypeOK
  <2> QED BY <2>1, <2>2
<1> HIDE DEF n
<1>5. TypeOK'
  BY <1>2, <1>3, <1>4 DEF IInv, TypeOK, SendHeartbeat
<1>6. LinkConsistent'
  <2>1. Consistent(c, n, live')
    BY <1>2 DEF IInv, LinkConsistent, Consistent, SendHeartbeat
  <2> QED BY <1>2, <1>3, <2>1, OneLinkChanged DEF IInv, SendHeartbeat
<1>7. DispatchConsistent'
  BY DEF IInv, DispatchConsistent, SendHeartbeat, Drained
<1> QED BY <1>5, <1>6, <1>7 DEF IInv

\* An Update with nothing to send or to lose changes no link.
LEMMA NoHeartbeatIInv ==
  ASSUME IInv, NEW c \in Conns, NoHeartbeat(c) PROVE IInv'
BY DEF IInv, TypeOK, LinkConsistent, DispatchConsistent, NoHeartbeat, Drained, steam

\* Time changes the age of the newest instance only.
LEMMA TickIInv == IInv /\ Tick => IInv'
<1> SUFFICES ASSUME IInv, Tick PROVE IInv'
  OBVIOUS
<1> DEFINE n == [link[made] EXCEPT !.age = @ + 1]
<1>1. made \in Conns
  BY DEF Tick, IInv, TypeOK, Conns
<1>2. link[made] \in Links
  BY <1>1 DEF IInv, TypeOK
<1>3. link[made].age + 1 \in 0..HeartbeatTimeout
  BY <1>2 DEF Tick, Links
<1>4. n \in Links
  BY <1>2, <1>3, Zenon DEF Links
<1>5. /\ n.connected = link[made].connected /\ n.registered = link[made].registered
      /\ n.socket = link[made].socket /\ n.ticket = link[made].ticket
  BY <1>2 DEF Links
<1>6. link' = [link EXCEPT ![made] = n]
  BY <1>1 DEF Tick, IInv, TypeOK
<1> HIDE DEF n
<1>7. TypeOK'
  BY <1>4, <1>6 DEF IInv, TypeOK, Tick, steam
<1>8. LinkConsistent'
  <2>1. Consistent(made, n, live')
    BY <1>1, <1>5 DEF IInv, LinkConsistent, Consistent, Tick, steam
  <2> QED BY <1>1, <1>4, <1>6, <2>1, OneLinkChanged DEF IInv, Tick, steam
<1>9. DispatchConsistent'
  BY <1>1, <1>5, <1>6 DEF IInv, TypeOK, DispatchConsistent, Tick, steam
<1> QED BY <1>7, <1>8, <1>9 DEF IInv

\* What Steam and the server do touches no member of any instance.
LEMMA SocketStepIInv ==
  ASSUME IInv, NEW s \in Sockets,
         \/ SocketConnects(s) \/ SocketFails(s) \/ SocketClosed(s)
         \/ AnswerGreeting(s) \/ AnswerPing(s)
  PROVE  IInv'
<1>1. sock \in [Sockets -> SocketRecords] /\ sock[s] \in SocketRecords
  BY DEF IInv, TypeOK
<1>2. UNCHANGED <<program, opened, live>>
  BY DEF SocketConnects, SocketFails, SocketClosed, AnswerGreeting, AnswerPing
<1>3. events' = events \/ \E state \in SocketStates : events' = Posted(s, state)
  BY DEF SocketConnects, SocketFails, SocketClosed, AnswerGreeting, AnswerPing,
         k_ESNetSocketStateConnected, k_ESNetSocketStateLocalDisconnect,
         k_ESNetSocketStateTimeoutDuringConnect, k_ESNetSocketStateConnectionBroken,
         SocketStates
<1>4. /\ events' \in Seq([socket : Sockets, state : SocketStates])
      /\ events # <<>> => events' # <<>>
  <2>1. CASE events' = events
    BY <2>1 DEF IInv, TypeOK
  <2>2. ASSUME NEW state \in SocketStates, events' = Posted(s, state)
        PROVE  /\ events' \in Seq([socket : Sockets, state : SocketStates])
               /\ events' # <<>>
    <3>1. [socket |-> s, state |-> state] \in [socket : Sockets, state : SocketStates]
      OBVIOUS
    <3>2. events \in Seq([socket : Sockets, state : SocketStates])
      BY DEF IInv, TypeOK
    <3> QED BY <2>2, <3>1, <3>2, AppendProperties DEF Posted
  <2> QED BY <1>3, <2>1, <2>2
<1>5. faults' \in 0..MaxFaults
  BY DEF IInv, TypeOK, SocketConnects, SocketFails, SocketClosed, AnswerGreeting, AnswerPing
<1>6. \E q \in SocketRecords : sock' = [sock EXCEPT ![s] = q]
  <2>1. CASE SocketConnects(s)
    <3>1. [sock[s] EXCEPT !.status = "connected"] \in SocketRecords
      BY <1>1, SocketChanged DEF SocketStatus
    <3> QED BY <1>1, <2>1, <3>1 DEF SocketConnects
  <2>2. CASE SocketFails(s)
    <3>1. [sock[s] EXCEPT !.status = "failed", !.greetings = 0, !.pings = 0]
            \in SocketRecords
      BY <1>1, SocketChanged DEF SocketStatus
    <3> QED BY <1>1, <2>2, <3>1 DEF SocketFails
  <2>3. CASE SocketClosed(s)
    <3>1. [sock[s] EXCEPT !.status = "closed"] \in SocketRecords
      BY <1>1, SocketChanged DEF SocketStatus
    <3> QED BY <1>1, <2>3, <3>1 DEF SocketClosed
  <2>4. CASE AnswerGreeting(s)
    <3>1. PICK m \in Messages :
            sock' = [sock EXCEPT ![s].greetings = @ - 1, ![s].inbox = Append(@, m)]
      BY <2>4 DEF AnswerGreeting, Messages
    <3>2. sock[s].greetings - 1 \in Nat /\ Append(sock[s].inbox, m) \in Seq(Messages)
      BY SMTT(30), <1>1, <2>4 DEF AnswerGreeting, SocketRecords
    <3> DEFINE q == [sock[s] EXCEPT !.greetings = sock[s].greetings - 1,
                                    !.inbox = Append(sock[s].inbox, m)]
    <3>3. q \in SocketRecords
      BY <1>1, <3>2, SocketChanged
    <3> QED BY <1>1, <3>1, <3>3
  <2>5. CASE AnswerPing(s)
    <3>1. /\ sock[s].pings - 1 \in Nat
          /\ Append(sock[s].inbox, "heartbeat") \in Seq(Messages)
      BY <1>1, <2>5 DEF AnswerPing, SocketRecords, Messages
    <3> DEFINE q == [sock[s] EXCEPT !.pings = sock[s].pings - 1,
                                    !.inbox = Append(sock[s].inbox, "heartbeat")]
    <3>2. q \in SocketRecords
      BY <1>1, <3>1, SocketChanged
    <3> QED BY <1>1, <2>5, <3>2 DEF AnswerPing
  <2> QED BY <2>1, <2>2, <2>3, <2>4, <2>5
<1>7. sock' \in [Sockets -> SocketRecords]
  BY <1>1, <1>6
<1> QED BY <1>2, <1>4, <1>5, <1>7
    DEF IInv, TypeOK, LinkConsistent, DispatchConsistent, program

\* Every step keeps the invariant: one case for each action.
LEMMA NextIInv == IInv /\ [Next]_vars => IInv'
<1> SUFFICES ASSUME IInv, [Next]_vars PROVE IInv'
  OBVIOUS
<1>1. CASE OnClientHello
  BY <1>1, HelloIInv
<1>2. CASE RunCallbacks \/ StartDispatch \/ EndDispatch \/ BeginUpdate
  BY <1>2, DispatchIInv
<1>3. CASE StatusCallback
  BY <1>3, StatusLostIInv, StatusConnectedIInv DEF StatusCallback
<1>4. CASE made # 0 /\ Update(made)
  <2>1. made \in Conns
    BY <1>4 DEF IInv, TypeOK, Conns
  <2> QED BY <1>4, <2>1, ConfirmAuthIInv, RejectAuthIInv, HeartbeatReplyIInv,
             HeartbeatLostIInv, SendHeartbeatIInv, NoHeartbeatIInv DEF Update
<1>5. CASE Environment
  BY <1>5, TickIInv, SocketStepIInv DEF Environment
<1>6. CASE UNCHANGED vars
  BY <1>6 DEF vars, program, steam, IInv, TypeOK, LinkConsistent, DispatchConsistent
<1> QED BY <1>1, <1>2, <1>3, <1>4, <1>5, <1>6 DEF Next, Client

-----------------------------------------------------------------------------
(* The results.                                                            *)

\* The relation of m_connected, m_socket, the registration and the ticket of every
\* instance, and what it needs to be kept by every handler, holds in every state.
THEOREM InductiveInvariant == Spec => []IInv
BY InitIInv, NextIInv, PTL DEF Spec

\* The members, the sockets and the queue of events keep their types: attempts,
\* ages and handles stay in their ranges whatever the order of events.
THEOREM TypeCorrect == Spec => []TypeOK
<1>1. IInv => TypeOK
  BY DEF IInv
<1> QED BY <1>1, InductiveInvariant, PTL

\* However connects, losses, rejections and timeouts interleave, m_connected,
\* m_socket, the registration and the temporary ticket of every instance agree.
THEOREM LinksStayConsistent == Spec => []LinkConsistent
<1>1. IInv => LinkConsistent
  BY DEF IInv
<1> QED BY <1>1, InductiveInvariant, PTL

\* An event reaches registered instances only.
THEOREM DispatchStaysConsistent == Spec => []DispatchConsistent
<1>1. IInv => DispatchConsistent
  BY DEF IInv
<1> QED BY <1>1, InductiveInvariant, PTL

\* Once an instance has given up, nothing outside its own receive loop brings it
\* back: not a late event, not another instance's hello, not the clock.
THEOREM GivenUpIsFinal == Spec => GivenUpStaysDown
<1> DEFINE Stays == \A c \in 1..made :
                      ~link[c].registered /\ phase # "drain" =>
                        ~link'[c].registered /\ ~link'[c].connected
<1>1. IInv /\ [Next]_vars => [Stays]_vars
  <2> SUFFICES ASSUME IInv, Next, NEW c \in 1..made,
                      ~link[c].registered, phase # "drain"
               PROVE  ~link'[c].registered /\ ~link'[c].connected
    OBVIOUS
  <2>1. c \in Conns /\ link[c] \in Links /\ ~link[c].connected
    <3>1. c \in Conns
      BY DEF IInv, TypeOK, Conns
    <3> QED BY <3>1 DEF IInv, TypeOK, LinkConsistent
  <2>2. CASE link' = link
    BY <2>1, <2>2
  <2>3. CASE OnClientHello
    <3>1. c # made + 1
      BY DEF IInv, TypeOK
    <3>2. link'[c] = link[c]
      BY <2>1, <2>3, <3>1 DEF OnClientHello, Connect, IInv, TypeOK
    <3> QED BY <2>1, <3>2
  <2>4. ASSUME NEW d \in Conns, StatusLost(d) \/ StatusConnected(d)
        PROVE  link'[c] = link[c]
    <3>1. c # d
      BY <2>4 DEF StatusLost, StatusConnected, IInv, DispatchConsistent
    <3> QED BY <2>1, <2>4, <3>1
        DEF StatusLost, StatusConnected, Reconnect, Connect, IInv, TypeOK
  <2>5. CASE Tick
    <3>1. /\ link'[c].registered = link[c].registered
          /\ link'[c].connected = link[c].connected
      BY <2>1, <2>5 DEF Tick, IInv, TypeOK, Links
    <3> QED BY <2>1, <3>1
  <2>6. ~(made # 0 /\ Update(made))
    BY DEF Update, ConfirmAuth, RejectAuth, HeartbeatReply, HeartbeatLost,
           SendHeartbeat, NoHeartbeat, Received, Drained
  <2>7. CASE RunCallbacks \/ StartDispatch \/ EndDispatch \/ BeginUpdate
    BY <2>2, <2>7 DEF RunCallbacks, StartDispatch, EndDispatch, BeginUpdate
  <2>8. ASSUME NEW s \in Sockets,
               \/ SocketConnects(s) \/ SocketFails(s) \/ SocketClosed(s)
               \/ AnswerGreeting(s) \/ AnswerPing(s)
        PROVE  link' = link
    BY <2>8 DEF SocketConnects, SocketFails, SocketClosed, AnswerGreeting,
                AnswerPing, program
  <2> QED BY <2>1, <2>2, <2>3, <2>4, <2>5, <2>6, <2>7, <2>8
          DEF Next, Client, Environment, StatusCallback
<1> QED BY <1>1, InductiveInvariant, PTL DEF Spec, GivenUpStaysDown

-----------------------------------------------------------------------------
(* A single instance: the socket it sends on.                              *)

Usable == {"connected", "failed"}
Status(s) == sock[s].status

\* The Connected events the instance has not been told of yet.
Unread ==
  {k \in DOMAIN events :
     /\ events[k].state = k_ESNetSocketStateConnected
     /\ ~(k = 1 /\ phase = "dispatch" /\ todo = {})}

\* Each is the only one about its socket, which is not the instance's yet: nobody can have
\* destroyed it.
UnreadInv ==
  \A k \in Unread :
    /\ Status(events[k].socket) \in Usable
    /\ events[k].socket # link[1].socket
    /\ \A l \in Unread : events[l].socket = events[k].socket => l = k

FreshInv == \A s \in Sockets : s > opened => Status(s) = "unused"

SInv == IInv /\ UnreadInv /\ FreshInv /\ SocketUsable

\* The instance's socket is one it has not destroyed, and not a new one.
LEMMA OwnSocket ==
  ASSUME SInv, MaxConns = 1
  PROVE  /\ Conns = {1} /\ link[1] \in Links /\ opened \in 0..MaxSockets
         /\ link[1].socket # NoSocket =>
              /\ link[1].socket \in Sockets
              /\ Status(link[1].socket) \in Usable
              /\ link[1].socket <= opened
         /\ \A k \in Unread : events[k].socket \in Sockets /\ events[k].socket # NoSocket
<1>1. Conns = {1}
  BY DEF Conns
<1>2. link[1] \in Links /\ opened \in 0..MaxSockets
  BY <1>1 DEF SInv, IInv, TypeOK
<1>3. ASSUME link[1].socket # NoSocket
      PROVE  /\ link[1].socket \in Sockets
             /\ Status(link[1].socket) \in Usable
             /\ link[1].socket <= opened
  <2>1. link[1].connected /\ link[1].socket \in Sockets
    BY <1>1, <1>2, <1>3 DEF SInv, IInv, LinkConsistent, Links
  <2>2. Status(link[1].socket) \in Usable
    BY <1>1, <2>1 DEF SInv, SocketUsable, Status, Usable
  <2>3. Status(link[1].socket) # "unused"
    BY <2>2 DEF Usable
  <2>4. ~(link[1].socket > opened)
    BY <2>1, <2>3 DEF SInv, FreshInv
  <2> QED BY <1>2, <2>1, <2>2, <2>4 DEF Sockets
<1>4. ASSUME NEW k \in Unread PROVE events[k].socket \in Sockets /\ events[k].socket # NoSocket
  <2>1. events[k] \in [socket : Sockets, state : SocketStates]
    <3>1. events \in Seq([socket : Sockets, state : SocketStates]) /\ k \in DOMAIN events
      BY DEF Unread, SInv, IInv, TypeOK
    <3>2. k \in 1..Len(events)
      BY <3>1
    <3> QED BY <3>1, <3>2, ElementOfSeq
  <2>2. \A s \in Sockets : s # NoSocket
    BY DEF Sockets, NoSocket
  <2> QED BY <2>1, <2>2
<1> QED BY <1>1, <1>2, <1>3, <1>4

\* A step that queues and hands over no event keeps the invariant if what it destroys is the
\* instance's own socket, which the instance then has no longer.
LEMMA NoEventSInv ==
  ASSUME SInv, IInv', MaxConns = 1, events' = events, Unread' \subseteq Unread,
         opened' >= opened,
         \A s \in Sockets :
           Status(s) \in Usable /\ s # link[1].socket => sock'[s].status \in Usable,
         \/ link'[1].socket = NoSocket
         \/ /\ link'[1].socket = link[1].socket
            /\ link[1].socket # NoSocket => sock'[link[1].socket].status \in Usable,
         \A s \in Sockets : s > opened' => sock'[s].status = "unused"
  PROVE  SInv'
<1>1. UnreadInv'
  <2> SUFFICES ASSUME NEW k \in Unread'
               PROVE  /\ sock'[events'[k].socket].status \in Usable
                      /\ events'[k].socket # link'[1].socket
                      /\ \A l \in Unread' : events'[l].socket = events'[k].socket => l = k
    BY DEF UnreadInv, Status
  <2>1. k \in Unread
    OBVIOUS
  <2>2. events[k].socket \in Sockets /\ events[k].socket # NoSocket
    BY <2>1, OwnSocket
  <2>3. /\ Status(events[k].socket) \in Usable
        /\ events[k].socket # link[1].socket
        /\ \A l \in Unread : events[l].socket = events[k].socket => l = k
    BY <2>1 DEF SInv, UnreadInv
  <2> QED BY <2>2, <2>3
<1>2. SocketUsable'
  <2>1. Conns = {1}
    BY OwnSocket
  <2> SUFFICES ASSUME link'[1].connected
               PROVE  link'[1].socket \in Sockets /\ sock'[link'[1].socket].status \in Usable
    BY <2>1 DEF SocketUsable, Usable
  <2>2. link'[1].socket # NoSocket
    BY <2>1 DEF IInv, LinkConsistent
  <2> QED BY <2>2, OwnSocket
<1>3. FreshInv'
  BY DEF FreshInv, Status
<1> QED BY <1>1, <1>2, <1>3 DEF SInv

\* Destroying the instance's socket and connecting anew.
LEMMA ReconnectSInv ==
  ASSUME SInv, IInv', MaxConns = 1, events' = events, Unread' \subseteq Unread,
         NEW r \in Links, r.socket = link[1].socket, Reconnect(1, r)
  PROVE  SInv'
<1> DEFINE h == r.socket
<1>1. /\ link[1] \in Links /\ opened \in 0..MaxSockets /\ opened < MaxSockets
      /\ h # NoSocket => h \in Sockets /\ h <= opened
      /\ 1 \in Conns
  BY OwnSocket DEF Reconnect
<1>2. link'[1].socket = NoSocket
  BY <1>1, ReconnectType DEF SInv, IInv, TypeOK
<1>3. sock \in [Sockets -> SocketRecords]
  BY DEF SInv, IInv, TypeOK
<1>4. /\ \/ opened' = opened + 1
            /\ sock' = [Destroyed(sock, h) EXCEPT ![opened + 1] = Quiet("connecting")]
         \/ opened' = opened /\ sock' = Destroyed(sock, h)
  BY DEF Reconnect, Connect
<1>5. \A s \in Sockets : s # h => Destroyed(sock, h)[s] = sock[s]
  BY <1>3 DEF Destroyed
<1> HIDE DEF h
<1>6. \A s \in Sockets : s > opened => s # h
  BY <1>1 DEF Sockets, NoSocket
<1>7. Status(opened + 1) = "unused" /\ opened + 1 \in Sockets
  BY <1>1 DEF SInv, FreshInv, Sockets
<1>8. opened' >= opened
  BY <1>1, <1>4
<1>9. ASSUME NEW s \in Sockets, Status(s) \in Usable, s # link[1].socket
      PROVE  sock'[s].status \in Usable
  <2>1. s # opened + 1
    BY <1>7, <1>9 DEF Usable
  <2>2. sock'[s] = sock[s]
    BY <1>3, <1>4, <1>5, <1>9, <2>1 DEF h, Destroyed
  <2> QED BY <1>9, <2>2 DEF Status
<1>10. ASSUME NEW s \in Sockets, s > opened' PROVE sock'[s].status = "unused"
  <2>1. s > opened /\ (opened' = opened + 1 => s # opened + 1)
    BY <1>1, <1>4, <1>10 DEF Sockets
  <2>2. s # h /\ sock[s].status = "unused"
    BY <1>6, <2>1 DEF SInv, FreshInv, Status
  <2>3. sock'[s] = sock[s]
    BY <1>3, <1>4, <1>5, <1>10, <2>1, <2>2 DEF Destroyed
  <2> QED BY <2>2, <2>3
<1> QED BY <1>2, <1>8, <1>9, <1>10, NoEventSInv

\* Destroying the instance's socket and giving up.
LEMMA GivenUpSInv ==
  ASSUME SInv, IInv', MaxConns = 1, events' = events, Unread' \subseteq Unread,
         link' = [link EXCEPT ![1] = Disconnected(link[1])],
         sock' = Destroyed(sock, link[1].socket), opened' = opened
  PROVE  SInv'
<1> DEFINE h == link[1].socket
<1>1. /\ link[1] \in Links /\ opened \in 0..MaxSockets /\ Conns = {1}
      /\ h # NoSocket => h \in Sockets /\ h <= opened
  BY OwnSocket
<1>2. link'[1].socket = NoSocket
  BY <1>1, DisconnectedType DEF SInv, IInv, TypeOK
<1>3. sock \in [Sockets -> SocketRecords]
  BY DEF SInv, IInv, TypeOK
<1>4. \A s \in Sockets : s # h => sock'[s] = sock[s]
  BY <1>3 DEF Destroyed
<1> HIDE DEF h
<1>5. \A s \in Sockets : s > opened => s # h
  BY <1>1 DEF Sockets, NoSocket
<1>6. ASSUME NEW s \in Sockets, Status(s) \in Usable, s # link[1].socket
      PROVE  sock'[s].status \in Usable
  BY <1>4, <1>6 DEF h, Status
<1>7. ASSUME NEW s \in Sockets, s > opened' PROVE sock'[s].status = "unused"
  BY <1>4, <1>5, <1>7 DEF SInv, FreshInv, Status
<1>8. opened' >= opened
  BY <1>1
<1> QED BY <1>2, <1>6, <1>7, <1>8, NoEventSInv

\* Steps that change neither the instance's socket nor what a socket is good for.
LEMMA SameStatusSInv ==
  ASSUME SInv, IInv', MaxConns = 1, events' = events, Unread' \subseteq Unread,
         opened' = opened, link'[1].socket = link[1].socket,
         \A s \in Sockets : sock'[s].status = sock[s].status
  PROVE  SInv'
<1>1. opened \in 0..MaxSockets
  BY OwnSocket
<1>2. opened' >= opened
  BY <1>1
<1>3. \A s \in Sockets : Status(s) \in Usable => sock'[s].status \in Usable
  BY DEF Status
<1>4. link[1].socket # NoSocket => sock'[link[1].socket].status \in Usable
  BY <1>3, OwnSocket
<1>5. \A s \in Sockets : s > opened' => sock'[s].status = "unused"
  BY DEF SInv, FreshInv, Status
<1> QED BY <1>2, <1>3, <1>4, <1>5, NoEventSInv

\* Steam takes an event up, or the instance is not told of the one before any more.
LEMMA DispatchSInv ==
  SInv /\ IInv' /\ MaxConns = 1 /\ (RunCallbacks \/ StartDispatch \/ EndDispatch \/ BeginUpdate)
    => SInv'
<1> SUFFICES ASSUME SInv, IInv', MaxConns = 1,
                    RunCallbacks \/ StartDispatch \/ EndDispatch \/ BeginUpdate
             PROVE  SInv'
  OBVIOUS
<1>1. link' = link /\ sock' = sock /\ opened' = opened
  BY DEF RunCallbacks, StartDispatch, EndDispatch, BeginUpdate, steam
<1>2. CASE RunCallbacks \/ StartDispatch \/ BeginUpdate
  <2>1. events' = events /\ phase # "dispatch"
    BY <1>2 DEF RunCallbacks, StartDispatch, BeginUpdate, steam
  <2>2. Unread' \subseteq Unread
    BY <2>1 DEF Unread
  <2> QED BY <1>1, <2>1, <2>2, SameStatusSInv
<1>3. CASE EndDispatch
  <2>1. /\ events # <<>> /\ events' = Tail(events) /\ phase = "dispatch"
        /\ phase' = "callbacks" /\ todo = {}
    BY <1>3 DEF EndDispatch, SInv, IInv, DispatchConsistent
  <2>2. events \in Seq([socket : Sockets, state : SocketStates])
    BY DEF SInv, IInv, TypeOK
  <2>3. \A k \in DOMAIN events' :
          k \in Nat /\ k + 1 \in DOMAIN events /\ k + 1 # 1 /\ events'[k] = events[k + 1]
    BY <2>1, <2>2
  <2>4. \A k \in Unread' : k \in Nat /\ k + 1 \in Unread /\ events'[k] = events[k + 1]
    BY <2>1, <2>3 DEF Unread
  <2>5. UnreadInv'
    <3> SUFFICES ASSUME NEW k \in Unread'
                 PROVE  /\ sock'[events'[k].socket].status \in Usable
                        /\ events'[k].socket # link'[1].socket
                        /\ \A l \in Unread' : events'[l].socket = events'[k].socket => l = k
      BY DEF UnreadInv, Status
    <3>1. /\ Status(events[k + 1].socket) \in Usable
          /\ events[k + 1].socket # link[1].socket
          /\ \A l \in Unread : events[l].socket = events[k + 1].socket => l = k + 1
      BY <2>4 DEF SInv, UnreadInv
    <3>2. ASSUME NEW l \in Unread', events'[l].socket = events'[k].socket PROVE l = k
      <4>1. l \in Nat /\ k \in Nat /\ l + 1 = k + 1
        BY <2>4, <3>1, <3>2
      <4> QED BY <4>1
    <3> QED BY <1>1, <2>4, <3>1, <3>2 DEF Status
  <2>6. FreshInv' /\ SocketUsable'
    BY <1>1 DEF SInv, FreshInv, SocketUsable, Status
  <2> QED BY <2>5, <2>6 DEF SInv
<1> QED BY <1>2, <1>3

\* Once the instance has been told of the event, that is no longer to come.
LEMMA ToldUnread ==
  ASSUME SInv, MaxConns = 1, NEW c \in Conns, StatusLost(c) \/ StatusConnected(c)
  PROVE  /\ c = 1 /\ events' = events /\ 1 \in DOMAIN events /\ Head(events) = events[1]
         /\ Unread' = Unread \ {1}
         /\ StatusConnected(c) => 1 \in Unread
<1>1. c = 1 /\ todo \subseteq {1}
  BY OwnSocket DEF SInv, IInv, TypeOK
<1>2. /\ phase = "dispatch" /\ phase' = phase /\ c \in todo /\ todo' = todo \ {c}
      /\ events' = events
  BY DEF StatusLost, StatusConnected
<1>3. events # <<>> /\ events \in Seq([socket : Sockets, state : SocketStates])
  BY <1>2 DEF SInv, IInv, TypeOK, DispatchConsistent
<1>4. 1 \in DOMAIN events /\ Head(events) = events[1]
  BY <1>3
<1>5. todo' = {} /\ todo # {}
  BY <1>1, <1>2
<1>6. Unread' = Unread \ {1}
  BY <1>2, <1>5 DEF Unread
<1>7. StatusConnected(c) => 1 \in Unread
  BY <1>4, <1>5 DEF StatusConnected, Unread
<1> QED BY <1>1, <1>2, <1>4, <1>6, <1>7

LEMMA StatusLostSInv ==
  ASSUME SInv, IInv', MaxConns = 1, NEW c \in Conns, StatusLost(c) PROVE SInv'
<1>1. c = 1 /\ events' = events /\ Unread' \subseteq Unread
  BY ToldUnread
<1>2. CASE IsLoss(Head(events).state)
  <2>1. Reconnect(1, link[1]) /\ link[1] \in Links
    BY <1>1, <1>2, OwnSocket DEF StatusLost
  <2> QED BY <1>1, <2>1, ReconnectSInv
<1>3. CASE ~IsLoss(Head(events).state)
  <2>1. link' = link /\ opened' = opened /\ sock' = sock
    BY <1>3 DEF StatusLost
  <2> QED BY <1>1, <2>1, SameStatusSInv
<1> QED BY <1>2, <1>3

\* The instance takes the socket of an event nobody has been told of.
LEMMA StatusConnectedSInv ==
  ASSUME SInv, IInv', MaxConns = 1, NEW c \in Conns, StatusConnected(c) PROVE SInv'
<1> DEFINE s == events[1].socket
<1>1. /\ c = 1 /\ events' = events /\ Head(events) = events[1]
      /\ Unread' = Unread \ {1} /\ 1 \in Unread
  BY ToldUnread
<1>2. s \in Sockets /\ link[1] \in Links /\ Conns = {1}
  BY <1>1, OwnSocket
<1>3. /\ Status(s) \in Usable
      /\ \A l \in Unread : events[l].socket = s => l = 1
  BY <1>1 DEF SInv, UnreadInv
<1>4. \A l \in Unread : /\ Status(events[l].socket) \in Usable
                        /\ events[l].socket \in Sockets
                        /\ \A k \in Unread : events[k].socket = events[l].socket => k = l
  BY OwnSocket DEF SInv, UnreadInv
<1>5. PICK handle \in {s, NoTicket} : link' = [link EXCEPT ![1] = Attached(link[1], s, handle)]
  BY <1>1 DEF StatusConnected
<1>6. link'[1].socket = s
  <2>1. handle \in Tickets
    BY <1>2 DEF Tickets
  <2> QED BY <1>2, <1>5, <2>1, AttachedType DEF SInv, IInv, TypeOK
<1>7. opened' = opened /\ \A q \in Sockets : sock'[q].status = Status(q)
  <2>1. sock \in [Sockets -> SocketRecords] /\ sock[s] \in SocketRecords
    BY <1>2 DEF SInv, IInv, TypeOK
  <2>2. sock' = sock \/ sock' = [sock EXCEPT ![s].greetings = @ + 1]
    BY <1>1, Zenon DEF StatusConnected
  <2>3. opened' = opened
    BY DEF StatusConnected
  <2> HIDE DEF s
  <2>4. [sock[s] EXCEPT !.greetings = @ + 1].status = sock[s].status
    BY <2>1 DEF SocketRecords
  <2> QED BY <1>2, <2>1, <2>2, <2>3, <2>4 DEF Status
<1> HIDE DEF s
<1>8. UnreadInv'
  <2> SUFFICES ASSUME NEW k \in Unread \ {1}
               PROVE  /\ sock'[events[k].socket].status \in Usable
                      /\ events[k].socket # s
                      /\ \A l \in Unread \ {1} : events[l].socket = events[k].socket => l = k
    BY <1>1, <1>6 DEF UnreadInv, Status
  <2> QED BY <1>3, <1>4, <1>7
<1>9. SocketUsable'
  <2>1. sock'[s].status \in Usable
    BY <1>2, <1>3, <1>7
  <2> QED BY <1>2, <1>6, <2>1 DEF SocketUsable, Usable
<1>10. FreshInv'
  BY <1>7 DEF SInv, FreshInv, Status
<1> QED BY <1>8, <1>9, <1>10 DEF SInv

\* What the instance reads off its socket leaves the socket what it was; a rejection
\* destroys it.
LEMMA ReadSInv ==
  ASSUME SInv, IInv', MaxConns = 1, ConfirmAuth(1) \/ RejectAuth(1) \/ HeartbeatReply(1)
  PROVE  SInv'
<1>1. /\ events' = events /\ opened' = opened /\ phase' = phase /\ todo' = todo
      /\ link[1] \in Links /\ Conns = {1} /\ DataAvailable(1)
  BY OwnSocket DEF ConfirmAuth, RejectAuth, HeartbeatReply, Received
<1>2. Unread' \subseteq Unread
  BY <1>1 DEF Unread
<1>3. CASE ConfirmAuth(1) \/ HeartbeatReply(1)
  <2> DEFINE h == link[1].socket
  <2>1. h \in Sockets
    BY <1>1, OwnSocket DEF DataAvailable
  <2>2. sock \in [Sockets -> SocketRecords] /\ sock[h] \in SocketRecords
    BY <2>1 DEF SInv, IInv, TypeOK
  <2>3. sock' = [sock EXCEPT ![h].inbox = Tail(@)]
    BY <1>3 DEF ConfirmAuth, HeartbeatReply, Retrieved
  <2>4. link'[1].socket = link[1].socket
    <3>1. link \in [Conns -> Links] /\ 1 \in Conns
      BY <1>1 DEF SInv, IInv, TypeOK
    <3>2. CASE ConfirmAuth(1)
      <4>1. link'[1] = [link[1] EXCEPT !.verified = TRUE, !.ticket = NoTicket]
        BY <3>1, <3>2 DEF ConfirmAuth
      <4> QED BY <1>1, <4>1 DEF Links
    <3>3. CASE HeartbeatReply(1)
      <4>1. link'[1] = [link[1] EXCEPT !.age = 0, !.sent = FALSE]
        BY <3>1, <3>3 DEF HeartbeatReply
      <4> QED BY <1>1, <4>1 DEF Links
    <3> QED BY <1>3, <3>2, <3>3
  <2> HIDE DEF h
  <2>5. [sock[h] EXCEPT !.inbox = Tail(@)].status = sock[h].status
    BY <2>2 DEF SocketRecords
  <2>6. \A s \in Sockets : sock'[s].status = sock[s].status
    BY <2>1, <2>2, <2>3, <2>5
  <2> QED BY <1>1, <1>2, <2>4, <2>6, SameStatusSInv
<1>4. CASE RejectAuth(1)
  <2>1. /\ link' = [link EXCEPT ![1] = Disconnected(link[1])]
        /\ sock' = Destroyed(sock, link[1].socket)
    BY <1>4 DEF RejectAuth
  <2> QED BY <1>1, <1>2, <2>1, GivenUpSInv
<1> QED BY <1>3, <1>4

\* The end of Update: the instance keeps its socket, or destroys it and connects or gives up.
LEMMA BeatSInv ==
  ASSUME SInv, IInv', MaxConns = 1, HeartbeatLost(1) \/ SendHeartbeat(1) \/ NoHeartbeat(1)
  PROVE  SInv'
<1>1. /\ events' = events /\ phase # "dispatch" /\ phase' # "dispatch" /\ todo' = todo
      /\ link[1] \in Links /\ Conns = {1}
  BY OwnSocket DEF HeartbeatLost, SendHeartbeat, NoHeartbeat, Drained, steam
<1>2. Unread' \subseteq Unread
  BY <1>1 DEF Unread
<1>3. CASE HeartbeatLost(1) /\ MayRetry(link[1])
  <2> DEFINE r == [link[1] EXCEPT !.attempts = @ + 1]
  <2>1. link[1].attempts + 1 \in 0..MAX_RECONNECT_ATTEMPTS
    BY <1>1, <1>3 DEF MayRetry, Links
  <2>2. r \in Links
    BY <1>1, <2>1, Zenon DEF Links
  <2>3. r.socket = link[1].socket
    BY <1>1 DEF Links
  <2>4. Reconnect(1, r)
    BY <1>3 DEF HeartbeatLost
  <2> HIDE DEF r
  <2> QED BY <1>1, <1>2, <2>2, <2>3, <2>4, ReconnectSInv
<1>4. CASE HeartbeatLost(1) /\ ~MayRetry(link[1])
  <2>1. /\ link' = [link EXCEPT ![1] = Disconnected(link[1])]
        /\ sock' = Destroyed(sock, link[1].socket)
        /\ opened' = opened
    BY <1>4 DEF HeartbeatLost
  <2> QED BY <1>1, <1>2, <2>1, GivenUpSInv
<1>5. CASE SendHeartbeat(1)
  <2> DEFINE h == link[1].socket
  <2>1. link'[1].socket = link[1].socket /\ opened' = opened
    BY <1>1, <1>5 DEF SendHeartbeat, SInv, IInv, TypeOK, Links
  <2>2. sock \in [Sockets -> SocketRecords]
    BY DEF SInv, IInv, TypeOK
  <2>3. sock' = sock \/ (h \in Sockets /\ sock' = [sock EXCEPT ![h].pings = @ + 1])
    BY <1>1, <1>5, OwnSocket DEF SendHeartbeat, SocketUp
  <2> HIDE DEF h
  <2>4. h \in Sockets => [sock[h] EXCEPT !.pings = @ + 1].status = sock[h].status
    BY <2>2 DEF SocketRecords
  <2>5. \A s \in Sockets : sock'[s].status = sock[s].status
    BY <2>2, <2>3, <2>4
  <2> QED BY <1>1, <1>2, <2>1, <2>5, SameStatusSInv
<1>6. CASE NoHeartbeat(1)
  <2>1. link' = link /\ sock' = sock /\ opened' = opened
    BY <1>6 DEF NoHeartbeat, steam
  <2> QED BY <1>1, <1>2, <2>1, SameStatusSInv
<1> QED BY <1>3, <1>4, <1>5, <1>6

\* A hello makes the one instance there is.
LEMMA HelloSInv == SInv /\ IInv' /\ MaxConns = 1 /\ OnClientHello => SInv'
<1> SUFFICES ASSUME SInv, IInv', MaxConns = 1, OnClientHello PROVE SInv'
  OBVIOUS
<1>1. /\ made + 1 = 1 /\ link[1] \in Links /\ Conns = {1} /\ opened \in 0..MaxSockets
      /\ opened < MaxSockets /\ events' = events /\ phase' = phase /\ todo' = todo
  BY OwnSocket DEF OnClientHello, SInv, IInv, TypeOK
<1>2. Unread' \subseteq Unread
  BY <1>1 DEF Unread
<1>3. PICK handle \in InitialHandles : Connect(1, Constructed(handle), sock)
  BY <1>1 DEF OnClientHello
<1> DEFINE r == Constructed(handle)
<1>4. r \in Links /\ r.socket = NoSocket /\ ConnectStarted(r).socket = NoSocket
  BY ConstructedType, ConnectStartedType
<1> HIDE DEF r
<1>5. link'[1].socket = NoSocket
  BY <1>1, <1>3, <1>4 DEF Connect, SInv, IInv, TypeOK, r
<1>6. sock \in [Sockets -> SocketRecords]
  BY DEF SInv, IInv, TypeOK
<1>7. \/ opened' = opened + 1 /\ sock' = [sock EXCEPT ![opened + 1] = Quiet("connecting")]
      \/ opened' = opened /\ sock' = sock
  BY <1>3 DEF Connect
<1>8. opened + 1 \in Sockets /\ Status(opened + 1) = "unused" /\ opened' >= opened
  BY <1>1, <1>7 DEF SInv, FreshInv, Sockets
<1>9. \A s \in Sockets : Status(s) \in Usable => sock'[s].status \in Usable
  <2> SUFFICES ASSUME NEW s \in Sockets, Status(s) \in Usable PROVE sock'[s] = sock[s]
    BY DEF Status
  <2>1. s # opened + 1
    BY <1>8 DEF Usable
  <2> QED BY <1>6, <1>7, <2>1
<1>10. \A s \in Sockets : s > opened' => sock'[s].status = "unused"
  <2> SUFFICES ASSUME NEW s \in Sockets, s > opened' PROVE sock'[s].status = "unused"
    OBVIOUS
  <2>1. s > opened /\ (opened' = opened + 1 => s # opened + 1)
    BY <1>1, <1>7 DEF Sockets
  <2>2. sock'[s] = sock[s]
    BY <1>6, <1>7, <2>1
  <2> QED BY <2>1, <2>2 DEF SInv, FreshInv, Status
<1> QED BY <1>1, <1>2, <1>5, <1>8, <1>9, <1>10, NoEventSInv

LEMMA TickSInv == SInv /\ IInv' /\ MaxConns = 1 /\ Tick => SInv'
<1> SUFFICES ASSUME SInv, IInv', MaxConns = 1, Tick PROVE SInv'
  OBVIOUS
<1>1. /\ events' = events /\ phase' = phase /\ todo' = todo /\ opened' = opened
      /\ sock' = sock /\ link[1] \in Links /\ Conns = {1}
  BY OwnSocket DEF Tick, steam
<1>2. Unread' \subseteq Unread
  BY <1>1 DEF Unread
<1>3. made = 1
  BY DEF Tick, SInv, IInv, TypeOK
<1>4. link'[1].socket = link[1].socket
  BY <1>1, <1>3 DEF Tick, SInv, IInv, TypeOK, Links
<1> QED BY <1>1, <1>2, <1>4, SameStatusSInv

\* Steam queues an event about the socket s: a Connected one only of a socket that is not the
\* instance's yet, since that one has been told of.
LEMMA PostedSInv ==
  ASSUME SInv, IInv', MaxConns = 1, NEW s \in Sockets, NEW state, NEW status,
         UNCHANGED <<link, phase, todo, opened>>, events' = Posted(s, state),
         \A t \in Sockets : sock'[t].status = IF t = s THEN status ELSE Status(t),
         Status(s) # "unused", Status(s) \in Usable => status \in Usable,
         state = k_ESNetSocketStateConnected => Status(s) \notin Usable /\ status \in Usable
  PROVE  SInv'
<1> DEFINE n == Len(events)
           e == [socket |-> s, state |-> state]
<1>1. /\ n \in Nat /\ DOMAIN events = 1..n /\ DOMAIN events' = 1..(n + 1)
      /\ events'[n + 1] = e /\ \A k \in 1..n : events'[k] = events[k]
  <2>1. events \in Seq([socket : Sockets, state : SocketStates])
    BY DEF SInv, IInv, TypeOK
  <2> QED BY <2>1 DEF Posted
<1>2. e.socket = s /\ e.state = state
  OBVIOUS
<1> HIDE DEF n, e
<1>3. \A t \in Sockets : Status(t) \in Usable => sock'[t].status \in Usable
  OBVIOUS
<1>4. \A k \in Unread' : (k \in Unread /\ events'[k] = events[k]) \/ k = n + 1
  BY <1>1 DEF Unread
<1>5. n + 1 \in Unread' => state = k_ESNetSocketStateConnected
  BY <1>1, <1>2 DEF Unread
<1>6. Conns = {1} /\ (link[1].socket # NoSocket => Status(link[1].socket) \in Usable
                                                   /\ link[1].socket \in Sockets)
  BY OwnSocket
<1>7. \A k \in Unread : events[k].socket \in Sockets /\ Status(events[k].socket) \in Usable
  BY OwnSocket DEF SInv, UnreadInv
<1>8. s # NoSocket
  BY DEF Sockets, NoSocket
<1>9. UnreadInv'
  <2> SUFFICES ASSUME NEW k \in Unread'
               PROVE  /\ sock'[events'[k].socket].status \in Usable
                      /\ events'[k].socket # link'[1].socket
                      /\ \A l \in Unread' : events'[l].socket = events'[k].socket => l = k
    BY DEF UnreadInv, Status
  <2>1. CASE k \in Unread /\ events'[k] = events[k]
    <3>1. /\ events[k].socket \in Sockets /\ Status(events[k].socket) \in Usable
          /\ events[k].socket # link[1].socket
          /\ \A l \in Unread : events[l].socket = events[k].socket => l = k
      BY <1>7, <2>1 DEF SInv, UnreadInv
    <3>2. ASSUME NEW l \in Unread', events'[l].socket = events'[k].socket PROVE l = k
      <4>1. CASE l \in Unread /\ events'[l] = events[l]
        BY <2>1, <3>1, <3>2, <4>1
      <4>2. CASE l = n + 1
        <5>1. Status(s) \notin Usable /\ events'[l].socket = s
          BY <1>1, <1>2, <1>5, <4>2
        <5> QED BY <2>1, <3>1, <3>2, <5>1
      <4> QED BY <1>4, <4>1, <4>2
    <3> QED BY <1>3, <2>1, <3>1, <3>2
  <2>2. CASE k = n + 1
    <3>1. /\ events'[k].socket = s /\ Status(s) \notin Usable /\ status \in Usable
      BY <1>1, <1>2, <1>5, <2>2
    <3>2. s # link[1].socket
      BY <1>6, <1>8, <3>1
    <3>3. ASSUME NEW l \in Unread', events'[l].socket = s PROVE l = k
      BY <1>4, <1>7, <2>2, <3>1, <3>3
    <3> QED BY <3>1, <3>2, <3>3
  <2> QED BY <1>4, <2>1, <2>2
<1>10. SocketUsable'
  <2> SUFFICES ASSUME link'[1].connected
               PROVE  link'[1].socket \in Sockets /\ sock'[link'[1].socket].status \in Usable
    BY <1>6 DEF SocketUsable, Usable
  <2>1. link'[1].socket # NoSocket
    BY <1>6 DEF IInv, LinkConsistent
  <2> QED BY <1>3, <1>6, <2>1
<1>11. FreshInv'
  BY DEF SInv, FreshInv, Status
<1> QED BY <1>9, <1>10, <1>11 DEF SInv

LEMMA SocketSInv ==
  ASSUME SInv, IInv', MaxConns = 1, NEW s \in Sockets,
         \/ SocketConnects(s) \/ SocketFails(s) \/ SocketClosed(s)
         \/ AnswerGreeting(s) \/ AnswerPing(s)
  PROVE  SInv'
<1>1. sock \in [Sockets -> SocketRecords] /\ sock[s] \in SocketRecords
  BY DEF SInv, IInv, TypeOK
<1>2. UNCHANGED <<link, phase, todo, opened>>
  BY DEF SocketConnects, SocketFails, SocketClosed, AnswerGreeting, AnswerPing, program
<1> USE DEF Status, Usable
<1>3. CASE SocketConnects(s)
  <2>1. [sock[s] EXCEPT !.status = "connected"].status = "connected"
    BY <1>1 DEF SocketRecords
  <2>2. \A t \in Sockets : sock'[t].status = IF t = s THEN "connected" ELSE Status(t)
    BY <1>1, <1>3, <2>1 DEF SocketConnects
  <2>3. Status(s) = "connecting" /\ events' = Posted(s, k_ESNetSocketStateConnected)
    BY <1>3 DEF SocketConnects
  <2> QED BY <1>2, <2>2, <2>3, PostedSInv
<1>4. CASE SocketFails(s)
  <2>1. [sock[s] EXCEPT !.status = "failed", !.greetings = 0, !.pings = 0].status = "failed"
    BY <1>1 DEF SocketRecords
  <2>2. \A t \in Sockets : sock'[t].status = IF t = s THEN "failed" ELSE Status(t)
    BY <1>1, <1>4, <2>1 DEF SocketFails
  <2>3. PICK state \in {k_ESNetSocketStateTimeoutDuringConnect,
                        k_ESNetSocketStateConnectionBroken} :
          Status(s) \in {"connecting", "connected"} /\ events' = Posted(s, state)
    BY <1>4 DEF SocketFails
  <2>4. state # k_ESNetSocketStateConnected
    BY DEF k_ESNetSocketStateConnected, k_ESNetSocketStateTimeoutDuringConnect,
           k_ESNetSocketStateConnectionBroken
  <2> QED BY <1>2, <2>2, <2>3, <2>4, PostedSInv
<1>5. CASE SocketClosed(s)
  <2>1. [sock[s] EXCEPT !.status = "closed"].status = "closed"
    BY <1>1 DEF SocketRecords
  <2>2. \A t \in Sockets : sock'[t].status = IF t = s THEN "closed" ELSE Status(t)
    BY <1>1, <1>5, <2>1 DEF SocketClosed
  <2>3. Status(s) = "destroyed" /\ events' = Posted(s, k_ESNetSocketStateLocalDisconnect)
    BY <1>5 DEF SocketClosed
  <2>4. k_ESNetSocketStateLocalDisconnect # k_ESNetSocketStateConnected
    BY DEF k_ESNetSocketStateConnected, k_ESNetSocketStateLocalDisconnect
  <2> QED BY <1>2, <2>2, <2>3, <2>4, PostedSInv
<1>6. CASE AnswerGreeting(s) \/ AnswerPing(s)
  <2>1. events' = events
    BY <1>6 DEF AnswerGreeting, AnswerPing
  <2>2. Unread' \subseteq Unread
    BY <1>2, <2>1 DEF Unread
  <2>3. PICK m \in {"confirm", "reject", "heartbeat"} :
          \/ sock' = [sock EXCEPT ![s].greetings = @ - 1, ![s].inbox = Append(@, m)]
          \/ sock' = [sock EXCEPT ![s].pings = @ - 1, ![s].inbox = Append(@, m)]
    BY <1>6 DEF AnswerGreeting, AnswerPing
  <2>4. /\ [sock[s] EXCEPT !.greetings = @ - 1, !.inbox = Append(@, m)].status = sock[s].status
        /\ [sock[s] EXCEPT !.pings = @ - 1, !.inbox = Append(@, m)].status = sock[s].status
    BY <1>1 DEF SocketRecords
  <2>5. \A t \in Sockets : sock'[t].status = sock[t].status
    BY <1>1, <2>3, <2>4
  <2> QED BY <1>2, <2>1, <2>2, <2>5, SameStatusSInv
<1> QED BY <1>3, <1>4, <1>5, <1>6

\* With a single instance, the socket a connected instance sends on has not been destroyed by
\* the program, however late the events about it and about those before it come.  (With two
\* instances it may be: both take every socket that connects.)
THEOREM SocketStaysUsable == ASSUME MaxConns = 1 PROVE Spec => []SocketUsable
<1>1. Init => SInv
  <2> SUFFICES ASSUME Init PROVE SInv
    OBVIOUS
  <2>1. Conns = {1} /\ link[1] = Constructed(NoTicket)
    BY DEF Init, Conns
  <2>2. SocketUsable
    BY <2>1, ConstructedType DEF SocketUsable
  <2>3. Unread = {}
    BY DEF Init, Unread
  <2>4. FreshInv
    BY DEF Init, FreshInv, Status, Quiet
  <2> QED BY <2>2, <2>3, <2>4, InitIInv DEF SInv, UnreadInv
<1>2. SInv /\ [Next]_vars => SInv'
  <2> SUFFICES ASSUME SInv, [Next]_vars PROVE SInv'
    OBVIOUS
  <2>1. IInv'
    BY NextIInv DEF SInv
  <2>2. CASE StatusCallback
    BY <2>1, <2>2, StatusLostSInv, StatusConnectedSInv DEF StatusCallback
  <2>3. CASE made # 0 /\ Update(made)
    <3>1. made = 1
      BY <2>3 DEF SInv, IInv, TypeOK
    <3> QED BY <2>1, <2>3, <3>1, ReadSInv, BeatSInv DEF Update
  <2>4. CASE Environment
    BY <2>1, <2>4, TickSInv, SocketSInv DEF Environment
  <2>5. CASE UNCHANGED vars
    <3>1. /\ events' = events /\ phase' = phase /\ todo' = todo /\ opened' = opened
          /\ sock' = sock /\ link' = link
      BY <2>5 DEF vars, program, steam
    <3>2. Unread' \subseteq Unread
      BY <3>1 DEF Unread
    <3> QED BY <2>1, <3>1, <3>2, SameStatusSInv
  <2> QED BY <2>1, <2>2, <2>3, <2>4, <2>5, DispatchSInv, HelloSInv DEF Next, Client
<1>3. SInv => SocketUsable
  BY DEF SInv
<1> QED BY <1>1, <1>2, <1>3, PTL DEF Spec

-----------------------------------------------------------------------------
(* The heartbeat's clock arithmetic (HeartbeatTiming), for every interval, *)
(* timeout, frame time and latency.                                        *)

\* The age at which a heartbeat goes out is at least what connecting took.
LEMMA YouthBounds ==
  /\ Youth \in Nat
  /\ ConnectTime <= Youth
  /\ HeartbeatInterval - 1 <= Youth
BY TimingAssumption DEF Youth

\* Update's receive loop: with a heartbeat still out only if no answer came, the
\* members are left as they were; otherwise the age starts anew.
LEMMA HeardCases ==
  \/ wire = "answered" /\ Heard.age = 0 /\ Heard.sent = FALSE
  \/ wire # "answered" /\ Heard.age = age /\ Heard.sent = sent
BY DEF Heard, Unheard

\* The initial states satisfy the invariant.
LEMMA InitTimingInv == TimingInit => TimingInv
<1> SUFFICES ASSUME TimingInit PROVE TimingInv
  OBVIOUS
<1> USE TimingAssumption, YouthBounds DEF TimingInit, AgeAtConnect
<1>1. TimingTypes
  <2>1. up \in BOOLEAN /\ sent \in BOOLEAN /\ lost \in BOOLEAN /\ answers \in BOOLEAN
    BY Zenon
  <2>2. age \in Nat /\ idle \in 0..MaxGap /\ waited \in Nat
    OBVIOUS
  <2> QED BY <2>1, <2>2, Zenon DEF TimingTypes
<1>2. AgeInv
  BY DEF AgeInv
<1>3. KeptInv
  BY DEF KeptInv
<1> QED BY <1>1, <1>2, <1>3 DEF TimingInv

\* Each step keeps the types, the bounds on the age before and while a heartbeat
\* is out, and the bound the last Update left.
LEMMA NextTimingInv == TimingInv /\ [TimingNext]_timing => TimingInv'
<1> SUFFICES ASSUME TimingInv, [TimingNext]_timing PROVE TimingInv'
  OBVIOUS
<1> USE TimingAssumption, YouthBounds, HeardCases DEF TimingInv, TimingTypes, AgeInv, KeptInv
<1>1. CASE Connected
  BY <1>1 DEF Connected
<1>2. CASE UpdateLoses
  BY <1>2 DEF UpdateLoses
<1>3. CASE UpdateSends
  BY <1>3 DEF UpdateSends, BeatDue
<1>4. CASE UpdateWaits
  <2>1. CASE wire = "answered"
    BY <1>4, <2>1 DEF UpdateWaits, Heard
  <2>2. CASE wire # "answered"
    <3>1. /\ sent => age < HeartbeatTimeout
          /\ ~sent => age < HeartbeatInterval
      BY <1>4, <2>2 DEF UpdateWaits, TimedOut, BeatDue, Heard, Unheard
    <3> QED BY <1>4, <2>2, <3>1 DEF UpdateWaits, Heard, Unheard
  <2> QED BY <2>1, <2>2
<1>5. CASE Answer
  BY <1>5 DEF Answer
<1>6. CASE SecondPasses
  BY <1>6 DEF SecondPasses
<1>7. CASE UNCHANGED timing
  BY <1>7 DEF timing, Youth
<1> QED BY <1>1, <1>2, <1>3, <1>4, <1>5, <1>6, <1>7 DEF TimingNext

\* The inductive invariant of the heartbeat: a heartbeat is out exactly while
\* m_sentheartbeat is set, and the age is bounded before and after it is sent.
THEOREM AgeInvariant == TimingSpec => []TimingInv
BY InitTimingInv, NextTimingInv, PTL DEF TimingSpec

\* A link that is up has heard from the server within the timeout (or the age at
\* which its heartbeat went out) and one frame: a dead server is noticed by then.
THEOREM DetectionWithinBound == TimingSpec => []DetectionBound
<1>1. TimingInv => DetectionBound
  BY TimingAssumption, YouthBounds DEF TimingInv, TimingTypes, KeptInv, DetectionBound
<1> QED BY <1>1, AgeInvariant, PTL

\* When the game's frames and the server's answers leave room before the timeout
\* (Timely), Update's timeout branch is never taken of a server that answers.
THEOREM AnsweringServerKept ==
  ASSUME Timely PROVE TimingSpec => []LossMeansNoAnswer
<1>1. TimingInit => LossMeansNoAnswer
  BY DEF TimingInit, LossMeansNoAnswer
<1>2. TimingInv /\ LossMeansNoAnswer /\ [TimingNext]_timing => LossMeansNoAnswer'
  <2> SUFFICES ASSUME TimingInv, LossMeansNoAnswer, [TimingNext]_timing
               PROVE  LossMeansNoAnswer'
    OBVIOUS
  <2>1. CASE UpdateLoses
    <3>1. wire = "asked" /\ age >= HeartbeatTimeout
      BY <2>1, HeardCases, TimingAssumption
      DEF UpdateLoses, TimedOut, TimingInv, TimingTypes, AgeInv
    <3>2. ~answers
      BY <3>1, Timely, TimingAssumption, YouthBounds
      DEF Timely, TimingInv, TimingTypes, AgeInv
    <3> QED BY <2>1, <3>2 DEF UpdateLoses, LossMeansNoAnswer
  <2>2. CASE Connected \/ UpdateSends \/ UpdateWaits \/ Answer \/ SecondPasses
    BY <2>2 DEF Connected, UpdateSends, UpdateWaits, Answer, SecondPasses, LossMeansNoAnswer
  <2>3. CASE UNCHANGED timing
    BY <2>3 DEF timing, LossMeansNoAnswer
  <2> QED BY <2>1, <2>2, <2>3 DEF TimingNext
<1> QED BY <1>1, <1>2, AgeInvariant, PTL DEF TimingSpec
=============================================================================
