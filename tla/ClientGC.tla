------------------------------ MODULE ClientGC ------------------------------
(***************************************************************************)
(* ClientGC (src/csgo_gc/gc_client.cpp): what the game takes for Valve's   *)
(* game coordinator.  It forwards the game's requests to the remote        *)
(* coordinator, keeps a copy of the player's items and default equips      *)
(* (the shared objects) and passes every change on to the game's queue of  *)
(* incoming messages and to the game server the player is on.              *)
(*                                                                         *)
(* The link to the coordinator is reduced here to what ClientGC sees of    *)
(* it: connected or not, with what each side has said and the other not    *)
(* yet read (GCConnection models the link itself, ChunkAssembly how large  *)
(* messages cross it).  The coordinator, the game and the game server are  *)
(* external.                                                               *)
(***************************************************************************)
EXTENDS Naturals, SequencesExt, FiniteSets

CONSTANTS
  Items, Slots,   \* the ids of items, the slots of default equips
  InitialObjects, \* objects the player has to begin with
  RequestKinds,   \* the requests the game makes of those modelled
  MaxHellos,      \* hellos the game says (a bound)
  MaxLosses,      \* times the link is lost (a bound)
  MaxChanges,     \* changes the coordinator makes to the objects (a bound)
  MaxRequests,    \* requests the game makes (a bound)
  MaxServers,     \* game servers the player joins (a bound)
  MaxMoves        \* all of these together (a bound)

Objects == Items \cup Slots

ASSUME ObjectsAssumption ==
  /\ Items \cap Slots = {}
  /\ InitialObjects \subseteq Objects

ASSUME BoundsAssumption ==
  /\ MaxHellos \in Nat /\ MaxLosses \in Nat /\ MaxChanges \in Nat
  /\ MaxRequests \in Nat /\ MaxServers \in Nat /\ MaxMoves \in Nat

\* An object's contents: a number that only grows; 0 when there is no such object.
Absent == 0
Contents == 0..(MaxChanges + 1)
Views == [Objects -> Contents]
EmptyView == [o \in Objects |-> Absent]

VARIABLES
  hello,           \* m_gcConnection is set
  connected,       \* m_gcConnection->CCIsConnected()
  hasMatchmaking,  \* m_hasMatchmakingData
  hasSOCache,      \* m_hasSOCacheData
  pendingHello,    \* m_pendingOnClientHello
  cache,           \* m_serverSOCacheData
  items,           \* m_items
  equips,          \* m_defaultEquips: the entries of each slot, in order
  outgoing,        \* m_outgoingMessages
  server,          \* a game server is bound (m_serverSteamId)
  up, down,        \* what the client, and the coordinator, has sent and the
                   \* other has not read
  truth,           \* the objects the coordinator holds
  game,            \* the objects as the game knows them
  serverView,      \* the objects as the bound game server knows them
  current,         \* the cache of this connection has been received
  waiting,         \* kinds of requests forwarded and not yet answered
  hellos, losses, changes, requests, servers   \* counters for the bounds

members == <<hello, hasMatchmaking, hasSOCache, pendingHello, cache, items, equips>>
link == <<connected, up, down, current>>
history == <<waiting>>
counters == <<hellos, losses, changes, requests, servers>>
vars == <<members, link, outgoing, server, truth, game, serverView, history, counters>>

\* Somebody may still do something nobody has asked for.
MayMove == hellos + losses + changes + requests + servers < MaxMoves

(* A message about objects: what it modifies, adds and removes.  Those that *)
(* are about none have a kind only.                                        *)
None == [o \in {} |-> Absent]
Message(kind, mod, add, rem) == [kind |-> kind, mod |-> mod, add |-> add, rem |-> rem]
Plain(kind) == Message(kind, None, None, {})
Single(kind, o, v) == Message(kind, [x \in {o} |-> v], None, {})

\* The whole of the objects v.
Snapshot(kind, v) == Message(kind, v, None, {})

\* The view of a reader who applies the message m to the view v.
Applied(m, v) ==
  [o \in DOMAIN v |->
     IF o \in m.rem THEN Absent
     ELSE IF o \in DOMAIN m.add THEN m.add[o]
     ELSE IF o \in DOMAIN m.mod THEN m.mod[o]
     ELSE v[o]]

\* The objects the message m is about.
Touched(m) == DOMAIN m.mod \cup DOMAIN m.add \cup m.rem

\* The view v after the first n of the messages: the last one about an object decides.
AfterFirst(n, messages, v) ==
  [o \in DOMAIN v |->
     LET about == {k \in 1..n : o \in Touched(messages[k])}
     IN  IF about = {} THEN v[o] ELSE Applied(messages[Max(about)], v)[o]]
AfterAll(messages, v) == AfterFirst(Len(messages), messages, v)

\* The objects ClientGC holds: its items, and the first entry of each slot.
Held ==
  [o \in Objects |->
     IF o \in Items THEN items[o]
     ELSE IF equips[o] = <<>> THEN Absent ELSE Head(equips[o])]

\* m_defaultEquips from a cache v.
EntriesOf(v) ==
  [s \in Slots |-> IF v[s] = Absent THEN <<>> ELSE <<v[s]>>]

Init ==
  /\ hello = FALSE /\ connected = FALSE
  /\ hasMatchmaking = FALSE /\ hasSOCache = FALSE /\ pendingHello = FALSE
  /\ cache = EmptyView
  /\ items = [i \in Items |-> Absent]
  /\ equips = [s \in Slots |-> <<>>]
  /\ outgoing = <<>>
  /\ server = FALSE
  /\ up = <<>> /\ down = <<>>
  /\ truth = [o \in Objects |-> IF o \in InitialObjects THEN 1 ELSE Absent]
  /\ game = EmptyView /\ serverView = EmptyView
  /\ current = FALSE /\ waiting = {}
  /\ hellos = 0 /\ losses = 0 /\ changes = 0 /\ requests = 0 /\ servers = 0

-----------------------------------------------------------------------------
(* The game's side.                                                        *)

\* OnClientHello: a new connection takes the place of the old one, and with it
\* goes what was under way, whether or not the hello can be parsed; a welcome is
\* pending unless matchmaking data is there.
OnClientHello(parsed) ==
  /\ hellos < MaxHellos /\ MayMove
  /\ hellos' = hellos + 1
  /\ hello' = TRUE
  /\ connected' = FALSE /\ up' = <<>> /\ down' = <<>> /\ current' = FALSE
  /\ pendingHello' = (pendingHello \/ (parsed /\ ~hasMatchmaking))
  /\ waiting' = {}
  /\ UNCHANGED <<hasMatchmaking, hasSOCache, cache, items, equips, outgoing, server,
                 truth, game, serverView, losses, changes, requests, servers>>

\* The message of a request the coordinator has no answer to: whatever it makes of it
\* is a change of the objects.
Unanswered == "unanswered"

\* The requests that have an answer of their own.
Answered == {"profile", "commendQuery", "reportPlayer", "store", "unlock", "delete", "craft"}

\* A request of the game that is forwarded, as the given messages, when the link
\* is up and silently dropped when it is not.
Forward(kind, messages) ==
  /\ kind \in RequestKinds
  /\ requests < MaxRequests /\ MayMove
  /\ requests' = requests + 1
  /\ IF hello /\ connected
       THEN /\ up' = up \o messages
            /\ waiting' = IF kind \in Answered THEN waiting \cup {kind} ELSE waiting
       ELSE UNCHANGED <<up, waiting>>
  /\ UNCHANGED <<members, connected, down, current, outgoing, server, truth, game,
                 serverView, hellos, losses, changes, servers>>

HandleViewPlayersProfileRequest == Forward("profile", <<"profile">>)
HandleClientCommendPlayerQuery == Forward("commendQuery", <<"commendQuery">>)
HandleClientCommendPlayer == Forward("commend", <<Unanswered>>)
HandleClientReportPlayer == Forward("reportPlayer", <<"reportPlayer">>)
HandleAdjustItemEquippedState == Forward("equip", <<Unanswered>>)
HandleUseItemRequest == Forward("use", <<Unanswered>>)
HandleApplySticker == Forward("sticker", <<Unanswered>>)
HandleStorePurchaseInit == Forward("store", <<"store">>)
HandleUnlockCrate == Forward("unlock", <<"unlock">>)
HandleCraft == Forward("craft", <<"craft">>)
HandleNameItem == Forward("name", <<Unanswered>>)
HandleNameBaseItem == Forward("nameBase", <<Unanswered>>)
HandleRemoveItemName == Forward("removeName", <<Unanswered>>)
HandleDeleteItemRequest == Forward("delete", <<"delete">>)

\* Acknowledged items are reported in batches; two stand for several.
HandleItemAcknowledged ==
  \/ Forward("acknowledge", <<Unanswered>>)
  \/ Forward("acknowledge", <<Unanswered, Unanswered>>)

\* Requests answered here, without the coordinator: the price sheet (nothing if
\* the file is missing) and the data to join a server; reports of servers are not
\* handled at all.
AnswerLocally(kind, message) ==
  /\ kind \in RequestKinds
  /\ requests < MaxRequests /\ MayMove
  /\ requests' = requests + 1
  /\ outgoing' = outgoing \o message
  /\ UNCHANGED <<members, link, server, truth, game, serverView, waiting,
                 hellos, losses, changes, servers>>

StoreGetUserData ==
  \/ AnswerLocally("priceSheet", <<Plain("priceSheet")>>)
  \/ AnswerLocally("priceSheet", <<>>)
ClientRequestJoinServerData == AnswerLocally("joinServer", <<Plain("joinServer")>>)
ClientReportServer == AnswerLocally("reportServer", <<>>)

HandleMessage ==
  \/ \E parsed \in BOOLEAN : OnClientHello(parsed)
  \/ HandleViewPlayersProfileRequest \/ HandleClientCommendPlayerQuery
  \/ HandleClientCommendPlayer \/ HandleClientReportPlayer
  \/ HandleAdjustItemEquippedState \/ HandleUseItemRequest \/ HandleApplySticker
  \/ HandleStorePurchaseInit \/ HandleUnlockCrate \/ HandleCraft
  \/ HandleNameItem \/ HandleNameBaseItem \/ HandleRemoveItemName
  \/ HandleDeleteItemRequest \/ HandleItemAcknowledged
  \/ StoreGetUserData \/ ClientRequestJoinServerData \/ ClientReportServer

\* PopOutgoingMessage: the first message goes to the game if its buffer has room.
PoppedAlways(fits) == Tail(outgoing)
Popped(fits) == IF fits THEN Tail(outgoing) ELSE outgoing

\* The game takes the next message: a change of its objects, the welcome, or the
\* answer to a request.
RetrieveMessage ==
  /\ outgoing # <<>>
  /\ \E fits \in BOOLEAN :
       /\ outgoing' = Popped(fits)
       /\ IF fits
            THEN /\ game' = Applied(Head(outgoing), game)
                 /\ waiting' = waiting \ {Head(outgoing).kind}
            ELSE UNCHANGED <<game, waiting>>
  /\ UNCHANGED <<members, link, server, truth, serverView, counters>>

-----------------------------------------------------------------------------
(* The coordinator's messages, as TCPConnection::Update hands them over.   *)

\* SendMessageToGame(FALSE, ...) for each of the given messages.
SendToGame(messages) ==
  /\ outgoing' = outgoing \o messages
  /\ UNCHANGED serverView

\* SendMessageToGame(TRUE, ...) for each: the game server gets them too.
SendToBoth(messages) ==
  /\ outgoing' = outgoing \o messages
  /\ serverView' = IF server THEN Applied(Head(messages), serverView) ELSE serverView

\* CheckAndSendWelcomeMessages: the welcome with the stored cache c, once there
\* is matchmaking data (m) and a cache (s); and a slip: only if a hello is pending.
WelcomeMessages(c) == <<Snapshot("welcome", c), Plain("matchmakingHello")>>
WelcomesIfPending(m, s, c) == IF m /\ s /\ pendingHello THEN WelcomeMessages(c) ELSE <<>>
Welcomes(m, s, c) == IF m /\ s THEN WelcomeMessages(c) ELSE <<>>

\* The next message is of the given kind; what its handler leaves alone.
Received(kind) ==
  /\ connected
  /\ down # <<>>
  /\ Head(down).kind = kind
  /\ down' = Tail(down)
  /\ UNCHANGED <<hello, connected, server, truth, game, history, counters>>

\* GCConfirmAuth: ask for the matchmaking data.
HandleConfirmAuth ==
  /\ Received("confirm")
  /\ up' = Append(up, "matchmaking")
  /\ UNCHANGED <<members, current, outgoing, serverView>>

\* HandleMatchmakingHello: ask for the objects, and welcome the game if objects
\* have ever been received.
HandleMatchmakingHello ==
  /\ Received("matchmaking")
  /\ hasMatchmaking' = TRUE
  /\ up' = Append(up, "cache")
  /\ pendingHello' = (pendingHello /\ ~hasSOCache)
  /\ SendToGame(Welcomes(TRUE, hasSOCache, cache))
  /\ UNCHANGED <<hello, hasSOCache, cache, items, equips, current>>

\* The cache StoreCacheSubscription keeps of the one received; and a slip: the
\* first one is kept for good.
FirstCache(received) == IF hasSOCache THEN cache ELSE received
StoredCache(received) == received

\* HandleCacheSubscription: everything held is replaced; the welcome follows if
\* there is matchmaking data.
HandleCacheSubscription ==
  LET received == Head(down).mod
      stored == StoredCache(received) IN
  /\ Received("cache")
  /\ hasSOCache' = TRUE
  /\ cache' = stored
  /\ items' = [i \in Items |-> received[i]]
  /\ equips' = EntriesOf(received)
  /\ current' = TRUE
  /\ pendingHello' = (pendingHello /\ ~hasMatchmaking)
  /\ SendToGame(Welcomes(hasMatchmaking, TRUE, stored))
  /\ UNCHANGED <<hello, hasMatchmaking, up>>

\* m_items after an object message.
StoredItems(m) == Applied(m, items)

\* m_defaultEquips after an object message: an entry modified is replaced, or
\* appended when the slot has none; one added is appended; the first is removed.
Replaced(entries, v) ==
  IF entries = <<>> THEN <<v>> ELSE [entries EXCEPT ![1] = v]
StoredEntries(entries, s, m) ==
  LET replaced == IF s \in DOMAIN m.mod THEN Replaced(entries, m.mod[s]) ELSE entries
      added == IF s \in DOMAIN m.add THEN Append(replaced, m.add[s]) ELSE replaced
  IN  IF s \in m.rem /\ added # <<>> THEN Tail(added) ELSE added
StoredEquips(m) == [s \in Slots |-> StoredEntries(equips[s], s, m)]

\* HandleSOSingleObject and HandleSOMultipleObjects: keep the objects, and tell
\* the game and its server.
HandleObjects(kind) ==
  /\ Received(kind)
  /\ items' = StoredItems(Head(down))
  /\ equips' = StoredEquips(Head(down))
  /\ SendToBoth(<<Head(down)>>)
  /\ UNCHANGED <<hello, hasMatchmaking, hasSOCache, pendingHello, cache, up, current>>

HandleSOSingleObject == HandleObjects("update")
HandleSOMultipleObjects == HandleObjects("updateMultiple")

\* Slips the two handlers of single items could have: m_items not brought up.
ForgottenItems(m) == items
HandledItems(m) == Applied(m, items)

\* HandleUnlockCrateResponse: the new item, and the answer to the request.
HandleUnlockCrateResponse ==
  /\ Received("unlock")
  /\ items' = HandledItems(Head(down))
  /\ SendToBoth(<<[Head(down) EXCEPT !.kind = "create"], Head(down)>>)
  /\ UNCHANGED <<hello, hasMatchmaking, hasSOCache, pendingHello, cache, equips, up, current>>

\* HandleDeleteItem: the item is gone, the game told so.
HandleDeleteItem ==
  /\ Received("delete")
  /\ items' = HandledItems(Head(down))
  /\ SendToBoth(<<Head(down)>>)
  /\ UNCHANGED <<hello, hasMatchmaking, hasSOCache, pendingHello, cache, equips, up, current>>

\* The answers passed on to the game as they are.
Relayed == {"profile", "commendQuery", "reportPlayer", "store"}
HandleAnswer ==
  \E kind \in Relayed :
    /\ Received(kind)
    /\ SendToGame(<<Head(down)>>)
    /\ UNCHANGED <<members, up, current>>

\* ProcessMessage's default: a message of no known type, the answer to a craft
\* request among them, is dropped.
DropUnknown ==
  /\ Received("craft")
  /\ UNCHANGED <<members, up, current, outgoing, serverView>>

ProcessMessage ==
  \/ HandleConfirmAuth \/ HandleMatchmakingHello \/ HandleCacheSubscription
  \/ HandleSOSingleObject \/ HandleSOMultipleObjects
  \/ HandleUnlockCrateResponse \/ HandleDeleteItem
  \/ HandleAnswer \/ DropUnknown

-----------------------------------------------------------------------------
(* The game server, as far as ClientGC is concerned: NetworkingClient      *)
(* accepts its connect message, or the player's auth ticket is cancelled.  *)

\* SendSOCacheToGameServer, once the connect message has been accepted; a ticket
\* is presented again when the server reconnects.
SendSOCacheToGameServer ==
  /\ servers < MaxServers /\ MayMove
  /\ servers' = servers + 1
  /\ server' = TRUE
  /\ serverView' = cache
  /\ UNCHANGED <<members, link, outgoing, truth, game, history, hellos, losses,
                 changes, requests>>

ClearAuthTicket ==
  /\ server
  /\ server' = FALSE
  /\ serverView' = EmptyView
  /\ UNCHANGED <<members, link, outgoing, truth, game, history, counters>>

-----------------------------------------------------------------------------
(* The link and the coordinator (external).                                *)

\* A socket connects.  Every instance of TCPConnection whose callback is still registered
\* takes it for its own and greets the coordinator on it, those of earlier hellos too unless
\* they have given up.
LinkUp ==
  /\ hello
  /\ ~connected
  /\ connected' = TRUE
  /\ \E n \in 1..MaxHellos :
       /\ n <= hellos
       /\ up' = [i \in 1..n |-> "greeting"]
  /\ UNCHANGED <<members, down, current, outgoing, server, truth, game, serverView,
                 history, counters>>

LinkLost ==
  /\ connected
  /\ losses < MaxLosses /\ MayMove
  /\ losses' = losses + 1
  /\ connected' = FALSE /\ up' = <<>> /\ down' = <<>> /\ current' = FALSE
  /\ waiting' = {}
  /\ UNCHANGED <<members, outgoing, server, truth, game, serverView,
                 hellos, changes, requests, servers>>

\* The coordinator reads the next message and replies with the given ones.
Reply(request, messages) ==
  /\ connected
  /\ up # <<>>
  /\ Head(up) = request
  /\ up' = Tail(up)
  /\ down' = down \o messages
  /\ UNCHANGED <<members, connected, current, outgoing, server, game, serverView,
                 history, hellos, losses, requests, servers>>

Present == {o \in Objects : truth[o] # Absent}

\* Its objects change by the message m.
Change(m) ==
  /\ changes < MaxChanges /\ MayMove
  /\ changes' = changes + 1
  /\ truth' = Applied(m, truth)

\* The contents of what is changed next.
Fresh == changes + 2

AnswerSession ==
  \/ Reply("greeting", <<Plain("confirm")>>) /\ UNCHANGED <<truth, changes>>
  \/ Reply("matchmaking", <<Plain("matchmaking")>>) /\ UNCHANGED <<truth, changes>>
  \/ Reply("cache", <<Snapshot("cache", truth)>>) /\ UNCHANGED <<truth, changes>>

AnswerRequest ==
  \/ /\ \E kind \in Relayed : Reply(kind, <<Plain(kind)>>)
     /\ UNCHANGED <<truth, changes>>
  \/ \E i \in Items \cap Present :
       LET m == Message("delete", None, None, {i}) IN
       Reply("delete", <<m>>) /\ Change(m)
  \/ \E i \in Items \ Present :
       LET m == Single("unlock", i, Fresh) IN
       Reply("unlock", <<m>>) /\ Change(m)
  \/ Reply("craft", <<Plain("craft")>>) /\ UNCHANGED <<truth, changes>>
  \/ \* Refused (an answer without an object), or without an answer of its own.
     /\ up # <<>> /\ Head(up) \notin Relayed \cup {"greeting", "matchmaking", "cache", "craft"}
     /\ Reply(Head(up), IF Head(up) \in Answered THEN <<Plain(Head(up))>> ELSE <<>>)
     /\ UNCHANGED <<truth, changes>>

\* The objects change on their own account, one or several at a time; a client
\* that is connected is told.
PushChange ==
  \E mod, add, rem \in SUBSET Objects :
    LET m == Message(IF Cardinality(mod) = 1 /\ add = {} /\ rem = {}
                       THEN "update" ELSE "updateMultiple",
                     [o \in mod |-> Fresh], [o \in add |-> Fresh], rem)
    IN  /\ mod \cup add \cup rem # {}
        /\ mod \cup rem \subseteq Present
        /\ add \cap Present = {}
        /\ mod \cap rem = {}
        /\ Change(m)
        /\ down' = IF connected THEN Append(down, m) ELSE down
        /\ UNCHANGED <<members, connected, up, current, outgoing, server, game, serverView,
                       history, hellos, losses, requests, servers>>

Coordinator == AnswerSession \/ AnswerRequest \/ PushChange

Next ==
  \/ HandleMessage \/ RetrieveMessage \/ ProcessMessage
  \/ SendSOCacheToGameServer \/ ClearAuthTicket
  \/ LinkUp \/ LinkLost \/ Coordinator

Spec == Init /\ [][Next]_vars

\* TCPConnection::Update runs every frame; the game retrieves its messages when
\* told of them (with a buffer of the size it was told); the coordinator answers.
\* Nothing obliges the link to come up, or anybody to ask for anything.
Taken == RetrieveMessage /\ outgoing' # outgoing
Fairness ==
  /\ WF_vars(ProcessMessage)
  /\ WF_vars(Taken)
  /\ WF_vars(AnswerSession \/ AnswerRequest)

-----------------------------------------------------------------------------
(* Properties.                                                             *)

\* Once the cache of a connection has been received, what ClientGC holds, brought
\* up by the messages under way, is what the coordinator holds: no handler misses
\* or repeats a change, and no slot has two default equips, or an entry for none.
MirrorFaithful ==
  current =>
    /\ AfterAll(down, Held) = truth
    /\ \A s \in Slots : Len(equips[s]) = IF Held[s] = Absent THEN 0 ELSE 1

\* By then also the game's view, brought up by the messages queued for it, is what
\* ClientGC holds: every change handled was queued, in order, and a message the
\* game had no room for was not lost.
GameInStep == current /\ hasMatchmaking => AfterAll(outgoing, game) = Held

\* A game server stays in step from the time it connects: what a message of the
\* coordinator changes in what ClientGC holds, by whichever handler, is the same for
\* the server afterwards.  (A new connection's whole cache is for the game alone.)
ServerFollows ==
  [][\A o \in Objects :
       /\ server /\ server' /\ servers' = servers
       /\ current /\ current' /\ Held'[o] # Held[o]
       => serverView'[o] = Held'[o]]_vars

\* If the link is up for good, the game ends with the coordinator's objects, however
\* often it was lost before and whatever changed meanwhile; a hello that comes when the
\* data is already there gets its welcome, too.
GameCatchesUp == <>[]connected => <>[](game = truth)

\* The answers to the requests forwarded reach the game, unless the link is lost: of a
\* bounded number of requests none stays open.  (The answer to a craft request does not:
\* DropUnknown.)
RequestsAnswered == waiting # {} ~> waiting \subseteq {"craft"}
=============================================================================
