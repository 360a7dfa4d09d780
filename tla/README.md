# TLA+ models of csgo_gc (fragNet client)

`csgo_gc` is a library that replaces Valve's game coordinator (GC) for CS:GO. It
is loaded into the game process, hooks the Steam interfaces, answers the game's
coordinator messages, and gets the player's items from a remote coordinator over
a Steam connection socket. This directory models the parts of `src/csgo_gc` that
keep state and talk to somebody, checks them with TLC and proves what matters
most of them with TLAPS.

All paths below are relative to `src/csgo_gc/` unless they start with `src/`.
`PROJECT.json` has, for every definition, the lines it stands for.

- [1. The system](#1-the-system)
- [2. The modules](#2-the-modules)
- [3. What the runs check](#3-what-the-runs-check)
- [4. What is proved](#4-what-is-proved)
- [5. Where the code and its own words disagree](#5-where-the-code-and-its-own-words-disagree)
- [6. What is not modelled](#6-what-is-not-modelled)
- [7. Plan](#7-plan)

## 1. The system

Everything in the game process runs on the game's main thread. A frame is: the
game's own code (which sends GC messages and retrieves answers through
`SteamGameCoordinatorProxy`), Steam's callback dispatch (`SteamAPI_RunCallbacks`,
hooked), then `ClientGC::Update`, which runs `NetworkingClient::Update` and
`TCPConnection::Update`. There are no threads and no locks. What makes the
behaviour hard is that Steam's sockets, the remote coordinator, the game and the
game server act between any two of these steps, that Steam's callbacks are
queued, and that connections come and go.

| Component | Files | State | Operations | Hard behaviour | What makes it correct |
|---|---|---|---|---|---|
| `TCPConnection` | `tcp_connection.*` | socket, connected, callback registration, heartbeat (sent, age of the last answer), temporary auth ticket, attempts | connect, disconnect, socket status event, frame update, authentication, heartbeat | late and shared events, several instances, loss in mid-update, timeouts, a clock | members agree with one another and with Steam; a lost link is replaced or given up, for good |
| Chunked messages | `tcp_connection.cpp` | chunks collected by message type | collect, process when complete, drop on disconnect | interleaved types, a break in mid-message, a swapped socket | whole, once, in order per type; no write beyond the vector |
| `ClientGC` | `gc_client.*`, `gc_shared.*` | matchmaking and cache flags, the stored cache, items, default equips, queue to the game | hello, 18 requests, coordinator's messages, queue to the game, cache for a game server | reconnects, changes under way, answers outliving the link, stale cache | the copy follows the coordinator, the game follows the copy, answers arrive |
| Game server session | `networking_client.*`, `networking_server.*`, `gc_server.*` | auth tickets, bound server; on the server: clients, hello, queue | ticket set / cleared, connect packet, cache and updates, client connected / disconnected | packets after leaving, two servers, cancelled tickets, Steam going away | only a server with a live ticket is sent items; a server left forgets them |
| `Inventory` | `inventory.*` | items, default equips, id counter, stored cache; the file `inventory.txt` | equip, use, open, delete, move, stickers, names, kill counts, build cache; read and write the file | long sequences, ids wrapping, messages that must match the change; files a player edits | one thing per place; the messages keep the game's copy equal; a restart keeps what the file can say |
| `KeyValue` | `keyvalue.*` | a tree; its file | write, parse | duplicate names, a process dying while writing | what is read back is what was written, or its front |
| `ItemSchema` | `item_schema.*`, `random.*` | items, kits and loot lists parsed from the game's file; weights | parse a section; go through the lists of a crate; draw an item | prefabs and lists that name each other, sections in an order that matters, hash map order, inclusive bounds | the nearest word on an item counts; a crate has the items its list leads to; the weights decide, not the order |
| Steam hooks | `steam_hook.*` | proxies, the one `ClientGC`, hooked callbacks | make and release users, register and unregister callbacks, run callbacks, a frame | callbacks that change the list gone through; users released in any order | one coordinator, while its user lives; every callback once |
| `GCMessage` | `gc_message.*`, `steam_network_message.*` | a message's bytes, an offset, an error | encode, decode, the handlers that read by hand | messages cut short or with something behind them, reads checked after several of them | what is handled is what was written |
| `Graffiti`, platform, entry point, launcher | `graffiti.*`, `platform*`, `main.cpp`, `src/launcher` | none | | | |

How they interact: the game's hello makes `ClientGC` replace its `TCPConnection`
(the old instance is not deleted and keeps its Steam callback). `TCPConnection`
calls `ClientGC`'s handlers directly from its receive loop. `ClientGC` sends
requests through `TCPConnection::NetSendMessage` (which drops them when the link
is down), queues messages for the game in `SharedGC::m_outgoingMessages`, and
sends changes to the game server through `NetworkingClient::NetSendMessage`.
`NetworkingClient` calls back `ClientGC::SendSOCacheToGameServer` when a server
presents the player's auth ticket. On the server `NetworkingServer` hands packets
to `ServerGC`, which queues them for the server's game.

Facts about the commit that matter for reading the models. `Inventory` is
compiled but no class makes an instance (the remote coordinator took its place), and
its constructor no longer reads the file its destructor still writes.
`gc_server.cpp` and `networking_server.cpp` are in the tree, and are the other end
of the protocol `NetworkingClient` speaks, but are not in the build; the hooks name
an `s_serverGC` that is declared nowhere.

Of the repository's lines nearly all are generated (the protobuf code of three
versions of the game's messages, about 700,000 lines) or vendored. The code written
for this project is `csgo_gc`, about 10,000 lines, of which the models stand for
about 4,300; most of the rest is `steam_hook.cpp`'s pass-through proxies, the table
of message names in `gc_client.cpp` and declarations.

## 2. The modules

| Module | Models | State ↔ code |
|---|---|---|
| `GCConnection`, on `Heartbeat` | `TCPConnection` with any number of instances, Steam's sockets and callback queue, the coordinator's answers | `link[c]`: the members of instance `c` (`tcp_connection.h:40-66`); `phase`, `todo`: where the main thread is in its frame; `events`: queued `SocketStatusCallback_t`; `sock`: Steam's sockets; `live`: auth tickets not cancelled |
| `Heartbeat` | what `TCPConnection::Update` does about the server's silence: when it asks, when it gives the server up | operators only, on `m_sentheartbeat` and the age of `m_lastheartbeat` |
| `HeartbeatTiming`, on `Heartbeat` | the clock arithmetic of one link, in seconds | `age`: time since `m_lastheartbeat`; `sent`: `m_sentheartbeat`; `idle`: time since `Update` last ran; `wire`, `waited`: the heartbeat under way |
| `ChunkAssembly` | `HandleChunkMsg`, `ProcessChunkMsg` | `pending`: `m_pendingMessages`; `wire`: unread chunks; `received`: what `ProcessChunkMsg` got |
| `MessageDelivery` | the promise `ChunkAssembly` implements | messages under way and delivered, by type |
| `ClientGC` | `ClientGC`, the queue to the game, and what it relies on of its partners | `hasMatchmaking`, `hasSOCache`, `pendingHello`, `cache`, `items`, `equips`: the members; `outgoing`: `m_outgoingMessages`; `up`, `down`: the link; `truth`, `game`, `serverView`: the objects as the coordinator, the game and the game server know them. A view after messages is by object, too: the last message about it decides (`AfterFirst`) |
| `ObjectMirror` | the promise `ClientGC` keeps about its copy | the coordinator's objects, the states they have been in, a copy and the state it is in |
| `ClientMirror`, on `ClientGC` | that `ClientGC` keeps it | `states`, `at`: the states of `truth` so far and the one what is held is in; `stamps`: the state each message of `down` was sent in. Nothing of the code: history, written beside `ClientGC`'s steps |
| `SteamHooks` | the coordinator proxy, the list of GC callbacks, the hooked `SteamAPI_RunCallbacks` | `coordinators`: users whose proxy has an `m_steamGameCoordinator`; `clientGC`: `s_clientGC`; `queued`: how many messages are in its `m_outgoingMessages`; `hooks`: `m_hooks`; `at`, `next`, `end`: where the loop over them is |
| `GCMessageRead` | the class of that name: its reads | `buffer`, `offset`, `error`: `m_data`, `m_offset`, `m_error`; `got`: what the reads have returned |
| `GCMessageCodec` (`MCGCMessageCodec`), on `GCMessageRead` | `GCMessageWrite`, the message-type flags, and the handlers of `gc_client.cpp` that read a message field by field | `message`: what was written; `todo`: the reads to come; `outcome`: what the handler has made of it |
| `P2PSession` | `NetworkingClient`, `NetworkingServer`, `ServerGC` | `tickets`: `m_tickets`; `serverSteamId`; `clients`: `m_clients`; `outgoing`; `toClient`, `toServer`: Steam's P2P packets |
| `Inventory` (`MCInventory`) | `Inventory` | `items`, `equips`, `last` (`m_lastHighItemId`), `stored`; `game`: what the messages have told the game; `untold`: items changed without a message. What the game knows of an object is said by the last message about it (`Final`) |
| `KeyValueFile` | `KeyValue`'s text form: `WriteToFile`, `Parse`, `GetSubkey` | operators only: a tree, the tokens of its file, what is left of them when the writer dies, the tree parsed from tokens. The writer's calls of itself are one operator for each indent an inventory's file has (`Written` to `Written3`); the parser's are a stack, `Progress.outer`, which the parser's next token is read with (`Parsed`) |
| `ItemFile` (`MCItemFile`), on `KeyValueFile` | `Inventory`'s `WriteToFile` and `ReadFromFile`, the strings of attributes in `ItemSchema`, and a game that dies while it writes | `items`, `equips`, `last`: the members of the `Inventory` there is while `running`; `file`: the tokens in `inventory.txt` |
| `SchemaItems` (`MCSchemaItems`) | `ItemSchema`'s constructor: items with their prefabs, kits, rarities, entries of loot lists | `section`, `at`: how far the constructor is; `stack`: calls of `ParseItemRecursive`; `infos`, `stickerKits`, `paintKits`, `musicKits`: the maps; `listed`: the `LootListItem`s |
| `LootLists` | `ParseLootLists`, `GetLootListItems` | `lists`: `m_lootLists`; `stack`: the calls of `GetLootListItems`; `found`, `unusuals`: what they return |
| `LootSelection` (`MCLootSelection`), on `LootLists` | `ItemSchema::SelectItemFromCrate` | `selected`, `drawn`: whether it has returned, and the item. A rarity's weight is a number of lots out of which the roll picks one (`Lots`), so a weight is a cardinality |
| `*Proofs` | theorems about the module of that name; `GCConnectionProofs` also about `HeartbeatTiming`, `LootListsProofs` about `LootSelection`; `MessageProofs` about the two ends of a message, `ChunkAssembly` and `GCMessageCodec`; `SteamProofs` about the two modules that stand on Steam, `P2PSession` and `SteamHooks` | |

One action stands for one handler, with everything the handler does: `Reconnect`,
for instance, is `CCDisconnect` followed by `CCConnect` as the callback runs them.
`TCPConnection::Update` is split at its receive loop (an action for each message,
then one of `HeartbeatLost`, `SendHeartbeat` or `NoHeartbeat`), because Steam can
receive data between two rounds of the loop. A callback event is split by
instance, because each registered instance handles it in turn.

Types. `TypeOK` of `GCConnection`, `ChunkAssembly` and `P2PSession`, `HooksTypeOK` of
`SteamHooks` and `TimingTypes` of `HeartbeatTiming`, is proved (section 4) and so not checked in a run as well; the types that the
proofs about `ClientGC`, `Inventory`, `ItemFile`, `LootLists` and `SchemaItems` need are in the proof
modules.

Definitions named as slips (`DisconnectedTicketKept`, `PendingKept`,
`PoppedAlways`, ...) are forms the code could have had by mistake. No specification
uses them; each exists so that a run can be repeated with it, to see the property
fail.

Data is abstracted to what the properties tell apart: an object's contents are a
number that only grows, a ticket is named by its socket, a request by its kind, an
item by its kind, attributes and places, an id by its high half. `Inventory` keeps the
width of ids (`IdRange` for 2^32), `LootSelection` the inclusive bounds of the random
generator.

External parties are in the modules only as far as the code relies on them: the
coordinator answers what it is asked and sends messages of one type one after the
other; Steam delivers P2P packets in order and may discard them when a session is
closed; the game holds one auth ticket at a time and presents each to one server, and
its client pipe has one user at a time (`OneClientAssumption`, what `steam_hook.cpp:66`
asserts); the remote coordinator's caches keep the rules of a loadout
(`CacheAssumption`).

How the modules are composed. `GCConnection` and `HeartbeatTiming` extend `Heartbeat`: the
link with its events, and the link with its clock, decide on silence by the same two
operators. `GCMessageCodec` extends `GCMessageRead`: what was written, the reads of its handler
and the reader's offset are in one behaviour. `LootSelection` extends `LootLists`: a crate's list is parsed
from the two files, gone through, and drawn from in one behaviour, so what comes out can be
compared with what the files declared. `ItemFile` extends `KeyValueFile`: the inventory is
written as a tree of real keys, torn or not, parsed and read back. `ChunkAssembly`
instantiates `MessageDelivery`, which it implements, and `ClientMirror`, which extends
`ClientGC`, instantiates `ObjectMirror`. `ClientGC` has what it needs of its
connection (up, lost, replaced) and of the game server; `GCConnection` and `P2PSession` show
that these behave so. `SchemaItems` comes before `LootLists`, and hands it an item's rarity
and quality, which `LootSelection` has as constants so that every small mixture can be one.

## 3. What the runs check

All constants that bound a run are named as such in the module that declares them.
`CHECK_DEADLOCK FALSE` is in every run: with its bounds used up, and nobody asking
for anything, each of these systems may stop.

| Run | Shows | Bounds and why they are enough |
|---|---|---|
| `conn_single` | `LinkConsistent` (connected ⇔ has a socket, connected ⇒ registered, the ticket held is live and of that socket), `SocketUsable` (never left on a socket the program destroyed), `GivenUpStaysDown`; under fairness `LostLinkIsReplaced`, `ConnectionIsVerified` | one instance, two network faults, one reconnect attempt, `gethostbyname` and `GetAuthSessionTicket` failing at will, an arbitrary initial ticket handle. What holds of several instances that share every event is proved (section 4). Four sockets are what two faults and one attempt can use; two answers may wait so that a rejection and a heartbeat meet |
| `conn_late` | violation, see section 5 | |
| `beat_timely` | `LossMeansNoAnswer` (an answering server is not dropped), `DetectionBound` (a dead one is, within the timeout and a frame) | the code's 5 and 15 seconds, connects of 5, frames up to 4 and answers up to 5 seconds: the largest for which the margin `Timely` holds. Servers that answer and servers that need not |
| `client` | `MirrorFaithful` (what is held, with the messages under way, is what the coordinator holds), `GameInStep`, `ServerFollows`; under fairness `GameCatchesUp`, `RequestsAnswered`; `ClientGC` implements `ObjectMirror` (`MirrorsObjects`): at every moment from the cache of a connection on, what is held is a state the coordinator's objects have been in; they are gone through one by one, none twice and never back, also from one connection to the next | run on `ClientMirror`, whose history hides no step of `ClientGC`: one item and one default equip; no objects to begin with; two hellos (the second may come when the data is already there, and both instances may then greet), a loss, two changes of every shape (modify, add, remove, together, a crate opened), a request of any of the 18 kinds, a game server, a game whose buffer is sometimes too small: any four of these together (`MaxMoves`). Two changes and a loss within two hellos need four; a second item would behave as the first |
| `chunk_delivery` | `ChunkAssembly` implements `MessageDelivery` (`DeliversWholeMessages`), `EveryMessageArrives`, `InBounds` | two types, three messages of one to three chunks, one break: a message broken off in the middle and followed by one of the same type, with another type's between |
| `p2p_session` | `BoundByLiveTicket`, `GoneMeansForgotten`, `FirstWelcomeWipesNothing`, `ServerCatchesUp` | two servers, two tickets (join both, or one twice), one change, one loss of Steam, kill counts; one hello, as a game server's says it once |
| `hooks` | `OneCoordinator` (the `ClientGC` there is lives as long as its user's proxy), `EachToldOnce`, `ReadInTheEnd` under fairness | a user released and made anew, four callbacks of every kind, three registrations (some of them from inside a callback, so that the list grows while it is gone through), two messages |
| `codec` | `HandledAsWritten` (what is whole and of a known type is handled, what is handled is as it was written) | every message read by hand, and one of a type nobody knows, with up to two items; each whole, cut at every byte (a name loses its end, a size names more than there is), and with nothing, a zero or two bytes behind its fields. The header's size and the ticket's are bytes of the message like the others, so a size that is not that of what follows is one of these |
| `item_file` | `ReadsBack` (the tree), `PlainIsKept` (the inventory), `TornKeepsOthers`, `EveryKeyIsAnItem`, `SettledAfterOne` | inventories of up to two items with each type of attribute, places of one class and of two, up to two default equips; every order of the hash map; the file whole, or torn once at any token or inside a string; files with up to three keys a player may have put there (not a number, a number with something behind it, one that reads as a default item). Two starts, so that a reload can be compared with the one before; nine ids, of which four read as default items, so that an id a player has put there can be beyond them and wrap |
| `schema_items` | `NearestSaysIt`, `ListedAsDeclared`, `SchemaIsRead` under fairness | an item over any two prefabs that may name each other or themselves, another that may share its name, every type of entry, paint rarities at both ends of the clamp |
| `inventory` | `OnePerPlace`, `GameAgrees`, `NoItemReplaced` (a new item takes the id of none that is held, and none that reads as a default item) | any four operations of eleven kinds on two inventories; six ids of which one reads as a default item, so the counter wraps within three items made |
| `crates` | `NoOverflow`, `FoundAsDeclared`, `RarityKeepsItsWeight`, `DrawnAsDeclared` | three declarations in either file, each with up to two entries out of lists, weapons, knives and the StatTrak line, a name declared twice among them; any list may be the crate's; items of three rarities, one of them without a weight; every order of the hash map, every roll. A weight is half of the rarity's before, where the code's is a fifth, so that every roll can be made |

### Fairness

`GCConnection.Frame`, `ClientGC.ProcessMessage`, `ChunkAssembly.Update` and
`P2PSession.ClientUpdate` / `ServerUpdate` are weakly fair because the hooked frame
callback runs every frame for as long as the game does. Steam settles every dial
within the 5 seconds `CreateConnectionSocket` is given, hence weak fairness of
`SocketConnects ∨ SocketFails`. The coordinator answers while a socket is up; the
game retrieves messages when told of them, with a buffer of the size it was told
(`ClientGC.Taken`). In `SteamHooks` the hooked frame callback runs and a callback of
the game returns. `SchemaItems` is a call that runs to its end, so its
liveness is termination. Nothing is assumed about hellos, requests, the clock, losses
or that a link ever comes up: `GameCatchesUp` has `<>[]connected` as its premise,
`ServerCatchesUp` the player staying on the server.

### Why these properties

`MirrorFaithful` and `GameInStep` compare a view with another one *after* the
messages under way between them have been applied; so they hold in every state, and
any handler that forgets, repeats or reorders a change breaks them, whichever
message it was. `BoundByLiveTicket` is an equivalence: the server that is sent items
is the one that has presented a ticket that is still live. `GoneMeansForgotten`
looks into the queue of a server's game: of a player who has no session, every cache in
it is followed by a message that takes it away. `FirstWelcomeWipesNothing` is what
`ServerGC` holds caches back for: a welcome read after a cache would wipe it. `FoundAsDeclared` and
`NearestSaysIt` compare what the parser and the walk leave behind with what the file
says, computed without either (the closure of "names", the nearest word), so neither
the order of parsing nor the path taken may matter; their premises (no list declared twice, no two keys
of one name) are what the parser relies on and does not check. `SettledAfterOne` is
about two restarts: whatever the first changes, the second does not. `TornKeepsOthers` says what
a player can lose when the game dies while it writes: of what is read again, one item at most is
not as it was, and that is the one it died in. `DrawnAsDeclared` follows a crate from the files
to the item that comes out, across three pieces of code that each tell unusual items in a way
of their own (by the list's name, by the item's quality, by a flag). `GivenUpStaysDown` is an action property, since only the step that revives an
instance shows it; it leaves out the receive loop (`phase = "drain"`): a rejection
handled there is followed by the heartbeat code of the same `Update`, which may
dial again (section 5).

## 4. What is proved

For every value of the constants that satisfies the assumptions named in the
modules; nothing else is taken on trust.

| Theorem | Says |
|---|---|
| `GCConnectionProofs!TypeCorrect`, `LinksStayConsistent`, `DispatchStaysConsistent`, `GivenUpIsFinal` | `Spec ⇒ □TypeOK`, `□LinkConsistent`, `□DispatchConsistent` and the action property `GivenUpStaysDown`, for any number of instances, sockets, faults and attempts |
| `GCConnectionProofs!SocketStaysUsable` | `□SocketUsable` for a single instance (`MaxConns = 1`), with any number of sockets, faults and attempts |
| `ClientGCProofs!CopyIsFaithful`, `GameKeepsUp`, `ServerKeepsUp` | `□MirrorFaithful`, `□GameInStep` and the action property `ServerFollows`, for any items, slots, requests, changes, hellos and losses |
| `ClientGCProofs!ClientGCMirrors` | `MirrorSpec ⇒ MirrorsObjects`: `ClientGC` implements `ObjectMirror`, for any of the same |
| `GCConnectionProofs!AgeInvariant`, `DetectionWithinBound`, `AnsweringServerKept` | the bounds on the age of the last answer for any interval, timeout, frame time and latency; `AnsweringServerKept` under `Timely` |
| `MessageProofs!TypeCorrect`, `ChunksStayInBounds` | the collected chunks stay within their vector, for any types and sizes; the second also for `SwitchingSpec`, where another instance's socket takes the place of `m_socket` in the middle of a message |
| `MessageProofs!ImplementsDelivery` | `Spec ⇒ DeliversWholeMessages`: `ChunkAssembly` implements `MessageDelivery`, every step of it being a step or a stutter of the abstract one |
| `SteamProofs!TypeCorrect`, `BoundWhileTicketIsLive`, `LeftServersForget`, `FirstWelcomeFindsNothing` | `□TypeOK`, `□BoundByLiveTicket`, `□GoneMeansForgotten` and the action property `FirstWelcomeWipesNothing`, for any servers, tickets, changes and losses of Steam |
| `SteamProofs!TypesKept`, `OneCoordinatorKept`, `EachToldOnceHolds` | `□HooksTypeOK`, `□OneCoordinator`, `□EachToldOnce` for any users and callbacks, whatever the callbacks register while they run |
| `MessageProofs!HandledAsWrittenHolds` | `□HandledAsWritten`: a message that was not cut is handled if its type is known, and what is handled is what was written, for any ids, names, payloads and number of items, wherever a message is cut and whatever is behind it. A protobuf message that was cut, if it is one still, is the front of what was written |
| `LootListsProofs!CallsEndInTime` | `□NoOverflow`: the calls of `GetLootListItems` are no more than the lists declared, for any files without a list declared twice or naming itself |
| `LootListsProofs!CrateAsDeclared` | `□FoundAsDeclared`: of such files, exactly what is declared under a crate's list is found, and unusual items are announced exactly when a list under it is marked so |
| `LootListsProofs!OnlyDeclaredDrawn`, `WeightsDecide` | `□DrawnAsDeclared` and `□RarityKeepsItsWeight`: what comes out of a crate is declared under it, and each rarity in it comes out of as many rolls as its weight, for any weights and any order of the items found |
| `SchemaItemsProofs!NearestWordCounts`, `ListsEndAsDeclared` | `□NearestSaysIt` and `□ListedAsDeclared`: for any file, with prefabs in chains of any length that the stack has room for, any kits and any entries |
| `InventoryProofs!OnePerPlaceHolds`, `NoItemReadsAsDefaultHolds`, `GameAgreesHolds`, `NoItemReplacedHolds` | `□OnePerPlace`, `□NoItemReadsAsDefault`, `□GameAgrees` and the action property `NoItemReplaced`, for any range of ids, places, caches and sequences of requests |
| `ItemFileProofs!EveryKeyIsAnItemHolds` | `□EveryKeyIsAnItem`: whatever tokens the file has, written, torn or a player's, every item key the parser finds becomes an item under an id of its own, and none a default item |
| `ItemFileProofs!PlainIsKeptHolds` | `□PlainIsKept`: what is read from a file that was written whole is what was written, floats to six decimals, for any inventory the file can describe (any number of items, attributes, places and default equips) and any order of the hash map |
| `ItemFileProofs!SettledAfterOneHolds` | the action property `SettledAfterOne`: whatever was held when a file was written (items under names that are alike once written, places of one class), what was read of it is read the same from the file written of that, unless an id has run past those of default items to the high id 0 |
| `ItemFileProofs!TornKeepsOthersHolds` | `□TornKeepsOthers`: from a file that ends after any token or inside any string come the first of the items, as they were but for the last, and once a default equip comes all of the items and the first of the equips, for any inventory the file can describe |

The assumptions they rest on, named in the modules: in `SteamHooks`
`OneClientAssumption`; in `GCMessageCodec` `CodecAssumption` (ids have eight bytes, names no zero,
payloads and what is behind a message are bytes), `NumberAssumption` (a trade-up's count of items fits into the 16 bits it is
written in) and `SizeAssumption` (no message has 2^32 bytes, with what is behind it); in `LootLists`
`ListAssumption` (the unusual file comes first, a file's keys of one name are one, and
the stack has room for as many calls as there are declarations); in `SchemaItems`
`SchemaAssumption` (a section is a sequence of keys, and the sum of two rarities is far from
the width of a number, as with the code's rarities below 100 and 32 bits); in `Inventory`
`CacheAssumption` (the coordinator's inventories hold one thing per place, places of the
places there are, and no id of the default range) and `IdAssumption`; in `ItemFile`
`FileAssumption` (there are ids that read as default items and ids that do not; every number
there is, is read back from what it is written as, and there are enough of them: all high ids, and each
rounded; an inventory held has items, and an edited file keys). TLC evaluates each in
the runs. Besides these only `SocketStaysUsable` assumes something in its own statement,
`MaxConns = 1`, which is what run `conn_single` has; with two instances it is false, since a
`Connected` event makes both instances take the same socket and either may destroy it.

The arguments:

- **GCConnection.** `LinkConsistent` is not inductive alone: an instance in the
  middle of a dispatch must still be registered when its turn comes
  (`DispatchConsistent`), and types bound the attempts. The invariant is the
  conjunction of the three. The one fact about several instances is that cancelling
  tickets removes only one's own (`DisconnectEffectsType`); the conjuncts of
  `LinkConsistent` are then per instance (`Consistent`), and each action changes
  one instance (`OneLinkChanged`: the others keep their members).
  `SocketUsable`, for one instance, needs an account of the events still in Steam's queue
  (`UnreadInv`): each `Connected` event that the instance has not been told of is the only one
  about its socket, and that socket has not been destroyed, because the instance does not know
  of it yet. So the socket it makes its own can be used, and the one it destroys is not
  the socket of an event to come. That a socket just opened has no event yet is `FreshInv`.
- **HeartbeatTiming.** `AgeInv`: while no heartbeat is out, the age is bounded by
  the frame it should have been sent in; afterwards by the time waited. `KeptInv`:
  at the last `Update` the link was kept. A loss then needs an age that the waiting
  of an answering server cannot reach.
- **ChunkAssembly.** An entry kept is never full (`InBounds`), so the next chunk
  has a place; expected sizes are bounded by types. Nothing of the argument depends on
  where a chunk comes from, so it survives switched sockets. The refinement does depend on it.
  The abstract queue of a type is the messages of which a chunk is still unread, so what has
  to be said is what may be unread (`DeliveryInv`): chunks of a type come in the order of
  messages and places (`InOrder`), each but a message's last is followed by its successor, and
  each but its first follows one that is unread or was collected last (`Chained`), and an
  entry kept is the beginning of the message in front (`PendingFront`). A chunk that completes
  its entry then makes the message at the head of the queue the one delivered; a chunk that
  does not is a stutter; and a break leaves nothing unread and nothing collected.
- **ClientGC.** That the copy agrees with the coordinator *after the messages under way* is
  kept step by step, but only if those messages are ones the objects before them allow: a
  "create" of an object that is there, read before the one that removed it, would
  lose it. `DownOk` says this of every prefix of what is under way, from the cache of this
  connection on; a cache replaces all objects, so what was held before it does not matter, and a
  second one on the same connection (each registered instance greets) says what is held by then
  (`Suits`). It also needs that matchmaking data, at which the game is sent the stored cache, does not
  come after the cache of the connection. What the two sides have sent is read in turns, and an
  answer of the session is followed by the next request: in that circle each step of the session is
  followed by the same or the next (`InOrder`), however many instances greet. Then that nothing is
  under way without a link (`LinkInv`), and that a slot's entries are those its contents
  stand for (`EquipInv`). For the game (`GameInStep`) the same lemmas about views after messages are
  used at the other queue. `ServerFollows` needs only that a handler tells the server
  exactly the message it applies. For the refinement (`StampsOk`) each message on the way is
  stamped with the state it was sent in; stamps never go back, from the cache on none is
  more than one ahead of the one before, the last is the present state, and what is held is,
  after each message, the state of its stamp. Reading a message then is a step of the abstract copy
  to the next state, or none if the message is about no object.
- **P2PSession.** For the binding, the strengthening is that at most one ticket is live
  (`OneTicket`), which is the assumption about the game: with two tickets validated
  by one server, cancelling the older would unbind it (`networking_client.cpp:192`). What
  a left server forgets is a fact about every position of its queue, kept by each kind
  of message appended. For the first welcome (`WelcomeInv`): as long as the hello has not
  been answered no session has sent a cache, and there is nothing of anybody in the
  queue before the welcome.
- **SteamHooks.** That a callback is told once is a fact about the list: the loop's place
  in it, the callbacks registered behind that place and how often each entry before it
  has been run. Appending keeps it; erasing moves the list, and the property
  says so.
- **GCMessageCodec.** That what is handled is what was written is a matter of reader and writer
  being at the same place, so the invariant (`CodecInv`) says where the reader is: it goes
  through four parts, the type, the header, the fields, and a trade-up's items, and in each,
  after `p` reads, the reads to come are what is left of the program, what has been got are the
  first fields written, and the offset is where the next of them begins (`HeaderPlace`, `Place`)
  unless there is an error;
  and who has found an error reads a message that was cut, and has an `IsValid` still to come.
  (A trade-up has none after its last item: that is an exception in the property.) A protobuf
  message has a part of its own for its end (`AtRest`): it is one read of all that is left, for which
  the reader must be within the message (`ReaderInv`), and gives the front of what was written. A
  read that meets its field then appends it or finds the message cut there (`ReadPart`,
  `ReadName`), whatever the bytes are. Where a field begins is a fact about a concatenation of any
  number of parts (`FlattenFacts`), and it has to come from the definition of `FlattenSeq`,
  which takes a function that solves a recursion: first that there is one (`FlattenExists`), then that
  its first `k` parts are in place for every `k`, both as no number can be the least for which
  it fails (`LeastOne`).
- **SchemaItems.** What the file says of a field is defined by a chain: elements from the item
  on, each the prefab of the one before, up to the first that has a word on it. There is at
  most one such chain (`OneWord`: at the first place where two differ, both have the prefab
  of the same element), so it is enough to know of one. While
  `ParseItemRecursive` returns, the item's info has for each field the last word of a chain
  from the prefab whose call has just returned (`CallsInv`); a call that ends makes the chain
  one longer, or begins one where the element says the field itself (`FieldsWord`). The chain is no
  longer than the calls were deep, so it is one `Nearest` looks at. Behind the
  item being parsed all have their nearest words (`ItemsInv`). The other sections are maps
  whose keys are those gone through (`KitsInv`), and as lists come last what an entry found
  is what is there at the end (`ListsInv`). That the sum for paint, which wraps and is read as
  signed, is the one declared is arithmetic (`PaintedSum`).
- **LootLists.** A list is found by name only if it was declared before (`OrderInv`), so
  the `k`-th call is for a declaration at least `k - 1` before the first (`DepthInv`), and
  the stack is no deeper than the file is long. For `FoundAsDeclared` a parsed list says what its
  declaration does (`ParsedInv`); all that is found is declared under the crate's list
  (`UnderInv`); and there is a set of declarations left for good that contains the sublists
  of its members, and of the lists still gone through those up to the one gone into
  (`GatheredInv`). When the stack is empty that set contains the crate's list, hence all under
  it, as the closure is the least such set.
- **LootSelection.** `DrawnAsDeclared` follows, with what is known of `found`, from
  the drawn item being one of those found and unusual only by the gold roll (`DrawnInv`).
  `RarityKeepsItsWeight` is about the loop over rarities: a roll is won by the first rarity whose
  weight together with those before it is not below the roll, so the rolls of a rarity are the
  interval between two sums of weights, and as lots of different rarities are different the
  interval has as many members as the rarity has lots. That there is a first rarity is
  well-foundedness.
- **Inventory.** `OnePerPlace` and `NoItemReadsAsDefault` are inductive together with the
  fields of items and the origin of the stored cache. Twelve of the operations give
  places up and add only items that hold none (`GivesUp`), and one lemma does for
  all of them; the three that equip something empty the place first (`Fills`). The id of
  a new item is one `CreateItem`'s loop stops at, so it is free and does not read as a
  default item's, wherever the counter wrapped. `GameAgrees` compares, for each object, the last
  message about it (`Says`, or `Silent` if there is none) with what has become of the object; an
  operation tells right (`TellingRight`) when the two agree or the object is in `untold`, and each
  operation is put together from parts of which that is known: places given up, an item
  changed, an item made or destroyed. Equipping is the part where an earlier message about an
  object is overtaken by a later one.
- **ItemFile.** The invariant (`FileInv`) says where file and inventory come from: a file
  written whole is the tokens of a tree of what was held, and an inventory read is what the parser and
  `CreateItem` make of the file. What they make is then the matter. For `EveryKeyIsAnItem`: whatever
  tokens come, each leaves the parser with keys (`ParsedOK`). A key has subkeys to any
  depth, which is said without induction: there is a set in which it is, and whose members have
  theirs in it (`IsKey`). Every `CreateItem` then adds an id that was free (`CreateAndReadOK`);
  one is free as long as there are no more keys than ids below those of default items, and the id
  counter is as far as they have come unless it could have gone through all of these. For `PlainIsKept` the parser has to be compared
  with the writer on trees of any width. What is said of the tokens of a key (`Told`) is that wherever
  in a file they are, and whatever keys the parser is in, it has one subkey more when it is
  through with them, and which. So the tokens of two keys with different names can follow each other
  (`ListTold`), and those of a section are its subkeys' between braces (`SectionTold`), which go from an
  attribute up to the file in four steps. That the names are different is where `Plain` comes in,
  and that no two numbers are written alike. What is read of an item is the item with its floats rounded
  (`ItemTold`, `ItemReadKept`); and as an id that is free and no default item's is
  given as asked for, items come back under theirs (`PlainItemsRead`). `SettledAfterOne` asks about files in which keys do
  have one name, where what the parser makes of the tokens of a key depends on what it has read
  before. There a weaker fact is kept (`Keeps`): the lists of the file, at every level, have
  subkeys with different names only, and each string is one the writer makes, also where
  the parser enters a key a second time. An inventory read from such keys is Plain but for its
  ids (`SettledInv`), and it is read again as in `PlainIsKept`. `TornKeepsOthers` is about
  a file that ends anywhere (`TornInv`), where the tokens of a key need not be all there. But up to the
  last of them the parser is where it is in the whole file (`TornEnds`), so it is enough to know where that is in the
  middle of a section: it has read the first of the section's keys (`PartsReached`) and is in front of the
  next, in that one or further in, since nothing written of a key leads the parser out of it before
  its brace (`Stays`, `Inside`). What the parser holds then comes together, from the inside out,
  to a key that has those subkeys and the next by its name (`OutermostInside`, `SectionCut`). The
  steps over tokens, keys and items are taken by a set of numbers that has 0 and the next of each
  (`Induction`), from the well-foundedness of `<`.

Left to TLC: liveness under fairness (`LostLinkIsReplaced`, `ConnectionIsVerified`,
`GameCatchesUp`, `RequestsAnswered`, `EveryMessageArrives`, `ServerCatchesUp`, `ReadInTheEnd`,
`SchemaIsRead`), which needs `ENABLED`; and of the inventory file `ReadsBack`, whose reference (`Strings`, the
strings under a key of any depth, in `MCItemFile`) is a `RECURSIVE` operator. Where a proof needs the last or the first of a set of
numbers (the last message about an object, the first rarity that wins) it has it from the
well-foundedness of `<` (`WFMin`), which needs no induction.

## 5. Where the code and its own words disagree

One disagreement has a run that shows it:

- `conn_late` / `LossIsOwn`. `SocketStatusCallback` comments its loss branch "This
  means we timeout'd..." (`tcp_connection.cpp:529`) but does not compare the event's
  socket with its own. If the socket breaks in the frame in which the heartbeat
  timeout drops it, the queued event finds the instance dialling anew, and makes it
  dial once more. The first dial is neither stopped nor remembered: two sockets
  connect for one instance, and the auth ticket obtained for the first is overwritten
  without being cancelled.

Others were met while modelling. The models contain the behaviour, and the properties
are stated so as to allow it; no run is spent on them:

- `BuildCacheSubscription` logs the sizes of `m_items` and `m_defaultEquips` as what it uses
  (`gc_client.cpp:267`) but copies `m_serverSOCacheData`, which later changes do not touch: a
  game server joined after a change gets the objects of the last cache.
- `NetworkingServer` logs "deferring client connection" (`networking_server.cpp:80`) for a
  player let in while Steam is away and keeps nothing to come back to; the place in
  `ServerGC::Update` for it is commented out (`gc_server.cpp:99`).
- The wrapper is made to "know it's for a server" (`steam_hook.cpp:1903`), yet the destructor
  of a server user's proxy deletes the client's `ClientGC` (`steam_hook.cpp:71`).
- `UnregisterCallback` recognises a GC callback by an id only Steam sets
  (`steam_hook.cpp:2324`), so one kept from Steam stays in the list after it is unregistered,
  and is run.
- `HandleCraft` asks whether the message is still valid before each item and not after the
  last ("Unexpected end of message", `gc_client.cpp:1209`); a message cut in its last item
  goes on with item 0. `HandledAsWritten` leaves out the last item of a trade-up that is cut.
- "is it CCProto?" (`tcp_connection.cpp:91`) is asked with a mask that has the protobuf flag in
  it, so every protobuf message is.
- `GetLootListItems` "returns true if there are unusuals" (`item_schema.cpp:522`), but only
  lists whose names end with `_unusual` count; knives in the shipped `unusual_revolving_list`
  are of unusual quality without being announced, so no roll for them is made.
  `FoundAsDeclared` speaks of the lists' own flag.
- The "base weights for each rarity" (`item_schema.cpp:583`) end with `RarityLegendary`; items
  of the two rarities above it, which painted weapons have, never come out of a crate.
- `~ClientGC` does not delete its `TCPConnection`, whose callback goes on answering losses by
  dialling again; `m_gcConnection` is not initialised before the first hello
  (`gc_client.cpp:137`).
- `HandleCraftResponse` says "Sending craft response to game client"
  (`gc_client.cpp:1276`), but `ProcessMessage` has no case for the type
  (`tcp_connection.cpp:337`): `ClientGC.DropUnknown`.
- "Both MatchmakingHello and CacheSubscribed received" (`gc_client.cpp:274`) is decided
  by flags no reconnect resets, so after one the welcome is sent with the previous
  connection's cache. `GameCatchesUp` shows that the cache that follows repairs it.
- `SendMessage` tells the game "message declined" of a player report
  (`steam_hook.cpp:89`) that has already been forwarded.
- After a rejection in the receive loop the same `Update` goes on to the heartbeat, and
  can dial the server that has just refused the player (`tcp_connection.cpp:116`).
- The timeout counts from the last answer, not from the heartbeat: after a frame of
  10 seconds or more an answering server can be dropped a second later. `Timely` in
  `HeartbeatTiming` is the exact margin.
- `m_pendingMessages` survives when another instance's socket becomes `m_socket`, so
  chunks of two messages can be put together (`tcp_connection.cpp:538`); the proof shows
  that they at least stay in bounds.
- `m_tempauthhandle` is not initialised (`tcp_connection.cpp:22-34`).
- `ServerGC` waits for the hello so that the cache is not wiped by the welcome
  (`gc_server.h:27`), which a second hello does; `p2p_session` allows one.
- `inventory.txt`: of default equips with one definition, and of an item's places with one
  class, the last alone survives a reload (they are keyed by definition and class,
  `inventory.cpp:250`); an edited key in the range of default items reads as a new id every
  start; the constructor no longer reads the file the destructor writes
  (`inventory.cpp:38-47`).
- A prefab that leads to itself, or a loot list that names itself, is followed until the
  stack is gone (`item_schema.cpp:718`, `:528`); the game's files have none.
- `Inventory`: ids are not unique for the session after a cache (`inventory.cpp:91`);
  the number of sprays left is set after the message was filled in (`:554`); scraping
  the first of two stickers off a clone destroys it (`:969`).
- A crate gives nothing for one roll in `totalWeight + 1`, as `Uint32` includes its upper
  bound (`item_schema.cpp:631`); `src/README.md:24` calls the chances uniform.

## 6. What is not modelled

- What only names or numbers things in the item schema: qualities, wear ranges, tints, the
  indices of revolving lists. Attribute encodings are in `ItemFile` as far as the file needs
  them.
- The lexer of `KeyValue` below tokens (white space, comments, escapes, quotes inside
  strings), the binary form (in which the price sheet is sent); of number conversions
  what `inventory.txt` needs is in `ItemFile`.
- What protobuf makes of a message's bytes (one that was cut may be one or not);
  `steam_network_message.*`, which nothing uses.
- Messages whose sizes, or the offsets made of them, come near 2^32: the sum in `ReadData`
  (`gc_message.cpp:48`) is kept in 32 bits there. A message of the coordinator that ends before its
  chunk count, and a read of the socket that fails though data was announced
  (`tcp_connection.cpp:86`).
- Installing hooks and proxies that only pass calls on (`steam_hook.cpp`): they keep no state.
- `ItemToPreviewDataBlock`, the commented-out cache of `Inventory`, the price sheet's contents
  and the server address data.
- `Graffiti` (called from nowhere), the platform layer, the launcher, generated and vendored
  code.
- Builds without `NDEBUG`: an `assert(false)` before a return is not a step.

## 7. Plan

Done, in this order: `GCConnection` and its proofs; `HeartbeatTiming` and its proofs;
`ClientGC`; `MessageDelivery` and `ChunkAssembly` with proofs; `P2PSession` with proofs;
`Inventory`; `KeyValueFile`; `LootSelection`; then `SteamHooks`, `GCMessageCodec` and
`LootLists`, each with proofs; `ItemFile`; the rest of `P2PSession`'s proofs; `Inventory`'s
proofs; `SchemaItems`, and later its proofs; the compositions of `LootSelection` with `LootLists`
and of `ItemFile` with `KeyValueFile` and a crash while writing; the proofs about
`GCMessageCodec`'s messages (`HandledAsWritten`) and about `ItemFile`; `ObjectMirror`, which
`ClientGC` implements.

Left, should the code be taken further:

1. Composition of `GCConnection` with `ClientGC`'s requests: what is lost when a link
   changes under a request.
