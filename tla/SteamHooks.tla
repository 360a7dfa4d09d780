------------------------------ MODULE SteamHooks ------------------------------
(***************************************************************************)
(* The hooks (src/csgo_gc/steam_hook.cpp) that put ClientGC between the    *)
(* game and Steam: the proxies the game gets instead of Steam's interfaces,*)
(* whose coordinator proxy makes and deletes ClientGC; the list of the     *)
(* game's GC callbacks, kept from Steam; and the hooked                    *)
(* SteamAPI_RunCallbacks, which tells the callbacks of messages and runs   *)
(* ClientGC::Update.                                                       *)
(*                                                                         *)
(* The game and Steam are external.  What a callback of the game does is   *)
(* done while the hook goes through its list; the game releases no user    *)
(* there.                                                                  *)
(***************************************************************************)
EXTENDS Naturals, SequencesExt, FiniteSets

CONSTANTS
  ClientUsers,    \* users of the client's pipe
  ServerUsers,    \* users of the pipe of a game server in the same process
  Available,      \* the game's callbacks for GCMessageAvailable_t
  Failed,         \* ... for GCMessageFailed_t
  Other,          \* ... for any other id
  ServerFlagged,  \* those registered as a game server's
  MaxSessions,    \* instances of ClientGC made (a bound)
  MaxMessages,    \* messages queued for the game (a bound)
  MaxRegistered   \* calls of SteamAPI_RegisterCallback (a bound)

Users == ClientUsers \cup ServerUsers
Callbacks == Available \cup Failed \cup Other

ASSUME UsersAssumption == ClientUsers \cap ServerUsers = {}

\* steam_hook.cpp:66 asserts that the client has one user at a time.
ASSUME OneClientAssumption == \A u, v \in ClientUsers : u = v

ASSUME CallbacksAssumption ==
  /\ Available \cap Failed = {} /\ Available \cap Other = {} /\ Failed \cap Other = {}
  /\ ServerFlagged \subseteq Callbacks

ASSUME SessionsAssumption ==
  MaxSessions \in Nat /\ MaxMessages \in Nat /\ MaxRegistered \in Nat

NoGC == 0

VARIABLES
  coordinators,  \* m_proxies: the users whose proxy has an m_steamGameCoordinator
  clientGC,      \* s_clientGC: the number of an instance, or NoGC
  existing,      \* instances of ClientGC made and not deleted
  made,          \* instances made
  queued,        \* messages in the queue of s_clientGC
  produced,      \* messages ever queued
  hooks,         \* m_hooks
  numbered,      \* callbacks whose m_iCallback Steam has set
  registered,    \* callbacks the game has registered and not unregistered since
  registrations, \* calls of SteamAPI_RegisterCallback
  at,            \* where the hooked SteamAPI_RunCallbacks is
  next, end,     \* the range of m_hooks the loop has before it
  moved,         \* m_hooks has been given other storage since the loop began
  reading,       \* the game is in a callback: "no", "told" or "read" a message
  told,          \* how often each callback was run by this loop
  list           \* m_hooks when the loop began

proxy == <<coordinators, clientGC, existing, made>>
queue == <<queued, produced>>
callbacks == <<hooks, numbered, registered, registrations>>
loop == <<at, next, end, moved, reading, told, list>>
hooksVars == <<proxy, queue, callbacks, loop>>

Untold == [c \in Callbacks |-> 0]

HooksInit ==
  /\ coordinators = {} /\ clientGC = NoGC /\ existing = {} /\ made = 0
  /\ queued = 0 /\ produced = 0
  /\ hooks = <<>> /\ numbered = {} /\ registered = {} /\ registrations = 0
  /\ at = "game" /\ next = 1 /\ end = 0 /\ moved = FALSE /\ reading = "no"
  /\ told = Untold /\ list = <<>>

\* The game's own code runs: between two frames, or in one of its callbacks.
GameRuns == at = "game" \/ reading # "no"

-----------------------------------------------------------------------------
(* Proxies.                                                                *)

\* GetOrCreate: the coordinator proxy is made once for a user.
MakesCoordinator(u) == u \notin coordinators

\* GetISteamGenericInterface for the coordinator: a new proxy of a client's user
\* makes the ClientGC; that of a game server's (steam id 0) makes none.
GetCoordinator(u) ==
  /\ at = "game"
  /\ coordinators' = coordinators \cup {u}
  /\ IF MakesCoordinator(u) /\ u \in ClientUsers
       THEN /\ made < MaxSessions
            /\ made' = made + 1
            /\ clientGC' = made'
            /\ existing' = existing \cup {made'}
            /\ queued' = 0
       ELSE UNCHANGED <<made, clientGC, existing, queued>>
  /\ UNCHANGED <<produced, callbacks, loop>>

\* What ~SteamGameCoordinatorProxy leaves of the instances: s_clientGC is deleted,
\* whichever user's proxy it is.  A slip: it is only forgotten.
ForgottenGC == existing
DeletedGC == existing \ {clientGC}

\* ReleaseUser, RemoveProxy: the proxy of the user goes, with its coordinator proxy.
ReleaseUser(u) ==
  /\ at = "game"
  /\ u \in coordinators
  /\ coordinators' = coordinators \ {u}
  /\ existing' = DeletedGC
  /\ clientGC' = NoGC
  /\ queued' = 0
  /\ UNCHANGED <<made, produced, callbacks, loop>>

\* RetrieveMessage, for a message IsMessageAvailable told of.
ReadMessage ==
  /\ GameRuns
  /\ queued > 0
  /\ queued' = queued - 1
  /\ reading' = IF reading = "no" THEN "no" ELSE "read"
  /\ UNCHANGED <<proxy, produced, callbacks, at, next, end, moved, told, list>>

\* SendMessage: handled by s_clientGC, if there is one, which may answer at once.
SendMessage ==
  /\ GameRuns
  /\ clientGC # NoGC
  /\ produced < MaxMessages
  /\ produced' = produced + 1
  /\ queued' = queued + 1
  /\ UNCHANGED <<proxy, callbacks, loop>>

-----------------------------------------------------------------------------
(* The list of callbacks.                                                  *)

\* ShouldHookCallback, for the id a callback is registered with.
ShouldHookCallback(c) == c \in Available \cup Failed

\* SteamAPI_RegisterCallback: a GC callback goes to the end of the list, which may
\* move it, and Steam never hears of it; any other goes to Steam, which sets its
\* m_iCallback.
RegisterCallback(c) ==
  /\ GameRuns
  /\ registrations < MaxRegistered
  /\ registrations' = registrations + 1
  /\ registered' = registered \cup {c}
  /\ IF ShouldHookCallback(c)
       THEN /\ hooks' = Append(hooks, c)
            /\ numbered' = numbered
            /\ \E moves \in BOOLEAN : moved' = (moved \/ (at = "loop" /\ moves))
       ELSE /\ numbered' = numbered \cup {c}
            /\ UNCHANGED <<hooks, moved>>
  /\ UNCHANGED <<proxy, queue, at, next, end, reading, told, list>>

\* SteamAPI_UnregisterCallback: what is taken for a GC callback is removed from the
\* list.  It is told by m_iCallback, which is 0 for one Steam has not heard of.
UnregisterCallback(c) ==
  /\ GameRuns
  /\ c \in registered
  /\ registered' = registered \ {c}
  /\ hooks' = IF c \in numbered /\ ShouldHookCallback(c)
                THEN SelectSeq(hooks, LAMBDA h : h # c)
                ELSE hooks
  /\ UNCHANGED <<proxy, queue, numbered, registrations, loop>>

-----------------------------------------------------------------------------
(* The hooked SteamAPI_RunCallbacks.                                       *)

\* Whether the callbacks are told of messages this frame.  A slip: only of the
\* first in an empty queue.
AnnouncesFirst == clientGC # NoGC /\ queued = 1
Announces == clientGC # NoGC /\ queued > 0

\* Steam's own callbacks have run; ClientGC has messages for the game, or not.
RunCallbacks ==
  /\ at = "game"
  /\ at' = IF Announces THEN "loop" ELSE "update"
  /\ next' = 1 /\ end' = Len(hooks) /\ moved' = FALSE
  /\ told' = Untold /\ list' = hooks
  /\ UNCHANGED <<proxy, queue, callbacks, reading>>

\* RunCallback(false, GCMessageAvailable_t::k_iCallback) runs these; and a slip:
\* it does not look for whom they are.
MatchesAnyone(c) == c \in Available
Matches(c) == c \in Available \ ServerFlagged

\* The last place the loop looks at.  A slip: the end as it is now.
EndNow == Len(hooks)
EndOfLoop == end

\* The loop's next entry; behind the end of a list that has become shorter, or in
\* storage that has been freed, it may be anything.
Entries == IF moved \/ next > Len(hooks) THEN Callbacks ELSE {hooks[next]}

RunEntry ==
  /\ at = "loop" /\ reading = "no"
  /\ next <= EndOfLoop
  /\ next' = next + 1
  /\ \E c \in Entries :
       IF Matches(c)
         THEN told' = [told EXCEPT ![c] = @ + 1] /\ reading' = "told"
         ELSE UNCHANGED <<told, reading>>
  /\ UNCHANGED <<proxy, queue, callbacks, at, end, moved, list>>

\* A callback of the game returns once it has read a message, if there is one.
CallbackReturns ==
  /\ reading # "no"
  /\ reading = "read" \/ queued = 0
  /\ reading' = "no"
  /\ UNCHANGED <<proxy, queue, callbacks, at, next, end, moved, told, list>>

LoopEnds ==
  /\ at = "loop" /\ reading = "no"
  /\ next > EndOfLoop
  /\ at' = "update"
  /\ UNCHANGED <<proxy, queue, callbacks, next, end, moved, reading, told, list>>

\* ClientGC::Update, if there is one: it may queue messages for the game.
UpdateGC ==
  /\ at = "update"
  /\ at' = "game"
  /\ \/ UNCHANGED queue
     \/ /\ clientGC # NoGC
        /\ produced < MaxMessages
        /\ produced' = produced + 1
        /\ queued' = queued + 1
  /\ UNCHANGED <<proxy, callbacks, next, end, moved, reading, told, list>>

Frame == RunCallbacks \/ RunEntry \/ LoopEnds \/ UpdateGC

HooksNext ==
  \/ \E u \in Users : GetCoordinator(u) \/ ReleaseUser(u)
  \/ ReadMessage \/ SendMessage
  \/ \E c \in Callbacks : RegisterCallback(c) \/ UnregisterCallback(c)
  \/ Frame \/ CallbackReturns

HooksSpec == HooksInit /\ [][HooksNext]_hooksVars

\* The game calls SteamAPI_RunCallbacks every frame, and a callback that has been
\* told of a message reads one and returns.
HooksFairness ==
  /\ WF_hooksVars(Frame)
  /\ WF_hooksVars(reading # "no" /\ ReadMessage)
  /\ WF_hooksVars(CallbackReturns)

FairHooksSpec == HooksSpec /\ HooksFairness

-----------------------------------------------------------------------------
(* Properties.                                                             *)

\* Types of all variables.
HooksTypeOK ==
  /\ coordinators \subseteq Users
  /\ made \in 0..MaxSessions /\ clientGC \in 0..made /\ existing \subseteq 1..made
  /\ produced \in 0..MaxMessages /\ queued \in 0..produced
  /\ hooks \in Seq(Callbacks) /\ list \in Seq(Callbacks)
  /\ numbered \subseteq Callbacks /\ registered \subseteq Callbacks
  /\ registrations \in 0..MaxRegistered
  /\ at \in {"game", "loop", "update"} /\ reading \in {"no", "told", "read"}
  /\ next \in 1..(MaxRegistered + 1) /\ end \in 0..MaxRegistered
  /\ moved \in BOOLEAN
  /\ told \in [Callbacks -> 0..MaxRegistered]

\* A ClientGC lives as long as s_clientGC names it: none is left behind when the
\* user logs off and on again, and none is named that has been deleted; and it is
\* there only while a client's user has a coordinator proxy.
OneCoordinator ==
  /\ existing = {clientGC} \ {NoGC}
  /\ clientGC # NoGC => coordinators \cap ClientUsers # {}

\* When the callbacks have been told of messages, each that was in the list to begin
\* with has been run once for every time it was there, if it is the client's and for
\* that id, and no other, not even one registered meanwhile: unless the list was
\* moved in the loop, when nothing can be said.
EachToldOnce ==
  at = "update" /\ next > end /\ ~moved =>
    \A c \in Callbacks :
      told[c] = IF c \in Available \ ServerFlagged
                  THEN Cardinality({i \in DOMAIN list : list[i] = c})
                  ELSE 0

\* As long as a callback of the game's client is in the list, a message in the queue
\* is announced until it is read, however many there are.
ReadInTheEnd ==
  (queued > 0 /\ \E c \in Range(hooks) : Matches(c)) ~> queued = 0
=============================================================================
