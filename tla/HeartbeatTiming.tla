--------------------------- MODULE HeartbeatTiming ---------------------------
(***************************************************************************)
(* The clock arithmetic of TCPConnection's heartbeat, in seconds, on one   *)
(* connection whose socket stays up (src/csgo_gc/tcp_connection.cpp).      *)
(* Update sends a heartbeat once HeartbeatInterval has passed since the    *)
(* last answer, and drops the link when one is out and HeartbeatTimeout    *)
(* has passed, both counted from the last answer and not from the moment   *)
(* the heartbeat was sent.  Update runs once per frame of the game, so the *)
(* time between two runs is whatever the game makes it.                    *)
(***************************************************************************)
EXTENDS Heartbeat

CONSTANTS
  ConnectTime,        \* longest time CreateConnectionSocket takes to connect
  MaxGap,             \* longest time between two runs of Update
  MaxLatency          \* longest time a heartbeat's answer takes

ASSUME TimingAssumption ==
  /\ HeartbeatInterval \in Nat \ {0}
  /\ HeartbeatTimeout \in Nat \ {0}
  /\ ConnectTime \in Nat
  /\ MaxGap \in Nat
  /\ MaxLatency \in Nat

VARIABLES
  up,      \* m_connected
  age,     \* time since m_lastheartbeat
  sent,    \* m_sentheartbeat
  idle,    \* time since Update last ran (or the link came up)
  wire,    \* the heartbeat under way: "none", "asked" or "answered"
  waited,  \* time since it was sent
  lost,    \* the timeout branch of Update was taken
  answers  \* the server answers every heartbeat within MaxLatency; or need not

timing == <<up, age, sent, idle, wire, waited, lost, answers>>

\* CCConnect sets m_lastheartbeat; without that the age would be as old as the last
\* connection ("Extreme disconnect and connect loop happens if we don't").
AgeAtConnect == 0

TimingInit ==
  /\ up = FALSE
  /\ age = AgeAtConnect
  /\ sent = FALSE
  /\ idle = 0
  /\ wire = "none"
  /\ waited = 0
  /\ lost = FALSE
  /\ answers \in BOOLEAN

\* SocketStatusCallback, Connected; Update follows in the same frame.
Connected ==
  /\ ~up
  /\ ~lost
  /\ up' = TRUE
  /\ UNCHANGED <<age, sent, idle, wire, waited, lost, answers>>

-----------------------------------------------------------------------------
(* Update: first the receive loop, where an answer resets the age, then    *)
(* the heartbeat.                                                          *)

\* The members as they are before and after the receive loop.
Unheard == [age |-> age, sent |-> sent]
Heard ==
  IF wire = "answered" THEN [age |-> 0, sent |-> FALSE] ELSE Unheard

UpdateLoses ==
  /\ up
  /\ TimedOut(Heard.sent, Heard.age)
  /\ lost' = TRUE
  /\ up' = FALSE
  /\ UNCHANGED <<age, sent, idle, wire, waited, answers>>

UpdateSends ==
  /\ up
  /\ BeatDue(Heard.sent, Heard.age)
  /\ sent' = TRUE
  /\ age' = Heard.age
  /\ idle' = 0
  /\ wire' = "asked"
  /\ waited' = 0
  /\ UNCHANGED <<up, lost, answers>>

UpdateWaits ==
  /\ up
  /\ ~TimedOut(Heard.sent, Heard.age)
  /\ ~BeatDue(Heard.sent, Heard.age)
  /\ sent' = Heard.sent
  /\ age' = Heard.age
  /\ idle' = 0
  /\ wire' = IF wire = "answered" THEN "none" ELSE wire
  /\ UNCHANGED <<up, waited, lost, answers>>

-----------------------------------------------------------------------------
(* The server and the clock (external).                                    *)

Answer ==
  /\ wire = "asked"
  /\ wire' = "answered"
  /\ UNCHANGED <<up, age, sent, idle, waited, lost, answers>>

\* A second passes: the game runs Update within MaxGap, Steam connects within
\* ConnectTime, and a server that answers does so within MaxLatency.
SecondPasses ==
  /\ ~lost
  /\ IF up THEN idle < MaxGap ELSE age < ConnectTime
  /\ answers /\ wire = "asked" => waited < MaxLatency
  /\ age' = age + 1
  /\ idle' = IF up THEN idle + 1 ELSE idle
  /\ waited' = IF wire = "asked" THEN waited + 1 ELSE waited
  /\ UNCHANGED <<up, sent, wire, lost, answers>>

TimingNext ==
  \/ Connected \/ UpdateLoses \/ UpdateSends \/ UpdateWaits
  \/ Answer \/ SecondPasses

TimingSpec == TimingInit /\ [][TimingNext]_timing

-----------------------------------------------------------------------------
(* Properties.                                                             *)

TimingTypes ==
  /\ up \in BOOLEAN
  /\ age \in Nat
  /\ sent \in BOOLEAN
  /\ idle \in 0..MaxGap
  /\ wire \in {"none", "asked", "answered"}
  /\ waited \in Nat
  /\ lost \in BOOLEAN /\ answers \in BOOLEAN

\* The latest age, but for the gap before the next Update, at which no heartbeat
\* is out: just short of the interval, or as old as connecting took.
Youth ==
  IF ConnectTime < HeartbeatInterval THEN HeartbeatInterval - 1 ELSE ConnectTime

\* The game's frames and the server's answers leave room before the timeout.
Timely == Youth + MaxGap + MaxLatency < HeartbeatTimeout

\* "We lost connection to the GC!", the comment of the timeout branch: a server
\* that answers every heartbeat within MaxLatency is never dropped.  It holds when
\* Timely does, and fails when one frame of the game can outlast the timeout.
LossMeansNoAnswer == lost => ~answers

\* A dead server is noticed: the last answer of a link that is up is never older
\* than the timeout (or the age at which the heartbeat went out) plus one frame.
DetectionBound ==
  up => age <= MaxGap + (IF HeartbeatTimeout - 1 < Youth + MaxGap
                           THEN Youth + MaxGap ELSE HeartbeatTimeout - 1)

-----------------------------------------------------------------------------
(* What makes the two inductive.                                           *)

\* A heartbeat is out exactly while sent is set; until then the age is bounded by
\* the frame it should have been sent in, afterwards by the time waited.
AgeInv ==
  /\ sent <=> wire # "none"
  /\ ~up /\ ~lost => ~sent /\ age <= ConnectTime /\ idle = 0
  /\ ~sent => age <= Youth + idle
  /\ wire = "asked" => age <= Youth + MaxGap + waited
  /\ wire = "asked" /\ answers => waited <= MaxLatency

\* At the last Update the link was kept, so the age was below the timeout unless
\* the heartbeat had only then been sent.
KeptInv ==
  up => age <= idle + (IF HeartbeatTimeout - 1 < Youth + MaxGap
                         THEN Youth + MaxGap ELSE HeartbeatTimeout - 1)

TimingInv == TimingTypes /\ AgeInv /\ KeptInv
=============================================================================
