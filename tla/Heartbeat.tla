------------------------------ MODULE Heartbeat ------------------------------
(***************************************************************************)
(* What TCPConnection::Update does about the server's silence              *)
(* (src/csgo_gc/tcp_connection.cpp), by m_sentheartbeat and the time since *)
(* m_lastheartbeat.                                                        *)
(***************************************************************************)
EXTENDS Naturals

CONSTANTS
  HeartbeatInterval,  \* 5 seconds in the code
  HeartbeatTimeout    \* 15 seconds in the code

\* The server is taken for lost; and a slip: a second later.
TimedOutLate(asked, silence) == asked /\ silence > HeartbeatTimeout
TimedOut(asked, silence) == asked /\ silence >= HeartbeatTimeout

\* A heartbeat is sent.
BeatDue(asked, silence) == ~asked /\ silence >= HeartbeatInterval
=============================================================================
