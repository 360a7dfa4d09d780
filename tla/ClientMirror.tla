---------------------------- MODULE ClientMirror ----------------------------
(***************************************************************************)
(* That ClientGC keeps a copy as ObjectMirror promises it: the states the  *)
(* coordinator's objects have been in are written down beside ClientGC's   *)
(* steps, with the one each message on the way was sent in.                *)
(***************************************************************************)
EXTENDS ClientGC

VARIABLES
  states,  \* the states the coordinator's objects have been in
  stamps,  \* for each message of down, the number of the state it was sent in
  at       \* the state of the last message read in step

mirrorVars == <<vars, states, stamps, at>>

MirrorInit ==
  /\ Init
  /\ states = <<truth>> /\ stamps = <<>> /\ at = 1

\* The coordinator's objects change, a message is sent, or both.
CoordinatorStep ==
  /\ Coordinator
  /\ states' = IF changes' = changes THEN states ELSE Append(states, truth')
  /\ stamps' = IF down' = down THEN stamps ELSE Append(stamps, Len(states'))
  /\ UNCHANGED at

\* A message is read; it is in step from the cache of the connection on.
ReadStep ==
  /\ ProcessMessage
  /\ stamps' = Tail(stamps)
  /\ at' = IF current' THEN Head(stamps) ELSE at
  /\ UNCHANGED states

\* Any other step: what was on the way stays there or is lost.
OtherStep ==
  /\ HandleMessage \/ RetrieveMessage \/ SendSOCacheToGameServer \/ ClearAuthTicket
       \/ LinkUp \/ LinkLost
  /\ stamps' = IF down' = <<>> THEN <<>> ELSE stamps
  /\ UNCHANGED <<states, at>>

MirrorNext == CoordinatorStep \/ ReadStep \/ OtherStep

MirrorSpec == MirrorInit /\ [][MirrorNext]_mirrorVars

\* With ClientGC's fairness, which the history does not stand in the way of.
FairMirrorSpec == MirrorSpec /\ Fairness

Mirror == INSTANCE ObjectMirror WITH
            Views <- [Objects -> Nat], objects <- truth, copy <- Held, inStep <- current

\* From the cache of a connection on, what ClientGC holds is at every moment a state the
\* coordinator's objects have been in: its handlers take it from each state to the next, never
\* two at once, never back, and never to a mixture of two; a new connection's cache does not
\* set it back behind what it had seen before.
MirrorsObjects == Mirror!Spec
=============================================================================
