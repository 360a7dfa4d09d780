---------------------------- MODULE ObjectMirror ----------------------------
(***************************************************************************)
(* What a copy of the coordinator's objects promises, whatever messages it *)
(* is kept by: while it is in step it is one of the states the objects     *)
(* have been in, and it goes through the states that follow one by one.    *)
(* It may fall out of step, and is then worth nothing; when it comes back, *)
(* it is not with a state from before the one it was in.                   *)
(***************************************************************************)
EXTENDS Naturals, Sequences

CONSTANT Views  \* the states the objects can be in

VARIABLES
  objects,  \* the coordinator's objects
  states,   \* the states they have been in, the present one last
  copy,     \* the copy
  inStep,   \* it can be relied on
  at        \* the state it is in, or was in when it was last in step

vars == <<objects, states, copy, inStep, at>>

Init ==
  /\ objects \in Views /\ states = <<objects>>
  /\ copy \in Views /\ inStep = FALSE /\ at = 1

Change ==
  /\ objects' \in Views
  /\ states' = Append(states, objects')
  /\ UNCHANGED <<copy, inStep, at>>

\* The copy is brought up to the next state.
Follow ==
  /\ inStep
  /\ at < Len(states)
  /\ at' = at + 1
  /\ copy' = states[at']
  /\ UNCHANGED <<objects, states, inStep>>

Lose ==
  /\ inStep' = FALSE
  /\ UNCHANGED <<objects, states, copy, at>>

\* Out of step, the copy can become anything.
Stray ==
  /\ ~inStep
  /\ copy' \in Views
  /\ UNCHANGED <<objects, states, inStep, at>>

Subscribe ==
  /\ ~inStep
  /\ inStep' = TRUE
  /\ at' \in at..Len(states)
  /\ copy' = states[at']
  /\ UNCHANGED <<objects, states>>

Next == Change \/ Follow \/ Lose \/ Stray \/ Subscribe

Spec == Init /\ [][Next]_vars
=============================================================================
