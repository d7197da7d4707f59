-------------------------- MODULE MCEventHandlers --------------------------
(***************************************************************************)
(* Four events, the listener's and one for each of three connections, and  *)
(* room for three in a batch: a channel and a third connection are there   *)
(* together, a closed event is popped again while its second entry waits,  *)
(* and select finds more than there is room for.                           *)
(***************************************************************************)
EXTENDS EventHandlers, TLC

\* Connection records are interchangeable.
Symmetry == Permutations(Conn)
==============================================================================
