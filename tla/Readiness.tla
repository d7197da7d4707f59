------------------------------ MODULE Readiness ------------------------------
(***************************************************************************)
(* What the loop of gnb_network_service.c expects of an event handler,     *)
(* whichever one gnb_create_event_cmd picked, and of its own protocol for  *)
(* connections that are closed while their events wait: connections are    *)
(* watched or not, a poll reports watched ones, and what was reported is   *)
(* served in order, except what has been closed in the meantime, whose     *)
(* place stays blank even if the connection is opened again.  There are no *)
(* event blocks here, no pool, no arrays and no marks.                     *)
(***************************************************************************)
EXTENDS Naturals, Sequences

CONSTANTS
  Conn,     \* connections, the listener included
  Listener, \* the one that is there from the start
  NoConn,   \* a blank place in what was reported
  MaxGet    \* what the loop has room for

VARIABLES
  watched, \* what is watched for a connection; {}: it does not exist
  pending  \* the reported connections that are still to be served, and blanks

Init == /\ watched = [x \in Conn |-> IF x = Listener THEN {"READ"} ELSE {}]
        /\ pending = <<>>

\* Connections come and go and WRITE is switched on and off; READ never is.
Rewatch == \A x \in Conn : watched'[x] # {} => "READ" \in watched'[x]

\* A poll: only connections that exist, and no more than there is room for.
Report ==
  /\ pending = <<>>
  /\ pending' # <<>> /\ Len(pending') <= MaxGet
  /\ \A i \in DOMAIN pending' : pending'[i] \in Conn /\ watched[pending'[i]] # {}
  /\ UNCHANGED watched

\* A connection that is closed by now leaves its place blank.
Left(x) == IF x # NoConn /\ watched'[x] # {} THEN x ELSE NoConn

\* The next one is served, and exists; whatever its handler closes is served
\* no more.
Serve ==
  /\ pending # <<>> /\ Head(pending) \in Conn /\ watched[Head(pending)] # {}
  /\ Rewatch
  /\ pending' = [i \in DOMAIN Tail(pending) |-> Left(Tail(pending)[i])]

\* A blank is passed over.
Skip ==
  /\ pending # <<>> /\ Head(pending) = NoConn
  /\ pending' = Tail(pending)
  /\ UNCHANGED watched

\* Between two batches the timers run.
Rest == pending = <<>> /\ Rewatch /\ UNCHANGED pending

Next == Report \/ Serve \/ Skip \/ Rest

Spec == Init /\ [][Next]_<<watched, pending>>
==============================================================================
