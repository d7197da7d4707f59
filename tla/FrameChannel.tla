----------------------------- MODULE FrameChannel -----------------------------
(***************************************************************************)
(* What a link promises to the callbacks of its ends while it lasts: the   *)
(* frames that were sent come out whole, in order and once.  When the link *)
(* is lost, those under way are lost with it; the next link starts empty.  *)
(***************************************************************************)
EXTENDS Naturals, Sequences

CONSTANT Frame  \* what may be sent

VARIABLES
  sent,      \* the frames sent on this link
  delivered  \* the frames that have come out of it

Init == sent = <<>> /\ delivered = <<>>

Send(f) == sent' = Append(sent, f) /\ UNCHANGED delivered

\* One recv() may complete several frames.
Deliver(n) ==
  /\ n <= Len(sent)
  /\ delivered' = SubSeq(sent, 1, n)
  /\ UNCHANGED sent

Lose == sent' = <<>> /\ delivered' = <<>>

Next == \/ \E f \in Frame : Send(f)
        \/ \E n \in Len(delivered) + 1 .. Len(sent) : Deliver(n)
        \/ Lose

Spec == Init /\ [][Next]_<<sent, delivered>>
==============================================================================
