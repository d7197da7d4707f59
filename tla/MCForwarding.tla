---------------------------- MODULE MCForwarding ----------------------------
(***************************************************************************)
(* The stream and the send buffers of a channel for TLC, one of them at a  *)
(* time: `part` says which.  The frames of the stream are of the shortest, *)
(* a middle and the longest legal length, and one is a byte too long; the  *)
(* data hold bytes that read as small sizes when they are taken for a size *)
(* field.                                                                  *)
(***************************************************************************)
EXTENDS FrameStream, Relay

VARIABLE part

MCHead == <<7, 0>>
MCLegal == {[head |-> MCHead, data |-> <<>>], [head |-> MCHead, data |-> <<5>>],
            [head |-> MCHead, data |-> <<0, 3>>]}
MCWithLong == MCLegal \cup {[head |-> MCHead, data |-> <<0, 5, 1>>]}
MCShortAndLong == {[head |-> MCHead, data |-> <<5>>], [head |-> MCHead, data |-> <<0, 5, 1>>]}

\* What survives a link makes the states many: fewer frames for the UDP side.
MCPayloads == [tcp |-> MCWithLong, udp |-> MCShortAndLong]
MCLegalPayloads == [tcp |-> MCLegal, udp |-> MCLegal]

forwardingVars == <<vars, relayVars, part>>

ForwardingInit == Init /\ RelayInit /\ process = side /\ part \in {"stream", "buffers"}

ForwardingNext ==
  /\ \/ part = "stream" /\ Next /\ UNCHANGED relayVars
     \/ part = "buffers" /\ RelayNext /\ UNCHANGED vars
  /\ UNCHANGED part

ForwardingSpec == ForwardingInit /\ [][ForwardingNext]_forwardingVars

\* What each of them assumes: it is the part that moves, or nothing of it is
\* enabled.
FairForwardingSpec ==
  /\ ForwardingSpec
  /\ WF_vars(\E n \in 1..Len(wire) : Receive(n))
  /\ WF_relayVars(FlushSome)
==============================================================================
