----------------------------- MODULE FrameStream -----------------------------
(***************************************************************************)
(* One direction of the TCP link: handle_udp and the keepalive functions   *)
(* put frames in the send buffer, TCP carries the bytes, and handle_tcp    *)
(* hands what each recv() returns to gnb_payload16_handle.  A refusal ends *)
(* the link, and so may either end at any time.                            *)
(*                                                                         *)
(* The receiver's context belongs to the channel.  On the TCP side there   *)
(* is a new channel for every connection; on the UDP side there is one     *)
(* channel, whose context is made by init_cb and outlives every link.      *)
(***************************************************************************)
EXTENDS Payload16

CONSTANTS
  Payloads,   \* what each side is sent: records of the rest of the head and the data
  MaxFrames   \* bound: frames sent on one link

\* The size of a datagram and the head fit in the size field.
ASSUME StreamAssumption ==
  /\ MaxFrames \in Nat
  /\ \A p \in Payloads["tcp"] \cup Payloads["udp"] :
       /\ p.head \in Seq(Byte) /\ Len(p.head) = HeadSize - 2
       /\ p.data \in Seq(Byte) /\ HeadSize + Len(p.data) < Base * Base

VARIABLES
  side,       \* the receiver: "tcp" (uot_tcp_service.c) or "udp"
  sent,       \* the frames written on this link
  delivered,  \* the frames the receiver was called back for on this link
  wire,       \* bytes written and not yet received
  ctx,        \* channel->gnb_payload16_ctx
  status      \* of the receiving process: "running" or "crashed"

vars == <<side, sent, delivered, wire, ctx, status>>

Frame == {Encode(p.head, p.data) : p \in Payloads["tcp"] \cup Payloads["udp"]}

Init == /\ side \in {"tcp", "udp"}
        /\ sent = <<>> /\ delivered = <<>> /\ wire = <<>>
        /\ ctx = NewCtx
        /\ status = "running"

Send(p) ==
  /\ status = "running" /\ Len(sent) < MaxFrames
  /\ sent' = Append(sent, Encode(p.head, p.data))
  /\ wire' = wire \o Encode(p.head, p.data)
  /\ UNCHANGED <<side, delivered, ctx, status>>

\* Mutant: accept_cb uses the context of the channel before.
RelinkKeeping(c) ==
  /\ sent' = <<>> /\ delivered' = <<>> /\ wire' = <<>>
  /\ ctx' = c
  /\ UNCHANGED side

\* The link is closed and another one opened: accept_cb makes a context for
\* it, try_tcp_connect does not.
Relink(c) ==
  /\ sent' = <<>> /\ delivered' = <<>> /\ wire' = <<>>
  /\ ctx' = IF side = "tcp" THEN NewCtx ELSE c
  /\ UNCHANGED side

LinkLost == status = "running" /\ Relink(ctx) /\ UNCHANGED status

\* do_recv and handle_tcp; n is what recv() returned.  Frames called back for
\* before a refusal in the same call are not recorded: the link ends in the
\* same step, and delivered is reset with it.
Receive(n) ==
  LET r == Handle(ctx, Take(wire, n))
  IN /\ status = "running"
     /\ \/ /\ r.ret = 0
           /\ ctx' = r.ctx /\ wire' = Drop(wire, n)
           /\ delivered' = delivered \o r.out
           /\ UNCHANGED <<side, sent, status>>
        \/ /\ r.ret \in {-1, -2, -3, -4}
           /\ Relink(r.ctx) /\ UNCHANGED status
        \/ /\ r.ret = Overrun
           /\ status' = "crashed" /\ UNCHANGED <<side, sent, delivered, wire, ctx>>

Next == \/ \E p \in Payloads[side] : Send(p)
        \/ \E n \in 1..Len(wire) : Receive(n)
        \/ LinkLost

Spec == Init /\ [][Next]_vars

FairSpec == Spec /\ WF_vars(\E n \in 1..Len(wire) : Receive(n))

-----------------------------------------------------------------------------
\* The context keeps less than a frame, in bytes.
TypeOK ==
  /\ side \in {"tcp", "udp"}
  /\ sent \in Seq(Frame)
  /\ wire \in Seq(Byte)
  /\ ctx.rLen \in 0..(MaxPayloadSize - 1)
  /\ ctx.buffer \in [1..2 -> Byte]
  /\ ctx.payload \in [1..MaxPayloadSize -> Byte]
  /\ status \in {"running", "crashed"}

\* A new context for every link: on the other side nothing is promised, and
\* the channel below is one that nothing is sent on.
FreshContext == side = "tcp"

Channel == INSTANCE FrameChannel
  WITH sent <- IF FreshContext THEN sent ELSE <<>>,
       delivered <- IF FreshContext THEN delivered ELSE <<>>

\* gnb_payload16_handle, with one context for each link, is a frame channel:
\* however recv() cuts the stream, the callbacks see the frames that were
\* sent, whole, in order and once.
FramesComeOutWhole == Channel!Spec

\* The receiver gives a link up only for a frame longer than its context
\* takes; any cut of legal frames is accepted.
RefusesOnlyLongFrames ==
  FreshContext => \A n \in 1..Len(wire) :
    Handle(ctx, Take(wire, n)).ret # 0 =>
      \E i \in DOMAIN sent : Len(sent[i]) > MaxPayloadSize

\* With a context of its own, the receiver never copies outside the memory of
\* the context: it keeps running, and once the size field is there the bytes
\* kept of a frame stay below the length it gives, which the memory takes.
PartialFrameFits ==
  /\ TypeOK
  /\ FreshContext =>
       /\ status = "running"
       /\ ctx.rLen >= 2 =>
            ctx.rLen < SizeIn(ctx.buffer) /\ SizeIn(ctx.buffer) <= MaxPayloadSize

\* README.md:92: what comes from the TCP link is sent to the UDP end.  Whatever
\* link comes after whatever link, the receiver lives to do so: it never copies
\* a length that the bytes kept make negative (gnb_payload16.c:182).
NeverOverruns == status = "running"

\* Once sent, a frame is delivered, unless the link is lost: no cut of the
\* stream leaves the loop of gnb_payload16_handle waiting for ever.
SentIsDelivered ==
  \A k \in 1..MaxFrames :
    FreshContext /\ Len(sent) = k ~> (Len(delivered) >= k \/ Len(sent) < k)
==============================================================================
