------------------------------ MODULE Payload16 ------------------------------
(***************************************************************************)
(* gnb_payload16.c: frames in a byte stream.  A frame starts with its own  *)
(* size, two bytes in network order that count the head as well, and goes  *)
(* on with the rest of the head and the data.                              *)
(*                                                                         *)
(* gnb_payload16_handle takes what one recv() brought, whatever way the    *)
(* stream was cut, and calls back for each frame that it completes; what   *)
(* is left over stays in the context.  Here a call is Handle(ctx, data):   *)
(* the context after it, the frames called back for in order, and the      *)
(* value returned.  Bytes are the integers below Base (256).               *)
(***************************************************************************)
EXTENDS Integers, Sequences

CONSTANTS
  Base,            \* values of a byte
  HeadSize,        \* GNB_PAYLOAD16_HEAD_SIZE
  MaxPayloadSize,  \* max_payload_size of the context
  FrameLimit       \* GNB_MAX_PAYLOAD_SIZE

ASSUME SizesAssumption ==
  /\ Base \in Nat /\ HeadSize \in Nat /\ HeadSize > 2
  /\ MaxPayloadSize \in Nat /\ MaxPayloadSize >= HeadSize
  /\ FrameLimit \in Nat /\ FrameLimit >= MaxPayloadSize /\ FrameLimit < Base * Base

Byte == 0 .. (Base - 1)

\* htons and ntohs of a size field.
SizeField(n) == <<n \div Base, n % Base>>
SizeIn(bytes) == bytes[1] * Base + bytes[2]

\* A frame with the given rest of the head and data, as handle_udp lays it
\* out: gnb_payload16_set_data_len, then type, then the data.
Encode(head, data) == SizeField((HeadSize + Len(data)) % (Base * Base)) \o head \o data

Ctx == [rLen : Nat, buffer : [1..2 -> Byte], payload : [1..MaxPayloadSize -> Byte]]

\* What an iteration of gnb_payload16_handle starts from.
Call == [ctx : Ctx, data : Seq(Byte)]

\* gnb_payload16_ctx_init: buffer holds the size field, payload the frame.
NewCtx == [rLen |-> 0, buffer |-> <<0, 0>>, payload |-> [i \in 1..MaxPayloadSize |-> 0]]

\* memcpy(to + at, bytes, Len(bytes))
Copy(to, at, bytes) ==
  [i \in DOMAIN to |-> IF i - at \in DOMAIN bytes THEN bytes[i - at] ELSE to[i]]

Take(data, n) == SubSeq(data, 1, n)
Drop(data, n) == SubSeq(data, n + 1, Len(data))

\* The frame the callback reads: as long as its own size field says.
FrameOf(payload) == SubSeq(payload, 1, SizeIn(payload))

\* How a call goes on after an iteration of its loop, or ends.
Ends(ctx, ret) == [ctx |-> ctx, rest |-> <<>>, out |-> <<>>, ret |-> ret, done |-> TRUE]
\* Mutant: the loop ends with the first frame.
GoesOnOnce(ctx, rest, out) == [ctx |-> ctx, rest |-> rest, out |-> out, ret |-> 0, done |-> TRUE]

GoesOn(ctx, rest, out) ==
  [ctx |-> ctx, rest |-> rest, out |-> out, ret |-> 0, done |-> Len(rest) = 0]

\* Stands for the end of the process in a copy whose length wrapped around;
\* gnb_payload16_handle itself returns 0 or less.
Overrun == 1

\* Mutant: a frame of the longest legal length is refused.
RefusalEarly(size) == IF size = 0 THEN -1 ELSE IF size >= MaxPayloadSize THEN -3 ELSE 0

\* Why a size field is refused: the checks on a frame's head, 0 if it passes.
Refusal(size) == IF size = 0 THEN -1
                 ELSE IF size > FrameLimit THEN -2
                 ELSE IF size > MaxPayloadSize THEN -3
                 ELSE 0

\* GNB_FRAME_STATUS_HEAD: collect the two bytes of the size field.
HeadStep(ctx, data) ==
  LET n == IF Len(data) >= 2 - ctx.rLen THEN 2 - ctx.rLen ELSE Len(data)
      c == [ctx EXCEPT !.buffer = Copy(@, ctx.rLen, Take(data, n)), !.rLen = @ + n]
  IN IF c.rLen < 2 THEN Ends(c, 0)
     ELSE IF Refusal(SizeIn(c.buffer)) # 0 THEN Ends(c, Refusal(SizeIn(c.buffer)))
     ELSE GoesOn([c EXCEPT !.payload = Copy(@, 0, c.buffer)], Drop(data, n), <<>>)

\* Mutant: > instead of >= where the rest of the frame is all there.
PartStepLate(ctx, data) ==
  LET need == SizeIn(ctx.buffer) - ctx.rLen
      part(n) == Copy(ctx.payload, ctx.rLen, Take(data, n))
  IN IF SizeIn(ctx.buffer) > MaxPayloadSize THEN Ends(ctx, -4)
     ELSE IF need < 0 THEN Ends(ctx, Overrun)
     ELSE IF Len(data) > need
     THEN GoesOn([ctx EXCEPT !.rLen = 0, !.payload = part(need)],
                 Drop(data, need), <<FrameOf(part(need))>>)
     ELSE Ends([ctx EXCEPT !.rLen = @ + Len(data), !.payload = part(Len(data))], 0)

\* GNB_FRAME_STATUS_PART: collect the rest of the frame.  A size below what is
\* there already makes the length of the copy wrap around.
PartStep(ctx, data) ==
  LET need == SizeIn(ctx.buffer) - ctx.rLen
      part(n) == Copy(ctx.payload, ctx.rLen, Take(data, n))
  IN IF SizeIn(ctx.buffer) > MaxPayloadSize THEN Ends(ctx, -4)
     ELSE IF need < 0 THEN Ends(ctx, Overrun)
     ELSE IF Len(data) >= need
     THEN GoesOn([ctx EXCEPT !.rLen = 0, !.payload = part(need)],
                 Drop(data, need), <<FrameOf(part(need))>>)
     ELSE Ends([ctx EXCEPT !.rLen = @ + Len(data), !.payload = part(Len(data))], 0)

\* The loop: what an iteration has left over goes to the next one.
Loop(ctx, data) ==
  LET from[call \in Call] ==
        LET s == IF call.ctx.rLen >= 2 THEN PartStep(call.ctx, call.data)
                 ELSE HeadStep(call.ctx, call.data)
            next == from[[ctx |-> s.ctx, data |-> s.rest]]
        IN IF s.done THEN [ctx |-> s.ctx, out |-> s.out, ret |-> s.ret]
           ELSE [next EXCEPT !.out = s.out \o @]
  IN from[[ctx |-> ctx, data |-> data]]

\* The data are one whole frame and nothing is left over from before.
WholeFrame(ctx, data) ==
  /\ ctx.rLen = 0 /\ Len(data) > HeadSize
  /\ SizeIn(data) \in {0, Len(data)} \/ SizeIn(data) > FrameLimit

Handle(ctx, data) ==
  IF ~WholeFrame(ctx, data) THEN Loop(ctx, data)
  ELSE IF Refusal(SizeIn(data)) # 0 THEN [ctx |-> ctx, out |-> <<>>, ret |-> Refusal(SizeIn(data))]
  ELSE [ctx |-> [ctx EXCEPT !.payload = Copy(@, 0, data)], out |-> <<data>>, ret |-> 0]
==============================================================================
