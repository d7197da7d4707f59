--------------------------- MODULE FrameStreamProofs --------------------------
(***************************************************************************)
(* What FrameStream promises for any frames, any way the stream is cut and *)
(* any sizes of context and frame.                                         *)
(***************************************************************************)
EXTENDS FrameStream, FixedPoolProofs, SequenceTheorems

\* The sizes in the form the provers use.
LEMMA Sizes ==
  /\ Base \in Nat /\ HeadSize \in Nat /\ MaxPayloadSize \in Nat /\ FrameLimit \in Nat
  /\ 2 < HeadSize /\ 2 < MaxPayloadSize /\ MaxPayloadSize <= FrameLimit
  /\ Base # 0 /\ 0 \in Byte /\ Byte \subseteq Nat
<1>1. /\ Base \in Nat /\ HeadSize \in Nat /\ MaxPayloadSize \in Nat /\ FrameLimit \in Nat
      /\ HeadSize > 2 /\ MaxPayloadSize >= HeadSize /\ FrameLimit >= MaxPayloadSize
      /\ FrameLimit < Base * Base
  BY SizesAssumption
<1>2. Base # 0
  BY <1>1
<1>3. 0 \in Byte /\ Byte \subseteq Nat
  BY <1>1, <1>2 DEF Byte
<1> QED BY <1>1, <1>2, <1>3

\* A size that fits in two bytes is read as it was written.
LEMMA SizeFieldRead ==
  ASSUME NEW n \in Nat, n < Base * Base
  PROVE  /\ n \div Base \in Byte /\ n % Base \in Byte
         /\ (n \div Base) * Base + (n % Base) = n
<1>1. Base \in Nat /\ Base > 0
  BY Sizes
<1>2. PICK q : q = n \div Base
  OBVIOUS
<1>3. PICK r : r = n % Base
  OBVIOUS
<1>4. q \in Int /\ r \in Int /\ n = Base * q + r /\ 0 <= r /\ r < Base
  BY <1>1, <1>2, <1>3
<1>5. 0 <= q /\ q < Base
  BY <1>1, <1>4
<1> QED BY <1>1, <1>2, <1>3, <1>4, <1>5 DEF Byte

\* A function on the first numbers is a sequence.
LEMMA ASequence ==
  ASSUME NEW S, NEW n \in Nat, NEW f \in [1..n -> S]
  PROVE  f \in Seq(S) /\ Len(f) = n
  OBVIOUS

\* A copy has the length of its target.
LEMMA CopyType ==
  ASSUME NEW S, NEW n \in Nat, NEW to \in [1..n -> S], NEW at \in Nat,
         NEW bytes \in Seq(S)
  PROVE  /\ Copy(to, at, bytes) \in [1..n -> S]
         /\ \A i \in 1..n : Copy(to, at, bytes)[i] =
              IF i - at \in 1..Len(bytes) THEN bytes[i - at] ELSE to[i]
<1>1. DOMAIN to = 1..n /\ DOMAIN bytes = 1..Len(bytes)
  OBVIOUS
<1>2. Copy(to, at, bytes) = [i \in 1..n |-> IF i - at \in 1..Len(bytes) THEN bytes[i - at] ELSE to[i]]
  BY <1>1 DEF Copy
<1> QED BY <1>2

\* The two parts of a sequence.
LEMMA CutType ==
  ASSUME NEW S, NEW data \in Seq(S), NEW n \in 0..Len(data)
  PROVE  /\ Take(data, n) \in Seq(S) /\ Len(Take(data, n)) = n
         /\ \A i \in 1..n : Take(data, n)[i] = data[i]
         /\ Drop(data, n) \in Seq(S) /\ Len(Drop(data, n)) = Len(data) - n
         /\ \A i \in 1..(Len(data) - n) : Drop(data, n)[i] = data[n + i]
  BY DEF Take, Drop

\* Of bytes.
LEMMA BytesCut ==
  ASSUME NEW data \in Seq(Byte), NEW n \in 0..Len(data)
  PROVE  /\ Take(data, n) \in Seq(Byte) /\ Len(Take(data, n)) = n
         /\ \A i \in 1..n : Take(data, n)[i] = data[i]
         /\ Drop(data, n) \in Seq(Byte) /\ Len(Drop(data, n)) = Len(data) - n
         /\ \A i \in 1..(Len(data) - n) : Drop(data, n)[i] = data[n + i]
  BY CutType

-----------------------------------------------------------------------------
(***************************************************************************)
(* An iteration of the loop.                                               *)
(***************************************************************************)
\* What an iteration makes of the context and the data.
Iteration(call) == IF call.ctx.rLen >= 2 THEN PartStep(call.ctx, call.data)
                   ELSE HeadStep(call.ctx, call.data)

NextCall(call) == [ctx |-> Iteration(call).ctx, data |-> Iteration(call).rest]

\* The size a context has, from its two bytes.
LEMMA SizeType ==
  ASSUME NEW b \in [1..2 -> Byte]
  PROVE  SizeIn(b) \in Nat
<1>1. b[1] \in Byte /\ b[2] \in Byte
  OBVIOUS
<1>2. b[1] \in Nat /\ b[2] \in Nat /\ Base \in Nat
  BY <1>1, Sizes
<1> QED BY <1>2 DEF SizeIn

\* What is taken for the head: up to two bytes.
HeadTakes(call) ==
  IF Len(call.data) >= 2 - call.ctx.rLen THEN 2 - call.ctx.rLen ELSE Len(call.data)

HeadCtx(call) ==
  [call.ctx EXCEPT !.buffer = Copy(call.ctx.buffer, call.ctx.rLen, Take(call.data, HeadTakes(call))),
                   !.rLen = call.ctx.rLen + HeadTakes(call)]

\* An iteration that collects the size field: it waits for more, refuses the
\* size or goes on with the rest of the frame.
LEMMA HeadIteration ==
  ASSUME NEW call \in Call, call.ctx.rLen < 2
  PROVE  /\ HeadTakes(call) \in 0..Len(call.data) /\ HeadCtx(call) \in Ctx
         /\ HeadCtx(call).rLen = call.ctx.rLen + HeadTakes(call)
         /\ HeadCtx(call).rLen <= 2
         /\ HeadCtx(call).payload = call.ctx.payload
         /\ HeadCtx(call).buffer
              = Copy(call.ctx.buffer, call.ctx.rLen, Take(call.data, HeadTakes(call)))
         /\ \/ /\ HeadCtx(call).rLen < 2 /\ HeadTakes(call) = Len(call.data)
               /\ Iteration(call) = Ends(HeadCtx(call), 0)
            \/ /\ HeadCtx(call).rLen = 2 /\ Refusal(SizeIn(HeadCtx(call).buffer)) # 0
               /\ Iteration(call) = Ends(HeadCtx(call), Refusal(SizeIn(HeadCtx(call).buffer)))
            \/ /\ HeadCtx(call).rLen = 2 /\ Refusal(SizeIn(HeadCtx(call).buffer)) = 0
               /\ Iteration(call) =
                    GoesOn([HeadCtx(call) EXCEPT !.payload = Copy(@, 0, HeadCtx(call).buffer)],
                           Drop(call.data, HeadTakes(call)), <<>>)
<1> DEFINE n == HeadTakes(call)
           c == HeadCtx(call)
<1>1. /\ call.ctx.rLen \in Nat /\ call.ctx.buffer \in [1..2 -> Byte] /\ call.data \in Seq(Byte)
      /\ call.ctx.payload \in [1..MaxPayloadSize -> Byte] /\ call.ctx \in Ctx
      /\ Len(call.data) \in Nat
  BY DEF Call, Ctx
<1>2. n \in 0..Len(call.data) /\ call.ctx.rLen + n \in Nat /\ call.ctx.rLen + n <= 2
      /\ (call.ctx.rLen + n < 2 => n = Len(call.data))
  BY <1>1, SMTT(30) DEF HeadTakes
<1>3. Take(call.data, n) \in Seq(Byte)
  BY <1>1, <1>2, BytesCut
<1>4. Copy(call.ctx.buffer, call.ctx.rLen, Take(call.data, n)) \in [1..2 -> Byte]
  BY <1>1, <1>3, CopyType
<1>5. c = [call.ctx EXCEPT !.buffer = Copy(call.ctx.buffer, call.ctx.rLen, Take(call.data, n)),
                           !.rLen = call.ctx.rLen + n]
  BY DEF HeadCtx
<1>6. /\ c \in Ctx /\ c.rLen = call.ctx.rLen + n /\ c.payload = call.ctx.payload
      /\ c.buffer = Copy(call.ctx.buffer, call.ctx.rLen, Take(call.data, n))
  <2> HIDE DEF n, c
  <2> QED BY <1>1, <1>2, <1>4, <1>5 DEF Ctx
<1>7. Iteration(call) = HeadStep(call.ctx, call.data)
  BY <1>1 DEF Iteration
<1>8. HeadStep(call.ctx, call.data) =
        IF c.rLen < 2 THEN Ends(c, 0)
        ELSE IF Refusal(SizeIn(c.buffer)) # 0 THEN Ends(c, Refusal(SizeIn(c.buffer)))
        ELSE GoesOn([c EXCEPT !.payload = Copy(@, 0, c.buffer)], Drop(call.data, n), <<>>)
  BY DEF HeadStep, HeadCtx, HeadTakes
<1> HIDE DEF n, c
<1>9. /\ n \in 0..Len(call.data) /\ c \in Ctx /\ c.rLen = call.ctx.rLen + n /\ c.rLen <= 2
      /\ c.payload = call.ctx.payload
      /\ c.buffer = Copy(call.ctx.buffer, call.ctx.rLen, Take(call.data, n))
      /\ \/ c.rLen < 2 /\ n = Len(call.data) /\ Iteration(call) = Ends(c, 0)
         \/ /\ c.rLen = 2 /\ Refusal(SizeIn(c.buffer)) # 0
            /\ Iteration(call) = Ends(c, Refusal(SizeIn(c.buffer)))
         \/ /\ c.rLen = 2 /\ Refusal(SizeIn(c.buffer)) = 0
            /\ Iteration(call) =
                 GoesOn([c EXCEPT !.payload = Copy(@, 0, c.buffer)], Drop(call.data, n), <<>>)
  BY <1>2, <1>6, <1>7, <1>8
<1> QED BY <1>9 DEF n, c

\* The bytes of the frame that are still to come.
Need(call) == SizeIn(call.ctx.buffer) - call.ctx.rLen

PartPayload(call, n) == Copy(call.ctx.payload, call.ctx.rLen, Take(call.data, n))

\* An iteration that collects the rest of the frame: it refuses the size,
\* overruns, calls back or waits for more.
LEMMA PartIteration ==
  ASSUME NEW call \in Call, call.ctx.rLen >= 2
  PROVE  /\ Need(call) \in Int /\ SizeIn(call.ctx.buffer) \in Nat
         /\ \A n \in 0..Len(call.data) : PartPayload(call, n) \in [1..MaxPayloadSize -> Byte]
         /\ \/ /\ SizeIn(call.ctx.buffer) > MaxPayloadSize
               /\ Iteration(call) = Ends(call.ctx, -4)
            \/ /\ SizeIn(call.ctx.buffer) <= MaxPayloadSize /\ Need(call) < 0
               /\ Iteration(call) = Ends(call.ctx, Overrun)
            \/ /\ SizeIn(call.ctx.buffer) <= MaxPayloadSize
               /\ Need(call) \in 0..Len(call.data)
               /\ Iteration(call) =
                    GoesOn([call.ctx EXCEPT !.rLen = 0, !.payload = PartPayload(call, Need(call))],
                           Drop(call.data, Need(call)), <<FrameOf(PartPayload(call, Need(call)))>>)
            \/ /\ SizeIn(call.ctx.buffer) <= MaxPayloadSize /\ Need(call) > Len(call.data)
               /\ Iteration(call) =
                    Ends([call.ctx EXCEPT !.rLen = call.ctx.rLen + Len(call.data),
                                          !.payload = PartPayload(call, Len(call.data))], 0)
<1>1. /\ call.ctx.rLen \in Nat /\ call.ctx.buffer \in [1..2 -> Byte] /\ call.data \in Seq(Byte)
      /\ call.ctx.payload \in [1..MaxPayloadSize -> Byte] /\ Len(call.data) \in Nat
      /\ MaxPayloadSize \in Nat
  BY Sizes DEF Call, Ctx
<1>2. SizeIn(call.ctx.buffer) \in Nat /\ Need(call) \in Int
  BY <1>1, SizeType DEF Need
<1>3. ASSUME NEW n \in 0..Len(call.data)
      PROVE  PartPayload(call, n) \in [1..MaxPayloadSize -> Byte]
  <2>1. Take(call.data, n) \in Seq(Byte)
    BY <1>1, BytesCut
  <2> QED BY <1>1, <2>1, CopyType DEF PartPayload
<1>4. Iteration(call) = PartStep(call.ctx, call.data)
  BY <1>1 DEF Iteration
<1>5. PartStep(call.ctx, call.data) =
        IF SizeIn(call.ctx.buffer) > MaxPayloadSize THEN Ends(call.ctx, -4)
        ELSE IF Need(call) < 0 THEN Ends(call.ctx, Overrun)
        ELSE IF Len(call.data) >= Need(call)
        THEN GoesOn([call.ctx EXCEPT !.rLen = 0, !.payload = PartPayload(call, Need(call))],
                    Drop(call.data, Need(call)), <<FrameOf(PartPayload(call, Need(call)))>>)
        ELSE Ends([call.ctx EXCEPT !.rLen = @ + Len(call.data),
                                   !.payload = PartPayload(call, Len(call.data))], 0)
  BY DEF PartStep, Need, PartPayload
<1> QED BY <1>1, <1>2, <1>3, <1>4, <1>5
Answers == {-4, -3, -2, -1, 0, Overrun}

\* How far a call is: a byte that waits in the context counts once.
Left(call) == Len(call.data) + (IF call.ctx.rLen = 0 THEN 0 ELSE 1)

\* An iteration ends the call or leaves less of it.
LEMMA IterationType ==
  ASSUME NEW call \in Call
  PROVE  /\ Iteration(call).ctx \in Ctx /\ Iteration(call).rest \in Seq(Byte)
         /\ Iteration(call).done \in BOOLEAN /\ Iteration(call).ret \in Answers
         /\ ~Iteration(call).done => /\ Iteration(call).ret = 0
                                     /\ NextCall(call) \in Call
                                     /\ Iteration(call).rest # <<>>
                                     /\ Left(NextCall(call)) < Left(call)
<1>1. /\ call.ctx.rLen \in Nat /\ call.data \in Seq(Byte) /\ call.ctx \in Ctx
      /\ call.ctx.payload \in [1..MaxPayloadSize -> Byte] /\ Len(call.data) \in Nat
  BY DEF Call, Ctx
<1>2. \A size : Refusal(size) \in Answers
  BY DEF Refusal, Answers
<1>3. \A c \in Ctx, rest \in Seq(Byte) : [ctx |-> c, data |-> rest] \in Call
  BY DEF Call
<1>4. 0 \in Answers /\ -4 \in Answers /\ Overrun \in Answers /\ <<>> \in Seq(Byte)
  BY DEF Answers
<1>5. ASSUME NEW c \in Ctx, NEW ret \in Answers, Iteration(call) = Ends(c, ret)
      PROVE  /\ Iteration(call).ctx \in Ctx /\ Iteration(call).rest \in Seq(Byte)
             /\ Iteration(call).done = TRUE /\ Iteration(call).ret \in Answers
  BY <1>4, <1>5 DEF Ends
<1>6. ASSUME NEW c \in Ctx, NEW n \in 0..Len(call.data), NEW out,
             Iteration(call) = GoesOn(c, Drop(call.data, n), out),
             (Len(call.data) - n) + (IF c.rLen = 0 THEN 0 ELSE 1) < Left(call)
      PROVE  /\ Iteration(call).ctx \in Ctx /\ Iteration(call).rest \in Seq(Byte)
             /\ Iteration(call).done \in BOOLEAN /\ Iteration(call).ret \in Answers
             /\ ~Iteration(call).done => /\ Iteration(call).ret = 0
                                         /\ NextCall(call) \in Call
                                         /\ Iteration(call).rest # <<>>
                                         /\ Left(NextCall(call)) < Left(call)
  <2>1. Drop(call.data, n) \in Seq(Byte) /\ Len(Drop(call.data, n)) = Len(call.data) - n
    BY <1>1, BytesCut
  <2>2. /\ Iteration(call).ctx = c /\ Iteration(call).rest = Drop(call.data, n)
        /\ Iteration(call).done \in BOOLEAN /\ Iteration(call).ret = 0
        /\ ~Iteration(call).done => Drop(call.data, n) # <<>>
    <3>1. PICK rest : rest = Drop(call.data, n)
      OBVIOUS
    <3>2. Iteration(call) = [ctx |-> c, rest |-> rest, out |-> out, ret |-> 0, done |-> Len(rest) = 0]
      BY <1>6, <3>1 DEF GoesOn
    <3>3. Iteration(call).ctx = c /\ Iteration(call).rest = rest /\ Iteration(call).ret = 0
      BY <3>2
    <3>4. Iteration(call).done \in BOOLEAN
      BY <3>2
    <3>5. Iteration(call).done = (Len(rest) = 0)
      BY <3>2
    <3>6. ~Iteration(call).done => rest # <<>>
      <4>1. Len(<<>>) = 0
        OBVIOUS
      <4> QED BY ONLY <4>1, <3>5
    <3> QED BY <3>1, <3>3, <3>4, <3>6
  <2>3. NextCall(call) = [ctx |-> c, data |-> Drop(call.data, n)]
    BY <2>2 DEF NextCall
  <2>4. Left(NextCall(call)) = (Len(call.data) - n) + (IF c.rLen = 0 THEN 0 ELSE 1)
    <3>1. NextCall(call).ctx = c /\ Len(NextCall(call).data) = Len(call.data) - n
      BY <2>1, <2>3
    <3> QED BY <3>1 DEF Left
  <2> QED BY <1>3, <1>4, <1>6, <2>1, <2>2, <2>3, <2>4
<1>7. CASE call.ctx.rLen < 2
  <2>1. HeadTakes(call) \in 0..Len(call.data) /\ HeadCtx(call) \in Ctx
        /\ HeadCtx(call).rLen = call.ctx.rLen + HeadTakes(call)
        /\ HeadCtx(call).buffer \in [1..2 -> Byte]
        /\ HeadCtx(call).payload \in [1..MaxPayloadSize -> Byte]
    BY <1>7, HeadIteration DEF Ctx
  <2> DEFINE c == [HeadCtx(call) EXCEPT !.payload = Copy(@, 0, HeadCtx(call).buffer)]
  <2>2. c \in Ctx /\ c.rLen = HeadCtx(call).rLen
    <3>1. HeadCtx(call).buffer \in Seq(Byte)
      BY <2>1, ASequence
    <3>2. Copy(HeadCtx(call).payload, 0, HeadCtx(call).buffer) \in [1..MaxPayloadSize -> Byte]
      BY <2>1, <3>1, CopyType, Sizes
    <3> QED BY <2>1, <3>2 DEF Ctx
  <2>3. HeadCtx(call).rLen = 2 =>
          (Len(call.data) - HeadTakes(call)) + (IF c.rLen = 0 THEN 0 ELSE 1) < Left(call)
    <3>1. PICK t : t = HeadTakes(call)
      OBVIOUS
    <3>2. PICK l : l = Len(call.data)
      OBVIOUS
    <3>3. PICK r : r = call.ctx.rLen
      OBVIOUS
    <3>4. /\ t \in Nat /\ l \in Nat /\ r \in Nat /\ t <= l /\ r < 2
          /\ HeadCtx(call).rLen = r + t /\ c.rLen = r + t
          /\ Left(call) = l + (IF r = 0 THEN 0 ELSE 1)
      BY <1>1, <1>7, <2>1, <2>2, <3>1, <3>2, <3>3 DEF Left
    <3>5. r + t = 2 => (l - t) + 1 < l + (IF r = 0 THEN 0 ELSE 1)
      BY <3>4
    <3> HIDE DEF c
    <3> SUFFICES ASSUME HeadCtx(call).rLen = 2
                 PROVE  (Len(call.data) - HeadTakes(call)) + (IF c.rLen = 0 THEN 0 ELSE 1) < Left(call)
      OBVIOUS
    <3>6. r + t = 2 /\ c.rLen # 0
      BY <3>4
    <3>7. (l - t) + 1 < Left(call)
      BY <3>4, <3>5, <3>6
    <3> QED BY <3>1, <3>2, <3>6, <3>7
  <2> HIDE DEF c
  <2>4. \/ Iteration(call) = Ends(HeadCtx(call), 0)
        \/ Iteration(call) = Ends(HeadCtx(call), Refusal(SizeIn(HeadCtx(call).buffer)))
        \/ /\ HeadCtx(call).rLen = 2
           /\ Iteration(call) = GoesOn(c, Drop(call.data, HeadTakes(call)), <<>>)
    BY <1>7, HeadIteration DEF c
  <2> QED BY <1>2, <1>4, <1>5, <1>6, <2>1, <2>2, <2>3, <2>4
<1>8. CASE call.ctx.rLen >= 2
  <2>1. \A n \in 0..Len(call.data) : PartPayload(call, n) \in [1..MaxPayloadSize -> Byte]
    BY <1>8, PartIteration
  <2> DEFINE c == [call.ctx EXCEPT !.rLen = 0, !.payload = PartPayload(call, Need(call))]
             d == [call.ctx EXCEPT !.rLen = call.ctx.rLen + Len(call.data),
                                   !.payload = PartPayload(call, Len(call.data))]
  <2>2. Need(call) \in 0..Len(call.data) =>
          /\ c \in Ctx
          /\ (Len(call.data) - Need(call)) + (IF c.rLen = 0 THEN 0 ELSE 1) < Left(call)
    <3> SUFFICES ASSUME Need(call) \in 0..Len(call.data)
                 PROVE  /\ c \in Ctx
                        /\ (Len(call.data) - Need(call)) + (IF c.rLen = 0 THEN 0 ELSE 1) < Left(call)
      OBVIOUS
    <3>1. PartPayload(call, Need(call)) \in [1..MaxPayloadSize -> Byte]
      BY <2>1
    <3>2. c \in Ctx /\ c.rLen = 0
      BY <1>1, <3>1 DEF Ctx
    <3>3. Left(call) = Len(call.data) + 1
      <4>1. call.ctx.rLen # 0
        BY <1>1, <1>8
      <4> QED BY <4>1 DEF Left
    <3> HIDE DEF c
    <3> QED BY <1>1, <3>2, <3>3
  <2>3. d \in Ctx
    <3>1. Len(call.data) \in 0..Len(call.data) /\ call.ctx.rLen + Len(call.data) \in Nat
      BY <1>1
    <3>2. PartPayload(call, Len(call.data)) \in [1..MaxPayloadSize -> Byte]
      BY <2>1, <3>1
    <3> QED BY <1>1, <3>1, <3>2 DEF Ctx
  <2> HIDE DEF c, d
  <2>4. \/ Iteration(call) = Ends(call.ctx, -4)
        \/ Iteration(call) = Ends(call.ctx, Overrun)
        \/ /\ Need(call) \in 0..Len(call.data)
           /\ Iteration(call) = GoesOn(c, Drop(call.data, Need(call)),
                                       <<FrameOf(PartPayload(call, Need(call)))>>)
        \/ Iteration(call) = Ends(d, 0)
    BY <1>8, PartIteration DEF c, d
  <2> QED BY <1>1, <1>4, <1>5, <1>6, <2>2, <2>3, <2>4
<1> QED BY <1>1, <1>7, <1>8

-----------------------------------------------------------------------------
(***************************************************************************)
(* The loop, a function of the context and the data that is given by       *)
(* itself with less of them left.                                          *)
(***************************************************************************)
\* The answer of a call whose iteration is followed by others that F answers.
Answer(F, call) ==
  IF Iteration(call).done
  THEN [ctx |-> Iteration(call).ctx, out |-> Iteration(call).out, ret |-> Iteration(call).ret]
  ELSE [F[NextCall(call)] EXCEPT !.out = Iteration(call).out \o @]

Answering(F, S) == F = [call \in S |-> Answer(F, call)]

Short(m) == {call \in Call : Left(call) < m}

\* What is left of a call is counted by a natural number.
LEMMA LeftType == ASSUME NEW call \in Call PROVE Left(call) \in Nat
  BY DEF Left, Call

\* An answer depends on those of shorter calls.
LEMMA AnswerOfShorter ==
  ASSUME NEW call \in Call, NEW F, NEW G,
         ~Iteration(call).done => F[NextCall(call)] = G[NextCall(call)]
  PROVE  Answer(F, call) = Answer(G, call)
  BY IterationType DEF Answer

\* Two that answer agree on the calls that both answer.
LEMMA AnswersAgree ==
  ASSUME NEW m \in Nat, NEW n \in Nat, m <= n, NEW F, NEW G,
         Answering(F, Short(m)), Answering(G, Short(n))
  PROVE  \A call \in Short(m) : F[call] = G[call]
<1> DEFINE Off == {k \in Nat : \E call \in Short(m) : Left(call) = k /\ F[call] # G[call]}
<1>1. SUFFICES ASSUME Off # {} PROVE FALSE
  <2> SUFFICES ASSUME NEW call \in Short(m), F[call] # G[call] PROVE Off # {}
    OBVIOUS
  <2>1. Left(call) \in Nat
    BY LeftType DEF Short
  <2> QED BY <2>1
<1>2. \E k \in Off : \A j \in Off : k <= j
  <2>1. Off \in SUBSET Nat
    OBVIOUS
  <2> HIDE DEF Off
  <2> QED BY <1>1, <2>1, LeastOfNaturals
<1>3. PICK k \in Off : \A j \in Off : k <= j
  BY <1>2
<1>4. PICK call \in Short(m) : Left(call) = k /\ F[call] # G[call]
  BY <1>3
<1>5. call \in Call /\ Left(call) < m /\ Left(call) \in Nat /\ call \in Short(n)
  BY <1>4, LeftType DEF Short
<1>6. ASSUME ~Iteration(call).done PROVE F[NextCall(call)] = G[NextCall(call)]
  <2>1. NextCall(call) \in Call /\ Left(NextCall(call)) < k
    BY <1>4, <1>5, <1>6, IterationType
  <2>2. Left(NextCall(call)) \in Nat
    BY <2>1, LeftType
  <2>3. NextCall(call) \in Short(m)
    BY <1>4, <1>5, <2>1, <2>2 DEF Short
  <2>4. Left(NextCall(call)) \notin Off
    BY <1>3, <2>1, <2>2
  <2> QED BY <2>2, <2>3, <2>4
<1>7. Answer(F, call) = Answer(G, call)
  BY <1>5, <1>6, AnswerOfShorter
<1>8. F[call] = Answer(F, call) /\ G[call] = Answer(G, call)
  BY <1>4, <1>5 DEF Answering
<1> QED BY <1>4, <1>7, <1>8

\* There are answers to the calls of any length: were there a least length for
\* which there are not, the answers to the shorter ones could be extended.
LEMMA ShortAnswers ==
  ASSUME NEW n \in Nat
  PROVE  \E F : Answering(F, Short(n))
<1> DEFINE Stuck == {m \in Nat : ~ \E F : Answering(F, Short(m))}
<1>1. SUFFICES ASSUME Stuck # {} PROVE FALSE
  OBVIOUS
<1>2. \E m \in Stuck : \A j \in Stuck : m <= j
  <2>1. Stuck \in SUBSET Nat
    OBVIOUS
  <2> HIDE DEF Stuck
  <2> QED BY <1>1, <2>1, LeastOfNaturals
<1>3. PICK m \in Stuck : \A j \in Stuck : m <= j
  BY <1>2
<1>4. m \in Nat /\ \A F : ~Answering(F, Short(m))
  OBVIOUS
<1>5. CASE m = 0
  <2>1. Short(0) = {}
    BY LeftType DEF Short
  <2>2. Answering([call \in {} |-> 0], {})
    BY DEF Answering
  <2> QED BY <1>4, <1>5, <2>1, <2>2
<1>6. CASE m # 0
  <2>1. m - 1 \in Nat /\ ~(m <= m - 1)
    BY <1>4, <1>6
  <2>2. m - 1 \notin Stuck
    BY <1>3, <2>1
  <2>3. PICK F : Answering(F, Short(m - 1))
    BY <2>1, <2>2
  <2>4. PICK G : G = [call \in Short(m) |-> Answer(F, call)]
    OBVIOUS
  <2>5. ASSUME NEW call \in Short(m) PROVE Answer(F, call) = Answer(G, call)
    <3>1. call \in Call /\ Left(call) < m /\ Left(call) \in Nat
      BY LeftType DEF Short
    <3>2. ASSUME ~Iteration(call).done PROVE F[NextCall(call)] = G[NextCall(call)]
      <4>1. NextCall(call) \in Call /\ Left(NextCall(call)) < Left(call)
        BY <3>1, <3>2, IterationType
      <4>2. Left(NextCall(call)) \in Nat
        BY <4>1, LeftType
      <4>3. NextCall(call) \in Short(m - 1) /\ NextCall(call) \in Short(m)
        BY <1>4, <3>1, <4>1, <4>2 DEF Short
      <4>4. F[NextCall(call)] = Answer(F, NextCall(call))
        BY <2>3, <4>3 DEF Answering
      <4> QED BY <2>4, <4>3, <4>4
    <3> QED BY <3>1, <3>2, AnswerOfShorter
  <2>6. Answering(G, Short(m))
    BY <2>4, <2>5 DEF Answering
  <2> QED BY <1>4, <2>6
<1> QED BY <1>5, <1>6

\* And to all calls.
LEMMA AllAnswers == \E F : Answering(F, Call)
<1> DEFINE Of(n) == CHOOSE F : Answering(F, Short(n))
           G == [call \in Call |-> Of(Left(call) + 1)[call]]
<1>1. ASSUME NEW n \in Nat PROVE Answering(Of(n), Short(n))
  BY ShortAnswers
<1> HIDE DEF Of
<1>2. ASSUME NEW call \in Call PROVE G[call] = Answer(G, call)
  <2>1. Left(call) \in Nat /\ Left(call) + 1 \in Nat /\ call \in Short(Left(call) + 1)
    BY LeftType DEF Short
  <2>2. G[call] = Answer(Of(Left(call) + 1), call)
    BY <1>1, <2>1 DEF Answering
  <2>3. ASSUME ~Iteration(call).done
        PROVE  Of(Left(call) + 1)[NextCall(call)] = G[NextCall(call)]
    <3>1. NextCall(call) \in Call /\ Left(NextCall(call)) < Left(call)
      BY <2>3, IterationType
    <3>2. PICK k \in Nat : k = Left(NextCall(call)) + 1
      BY <3>1, LeftType
    <3>3. PICK n \in Nat : n = Left(call) + 1
      BY <2>1
    <3>4. Left(NextCall(call)) \in Nat
      BY <3>1, LeftType
    <3>5. k <= n /\ NextCall(call) \in Short(k)
      BY <2>1, <3>1, <3>2, <3>3, <3>4 DEF Short
    <3>6. Answering(Of(k), Short(k)) /\ Answering(Of(n), Short(n))
      BY <1>1
    <3>7. Of(k)[NextCall(call)] = Of(n)[NextCall(call)]
      BY <3>5, <3>6, AnswersAgree
    <3> QED BY <3>1, <3>2, <3>3, <3>7
  <2>4. Answer(Of(Left(call) + 1), call) = Answer(G, call)
    <3> HIDE DEF G
    <3> QED BY <2>3, AnswerOfShorter
  <2> QED BY <2>2, <2>4
<1>3. Answering(G, Call)
  <2>1. G = [call \in Call |-> G[call]]
    OBVIOUS
  <2>2. G = [call \in Call |-> Answer(G, call)]
    <3> HIDE DEF G
    <3> QED BY <1>2, <2>1
  <2> HIDE DEF G
  <2> QED BY <2>2 DEF Answering
<1> QED BY <1>3

\* A loop is what its iteration makes of the data, then the loop again.
LEMMA LoopAnswers ==
  \E F : /\ F = [call \in Call |-> Answer(F, call)]
         /\ \A call \in Call : Loop(call.ctx, call.data) = F[call]
<1>1. PICK F : F = CHOOSE G : G = [call \in Call |-> Answer(G, call)]
  OBVIOUS
<1>2. F = [call \in Call |-> Answer(F, call)]
  BY <1>1, AllAnswers DEF Answering
<1>3. ASSUME NEW call \in Call PROVE Loop(call.ctx, call.data) = F[call]
  <2>1. [ctx |-> call.ctx, data |-> call.data] = call
    BY DEF Call
  <2>2. Loop(call.ctx, call.data) = F[[ctx |-> call.ctx, data |-> call.data]]
    BY <1>1 DEF Loop, Answer, Iteration, NextCall
  <2> QED BY <2>1, <2>2
<1> QED BY <1>2, <1>3

\* It does not matter in which order three sequences are joined.
LEMMA JoinedThrice ==
  ASSUME NEW S, NEW a \in Seq(S), NEW b \in Seq(S), NEW c \in Seq(S)
  PROVE  a \o (b \o c) = (a \o b) \o c /\ b \o c \in Seq(S)
<1>1. (a \o b) \o c = a \o (b \o c)
  BY ConcatAssociative, SMTT(30)
<1>2. b \o c \in Seq(S)
  BY ConcatProperties
<1> QED BY <1>1, <1>2

\* What the iterations keep of a call and of the frames called back for so far
\* holds where the loop ends.
LEMMA LoopEnds ==
  ASSUME NEW S, NEW R \in SUBSET [call : Call, out : Seq(S)],
         \A r \in R :
           /\ Iteration(r.call).out \in Seq(S)
           /\ ~Iteration(r.call).done =>
                [call |-> NextCall(r.call), out |-> r.out \o Iteration(r.call).out] \in R
  PROVE  \A r \in R :
           LET after == Loop(r.call.ctx, r.call.data)
           IN /\ after.out \in Seq(S)
              /\ \E last \in R :
                   /\ Iteration(last.call).done
                   /\ after.ctx = Iteration(last.call).ctx
                   /\ after.ret = Iteration(last.call).ret
                   /\ r.out \o after.out = last.out \o Iteration(last.call).out
<1>1. PICK F : /\ F = [call \in Call |-> Answer(F, call)]
               /\ \A call \in Call : Loop(call.ctx, call.data) = F[call]
  BY LoopAnswers
<1> DEFINE Ends0(r) ==
             /\ F[r.call].out \in Seq(S)
             /\ F[r.call] = [ctx |-> F[r.call].ctx, out |-> F[r.call].out, ret |-> F[r.call].ret]
             /\ \E last \in R :
                  /\ Iteration(last.call).done
                  /\ F[r.call].ctx = Iteration(last.call).ctx
                  /\ F[r.call].ret = Iteration(last.call).ret
                  /\ r.out \o F[r.call].out = last.out \o Iteration(last.call).out
           Off == {k \in Nat : \E r \in R : Left(r.call) = k /\ ~Ends0(r)}
<1>2. ASSUME NEW r \in R PROVE r.call \in Call /\ r.out \in Seq(S) /\ Left(r.call) \in Nat
  BY LeftType
<1>3. Off = {}
  <2>0. SUFFICES ASSUME Off # {} PROVE FALSE
    <3> HIDE DEF Off
    <3> QED OBVIOUS
  <2>1. \E k \in Off : \A j \in Off : k <= j
    <3>1. Off \in SUBSET Nat
      OBVIOUS
    <3> HIDE DEF Off
    <3> QED BY <2>0, <3>1, LeastOfNaturals
  <2>2. PICK k \in Off : \A j \in Off : k <= j
    BY <2>1
  <2>3. PICK r \in R : Left(r.call) = k /\ ~Ends0(r)
    BY <2>2
  <2> DEFINE it == Iteration(r.call)
             q == [call |-> NextCall(r.call), out |-> r.out \o it.out]
  <2>4. r.call \in Call /\ r.out \in Seq(S) /\ it.out \in Seq(S)
    BY <1>2
  <2>5. F[r.call] = Answer(F, r.call)
    BY <1>1, <2>4
  <2>6. CASE it.done
    <3>1. F[r.call] = [ctx |-> it.ctx, out |-> it.out, ret |-> it.ret]
      BY <2>5, <2>6 DEF Answer
    <3>2. F[r.call].ctx = it.ctx /\ F[r.call].out = it.out /\ F[r.call].ret = it.ret
      <4> HIDE DEF it
      <4> QED BY <3>1
    <3>3. Ends0(r)
      <4> HIDE DEF it
      <4>1. F[r.call] = [ctx |-> F[r.call].ctx, out |-> F[r.call].out, ret |-> F[r.call].ret]
        BY <3>1, <3>2
      <4> QED BY <2>4, <2>6, <3>2, <4>1 DEF it
    <3> QED BY <2>3, <3>3
  <2>7. CASE ~it.done
    <3>1. q \in R /\ q.call = NextCall(r.call) /\ q.out = r.out \o it.out
      BY <2>7
    <3>2. NextCall(r.call) \in Call /\ Left(NextCall(r.call)) < k
      BY <2>3, <2>4, <2>7, IterationType
    <3>3. Left(NextCall(r.call)) \in Nat
      BY <3>2, LeftType
    <3>4. k \in Nat /\ Left(NextCall(r.call)) \notin Off
      <4>1. k \in Nat
        BY <2>2
      <4>2. ~(k <= Left(NextCall(r.call)))
        BY <3>2, <3>3, <4>1
      <4> HIDE DEF Off
      <4> QED BY <2>2, <4>1, <4>2 DEF Off
    <3>5. Ends0(q)
      <4> HIDE DEF Ends0, q
      <4> QED BY <3>1, <3>3, <3>4
    <3> DEFINE a == F[NextCall(r.call)]
    <3>6. F[r.call] = [a EXCEPT !.out = it.out \o @]
      BY <2>5, <2>7 DEF Answer
    <3>7. a = [ctx |-> a.ctx, out |-> a.out, ret |-> a.ret] /\ a.out \in Seq(S)
      BY <3>1, <3>5
    <3>8. F[r.call] = [ctx |-> a.ctx, out |-> it.out \o a.out, ret |-> a.ret]
      <4> HIDE DEF a, it
      <4> QED BY <3>6, <3>7
    <3>9. r.out \o F[r.call].out = q.out \o a.out /\ F[r.call].out \in Seq(S)
      <4> HIDE DEF a, it, q
      <4>1. F[r.call].out = it.out \o a.out
        <5>1. PICK x : x = it.out \o a.out
          OBVIOUS
        <5>2. PICK y : y = F[r.call]
          OBVIOUS
        <5>3. y = [ctx |-> a.ctx, out |-> x, ret |-> a.ret]
          BY <3>8, <5>1, <5>2
        <5>4. y.out = x
          BY <5>3
        <5> QED BY <5>1, <5>2, <5>4
      <4>2. /\ r.out \o (it.out \o a.out) = (r.out \o it.out) \o a.out
            /\ it.out \o a.out \in Seq(S)
        BY <2>4, <3>7, JoinedThrice
      <4> QED BY <3>1, <4>1, <4>2
    <3>10. PICK last \in R :
             /\ Iteration(last.call).done
             /\ a.ctx = Iteration(last.call).ctx /\ a.ret = Iteration(last.call).ret
             /\ q.out \o a.out = last.out \o Iteration(last.call).out
      BY <3>1, <3>5
    <3>11. Ends0(r)
      <4> HIDE DEF a, it, q
      <4>1. F[r.call].ctx = a.ctx /\ F[r.call].ret = a.ret
        BY <3>8
      <4> QED BY <3>8, <3>9, <3>10, <4>1
    <3> QED BY <2>3, <3>11
  <2> QED BY <2>6, <2>7
<1>4. ASSUME NEW r \in R PROVE Ends0(r) /\ Loop(r.call.ctx, r.call.data) = F[r.call]
  <2>1. Ends0(r)
    <3> HIDE DEF Ends0
    <3> QED BY <1>2, <1>3
  <2> HIDE DEF Ends0
  <2> QED BY <1>1, <1>2, <2>1
<1> QED
  <2> HIDE DEF Off
  <2> SUFFICES ASSUME NEW r \in R
               PROVE  LET after == Loop(r.call.ctx, r.call.data)
                      IN /\ after.out \in Seq(S)
                         /\ \E last \in R :
                              /\ Iteration(last.call).done
                              /\ after.ctx = Iteration(last.call).ctx
                              /\ after.ret = Iteration(last.call).ret
                              /\ r.out \o after.out = last.out \o Iteration(last.call).out
    OBVIOUS
  <2>1. Ends0(r) /\ Loop(r.call.ctx, r.call.data) = F[r.call]
    <3> HIDE DEF Ends0
    <3> QED BY <1>4
  <2> QED BY ONLY <2>1

-----------------------------------------------------------------------------
(***************************************************************************)
(* What an earlier link leaves in a context.                               *)
(***************************************************************************)
Fits(c) ==
  /\ c \in Ctx /\ c.rLen < MaxPayloadSize
  /\ c.rLen > 2 => c.rLen < SizeIn(c.buffer) /\ SizeIn(c.buffer) <= MaxPayloadSize

\* The size field of a frame that is too long.
Stuck(c) == c.rLen = 2 /\ SizeIn(c.buffer) > MaxPayloadSize

\* What the callback may be called for: some part of the memory of a context.
Parts == {FrameOf(p) : p \in [1..MaxPayloadSize -> Byte]}

\* An iteration that is not refused leaves a context that is not stuck.
LEMMA IterationFits ==
  ASSUME NEW call \in Call, Fits(call.ctx)
  PROVE  /\ Fits(Iteration(call).ctx) /\ Iteration(call).out \in Seq(Parts)
         /\ Iteration(call).ret = 0 => ~Stuck(Iteration(call).ctx)
<1>1. /\ call.ctx \in Ctx /\ call.ctx.rLen \in Nat /\ Len(call.data) \in Nat
      /\ call.data \in Seq(Byte) /\ call.ctx.buffer \in [1..2 -> Byte]
      /\ call.ctx.payload \in [1..MaxPayloadSize -> Byte]
      /\ MaxPayloadSize \in Nat /\ 2 < MaxPayloadSize
  BY Sizes DEF Call, Ctx
<1>2. <<>> \in Seq(Parts)
  OBVIOUS
<1>3. CASE call.ctx.rLen < 2
  <2>1. PICK c \in Ctx : c = HeadCtx(call)
    BY <1>3, HeadIteration
  <2>2. /\ c.rLen <= 2 /\ c.rLen \in Nat /\ c.buffer \in [1..2 -> Byte]
        /\ c.payload \in [1..MaxPayloadSize -> Byte] /\ SizeIn(c.buffer) \in Nat
    BY <1>3, <2>1, HeadIteration, SizeType DEF Ctx
  <2>3. PICK d : d = [c EXCEPT !.payload = Copy(@, 0, c.buffer)]
    OBVIOUS
  <2>4. d \in Ctx /\ d.rLen = c.rLen /\ d.buffer = c.buffer
    <3>1. c.buffer \in Seq(Byte)
      BY <2>2, ASequence
    <3>2. Copy(c.payload, 0, c.buffer) \in [1..MaxPayloadSize -> Byte]
      BY <1>1, <2>2, <3>1, CopyType
    <3> QED BY <2>1, <2>3, <3>2 DEF Ctx
  <2>5. Fits(c) /\ Fits(d)
    BY <1>1, <2>1, <2>2, <2>4 DEF Fits
  <2>6. Refusal(SizeIn(c.buffer)) = 0 => ~Stuck(c) /\ ~Stuck(d)
    BY <1>1, <2>2, <2>4 DEF Refusal, Stuck
  <2>7. \/ c.rLen < 2 /\ Iteration(call) = Ends(c, 0)
        \/ /\ Refusal(SizeIn(c.buffer)) # 0
           /\ Iteration(call) = Ends(c, Refusal(SizeIn(c.buffer)))
        \/ /\ Refusal(SizeIn(c.buffer)) = 0
           /\ Iteration(call) = GoesOn(d, Drop(call.data, HeadTakes(call)), <<>>)
    BY <1>3, <2>1, <2>3, HeadIteration
  <2>8. \A ret : Ends(c, ret).ctx = c /\ Ends(c, ret).ret = ret /\ Ends(c, ret).out = <<>>
    BY DEF Ends
  <2>9. \A rest : GoesOn(d, rest, <<>>).ctx = d /\ GoesOn(d, rest, <<>>).out = <<>>
    BY DEF GoesOn
  <2>10. c.rLen < 2 => ~Stuck(c)
    BY <2>2 DEF Stuck
  <2> QED BY <1>2, <2>5, <2>6, <2>7, <2>8, <2>9, <2>10
<1>4. CASE call.ctx.rLen >= 2
  <2>1. SizeIn(call.ctx.buffer) \in Nat /\ Need(call) \in Int
    BY <1>4, PartIteration
  <2> DEFINE c == [call.ctx EXCEPT !.rLen = 0, !.payload = PartPayload(call, Need(call))]
             d == [call.ctx EXCEPT !.rLen = call.ctx.rLen + Len(call.data),
                                   !.payload = PartPayload(call, Len(call.data))]
             out == <<FrameOf(PartPayload(call, Need(call)))>>
  <2>2. \A n \in 0..Len(call.data) : PartPayload(call, n) \in [1..MaxPayloadSize -> Byte]
    BY <1>4, PartIteration
  <2>3. Need(call) \in 0..Len(call.data) => Fits(c) /\ ~Stuck(c) /\ out \in Seq(Parts)
    <3> SUFFICES ASSUME Need(call) \in 0..Len(call.data)
                 PROVE  Fits(c) /\ ~Stuck(c) /\ out \in Seq(Parts)
      OBVIOUS
    <3>1. PartPayload(call, Need(call)) \in [1..MaxPayloadSize -> Byte]
      BY <2>2
    <3>2. c \in Ctx /\ c.rLen = 0
      BY <1>1, <3>1 DEF Ctx
    <3>3. FrameOf(PartPayload(call, Need(call))) \in Parts
      BY <3>1 DEF Parts
    <3>4. out \in Seq(Parts)
      BY <3>3
    <3>5. Fits(c) /\ ~Stuck(c)
      <4> HIDE DEF c
      <4> QED BY <1>1, <3>2 DEF Fits, Stuck
    <3> QED BY <3>4, <3>5
  <2>4. SizeIn(call.ctx.buffer) <= MaxPayloadSize /\ Need(call) > Len(call.data) =>
          Fits(d) /\ ~Stuck(d)
    <3> SUFFICES ASSUME SizeIn(call.ctx.buffer) <= MaxPayloadSize, Need(call) > Len(call.data)
                 PROVE  Fits(d) /\ ~Stuck(d)
      OBVIOUS
    <3>1. Len(call.data) \in 0..Len(call.data) /\ call.ctx.rLen + Len(call.data) \in Nat
      BY <1>1
    <3>2. PartPayload(call, Len(call.data)) \in [1..MaxPayloadSize -> Byte]
      BY <2>2, <3>1
    <3>3. d \in Ctx /\ d.rLen = call.ctx.rLen + Len(call.data) /\ d.buffer = call.ctx.buffer
      BY <1>1, <3>1, <3>2 DEF Ctx
    <3>4. call.ctx.rLen + Len(call.data) < SizeIn(call.ctx.buffer)
      BY <1>1, <2>1 DEF Need
    <3> HIDE DEF d
    <3> QED BY <1>1, <2>1, <3>1, <3>3, <3>4 DEF Fits, Stuck
  <2> HIDE DEF c, d, out
  <2>5. \/ Iteration(call) = Ends(call.ctx, -4)
        \/ Iteration(call) = Ends(call.ctx, Overrun)
        \/ /\ Need(call) \in 0..Len(call.data)
           /\ Iteration(call) = GoesOn(c, Drop(call.data, Need(call)), out)
        \/ /\ SizeIn(call.ctx.buffer) <= MaxPayloadSize /\ Need(call) > Len(call.data)
           /\ Iteration(call) = Ends(d, 0)
    BY <1>4, PartIteration DEF c, d, out
  <2>6. /\ Ends(call.ctx, -4).ctx = call.ctx /\ Ends(call.ctx, -4).ret = -4
        /\ Ends(call.ctx, -4).out = <<>>
        /\ Ends(call.ctx, Overrun).ctx = call.ctx /\ Ends(call.ctx, Overrun).ret = Overrun
        /\ Ends(call.ctx, Overrun).out = <<>>
        /\ Ends(d, 0).ctx = d /\ Ends(d, 0).out = <<>>
    BY DEF Ends
  <2>7. \A rest : GoesOn(c, rest, out).ctx = c /\ GoesOn(c, rest, out).out = out
    BY DEF GoesOn
  <2>8. Overrun # 0 /\ -4 # 0
    BY DEF Overrun
  <2>9. CASE Iteration(call) = Ends(call.ctx, -4) \/ Iteration(call) = Ends(call.ctx, Overrun)
    <3>1. Iteration(call).ctx = call.ctx /\ Iteration(call).out = <<>> /\ Iteration(call).ret # 0
      BY <2>6, <2>8, <2>9
    <3> QED BY <1>2, <3>1
  <2>10. CASE /\ Need(call) \in 0..Len(call.data)
              /\ Iteration(call) = GoesOn(c, Drop(call.data, Need(call)), out)
    BY <2>3, <2>7, <2>10
  <2>11. CASE /\ SizeIn(call.ctx.buffer) <= MaxPayloadSize /\ Need(call) > Len(call.data)
              /\ Iteration(call) = Ends(d, 0)
    <3>1. Iteration(call).ctx = d /\ Iteration(call).out = <<>> /\ Fits(d) /\ ~Stuck(d)
      BY <2>4, <2>6, <2>11
    <3> QED BY <1>2, <3>1
  <2> QED BY <2>5, <2>9, <2>10, <2>11
<1> QED BY <1>1, <1>3, <1>4

\* Nor does a call, whatever it is given.
LEMMA HandleFits ==
  ASSUME NEW c, Fits(c), NEW data \in Seq(Byte)
  PROVE  /\ Fits(Handle(c, data).ctx)
         /\ Handle(c, data).ret = 0 => ~Stuck(Handle(c, data).ctx)
<1>1. /\ c \in Ctx /\ c.rLen \in Nat /\ c.buffer \in [1..2 -> Byte]
      /\ c.payload \in [1..MaxPayloadSize -> Byte] /\ MaxPayloadSize \in Nat
  BY Sizes DEF Fits, Ctx
<1>2. CASE ~WholeFrame(c, data)
  <2> DEFINE R == [call : {call \in Call : Fits(call.ctx)}, out : Seq(Parts)]
             r == [call |-> [ctx |-> c, data |-> data], out |-> <<>>]
  <2>1. r \in R /\ r.call.ctx = c /\ r.call.data = data
    <3>1. [ctx |-> c, data |-> data] \in Call
      BY <1>1 DEF Call
    <3>2. <<>> \in Seq(Parts)
      OBVIOUS
    <3> QED BY <3>1, <3>2
  <2>2. R \in SUBSET [call : Call, out : Seq(Parts)]
    OBVIOUS
  <2>3. ASSUME NEW q \in R
        PROVE  /\ Iteration(q.call).out \in Seq(Parts)
               /\ ~Iteration(q.call).done =>
                    [call |-> NextCall(q.call), out |-> q.out \o Iteration(q.call).out] \in R
    <3>1. q.call \in Call /\ Fits(q.call.ctx) /\ q.out \in Seq(Parts)
      OBVIOUS
    <3>2. Iteration(q.call).out \in Seq(Parts) /\ Fits(Iteration(q.call).ctx)
      BY <3>1, IterationFits
    <3>3. q.out \o Iteration(q.call).out \in Seq(Parts)
      BY <3>1, <3>2, ConcatProperties
    <3>4. ~Iteration(q.call).done => NextCall(q.call) \in Call /\ Fits(NextCall(q.call).ctx)
      BY <3>1, <3>2, IterationType DEF NextCall
    <3> QED BY <3>2, <3>3, <3>4
  <2> HIDE DEF R, r
  <2>4. PICK last \in R :
          /\ Loop(c, data).ctx = Iteration(last.call).ctx
          /\ Loop(c, data).ret = Iteration(last.call).ret
    <3>1. \A q \in R :
            /\ Iteration(q.call).out \in Seq(Parts)
            /\ ~Iteration(q.call).done =>
                 [call |-> NextCall(q.call), out |-> q.out \o Iteration(q.call).out] \in R
      BY <2>3
    <3>2. \A q \in R : \E last \in R :
            /\ Loop(q.call.ctx, q.call.data).ctx = Iteration(last.call).ctx
            /\ Loop(q.call.ctx, q.call.data).ret = Iteration(last.call).ret
      <4>1. \A q \in R :
              LET after == Loop(q.call.ctx, q.call.data)
              IN /\ after.out \in Seq(Parts)
                 /\ \E last \in R :
                      /\ Iteration(last.call).done
                      /\ after.ctx = Iteration(last.call).ctx
                      /\ after.ret = Iteration(last.call).ret
                      /\ q.out \o after.out = last.out \o Iteration(last.call).out
        BY <2>2, <3>1, LoopEnds
      <4> QED BY <4>1
    <3> QED BY <2>1, <3>2
  <2>5. last.call \in Call /\ Fits(last.call.ctx)
    BY DEF R
  <2>6. Handle(c, data) = Loop(c, data)
    BY <1>2 DEF Handle
  <2> QED BY <2>4, <2>5, <2>6, IterationFits
<1>3. CASE WholeFrame(c, data) /\ Refusal(SizeIn(data)) # 0
  <2>1. Handle(c, data) = [ctx |-> c, out |-> <<>>, ret |-> Refusal(SizeIn(data))]
    BY <1>3 DEF Handle
  <2> QED BY <1>3, <2>1
<1>4. CASE WholeFrame(c, data) /\ Refusal(SizeIn(data)) = 0
  <2>1. PICK d : d = [c EXCEPT !.payload = Copy(@, 0, data)]
    OBVIOUS
  <2>2. Handle(c, data) = [ctx |-> d, out |-> <<data>>, ret |-> 0]
    BY <1>4, <2>1 DEF Handle
  <2>3. Copy(c.payload, 0, data) \in [1..MaxPayloadSize -> Byte]
    BY <1>1, CopyType
  <2>4. d \in Ctx /\ d.rLen = 0
    BY <1>1, <1>4, <2>1, <2>3 DEF Ctx, WholeFrame
  <2>5. Fits(d) /\ ~Stuck(d)
    BY <2>4, Sizes DEF Fits, Stuck
  <2> QED BY <2>2, <2>5
<1> QED BY <1>2, <1>3, <1>4

-----------------------------------------------------------------------------
(***************************************************************************)
(* The context of a link.                                                  *)
(***************************************************************************)
\* A frame is bytes and its first two count it.
LEMMA GoodFrame ==
  ASSUME NEW f \in Frame
  PROVE  /\ f \in Seq(Byte) /\ Len(f) = SizeIn(f) /\ Len(f) \in Nat
         /\ HeadSize <= Len(f) /\ Len(f) < Base * Base
<1>1. PICK p \in Payloads["tcp"] \cup Payloads["udp"] : f = Encode(p.head, p.data)
  BY DEF Frame
<1>2. /\ p.head \in Seq(Byte) /\ Len(p.head) = HeadSize - 2 /\ p.data \in Seq(Byte)
      /\ HeadSize + Len(p.data) < Base * Base /\ Len(p.data) \in Nat
  BY StreamAssumption
<1>3. HeadSize \in Nat /\ 2 < HeadSize /\ Base \in Nat
  BY Sizes
<1>4. PICK n : n = HeadSize + Len(p.data)
  OBVIOUS
<1>5. n \in Nat /\ n < Base * Base /\ HeadSize <= n
  BY <1>2, <1>3, <1>4
<1>6. PICK m : m = Base * Base
  OBVIOUS
<1>7. n % m = n
  <2>1. m \in Nat /\ n < m
    BY <1>3, <1>5, <1>6
  <2> QED BY <1>5, <2>1
<1>8. PICK s : s = SizeField(n)
  OBVIOUS
<1>9. s = <<n \div Base, n % Base>>
  BY <1>8 DEF SizeField
<1>10. s \in Seq(Byte) /\ Len(s) = 2 /\ SizeIn(s) = n
  <2>1. PICK q : q = n \div Base
    OBVIOUS
  <2>2. PICK t : t = n % Base
    OBVIOUS
  <2>3. q \in Byte /\ t \in Byte /\ q * Base + t = n
    BY <1>5, <2>1, <2>2, SizeFieldRead
  <2>4. s = <<q, t>>
    BY <1>9, <2>1, <2>2
  <2> QED BY <2>3, <2>4 DEF SizeIn
<1>11. PICK h \in Seq(Byte) : h = s \o p.head
  BY <1>2, <1>10, ConcatProperties
<1>12. Len(h) = HeadSize /\ h[1] = s[1] /\ h[2] = s[2]
  <2>1. /\ Len(h) = Len(s) + Len(p.head)
        /\ \A i \in 1..(Len(s) + Len(p.head)) : h[i] = IF i <= Len(s) THEN s[i] ELSE p.head[i - Len(s)]
    BY <1>2, <1>10, <1>11, ConcatProperties
  <2>2. 1 \in 1..(Len(s) + Len(p.head)) /\ 2 \in 1..(Len(s) + Len(p.head))
    BY <1>2, <1>3, <1>10
  <2> QED BY <1>2, <1>3, <1>10, <2>1, <2>2
<1>13. f = h \o p.data
  BY <1>1, <1>4, <1>6, <1>7, <1>8, <1>11 DEF Encode
<1>14. f \in Seq(Byte) /\ Len(f) = n /\ f[1] = s[1] /\ f[2] = s[2]
  <2>1. /\ f \in Seq(Byte) /\ Len(f) = Len(h) + Len(p.data)
        /\ \A i \in 1..(Len(h) + Len(p.data)) : f[i] = IF i <= Len(h) THEN h[i] ELSE p.data[i - Len(h)]
    BY <1>2, <1>13, ConcatProperties
  <2>2. 1 \in 1..(Len(h) + Len(p.data)) /\ 2 \in 1..(Len(h) + Len(p.data))
    BY <1>2, <1>3, <1>12
  <2> QED BY <1>2, <1>3, <1>4, <1>12, <2>1, <2>2
<1> QED BY <1>5, <1>10, <1>14 DEF SizeIn

\* The memory fits, and a context of its own is not stuck.
ContextInv ==
  /\ side \in {"tcp", "udp"} /\ status \in {"running", "crashed"}
  /\ sent \in Seq(Frame) /\ wire \in Seq(Byte)
  /\ Fits(ctx)
  /\ FreshContext => ~Stuck(ctx)

\* A new context fits and is not stuck.
LEMMA NewFits == Fits(NewCtx) /\ ~Stuck(NewCtx)
<1>1. NewCtx \in Ctx /\ NewCtx.rLen = 0
  <2>1. <<0, 0>> \in [1..2 -> Byte]
    BY Sizes
  <2>2. [i \in 1..MaxPayloadSize |-> 0] \in [1..MaxPayloadSize -> Byte]
    BY Sizes
  <2> QED BY <2>1, <2>2 DEF NewCtx, Ctx
<1> QED BY <1>1, Sizes DEF Fits, Stuck

\* The first link starts so.
LEMMA ContextInit == Init => ContextInv
<1> SUFFICES ASSUME Init PROVE ContextInv
  OBVIOUS
<1>1. Fits(ctx) /\ ~Stuck(ctx)
  BY NewFits DEF Init
<1>2. sent \in Seq(Frame) /\ wire \in Seq(Byte)
  BY DEF Init
<1> QED BY <1>1, <1>2 DEF Init, ContextInv

\* What is received is a part of what is on the wire.
LEMMA ReceiveType ==
  ASSUME wire \in Seq(Byte), NEW n \in 1..Len(wire)
  PROVE  /\ n \in 0..Len(wire) /\ n \in Nat
         /\ Take(wire, n) \in Seq(Byte) /\ Drop(wire, n) \in Seq(Byte)
<1>1. Len(wire) \in Nat
  OBVIOUS
<1>2. n \in 0..Len(wire) /\ n \in Nat
  BY <1>1
<1> QED BY <1>2, BytesCut

\* A link that is opened again starts empty, with the context it had or a new one.
LEMMA RelinkKeeps ==
  ASSUME ContextInv, NEW c, Fits(c), Relink(c), UNCHANGED status
  PROVE  ContextInv'
<1>1. sent' \in Seq(Frame) /\ wire' \in Seq(Byte) /\ side' = side
  BY DEF Relink
<1>2. Fits(ctx)'
  BY NewFits DEF Relink, Fits
<1>3. side' \in {"tcp", "udp"} /\ status' \in {"running", "crashed"}
  BY <1>1 DEF ContextInv
<1>4. (FreshContext => ~Stuck(ctx))'
  BY NewFits DEF Relink, FreshContext, Stuck
<1> QED BY <1>1, <1>2, <1>3, <1>4 DEF ContextInv

\* What a step does to them.
LEMMA ContextStep ==
  ASSUME ContextInv, Next
  PROVE  ContextInv'
<1>1. ASSUME NEW p \in Payloads[side], Send(p)
      PROVE  ContextInv'
  <2>1. Encode(p.head, p.data) \in Frame
    BY <1>1 DEF ContextInv, Frame
  <2>2. Encode(p.head, p.data) \in Seq(Byte)
    BY <2>1, GoodFrame
  <2>3. sent' \in Seq(Frame)
    BY <1>1, <2>1, AppendProperties DEF ContextInv, Send
  <2>4. wire' \in Seq(Byte)
    BY <1>1, <2>2, ConcatProperties DEF ContextInv, Send
  <2> QED BY <1>1, <2>3, <2>4 DEF ContextInv, Send, FreshContext
<1>2. ASSUME NEW n \in 1..Len(wire), Receive(n)
      PROVE  ContextInv'
  <2>1. Take(wire, n) \in Seq(Byte) /\ Drop(wire, n) \in Seq(Byte)
    BY ReceiveType DEF ContextInv
  <2>2. PICK r : r = Handle(ctx, Take(wire, n))
    OBVIOUS
  <2>3. Fits(r.ctx) /\ (r.ret = 0 => ~Stuck(r.ctx))
    BY <2>1, <2>2, HandleFits DEF ContextInv
  <2>4. CASE /\ r.ret = 0
             /\ ctx' = r.ctx /\ wire' = Drop(wire, n)
             /\ delivered' = delivered \o r.out
             /\ UNCHANGED <<side, sent, status>>
    <3>1. Fits(ctx)' /\ ~Stuck(ctx)'
      BY <2>3, <2>4 DEF Fits, Stuck
    <3> QED BY <2>1, <2>4, <3>1 DEF ContextInv
  <2>5. CASE /\ r.ret \in {-1, -2, -3, -4}
             /\ Relink(r.ctx) /\ UNCHANGED status
    BY <2>3, <2>5, RelinkKeeps
  <2>6. CASE /\ r.ret = Overrun
             /\ status' = "crashed" /\ UNCHANGED <<side, sent, delivered, wire, ctx>>
    BY <2>6 DEF ContextInv, FreshContext, Fits, Stuck
  <2> QED BY <1>2, <2>2, <2>4, <2>5, <2>6 DEF Receive
<1>3. ASSUME LinkLost
      PROVE  ContextInv'
  BY <1>3, RelinkKeeps DEF LinkLost, ContextInv
<1> QED BY <1>1, <1>2, <1>3 DEF Next

\* Nor does it matter that nothing happens.
LEMMA ContextStutters ==
  ASSUME ContextInv, UNCHANGED vars
  PROVE  ContextInv'
  BY DEF ContextInv, vars, FreshContext, Fits, Stuck

\* So it is at any time.
LEMMA ContextAlways == Spec => []ContextInv
<1>1. ContextInv /\ [Next]_vars => ContextInv'
  BY ContextStep, ContextStutters
<1> QED BY ContextInit, <1>1, PTL DEF Spec

-----------------------------------------------------------------------------
(***************************************************************************)
(* The stream of a link whose context is new.                              *)
(***************************************************************************)
\* What the context keeps is the beginning of f, the frame under way.
Holds(c, f) ==
  /\ c.rLen < Len(f)
  /\ \A j \in 1..2 : j <= c.rLen => c.buffer[j] = f[j]
  /\ c.rLen >= 2 => \A j \in 1..c.rLen : c.payload[j] = f[j]

\* The data go on with it, as far as it goes.
Follows(call, f) ==
  \A j \in 1..Len(call.data) :
    call.ctx.rLen + j <= Len(f) => call.data[j] = f[call.ctx.rLen + j]

\* The first two bytes of a frame count it, wherever they are kept.
LEMMA SizeOfFrame ==
  ASSUME NEW f \in Frame, NEW b, b[1] = f[1], b[2] = f[2]
  PROVE  SizeIn(b) = Len(f)
  BY GoodFrame DEF SizeIn

\* The parts of an iteration that goes on,
LEMMA GoesOnIs ==
  ASSUME NEW c, NEW rest, NEW out
  PROVE  /\ GoesOn(c, rest, out).ctx = c /\ GoesOn(c, rest, out).rest = rest
         /\ GoesOn(c, rest, out).out = out /\ GoesOn(c, rest, out).ret = 0
         /\ GoesOn(c, rest, out).done <=> Len(rest) = 0
<1>1. GoesOn(c, rest, out).done = (Len(rest) = 0)
  BY DEF GoesOn
<1>2. /\ GoesOn(c, rest, out).ctx = c /\ GoesOn(c, rest, out).rest = rest
      /\ GoesOn(c, rest, out).out = out /\ GoesOn(c, rest, out).ret = 0
  BY DEF GoesOn
<1> QED BY <1>1, <1>2

\* and of one that ends the call.
LEMMA EndsIs ==
  ASSUME NEW c, NEW ret
  PROVE  /\ Ends(c, ret).ctx = c /\ Ends(c, ret).rest = <<>>
         /\ Ends(c, ret).out = <<>> /\ Ends(c, ret).ret = ret /\ Ends(c, ret).done
<1>1. Ends(c, ret).done = TRUE
  BY DEF Ends
<1>2. /\ Ends(c, ret).ctx = c /\ Ends(c, ret).rest = <<>>
      /\ Ends(c, ret).out = <<>> /\ Ends(c, ret).ret = ret
  BY DEF Ends
<1> QED BY <1>1, <1>2

\* An iteration took t of the data for the frame under way,
Grows(call, f, t) ==
  /\ t \in 0..Len(call.data)
  /\ Iteration(call).ret = 0 /\ Iteration(call).out = <<>>
  /\ Iteration(call).ctx.rLen = call.ctx.rLen + t /\ Holds(Iteration(call).ctx, f)
  /\ Iteration(call).rest = Drop(call.data, t)
  /\ Iteration(call).done <=> t = Len(call.data)

\* or the last t of it and called back for the frame,
Completes(call, f, t) ==
  /\ t \in 0..Len(call.data)
  /\ Iteration(call).ret = 0 /\ Iteration(call).out = <<f>>
  /\ Iteration(call).ctx.rLen = 0 /\ call.ctx.rLen + t = Len(f)
  /\ Iteration(call).rest = Drop(call.data, t)
  /\ Iteration(call).done <=> t = Len(call.data)

\* or refused it.
Refusals == {-4, -3, -2, -1}

Refuses(call, f) ==
  /\ Iteration(call).done /\ Iteration(call).ret \in Refusals /\ Iteration(call).out = <<>>
  /\ Len(f) > MaxPayloadSize

\* The iteration that collects the size field, while f is under way,
LEMMA HeadOfFrame ==
  ASSUME NEW call \in Call, NEW f \in Frame, Holds(call.ctx, f), Follows(call, f),
         call.ctx.rLen < 2
  PROVE  Refuses(call, f) \/ \E t \in 0..Len(call.data) : Grows(call, f, t)
<1>1. /\ call.ctx.rLen \in Nat /\ call.data \in Seq(Byte) /\ Len(call.data) \in Nat
      /\ call.ctx.buffer \in [1..2 -> Byte] /\ call.ctx.payload \in [1..MaxPayloadSize -> Byte]
      /\ MaxPayloadSize \in Nat /\ 2 < MaxPayloadSize
      /\ FrameLimit \in Nat /\ MaxPayloadSize <= FrameLimit
  BY Sizes DEF Call, Ctx
<1>2. Len(f) \in Nat /\ 2 < Len(f)
  BY GoodFrame, Sizes
<1>3. PICK t \in 0..Len(call.data) : t = HeadTakes(call)
  BY HeadIteration
<1>4. PICK c \in Ctx : c = HeadCtx(call)
  BY HeadIteration
<1>5. /\ c.rLen = call.ctx.rLen + t /\ c.rLen <= 2 /\ c.payload = call.ctx.payload
      /\ c.buffer = Copy(call.ctx.buffer, call.ctx.rLen, Take(call.data, t))
      /\ c.buffer \in [1..2 -> Byte]
  BY <1>3, <1>4, HeadIteration DEF Ctx
<1>6. PICK d : d = [c EXCEPT !.payload = Copy(@, 0, c.buffer)]
  OBVIOUS
<1>7. \/ /\ c.rLen < 2 /\ t = Len(call.data) /\ Iteration(call) = Ends(c, 0)
      \/ /\ c.rLen = 2 /\ Refusal(SizeIn(c.buffer)) # 0
         /\ Iteration(call) = Ends(c, Refusal(SizeIn(c.buffer)))
      \/ /\ c.rLen = 2 /\ Iteration(call) = GoesOn(d, Drop(call.data, t), <<>>)
  BY <1>3, <1>4, <1>6, HeadIteration
<1>8. ASSUME NEW j \in 1..2, j <= c.rLen PROVE c.buffer[j] = f[j]
  <2>1. PICK bytes \in Seq(Byte) : bytes = Take(call.data, t)
    BY <1>1, BytesCut
  <2>2. Len(bytes) = t /\ \A i \in 1..t : bytes[i] = call.data[i]
    BY <1>1, <2>1, BytesCut
  <2>3. c.buffer[j] = IF j - call.ctx.rLen \in 1..t THEN bytes[j - call.ctx.rLen] ELSE call.ctx.buffer[j]
    <3>1. \A i \in 1..2 : c.buffer[i] =
            IF i - call.ctx.rLen \in 1..Len(bytes) THEN bytes[i - call.ctx.rLen] ELSE call.ctx.buffer[i]
      <4>1. DOMAIN call.ctx.buffer = 1..2 /\ DOMAIN bytes = 1..Len(bytes)
        BY <1>1
      <4>2. c.buffer = Copy(call.ctx.buffer, call.ctx.rLen, bytes)
        BY <1>5, <2>1
      <4> QED BY <4>1, <4>2 DEF Copy
    <3> QED BY <2>2, <3>1
  <2>4. CASE j <= call.ctx.rLen
    <3>1. j - call.ctx.rLen \notin 1..t
      BY <1>1, <2>4
    <3> QED BY <2>3, <2>4, <3>1 DEF Holds
  <2>5. CASE j > call.ctx.rLen
    <3>1. PICK k : k = j - call.ctx.rLen
      OBVIOUS
    <3>2. k \in 1..t /\ k \in 1..Len(call.data) /\ call.ctx.rLen + k = j /\ j <= Len(f)
      <4>1. PICK q \in Nat : q = Len(call.data)
        BY <1>1
      <4>2. PICK r \in Nat : r = call.ctx.rLen
        BY <1>1
      <4>3. t \in 0..q /\ j <= r + t /\ j > r /\ k = j - r /\ j \in Nat /\ j <= 2
        BY <1>3, <1>5, <1>8, <2>5, <3>1, <4>1, <4>2
      <4>4. k \in 1..t /\ k \in 1..q /\ r + k = j
        BY <4>3
      <4>5. j <= Len(f)
        BY <1>2, <4>3
      <4> QED BY <4>1, <4>2, <4>4, <4>5
    <3>3. call.data[k] = f[call.ctx.rLen + k]
      BY <3>2 DEF Follows
    <3> QED BY <2>2, <2>3, <3>1, <3>2, <3>3
  <2> QED BY <1>1, <2>4, <2>5
<1>9. CASE c.rLen < 2 /\ t = Len(call.data) /\ Iteration(call) = Ends(c, 0)
  <2>1. Holds(c, f)
    BY <1>1, <1>2, <1>5, <1>8, <1>9 DEF Holds
  <2>2. Drop(call.data, t) = <<>>
    BY <1>1, <1>9 DEF Drop
  <2>3. Grows(call, f, t)
    BY <1>5, <1>9, <2>1, <2>2, EndsIs DEF Grows
  <2> QED BY <2>3
<1>10. c.rLen = 2 => SizeIn(c.buffer) = Len(f)
  BY <1>8, SizeOfFrame
<1>11. CASE /\ c.rLen = 2 /\ Refusal(SizeIn(c.buffer)) # 0
            /\ Iteration(call) = Ends(c, Refusal(SizeIn(c.buffer)))
  <2>1. Len(f) > MaxPayloadSize
    BY <1>1, <1>2, <1>10, <1>11 DEF Refusal
  <2>2. Refusal(SizeIn(c.buffer)) \in Refusals
    BY <1>11 DEF Refusal, Refusals
  <2> QED BY <1>11, <2>1, <2>2, EndsIs DEF Refuses
<1>12. CASE c.rLen = 2 /\ Iteration(call) = GoesOn(d, Drop(call.data, t), <<>>)
  <2>1. c.buffer \in Seq(Byte) /\ Len(c.buffer) = 2
    BY <1>5, ASequence
  <2>2. PICK y : y = Copy(c.payload, 0, c.buffer)
    OBVIOUS
  <2>3. \A i \in 1..MaxPayloadSize : y[i] = IF i - 0 \in 1..2 THEN c.buffer[i - 0] ELSE c.payload[i]
    <3>1. DOMAIN c.payload = 1..MaxPayloadSize /\ DOMAIN c.buffer = 1..2
      BY <1>1, <1>5
    <3> QED BY <2>2, <3>1 DEF Copy
  <2>4. y[1] = c.buffer[1] /\ y[2] = c.buffer[2]
    <3>1. 1 \in 1..MaxPayloadSize /\ 2 \in 1..MaxPayloadSize
      BY <1>1
    <3> QED BY <2>3, <3>1
  <2>5. d.rLen = 2 /\ d.buffer = c.buffer /\ d.payload = y
    BY <1>6, <1>12, <2>2 DEF Ctx
  <2>6. c.buffer[1] = f[1] /\ c.buffer[2] = f[2]
    BY <1>8, <1>12
  <2>7. Holds(d, f)
    <3>1. \A j \in 1..2 : j = 1 \/ j = 2
      OBVIOUS
    <3> QED BY <1>2, <2>4, <2>5, <2>6, <3>1 DEF Holds
  <2>8. Len(Drop(call.data, t)) = Len(call.data) - t
    BY <1>1, BytesCut
  <2>9. Iteration(call).done <=> t = Len(call.data)
    BY <1>1, <1>12, <2>8, GoesOnIs
  <2>10. Grows(call, f, t)
    BY <1>5, <1>12, <2>5, <2>7, <2>9, GoesOnIs DEF Grows
  <2> QED BY <2>10
<1> QED BY <1>7, <1>9, <1>11, <1>12

\* the one that collects the rest,
LEMMA RestOfFrame ==
  ASSUME NEW call \in Call, NEW f \in Frame, Holds(call.ctx, f), Follows(call, f),
         call.ctx.rLen >= 2
  PROVE  \/ Refuses(call, f)
         \/ \E t \in 0..Len(call.data) : Grows(call, f, t) \/ Completes(call, f, t)
<1>1. /\ call.ctx.rLen \in Nat /\ call.data \in Seq(Byte) /\ Len(call.data) \in Nat
      /\ call.ctx.buffer \in [1..2 -> Byte] /\ call.ctx.payload \in [1..MaxPayloadSize -> Byte]
      /\ MaxPayloadSize \in Nat /\ 2 < MaxPayloadSize /\ call.ctx \in Ctx
  BY Sizes DEF Call, Ctx
<1>2. Len(f) \in Nat /\ 2 < Len(f) /\ f \in Seq(Byte)
  BY GoodFrame, Sizes
<1>3. call.ctx.rLen < Len(f) /\ \A j \in 1..call.ctx.rLen : call.ctx.payload[j] = f[j]
  BY DEF Holds
<1>4. SizeIn(call.ctx.buffer) = Len(f)
  <2>1. call.ctx.buffer[1] = f[1] /\ call.ctx.buffer[2] = f[2]
    BY <1>1 DEF Holds
  <2> QED BY <2>1, SizeOfFrame
<1>5. Need(call) = Len(f) - call.ctx.rLen /\ Need(call) > 0
  BY <1>1, <1>2, <1>3, <1>4 DEF Need
<1>6. ASSUME NEW m \in 0..Len(call.data), call.ctx.rLen + m <= Len(f), Len(f) <= MaxPayloadSize
      PROVE  /\ PartPayload(call, m) \in [1..MaxPayloadSize -> Byte]
             /\ \A j \in 1..(call.ctx.rLen + m) : PartPayload(call, m)[j] = f[j]
  <2>1. PICK bytes \in Seq(Byte) : bytes = Take(call.data, m)
    BY <1>1, BytesCut
  <2>2. Len(bytes) = m /\ \A i \in 1..m : bytes[i] = call.data[i]
    BY <1>1, <2>1, BytesCut
  <2>3. PICK y : y = PartPayload(call, m)
    OBVIOUS
  <2>4. \A i \in 1..MaxPayloadSize : y[i] =
          IF i - call.ctx.rLen \in 1..m THEN bytes[i - call.ctx.rLen] ELSE call.ctx.payload[i]
    <3>1. DOMAIN call.ctx.payload = 1..MaxPayloadSize /\ DOMAIN bytes = 1..m
      BY <1>1, <2>2
    <3>2. y = Copy(call.ctx.payload, call.ctx.rLen, bytes)
      BY <2>1, <2>3 DEF PartPayload
    <3> QED BY <3>1, <3>2 DEF Copy
  <2>5. ASSUME NEW j \in 1..(call.ctx.rLen + m) PROVE y[j] = f[j]
    <3>1. j \in 1..MaxPayloadSize
      BY <1>1, <1>2, <1>6
    <3>2. CASE j <= call.ctx.rLen
      <4>1. j - call.ctx.rLen \notin 1..m /\ j \in 1..call.ctx.rLen
        BY <1>1, <3>2
      <4> QED BY <1>3, <2>4, <3>1, <4>1
    <3>3. CASE j > call.ctx.rLen
      <4>1. PICK k : k = j - call.ctx.rLen
        OBVIOUS
      <4>2. k \in 1..m /\ k \in 1..Len(call.data) /\ call.ctx.rLen + k = j /\ j <= Len(f)
        <5>1. PICK l \in Nat : l = Len(f)
          BY <1>2
        <5>2. PICK q \in Nat : q = Len(call.data)
          BY <1>1
        <5>3. PICK r \in Nat : r = call.ctx.rLen
          BY <1>1
        <5>4. m \in 0..q /\ r + m <= l /\ j \in 1..(r + m) /\ j > r /\ k = j - r
          BY <1>6, <3>3, <4>1, <5>1, <5>2, <5>3
        <5>5. k \in 1..m /\ k \in 1..q /\ r + k = j /\ j <= l
          BY <5>4
        <5> QED BY <5>1, <5>2, <5>3, <5>5
      <4>3. call.data[k] = f[call.ctx.rLen + k]
        BY <4>2 DEF Follows
      <4> QED BY <2>2, <2>4, <3>1, <4>1, <4>2, <4>3
    <3> QED BY <1>1, <3>2, <3>3
  <2>6. PartPayload(call, m) \in [1..MaxPayloadSize -> Byte]
    BY PartIteration
  <2> QED BY <2>3, <2>5, <2>6
<1>7. CASE SizeIn(call.ctx.buffer) > MaxPayloadSize /\ Iteration(call) = Ends(call.ctx, -4)
  <2>1. Iteration(call).done /\ Iteration(call).ret = -4 /\ Iteration(call).out = <<>>
    BY <1>7 DEF Ends
  <2> QED BY <1>4, <1>7, <2>1 DEF Refuses, Refusals
<1>8. CASE /\ SizeIn(call.ctx.buffer) <= MaxPayloadSize
           /\ Need(call) \in 0..Len(call.data)
           /\ Iteration(call) =
                GoesOn([call.ctx EXCEPT !.rLen = 0, !.payload = PartPayload(call, Need(call))],
                       Drop(call.data, Need(call)), <<FrameOf(PartPayload(call, Need(call)))>>)
  <2>1. PICK t \in 0..Len(call.data) : t = Need(call)
    BY <1>8
  <2>2. call.ctx.rLen + t = Len(f) /\ Len(f) <= MaxPayloadSize
    BY <1>1, <1>2, <1>4, <1>5, <1>8, <2>1
  <2>3. PICK y \in [1..MaxPayloadSize -> Byte] : y = PartPayload(call, t)
    BY <1>2, <1>6, <2>2
  <2>4. \A j \in 1..Len(f) : y[j] = f[j]
    <3>1. call.ctx.rLen + t <= Len(f)
      BY <1>2, <2>2
    <3>2. \A j \in 1..(call.ctx.rLen + t) : y[j] = f[j]
      BY <1>6, <2>2, <2>3, <3>1
    <3> QED BY <2>2, <3>2
  <2>5. FrameOf(y) = f
    <3>1. y[1] = f[1] /\ y[2] = f[2]
      BY <1>2, <2>4
    <3>2. SizeIn(y) = Len(f)
      BY <3>1, SizeOfFrame
    <3>3. SubSeq(y, 1, Len(f)) = f
      <4>1. y \in Seq(Byte) /\ Len(y) = MaxPayloadSize
        BY <1>1, ASequence
      <4>2. PICK z : z = SubSeq(y, 1, Len(f))
        OBVIOUS
      <4>3. z \in Seq(Byte) /\ Len(z) = Len(f) /\ \A j \in 1..Len(f) : z[j] = y[j]
        BY <1>2, <2>2, <4>1, <4>2
      <4> QED BY <1>2, <2>4, <4>2, <4>3
    <3> QED BY <3>2, <3>3 DEF FrameOf
  <2>6. PICK d : d = [call.ctx EXCEPT !.rLen = 0, !.payload = y]
    OBVIOUS
  <2>7. Iteration(call) = GoesOn(d, Drop(call.data, t), <<f>>) /\ d.rLen = 0
    BY <1>1, <1>8, <2>1, <2>3, <2>5, <2>6 DEF Ctx
  <2>8. Len(Drop(call.data, t)) = Len(call.data) - t
    BY <1>1, BytesCut
  <2>9. Iteration(call).done <=> t = Len(call.data)
    BY <1>1, <2>7, <2>8, GoesOnIs
  <2>10. Completes(call, f, t)
    BY <2>2, <2>7, <2>9, GoesOnIs DEF Completes
  <2> QED BY <2>10
<1>9. CASE /\ SizeIn(call.ctx.buffer) <= MaxPayloadSize /\ Need(call) > Len(call.data)
           /\ Iteration(call) =
                Ends([call.ctx EXCEPT !.rLen = call.ctx.rLen + Len(call.data),
                                      !.payload = PartPayload(call, Len(call.data))], 0)
  <2>1. PICK t \in 0..Len(call.data) : t = Len(call.data)
    BY <1>1
  <2>2. /\ call.ctx.rLen + t < Len(f) /\ Len(f) <= MaxPayloadSize
        /\ call.ctx.rLen + t \in Nat /\ call.ctx.rLen + t <= Len(f)
    BY <1>1, <1>2, <1>4, <1>5, <1>9, <2>1
  <2>3. PICK y \in [1..MaxPayloadSize -> Byte] : y = PartPayload(call, t)
    BY <1>6, <2>2
  <2>4. \A j \in 1..(call.ctx.rLen + t) : y[j] = f[j]
    BY <1>6, <2>2, <2>3
  <2>5. PICK r \in Nat : r = call.ctx.rLen + t
    BY <2>2
  <2>6. PICK d : d = [call.ctx EXCEPT !.rLen = r, !.payload = y]
    OBVIOUS
  <2>7. /\ d.rLen = r /\ d.payload = y /\ d.buffer = call.ctx.buffer
        /\ Iteration(call) = Ends(d, 0)
    BY <1>1, <1>9, <2>1, <2>3, <2>5, <2>6 DEF Ctx
  <2>8. Holds(d, f)
    <3>1. \A j \in 1..2 : j <= call.ctx.rLen
      BY <1>1
    <3> QED BY <2>2, <2>4, <2>5, <2>7, <3>1 DEF Holds
  <2>9. Drop(call.data, t) = <<>>
    BY <1>1, <2>1 DEF Drop
  <2>10. Grows(call, f, t)
    BY <2>1, <2>5, <2>7, <2>8, <2>9, EndsIs DEF Grows
  <2> QED BY <2>10
<1>10. \/ SizeIn(call.ctx.buffer) > MaxPayloadSize /\ Iteration(call) = Ends(call.ctx, -4)
       \/ Need(call) < 0
       \/ /\ SizeIn(call.ctx.buffer) <= MaxPayloadSize
          /\ Need(call) \in 0..Len(call.data)
          /\ Iteration(call) =
               GoesOn([call.ctx EXCEPT !.rLen = 0, !.payload = PartPayload(call, Need(call))],
                      Drop(call.data, Need(call)), <<FrameOf(PartPayload(call, Need(call)))>>)
       \/ /\ SizeIn(call.ctx.buffer) <= MaxPayloadSize /\ Need(call) > Len(call.data)
          /\ Iteration(call) =
               Ends([call.ctx EXCEPT !.rLen = call.ctx.rLen + Len(call.data),
                                     !.payload = PartPayload(call, Len(call.data))], 0)
  BY PartIteration
<1>11. ~(Need(call) < 0)
  BY <1>1, <1>2, <1>5
<1> QED BY <1>7, <1>8, <1>9, <1>10, <1>11

\* and any.
LEMMA FrameIteration ==
  ASSUME NEW call \in Call, NEW f \in Frame, Holds(call.ctx, f), Follows(call, f)
  PROVE  \/ Refuses(call, f)
         \/ \E t \in 0..Len(call.data) : Grows(call, f, t) \/ Completes(call, f, t)
<1>1. call.ctx.rLen \in Nat
  BY DEF Call, Ctx
<1> QED BY <1>1, HeadOfFrame, RestOfFrame

-----------------------------------------------------------------------------
(***************************************************************************)
(* A call on the stream.  off[i] is where frame i ends, counted from what  *)
(* is received next; bytes of the frame under way that the context keeps   *)
(* lie before it.                                                          *)
(***************************************************************************)
\* w carries the frames from the (d + 1)st on, the first of them from at on.
Carries(off, fs, d, w, at) ==
  /\ off \in [d..Len(fs) -> Int] /\ off[d] = at /\ off[Len(fs)] = Len(w)
  /\ \A i \in d..Len(fs) : off[i] <= Len(w)
  /\ \A i \in d..(Len(fs) - 1) :
       /\ off[i + 1] = off[i] + Len(fs[i + 1])
       /\ \A j \in 1..Len(fs[i + 1]) : off[i] + j >= 1 => w[off[i] + j] = fs[i + 1][j]

\* The context keeps the beginning of the next frame, if there is one.
Kept(c, fs, d) == d < Len(fs) => Holds(c, fs[d + 1])

\* The frames out are those of fs from the (d + 1)st on, and c stands n bytes
\* into what is received.
Brought(c, out, off, fs, d, n) ==
  /\ out \in Seq(Frame) /\ d + Len(out) <= Len(fs)
  /\ \A k \in 1..Len(out) : out[k] = fs[d + k]
  /\ off[d + Len(out)] = n - c.rLen
  /\ Kept(c, fs, d + Len(out))

\* A call under way: its data are what is left of the n bytes received of w.
UnderWay(r, off, fs, d, w, n) ==
  /\ r.call \in Call /\ r.call.data # <<>> /\ Len(r.call.data) <= n
  /\ \A j \in 1..Len(r.call.data) : r.call.data[j] = w[(n - Len(r.call.data)) + j]
  /\ Brought(r.call.ctx, r.out, off, fs, d, n - Len(r.call.data))

\* One more frame out.
LEMMA BroughtNext ==
  ASSUME NEW fs \in Seq(Frame), NEW d \in Nat, NEW out \in Seq(Frame),
         NEW e \in Nat, e = d + Len(out), e < Len(fs),
         \A k \in 1..Len(out) : out[k] = fs[d + k],
         NEW f, f = fs[e + 1]
  PROVE  /\ out \o <<f>> \in Seq(Frame) /\ Len(out \o <<f>>) = Len(out) + 1
         /\ \A k \in 1..(Len(out) + 1) : (out \o <<f>>)[k] = fs[d + k]
<1>1. Len(out) \in Nat /\ Len(fs) \in Nat
  OBVIOUS
<1>2. f \in Frame
  <2>1. e + 1 \in 1..Len(fs)
    BY <1>1
  <2> QED BY <2>1
<1>3. <<f>> \in Seq(Frame) /\ Len(<<f>>) = 1 /\ <<f>>[1] = f
  BY <1>2
<1>4. PICK x : x = out \o <<f>>
  OBVIOUS
<1>5. /\ x \in Seq(Frame) /\ Len(x) = Len(out) + 1
      /\ \A k \in 1..(Len(out) + 1) : x[k] = IF k <= Len(out) THEN out[k] ELSE <<f>>[k - Len(out)]
  BY <1>3, <1>4, ConcatProperties
<1>6. ASSUME NEW k \in 1..(Len(out) + 1) PROVE x[k] = fs[d + k]
  <2>1. CASE k <= Len(out)
    <3>1. k \in 1..Len(out)
      BY <1>1, <2>1
    <3>2. x[k] = out[k]
      BY <1>5, <2>1
    <3>3. out[k] = fs[d + k]
      BY <3>1
    <3> QED BY <3>2, <3>3
  <2>2. CASE k = Len(out) + 1
    <3>1. k - Len(out) = 1 /\ ~(k <= Len(out)) /\ d + k = e + 1
      BY <1>1, <2>2
    <3>2. x[k] = <<f>>[k - Len(out)]
      BY <1>5, <3>1
    <3>3. x[k] = f
      BY <1>3, <3>1, <3>2
    <3> QED BY <3>1, <3>3
  <2> QED BY <1>1, <2>1, <2>2
<1> QED BY <1>4, <1>5, <1>6

\* A call that is under way has a frame under way, which its data go on with.
LEMMA UnderWayFrame ==
  ASSUME NEW fs \in Seq(Frame), NEW d \in Nat, d <= Len(fs), NEW off,
         NEW w \in Seq(Byte), NEW at, Carries(off, fs, d, w, at),
         NEW n \in 0..Len(w), NEW r, UnderWay(r, off, fs, d, w, n)
  PROVE  /\ d + Len(r.out) \in Nat /\ d + Len(r.out) < Len(fs)
         /\ fs[(d + Len(r.out)) + 1] \in Frame
         /\ Holds(r.call.ctx, fs[(d + Len(r.out)) + 1])
         /\ Follows(r.call, fs[(d + Len(r.out)) + 1])
<1>1. /\ Len(r.call.data) \in Nat /\ r.call.ctx.rLen \in Nat /\ Len(r.call.data) > 0
      /\ r.out \in Seq(Frame) /\ Len(r.out) \in Nat /\ Len(fs) \in Nat /\ Len(w) \in Nat
  <2>1. r.call \in Call /\ r.call.data # <<>> /\ r.out \in Seq(Frame)
    BY DEF UnderWay, Brought
  <2>2. r.call.data \in Seq(Byte) /\ r.call.ctx.rLen \in Nat
    BY <2>1 DEF Call, Ctx
  <2>3. Len(r.call.data) \in Nat /\ Len(r.call.data) # 0
    BY <2>1, <2>2
  <2>4. Len(r.out) \in Nat /\ Len(fs) \in Nat /\ Len(w) \in Nat
    BY <2>1
  <2>5. Len(r.call.data) > 0
    BY <2>3
  <2> QED BY <2>1, <2>2, <2>3, <2>4, <2>5
<1>2. PICK e \in Nat : e = d + Len(r.out)
  BY <1>1
<1>3. PICK p \in Nat : p = n - Len(r.call.data)
  <2>1. Len(r.call.data) <= n
    BY DEF UnderWay
  <2>2. n - Len(r.call.data) \in Nat
    <3>1. PICK l \in Nat : l = Len(r.call.data)
      BY <1>1
    <3>2. n \in Nat /\ l <= n
      BY <1>1, <2>1, <3>1
    <3>3. n - l \in Nat
      BY <3>2
    <3> QED BY <3>1, <3>3
  <2> QED BY <2>2
<1>4. /\ e <= Len(fs) /\ off[e] = p - r.call.ctx.rLen /\ Kept(r.call.ctx, fs, e)
      /\ \A j \in 1..Len(r.call.data) : r.call.data[j] = w[p + j]
  BY <1>2, <1>3 DEF UnderWay, Brought
<1>5. e # Len(fs)
  <2>1. SUFFICES ASSUME e = Len(fs) PROVE FALSE
    OBVIOUS
  <2>2. off[e] = Len(w)
    BY <2>1 DEF Carries
  <2>3. p < Len(w)
    <3>1. PICK q \in Nat : q = Len(r.call.data)
      BY <1>1
    <3>2. PICK l \in Nat : l = Len(w)
      BY <1>1
    <3>3. q > 0 /\ p = n - q /\ n <= l /\ n \in Nat
      BY <1>1, <1>3, <3>1, <3>2
    <3>4. p < l
      BY <3>3
    <3> QED BY <3>2, <3>4
  <2>4. p - r.call.ctx.rLen = Len(w)
    BY <1>4, <2>2
  <2>5. PICK a \in Nat : a = r.call.ctx.rLen
    BY <1>1
  <2>6. PICK l \in Nat : l = Len(w)
    BY <1>1
  <2>7. p < l /\ p - a = l
    BY <2>3, <2>4, <2>5, <2>6
  <2> QED BY <2>7
<1>6. e < Len(fs) /\ e + 1 \in 1..Len(fs) /\ e \in d..(Len(fs) - 1)
  BY <1>1, <1>2, <1>4, <1>5
<1>7. fs[e + 1] \in Frame /\ Holds(r.call.ctx, fs[e + 1])
  BY <1>4, <1>6 DEF Kept
<1>8. ASSUME NEW j \in 1..Len(r.call.data), r.call.ctx.rLen + j <= Len(fs[e + 1])
      PROVE  r.call.data[j] = fs[e + 1][r.call.ctx.rLen + j]
  <2>1. PICK k : k = r.call.ctx.rLen + j
    OBVIOUS
  <2>2. k \in 1..Len(fs[e + 1])
    <3>1. PICK l \in Nat : l = Len(fs[e + 1])
      BY <1>7, GoodFrame
    <3>2. PICK a \in Nat : a = r.call.ctx.rLen
      BY <1>1
    <3>3. j \in Nat /\ j >= 1 /\ a + j <= l /\ k = a + j
      BY <1>1, <1>8, <2>1, <3>1, <3>2
    <3>4. k \in Nat /\ k >= 1 /\ k <= l
      BY <3>3
    <3> QED BY <3>1, <3>4
  <2>3. off[e] + k = p + j /\ off[e] + k >= 1
    <3>1. PICK a : a = r.call.ctx.rLen
      OBVIOUS
    <3>2. off[e] = p - a /\ k = a + j /\ a \in Nat /\ j \in Nat /\ j >= 1
      BY <1>1, <1>4, <2>1, <3>1
    <3>3. (p - a) + (a + j) = p + j /\ p + j >= 1
      BY <3>2
    <3> QED BY <3>2, <3>3
  <2>4. w[off[e] + k] = fs[e + 1][k]
    BY <1>6, <2>2, <2>3 DEF Carries
  <2> QED BY <1>4, <2>1, <2>3, <2>4
<1> QED BY <1>2, <1>6, <1>7, <1>8 DEF Follows

\* An iteration of it refuses a frame that is too long, or brings more.
LEMMA UnderWayIteration ==
  ASSUME NEW fs \in Seq(Frame), NEW d \in Nat, d <= Len(fs), NEW off,
         NEW w \in Seq(Byte), NEW at, Carries(off, fs, d, w, at),
         NEW n \in 0..Len(w), NEW r, UnderWay(r, off, fs, d, w, n)
  PROVE  LET it == Iteration(r.call)
         IN \/ /\ it.done /\ it.ret \in Refusals /\ it.out \in Seq(Frame)
               /\ \E i \in DOMAIN fs : Len(fs[i]) > MaxPayloadSize
            \/ /\ it.ret = 0 /\ it.ctx \in Ctx
               /\ it.out \in Seq(Frame) /\ r.out \o it.out \in Seq(Frame)
               /\ it.done => Brought(it.ctx, r.out \o it.out, off, fs, d, n)
               /\ ~it.done => UnderWay([call |-> NextCall(r.call), out |-> r.out \o it.out],
                                       off, fs, d, w, n)
<1> DEFINE it == Iteration(r.call)
<1>1. /\ r.call \in Call /\ Len(r.call.data) \in Nat /\ r.call.ctx.rLen \in Nat
      /\ r.call.data \in Seq(Byte)
      /\ r.out \in Seq(Frame) /\ Len(r.out) \in Nat /\ Len(fs) \in Nat /\ Len(w) \in Nat
  <2>1. r.call \in Call /\ r.call.data # <<>> /\ r.out \in Seq(Frame)
    BY DEF UnderWay, Brought
  <2>2. r.call.data \in Seq(Byte) /\ r.call.ctx.rLen \in Nat
    BY <2>1 DEF Call, Ctx
  <2>3. Len(r.call.data) \in Nat /\ Len(r.call.data) # 0
    BY <2>1, <2>2
  <2>4. Len(r.out) \in Nat /\ Len(fs) \in Nat /\ Len(w) \in Nat
    BY <2>1
  <2>5. Len(r.call.data) > 0
    BY <2>3
  <2> QED BY <2>1, <2>2, <2>3, <2>4, <2>5
<1>2. PICK e \in Nat : e = d + Len(r.out)
  BY <1>1
<1>3. PICK f \in Frame : f = fs[e + 1]
  BY <1>2, UnderWayFrame
<1>4. e < Len(fs) /\ Holds(r.call.ctx, f) /\ Follows(r.call, f) /\ e + 1 \in DOMAIN fs
  <2>1. e < Len(fs) /\ Holds(r.call.ctx, f) /\ Follows(r.call, f)
    BY <1>2, <1>3, UnderWayFrame
  <2> QED BY <1>1, <2>1
<1>5. PICK p \in Nat : p = n - Len(r.call.data)
  <2>1. Len(r.call.data) <= n
    BY DEF UnderWay
  <2>2. n - Len(r.call.data) \in Nat
    <3>1. PICK l \in Nat : l = Len(r.call.data)
      BY <1>1
    <3>2. n \in Nat /\ l <= n
      BY <1>1, <2>1, <3>1
    <3>3. n - l \in Nat
      BY <3>2
    <3> QED BY <3>1, <3>3
  <2> QED BY <2>2
<1>6. /\ off[e] = p - r.call.ctx.rLen
      /\ \A j \in 1..Len(r.call.data) : r.call.data[j] = w[p + j]
      /\ \A k \in 1..Len(r.out) : r.out[k] = fs[d + k]
  BY <1>2, <1>5 DEF UnderWay, Brought
<1>7. Len(f) \in Nat /\ 2 < Len(f)
  BY GoodFrame, Sizes
<1>8. it.ctx \in Ctx
  BY <1>1, IterationType
<1>9. CASE Refuses(r.call, f)
  <2>1. \E i \in DOMAIN fs : Len(fs[i]) > MaxPayloadSize
    BY <1>3, <1>4, <1>9 DEF Refuses
  <2> QED BY <1>9, <2>1 DEF Refuses
\* What holds of the call that follows, whatever came out.
<1>10. ASSUME NEW t \in 0..Len(r.call.data), it.rest = Drop(r.call.data, t),
              it.done <=> t = Len(r.call.data), it.ret = 0, it.out \in Seq(Frame),
              NEW out, out = r.out \o it.out,
              Brought(it.ctx, out, off, fs, d, p + t)
       PROVE  /\ it.done => Brought(it.ctx, out, off, fs, d, n)
              /\ ~it.done => UnderWay([call |-> NextCall(r.call), out |-> out], off, fs, d, w, n)
  <2>1. it.done => p + t = n
    <3>1. p + Len(r.call.data) = n
      BY <1>1, <1>5
    <3> HIDE DEF it
    <3> QED BY <1>10, <3>1
  <2>2. SUFFICES ASSUME ~it.done
                 PROVE  UnderWay([call |-> NextCall(r.call), out |-> out], off, fs, d, w, n)
    <3> HIDE DEF it
    <3> QED BY <1>10, <2>1
  <2>3. PICK q : q = NextCall(r.call)
    OBVIOUS
  <2>4. q \in Call /\ q.ctx = it.ctx /\ q.data = it.rest /\ q.data # <<>>
    BY <1>1, <2>2, <2>3, IterationType DEF NextCall
  <2>5. /\ Len(q.data) = Len(r.call.data) - t
        /\ \A j \in 1..(Len(r.call.data) - t) : q.data[j] = r.call.data[t + j]
    <3>1. q.data = Drop(r.call.data, t)
      BY <1>10, <2>4
    <3>2. PICK data \in Seq(Byte) : data = r.call.data
      BY <1>1
    <3>3. /\ Len(Drop(data, t)) = Len(data) - t
          /\ \A j \in 1..(Len(data) - t) : Drop(data, t)[j] = data[t + j]
      <4>1. t \in 0..Len(data)
        BY <3>2
      <4> QED BY <4>1, BytesCut
    <3> QED BY <3>1, <3>2, <3>3
  <2>6. n - Len(q.data) = p + t /\ Len(q.data) <= n
    <3>1. PICK l \in Nat : l = Len(r.call.data)
      BY <1>1
    <3>2. p = n - l /\ Len(q.data) = l - t /\ t \in Nat /\ t <= l /\ n \in Nat
      BY <1>1, <1>5, <2>5, <3>1
    <3>3. n - (l - t) = p + t /\ l - t <= n
      BY <3>2
    <3> QED BY <3>2, <3>3
  <2>7. ASSUME NEW j \in 1..Len(q.data) PROVE q.data[j] = w[(p + t) + j]
    <3>1. t + j \in 1..Len(r.call.data) /\ (p + t) + j = p + (t + j)
      BY <1>1, <2>5
    <3> QED BY <1>6, <2>5, <2>7, <3>1
  <2>8. PICK z : z = [call |-> q, out |-> out]
    OBVIOUS
  <2>9. z.call = q /\ z.out = out
    BY <2>8
  <2>10. UnderWay(z, off, fs, d, w, n)
    BY <1>10, <2>4, <2>6, <2>7, <2>9 DEF UnderWay
  <2> QED BY <2>3, <2>8, <2>10
<1>11. ASSUME NEW t \in 0..Len(r.call.data), Grows(r.call, f, t)
       PROVE  Brought(it.ctx, r.out \o it.out, off, fs, d, p + t) /\ r.out \o it.out = r.out
  <2>1. r.out \o it.out = r.out
    BY <1>1, <1>11, ConcatEmptySeq DEF Grows
  <2>2. it.ctx.rLen = r.call.ctx.rLen + t /\ Holds(it.ctx, f)
    BY <1>11 DEF Grows
  <2>3. off[e] = (p + t) - it.ctx.rLen
    <3>1. PICK a \in Nat : a = r.call.ctx.rLen
      BY <1>1
    <3>2. off[e] = p - a /\ it.ctx.rLen = a + t /\ t \in Nat
      BY <1>1, <1>6, <2>2, <3>1
    <3>3. (p + t) - (a + t) = p - a
      BY <1>5, <3>2
    <3> QED BY <3>2, <3>3
  <2>4. Kept(it.ctx, fs, e)
    BY <1>3, <2>2 DEF Kept
  <2> HIDE DEF it
  <2>5. PICK m \in Nat : m = Len(r.out) /\ e = d + m
    BY <1>1, <1>2
  <2>6. r.out \in Seq(Frame) /\ d + m <= Len(fs) /\ \A k \in 1..m : r.out[k] = fs[d + k]
    BY <1>1, <1>4, <1>6, <2>5
  <2>7. Brought(it.ctx, r.out, off, fs, d, p + t)
    BY <2>3, <2>4, <2>5, <2>6 DEF Brought
  <2> QED BY <2>1, <2>7
<1>12. ASSUME NEW t \in 0..Len(r.call.data), Completes(r.call, f, t)
       PROVE  Brought(it.ctx, r.out \o it.out, off, fs, d, p + t)
  <2>1. PICK out : out = r.out \o it.out
    OBVIOUS
  <2>2. out = r.out \o <<f>>
    BY <1>12, <2>1 DEF Completes
  <2>3. /\ out \in Seq(Frame) /\ Len(out) = Len(r.out) + 1
        /\ \A k \in 1..(Len(r.out) + 1) : out[k] = fs[d + k]
    <3>1. e < Len(fs) /\ f = fs[e + 1]
      BY <1>3, <1>4
    <3>2. \A k \in 1..Len(r.out) : r.out[k] = fs[d + k]
      BY <1>6
    <3>3. /\ r.out \o <<f>> \in Seq(Frame) /\ Len(r.out \o <<f>>) = Len(r.out) + 1
          /\ \A k \in 1..(Len(r.out) + 1) : (r.out \o <<f>>)[k] = fs[d + k]
      BY <1>1, <1>2, <3>1, <3>2, BroughtNext, SMTT(30)
    <3> QED BY <2>2, <3>3
  <2>4. d + Len(out) = e + 1 /\ e + 1 <= Len(fs)
    BY <1>1, <1>2, <1>4, <2>3
  <2>5. it.ctx.rLen = 0 /\ r.call.ctx.rLen + t = Len(f)
    BY <1>12 DEF Completes
  <2>6. off[e + 1] = off[e] + Len(f)
    <3>1. e \in d..(Len(fs) - 1)
      BY <1>1, <1>2, <1>4
    <3> QED BY <1>3, <3>1 DEF Carries
  <2>7. off[e + 1] = (p + t) - it.ctx.rLen
    <3>1. PICK a : a = r.call.ctx.rLen
      OBVIOUS
    <3>2. PICK l \in Nat : l = Len(f)
      BY <1>7
    <3>3. off[e + 1] = (p - a) + l /\ a + t = l /\ a \in Nat /\ t \in Nat
      BY <1>1, <1>6, <2>5, <2>6, <3>1, <3>2
    <3>4. off[e + 1] = p + t
      BY <3>3
    <3> HIDE DEF it
    <3> QED BY <2>5, <3>4
  <2>8. Kept(it.ctx, fs, e + 1)
    <3>1. SUFFICES ASSUME e + 1 < Len(fs) PROVE Holds(it.ctx, fs[(e + 1) + 1])
      BY DEF Kept
    <3>2. (e + 1) + 1 \in 1..Len(fs)
      BY <1>1, <3>1
    <3>3. fs[(e + 1) + 1] \in Frame
      BY <3>2
    <3>4. Len(fs[(e + 1) + 1]) \in Nat /\ 2 < Len(fs[(e + 1) + 1])
      BY <3>3, GoodFrame, Sizes
    <3>5. \A j \in 1..2 : ~(j <= it.ctx.rLen)
      BY <2>5
    <3> QED BY <2>5, <3>4, <3>5 DEF Holds
  <2> HIDE DEF it
  <2> QED BY <2>1, <2>3, <2>4, <2>7, <2>8 DEF Brought
<1>13. ASSUME NEW t \in 0..Len(r.call.data), Grows(r.call, f, t) \/ Completes(r.call, f, t)
       PROVE  /\ it.ret = 0 /\ it.out \in Seq(Frame) /\ r.out \o it.out \in Seq(Frame)
              /\ it.done => Brought(it.ctx, r.out \o it.out, off, fs, d, n)
              /\ ~it.done => UnderWay([call |-> NextCall(r.call), out |-> r.out \o it.out],
                                      off, fs, d, w, n)
  <2>1. /\ it.rest = Drop(r.call.data, t) /\ it.ret = 0
        /\ it.done <=> t = Len(r.call.data)
    BY <1>13 DEF Grows, Completes
  <2>2. it.out \in Seq(Frame)
    <3>1. <<>> \in Seq(Frame) /\ <<f>> \in Seq(Frame)
      OBVIOUS
    <3> QED BY <1>13, <3>1 DEF Grows, Completes
  <2>3. PICK out : out = r.out \o it.out
    OBVIOUS
  <2>4. out \in Seq(Frame)
    BY <1>1, <2>2, <2>3, ConcatProperties
  <2>5. Brought(it.ctx, out, off, fs, d, p + t)
    BY <1>11, <1>12, <1>13, <2>3
  <2> HIDE DEF it
  <2> QED BY <1>10, <2>1, <2>2, <2>3, <2>4, <2>5
<1> QED BY <1>1, <1>3, <1>4, <1>8, <1>9, <1>13, FrameIteration

\* A context that keeps nothing keeps the beginning of any frame.
LEMMA NothingKept ==
  ASSUME NEW fs \in Seq(Frame), NEW e \in Nat, NEW c, c.rLen = 0
  PROVE  Kept(c, fs, e)
<1>1. SUFFICES ASSUME e < Len(fs) PROVE Holds(c, fs[e + 1])
  BY DEF Kept
<1>2. fs[e + 1] \in Frame
  <2>1. e + 1 \in 1..Len(fs)
    BY <1>1
  <2> QED BY <2>1
<1>3. Len(fs[e + 1]) \in Nat /\ 2 < Len(fs[e + 1])
  BY <1>2, GoodFrame, Sizes
<1>4. \A j \in 1..2 : ~(j <= c.rLen)
  OBVIOUS
<1> QED BY <1>3, <1>4 DEF Holds

\* A call starts with what recv() returned.
LEMMA CallStarts ==
  ASSUME NEW fs \in Seq(Frame), NEW d \in Nat, d <= Len(fs), NEW off,
         NEW w \in Seq(Byte), NEW c \in Ctx, Carries(off, fs, d, w, -c.rLen), Kept(c, fs, d),
         NEW n \in 1..Len(w)
  PROVE  UnderWay([call |-> [ctx |-> c, data |-> Take(w, n)], out |-> <<>>], off, fs, d, w, n)
<1>1. n \in 0..Len(w) /\ n \in Nat /\ n # 0 /\ c.rLen \in Nat
  <2>1. Len(w) \in Nat
    OBVIOUS
  <2> QED BY <2>1 DEF Ctx
<1>2. PICK data \in Seq(Byte) : data = Take(w, n)
  BY <1>1, BytesCut
<1>3. Len(data) = n /\ \A j \in 1..n : data[j] = w[j]
  BY <1>1, <1>2, BytesCut
<1>4. PICK call : call = [ctx |-> c, data |-> data]
  OBVIOUS
<1>5. call \in Call /\ call.ctx = c /\ call.data = data
  BY <1>4 DEF Call
<1>6. PICK r : r = [call |-> call, out |-> <<>>]
  OBVIOUS
<1>7. r.call = call /\ r.out = <<>>
  BY <1>6
<1>8. data # <<>> /\ n - Len(data) = 0
  BY <1>1, <1>3
<1>9. \A j \in 1..n : 0 + j = j
  OBVIOUS
<1>10. Brought(c, <<>>, off, fs, d, 0)
  <2>1. Len(<<>>) = 0 /\ <<>> \in Seq(Frame) /\ d + 0 = d /\ 0 - c.rLen = -c.rLen
    BY <1>1
  <2>2. off[d] = -c.rLen
    BY DEF Carries
  <2> QED BY <2>1, <2>2 DEF Brought
<1>11. UnderWay(r, off, fs, d, w, n)
  <2>1. n - Len(r.call.data) = 0 /\ Len(r.call.data) = n
    BY <1>3, <1>5, <1>7, <1>8
  <2>2. Brought(r.call.ctx, r.out, off, fs, d, n - Len(r.call.data))
    BY <1>5, <1>7, <1>10, <2>1
  <2>3. ASSUME NEW j \in 1..Len(r.call.data)
        PROVE  r.call.data[j] = w[(n - Len(r.call.data)) + j]
    <3>1. (n - Len(r.call.data)) + j = j
      BY <2>1
    <3> QED BY <1>3, <1>5, <1>7, <2>1, <3>1
  <2>4. r.call \in Call /\ r.call.data # <<>> /\ Len(r.call.data) <= n
    BY <1>1, <1>5, <1>7, <1>8, <2>1
  <2> QED BY <2>2, <2>3, <2>4 DEF UnderWay
<1> QED BY <1>2, <1>4, <1>6, <1>11

\* A call that takes the loop brings frames out or refuses one that is too long.
LEMMA LoopBrings ==
  ASSUME NEW fs \in Seq(Frame), NEW d \in Nat, d <= Len(fs), NEW off,
         NEW w \in Seq(Byte), NEW c \in Ctx, Carries(off, fs, d, w, -c.rLen), Kept(c, fs, d),
         NEW n \in 1..Len(w)
  PROVE  LET after == Loop(c, Take(w, n))
         IN \/ after.ret \in Refusals /\ \E i \in DOMAIN fs : Len(fs[i]) > MaxPayloadSize
            \/ after.ret = 0 /\ Brought(after.ctx, after.out, off, fs, d, n)
<1> DEFINE R == {r \in [call : Call, out : Seq(Frame)] : UnderWay(r, off, fs, d, w, n)}
<1>1. PICK r : r = [call |-> [ctx |-> c, data |-> Take(w, n)], out |-> <<>>]
  OBVIOUS
<1>2. UnderWay(r, off, fs, d, w, n) /\ r.out = <<>> /\ r.call.ctx = c /\ r.call.data = Take(w, n)
  BY <1>1, CallStarts
<1>3. r \in R
  <2>1. r.call \in Call /\ <<>> \in Seq(Frame)
    BY <1>2 DEF UnderWay
  <2>2. r \in [call : Call, out : Seq(Frame)]
    BY <1>1, <1>2, <2>1
  <2> QED BY <1>2, <2>2
<1>4. R \in SUBSET [call : Call, out : Seq(Frame)]
  OBVIOUS
<1>5. n \in 0..Len(w)
  <2>1. Len(w) \in Nat
    OBVIOUS
  <2> QED BY <2>1
<1>6. ASSUME NEW q \in R
      PROVE  /\ Iteration(q.call).out \in Seq(Frame)
             /\ ~Iteration(q.call).done =>
                  [call |-> NextCall(q.call), out |-> q.out \o Iteration(q.call).out] \in R
             /\ \/ /\ Iteration(q.call).ret \in Refusals
                   /\ \E i \in DOMAIN fs : Len(fs[i]) > MaxPayloadSize
                \/ /\ Iteration(q.call).ret = 0
                   /\ Iteration(q.call).done =>
                        Brought(Iteration(q.call).ctx, q.out \o Iteration(q.call).out, off, fs, d, n)
  <2>1. UnderWay(q, off, fs, d, w, n) /\ q.call \in Call
    OBVIOUS
  <2>2. LET it == Iteration(q.call)
        IN \/ /\ it.done /\ it.ret \in Refusals /\ it.out \in Seq(Frame)
              /\ \E i \in DOMAIN fs : Len(fs[i]) > MaxPayloadSize
           \/ /\ it.ret = 0 /\ it.ctx \in Ctx
              /\ it.out \in Seq(Frame) /\ q.out \o it.out \in Seq(Frame)
              /\ it.done => Brought(it.ctx, q.out \o it.out, off, fs, d, n)
              /\ ~it.done => UnderWay([call |-> NextCall(q.call), out |-> q.out \o it.out],
                                      off, fs, d, w, n)
    BY <1>5, <2>1, UnderWayIteration
  <2>3. ~Iteration(q.call).done => NextCall(q.call) \in Call
    BY <2>1, IterationType
  <2> QED BY <2>2, <2>3
<1> HIDE DEF R
<1>7. \A q \in R :
        LET after == Loop(q.call.ctx, q.call.data)
        IN /\ after.out \in Seq(Frame)
           /\ \E last \in R :
                /\ Iteration(last.call).done
                /\ after.ctx = Iteration(last.call).ctx
                /\ after.ret = Iteration(last.call).ret
                /\ q.out \o after.out = last.out \o Iteration(last.call).out
  <2>1. \A q \in R :
          /\ Iteration(q.call).out \in Seq(Frame)
          /\ ~Iteration(q.call).done =>
               [call |-> NextCall(q.call), out |-> q.out \o Iteration(q.call).out] \in R
    BY <1>6
  <2> QED BY <1>4, <2>1, LoopEnds
<1>8. PICK after : after = Loop(c, Take(w, n))
  OBVIOUS
<1>9. PICK last \in R :
        /\ after.out \in Seq(Frame) /\ Iteration(last.call).done
        /\ after.ctx = Iteration(last.call).ctx /\ after.ret = Iteration(last.call).ret
        /\ <<>> \o after.out = last.out \o Iteration(last.call).out
  <2>1. LET q == Loop(r.call.ctx, r.call.data)
        IN /\ q.out \in Seq(Frame)
           /\ \E last \in R :
                /\ Iteration(last.call).done
                /\ q.ctx = Iteration(last.call).ctx
                /\ q.ret = Iteration(last.call).ret
                /\ r.out \o q.out = last.out \o Iteration(last.call).out
    BY <1>3, <1>7
  <2> QED BY <1>2, <1>8, <2>1
<1>10. after.out = last.out \o Iteration(last.call).out
  BY <1>9, ConcatEmptySeq
<1> QED BY <1>6, <1>8, <1>9, <1>10

\* So does one that is given a frame as a whole.
LEMMA HandleBrings ==
  ASSUME NEW fs \in Seq(Frame), NEW d \in Nat, d <= Len(fs), NEW off,
         NEW w \in Seq(Byte), NEW c \in Ctx, Carries(off, fs, d, w, -c.rLen), Kept(c, fs, d),
         NEW n \in 1..Len(w)
  PROVE  LET after == Handle(c, Take(w, n))
         IN \/ after.ret \in Refusals /\ \E i \in DOMAIN fs : Len(fs[i]) > MaxPayloadSize
            \/ after.ret = 0 /\ Brought(after.ctx, after.out, off, fs, d, n)
<1>1. PICK data : data = Take(w, n)
  OBVIOUS
<1>2. CASE ~WholeFrame(c, data)
  <2>1. Handle(c, data) = Loop(c, data)
    BY <1>2 DEF Handle
  <2>2. LET after == Loop(c, Take(w, n))
        IN \/ after.ret \in Refusals /\ \E i \in DOMAIN fs : Len(fs[i]) > MaxPayloadSize
           \/ after.ret = 0 /\ Brought(after.ctx, after.out, off, fs, d, n)
    BY LoopBrings
  <2>3. Handle(c, Take(w, n)) = Loop(c, Take(w, n))
    BY <1>1, <2>1
  <2> QED BY <2>2, <2>3
<1>3. CASE WholeFrame(c, data)
  <2>1. n \in 0..Len(w) /\ n \in Nat /\ Len(fs) \in Nat
    <3>1. Len(w) \in Nat /\ Len(fs) \in Nat
      OBVIOUS
    <3> QED BY <3>1
  <2>2. data \in Seq(Byte) /\ Len(data) = n
    BY <1>1, <2>1, BytesCut
  <2>3. PICK r : r = [call |-> [ctx |-> c, data |-> data], out |-> <<>>]
    OBVIOUS
  <2>4. r.call.ctx = c /\ r.call.data = data /\ r.out = <<>> /\ UnderWay(r, off, fs, d, w, n)
    BY <1>1, <2>3, CallStarts
  <2>5. d + Len(r.out) = d
    BY <2>4
  <2>6. d < Len(fs) /\ fs[d + 1] \in Frame /\ Follows(r.call, fs[d + 1])
    BY <2>1, <2>4, <2>5, UnderWayFrame
  <2>7. PICK f \in Frame : f = fs[d + 1]
    BY <2>6
  <2>8. Len(f) \in Nat /\ 2 < Len(f) /\ f \in Seq(Byte) /\ 2 < HeadSize /\ HeadSize \in Nat
    BY GoodFrame, Sizes
  <2>9. c.rLen = 0 /\ HeadSize < n
    BY <1>3, <2>2 DEF WholeFrame
  <2>10. \A j \in 1..n : j <= Len(f) => data[j] = f[j]
    <3>1. ASSUME NEW j \in 1..n, j <= Len(f) PROVE data[j] = f[j]
      <4>1. 0 + j = j
        OBVIOUS
      <4> QED BY <2>2, <2>4, <2>6, <2>7, <2>9, <3>1, <4>1 DEF Follows
    <3> QED BY <3>1
  <2>11. SizeIn(data) = Len(f)
    <3>1. 1 \in 1..n /\ 2 \in 1..n /\ 1 <= Len(f) /\ 2 <= Len(f)
      BY <2>1, <2>8, <2>9
    <3>2. data[1] = f[1] /\ data[2] = f[2]
      BY <2>10, <3>1
    <3> QED BY <3>2, SizeOfFrame
  <2>12. d + 1 \in DOMAIN fs
    BY <2>1, <2>6
  <2>13. CASE Refusal(SizeIn(data)) # 0
    <3>1. Len(f) > MaxPayloadSize
      <4>1. FrameLimit \in Nat /\ MaxPayloadSize \in Nat /\ MaxPayloadSize <= FrameLimit
        BY Sizes
      <4> QED BY <2>8, <2>11, <2>13, <4>1 DEF Refusal
    <3>2. Handle(c, data) = [ctx |-> c, out |-> <<>>, ret |-> Refusal(SizeIn(data))]
      BY <1>3, <2>13 DEF Handle
    <3>3. Handle(c, data).ret \in Refusals
      BY <2>13, <3>2 DEF Refusal, Refusals
    <3> QED BY <1>1, <2>7, <2>12, <3>1, <3>3
  <2>14. CASE Refusal(SizeIn(data)) = 0
    <3>1. Len(f) = n
      <4>1. SizeIn(data) \in {0, Len(data)} \/ SizeIn(data) > FrameLimit
        BY <1>3 DEF WholeFrame
      <4>2. ~(SizeIn(data) > FrameLimit)
        BY <2>8, <2>11, <2>14 DEF Refusal
      <4> QED BY <2>2, <2>8, <2>11, <4>1, <4>2
    <3>2. data = f
      BY <2>2, <2>8, <2>10, <3>1
    <3>3. PICK e : e = [c EXCEPT !.payload = Copy(@, 0, data)]
      OBVIOUS
    <3>4. Handle(c, data) = [ctx |-> e, out |-> <<f>>, ret |-> 0] /\ e.rLen = 0
      BY <1>3, <2>9, <2>14, <3>2, <3>3 DEF Handle, Ctx
    <3>5. Brought(e, <<f>>, off, fs, d, n)
      <4>1. <<f>> \in Seq(Frame) /\ Len(<<f>>) = 1 /\ <<f>>[1] = f
        OBVIOUS
      <4>2. \A k \in 1..1 : k = 1
        OBVIOUS
      <4>3. off[d + 1] = n - e.rLen
        <5>1. d \in d..(Len(fs) - 1)
          BY <2>1, <2>6
        <5>2. off[d + 1] = off[d] + Len(f) /\ off[d] = -c.rLen
          BY <2>7, <5>1 DEF Carries
        <5> QED BY <2>1, <2>9, <3>1, <3>4, <5>2
      <4>4. Kept(e, fs, d + 1)
        <5>1. PICK g \in Nat : g = d + 1
          OBVIOUS
        <5> QED BY <3>4, <5>1, NothingKept
      <4>5. d + 1 <= Len(fs)
        BY <2>1, <2>6
      <4> QED BY <2>7, <4>1, <4>2, <4>3, <4>4, <4>5 DEF Brought
    <3>6. Handle(c, data).ret = 0 /\ Handle(c, data).ctx = e /\ Handle(c, data).out = <<f>>
      BY <3>4
    <3> QED BY <1>1, <3>5, <3>6
  <2> QED BY <2>13, <2>14
<1> QED BY <1>2, <1>3

-----------------------------------------------------------------------------
(***************************************************************************)
(* The link as a frame channel.                                            *)
(***************************************************************************)
\* What has come out is the beginning of what was sent, the context keeps the
\* beginning of the next frame and the wire has the rest.
StreamInv ==
  FreshContext =>
    /\ delivered \in Seq(Frame) /\ Len(delivered) <= Len(sent)
    /\ \A i \in 1..Len(delivered) : delivered[i] = sent[i]
    /\ Kept(ctx, sent, Len(delivered))
    /\ \E off : Carries(off, sent, Len(delivered), wire, -ctx.rLen)

\* Nothing is sent on a link that is new.
LEMMA CarriesNothing == \E off : Carries(off, <<>>, 0, <<>>, 0)
<1>1. PICK off : off = [i \in 0..0 |-> 0]
  OBVIOUS
<1>2. off \in [0..0 -> Int] /\ off[0] = 0
  BY <1>1
<1>3. Len(<<>>) = 0 /\ (\A i \in 0..0 : i = 0) /\ \A i \in 0..(0 - 1) : FALSE
  OBVIOUS
<1>4. Carries(off, <<>>, 0, <<>>, 0)
  BY <1>2, <1>3 DEF Carries
<1> QED BY <1>4

\* A frame more.
LEMMA CarriesMore ==
  ASSUME NEW fs \in Seq(Frame), NEW d \in Nat, d <= Len(fs), NEW off,
         NEW w \in Seq(Byte), NEW at, Carries(off, fs, d, w, at), NEW f \in Frame
  PROVE  \E new : Carries(new, Append(fs, f), d, w \o f, at)
<1>1. Len(fs) \in Nat /\ Len(w) \in Nat /\ f \in Seq(Byte) /\ Len(f) \in Nat
  BY GoodFrame
<1>2. PICK k \in Nat : k = Len(fs)
  BY <1>1
<1>3. PICK l \in Nat : l = Len(w)
  BY <1>1
<1>4. PICK m \in Nat : m = Len(f)
  BY <1>1
<1>5. /\ off \in [d..k -> Int] /\ off[d] = at /\ off[k] = l /\ d <= k
      /\ \A i \in d..k : off[i] <= l
      /\ \A i \in d..(k - 1) :
           /\ off[i + 1] = off[i] + Len(fs[i + 1])
           /\ \A j \in 1..Len(fs[i + 1]) : off[i] + j >= 1 => w[off[i] + j] = fs[i + 1][j]
  BY <1>2, <1>3 DEF Carries
<1>6. PICK new : new = [i \in d..(k + 1) |-> IF i <= k THEN off[i] ELSE l + m]
  OBVIOUS
<1>7. /\ new \in [d..(k + 1) -> Int] /\ new[d] = at /\ new[k + 1] = l + m
      /\ \A i \in d..k : new[i] = off[i] /\ off[i] \in Int
      /\ d \in d..k /\ k \in d..k
  <2>1. \A i \in d..(k + 1) : i <= k => i \in d..k
    OBVIOUS
  <2>2. d \in d..k /\ k \in d..k /\ k + 1 \in d..(k + 1) /\ ~(k + 1 <= k) /\ l + m \in Int
    BY <1>5
  <2>3. \A i \in d..k : i \in d..(k + 1) /\ i <= k
    OBVIOUS
  <2>4. \A i \in d..k : off[i] \in Int
    BY <1>5
  <2>5. new \in [d..(k + 1) -> Int]
    BY <1>6, <2>1, <2>2, <2>4
  <2> QED BY <1>5, <1>6, <2>2, <2>3, <2>4, <2>5
<1>8. PICK gs \in Seq(Frame) : gs = Append(fs, f)
  BY AppendProperties
<1>9. Len(gs) = k + 1 /\ gs[k + 1] = f /\ \A i \in 1..k : gs[i] = fs[i]
  BY <1>2, <1>8
<1>10. PICK v \in Seq(Byte) : v = w \o f
  BY <1>1, ConcatProperties
<1>11. Len(v) = l + m /\ \A i \in 1..(l + m) : v[i] = IF i <= l THEN w[i] ELSE f[i - l]
  BY <1>1, <1>3, <1>4, <1>10, ConcatProperties
<1>12. ASSUME NEW i \in d..(k + 1) PROVE new[i] <= l + m
  <2>1. CASE i \in d..k
    <3>1. off[i] <= l /\ off[i] \in Int /\ new[i] = off[i]
      BY <1>5, <1>7, <2>1
    <3> QED BY <3>1
  <2>2. CASE i = k + 1
    BY <1>7, <2>2
  <2> QED BY <2>1, <2>2
<1>13. ASSUME NEW i \in d..k
       PROVE  /\ new[i + 1] = new[i] + Len(gs[i + 1])
              /\ \A j \in 1..Len(gs[i + 1]) : new[i] + j >= 1 => v[new[i] + j] = gs[i + 1][j]
  <2>1. CASE i \in d..(k - 1)
    <3>1. i + 1 \in d..k /\ i + 1 \in 1..k /\ i \in d..k
      BY <2>1
    <3>2. gs[i + 1] = fs[i + 1] /\ new[i + 1] = off[i + 1] /\ new[i] = off[i]
      BY <1>7, <1>9, <3>1
    <3>3. PICK g \in Frame : g = fs[i + 1]
      BY <1>2, <3>1
    <3>4. PICK a \in Int : a = off[i]
      BY <1>7
    <3>5. /\ off[i + 1] = a + Len(g) /\ off[i + 1] <= l /\ Len(g) \in Nat
          /\ \A j \in 1..Len(g) : a + j >= 1 => w[a + j] = g[j]
      <4>1. off[i + 1] <= l
        BY <1>5, <3>1
      <4> QED BY <1>5, <2>1, <3>3, <3>4, <4>1, GoodFrame
    <3>6. ASSUME NEW j \in 1..Len(g), a + j >= 1 PROVE v[a + j] = g[j]
      <4>1. PICK q : q = a + j
        OBVIOUS
      <4>2. q \in 1..(l + m) /\ q <= l
        BY <3>5, <3>6, <4>1
      <4> QED BY <1>11, <3>5, <3>6, <4>1, <4>2
    <3>7. new[i + 1] = a + Len(g) /\ new[i] = a /\ gs[i + 1] = g
      BY <3>2, <3>3, <3>4, <3>5
    <3> QED BY <3>6, <3>7
  <2>2. CASE i = k
    <3>1. new[i] = l /\ new[i + 1] = l + m /\ gs[i + 1] = f
      BY <1>5, <1>7, <1>9, <2>2
    <3>2. ASSUME NEW j \in 1..m PROVE v[l + j] = f[j]
      <4>1. PICK q : q = l + j
        OBVIOUS
      <4>2. q \in 1..(l + m) /\ ~(q <= l) /\ q - l = j
        BY <4>1
      <4> QED BY <1>11, <4>1, <4>2
    <3>3. new[i + 1] = new[i] + Len(gs[i + 1])
      BY <1>4, <3>1
    <3>4. ASSUME NEW j \in 1..Len(gs[i + 1]) PROVE v[new[i] + j] = gs[i + 1][j]
      BY <1>4, <3>1, <3>2
    <3> QED BY <3>3, <3>4
  <2>3. i \in d..(k - 1) \/ i = k
    OBVIOUS
  <2> QED BY <2>1, <2>2, <2>3
<1>14. Carries(new, gs, d, v, at)
  <2>1. (k + 1) - 1 = k
    OBVIOUS
  <2> QED BY <1>7, <1>9, <1>11, <1>12, <1>13, <2>1 DEF Carries
<1> QED BY <1>8, <1>10, <1>14

\* What is received is gone from the wire.
LEMMA CarriesOn ==
  ASSUME NEW fs \in Seq(Frame), NEW d \in Nat, d <= Len(fs), NEW off,
         NEW w \in Seq(Byte), NEW at, Carries(off, fs, d, w, at), NEW n \in 1..Len(w),
         NEW e \in Nat, d <= e, e <= Len(fs), NEW r \in Nat, off[e] = n - r
  PROVE  \E new : Carries(new, fs, e, Drop(w, n), -r)
<1>1. Len(fs) \in Nat /\ Len(w) \in Nat
  OBVIOUS
<1>2. PICK k \in Nat : k = Len(fs)
  BY <1>1
<1>3. PICK l \in Nat : l = Len(w)
  BY <1>1
<1>4. /\ off \in [d..k -> Int] /\ off[k] = l /\ e <= k /\ n \in 1..l
      /\ \A i \in d..k : off[i] <= l
      /\ \A i \in d..(k - 1) :
           /\ off[i + 1] = off[i] + Len(fs[i + 1])
           /\ \A j \in 1..Len(fs[i + 1]) : off[i] + j >= 1 => w[off[i] + j] = fs[i + 1][j]
  BY <1>2, <1>3 DEF Carries
<1>5. PICK new : new = [i \in e..k |-> off[i] - n]
  OBVIOUS
<1>6. \A i \in e..k : i \in d..k /\ off[i] \in Int /\ off[i] - n \in Int /\ new[i] = off[i] - n
  <2>1. ASSUME NEW i \in e..k PROVE i \in d..k /\ off[i] \in Int /\ off[i] - n \in Int /\ new[i] = off[i] - n
    <3>1. i \in d..k
      OBVIOUS
    <3>2. off[i] \in Int
      BY <1>4, <3>1
    <3>3. n \in Int
      BY <1>4
    <3>4. off[i] - n \in Int
      BY <3>2, <3>3
    <3> QED BY <1>5, <3>1, <3>2, <3>4
  <2> QED BY <2>1
<1>7. new \in [e..k -> Int] /\ e \in e..k /\ k \in e..k
  <2>1. e \in e..k /\ k \in e..k
    BY <1>4
  <2>2. \A i \in e..k : off[i] - n \in Int
    BY <1>6
  <2> QED BY <1>5, <2>1, <2>2
<1>8. new[e] = -r /\ new[k] = l - n
  <2>1. new[e] = (n - r) - n
    BY <1>6, <1>7
  <2>2. (n - r) - n = -r
    BY <1>4
  <2> QED BY <1>4, <1>6, <1>7, <2>1, <2>2
<1>9. PICK v \in Seq(Byte) : v = Drop(w, n)
  <2>1. n \in 0..Len(w)
    BY <1>1
  <2> QED BY <2>1, BytesCut
<1>10. Len(v) = l - n /\ \A j \in 1..(l - n) : v[j] = w[n + j]
  <2>1. n \in 0..Len(w)
    BY <1>1
  <2> QED BY <1>3, <1>9, <2>1, BytesCut
<1>11. ASSUME NEW i \in e..k PROVE new[i] <= l - n
  <2>1. off[i] <= l /\ off[i] \in Int /\ new[i] = off[i] - n
    BY <1>4, <1>6
  <2> QED BY <1>4, <2>1
<1>12. ASSUME NEW i \in e..(k - 1)
       PROVE  /\ new[i + 1] = new[i] + Len(fs[i + 1])
              /\ \A j \in 1..Len(fs[i + 1]) : new[i] + j >= 1 => v[new[i] + j] = fs[i + 1][j]
  <2>1. i \in d..(k - 1) /\ i \in e..k /\ i + 1 \in e..k /\ i + 1 \in 1..k
    OBVIOUS
  <2>2. PICK g \in Frame : g = fs[i + 1]
    BY <1>2, <2>1
  <2>3. PICK a \in Int : a = off[i]
    BY <1>6, <2>1
  <2>4. /\ off[i + 1] = a + Len(g) /\ off[i + 1] <= l /\ Len(g) \in Nat
        /\ \A j \in 1..Len(g) : a + j >= 1 => w[a + j] = g[j]
    <3>1. off[i + 1] <= l
      BY <1>4, <1>6, <2>1
    <3> QED BY <1>4, <2>1, <2>2, <2>3, <3>1, GoodFrame
  <2>5. new[i] = a - n /\ new[i + 1] = (a + Len(g)) - n /\ n \in Int
    BY <1>4, <1>6, <2>1, <2>3, <2>4
  <2>6. ASSUME NEW j \in 1..Len(g), (a - n) + j >= 1 PROVE v[(a - n) + j] = g[j]
    <3>1. PICK q : q = (a - n) + j
      OBVIOUS
    <3>2. q \in 1..(l - n) /\ n + q = a + j /\ a + j >= 1
      BY <1>4, <2>4, <2>6, <3>1
    <3> QED BY <1>10, <2>4, <3>1, <3>2
  <2>7. new[i + 1] = new[i] + Len(g)
    BY <2>4, <2>5
  <2> QED BY <2>2, <2>5, <2>6, <2>7
<1>13. Carries(new, fs, e, v, -r)
  BY <1>2, <1>7, <1>8, <1>10, <1>11, <1>12 DEF Carries
<1> QED BY <1>9, <1>13

\* Minus, as the provers take it.
LEMMA Minus == \A r \in Int : -r = 0 - r
  OBVIOUS

\* The first link carries nothing.
LEMMA StreamInit == Init => StreamInv
<1> SUFFICES ASSUME Init, FreshContext
             PROVE  /\ delivered \in Seq(Frame) /\ Len(delivered) <= Len(sent)
                    /\ \A i \in 1..Len(delivered) : delivered[i] = sent[i]
                    /\ Kept(ctx, sent, Len(delivered))
                    /\ \E off : Carries(off, sent, Len(delivered), wire, -ctx.rLen)
  BY DEF StreamInv
<1>1. sent = <<>> /\ delivered = <<>> /\ wire = <<>> /\ Len(<<>>) = 0
  BY DEF Init
<1>2. -ctx.rLen = 0
  <2>1. ctx.rLen = 0
    BY DEF Init, NewCtx
  <2>2. PICK r \in Nat : r = ctx.rLen
    BY <2>1
  <2>3. -r = 0 - r
    BY Minus
  <2>4. 0 - r = 0
    BY <2>1, <2>2
  <2> QED BY ONLY <2>2, <2>3, <2>4
<1>3. Kept(ctx, sent, Len(delivered))
  BY <1>1 DEF Kept
<1> QED BY <1>1, <1>2, <1>3, CarriesNothing

\* A link that is opened again starts as the first one.
LEMMA StreamRelinks ==
  ASSUME NEW c, Relink(c)
  PROVE  StreamInv'
<1> SUFFICES ASSUME FreshContext'
             PROVE  /\ delivered' \in Seq(Frame) /\ Len(delivered') <= Len(sent')
                    /\ \A i \in 1..Len(delivered') : delivered'[i] = sent'[i]
                    /\ Kept(ctx', sent', Len(delivered'))
                    /\ \E off : Carries(off, sent', Len(delivered'), wire', -ctx'.rLen)
  BY DEF StreamInv
<1>1. sent' = <<>> /\ delivered' = <<>> /\ wire' = <<>> /\ Len(<<>>) = 0
  BY DEF Relink
<1>2. -ctx'.rLen = 0
  <2>1. ctx' = NewCtx
    BY DEF Relink, FreshContext
  <2>2. ctx'.rLen = 0
    BY <2>1 DEF NewCtx
  <2>3. PICK r \in Nat : r = ctx'.rLen
    BY <2>2
  <2>4. -r = 0 - r
    BY Minus
  <2>5. 0 - r = 0
    BY <2>2, <2>3
  <2> QED BY ONLY <2>3, <2>4, <2>5
<1>3. Kept(ctx', sent', Len(delivered'))
  BY <1>1 DEF Kept
<1> QED BY <1>1, <1>2, <1>3, CarriesNothing

\* Once all that was sent has come out, nothing waits in the context.
LEMMA AllOut ==
  ASSUME NEW fs \in Seq(Frame), NEW d, d = Len(fs), NEW off, NEW w \in Seq(Byte),
         NEW r \in Nat, Carries(off, fs, d, w, -r)
  PROVE  r = 0
<1>1. Len(w) = -r /\ Len(w) \in Nat
  BY DEF Carries
<1> QED BY <1>1

\* A frame that is sent is the last on the wire.
LEMMA StreamSends ==
  ASSUME StreamInv, ContextInv, NEW p \in Payloads[side], Send(p)
  PROVE  StreamInv'
<1>1. PICK f : f = Encode(p.head, p.data)
  OBVIOUS
<1>2. f \in Frame /\ sent' = Append(sent, f) /\ wire' = wire \o f
      /\ side' = side /\ delivered' = delivered /\ ctx' = ctx
  BY <1>1 DEF ContextInv, Frame, Send
<1> SUFFICES ASSUME FreshContext
             PROVE  /\ Len(delivered) <= Len(sent')
                    /\ \A i \in 1..Len(delivered) : delivered[i] = sent'[i]
                    /\ Kept(ctx, sent', Len(delivered))
                    /\ \E off : Carries(off, sent', Len(delivered), wire', -ctx.rLen)
  BY <1>2 DEF StreamInv, FreshContext
<1>3. /\ sent \in Seq(Frame) /\ wire \in Seq(Byte) /\ ctx.rLen \in Nat
      /\ delivered \in Seq(Frame) /\ Len(delivered) <= Len(sent)
      /\ \A i \in 1..Len(delivered) : delivered[i] = sent[i]
      /\ Kept(ctx, sent, Len(delivered))
  BY DEF StreamInv, ContextInv, Fits, Ctx
<1>4. PICK off : Carries(off, sent, Len(delivered), wire, -ctx.rLen)
  BY DEF StreamInv
<1>5. Len(delivered) \in Nat /\ Len(sent) \in Nat
  BY <1>3
<1>6. Len(sent') = Len(sent) + 1 /\ \A i \in 1..Len(sent) : sent'[i] = sent[i]
  BY <1>2, <1>3
<1>7. \E new : Carries(new, sent', Len(delivered), wire', -ctx.rLen)
  <2>1. PICK at : at = -ctx.rLen
    OBVIOUS
  <2> QED BY <1>2, <1>3, <1>4, <1>5, <2>1, CarriesMore
<1>8. Kept(ctx, sent', Len(delivered))
  <2>1. CASE Len(delivered) < Len(sent)
    <3>1. Len(delivered) + 1 \in 1..Len(sent)
      BY <1>5, <2>1
    <3> QED BY <1>3, <1>6, <2>1, <3>1 DEF Kept
  <2>2. CASE Len(delivered) = Len(sent)
    <3>1. ctx.rLen = 0
      BY <1>3, <1>4, <2>2, AllOut
    <3>2. sent' \in Seq(Frame)
      BY <1>2, <1>3, AppendProperties
    <3> QED BY <1>5, <3>1, <3>2, NothingKept
  <2> QED BY <1>3, <1>5, <2>1, <2>2
<1>9. \A i \in 1..Len(delivered) : delivered[i] = sent'[i] /\ Len(delivered) <= Len(sent')
  BY <1>3, <1>5, <1>6
<1>10. Len(delivered) <= Len(sent')
  BY <1>3, <1>5, <1>6
<1> QED BY <1>7, <1>8, <1>9, <1>10

\* What a call does that is given n bytes of the wire.
LEMMA StreamHandles ==
  ASSUME StreamInv, ContextInv, FreshContext, NEW n \in 1..Len(wire)
  PROVE  LET r == Handle(ctx, Take(wire, n))
         IN \/ r.ret \in Refusals /\ \E i \in DOMAIN sent : Len(sent[i]) > MaxPayloadSize
            \/ /\ r.ret = 0 /\ r.out \in Seq(Frame)
               /\ Len(delivered) + Len(r.out) <= Len(sent)
               /\ \A k \in 1..Len(r.out) : r.out[k] = sent[Len(delivered) + k]
               /\ Kept(r.ctx, sent, Len(delivered) + Len(r.out))
               /\ \E off : Carries(off, sent, Len(delivered) + Len(r.out), Drop(wire, n), -r.ctx.rLen)
<1>1. /\ sent \in Seq(Frame) /\ wire \in Seq(Byte) /\ ctx \in Ctx /\ Fits(ctx)
      /\ delivered \in Seq(Frame) /\ Len(delivered) <= Len(sent) /\ Len(delivered) \in Nat
      /\ Kept(ctx, sent, Len(delivered)) /\ Len(sent) \in Nat
  BY DEF StreamInv, ContextInv, Fits
<1>2. PICK off : Carries(off, sent, Len(delivered), wire, -ctx.rLen)
  BY DEF StreamInv
<1>3. PICK d \in Nat : d = Len(delivered)
  BY <1>1
<1>4. PICK r : r = Handle(ctx, Take(wire, n))
  OBVIOUS
<1>5. \/ r.ret \in Refusals /\ \E i \in DOMAIN sent : Len(sent[i]) > MaxPayloadSize
      \/ r.ret = 0 /\ Brought(r.ctx, r.out, off, sent, d, n)
  <2>1. LET after == Handle(ctx, Take(wire, n))
        IN \/ after.ret \in Refusals /\ \E i \in DOMAIN sent : Len(sent[i]) > MaxPayloadSize
           \/ after.ret = 0 /\ Brought(after.ctx, after.out, off, sent, d, n)
    BY <1>1, <1>2, <1>3, HandleBrings
  <2> QED BY <1>4, <2>1
<1>6. CASE r.ret = 0 /\ Brought(r.ctx, r.out, off, sent, d, n)
  <2>1. r.out \in Seq(Frame) /\ Len(r.out) \in Nat /\ d + Len(r.out) <= Len(sent)
    BY <1>6 DEF Brought
  <2>2. PICK e \in Nat : e = d + Len(r.out)
    BY <2>1
  <2>3. r.ctx.rLen \in Nat
    <3>1. Take(wire, n) \in Seq(Byte)
      BY <1>1, ReceiveType
    <3> QED BY <1>1, <1>4, <3>1, HandleFits DEF Fits, Ctx
  <2>4. off[e] = n - r.ctx.rLen /\ d <= e /\ e <= Len(sent)
    BY <1>6, <2>1, <2>2 DEF Brought
  <2>5. \E new : Carries(new, sent, e, Drop(wire, n), -r.ctx.rLen)
    <3>1. PICK at : at = -ctx.rLen
      OBVIOUS
    <3>2. PICK q \in Nat : q = r.ctx.rLen
      BY <2>3
    <3>3. d <= Len(sent) /\ Carries(off, sent, d, wire, at) /\ off[e] = n - q
      BY <1>1, <1>2, <1>3, <2>4, <3>1, <3>2
    <3>4. \E new : Carries(new, sent, e, Drop(wire, n), -q)
      BY <1>1, <2>4, <3>3, CarriesOn
    <3> QED BY <3>2, <3>4
  <2>6. /\ \A k \in 1..Len(r.out) : r.out[k] = sent[d + k]
        /\ Kept(r.ctx, sent, e)
    BY <1>6, <2>2 DEF Brought
  <2> QED BY <1>3, <1>4, <1>6, <2>1, <2>2, <2>5, <2>6
<1> QED BY <1>4, <1>5, <1>6

\* What has come out after it, if nothing was refused.
LEMMA StreamReceives ==
  ASSUME StreamInv, ContextInv, FreshContext, NEW n \in 1..Len(wire), NEW r,
         r = Handle(ctx, Take(wire, n)), r.ret = 0,
         ctx' = r.ctx, wire' = Drop(wire, n), delivered' = delivered \o r.out,
         UNCHANGED <<side, sent, status>>
  PROVE  /\ StreamInv'
         /\ delivered' = SubSeq(sent, 1, Len(delivered')) /\ Len(delivered') <= Len(sent)
         /\ Len(delivered') \in Nat /\ Len(delivered) <= Len(delivered')
         /\ Len(delivered') = Len(delivered) => delivered' = delivered
<1>1. /\ sent \in Seq(Frame) /\ delivered \in Seq(Frame) /\ Len(delivered) \in Nat /\ Len(sent) \in Nat
      /\ \A i \in 1..Len(delivered) : delivered[i] = sent[i]
  BY DEF StreamInv, ContextInv
<1>2. /\ r.out \in Seq(Frame) /\ Len(r.out) \in Nat
      /\ Len(delivered) + Len(r.out) <= Len(sent)
      /\ \A k \in 1..Len(r.out) : r.out[k] = sent[Len(delivered) + k]
      /\ Kept(r.ctx, sent, Len(delivered) + Len(r.out))
      /\ \E off : Carries(off, sent, Len(delivered) + Len(r.out), Drop(wire, n), -r.ctx.rLen)
  <2>1. LET q == Handle(ctx, Take(wire, n))
        IN \/ q.ret \in Refusals /\ \E i \in DOMAIN sent : Len(sent[i]) > MaxPayloadSize
           \/ /\ q.ret = 0 /\ q.out \in Seq(Frame)
              /\ Len(delivered) + Len(q.out) <= Len(sent)
              /\ \A k \in 1..Len(q.out) : q.out[k] = sent[Len(delivered) + k]
              /\ Kept(q.ctx, sent, Len(delivered) + Len(q.out))
              /\ \E off : Carries(off, sent, Len(delivered) + Len(q.out), Drop(wire, n), -q.ctx.rLen)
    BY StreamHandles
  <2> QED BY <2>1 DEF Refusals
<1>3. PICK x : x = delivered'
  OBVIOUS
<1>4. /\ x \in Seq(Frame) /\ Len(x) = Len(delivered) + Len(r.out)
      /\ \A i \in 1..(Len(delivered) + Len(r.out)) :
           x[i] = IF i <= Len(delivered) THEN delivered[i] ELSE r.out[i - Len(delivered)]
  BY <1>1, <1>2, <1>3, ConcatProperties
<1>5. ASSUME NEW i \in 1..Len(x) PROVE x[i] = sent[i]
  <2>1. x[i] = IF i <= Len(delivered) THEN delivered[i] ELSE r.out[i - Len(delivered)]
    BY <1>4
  <2>2. CASE i <= Len(delivered)
    <3>1. i \in 1..Len(delivered)
      BY <1>1, <2>2
    <3> QED BY <1>1, <2>1, <2>2, <3>1
  <2>3. CASE ~(i <= Len(delivered))
    <3>1. PICK k : k = i - Len(delivered)
      OBVIOUS
    <3>2. k \in 1..Len(r.out) /\ Len(delivered) + k = i
      BY <1>1, <1>2, <1>4, <2>3, <3>1
    <3> QED BY <1>2, <2>1, <2>3, <3>1, <3>2
  <2> QED BY <2>2, <2>3
<1>6. /\ Len(x) \in Nat /\ Len(x) <= Len(sent) /\ Len(delivered) <= Len(x)
      /\ Kept(r.ctx, sent, Len(x))
      /\ \E off : Carries(off, sent, Len(x), Drop(wire, n), -r.ctx.rLen)
  <2>1. PICK e \in Nat : e = Len(delivered) + Len(r.out)
    BY <1>1, <1>2
  <2>2. e <= Len(sent) /\ Len(delivered) <= e /\ Len(x) = e
    BY <1>1, <1>2, <1>4, <2>1
  <2>3. /\ Kept(r.ctx, sent, e)
        /\ \E off : Carries(off, sent, e, Drop(wire, n), -r.ctx.rLen)
    BY <1>2, <2>1
  <2> QED BY <2>2, <2>3
<1>7. StreamInv'
  <2>1. /\ delivered' \in Seq(Frame) /\ Len(delivered') <= Len(sent')
        /\ \A i \in 1..Len(delivered') : delivered'[i] = sent'[i]
        /\ Kept(ctx', sent', Len(delivered'))
        /\ \E off : Carries(off, sent', Len(delivered'), wire', -ctx'.rLen)
    BY <1>3, <1>4, <1>5, <1>6
  <2> QED BY <2>1 DEF StreamInv
<1>8. x = SubSeq(sent, 1, Len(x))
  <2>1. PICK z : z = SubSeq(sent, 1, Len(x))
    OBVIOUS
  <2>2. z \in Seq(Frame) /\ Len(z) = Len(x) /\ \A i \in 1..Len(x) : z[i] = sent[i]
    BY <1>1, <1>6, <2>1
  <2> QED BY <1>4, <1>5, <2>1, <2>2
<1>9. Len(x) = Len(delivered) => x = delivered
  <2>1. SUFFICES ASSUME Len(x) = Len(delivered) PROVE x = delivered
    OBVIOUS
  <2> QED BY <1>1, <1>4, <1>5, <2>1
<1> QED BY <1>3, <1>6, <1>7, <1>8, <1>9

\* A link stays that of its side.
LEMMA SideStays == [Next]_vars => side' = side
<1> SUFFICES ASSUME [Next]_vars PROVE side' = side
  OBVIOUS
<1>1. ASSUME NEW n \in 1..Len(wire), Receive(n) PROVE side' = side
  BY <1>1 DEF Receive, Relink
<1>2. ASSUME NEW p \in Payloads[side], Send(p) PROVE side' = side
  BY <1>2 DEF Send
<1>3. ASSUME LinkLost PROVE side' = side
  BY <1>3 DEF LinkLost, Relink
<1> QED BY <1>1, <1>2, <1>3 DEF Next, vars

\* A step keeps the stream; on it the link takes a frame, brings some out, is
\* lost or stays as it is.
LEMMA StreamStep ==
  ASSUME StreamInv, ContextInv, [Next]_vars
  PROVE  /\ StreamInv'
         /\ FreshContext =>
              \/ \E f \in Frame : sent' = Append(sent, f) /\ delivered' = delivered
              \/ \E n \in (Len(delivered) + 1)..Len(sent) :
                   n <= Len(sent) /\ delivered' = SubSeq(sent, 1, n) /\ sent' = sent
              \/ sent' = <<>> /\ delivered' = <<>>
              \/ sent' = sent /\ delivered' = delivered
<1>1. ASSUME NEW p \in Payloads[side], Send(p)
      PROVE  StreamInv' /\ \E f \in Frame : sent' = Append(sent, f) /\ delivered' = delivered
  <2>1. Encode(p.head, p.data) \in Frame
    BY DEF ContextInv, Frame
  <2> QED BY <1>1, <2>1, StreamSends DEF Send
<1>2. ASSUME NEW n \in 1..Len(wire), Receive(n), FreshContext
      PROVE  /\ StreamInv'
             /\ \/ \E m \in (Len(delivered) + 1)..Len(sent) :
                     m <= Len(sent) /\ delivered' = SubSeq(sent, 1, m) /\ sent' = sent
                \/ sent' = <<>> /\ delivered' = <<>>
                \/ sent' = sent /\ delivered' = delivered
  <2>1. PICK r : r = Handle(ctx, Take(wire, n))
    OBVIOUS
  <2>2. CASE /\ r.ret = 0
             /\ ctx' = r.ctx /\ wire' = Drop(wire, n)
             /\ delivered' = delivered \o r.out
             /\ UNCHANGED <<side, sent, status>>
    <3>1. /\ StreamInv'
          /\ delivered' = SubSeq(sent, 1, Len(delivered')) /\ Len(delivered') <= Len(sent)
          /\ Len(delivered') \in Nat /\ Len(delivered) <= Len(delivered')
          /\ Len(delivered') = Len(delivered) => delivered' = delivered
      BY <1>2, <2>1, <2>2, StreamReceives
    <3>2. Len(delivered) \in Nat /\ Len(sent) \in Nat
      BY <1>2 DEF StreamInv, ContextInv
    <3>3. CASE Len(delivered') = Len(delivered)
      BY <2>2, <3>1, <3>3
    <3>4. CASE Len(delivered') # Len(delivered)
      <4>1. Len(delivered') \in (Len(delivered) + 1)..Len(sent)
        BY <3>1, <3>2, <3>4
      <4> QED BY <2>2, <3>1, <4>1
    <3> QED BY <3>3, <3>4
  <2>3. CASE /\ r.ret \in {-1, -2, -3, -4}
             /\ Relink(r.ctx) /\ UNCHANGED status
    <3>1. StreamInv'
      BY <2>3, StreamRelinks
    <3> QED BY <2>3, <3>1 DEF Relink
  <2>4. CASE /\ r.ret = Overrun
             /\ status' = "crashed" /\ UNCHANGED <<side, sent, delivered, wire, ctx>>
    BY <2>4 DEF StreamInv, FreshContext
  <2> QED BY <1>2, <2>1, <2>2, <2>3, <2>4 DEF Receive
<1>3. ASSUME LinkLost
      PROVE  StreamInv' /\ sent' = <<>> /\ delivered' = <<>>
  BY <1>3, StreamRelinks DEF LinkLost, Relink
<1>4. CASE UNCHANGED vars
  BY <1>4 DEF vars, StreamInv, FreshContext
<1>5. CASE ~FreshContext
  <2>1. ~FreshContext'
    BY <1>5, SideStays DEF FreshContext
  <2> QED BY <1>5, <2>1 DEF StreamInv
<1> QED BY <1>1, <1>2, <1>3, <1>4, <1>5 DEF Next

\* So the stream is at any time.
LEMMA StreamAlways == Spec => []StreamInv
<1>1. ContextInv /\ StreamInv /\ [Next]_vars => StreamInv'
  BY StreamStep
<1> QED BY StreamInit, ContextAlways, <1>1, PTL DEF Spec

\* The receiver lives on where each link has its own context.
Runs == FreshContext => status = "running"

\* What it is given is never a copy of negative length.
LEMMA RunsStep ==
  ASSUME Runs, StreamInv, ContextInv, [Next]_vars
  PROVE  Runs'
<1> SUFFICES ASSUME FreshContext' PROVE status' = "running"
  BY DEF Runs
<1>1. FreshContext /\ status = "running"
  BY SideStays DEF FreshContext, Runs
<1>2. ASSUME NEW p \in Payloads[side], Send(p) PROVE status' = "running"
  BY <1>1, <1>2 DEF Send
<1>3. ASSUME NEW n \in 1..Len(wire), Receive(n) PROVE status' = "running"
  <2>1. PICK r : r = Handle(ctx, Take(wire, n))
    OBVIOUS
  <2>2. r.ret \in Refusals \/ r.ret = 0
    BY <1>1, <2>1, StreamHandles
  <2>3. r.ret # Overrun
    BY <2>2 DEF Refusals, Overrun
  <2> QED BY <1>1, <1>3, <2>1, <2>3 DEF Receive
<1>4. ASSUME LinkLost PROVE status' = "running"
  BY <1>1, <1>4 DEF LinkLost
<1>5. CASE UNCHANGED vars
  BY <1>1, <1>5 DEF vars
<1> QED BY <1>2, <1>3, <1>4, <1>5 DEF Next

\* So it is at any time.
LEMMA RunsAlways == Spec => []Runs
<1>1. Init => Runs
  BY DEF Init, Runs
<1>2. Runs /\ StreamInv /\ ContextInv /\ [Next]_vars => Runs'
  BY RunsStep
<1> QED BY <1>1, <1>2, StreamAlways, ContextAlways, PTL DEF Spec

\* The bytes kept of a frame stay below its length, once that is known.
LEMMA KeptBelowSize ==
  ASSUME StreamInv, ContextInv, FreshContext, ctx.rLen >= 2
  PROVE  ctx.rLen < SizeIn(ctx.buffer) /\ SizeIn(ctx.buffer) <= MaxPayloadSize
<1>1. /\ sent \in Seq(Frame) /\ wire \in Seq(Byte) /\ ctx.rLen \in Nat
      /\ ctx.buffer \in [1..2 -> Byte] /\ MaxPayloadSize \in Nat
      /\ Len(delivered) \in Nat /\ Len(sent) \in Nat /\ Len(delivered) <= Len(sent)
      /\ Kept(ctx, sent, Len(delivered))
  BY Sizes DEF StreamInv, ContextInv, Fits, Ctx
<1>2. CASE Len(delivered) = Len(sent)
  <2>1. PICK off : Carries(off, sent, Len(delivered), wire, -ctx.rLen)
    BY DEF StreamInv
  <2>2. ctx.rLen = 0
    BY <1>1, <1>2, <2>1, AllOut
  <2> QED BY <2>2
<1>3. CASE Len(delivered) < Len(sent)
  <2>1. Len(delivered) + 1 \in 1..Len(sent)
    BY <1>1, <1>3
  <2>2. PICK f \in Frame : f = sent[Len(delivered) + 1]
    BY <1>1, <2>1
  <2>3. Holds(ctx, f)
    BY <1>1, <1>3, <2>2 DEF Kept
  <2>4. ctx.buffer[1] = f[1] /\ ctx.buffer[2] = f[2] /\ ctx.rLen < Len(f)
    BY <1>1, <2>3 DEF Holds
  <2>5. SizeIn(ctx.buffer) = Len(f) /\ Len(f) \in Nat
    BY <2>4, SizeOfFrame, GoodFrame
  <2>6. CASE ctx.rLen > 2
    BY <2>6 DEF ContextInv, Fits
  <2>7. CASE ctx.rLen = 2
    BY <1>1, <2>4, <2>5, <2>7 DEF ContextInv, Stuck
  <2> QED BY <1>1, <2>6, <2>7
<1> QED BY <1>1, <1>2, <1>3

\* gnb_payload16_handle with a context of its own for each link never copies
\* outside the memory of the context: whatever the frames, their lengths, the
\* cuts of the stream and the moments at which the link is lost, the bytes
\* kept of a frame stay below its length and that within the memory, and no
\* length is negative.
THEOREM MemoryHolds == Spec => []PartialFrameFits
<1>1. ContextInv => TypeOK
  <2> SUFFICES ASSUME ContextInv PROVE TypeOK
    OBVIOUS
  <2>1. /\ ctx.rLen \in Nat /\ ctx.rLen < MaxPayloadSize /\ MaxPayloadSize \in Nat
        /\ ctx.buffer \in [1..2 -> Byte] /\ ctx.payload \in [1..MaxPayloadSize -> Byte]
    BY Sizes DEF ContextInv, Fits, Ctx
  <2>2. ctx.rLen \in 0..(MaxPayloadSize - 1)
    BY <2>1
  <2> QED BY <2>1, <2>2 DEF ContextInv, TypeOK
<1>2. ContextInv /\ StreamInv /\ Runs => PartialFrameFits
  BY <1>1, KeptBelowSize DEF PartialFrameFits, Runs
<1> QED BY <1>2, ContextAlways, StreamAlways, RunsAlways, PTL

\* A context that is new for its link refuses a frame only if it is longer
\* than the context takes: no cut of a stream of legal frames makes
\* gnb_payload16_handle give the link up.
THEOREM LegalFramesAreAccepted == Spec => []RefusesOnlyLongFrames
<1>1. StreamInv /\ ContextInv => RefusesOnlyLongFrames
  <2> SUFFICES ASSUME StreamInv, ContextInv, FreshContext, NEW n \in 1..Len(wire),
                      Handle(ctx, Take(wire, n)).ret # 0
               PROVE  \E i \in DOMAIN sent : Len(sent[i]) > MaxPayloadSize
    BY DEF RefusesOnlyLongFrames
  <2>1. LET r == Handle(ctx, Take(wire, n))
        IN \/ r.ret \in Refusals /\ \E i \in DOMAIN sent : Len(sent[i]) > MaxPayloadSize
           \/ /\ r.ret = 0 /\ r.out \in Seq(Frame)
              /\ Len(delivered) + Len(r.out) <= Len(sent)
              /\ \A k \in 1..Len(r.out) : r.out[k] = sent[Len(delivered) + k]
              /\ Kept(r.ctx, sent, Len(delivered) + Len(r.out))
              /\ \E off : Carries(off, sent, Len(delivered) + Len(r.out), Drop(wire, n), -r.ctx.rLen)
    BY StreamHandles
  <2> QED BY <2>1
<1> QED BY <1>1, StreamAlways, ContextAlways, PTL

\* gnb_payload16_handle with a context of its own for each link implements the
\* frame channel: whatever the frames, the cuts of the stream and the moments
\* at which the link is lost, the callbacks see what was sent, whole, in order
\* and once.
THEOREM WholeFramesComeOut == Spec => FramesComeOutWhole
<1>1. Init => Channel!Init
  BY DEF Init, Channel!Init
<1>2. StreamInv /\ ContextInv /\ [Next]_vars =>
        [Channel!Next]_<<IF FreshContext THEN sent ELSE <<>>,
                         IF FreshContext THEN delivered ELSE <<>>>>
  <2> SUFFICES ASSUME StreamInv, ContextInv, [Next]_vars
               PROVE  [Channel!Next]_<<IF FreshContext THEN sent ELSE <<>>,
                                       IF FreshContext THEN delivered ELSE <<>>>>
    OBVIOUS
  <2>1. FreshContext' = FreshContext
    BY SideStays DEF FreshContext
  <2>2. CASE ~FreshContext
    BY <2>1, <2>2
  <2>3. CASE FreshContext
    <3>1. ASSUME NEW f \in Frame, sent' = Append(sent, f), delivered' = delivered
          PROVE  Channel!Next
      BY <2>1, <2>3, <3>1 DEF Channel!Next, Channel!Send
    <3>2. ASSUME NEW n \in (Len(delivered) + 1)..Len(sent),
                 n <= Len(sent), delivered' = SubSeq(sent, 1, n), sent' = sent
          PROVE  Channel!Next
      BY <2>1, <2>3, <3>2 DEF Channel!Next, Channel!Deliver
    <3>3. ASSUME sent' = <<>>, delivered' = <<>>
          PROVE  Channel!Next
      BY <2>1, <2>3, <3>3 DEF Channel!Next, Channel!Lose
    <3>4. ASSUME sent' = sent, delivered' = delivered
          PROVE  UNCHANGED <<IF FreshContext THEN sent ELSE <<>>,
                             IF FreshContext THEN delivered ELSE <<>>>>
      BY <2>1, <2>3, <3>4
    <3> QED BY <2>3, <3>1, <3>2, <3>3, <3>4, StreamStep
  <2> QED BY <2>2, <2>3
<1> QED BY <1>1, <1>2, StreamAlways, ContextAlways, PTL DEF Spec, FramesComeOutWhole, Channel!Spec
==============================================================================
