------------------------------ MODULE RelayProofs ------------------------------
(***************************************************************************)
(* The two buffers of a channel, for buffers, frames, datagrams and        *)
(* address sets of any size, and for any number of frames.                 *)
(***************************************************************************)
EXTENDS Relay, TLAPS, SequenceTheorems

-----------------------------------------------------------------------------
(***************************************************************************)
(* Types.                                                                  *)
(***************************************************************************)

\* The frame that PutFrame(n) writes.
FrameOf(n) == [k \in 1..(FrameHead + n) |-> <<frames + 1, k>>]

\* Its bytes are bytes.
LEMMA FrameBytes ==
  ASSUME frames \in 0..MaxQueued, frames < MaxQueued, NEW n \in Nat
  PROVE  /\ FrameOf(n) \in Seq(QueuedByte) /\ Len(FrameOf(n)) = FrameHead + n
         /\ \A k \in 1..(FrameHead + n) : FrameOf(n)[k] = <<frames + 1, k>>
<1>1. FrameHead + n \in Nat /\ MaxQueued \in Nat
  BY RelayAssumption
<1>2. \A k \in 1..(FrameHead + n) : <<frames + 1, k>> \in QueuedByte
  BY <1>1 DEF QueuedByte
<1>3. FrameOf(n) \in [1..(FrameHead + n) -> QueuedByte]
  BY <1>2 DEF FrameOf
<1>4. FrameOf(n) \in Seq(QueuedByte) /\ Len(FrameOf(n)) = FrameHead + n
  BY <1>1, <1>3, IsASeq, LenProperties
<1> QED BY <1>4 DEF FrameOf

\* What the handlers append to the TCP connection's buffer, and the history of
\* it.
LEMMA PutFrameTypes ==
  ASSUME RelayTypeOK, frames < MaxQueued, NEW n \in Nat, PutFrame(n)
  PROVE  /\ tcpBuf' \in Seq(QueuedByte) /\ queued' \in Seq(QueuedByte) /\ frames' \in 0..MaxQueued
         /\ Len(tcpBuf') = Len(tcpBuf) + FrameHead + n
<1>1. /\ tcpBuf' = tcpBuf \o FrameOf(n) /\ queued' = queued \o FrameOf(n)
      /\ frames' = frames + 1
  BY DEF PutFrame, FrameOf
<1>2. FrameOf(n) \in Seq(QueuedByte) /\ Len(FrameOf(n)) = FrameHead + n
  BY FrameBytes DEF RelayTypeOK
<1>3. /\ tcpBuf \in Seq(QueuedByte) /\ queued \in Seq(QueuedByte) /\ frames \in 0..MaxQueued
      /\ FrameHead \in Nat /\ MaxQueued \in Nat
  BY RelayAssumption DEF RelayTypeOK
<1>4. /\ tcpBuf \o FrameOf(n) \in Seq(QueuedByte) /\ queued \o FrameOf(n) \in Seq(QueuedByte)
      /\ Len(tcpBuf \o FrameOf(n)) = Len(tcpBuf) + Len(FrameOf(n))
  BY <1>2, <1>3, ConcatProperties
<1>5. Len(tcpBuf) \in Nat
  BY <1>3
<1> QED BY <1>1, <1>2, <1>3, <1>4, <1>5

\* do_send takes a part of the buffer.
LEMMA FlushTypes ==
  ASSUME RelayTypeOK, NEW k \in 0..Len(tcpBuf), Flush(k)
  PROVE  /\ SubSeq(tcpBuf, 1, k) \in Seq(QueuedByte) /\ Len(SubSeq(tcpBuf, 1, k)) = k
         /\ \A i \in 1..k : SubSeq(tcpBuf, 1, k)[i] = tcpBuf[i]
         /\ tcpWire' = tcpWire \o SubSeq(tcpBuf, 1, k) /\ tcpWire' \in Seq(QueuedByte) /\ tcpBuf' = <<>>
<1>1. tcpBuf \in Seq(QueuedByte) /\ tcpWire \in Seq(QueuedByte)
  BY DEF RelayTypeOK
<1>2. /\ SubSeq(tcpBuf, 1, k) \in Seq(QueuedByte) /\ Len(SubSeq(tcpBuf, 1, k)) = k
      /\ \A i \in 1..k : SubSeq(tcpBuf, 1, k)[i] = tcpBuf[i]
  BY <1>1
<1>3. tcpWire' = tcpWire \o SubSeq(tcpBuf, 1, k) /\ tcpBuf' = <<>>
  BY DEF Flush
<1> QED BY <1>1, <1>2, <1>3, ConcatProperties

\* A datagram goes out in its turn.
LEMMA EmitTypes ==
  ASSUME RelayTypeOK, NEW f \in 0..MaxArrived, Emit(f)
  PROVE  /\ emitted' \in Seq(Datagram) /\ Len(emitted') = Len(emitted) + 1
         /\ emitted'[Len(emitted) + 1].frame = f
         /\ \A i \in 1..Len(emitted) : emitted'[i] = emitted[i]
<1> DEFINE d == [frame |-> f, to |-> remote]
<1>1. d \in Datagram /\ d.frame = f /\ emitted \in Seq(Datagram)
  BY DEF RelayTypeOK, Datagram
<1>2. emitted' = Append(emitted, d)
  BY DEF Emit
<1> HIDE DEF d
<1> QED BY <1>1, <1>2, AppendProperties

LEMMA TypeStep == RelayTypeOK /\ [RelayNext]_relayVars => RelayTypeOK'
<1> SUFFICES ASSUME RelayTypeOK, [RelayNext]_relayVars PROVE RelayTypeOK'
  OBVIOUS
<1>0. MaxArrived \in Nat /\ MaxQueued \in Nat
  BY RelayAssumption
<1>1. ASSUME NEW n \in Lengths, NEW a \in Address, QueueDatagram(n, a) PROVE RelayTypeOK'
  <2>1. n \in Nat /\ frames < MaxQueued
    BY <1>1, RelayAssumption DEF QueueDatagram
  <2>2. tcpBuf' \in Seq(QueuedByte) /\ queued' \in Seq(QueuedByte) /\ frames' \in 0..MaxQueued
    <3>1. CASE PutFrame(n)
      BY <2>1, <3>1, PutFrameTypes
    <3>2. CASE UNCHANGED <<tcpBuf, queued, frames>>
      BY <3>2 DEF RelayTypeOK
    <3> QED BY <1>1, <3>1, <3>2 DEF QueueDatagram
  <2>3. tcpArmed' \in BOOLEAN
    BY <1>1 DEF QueueDatagram
  <2> QED BY <1>1, <2>2, <2>3 DEF QueueDatagram, RelayTypeOK, toUdp
<1>2. CASE QueueKeepalive
  <2>1. Keepalive \in Nat /\ frames < MaxQueued
    BY <1>2, RelayAssumption DEF QueueKeepalive
  <2>2. tcpBuf' \in Seq(QueuedByte) /\ queued' \in Seq(QueuedByte) /\ frames' \in 0..MaxQueued
    <3>1. CASE PutFrame(Keepalive)
      BY <2>1, <3>1, PutFrameTypes
    <3>2. CASE UNCHANGED <<tcpBuf, queued, frames>>
      BY <3>2 DEF RelayTypeOK
    <3> QED BY <1>2, <3>1, <3>2 DEF QueueKeepalive
  <2> QED BY <1>2, <2>2 DEF QueueKeepalive, RelayTypeOK, toUdp
<1>3. ASSUME NEW k \in 0..Len(tcpBuf), Flush(k) PROVE RelayTypeOK'
  <2>1. tcpWire' \in Seq(QueuedByte) /\ tcpBuf' = <<>> /\ <<>> \in Seq(QueuedByte)
    BY <1>3, FlushTypes, EmptySeq
  <2> QED BY <1>3, <2>1 DEF Flush, RelayTypeOK, toUdp
<1>4. CASE FrameSent
  <2>1. arrived' \in 0..MaxArrived /\ arrived + 1 \in 0..MaxArrived
    BY <1>0, <1>4 DEF FrameSent, RelayTypeOK
  <2>2. emitted' \in Seq(Datagram)
    BY <1>4, <2>1, EmitTypes DEF FrameSent
  <2> QED BY <1>0, <1>4, <2>1, <2>2 DEF FrameSent, RelayTypeOK, toTcp
<1>5. CASE FrameWaits
  <2>1. arrived' \in 0..MaxArrived /\ pending' \in 0..MaxArrived /\ refused' \subseteq 1..MaxArrived
    BY <1>0, <1>5 DEF FrameWaits, RelayTypeOK
  <2> QED BY <1>5, <2>1 DEF FrameWaits, RelayTypeOK, toTcp
<1>6. ASSUME NEW ok \in BOOLEAN, Retry(ok) PROVE RelayTypeOK'
  <2>1. emitted' \in Seq(Datagram)
    BY <1>6, EmitTypes DEF Retry, RelayTypeOK
  <2>2. /\ pending' = 0 /\ udpArmed' = FALSE /\ UNCHANGED <<process, blocking, remote, arrived, refused>>
        /\ UNCHANGED <<tcpBuf, tcpArmed, frames, queued, tcpWire>>
    BY <1>6 DEF Retry, toTcp
  <2>3. pending' \in 0..MaxArrived /\ udpArmed' \in BOOLEAN
    <3>1. pending' \in 0..MaxArrived
      BY <1>0, <2>2
    <3>2. udpArmed' \in BOOLEAN
      BY <2>2, Zenon
    <3> QED BY <3>1, <3>2
  <2>4. /\ process' \in {"tcp", "udp"} /\ blocking' \in BOOLEAN /\ remote' \in Address \cup {Unset}
        /\ arrived' \in 0..MaxArrived /\ refused' \subseteq 1..MaxArrived
        /\ frames' \in 0..MaxQueued
    BY <2>2 DEF RelayTypeOK
  <2>5. /\ tcpBuf' \in Seq(QueuedByte) /\ queued' \in Seq(QueuedByte) /\ tcpWire' \in Seq(QueuedByte)
        /\ tcpArmed' \in BOOLEAN
    BY <2>2 DEF RelayTypeOK
  <2> QED BY <2>1, <2>3, <2>4, <2>5 DEF RelayTypeOK
<1>7. CASE UNCHANGED relayVars
  <2>1. /\ UNCHANGED <<process, blocking, tcpBuf, tcpArmed, frames, queued, tcpWire>>
        /\ UNCHANGED <<pending, udpArmed, arrived, emitted, refused, remote>>
    BY <1>7 DEF relayVars, toTcp, toUdp
  <2> QED BY <2>1 DEF RelayTypeOK
<1> QED BY <1>1, <1>2, <1>3, <1>4, <1>5, <1>6, <1>7 DEF RelayNext, FlushSome

LEMMA TypeInit == RelayInit => RelayTypeOK
<1> SUFFICES ASSUME RelayInit PROVE RelayTypeOK
  OBVIOUS
<1>1. 0 \in 0..MaxQueued /\ 0 \in 0..MaxArrived
  BY RelayAssumption
<1>2. <<>> \in Seq(QueuedByte) /\ <<>> \in Seq(Datagram)
  BY EmptySeq
<1>3. remote \in Address \cup {Unset}
  BY RelayAssumption DEF RelayInit
<1> QED BY <1>1, <1>2, <1>3 DEF RelayInit, MayBlock, RelayTypeOK

\* The buffers never hold bytes or frames of another kind.
THEOREM TypeCorrect == RelaySpec => []RelayTypeOK
BY TypeInit, TypeStep, PTL DEF RelaySpec

-----------------------------------------------------------------------------
(***************************************************************************)
(* UDP to TCP.                                                             *)
(***************************************************************************)

\* Appending to the buffer is appending to what the wire and the buffer hold.
LEMMA AppendAfterWire ==
  ASSUME NEW a \in Seq(QueuedByte), NEW b \in Seq(QueuedByte), NEW c \in Seq(QueuedByte)
  PROVE  (a \o b) \o c = a \o (b \o c)
BY ConcatAssociative

\* do_send on a socket that blocks leaves nothing behind: README.md:92 holds
\* where the TCP side's sockets do.
THEOREM BlockingSocketsLoseNothing == RelaySpec => []BlockingSocketLosesNothing
<1>1. RelayInit => BlockingSocketLosesNothing
  BY ConcatEmptySeq, EmptySeq DEF RelayInit, BlockingSocketLosesNothing, WireIsTheQueuedBytes
<1>2. RelayTypeOK /\ BlockingSocketLosesNothing /\ [RelayNext]_relayVars => BlockingSocketLosesNothing'
  <2> SUFFICES ASSUME RelayTypeOK, BlockingSocketLosesNothing, [RelayNext]_relayVars, blocking'
               PROVE  (tcpWire \o tcpBuf = queued)'
    BY DEF BlockingSocketLosesNothing, WireIsTheQueuedBytes
  <2>1. blocking' = blocking
    BY DEF RelayNext, QueueDatagram, QueueKeepalive, FlushSome, Flush, FrameSent, FrameWaits, Retry, relayVars
  <2>2. /\ blocking /\ tcpWire \o tcpBuf = queued
        /\ tcpWire \in Seq(QueuedByte) /\ tcpBuf \in Seq(QueuedByte) /\ queued \in Seq(QueuedByte)
    BY <2>1 DEF BlockingSocketLosesNothing, WireIsTheQueuedBytes, RelayTypeOK
  <2>3. ASSUME NEW n \in Nat, frames < MaxQueued, PutFrame(n), tcpWire' = tcpWire
        PROVE  (tcpWire \o tcpBuf = queued)'
    <3>1. tcpBuf' = tcpBuf \o FrameOf(n) /\ queued' = queued \o FrameOf(n)
      BY <2>3 DEF PutFrame, FrameOf
    <3>2. FrameOf(n) \in Seq(QueuedByte)
      BY <2>3, FrameBytes DEF RelayTypeOK
    <3>3. (tcpWire \o tcpBuf) \o FrameOf(n) = tcpWire \o (tcpBuf \o FrameOf(n))
      BY <2>2, <3>2, AppendAfterWire, ZenonT(60)
    <3> QED BY <2>2, <2>3, <3>1, <3>3
  <2>4. ASSUME NEW n \in Lengths, NEW a \in Address, QueueDatagram(n, a)
        PROVE  (tcpWire \o tcpBuf = queued)'
    BY <2>2, <2>3, <2>4, RelayAssumption DEF QueueDatagram
  <2>5. CASE QueueKeepalive
    BY <2>2, <2>3, <2>5, RelayAssumption DEF QueueKeepalive
  <2>6. ASSUME NEW k \in 0..Len(tcpBuf), Flush(k) PROVE (tcpWire \o tcpBuf = queued)'
    <3>1. k = Len(tcpBuf) /\ tcpWire' = tcpWire \o SubSeq(tcpBuf, 1, k) /\ tcpBuf' = <<>>
          /\ queued' = queued
      BY <2>2, <2>6 DEF Flush
    <3>2. SubSeq(tcpBuf, 1, k) = tcpBuf
      BY <2>2, <3>1, SubSeqFull
    <3>3. tcpWire' \in Seq(QueuedByte)
      BY <2>2, <3>1, <3>2, ConcatProperties
    <3>4. tcpWire' \o <<>> = tcpWire'
      BY <3>3, ConcatEmptySeq
    <3> QED BY <2>2, <3>1, <3>2, <3>4
  <2>7. CASE UNCHANGED toTcp
    BY <2>2, <2>7 DEF toTcp
  <2> QED BY <2>4, <2>5, <2>6, <2>7 DEF RelayNext, FlushSome, FrameSent, FrameWaits, Retry, relayVars
<1> QED BY <1>1, <1>2, TypeInit, TypeStep, PTL DEF RelaySpec

\* QueuedByte b comes before byte c.
Before(b, c) == b[1] < c[1] \/ (b[1] = c[1] /\ b[2] < c[2])

\* What has been sent and what waits is in order, and of frames that have been
\* queued: the order of the wire alone would not survive a send().
OrderInv ==
  /\ \A i, j \in 1..Len(tcpWire \o tcpBuf) :
       i < j => Before((tcpWire \o tcpBuf)[i], (tcpWire \o tcpBuf)[j])
  /\ \A i \in 1..Len(tcpWire \o tcpBuf) : (tcpWire \o tcpBuf)[i][1] <= frames

\* Another frame goes to the end of the buffer.
LEMMA OrderPut ==
  ASSUME RelayTypeOK, OrderInv, frames < MaxQueued, NEW n \in Nat, PutFrame(n), tcpWire' = tcpWire
  PROVE  OrderInv'
<1> DEFINE s == tcpWire \o tcpBuf
           t == s \o FrameOf(n)
           m == Len(s)
<1>1. /\ tcpBuf' = tcpBuf \o FrameOf(n) /\ frames' = frames + 1
      /\ FrameOf(n) \in Seq(QueuedByte) /\ Len(FrameOf(n)) = FrameHead + n /\ FrameHead + n \in Nat
      /\ \A k \in 1..(FrameHead + n) : FrameOf(n)[k] = <<frames + 1, k>>
  <2>1. tcpBuf' = tcpBuf \o FrameOf(n) /\ frames' = frames + 1
    BY DEF PutFrame, FrameOf
  <2>2. FrameHead + n \in Nat
    BY RelayAssumption
  <2> QED BY <2>1, <2>2, FrameBytes DEF RelayTypeOK
<1>2. tcpWire \in Seq(QueuedByte) /\ tcpBuf \in Seq(QueuedByte) /\ frames \in Nat
  BY DEF RelayTypeOK
<1>3. s \in Seq(QueuedByte) /\ m \in Nat
  BY <1>2, ConcatProperties
<1>4. tcpWire' \o tcpBuf' = t
  BY <1>1, <1>2, AppendAfterWire
<1>5. /\ \A i, j \in 1..m : i < j => Before(s[i], s[j])
      /\ \A i \in 1..m : s[i][1] <= frames /\ s[i] \in QueuedByte /\ s[i][1] \in Nat
  <2>1. /\ \A i, j \in 1..m : i < j => Before(s[i], s[j])
        /\ \A i \in 1..m : s[i][1] <= frames
    BY DEF OrderInv
  <2> HIDE DEF s
  <2>2. \A i \in 1..m : s[i] \in QueuedByte
    BY <1>3, ElementOfSeq
  <2>3. \A b \in QueuedByte : b[1] \in Nat
    BY RelayAssumption DEF QueuedByte
  <2> QED BY <2>1, <2>2, <2>3
<1> HIDE DEF s
<1>6. /\ Len(t) = m + (FrameHead + n)
      /\ \A i \in 1..(m + (FrameHead + n)) :
           t[i] = IF i <= m THEN s[i] ELSE FrameOf(n)[i - m]
  BY <1>1, <1>3, ConcatProperties, ZenonT(60)
<1> HIDE DEF t, m
<1>7. \A i \in 1..Len(t) : IF i <= m THEN i \in 1..m /\ t[i] = s[i]
                           ELSE i - m \in 1..(FrameHead + n) /\ t[i] = <<frames + 1, i - m>>
  BY <1>1, <1>3, <1>6, SMTT(30)
<1>8. ASSUME NEW i \in 1..Len(t) PROVE t[i][1] <= frames + 1
  BY <1>2, <1>5, <1>7
<1>9. ASSUME NEW i \in 1..Len(t), NEW j \in 1..Len(t), i < j PROVE Before(t[i], t[j])
  <2>1. CASE j <= m
    BY <1>3, <1>5, <1>7, <1>9, <2>1
  <2>2. CASE i <= m /\ ~(j <= m)
    <3>1. t[i][1] < t[j][1]
      BY <1>2, <1>3, <1>5, <1>7, <2>2, SMTT(30)
    <3> QED BY <3>1 DEF Before
  <2>3. CASE ~(i <= m)
    <3>1. ~(j <= m) /\ i - m < j - m
      BY <1>3, <1>6, <1>9, <2>3
    <3>2. t[i] = <<frames + 1, i - m>> /\ t[j] = <<frames + 1, j - m>>
      BY <1>7, <2>3, <3>1
    <3> QED BY <3>1, <3>2 DEF Before
  <2> QED BY <1>3, <2>1, <2>2, <2>3
<1> QED BY <1>1, <1>4, <1>8, <1>9 DEF OrderInv

\* send() takes a part of the buffer: what is left of the two is a beginning.
LEMMA OrderFlush ==
  ASSUME RelayTypeOK, OrderInv, NEW k \in 0..Len(tcpBuf), Flush(k)
  PROVE  OrderInv'
<1> DEFINE s == tcpWire \o tcpBuf
           part == SubSeq(tcpBuf, 1, k)
           t == tcpWire \o part
<1>1. /\ part \in Seq(QueuedByte) /\ Len(part) = k /\ \A i \in 1..k : part[i] = tcpBuf[i]
      /\ tcpWire' = t /\ t \in Seq(QueuedByte) /\ tcpBuf' = <<>> /\ frames' = frames
  BY FlushTypes DEF Flush
<1>2. tcpWire' \o tcpBuf' = t
  BY <1>1, ConcatEmptySeq
<1>3. tcpWire \in Seq(QueuedByte) /\ tcpBuf \in Seq(QueuedByte)
  BY DEF RelayTypeOK
<1> HIDE DEF part
<1>4. /\ Len(s) = Len(tcpWire) + Len(tcpBuf) /\ Len(t) = Len(tcpWire) + k
      /\ \A i \in 1..(Len(tcpWire) + Len(tcpBuf)) :
           s[i] = IF i <= Len(tcpWire) THEN tcpWire[i] ELSE tcpBuf[i - Len(tcpWire)]
      /\ \A i \in 1..(Len(tcpWire) + k) :
           t[i] = IF i <= Len(tcpWire) THEN tcpWire[i] ELSE part[i - Len(tcpWire)]
  BY <1>1, <1>3, ConcatProperties
<1> HIDE DEF s, t
<1>5. Len(tcpWire) \in Nat /\ Len(tcpBuf) \in Nat /\ k \in 0..Len(tcpBuf)
  BY <1>3
<1>6. \A i \in 1..Len(t) : i \in 1..Len(s) /\ t[i] = s[i]
  BY <1>1, <1>4, <1>5, SMTT(30)
<1>7. /\ \A i, j \in 1..Len(s) : i < j => Before(s[i], s[j])
      /\ \A i \in 1..Len(s) : s[i][1] <= frames
  BY DEF OrderInv, s
<1>8. /\ \A i, j \in 1..Len(t) : i < j => Before(t[i], t[j])
      /\ \A i \in 1..Len(t) : t[i][1] <= frames
  BY <1>6, <1>7
<1>9. frames' = frames
  BY <1>1
<1> QED BY <1>2, <1>8, <1>9 DEF OrderInv

LEMMA OrderStep == RelayTypeOK /\ OrderInv /\ [RelayNext]_relayVars => OrderInv'
<1> SUFFICES ASSUME RelayTypeOK, OrderInv, [RelayNext]_relayVars PROVE OrderInv'
  OBVIOUS
<1>1. UNCHANGED <<tcpWire, tcpBuf, frames>> => OrderInv'
  BY DEF OrderInv
<1>2. ASSUME NEW n \in Lengths, NEW a \in Address, QueueDatagram(n, a) PROVE OrderInv'
  BY <1>1, <1>2, OrderPut, RelayAssumption DEF QueueDatagram
<1>3. CASE QueueKeepalive
  BY <1>1, <1>3, OrderPut, RelayAssumption DEF QueueKeepalive
<1>4. ASSUME NEW k \in 0..Len(tcpBuf), Flush(k) PROVE OrderInv'
  BY <1>4, OrderFlush
<1> QED BY <1>1, <1>2, <1>3, <1>4
        DEF RelayNext, FlushSome, FrameSent, FrameWaits, Retry, relayVars, toTcp

\* Whatever part of a buffer each send() takes, and whatever do_send and send_cb
\* throw away, no byte reaches the wire twice or overtakes another.
THEOREM WireIsInOrder == RelaySpec => []WireKeepsTheOrder
<1>1. RelayInit => OrderInv
  <2> SUFFICES ASSUME RelayInit PROVE OrderInv
    OBVIOUS
  <2>1. tcpWire \o tcpBuf = <<>>
    BY ConcatEmptySeq, EmptySeq DEF RelayInit
  <2> QED BY <2>1 DEF OrderInv
<1>2. RelayTypeOK /\ OrderInv => WireKeepsTheOrder
  <2> SUFFICES ASSUME RelayTypeOK, OrderInv, NEW i \in 1..Len(tcpWire), NEW j \in 1..Len(tcpWire), i < j
               PROVE  Before(tcpWire[i], tcpWire[j])
    BY DEF WireKeepsTheOrder, Before
  <2>1. tcpWire \in Seq(QueuedByte) /\ tcpBuf \in Seq(QueuedByte) /\ Len(tcpWire) \in Nat /\ Len(tcpBuf) \in Nat
    BY DEF RelayTypeOK
  <2>2. /\ i \in 1..Len(tcpWire \o tcpBuf) /\ j \in 1..Len(tcpWire \o tcpBuf)
        /\ (tcpWire \o tcpBuf)[i] = tcpWire[i] /\ (tcpWire \o tcpBuf)[j] = tcpWire[j]
    BY <2>1, ConcatProperties
  <2> QED BY <2>2 DEF OrderInv
<1> QED BY <1>1, <1>2, TypeInit, TypeStep, OrderStep, PTL DEF RelaySpec

\* A send buffer is of a fixed size, and handle_udp measures a datagram
\* without the head of its frame: the first frame that passes the end does so by
\* no more than that head, and what follows it are keepalives.
THEOREM OverrunsByAHead == RelaySpec => FirstOverrunIsAHead
<1> DEFINE A == \/ Len(tcpBuf) <= Size /\ Len(tcpBuf') <= Size + FrameHead
                \/ Len(tcpBuf) > Size /\ Len(tcpBuf') = Len(tcpBuf) + FrameHead + Keepalive
                \/ tcpBuf' = tcpBuf
<1>1. RelayTypeOK /\ [RelayNext]_relayVars => (Len(tcpBuf') > Size => A)
  <2> SUFFICES ASSUME RelayTypeOK, [RelayNext]_relayVars, Len(tcpBuf') > Size PROVE A
    OBVIOUS
  <2>1. /\ Size \in Nat \ {0} /\ FrameHead \in Nat /\ Keepalive \in Nat
        /\ Lengths \subseteq Nat /\ Len(tcpBuf) \in Nat
    BY RelayAssumption DEF RelayTypeOK
  <2>2. ASSUME NEW n \in Lengths, NEW a \in Address, QueueDatagram(n, a) PROVE A
    <3>1. CASE n <= Remain /\ PutFrame(n)
      <4>1. Len(tcpBuf') = Len(tcpBuf) + FrameHead + n
        BY <2>1, <2>2, <3>1, PutFrameTypes DEF QueueDatagram
      <4> QED BY <2>1, <3>1, <4>1 DEF Remain
    <3>2. n \in Int /\ Remain \in Int
      BY <2>1 DEF Remain
    <3> QED BY <2>2, <3>1, <3>2 DEF QueueDatagram
  <2>3. CASE QueueKeepalive
    <3>1. CASE ~(Remain >= 0 /\ FrameHead + Keepalive > Remain) /\ PutFrame(Keepalive)
      <4>1. Len(tcpBuf') = Len(tcpBuf) + FrameHead + Keepalive
        BY <2>1, <2>3, <3>1, PutFrameTypes DEF QueueKeepalive
      <4> QED BY <2>1, <3>1, <4>1 DEF Remain
    <3> QED BY <2>3, <3>1 DEF QueueKeepalive
  <2>4. CASE FlushSome
    <3>1. tcpBuf' = <<>>
      BY <2>4 DEF FlushSome, Flush
    <3> QED BY <2>1, <3>1
  <2> QED BY <2>2, <2>3, <2>4 DEF RelayNext, FrameSent, FrameWaits, Retry, relayVars, toTcp
<1>2. RelayTypeOK /\ [RelayNext]_relayVars => [Len(tcpBuf') > Size => A]_relayVars
  BY <1>1
<1> QED BY <1>2, TypeInit, TypeStep, PTL DEF RelaySpec, FirstOverrunIsAHead, A

-----------------------------------------------------------------------------
(***************************************************************************)
(* TCP to UDP.                                                             *)
(***************************************************************************)

\* The frame that waits is younger than all that went out, and sendto() has
\* refused it once.  (EveryLossHasAFailure and FramesGoOutOnceInOrder say
\* nothing of what is still to go.)
WaitingInv ==
  /\ pending # 0 => pending \in refused /\ pending <= arrived
  /\ \A i \in 1..Len(emitted) : /\ emitted[i].frame <= arrived
                                /\ pending # 0 => emitted[i].frame < pending

FramesInv == WaitingInv /\ FramesGoOutOnceInOrder /\ EveryLossHasAFailure

\* The frames of the datagrams that went out are numbers.
LEMMA EmittedFrames == RelayTypeOK => \A i \in 1..Len(emitted) : emitted[i].frame \in Nat
<1>1. RelayTypeOK => \A i \in 1..Len(emitted) : emitted[i] \in Datagram
  BY ElementOfSeq DEF RelayTypeOK
<1> QED BY <1>1 DEF Datagram

\* A frame goes out after all that went before it, or an empty datagram does.
LEMMA EmitInOrder ==
  ASSUME RelayTypeOK, FramesInv, NEW f \in 0..MaxArrived, Emit(f),
         NEW n \in Nat, arrived <= n, f <= n,
         f # 0 => \A i \in 1..Len(emitted) : emitted[i].frame < f
  PROVE  /\ FramesGoOutOnceInOrder'
         /\ \A i \in 1..Len(emitted') : emitted'[i].frame <= n
         /\ \A i \in 1..Len(emitted) : i \in 1..Len(emitted') /\ emitted'[i] = emitted[i]
         /\ Len(emitted) + 1 \in 1..Len(emitted') /\ emitted'[Len(emitted) + 1].frame = f
<1> DEFINE m == Len(emitted)
<1>1. /\ Len(emitted') = m + 1 /\ emitted'[m + 1].frame = f
      /\ \A i \in 1..m : emitted'[i] = emitted[i]
  BY EmitTypes
<1>2. m \in Nat /\ arrived \in Nat
  BY DEF RelayTypeOK
<1>3. /\ \A i \in 1..m : emitted[i].frame <= arrived /\ emitted[i].frame \in Nat
      /\ \A i, j \in 1..m : i < j /\ emitted[i].frame # 0 /\ emitted[j].frame # 0
                              => emitted[i].frame < emitted[j].frame
  <2>1. \A i \in 1..m : emitted[i].frame \in Nat
    BY EmittedFrames
  <2> QED BY <2>1 DEF FramesInv, WaitingInv, FramesGoOutOnceInOrder
<1> HIDE DEF m
<1>4. \A i \in 1..(m + 1) : i = m + 1 \/ i \in 1..m
  BY <1>2
<1>5. \A i \in 1..(m + 1) : emitted'[i].frame <= n
  BY <1>1, <1>2, <1>3, <1>4
<1>6. ASSUME NEW i \in 1..(m + 1), NEW j \in 1..(m + 1), i < j,
             emitted'[i].frame # 0, emitted'[j].frame # 0
      PROVE  emitted'[i].frame < emitted'[j].frame
  <2>1. i \in 1..m
    BY <1>2, <1>6
  <2>2. CASE j = m + 1
    BY <1>1, <1>6, <2>1, <2>2 DEF m
  <2>3. CASE j \in 1..m
    BY <1>1, <1>3, <1>6, <2>1, <2>3
  <2> QED BY <1>4, <2>2, <2>3
<1>7. FramesGoOutOnceInOrder'
  BY <1>1, <1>6 DEF FramesGoOutOnceInOrder
<1> QED BY <1>1, <1>2, <1>5, <1>7 DEF m

LEMMA FramesInit == RelayInit => FramesInv
<1> SUFFICES ASSUME RelayInit PROVE FramesInv
  OBVIOUS
<1>1. RelayTypeOK
  BY TypeInit
<1>2. pending = 0 /\ arrived = 0 /\ emitted = <<>>
  BY DEF RelayInit
<1> QED BY <1>1, <1>2 DEF FramesInv, WaitingInv, FramesGoOutOnceInOrder, EveryLossHasAFailure

LEMMA FramesStep == FramesInv /\ [RelayNext]_relayVars => FramesInv'
<1> SUFFICES ASSUME FramesInv, [RelayNext]_relayVars PROVE FramesInv'
  OBVIOUS
<1>0. /\ RelayTypeOK /\ RelayTypeOK'
      /\ MaxArrived \in Nat /\ arrived \in 0..MaxArrived /\ pending \in 0..MaxArrived
  BY TypeStep, RelayAssumption DEF FramesInv, EveryLossHasAFailure, RelayTypeOK
<1>1. /\ pending # 0 => pending \in refused /\ pending <= arrived
      /\ \A i \in 1..Len(emitted) : /\ emitted[i].frame <= arrived
                                    /\ pending # 0 => emitted[i].frame < pending
      /\ \A f \in 1..arrived : \/ f = pending \/ f \in refused
                               \/ \E i \in 1..Len(emitted) : emitted[i].frame = f
  BY DEF FramesInv, WaitingInv, EveryLossHasAFailure
<1>2. CASE FrameSent
  <2>1. /\ arrived' = arrived + 1 /\ arrived + 1 \in 0..MaxArrived /\ pending' = 0
        /\ refused' = refused /\ Emit(arrived + 1)
    BY <1>0, <1>2 DEF FrameSent
  <2>2. \A i \in 1..Len(emitted) : emitted[i].frame < arrived + 1
    <3>1. \A i \in 1..Len(emitted) : emitted[i].frame \in Nat
      BY <1>0, EmittedFrames
    <3> QED BY <1>0, <1>1, <3>1
  <2>3. /\ FramesGoOutOnceInOrder'
        /\ \A i \in 1..Len(emitted') : emitted'[i].frame <= arrived + 1
        /\ \A i \in 1..Len(emitted) : i \in 1..Len(emitted') /\ emitted'[i] = emitted[i]
        /\ Len(emitted) + 1 \in 1..Len(emitted')
        /\ emitted'[Len(emitted) + 1].frame = arrived + 1
    <3>1. PICK k : k = arrived + 1
      OBVIOUS
    <3>2. /\ k \in 0..MaxArrived /\ k \in Nat /\ Emit(k) /\ arrived <= k /\ k <= k
          /\ \A i \in 1..Len(emitted) : emitted[i].frame < k
      BY <1>0, <2>1, <2>2, <3>1
    <3>3. /\ FramesGoOutOnceInOrder'
          /\ \A i \in 1..Len(emitted') : emitted'[i].frame <= k
          /\ \A i \in 1..Len(emitted) : i \in 1..Len(emitted') /\ emitted'[i] = emitted[i]
          /\ Len(emitted) + 1 \in 1..Len(emitted') /\ emitted'[Len(emitted) + 1].frame = k
      BY <1>0, <3>2, EmitInOrder
    <3> QED BY <3>1, <3>3
  <2>4. ASSUME NEW f \in 1..arrived'
        PROVE  f = pending' \/ f \in refused' \/ \E i \in 1..Len(emitted') : emitted'[i].frame = f
    <3>1. CASE f = arrived + 1
      BY <2>3, <3>1
    <3>2. CASE f \in 1..arrived
      BY <1>1, <2>1, <2>3, <3>2
    <3> QED BY <1>0, <2>1, <3>1, <3>2
  <2> QED BY <1>0, <2>1, <2>3, <2>4 DEF FramesInv, WaitingInv, EveryLossHasAFailure
<1>3. CASE FrameWaits
  <2>1. /\ arrived' = arrived + 1 /\ pending' = arrived + 1
        /\ refused' = refused \cup {arrived + 1} /\ emitted' = emitted
    BY <1>3 DEF FrameWaits
  <2>2. \A i \in 1..Len(emitted) : emitted[i].frame \in Nat
    BY <1>0, EmittedFrames
  <2>3. WaitingInv'
    BY <1>0, <1>1, <2>1, <2>2 DEF WaitingInv
  <2>4. FramesGoOutOnceInOrder'
    BY <2>1 DEF FramesInv, FramesGoOutOnceInOrder
  <2>5. EveryLossHasAFailure'
    BY <1>0, <1>1, <2>1 DEF EveryLossHasAFailure
  <2> QED BY <2>3, <2>4, <2>5 DEF FramesInv
<1>4. ASSUME NEW ok \in BOOLEAN, Retry(ok) PROVE FramesInv'
  <2>1. pending' = 0 /\ arrived' = arrived /\ refused' = refused
    BY <1>4 DEF Retry
  <2>2. CASE Emit(pending)
    <3>1. pending <= arrived
      BY <1>0, <1>1
    <3>2. /\ FramesGoOutOnceInOrder'
          /\ \A i \in 1..Len(emitted') : emitted'[i].frame <= arrived
          /\ \A i \in 1..Len(emitted) : i \in 1..Len(emitted') /\ emitted'[i] = emitted[i]
      BY <1>0, <1>1, <2>2, <3>1, EmitInOrder
    <3>3. WaitingInv'
      BY <2>1, <3>2 DEF WaitingInv
    <3>4. \A f \in 1..arrived : f \in refused
                                \/ \E i \in 1..Len(emitted') : emitted'[i].frame = f
      BY <1>1, <3>2
    <3>5. EveryLossHasAFailure'
      BY <1>0, <2>1, <3>4 DEF EveryLossHasAFailure
    <3> QED BY <3>2, <3>3, <3>5 DEF FramesInv
  <2>3. CASE UNCHANGED emitted
    BY <1>0, <1>1, <2>1, <2>3
       DEF FramesInv, WaitingInv, FramesGoOutOnceInOrder, EveryLossHasAFailure
  <2> QED BY <1>4, <2>2, <2>3 DEF Retry
<1>5. CASE UNCHANGED toUdp
  <2>1. UNCHANGED <<pending, arrived, emitted, refused>>
    BY <1>5 DEF toUdp
  <2> QED BY <1>0, <2>1
          DEF FramesInv, WaitingInv, FramesGoOutOnceInOrder, EveryLossHasAFailure
<1> QED BY <1>2, <1>3, <1>4, <1>5
        DEF RelayNext, QueueDatagram, QueueKeepalive, FlushSome, Flush, relayVars

\* tcp_to_udp and do_udp_send each try a frame, and a frame may overwrite one
\* that waits: still none goes out twice or after a later one.
THEOREM NoFrameTwice == RelaySpec => []FramesGoOutOnceInOrder
<1>1. FramesInv => FramesGoOutOnceInOrder
  BY DEF FramesInv
<1> QED BY <1>1, FramesInit, FramesStep, PTL DEF RelaySpec

\* Only a frame that sendto() refused is ever lost: a failure costs no other.
THEOREM NoLossWithoutFailure == RelaySpec => []EveryLossHasAFailure
<1>1. FramesInv => EveryLossHasAFailure
  BY DEF FramesInv
<1> QED BY <1>1, FramesInit, FramesStep, PTL DEF RelaySpec
==============================================================================
