-------------------------------- MODULE Relay --------------------------------
(***************************************************************************)
(* One channel of one process while its TCP connection is up: the two send *)
(* buffers, the handlers that fill them and the loop that empties them.    *)
(*                                                                         *)
(* From UDP to TCP: do_udp_recv takes a datagram, its sender becomes the   *)
(* address the UDP connection sends to, and handle_udp appends a frame to  *)
(* the TCP connection's send_zbuf, as the keepalive functions do.  do_send *)
(* hands the buffer to send() and send_cb resets it.  A byte is a pair:    *)
(* the frame it is of and its place there.  pos is reset along with las,   *)
(* so between two handlers the buffer is the bytes from start to las.      *)
(*                                                                         *)
(* From TCP to UDP: tcp_to_udp puts the data of one frame in the UDP       *)
(* connection's send_zbuf and tries to send it at once; if sendto() fails  *)
(* it waits there, until do_udp_send tries once more or the next frame     *)
(* takes its place.                                                        *)
(*                                                                         *)
(* What the loop does with several channels is UotTcpService; how the      *)
(* other end reads the stream is FrameStream.                              *)
(***************************************************************************)
EXTENDS Integers, Sequences

CONSTANTS
  Size,         \* GNB_BUF_SIZE(send_zbuf)
  FrameHead,    \* GNB_PAYLOAD16_HEAD_SIZE
  Keepalive,    \* sizeof(uot_keepalive_frame_t)
  Lengths,      \* lengths of the datagrams that arrive
  Address,      \* whom datagrams come from
  Configured,   \* the UDP address of the command line (TCP side)
  Unset,        \* an address that was never set
  MaxQueued,    \* bound: frames put in the TCP buffer
  MaxArrived    \* bound: frames taken from the TCP connection

ASSUME RelayAssumption ==
  /\ Size \in Nat \ {0} /\ FrameHead \in Nat \ {0} /\ Keepalive \in Nat
  /\ Lengths \subseteq Nat /\ MaxQueued \in Nat /\ MaxArrived \in Nat
  /\ Configured \in Address /\ Unset \notin Address

VARIABLES
  process,   \* which process this is: "tcp" or "udp"
  blocking,  \* the TCP connection's socket blocks: O_NONBLOCK is not set on it
  tcpBuf,    \* tcp_conn->send_zbuf
  tcpArmed,  \* WRITE is enabled for the TCP connection's event
  frames,    \* how many frames have been queued
  queued,    \* the bytes of those frames (history)
  tcpWire,   \* the bytes send() has taken (history)
  pending,   \* the frame whose data is in udp_conn->send_zbuf; 0: none is
  udpArmed,  \* WRITE is enabled for the UDP connection's event
  remote,    \* udp_conn->remote_sockaddress
  arrived,   \* how many frames have come from the TCP connection
  emitted,   \* the datagrams sendto() took (history); frame 0 is an empty one
  refused    \* the frames whose data sendto() did not take (history)

toTcp == <<tcpBuf, tcpArmed, frames, queued, tcpWire>>
toUdp == <<pending, udpArmed, arrived, emitted, refused>>
relayVars == <<process, blocking, toTcp, toUdp, remote>>

QueuedByte == (1..MaxQueued) \X (Nat \ {0})
Datagram == [frame : 0..MaxArrived, to : Address \cup {Unset}]

\* The buffers hold what has been queued or has arrived, and nothing else.
RelayTypeOK ==
  /\ process \in {"tcp", "udp"} /\ blocking \in BOOLEAN
  /\ tcpBuf \in Seq(QueuedByte) /\ queued \in Seq(QueuedByte) /\ tcpWire \in Seq(QueuedByte)
  /\ tcpArmed \in BOOLEAN /\ udpArmed \in BOOLEAN
  /\ frames \in 0..MaxQueued /\ arrived \in 0..MaxArrived
  /\ pending \in 0..MaxArrived
  /\ remote \in Address \cup {Unset}
  /\ emitted \in Seq(Datagram) /\ refused \subseteq 1..MaxArrived

\* Whether the TCP connection's socket blocks.  gnb_network_service_connect
\* sets O_NONBLOCK, so the UDP side's never does.  do_accept sets nothing: a
\* socket accept() returns blocks on Linux, and elsewhere has the O_NONBLOCK
\* that gnb_network_service_listen set on the listener.
MayBlock == IF process = "tcp" THEN BOOLEAN ELSE {FALSE}

\* accept_cb sets the address of the channel's UDP connection; the UDP side's
\* is the one of the last datagram, and of none before the first.
RelayInit ==
  /\ process \in {"tcp", "udp"} /\ blocking \in MayBlock
  /\ tcpBuf = <<>> /\ tcpArmed = FALSE /\ frames = 0 /\ queued = <<>> /\ tcpWire = <<>>
  /\ pending = 0 /\ udpArmed = FALSE /\ arrived = 0 /\ emitted = <<>> /\ refused = {}
  /\ remote = IF process = "tcp" THEN Configured ELSE Unset

-----------------------------------------------------------------------------
(***************************************************************************)
(* UDP to TCP.                                                             *)
(***************************************************************************)

\* Mutant: GNB_BUF_SIZE in its place.
RemainTotal == Size

\* GNB_BUF_REMAIN, negative once las has passed end.
Remain == Size - Len(tcpBuf)

\* The frame's head and n bytes of data are written at las.
PutFrame(n) ==
  LET frame == [k \in 1..(FrameHead + n) |-> <<frames + 1, k>>]
  IN /\ tcpBuf' = tcpBuf \o frame
     /\ queued' = queued \o frame
     /\ frames' = frames + 1

\* A datagram of n bytes from a.  The frame's head is not counted when the
\* datagram is measured; one that does not fit is dropped, and WRITE is asked
\* for unless no empty buffer could hold it.
QueueDatagram(n, a) ==
  /\ frames < MaxQueued
  /\ remote' = a
  /\ IF n > Remain THEN UNCHANGED <<tcpBuf, queued, frames>> ELSE PutFrame(n)
  /\ tcpArmed' = (tcpArmed \/ n <= Size)
  /\ UNCHANGED <<process, blocking, tcpWire, toUdp>>

\* Mutant: WRITE is not asked for.
QueueKeepaliveSilently ==
  /\ frames < MaxQueued
  /\ IF Remain >= 0 /\ FrameHead + Keepalive > Remain
     THEN UNCHANGED <<tcpBuf, queued, frames>> ELSE PutFrame(Keepalive)
  /\ UNCHANGED <<process, blocking, tcpArmed, tcpWire, toUdp, remote>>

\* send_keepalive_frame, and the echo for a keepalive that was received.  The
\* comparison is unsigned: a negative Remain is larger than any frame.
QueueKeepalive ==
  /\ frames < MaxQueued
  /\ IF Remain >= 0 /\ FrameHead + Keepalive > Remain
     THEN UNCHANGED <<tcpBuf, queued, frames>> ELSE PutFrame(Keepalive)
  /\ tcpArmed' = TRUE
  /\ UNCHANGED <<process, blocking, tcpWire, toUdp, remote>>

\* Mutant: send_cb does not reset the buffer.
FlushKeeping(k) ==
  /\ tcpArmed
  /\ IF blocking \/ tcpBuf = <<>> THEN k = Len(tcpBuf) ELSE k \in 1..Len(tcpBuf)
  /\ tcpWire' = tcpWire \o SubSeq(tcpBuf, 1, k)
  /\ tcpArmed' = FALSE
  /\ UNCHANGED <<process, blocking, tcpBuf, frames, queued, toUdp, remote>>

\* do_send when send() takes k bytes, all of them on a socket that blocks: WRITE
\* is disabled and send_cb resets the buffer.  (With EAGAIN, EINTR or ENOBUFS
\* do_send changes nothing.)
Flush(k) ==
  /\ tcpArmed
  /\ IF blocking \/ tcpBuf = <<>> THEN k = Len(tcpBuf) ELSE k \in 1..Len(tcpBuf)
  /\ tcpWire' = tcpWire \o SubSeq(tcpBuf, 1, k)
  /\ tcpBuf' = <<>>
  /\ tcpArmed' = FALSE
  /\ UNCHANGED <<process, blocking, frames, queued, toUdp, remote>>

-----------------------------------------------------------------------------
(***************************************************************************)
(* TCP to UDP.                                                             *)
(***************************************************************************)

Emit(frame) == emitted' = Append(emitted, [frame |-> frame, to |-> remote])

\* Mutants: the buffer is not reset after the data has gone; a frame is dropped
\* because the one that waits has not made room for it.
FrameSentKeeping ==
  /\ arrived < MaxArrived
  /\ arrived' = arrived + 1
  /\ Emit(arrived + 1)
  /\ UNCHANGED <<process, blocking, toTcp, remote, pending, udpArmed, refused>>

FrameDropped ==
  /\ arrived < MaxArrived
  /\ arrived' = arrived + 1
  /\ IF pending = 0 THEN Emit(arrived + 1) ELSE UNCHANGED emitted
  /\ UNCHANGED <<process, blocking, toTcp, remote, pending, udpArmed, refused>>

\* tcp_to_udp when sendto() takes the data.  WRITE stays enabled if it was.
FrameSent ==
  /\ arrived < MaxArrived
  /\ arrived' = arrived + 1
  /\ Emit(arrived + 1)
  /\ pending' = 0
  /\ UNCHANGED <<process, blocking, toTcp, remote, udpArmed, refused>>

\* tcp_to_udp when it does not: what waited before is overwritten.
FrameWaits ==
  /\ arrived < MaxArrived
  /\ arrived' = arrived + 1
  /\ pending' = arrived + 1
  /\ udpArmed' = TRUE
  /\ refused' = refused \cup {arrived + 1}
  /\ UNCHANGED <<process, blocking, toTcp, remote, emitted>>

\* do_udp_send: whatever the buffer holds is sent, nothing included; the
\* buffer is reset and WRITE disabled whether or not sendto() took it.
Retry(ok) ==
  /\ udpArmed
  /\ IF ok THEN Emit(pending) ELSE UNCHANGED emitted
  /\ pending' = 0
  /\ udpArmed' = FALSE
  /\ UNCHANGED <<process, blocking, toTcp, remote, arrived, refused>>

-----------------------------------------------------------------------------
FlushSome == \E k \in 0..Len(tcpBuf) : Flush(k)

RelayNext ==
  \/ \E n \in Lengths, a \in Address : QueueDatagram(n, a)
  \/ QueueKeepalive
  \/ FlushSome
  \/ FrameSent
  \/ FrameWaits
  \/ \E ok \in BOOLEAN : Retry(ok)

RelaySpec == RelayInit /\ [][RelayNext]_relayVars

\* The loop polls again and again, and the other end goes on reading, so
\* send() does not answer EAGAIN for ever.
RelayFairSpec == RelaySpec /\ WF_relayVars(FlushSome)

-----------------------------------------------------------------------------
(***************************************************************************)
(* Safety.                                                                 *)
(***************************************************************************)

\* README.md:92: what is received from UDP goes to the other end of the link.
\* What the kernel took and what waits are the bytes that were queued; frames
\* have no mark to find the next one by, so one lost byte is too many.
WireIsTheQueuedBytes == tcpWire \o tcpBuf = queued

\* So it is where the socket blocks, as the TCP side's does on Linux: a datagram
\* that does not fit is dropped whole, and WRITE, send() and the reset of the
\* buffer between them lose and repeat nothing, even when the buffer overruns.
BlockingSocketLosesNothing == blocking => WireIsTheQueuedBytes

\* Where send() may take a part, no byte goes twice or overtakes another: what
\* do_send and send_cb lose between them is always the tail of a buffer.
WireKeepsTheOrder ==
  \A i, j \in 1..Len(tcpWire) :
    i < j => \/ tcpWire[i][1] < tcpWire[j][1]
             \/ tcpWire[i][1] = tcpWire[j][1] /\ tcpWire[i][2] < tcpWire[j][2]

\* Datagrams alone pass the end of the buffer once, by no more than the head
\* that handle_udp forgets to measure; after that only keepalives are appended,
\* as long as nothing is sent.
FirstOverrunIsAHead ==
  [][Len(tcpBuf') > Size =>
       \/ Len(tcpBuf) <= Size /\ Len(tcpBuf') <= Size + FrameHead
       \/ Len(tcpBuf) > Size /\ Len(tcpBuf') = Len(tcpBuf) + FrameHead + Keepalive
       \/ tcpBuf' = tcpBuf]_relayVars

\* A frame's data goes out at most once and never after a later frame's,
\* although it is tried once in tcp_to_udp and once more in do_udp_send.  (Frame
\* 0 is the empty datagram of a do_udp_send with nothing to send.)
FramesGoOutOnceInOrder ==
  \A i, j \in 1..Len(emitted) :
    i < j /\ emitted[i].frame # 0 /\ emitted[j].frame # 0
      => emitted[i].frame < emitted[j].frame

\* Data that is neither sent nor waiting was the victim of a failed sendto() of
\* its own: a frame that takes the place of a waiting one, or a retry that
\* fails, loses no other.
EveryLossHasAFailure ==
  /\ RelayTypeOK
  /\ \A f \in 1..arrived : \/ f = pending \/ f \in refused
                           \/ \E i \in 1..Len(emitted) : emitted[i].frame = f

(***************************************************************************)
(* Liveness.                                                               *)
(***************************************************************************)

\* What is queued is sent: every handler that appends asks for WRITE, and WRITE
\* is disabled only when the buffer is empty (GNB_SERVICE_NOTIFY_SEND).
EverythingQueuedIsSent == []<>(tcpBuf = <<>>)
==============================================================================
