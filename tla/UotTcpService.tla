---------------------------- MODULE UotTcpService ----------------------------
(***************************************************************************)
(* The TCP side (`gnb_udp_over_tcp -t`): the event loop of                 *)
(* gnb_network_service.c driving the callbacks of uot_tcp_service.c.       *)
(*                                                                         *)
(* Every accepted TCP connection gets a UDP socket of its own; the two     *)
(* connections and the table entry that joins them are a channel.  The     *)
(* loop takes a batch of ready events from the kernel, dispatches them one *)
(* by one, runs idle_cb and polls again.  A handler may close the channel  *)
(* of an event that still waits in the same batch, and the closed          *)
(* channel's events may be handed out again before the batch is over.      *)
(*                                                                         *)
(* Left to other modules: what the bytes mean (Payload16), the table's own *)
(* lists and maps (here a sequence, youngest first).  The data path is     *)
(* kept as far as the loop sees it: whether a send buffer holds anything   *)
(* and whether WRITE is enabled for the event.                             *)
(***************************************************************************)
EXTENDS Integers, Sequences, FiniteSets, FixedPool, WallClock

CONSTANTS
  Chan,              \* channel records the heap can hold at one time (bound)
  NumEvents,         \* max_event: events in event_fixed_pool
  FdLimit,           \* sockets the process may have open, the listener included
  LruSize,           \* max_size of channel_lru
  MaxBatch,          \* MAX_GET_GNB_EVENT
  KeepaliveTimeout,  \* GNB_UOT_KEEPALIVE_TIMEOUT_SEC
  Word,              \* 2^64: the width of the subtraction in service_idle_cb
  ClockSteps,        \* seconds the wall clock may move between two polls
  Reports,           \* flag sets the kernel may report for an event
  Listener,          \* conn_array->conn[0]
  NoConn             \* udata that names no live connection

Conn == Chan \X {"tcp", "udp"}
Tcp(c) == <<c, "tcp">>
Udp(c) == <<c, "udp">>

Event == 0 .. (NumEvents - 1)
Fd == 0 .. (FdLimit - 1)

ASSUME ConstantsAssumption ==
  /\ NumEvents \in Nat \ {0} /\ FdLimit \in Nat \ {0}
  /\ LruSize \in Nat \ {0} /\ MaxBatch \in Nat \ {0}
  /\ KeepaliveTimeout \in Nat /\ Word \in Nat /\ Word > KeepaliveTimeout + 2
  /\ ClockSteps \subseteq {-1, 0, 1}
  /\ Reports \subseteq (SUBSET {"READ", "WRITE", "EOF", "ERROR"}) \ {{}}
  /\ Listener \notin Conn /\ NoConn \notin Conn /\ Listener # NoConn

VARIABLES
  pool,      \* service->event_fixed_pool
  owner,     \* event->udata, with the fd_type that goes with it
  interest,  \* what the kernel watches for the event; {}: not registered
  evType,    \* event->ev_type while the event waits in the batch, else {}
  chans,     \* the channels that exist
  event,     \* conn->event
  fd,        \* conn->fd
  openFd,    \* descriptors the process holds
  unsent,    \* connections whose send_zbuf is not empty
  age,       \* now_time_sec - keepalive_ts_sec of a channel
  lru,       \* channel_lru, head first
  phase,     \* "poll": in get_event, "dispatch": going through the batch
  crashed    \* the process has died

vars == <<pool, owner, interest, evType, chans, event, fd, openFd, unsent,
          age, lru, phase, crashed>>

tables == <<pool, owner, interest, chans, event, fd, openFd, lru>>

\* Events are named by the pool's indices; an age never leaves its bounds, and
\* ev_type FINISH is the only flag of our own.
TypeOK ==
  /\ pool.array \in [Event -> Event \cup {NULL}] /\ pool.num \in 0..NumEvents
  /\ owner \in [Event -> Conn \cup {Listener, NoConn}]
  /\ interest \in [Event -> SUBSET {"READ", "WRITE"}]
  /\ evType \in [Event -> SUBSET {"READ", "WRITE", "EOF", "ERROR", "FINISH"}]
  /\ chans \subseteq Chan
  /\ event \in [Conn -> Event \cup {NULL}]
  /\ fd \in [Conn -> Fd \cup {NULL}]
  /\ openFd \subseteq Fd
  /\ unsent \subseteq Conn
  /\ age \in [Chan -> -1 .. (KeepaliveTimeout + 1)]
  /\ lru \in Seq(Chan)
  /\ phase \in {"poll", "dispatch"}
  /\ crashed \in BOOLEAN

Pending == {e \in Event : evType[e] # {}}
LiveConn == {x \in Conn : x[1] \in chans}
\* Mutant: idle_cb looks at the head of the table instead of its tail.
YoungestChannel == lru[1]

OldestChannel == lru[Len(lru)]

-----------------------------------------------------------------------------
(***************************************************************************)
(* Start: listen() opened the listening socket, and the head of            *)
(* gnb_network_service_loop popped an event for it and registered it.      *)
(***************************************************************************)
ListenFd == 0
ListenEvent == PoolTop(PoolCreate(NumEvents))

Init ==
  /\ pool = PoolPop(PoolCreate(NumEvents))
  /\ owner = [e \in Event |-> IF e = ListenEvent THEN Listener ELSE NoConn]
  /\ interest = [e \in Event |-> IF e = ListenEvent THEN {"READ"} ELSE {}]
  /\ evType = [e \in Event |-> {}]
  /\ chans = {}
  /\ event = [x \in Conn |-> NULL]
  /\ fd = [x \in Conn |-> NULL]
  /\ openFd = {ListenFd}
  /\ unsent = {}
  /\ age = [c \in Chan |-> 0]
  /\ lru = <<>>
  /\ phase = "poll"
  /\ crashed = FALSE

\* A NULL event is dereferenced, or a block is freed a second time.
Crash == crashed' = TRUE /\ UNCHANGED <<tables, evType, unsent, age, phase>>

-----------------------------------------------------------------------------
(***************************************************************************)
(* sync_time, then get_event.  The kernel returns at most MaxBatch events, *)
(* in an order of its own: the batch is a set, and the loop may take any   *)
(* of it next.  ev_type is modelled for the events of the batch only: the  *)
(* code reads it at no other time.                                         *)
(***************************************************************************)
Registered == {e \in Event : interest[e] # {}}

Reportable(e) ==
  {F \in Reports : /\ F \cap {"READ", "WRITE"} \subseteq interest[e]
                   /\ owner[e] \notin {Tcp(c) : c \in Chan}
                         => F \subseteq {"READ", "WRITE"}}

Poll(d) ==
  /\ ~crashed /\ phase = "poll"
  /\ age' \in [Chan -> -1 .. (KeepaliveTimeout + 1)]
  /\ \A c \in Chan : age'[c] \in IF c \in chans
                                 THEN AgesAfter(age[c], d, KeepaliveTimeout + 1)
                                 ELSE {0}
  /\ \E batch \in SUBSET Registered :
       /\ Cardinality(batch) <= MaxBatch
       /\ \E report \in [batch -> Reports] :
            /\ \A e \in batch : report[e] \in Reportable(e)
            /\ evType' = [e \in Event |-> IF e \in batch THEN report[e] ELSE {}]
  /\ phase' = "dispatch"
  /\ UNCHANGED <<tables, unsent, crashed>>

\* The guard every dispatch shares: e is taken from the batch and is not
\* marked as closed by an earlier handler of the same batch.
Dispatched(e) ==
  /\ ~crashed /\ phase = "dispatch"
  /\ e \in Pending /\ evType[e] # {"FINISH"}

\* The head of handle_tcp_event and of handle_udp_event.
SkipFinished(e) ==
  /\ ~crashed /\ phase = "dispatch"
  /\ evType[e] = {"FINISH"}
  /\ evType' = [evType EXCEPT ![e] = {}]
  /\ UNCHANGED <<tables, unsent, age, phase, crashed>>

-----------------------------------------------------------------------------
(***************************************************************************)
(* gnb_connection_close and gnb_connection_release on both connections of  *)
(* the channels V (at most one), with the table entry gone and the channel *)
(* record freed.  Every caller closes the TCP connection first, so its     *)
(* event goes back to the pool below the UDP connection's.                 *)
(***************************************************************************)
EventsOf(V) == {event[Tcp(c)] : c \in V} \cup {event[Udp(c)] : c \in V}

\* Mutant: accept_cb and close_cb close the TCP connection's descriptor only.
FdsOfTcp(V) == {fd[Tcp(c)] : c \in V}

FdsOf(V) == {fd[Tcp(c)] : c \in V} \cup {fd[Udp(c)] : c \in V}

\* Mutant: the event of the UDP connection does not go back.
PoolAfterCloseTcp(p, V) ==
  IF V = {} THEN p ELSE PoolPush(p, event[Tcp(CHOOSE x \in V : TRUE)])

PoolAfterClose(p, V) ==
  IF V = {} THEN p
  ELSE LET c == CHOOSE x \in V : TRUE
       IN PoolPush(PoolPush(p, event[Tcp(c)]), event[Udp(c)])

\* Mutant: gnb_connection_close does not set ev_type.
MarkFinishedForgotten(et, V) == et

MarkFinished(et, V) ==
  [e \in Event |-> IF e \in EventsOf(V) /\ et[e] # {} THEN {"FINISH"} ELSE et[e]]

\* A UDP connection that never got its socket has no event to close.
CloseIsFatal(V) == NULL \in EventsOf(V)

\* Mutant: close_cb leaves the entry in the table.
PopByKeyForgotten(s, c) == s

\* gnb_lru32_pop_by_key with the descriptor of c as the key.
PopByKey(s, c) ==
  IF \A i \in DOMAIN s : s[i] # c THEN s
  ELSE LET i == CHOOSE j \in DOMAIN s : s[j] = c
       IN SubSeq(s, 1, i - 1) \o SubSeq(s, i + 1, Len(s))

CloseChannel(c) ==
  /\ pool' = PoolAfterClose(pool, {c})
  /\ owner' = [e \in Event |-> IF e \in EventsOf({c}) THEN NoConn ELSE owner[e]]
  /\ interest' = [e \in Event |-> IF e \in EventsOf({c}) THEN {} ELSE interest[e]]
  /\ evType' = MarkFinished(evType, {c})
  /\ chans' = chans \ {c}
  /\ event' = [event EXCEPT ![Tcp(c)] = NULL, ![Udp(c)] = NULL]
  /\ fd' = [fd EXCEPT ![Tcp(c)] = NULL, ![Udp(c)] = NULL]
  /\ openFd' = openFd \ FdsOf({c})
  /\ unsent' = unsent \ {Tcp(c), Udp(c)}
  /\ lru' = PopByKey(lru, c)
  /\ UNCHANGED age

-----------------------------------------------------------------------------
(***************************************************************************)
(* do_accept and service_accept_cb, run when the listener is reported.     *)
(***************************************************************************)
Consume(e) == [evType EXCEPT ![e] = {}]

\* Mutant: handle_tcp_event uses the connection of a do_accept that failed.
AcceptFailsUnchecked(e) == Dispatched(e) /\ owner[e] = Listener /\ Crash

\* accept() fails: the client is gone again, or descriptors have run out.
AcceptFails(e) ==
  /\ Dispatched(e) /\ owner[e] = Listener
  /\ evType' = Consume(e)
  /\ UNCHANGED <<tables, unsent, age, phase, crashed>>

\* The lowest free descriptors, as socket() and accept() hand them out.
LowestFd(f, used) == f \in Fd \ used /\ \A g \in Fd \ used : f <= g

\* The table is full: gnb_lru32_put takes out the oldest channel.
Evicted == IF Len(lru) >= LruSize THEN {OldestChannel} ELSE {}

\* Mutants: the entry is the connection and not the channel; nothing is taken
\* out of a full table.
LruPutConn(s, c) == <<Tcp(c)>> \o s
LruPutOver(s, c) == <<c>> \o s

LruPut(s, c) ==
  <<c>> \o (IF Len(s) >= LruSize THEN SubSeq(s, 1, Len(s) - 1) ELSE s)

\* gnb_fixed_pool_pop is not checked for NULL, by do_accept or, when the UDP
\* socket could be opened, by gnb_network_service_udp_channel; nor is the
\* event of the connections gnb_connection_close takes down.
AcceptFatal(e) ==
  /\ Dispatched(e) /\ owner[e] = Listener
  /\ chans # Chan /\ openFd # Fd
  /\ \/ pool.num = 0
     \/ pool.num = 1 /\ Cardinality(Fd \ openFd) >= 2
     \/ CloseIsFatal(Evicted)
  /\ Crash

\* The channel c enters the table with TCP event te on descriptor tf and UDP
\* event ue on descriptor uf; ue = uf = NULL when its UDP socket failed.
\* p is the pool after the pops.
Enter(c, p, te, tf, ue, uf) ==
  LET V == Evicted
      Owner(e) == IF e = te THEN Tcp(c) ELSE IF e = ue THEN Udp(c)
                  ELSE IF e \in EventsOf(V) THEN NoConn ELSE owner[e]
      Set(f, t, u) == [x \in Conn |-> IF x = Tcp(c) THEN t ELSE IF x = Udp(c) THEN u
                                      ELSE IF x[1] \in V THEN NULL ELSE f[x]]
  IN /\ pool' = PoolAfterClose(p, V)
     /\ owner' = [e \in Event |-> Owner(e)]
     /\ interest' = [e \in Event |-> IF e \in {te, ue} THEN {"READ"}
                       ELSE IF e \in EventsOf(V) THEN {} ELSE interest[e]]
     /\ chans' = (chans \ V) \cup {c}
     /\ event' = Set(event, te, ue)
     /\ fd' = Set(fd, tf, uf)
     /\ openFd' = (openFd \ FdsOf(V)) \cup ({tf, uf} \ {NULL})
     /\ unsent' = unsent \ {x \in Conn : x[1] \in V}
     /\ age' = [age EXCEPT ![c] = 0]
     /\ lru' = LruPut(lru, c)

\* The evicted channel's record is freed twice; the second gnb_heap_free reads
\* a freed fragment and is either refused or ends the process.
AcceptChannel(e) ==
  /\ Dispatched(e) /\ owner[e] = Listener
  /\ pool.num > 0 /\ ~CloseIsFatal(Evicted)
  /\ \E c \in Chan \ chans, tf \in Fd :
       LET te == PoolTop(pool)
           p1 == PoolPop(pool)
       IN /\ LowestFd(tf, openFd)
          /\ \/ /\ openFd \cup {tf} = Fd              \* socket() fails
                /\ Enter(c, p1, te, tf, NULL, NULL)
             \/ /\ p1.num > 0
                /\ \E uf \in Fd : /\ LowestFd(uf, openFd \cup {tf})
                                  /\ Enter(c, PoolPop(p1), te, tf, PoolTop(p1), uf)
  /\ evType' = MarkFinished(Consume(e), Evicted)
  /\ crashed' \in IF Evicted = {} THEN {FALSE} ELSE BOOLEAN
  /\ phase' = phase

-----------------------------------------------------------------------------
(***************************************************************************)
(* handle_tcp_event on a channel's TCP connection: do_send when WRITE is   *)
(* reported, then do_recv when READ is, then do_close.                     *)
(***************************************************************************)
IsTcpOf(e, c) == c \in chans /\ owner[e] = Tcp(c)

\* What one recv() may bring: whether a keepalive frame is among the frames,
\* and what became of the datagrams that were sent on for it.
Receipt == [echo : BOOLEAN,
            datagrams : {"none", "sent", "failed", "failed then sent"}]

Unreceived == [echo |-> FALSE, datagrams |-> "none"]

\* Mutant: the data is queued and WRITE is not enabled.
NotifyForgotten(w, X) == w

\* NOTIFY_SEND: WRITE is enabled for the events of the connections X.
Notify(w, X) == [e \in Event |-> IF owner[e] \in X THEN w[e] \cup {"WRITE"} ELSE w[e]]

\* do_close: the kernel reported the end of the connection or an error, recv()
\* returned 0 or failed, a frame was refused (status TCP_CONNECT_FINISH), or
\* send() failed.
TcpClose(e, c) ==
  /\ Dispatched(e) /\ IsTcpOf(e, c)
  /\ \/ evType[e] \cap {"EOF", "ERROR", "READ"} # {}
     \/ "WRITE" \in evType[e] /\ Tcp(c) \in unsent
  /\ IF CloseIsFatal({c}) THEN Crash
     ELSE CloseChannel(c) /\ UNCHANGED <<phase, crashed>>

\* The connection stays.  `again`: send() met EAGAIN, EINTR or ENOBUFS and
\* nothing of the buffer went; otherwise do_send ends with WRITE disabled and
\* send_cb resetting the buffer.  `heard`: recv() returned data.
TcpServe(e, c) ==
  /\ Dispatched(e) /\ IsTcpOf(e, c)
  /\ evType[e] \cap {"EOF", "ERROR"} = {}
  /\ \E again, heard \in BOOLEAN, r \in Receipt :
       LET sent == "WRITE" \in evType[e] /\ ~again
           toTcp == IF r.echo THEN {Tcp(c)} ELSE {}
           toUdp == IF r.datagrams \in {"failed", "failed then sent"}
                    THEN {Udp(c)} ELSE {}
           disabled == IF sent THEN [interest EXCEPT ![e] = @ \ {"WRITE"}]
                       ELSE interest
           flushed == IF sent THEN unsent \ {Tcp(c)} ELSE unsent
       IN /\ again => "WRITE" \in evType[e] /\ Tcp(c) \in unsent
          /\ heard => "READ" \in evType[e]
          /\ ~heard => r = Unreceived
          /\ r.datagrams # "none" => event[Udp(c)] # NULL
          /\ interest' = Notify(disabled, toTcp \cup toUdp)
          /\ unsent' = CASE r.datagrams = "none" -> flushed \cup toTcp
                         [] r.datagrams = "failed" -> flushed \cup toTcp \cup {Udp(c)}
                         [] OTHER -> (flushed \cup toTcp) \ {Udp(c)}
          /\ age' = IF heard THEN [age EXCEPT ![c] = 0] ELSE age
  /\ evType' = Consume(e)
  /\ UNCHANGED <<pool, owner, chans, event, fd, openFd, lru, phase, crashed>>

\* A datagram for a channel without a UDP socket: send_zbuf is NULL.
TcpServeWithoutUdp(e, c) ==
  /\ Dispatched(e) /\ IsTcpOf(e, c)
  /\ "READ" \in evType[e] /\ event[Udp(c)] = NULL
  /\ Crash

-----------------------------------------------------------------------------
(***************************************************************************)
(* handle_udp_event on a channel's UDP connection: do_udp_send when WRITE  *)
(* is reported (whatever sendto returned, the buffer is reset and WRITE    *)
(* disabled), then do_udp_recv when READ is.  `heard`: recvfrom returned a *)
(* datagram; handle_udp puts it in the TCP connection's buffer, or finds   *)
(* that buffer full, and in either case asks for WRITE.                    *)
(***************************************************************************)
UdpServe(e, c) ==
  /\ Dispatched(e) /\ c \in chans /\ owner[e] = Udp(c)
  /\ \E heard \in BOOLEAN :
       LET sent == "WRITE" \in evType[e]
           disabled == IF sent THEN [interest EXCEPT ![e] = @ \ {"WRITE"}]
                       ELSE interest
           flushed == IF sent THEN unsent \ {Udp(c)} ELSE unsent
           toTcp == IF heard THEN {Tcp(c)} ELSE {}
       IN /\ heard => "READ" \in evType[e]
          /\ interest' = Notify(disabled, toTcp)
          /\ unsent' = flushed \cup toTcp
  /\ evType' = Consume(e)
  /\ UNCHANGED <<pool, owner, chans, event, fd, openFd, age, lru, phase, crashed>>

-----------------------------------------------------------------------------
(***************************************************************************)
(* service_idle_cb, after every batch: the oldest channel is closed when   *)
(* it has been silent for longer than the timeout.  The subtraction is     *)
(* unsigned: a clock set back makes it huge.                               *)
(***************************************************************************)
Expired(c) == IsOver(age[c], KeepaliveTimeout, Word)

BatchDone == ~crashed /\ phase = "dispatch" /\ Pending = {}

IdleKeep ==
  /\ BatchDone
  /\ lru # <<>> => ~Expired(OldestChannel)
  /\ phase' = "poll"
  /\ UNCHANGED <<tables, evType, unsent, age, crashed>>

IdleClose ==
  /\ BatchDone
  /\ lru # <<>> /\ Expired(OldestChannel)
  /\ IF CloseIsFatal({OldestChannel}) THEN Crash
     ELSE CloseChannel(OldestChannel) /\ phase' = "poll" /\ UNCHANGED crashed

-----------------------------------------------------------------------------
Dispatch(e) ==
  \/ SkipFinished(e)
  \/ AcceptFails(e) \/ AcceptFatal(e) \/ AcceptChannel(e)
  \/ \E c \in Chan : \/ TcpClose(e, c) \/ TcpServe(e, c)
                     \/ TcpServeWithoutUdp(e, c) \/ UdpServe(e, c)

Next ==
  \/ \E d \in ClockSteps : Poll(d)
  \/ \E e \in Event : Dispatch(e)
  \/ IdleKeep
  \/ IdleClose

Spec == Init /\ [][Next]_vars

\* The loop never stops by itself, and the wall clock moves on: it cannot be
\* polled for ever without a second passing.
Fairness == WF_vars(Next) /\ SF_vars(Poll(1))

FairSpec == Spec /\ Fairness

-----------------------------------------------------------------------------
(***************************************************************************)
(* Safety.                                                                 *)
(***************************************************************************)

\* gnb_event.h:37-41: an event of the batch that is not marked FINISH belongs
\* to a connection that is still there and that regards the event as its own,
\* however many channels the batch has closed and accepted before it.
NoStaleDispatch ==
  \A e \in Pending : evType[e] # {"FINISH"} =>
    \/ owner[e] = Listener
    \/ owner[e] \in LiveConn /\ event[owner[e]] = e

\* Every event is in the pool exactly once or with exactly one connection, and
\* the kernel watches exactly those that are with one: no event is lost, given
\* out twice or returned twice by the close paths.
EventsAccounted ==
  /\ PoolOK(pool, NumEvents)
  /\ \A e \in Event : /\ e \in PoolFree(pool) <=> owner[e] = NoConn
                      /\ e \in PoolFree(pool) <=> interest[e] = {}
  /\ \A x \in Conn : event[x] # NULL => x \in LiveConn /\ owner[event[x]] = x
  /\ \A e \in Event : owner[e] \in Conn => event[owner[e]] = e

\* The process holds the listening socket and the sockets of its channels, no
\* two of which share a descriptor: nothing leaks and nothing is closed twice.
DescriptorsAccounted ==
  /\ openFd = {ListenFd} \cup ({fd[x] : x \in LiveConn} \ {NULL})
  /\ \A x \in LiveConn : fd[x] # ListenFd /\ (fd[x] = NULL <=> event[x] = NULL)
  /\ \A x, y \in LiveConn : fd[x] = fd[y] /\ fd[x] # NULL => x = y

\* channel_lru lists every channel once and nothing else, so idle_cb and the
\* eviction of service_accept_cb can only take down a channel that exists.
TableMatchesChannels ==
  /\ {lru[i] : i \in DOMAIN lru} = chans
  /\ \A i, j \in DOMAIN lru : lru[i] = lru[j] => i = j

\* Whatever waits in a send buffer has WRITE enabled for its event: nothing
\* that was queued is forgotten by the loop (GNB_SERVICE_NOTIFY_SEND).
UnsentIsArmed ==
  \A x \in unsent : x \in LiveConn /\ "WRITE" \in interest[event[x]]

\* README.md:83-84: each TCP link that is accepted gets a UDP socket, and any
\* number of links may be there at a time; so the process survives a link for
\* which there is no descriptor left.
NeverCrashes == ~crashed

\* What it takes to bring the process down: the pool or the table is at its
\* limit when a connection is accepted, or a channel was accepted when only
\* one descriptor was left and has no UDP connection.
CrashesOnlyAtALimit ==
  [][crashed' => \/ crashed
                 \/ pool.num < 2
                 \/ Len(lru) = LruSize
                 \/ \E c \in chans : fd[Udp(c)] = NULL]_vars

(***************************************************************************)
(* Liveness.                                                               *)
(***************************************************************************)

\* c and every channel accepted before it have had no sign of life for a while.
SilentWithElders(c) ==
  /\ c \in chans
  /\ \A i, j \in DOMAIN lru : lru[i] = c /\ j >= i => age[lru[j]] # 0

\* A channel that stays silent is closed in the end, if those accepted before
\* it stay silent too: service_idle_cb looks at the tail of the table only,
\* and the table is in the order of acceptance.
SilentChannelsAreClosed == \A c \in Chan : []<>~SilentWithElders(c)
==============================================================================
