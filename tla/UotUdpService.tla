---------------------------- MODULE UotUdpService ----------------------------
(***************************************************************************)
(* The UDP side (`gnb_udp_over_tcp -u`): the event loop of                 *)
(* gnb_network_service.c driving the callbacks of uot_udp_service.c.       *)
(*                                                                         *)
(* One UDP socket takes the local datagrams and one TCP link carries them  *)
(* to the other end.  The link is opened before the loop starts and again  *)
(* by idle_cb some time after it was lost; idle_cb also queues keepalives  *)
(* and gives up a link that has been silent for too long.                  *)
(*                                                                         *)
(* `link` is channel->tcp_conn with its status: "none" is NULL, "wait"     *)
(* TCP_CONNECT_WAIT, "up" TCP_CONNECT_SUCCESS, and "failed" a record whose *)
(* connect() or socket() failed at once and that nothing takes away.  Only *)
(* an "up" link has its two buffers.                                       *)
(***************************************************************************)
EXTENDS Integers, FiniteSets, FixedPool, WallClock

CONSTANTS
  NumEvents,          \* max_event: events in event_fixed_pool
  ReconnectInterval,  \* DEFAULT_TCP_RECONNECT_INTERVAL_TIME_SEC
  KeepaliveInterval,  \* GNB_UOT_SEND_KEEPALIVE_INTERVAL_TIME_SEC
  KeepaliveTimeout,   \* GNB_UOT_KEEPALIVE_TIMEOUT_SEC
  Word,               \* 2^64: the width of the subtractions in service_idle_cb
  ClockSteps,         \* seconds the wall clock may move between two polls
  Outcomes            \* what becomes of an attempt to connect

Event == 0 .. (NumEvents - 1)

ASSUME ConstantsAssumption ==
  /\ NumEvents \in Nat /\ NumEvents >= 2
  /\ ReconnectInterval \in Nat /\ KeepaliveInterval \in Nat /\ KeepaliveTimeout \in Nat
  /\ Word \in Nat /\ Word > ReconnectInterval + KeepaliveInterval + KeepaliveTimeout + 2
  /\ ClockSteps \subseteq {-1, 0, 1}
  /\ Outcomes \subseteq {"now", "progress", "refused", "nosocket"}

VARIABLES
  pool,          \* service->event_fixed_pool
  udpEvent,      \* channel->udp_conn->event
  linkEvent,     \* channel->tcp_conn->event
  interest,      \* what the kernel watches for the event; {}: not registered
  evType,        \* event->ev_type while the event waits in the batch, else {}
  link,          \* channel->tcp_conn and its status
  sockets,       \* how many descriptors the process holds
  unsent,        \* the connections, "udp" and "tcp", with bytes in send_zbuf
  sinceConnect,  \* now - channel->last_reconnect_time_sec
  sinceHeard,    \* now - channel->keepalive_ts_sec
  sinceSent,     \* now - channel->last_send_keepalive_ts_sec
  phase,         \* "poll": in get_event, "dispatch": going through the batch
  crashed        \* the process has died

timers == <<sinceConnect, sinceHeard, sinceSent>>
linkVars == <<pool, linkEvent, link, sockets>>
vars == <<linkVars, udpEvent, interest, evType, unsent, timers, phase, crashed>>

\* The link has one of four states; there are one or two sockets.
TypeOK ==
  /\ pool.array \in [Event -> Event \cup {NULL}] /\ pool.num \in 0..NumEvents
  /\ udpEvent \in Event
  /\ linkEvent \in Event \cup {NULL}
  /\ interest \in [Event -> SUBSET {"READ", "WRITE"}]
  /\ evType \in [Event -> SUBSET {"READ", "WRITE", "EOF", "ERROR"}]
  /\ link \in {"none", "wait", "up", "failed"}
  /\ sockets \in 0..2
  /\ unsent \subseteq {"udp", "tcp"}
  /\ sinceConnect \in -1 .. (ReconnectInterval + KeepaliveTimeout + 1)
  /\ sinceHeard \in -1 .. (KeepaliveTimeout + 1)
  /\ sinceSent \in -1 .. (KeepaliveInterval + 1)
  /\ phase \in {"poll", "dispatch"}
  /\ crashed \in BOOLEAN

Pending == {e \in Event : evType[e] # {}}

\* A member of NULL is read.
Crash ==
  /\ crashed' = TRUE
  /\ UNCHANGED <<linkVars, udpEvent, interest, evType, unsent, timers, phase>>

-----------------------------------------------------------------------------
(***************************************************************************)
(* gnb_network_service_connect: the state of the link after it.            *)
(***************************************************************************)
HasSocket(l) == l \in {"wait", "up"}

LinkAfter(outcome) ==
  CASE outcome = "now" -> "up"
    [] outcome = "progress" -> "wait"
    [] OTHER -> "failed"

(***************************************************************************)
(* Start: listen() runs listen_cb, and with it the first attempt, before   *)
(* the UDP socket is bound; the head of the loop pops the UDP socket's     *)
(* event and registers it.  Without a descriptor for the link there would  *)
(* be none for the UDP socket, and the process would have exited.          *)
(* last_send_keepalive_ts_sec is 0: a keepalive is overdue at once.        *)
(***************************************************************************)
Init ==
  /\ \E outcome \in Outcomes \ {"nosocket"} :
       LET p0 == PoolCreate(NumEvents)
           l == LinkAfter(outcome)
           p1 == IF HasSocket(l) THEN PoolPop(p0) ELSE p0
       IN /\ link = l
          /\ linkEvent = IF HasSocket(l) THEN PoolTop(p0) ELSE NULL
          /\ udpEvent = PoolTop(p1)
          /\ pool = PoolPop(p1)
          /\ sockets = IF HasSocket(l) THEN 2 ELSE 1
  /\ interest = [e \in Event |-> IF e = udpEvent THEN {"READ"}
                                 ELSE IF e = linkEvent THEN {"READ", "WRITE"} ELSE {}]
  /\ evType = [e \in Event |-> {}]
  /\ unsent = {}
  /\ sinceConnect = 0 /\ sinceHeard = 0 /\ sinceSent = KeepaliveInterval + 1
  /\ phase = "poll"
  /\ crashed = FALSE

-----------------------------------------------------------------------------
(***************************************************************************)
(* sync_time, then get_event.  At most two events are registered, fewer    *)
(* than a batch holds; they may come in either order.                      *)
(***************************************************************************)
Reportable(e) ==
  {F \in SUBSET {"READ", "WRITE", "EOF", "ERROR"} :
     /\ F \cap {"READ", "WRITE"} \subseteq interest[e]
     /\ e # linkEvent => F \subseteq {"READ", "WRITE"}
     /\ interest[e] = {} => F = {}}

Poll(d) ==
  /\ ~crashed /\ phase = "poll"
  /\ sinceConnect' \in AgesAfter(sinceConnect, d, ReconnectInterval + KeepaliveTimeout + 1)
  /\ sinceHeard' \in AgesAfter(sinceHeard, d, KeepaliveTimeout + 1)
  /\ sinceSent' \in AgesAfter(sinceSent, d, KeepaliveInterval + 1)
  /\ evType' \in [Event -> SUBSET {"READ", "WRITE", "EOF", "ERROR"}]
  /\ \A e \in Event : evType'[e] \in Reportable(e)
  /\ phase' = "dispatch"
  /\ UNCHANGED <<linkVars, udpEvent, interest, unsent, crashed>>

\* Nothing closes the link but its own event's handler and idle_cb, so no
\* event of a batch is ever marked FINISH on this side.
Dispatched(e) == ~crashed /\ phase = "dispatch" /\ e \in Pending

\* Mutant: the loop does not move on to the next event of the batch.
ConsumeNothing(e) == evType

Consume(e) == [evType EXCEPT ![e] = {}]

-----------------------------------------------------------------------------
(***************************************************************************)
(* handle_tcp_event.                                                       *)
(***************************************************************************)

\* Mutant: the data is queued and WRITE is not enabled.
NotifyForgotten(w, X) == w

\* NOTIFY_SEND for the connections X.
Notify(w, X) ==
  [e \in Event |-> IF \/ e = udpEvent /\ "udp" \in X
                      \/ e = linkEvent /\ "tcp" \in X
                   THEN w[e] \cup {"WRITE"} ELSE w[e]]

\* tcp_to_udp for the frames of one recv(): no datagram among them, all of them
\* sent on, the last one not (it stays in the UDP buffer), or an earlier one not.
Datagrams == {"none", "sent", "failed", "failed then sent"}

WatchedAfter(d, w) == IF d \in {"failed", "failed then sent"} THEN Notify(w, {"udp"}) ELSE w

UnsentAfter(d, u) == IF d = "none" THEN u
                     ELSE IF d = "failed" THEN u \cup {"udp"}
                     ELSE u \ {"udp"}

\* gnb_connection_close and gnb_connection_release; tcp_conn = NULL.  w and u
\* are `interest` and `unsent` as they were just before.
CloseLink(w, u) ==
  /\ pool' = PoolPush(pool, linkEvent)
  /\ interest' = [w EXCEPT ![linkEvent] = {}]
  /\ evType' = Consume(linkEvent)
  /\ link' = "none" /\ linkEvent' = NULL
  /\ sockets' = sockets - 1
  /\ unsent' = u \ {"tcp"}
  /\ UNCHANGED <<udpEvent, sinceConnect, sinceSent>>

\* do_connect with a peer: the buffers are allocated and WRITE is disabled.
ConnectSucceeds(e) ==
  /\ Dispatched(e) /\ e = linkEvent /\ link = "wait"
  /\ link' = "up"
  /\ interest' = [interest EXCEPT ![e] = @ \ {"WRITE"}]
  /\ evType' = Consume(e)
  /\ UNCHANGED <<pool, linkEvent, sockets, udpEvent, unsent, timers, phase, crashed>>

\* do_connect without one closes the link; handle_tcp_event then reads the
\* status of the freed record.  If that happens to read TCP_CONNECT_FINISH,
\* do_close runs again and close_cb releases NULL.
ConnectFails(e) ==
  /\ Dispatched(e) /\ e = linkEvent /\ link = "wait"
  /\ CloseLink(interest, unsent)
  /\ crashed' \in BOOLEAN
  /\ UNCHANGED <<sinceHeard, phase>>

\* do_close: the end of the connection, an error, or a frame that is refused.
\* What recv() brought before that has been dealt with.
LinkCloses(e) ==
  /\ Dispatched(e) /\ e = linkEvent /\ link = "up"
  /\ \/ evType[e] \cap {"EOF", "ERROR", "READ"} # {}
     \/ "WRITE" \in evType[e] /\ "tcp" \in unsent
  /\ \E d \in Datagrams, heard \in BOOLEAN :
       /\ d # "none" \/ heard => "READ" \in evType[e]
       /\ CloseLink(WatchedAfter(d, interest), UnsentAfter(d, unsent))
       /\ sinceHeard' = IF heard THEN 0 ELSE sinceHeard
  /\ UNCHANGED <<phase, crashed>>

\* do_send (`again`: send() met EAGAIN, EINTR or ENOBUFS), then do_recv
\* (`heard`: recv() returned data).
LinkServes(e) ==
  /\ Dispatched(e) /\ e = linkEvent /\ link = "up"
  /\ evType[e] \cap {"EOF", "ERROR"} = {}
  /\ \E d \in Datagrams, again, heard \in BOOLEAN :
       LET sent == "WRITE" \in evType[e] /\ ~again
       IN /\ again => "WRITE" \in evType[e] /\ "tcp" \in unsent
          /\ heard => "READ" \in evType[e]
          /\ ~heard => d = "none"
          /\ interest' = WatchedAfter(d, [interest EXCEPT ![e] = IF sent THEN @ \ {"WRITE"} ELSE @])
          /\ unsent' = UnsentAfter(d, IF sent THEN unsent \ {"tcp"} ELSE unsent)
          /\ sinceHeard' = IF heard THEN 0 ELSE sinceHeard
  /\ evType' = Consume(e)
  /\ UNCHANGED <<linkVars, udpEvent, sinceConnect, sinceSent, phase, crashed>>

-----------------------------------------------------------------------------
(***************************************************************************)
(* handle_udp_event: do_udp_send (the buffer is reset whatever sendto()    *)
(* returned), then do_udp_recv.  handle_udp puts the datagram in the TCP   *)
(* connection's buffer, or finds it full, and asks for WRITE either way.   *)
(***************************************************************************)
UdpServes(e) ==
  /\ Dispatched(e) /\ e = udpEvent
  /\ \E heard \in BOOLEAN :
       LET sent == "WRITE" \in evType[e]
           disabled == [interest EXCEPT ![e] = IF sent THEN @ \ {"WRITE"} ELSE @]
           flushed == IF sent THEN unsent \ {"udp"} ELSE unsent
       IN /\ heard => "READ" \in evType[e] /\ link = "up"
          /\ interest' = Notify(disabled, IF heard THEN {"tcp"} ELSE {})
          /\ unsent' = flushed \cup (IF heard THEN {"tcp"} ELSE {})
  /\ evType' = Consume(e)
  /\ UNCHANGED <<linkVars, udpEvent, timers, phase, crashed>>

\* A datagram while there is no link with a send buffer: handle_udp measures
\* the buffer of NULL, or the NULL buffer of a link that is not up.
DatagramWithoutLink(e) ==
  /\ Dispatched(e) /\ e = udpEvent
  /\ "READ" \in evType[e] /\ link # "up"
  /\ Crash

-----------------------------------------------------------------------------
(***************************************************************************)
(* service_idle_cb, after every batch.                                     *)
(***************************************************************************)
BatchDone == ~crashed /\ phase = "dispatch" /\ Pending = {}

\* Mutants: the interval compared with = instead of >; one second late; no
\* interval at all; one second early.
ReconnectDueOnce == sinceConnect = ReconnectInterval
KeepaliveDueLate == IsOver(sinceSent, KeepaliveInterval + 1, Word)
KeepaliveDueAtOnce == sinceSent >= 0
LinkSilentEarly == IsOver(sinceHeard, KeepaliveTimeout - 1, Word)

ReconnectDue == IsOver(sinceConnect, ReconnectInterval, Word)
KeepaliveDue == IsOver(sinceSent, KeepaliveInterval, Word)
LinkSilent == IsOver(sinceHeard, KeepaliveTimeout, Word)

\* try_tcp_connect.  The event of the new link is not checked for NULL.
IdleReconnect ==
  /\ BatchDone /\ link = "none" /\ ReconnectDue
  /\ \E outcome \in Outcomes :
       IF ~HasSocket(LinkAfter(outcome))
       THEN link' = "failed" /\ UNCHANGED <<pool, linkEvent, interest, sockets, crashed>>
       ELSE IF pool.num = 0
       THEN crashed' = TRUE /\ UNCHANGED <<linkVars, interest>>
       ELSE /\ link' = LinkAfter(outcome)
            /\ pool' = PoolPop(pool) /\ linkEvent' = PoolTop(pool)
            /\ interest' = [interest EXCEPT ![PoolTop(pool)] = {"READ", "WRITE"}]
            /\ sockets' = sockets + 1
            /\ UNCHANGED crashed
  /\ sinceConnect' = 0 /\ sinceHeard' = 0
  /\ phase' = "poll"
  /\ UNCHANGED <<udpEvent, evType, unsent, sinceSent>>

\* send_keepalive_frame; nothing else is looked at in this pass.
IdleKeepalive ==
  /\ BatchDone /\ link # "none" /\ KeepaliveDue
  /\ IF link = "up"
     THEN /\ interest' = Notify(interest, {"tcp"})
          /\ unsent' = unsent \cup {"tcp"}
          /\ sinceSent' = 0
          /\ phase' = "poll"
          /\ UNCHANGED <<linkVars, udpEvent, evType, sinceConnect, sinceHeard, crashed>>
     ELSE Crash

\* The peer has not been heard for too long; a failed link has no event.
IdleTimeout ==
  /\ BatchDone /\ link # "none" /\ ~KeepaliveDue /\ LinkSilent
  /\ IF link = "failed" THEN Crash
     ELSE CloseLink(interest, unsent) /\ phase' = "poll" /\ UNCHANGED <<sinceHeard, crashed>>

IdleRest ==
  /\ BatchDone
  /\ IF link = "none" THEN ~ReconnectDue ELSE ~KeepaliveDue /\ ~LinkSilent
  /\ phase' = "poll"
  /\ UNCHANGED <<linkVars, udpEvent, interest, evType, unsent, timers, crashed>>

Idle == \/ IdleReconnect \/ IdleKeepalive \/ IdleTimeout \/ IdleRest

-----------------------------------------------------------------------------
Next ==
  \/ \E d \in ClockSteps : Poll(d)
  \/ \E e \in Event : \/ ConnectSucceeds(e) \/ ConnectFails(e)
                      \/ LinkCloses(e) \/ LinkServes(e)
                      \/ UdpServes(e) \/ DatagramWithoutLink(e)
  \/ Idle

Spec == Init /\ [][Next]_vars

\* The loop never stops by itself, and the wall clock moves on: it cannot be
\* polled for ever without a second passing.
Fairness == WF_vars(Next) /\ SF_vars(Poll(1))

FairSpec == Spec /\ Fairness

-----------------------------------------------------------------------------
(***************************************************************************)
(* Safety.                                                                 *)
(***************************************************************************)

\* Through any number of lost, refused and timed-out links the process holds
\* exactly the UDP socket and the link's socket, and the two events of those
\* are the only ones out of the pool and watched by the kernel: no attempt
\* leaks a descriptor or an event (do_connect, try_tcp_connect, close_cb).
LinkAccounted ==
  /\ TypeOK
  /\ PoolOK(pool, NumEvents)
  /\ linkEvent # NULL <=> HasSocket(link)
  /\ sockets = IF HasSocket(link) THEN 2 ELSE 1
  /\ udpEvent # linkEvent
  /\ \A e \in Event : /\ e \in PoolFree(pool) <=> e \notin {udpEvent, linkEvent}
                      /\ e \in PoolFree(pool) <=> interest[e] = {}

\* No event of the batch has lost its connection when its turn comes: the
\* handlers and idle_cb never leave the event of a dead link behind, although
\* nothing on this side would skip it.
NoStaleDispatch == \A e \in Pending : e = udpEvent \/ (e = linkEvent /\ HasSocket(link))

\* Whatever waits in a send buffer belongs to a live connection and has WRITE
\* enabled for its event (GNB_SERVICE_NOTIFY_SEND), across reconnects too.
UnsentIsArmed ==
  /\ "udp" \in unsent => "WRITE" \in interest[udpEvent]
  /\ "tcp" \in unsent => link = "up" /\ "WRITE" \in interest[linkEvent]

\* Whenever the loop goes to sleep with an established link, the last
\* keepalive is no older than the interval, unless the link was opened by the
\* very pass of idle_cb that went before.
KeepalivesKeepUp ==
  phase = "poll" /\ link = "up" /\ sinceConnect # 0 /\ ~crashed =>
    ~IsOver(sinceSent, KeepaliveInterval, Word)

\* idle_cb never gives up a link that has had less than the timeout to show a
\* sign of life: what was heard, or not heard, on the link before it does not
\* count (keepalive_ts_sec is set again by try_tcp_connect).
NewLinkGetsItsTime ==
  [][phase' = "poll" /\ HasSocket(link) /\ link' = "none" =>
       sinceConnect > KeepaliveTimeout]_vars

\* Only while there is no established link can a handler or idle_cb read
\* through NULL; in particular the pool is never empty when a link is opened.
CrashesOnlyWithoutLink == [][crashed' => crashed \/ (link # "up" /\ pool.num > 0)]_vars

\* README.md:92: the datagrams of the UDP side go to the other end of the
\* link and back; nothing makes the process stop doing so.
NeverCrashes == ~crashed

(***************************************************************************)
(* Liveness.                                                               *)
(***************************************************************************)

\* A lost link is opened again: the process is never for ever without one.
LinkIsReopened == []<>(link # "none" \/ crashed)

\* A link on which nothing more is heard is given up in the end: the
\* keepalives idle_cb sends instead of looking do not keep it from looking.
SilentLinkIsGivenUp == []<>(link # "up" \/ sinceHeard = 0 \/ crashed)
==============================================================================
