-------------------------------- MODULE Tunnel --------------------------------
(***************************************************************************)
(* Both ends of one tunnel, in time: the UDP side with its link, the TCP   *)
(* side with its table of channels, and the TCP connections between them.  *)
(* UotUdpService and UotTcpService model each side's memory against any    *)
(* peer; here the peers are each other, and what matters is their timers:  *)
(* keepalives, echoes, time-outs and reconnects, over a network that may   *)
(* fail and with a TCP side that a blocking send() may hold up.            *)
(*                                                                         *)
(* Time is counted in seconds.  A process knows the time of its last       *)
(* sync_time only: `stale` seconds ago, one at most unless it is held up.  *)
(* A timestamp is kept as its age, which is never less than `stale`.       *)
(*                                                                         *)
(* connect() is still in progress when it returns, as a non-blocking one   *)
(* to another host is; that it fails at once and leaves a record which is  *)
(* never tried again is in UotUdpService.                                  *)
(***************************************************************************)
EXTENDS Integers, Sequences, FiniteSets

CONSTANTS
  Conn,               \* TCP connections at a time (bound)
  None,               \* no connection
  KeepaliveInterval,  \* GNB_UOT_SEND_KEEPALIVE_INTERVAL_TIME_SEC
  ReconnectInterval,  \* DEFAULT_TCP_RECONNECT_INTERVAL_TIME_SEC
  KeepaliveTimeout    \* GNB_UOT_KEEPALIVE_TIMEOUT_SEC

ASSUME TunnelAssumption ==
  /\ Conn # {} /\ None \notin Conn
  /\ KeepaliveInterval \in Nat /\ ReconnectInterval \in Nat /\ KeepaliveTimeout \in Nat
  /\ KeepaliveTimeout >= KeepaliveInterval + 2
  /\ KeepaliveTimeout >= ReconnectInterval

\* What the recovery takes, besides: a connection to open beside one that is
\* half open, and a second between the last keepalive in time and the time-out.
ASSUME RecoveryAssumption ==
  /\ IsFiniteSet(Conn) /\ Cardinality(Conn) > 1
  /\ KeepaliveTimeout > KeepaliveInterval + 2

VARIABLES
  udp,     \* the UDP side: its link, the link's status, and three ages
  chans,   \* channel_lru, the youngest first: records of a connection and its age
  backlog, \* connections that accept() has yet to return
  held,    \* a send() that does not return holds the TCP side up
  toTcp,   \* what is under way to the TCP side, for each connection
  toUdp,   \* and to the UDP side: frames, and the end of the connection
  stale,   \* seconds since each process has looked at the clock
  net,     \* the network works
  trouble, \* seconds with no network, or with the TCP side held up, in all
  calm     \* seconds since then

\* How much trouble the timers bear, and how long they need after it; both
\* counters stop there.
Tolerance == KeepaliveTimeout - KeepaliveInterval - 2
Recovery == KeepaliveTimeout + Cardinality(Conn) + 2

vars == <<udp, chans, backlog, held, toTcp, toUdp, stale, net, trouble, calm>>

Empty == [frames |-> FALSE, end |-> FALSE]
Accepted(c) == \E i \in DOMAIN chans : chans[i].conn = c
Known(c) == Accepted(c) \/ \E i \in DOMAIN backlog : backlog[i] = c
Unused(c) == c # udp.link /\ ~Known(c) /\ toTcp[c] = Empty /\ toUdp[c] = Empty

Put(w, c) == [w EXCEPT ![c].frames = TRUE]
End(w, c) == [w EXCEPT ![c].end = TRUE]
Clear(w, c) == [w EXCEPT ![c] = Empty]

\* listen_cb: the first attempt is under way, and a keepalive is overdue.
Init ==
  /\ udp = [link |-> CHOOSE c \in Conn : TRUE, status |-> "wait", heard |-> 0,
             sent |-> KeepaliveInterval + 1, tried |-> 0]
  /\ chans = <<>> /\ backlog = <<>> /\ held = FALSE
  /\ toTcp = [c \in Conn |-> Empty] /\ toUdp = [c \in Conn |-> Empty]
  /\ stale = [udp |-> 0, tcp |-> 0]
  /\ net = TRUE /\ trouble = 0 /\ calm = 0

-----------------------------------------------------------------------------
(***************************************************************************)
(* The UDP side goes round its loop: what get_event reported, then         *)
(* service_idle_cb, then sync_time.  Its sockets never block.              *)
(***************************************************************************)
NoLink(u) == [u EXCEPT !.link = None, !.status = "none", !.heard = 0]

\* do_connect, with and without a peer.
Connected(u) == [u EXCEPT !.status = "up"]

\* do_recv: data sets the timestamp, the end closes the link.
Heard(u) ==
  LET h == IF toUdp[u.link].frames THEN [u EXCEPT !.heard = stale.udp] ELSE u
  IN IF toUdp[u.link].end THEN NoLink(h) ELSE h

\* Mutant: one second late.
KeepaliveDueLate(u) == u.sent - stale.udp > KeepaliveInterval + 1

ReconnectDue(u) == u.tried - stale.udp > ReconnectInterval
KeepaliveDue(u) == u.sent - stale.udp > KeepaliveInterval
LinkSilent(u) == u.heard - stale.udp > KeepaliveTimeout

\* service_idle_cb, on what the batch has made of the link.  A keepalive for a
\* link that is not up is written through NULL.
UdpIdle(u, wire) ==
  \/ /\ u.status = "none" /\ ReconnectDue(u)
     /\ IF \E c \in Conn : Unused(c)
        THEN udp' = [u EXCEPT !.link = CHOOSE c \in Conn : Unused(c), !.status = "wait",
                              !.heard = stale.udp, !.tried = stale.udp]
        ELSE udp' = u
     /\ toTcp' = wire
  \/ /\ u.status = "none" /\ ~ReconnectDue(u)
     /\ udp' = u /\ toTcp' = wire
  \/ /\ u.status = "wait" /\ KeepaliveDue(u)
     /\ udp' = [NoLink(u) EXCEPT !.status = "crashed", !.sent = 0, !.tried = 0]
     /\ toTcp' = wire
  \/ /\ u.status = "up" /\ KeepaliveDue(u)
     /\ udp' = [u EXCEPT !.sent = stale.udp]
     /\ toTcp' = Put(wire, u.link)
  \/ /\ u.status \in {"wait", "up"} /\ ~KeepaliveDue(u) /\ LinkSilent(u)
     /\ udp' = NoLink(u)
     /\ toTcp' = IF u.status = "up" THEN End(wire, u.link) ELSE wire
  \/ /\ u.status \in {"wait", "up"} /\ ~KeepaliveDue(u) /\ ~LinkSilent(u)
     /\ udp' = u /\ toTcp' = wire

UdpPass ==
  /\ udp.status # "crashed"
  /\ \/ /\ udp.status = "wait" => ~net /\ stale.udp > 0
        /\ UdpIdle(udp, toTcp) /\ UNCHANGED <<backlog, toUdp>>
     \/ /\ udp.status = "wait" /\ net
        /\ UdpIdle(Connected(udp), toTcp)
        /\ backlog' = Append(backlog, udp.link) /\ UNCHANGED toUdp
     \/ /\ udp.status = "wait" /\ ~net
        /\ UdpIdle(NoLink(udp), toTcp) /\ UNCHANGED <<backlog, toUdp>>
     \/ /\ udp.status = "up" /\ net /\ toUdp[udp.link] # Empty
        /\ UdpIdle(Heard(udp), toTcp)
        /\ toUdp' = Clear(toUdp, udp.link) /\ UNCHANGED backlog
  /\ stale' = [stale EXCEPT !.udp = 0]
  /\ UNCHANGED <<chans, held, net, trouble, calm>>

-----------------------------------------------------------------------------
(***************************************************************************)
(* The TCP side, event by event: its accepted sockets block, and what is   *)
(* left of a batch is handled with the time read before it.                *)
(***************************************************************************)
\* Mutant: the channel goes to the tail of the table.
StoredLast(c) == Append(chans, [conn |-> c, heard |-> stale.tcp])

\* GNB_LRU32_UINT32_PUT in service_accept_cb.
Stored(c) == <<[conn |-> c, heard |-> stale.tcp]>> \o chans

\* do_accept.
TcpAccepts ==
  /\ ~held /\ backlog # <<>>
  /\ chans' = Stored(Head(backlog))
  /\ backlog' = Tail(backlog)
  /\ UNCHANGED <<udp, held, toTcp, toUdp, stale, net, trouble, calm>>

\* A channel leaves the table: GNB_LRU32_UINT32_DELETE, by its place.
Without(i) == SubSeq(chans, 1, i - 1) \o SubSeq(chans, i + 1, Len(chans))
Stamped(c) == [i \in DOMAIN chans |-> IF chans[i].conn = c
                                      THEN [chans[i] EXCEPT !.heard = stale.tcp] ELSE chans[i]]

\* do_recv and the echo.
TcpHears(c) ==
  /\ ~held /\ net /\ Accepted(c) /\ toTcp[c].frames
  /\ chans' = Stamped(c)
  /\ toTcp' = [toTcp EXCEPT ![c].frames = FALSE]
  /\ toUdp' = Put(toUdp, c)
  /\ UNCHANGED <<udp, backlog, held, stale, net, trouble, calm>>

\* A datagram of the server for the client.
TcpForwards(c) ==
  /\ ~held /\ Accepted(c)
  /\ toUdp' = Put(toUdp, c)
  /\ UNCHANGED <<udp, chans, backlog, held, toTcp, stale, net, trouble, calm>>

\* The end of the connection, or its reset.
TcpEnds(c) ==
  /\ ~held /\ net /\ toTcp[c].end /\ ~toTcp[c].frames
  /\ \E i \in DOMAIN chans : chans[i].conn = c /\ chans' = Without(i)
  /\ toTcp' = Clear(toTcp, c) /\ toUdp' = Clear(toUdp, c)
  /\ UNCHANGED <<udp, backlog, held, stale, net, trouble, calm>>

\* gnb_lru32_get_tail.
TailChannel == chans[Len(chans)]

\* service_idle_cb and sync_time: one channel is looked at in a pass.
TcpIdle ==
  /\ ~held
  /\ IF chans # <<>> /\ TailChannel.heard - stale.tcp > KeepaliveTimeout
     THEN chans' = Without(Len(chans)) /\ toUdp' = End(toUdp, TailChannel.conn)
     ELSE UNCHANGED <<chans, toUdp>>
  /\ stale' = [stale EXCEPT !.tcp = 0]
  /\ UNCHANGED <<udp, backlog, held, toTcp, net, trouble, calm>>

-----------------------------------------------------------------------------
(***************************************************************************)
(* The kernels, the network and the clock.                                 *)
(***************************************************************************)
\* What reaches a host that has closed the connection is answered by a reset;
\* what the connection still had under way the other way is lost.
ResetByUdpHost(c) ==
  /\ net /\ c # udp.link /\ toUdp[c] # Empty
  /\ toUdp' = Clear(toUdp, c)
  /\ toTcp' = IF Known(c) THEN End(toTcp, c) ELSE toTcp
  /\ UNCHANGED <<udp, chans, backlog, held, stale, net, trouble, calm>>

ResetByTcpHost(c) ==
  /\ net /\ ~Known(c) /\ toTcp[c] # Empty
  /\ toTcp' = Clear(toTcp, c)
  /\ toUdp' = IF c = udp.link THEN End(toUdp, c) ELSE toUdp
  /\ UNCHANGED <<udp, chans, backlog, held, stale, net, trouble, calm>>

\* A kernel stops repeating the end of a connection, or gives the data up and
\* fails send().
Forget(c) ==
  /\ ~net
  /\ \/ c # udp.link /\ toTcp[c] # Empty /\ toTcp' = Clear(toTcp, c) /\ UNCHANGED toUdp
     \/ ~Known(c) /\ toUdp[c] # Empty /\ toUdp' = Clear(toUdp, c) /\ UNCHANGED toTcp
  /\ UNCHANGED <<udp, chans, backlog, held, stale, net, trouble, calm>>

Trouble ==
  /\ \/ net' = ~net /\ UNCHANGED held
     \/ held' = ~held /\ UNCHANGED net
  /\ calm' = 0
  /\ UNCHANGED <<udp, chans, backlog, toTcp, toUdp, stale, trouble>>

\* An age beyond the limit by more than one tells nothing more.
Older(age, now, limit) == IF age + 1 > now + limit + 1 THEN now + limit + 1 ELSE age + 1

\* A second passes.  Every process that is not held up has been round its loop
\* since the last one (get_event waits a second at most), and a network that
\* works has delivered everything.
Tick ==
  /\ stale.udp = 0
  /\ held \/ (stale.tcp = 0 /\ backlog = <<>>)
  /\ net => /\ udp.status # "wait"
            /\ \A c \in Conn : toUdp[c] = Empty /\ (held \/ toTcp[c] = Empty)
  /\ udp' = IF udp.status = "crashed" THEN udp
            ELSE [udp EXCEPT !.heard = IF udp.status = "none" THEN 0 ELSE Older(@, 1, KeepaliveTimeout),
                             !.sent = Older(@, 1, KeepaliveInterval),
                             !.tried = Older(@, 1, ReconnectInterval)]
  /\ IF stale.tcp > KeepaliveTimeout THEN UNCHANGED chans
     ELSE chans' = [i \in DOMAIN chans |->
                      [chans[i] EXCEPT !.heard = Older(@, stale.tcp + 1, KeepaliveTimeout)]]
  /\ stale' = [udp |-> IF udp.status = "crashed" THEN 0 ELSE 1,
               tcp |-> IF stale.tcp > KeepaliveTimeout THEN stale.tcp ELSE stale.tcp + 1]
  /\ IF net /\ ~held
     THEN calm' = (IF calm = Recovery THEN calm ELSE calm + 1) /\ UNCHANGED trouble
     ELSE trouble' = (IF trouble = Tolerance THEN trouble ELSE trouble + 1) /\ UNCHANGED calm
  /\ UNCHANGED <<backlog, held, toTcp, toUdp, net>>

Next ==
  \/ UdpPass \/ TcpAccepts \/ TcpIdle \/ Trouble \/ Tick
  \/ \E c \in Conn : \/ TcpHears(c) \/ TcpForwards(c) \/ TcpEnds(c)
                     \/ ResetByUdpHost(c) \/ ResetByTcpHost(c) \/ Forget(c)

Spec == Init /\ [][Next]_vars

-----------------------------------------------------------------------------
\* The two sides time each other out only when something is really wrong: as
\* long as the network was down and the TCP side held up for less than
\* KeepaliveTimeout - KeepaliveInterval - 2 seconds in all (10 in the program),
\* neither gives up a connection, although each reads the time before it waits,
\* stamps what it hears with that time, and a pass of service_idle_cb that
\* sends a keepalive looks at nothing else.
EnduresTrouble ==
  [][trouble < Tolerance => /\ udp.status = "up" => udp'.status = "up"
                            /\ Len(chans') >= Len(chans)]_vars

\* However the trouble went, with ends of connections lost, half-open channels
\* and attempts that piled up behind a TCP side held up, the tunnel is one
\* connection and one channel again a known time after it: service_idle_cb
\* closes the half-open channels, one in a pass from the tail of the table, and
\* only those.  That is if the UDP side lived: it dies of a keepalive that falls
\* due while an attempt to connect is unanswered (send_keepalive_frame), and
\* then the TCP side keeps nothing of it.
RecoversInTime ==
  calm = Recovery =>
    /\ backlog = <<>>
    /\ \/ udp.status = "crashed" /\ chans = <<>>
       \/ udp.status = "up" /\ Len(chans) = 1 /\ chans[1].conn = udp.link
==============================================================================
