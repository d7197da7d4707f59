-------------------------- MODULE UotUdpServiceProofs --------------------------
(***************************************************************************)
(* Theorems about the UDP side, for any number of events, any intervals,   *)
(* any outcomes of the attempts to connect and any kernel reports: what    *)
(* the process holds, what the loop may dispatch, what waits to be sent,   *)
(* and when the timers give a link up.                                     *)
(***************************************************************************)
EXTENDS UotUdpService, FixedPoolProofs

\* LinkAccounted is kept by every step only because READ is never switched off
\* while an event is watched, and because the pool counts what it holds.
ReadStaysOn == \A e \in Event : interest[e] # {} => "READ" \in interest[e]
PoolCounts == pool.num = IF HasSocket(link) THEN NumEvents - 2 ELSE NumEvents - 1

UdpInv ==
  /\ LinkAccounted
  /\ ReadStaysOn
  /\ PoolCounts
  /\ NoStaleDispatch
  /\ UnsentIsArmed

\* The constants as sets, in the form the provers use.
LEMMA UdpFacts ==
  /\ NumEvents \in Nat /\ NumEvents >= 2
  /\ Event = 0..(NumEvents - 1) /\ NULL \notin Event
  /\ ReconnectInterval \in Nat /\ KeepaliveInterval \in Nat /\ KeepaliveTimeout \in Nat
  /\ Word \in Nat /\ Word > ReconnectInterval + KeepaliveInterval + KeepaliveTimeout + 2
BY ConstantsAssumption DEF Event, NULL

\* After the start the events of the one or two sockets are out of the pool.
LEMMA UdpStart == Init => UdpInv
<1> SUFFICES ASSUME Init PROVE UdpInv
  OBVIOUS
<1> DEFINE p0 == PoolCreate(NumEvents)
<1>1. /\ PoolOK(p0, NumEvents) /\ PoolFree(p0) = Event /\ p0.num = NumEvents
  BY PoolCreateOK, UdpFacts DEF PoolCreate
<1> HIDE DEF p0
<1>2. /\ PoolOK(PoolPop(p0), NumEvents) /\ PoolTop(p0) \in Event
      /\ PoolFree(PoolPop(p0)) = Event \ {PoolTop(p0)}
      /\ PoolPop(p0).num = NumEvents - 1
  BY <1>1, UdpFacts, PoolPopOK
<1>3. /\ PoolOK(PoolPop(PoolPop(p0)), NumEvents) /\ PoolTop(PoolPop(p0)) \in Event
      /\ PoolTop(PoolPop(p0)) # PoolTop(p0)
      /\ PoolFree(PoolPop(PoolPop(p0))) = Event \ {PoolTop(p0), PoolTop(PoolPop(p0))}
      /\ PoolPop(PoolPop(p0)).num = NumEvents - 2
  BY <1>2, UdpFacts, PoolPopOK
<1>4. PICK outcome \in Outcomes \ {"nosocket"} :
        /\ link = LinkAfter(outcome)
        /\ linkEvent = IF HasSocket(link) THEN PoolTop(p0) ELSE NULL
        /\ udpEvent = IF HasSocket(link) THEN PoolTop(PoolPop(p0)) ELSE PoolTop(p0)
        /\ pool = IF HasSocket(link) THEN PoolPop(PoolPop(p0)) ELSE PoolPop(p0)
        /\ sockets = IF HasSocket(link) THEN 2 ELSE 1
  BY DEF Init, p0
<1>5. link \in {"wait", "up", "failed"}
  BY <1>4 DEF LinkAfter
<1>6. /\ PoolOK(pool, NumEvents) /\ PoolCounts
      /\ udpEvent \in Event /\ linkEvent \in Event \cup {NULL} /\ udpEvent # linkEvent
      /\ linkEvent # NULL <=> HasSocket(link)
      /\ \A e \in Event : e \in PoolFree(pool) <=> e \notin {udpEvent, linkEvent}
  BY <1>2, <1>3, <1>4, UdpFacts DEF PoolCounts
<1>7. TypeOK
  <2>1. /\ sinceConnect \in -1 .. (ReconnectInterval + KeepaliveTimeout + 1)
        /\ sinceHeard \in -1 .. (KeepaliveTimeout + 1)
        /\ sinceSent \in -1 .. (KeepaliveInterval + 1)
    BY UdpFacts DEF Init
  <2>2. /\ interest \in [Event -> SUBSET {"READ", "WRITE"}]
        /\ evType \in [Event -> SUBSET {"READ", "WRITE", "EOF", "ERROR"}]
        /\ unsent \subseteq {"udp", "tcp"}
        /\ phase \in {"poll", "dispatch"} /\ crashed \in BOOLEAN
    BY DEF Init
  <2>3. pool.array \in [Event -> Event \cup {NULL}] /\ pool.num \in 0..NumEvents
    BY <1>6, UdpFacts DEF PoolOK
  <2> QED BY <1>4, <1>5, <1>6, <2>1, <2>2, <2>3 DEF TypeOK
<1>8. \A e \in Event : interest[e] = IF e = udpEvent THEN {"READ"}
                         ELSE IF e = linkEvent THEN {"READ", "WRITE"} ELSE {}
  BY DEF Init
<1>9. ReadStaysOn /\ LinkAccounted
  BY <1>4, <1>6, <1>7, <1>8 DEF LinkAccounted, ReadStaysOn
<1>10. NoStaleDispatch /\ UnsentIsArmed
  BY DEF Init, NoStaleDispatch, UnsentIsArmed, Pending
<1> QED BY <1>6, <1>9, <1>10 DEF UdpInv

-----------------------------------------------------------------------------
(***************************************************************************)
(* What the handlers may do to the watched sets: WRITE comes and goes.     *)
(***************************************************************************)
SameWatched(w) ==
  /\ w \in [Event -> SUBSET {"READ", "WRITE"}]
  /\ \A x \in Event : /\ w[x] = {} <=> interest[x] = {}
                      /\ w[x] # {} => "READ" \in w[x]

\* Switching WRITE off, for one event, leaves the event watched.
LEMMA DisableWatches ==
  ASSUME UdpInv, NEW e \in Event
  PROVE  SameWatched(interest) /\ SameWatched([interest EXCEPT ![e] = @ \ {"WRITE"}])
BY DEF UdpInv, LinkAccounted, ReadStaysOn, SameWatched, TypeOK

\* NOTIFY_SEND switches WRITE on for connections that have an event.
LEMMA NotifyWatches ==
  ASSUME UdpInv, NEW w, SameWatched(w), NEW X \in SUBSET {"udp", "tcp"},
         "tcp" \in X => HasSocket(link)
  PROVE  /\ SameWatched(Notify(w, X))
         /\ \A x \in Event : w[x] \subseteq Notify(w, X)[x]
         /\ "udp" \in X => "WRITE" \in Notify(w, X)[udpEvent]
         /\ "tcp" \in X => "WRITE" \in Notify(w, X)[linkEvent]
<1>1. /\ udpEvent \in Event /\ interest[udpEvent] # {}
      /\ HasSocket(link) => linkEvent \in Event /\ interest[linkEvent] # {}
  BY DEF UdpInv, LinkAccounted, TypeOK
<1>2. w \in [Event -> SUBSET {"READ", "WRITE"}]
  BY DEF SameWatched
<1>3. \A x \in Event : Notify(w, X)[x] =
        IF (x = udpEvent /\ "udp" \in X) \/ (x = linkEvent /\ "tcp" \in X)
        THEN w[x] \cup {"WRITE"} ELSE w[x]
  BY DEF Notify
<1>4. Notify(w, X) \in [Event -> SUBSET {"READ", "WRITE"}]
  BY <1>2 DEF Notify
<1>5. ASSUME NEW x \in Event
      PROVE  /\ Notify(w, X)[x] = {} <=> interest[x] = {}
             /\ Notify(w, X)[x] # {} => "READ" \in Notify(w, X)[x]
  <2>1. (w[x] = {} <=> interest[x] = {}) /\ (w[x] # {} => "READ" \in w[x])
    BY DEF SameWatched
  <2> QED BY <1>1, <1>3, <2>1
<1> QED BY <1>1, <1>3, <1>4, <1>5 DEF SameWatched

\* What tcp_to_udp leaves waiting is watched for.
LEMMA DatagramsWatched ==
  ASSUME UdpInv, NEW w, SameWatched(w), NEW d \in Datagrams, NEW u \in SUBSET {"udp", "tcp"},
         "udp" \in u => "WRITE" \in w[udpEvent]
  PROVE  /\ SameWatched(WatchedAfter(d, w))
         /\ \A x \in Event : w[x] \subseteq WatchedAfter(d, w)[x]
         /\ UnsentAfter(d, u) \subseteq {"udp", "tcp"}
         /\ "udp" \in UnsentAfter(d, u) => "WRITE" \in WatchedAfter(d, w)[udpEvent]
         /\ "tcp" \in UnsentAfter(d, u) <=> "tcp" \in u
<1>1. udpEvent \in Event
  BY DEF UdpInv, LinkAccounted, TypeOK
<1>2. /\ SameWatched(Notify(w, {"udp"})) /\ "WRITE" \in Notify(w, {"udp"})[udpEvent]
      /\ \A x \in Event : w[x] \subseteq Notify(w, {"udp"})[x]
  BY NotifyWatches
<1> QED BY <1>1, <1>2 DEF WatchedAfter, UnsentAfter, Datagrams

-----------------------------------------------------------------------------
(***************************************************************************)
(* The steps.                                                              *)
(***************************************************************************)
TimersOK ==
  /\ sinceConnect \in -1 .. (ReconnectInterval + KeepaliveTimeout + 1)
  /\ sinceHeard \in -1 .. (KeepaliveTimeout + 1)
  /\ sinceSent \in -1 .. (KeepaliveInterval + 1)

\* A timer that is set to now stays in its bounds.
LEMMA TimersReset ==
  ASSUME TimersOK,
         sinceConnect' \in {0, sinceConnect}, sinceHeard' \in {0, sinceHeard},
         sinceSent' \in {0, sinceSent}
  PROVE  TimersOK'
BY UdpFacts DEF TimersOK

\* The steps that leave the link as it is: WRITE comes and goes, and at most
\* one event of the batch is consumed.
LEMMA ServeKeepsInv ==
  ASSUME UdpInv, UNCHANGED <<linkVars, udpEvent>>, SameWatched(interest'),
         unsent' \subseteq {"udp", "tcp"}, UnsentIsArmed', TimersOK',
         UNCHANGED evType \/ \E e \in Event : evType' = Consume(e),
         phase' \in {"poll", "dispatch"}, crashed' \in BOOLEAN
  PROVE  UdpInv'
<1>1. evType' \in [Event -> SUBSET {"READ", "WRITE", "EOF", "ERROR"}] /\ Pending' \subseteq Pending
  BY DEF UdpInv, LinkAccounted, TypeOK, Consume, Pending
<1>2. TypeOK'
  BY <1>1 DEF UdpInv, LinkAccounted, TypeOK, TimersOK, linkVars, SameWatched
<1>3. LinkAccounted' /\ ReadStaysOn'
  BY <1>2 DEF UdpInv, LinkAccounted, SameWatched, ReadStaysOn, linkVars
<1>4. NoStaleDispatch' /\ PoolCounts'
  BY <1>1 DEF UdpInv, NoStaleDispatch, PoolCounts, linkVars
<1> QED BY <1>3, <1>4 DEF UdpInv

\* gnb_connection_close gives back what the link had, and nothing else: its
\* event was out of the pool, so the push is accepted.
LEMMA CloseKeepsInv ==
  ASSUME UdpInv, HasSocket(link), NEW w, SameWatched(w), NEW u \in SUBSET {"udp", "tcp"},
         "udp" \in u => "WRITE" \in w[udpEvent],
         CloseLink(w, u), sinceHeard' \in {0, sinceHeard},
         phase' \in {"poll", "dispatch"}, crashed' \in BOOLEAN
  PROVE  UdpInv'
<1>1. /\ linkEvent \in Event /\ udpEvent \in Event /\ udpEvent # linkEvent
      /\ linkEvent \notin PoolFree(pool) /\ PoolOK(pool, NumEvents)
      /\ sockets = 2 /\ TypeOK /\ pool.num = NumEvents - 2
  BY DEF UdpInv, LinkAccounted, TypeOK, PoolCounts
<1>2. /\ PoolOK(pool', NumEvents) /\ PoolFree(pool') = PoolFree(pool) \cup {linkEvent}
      /\ pool'.num = NumEvents - 1
  BY <1>1, UdpFacts, PoolPushOK DEF CloseLink
<1>3. /\ interest' \in [Event -> SUBSET {"READ", "WRITE"}] /\ interest'[linkEvent] = {}
      /\ \A x \in Event \ {linkEvent} : interest'[x] = w[x]
  BY <1>1 DEF CloseLink, SameWatched
<1>4. /\ evType' \in [Event -> SUBSET {"READ", "WRITE", "EOF", "ERROR"}]
      /\ Pending' \subseteq Pending \ {linkEvent}
  BY <1>1 DEF CloseLink, TypeOK, Consume, Pending
<1>5. TypeOK'
  <2>1. TimersOK'
    BY <1>1, TimersReset DEF CloseLink, TypeOK, TimersOK
  <2>2. pool'.array \in [Event -> Event \cup {NULL}] /\ pool'.num \in 0..NumEvents
    BY <1>2, UdpFacts DEF PoolOK
  <2>3. /\ link' = "none" /\ linkEvent' = NULL /\ sockets' = 1 /\ udpEvent' = udpEvent
        /\ unsent' \subseteq {"udp", "tcp"}
    BY <1>1 DEF CloseLink
  <2> QED BY <1>1, <1>3, <1>4, <2>1, <2>2, <2>3 DEF TypeOK, TimersOK
<1>6. /\ link' = "none" /\ linkEvent' = NULL /\ sockets' = 1 /\ udpEvent' = udpEvent
      /\ ~HasSocket(link')
  BY <1>1 DEF CloseLink, HasSocket
<1>7. \A e \in Event : /\ e \in PoolFree(pool') <=> e \notin {udpEvent', linkEvent'}
                       /\ e \in PoolFree(pool') <=> interest'[e] = {}
  <2>1. \A e \in Event : /\ e \in PoolFree(pool) <=> e \notin {udpEvent, linkEvent}
                         /\ e \in PoolFree(pool) <=> interest[e] = {}
    BY DEF UdpInv, LinkAccounted
  <2>2. \A e \in Event : w[e] = {} <=> interest[e] = {}
    BY DEF SameWatched
  <2> QED BY <1>1, <1>2, <1>3, <1>6, <2>1, <2>2, UdpFacts
<1>8. LinkAccounted'
  BY <1>1, <1>2, <1>5, <1>6, <1>7, UdpFacts DEF LinkAccounted
<1>9. ReadStaysOn' /\ PoolCounts'
  BY <1>2, <1>3, <1>6 DEF SameWatched, ReadStaysOn, PoolCounts
<1>10. NoStaleDispatch'
  BY <1>4, <1>6 DEF UdpInv, NoStaleDispatch
<1>11. UnsentIsArmed'
  BY <1>1, <1>3, <1>6 DEF CloseLink, UnsentIsArmed
<1> QED BY <1>8, <1>9, <1>10, <1>11 DEF UdpInv

\* try_tcp_connect takes an event that was free, and gives up none.
LEMMA ReconnectKeepsInv == UdpInv /\ IdleReconnect => UdpInv'
<1> SUFFICES ASSUME UdpInv, IdleReconnect PROVE UdpInv'
  OBVIOUS
<1> DEFINE new == PoolTop(pool)
<1>1. /\ link = "none" /\ linkEvent = NULL /\ ~HasSocket(link) /\ sockets = 1
      /\ pool.num = NumEvents - 1 /\ pool.num > 0 /\ TypeOK
      /\ Pending = {} /\ "tcp" \notin unsent
  BY UdpFacts DEF IdleReconnect, BatchDone, UdpInv, LinkAccounted, PoolCounts, HasSocket,
                  UnsentIsArmed
<1>2. TimersOK' /\ UNCHANGED <<udpEvent, evType, unsent>> /\ phase' = "poll"
  BY <1>1, TimersReset DEF IdleReconnect, TypeOK, TimersOK
<1>3. Pending' = {}
  BY <1>1, <1>2 DEF Pending
<1>4. PICK outcome \in Outcomes :
        IF ~HasSocket(LinkAfter(outcome))
        THEN link' = "failed" /\ UNCHANGED <<pool, linkEvent, interest, sockets, crashed>>
        ELSE /\ link' = LinkAfter(outcome)
             /\ pool' = PoolPop(pool) /\ linkEvent' = new
             /\ interest' = [interest EXCEPT ![new] = {"READ", "WRITE"}]
             /\ sockets' = sockets + 1
             /\ UNCHANGED crashed
  BY <1>1 DEF IdleReconnect
<1> HIDE DEF new
<1>5. CASE ~HasSocket(LinkAfter(outcome))
  <2>1. link' = "failed" /\ ~HasSocket(link')
    BY <1>4, <1>5 DEF HasSocket
  <2>2. UNCHANGED <<pool, linkEvent, interest, sockets, crashed>>
    BY <1>4, <1>5
  <2>3. TypeOK'
    BY <1>1, <1>2, <2>1, <2>2 DEF TypeOK, TimersOK
  <2>4. LinkAccounted' /\ ReadStaysOn' /\ PoolCounts'
    BY <1>1, <1>2, <2>1, <2>2, <2>3 DEF UdpInv, LinkAccounted, ReadStaysOn, PoolCounts
  <2>5. NoStaleDispatch' /\ UnsentIsArmed'
    BY <1>1, <1>2, <1>3, <2>2 DEF UdpInv, NoStaleDispatch, UnsentIsArmed
  <2> QED BY <2>4, <2>5 DEF UdpInv
<1>6. CASE HasSocket(LinkAfter(outcome))
  <2>1. /\ link' = LinkAfter(outcome) /\ HasSocket(link')
        /\ pool' = PoolPop(pool) /\ linkEvent' = new
        /\ interest' = [interest EXCEPT ![new] = {"READ", "WRITE"}]
        /\ sockets' = 2 /\ UNCHANGED crashed
    BY <1>1, <1>4, <1>6
  <2>2. /\ PoolOK(pool', NumEvents) /\ PoolFree(pool') = PoolFree(pool) \ {new}
        /\ pool'.num = NumEvents - 2 /\ new \in PoolFree(pool) /\ new \in Event
    BY <1>1, <2>1, UdpFacts, PoolPopOK DEF UdpInv, LinkAccounted, new
  <2>3. /\ udpEvent \in Event /\ udpEvent \notin PoolFree(pool) /\ udpEvent # new
        /\ \A e \in Event : /\ e \in PoolFree(pool) <=> e # udpEvent
                            /\ e \in PoolFree(pool) <=> interest[e] = {}
    BY <1>1, <2>2, UdpFacts DEF UdpInv, LinkAccounted, TypeOK
  <2>4. /\ interest' \in [Event -> SUBSET {"READ", "WRITE"}]
        /\ \A e \in Event : interest'[e] = IF e = new THEN {"READ", "WRITE"} ELSE interest[e]
    BY <1>1, <2>1 DEF TypeOK
  <2>5. TypeOK'
    <3>1. pool'.array \in [Event -> Event \cup {NULL}] /\ pool'.num \in 0..NumEvents
      BY <2>2, UdpFacts DEF PoolOK
    <3>2. link' \in {"none", "wait", "up", "failed"}
      BY <2>1 DEF LinkAfter
    <3> QED BY <1>1, <1>2, <2>1, <2>2, <2>4, <3>1, <3>2 DEF TypeOK, TimersOK
  <2>6. LinkAccounted'
    <3>1. \A e \in Event : /\ e \in PoolFree(pool') <=> e \notin {udpEvent', linkEvent'}
                           /\ e \in PoolFree(pool') <=> interest'[e] = {}
      BY <1>2, <2>1, <2>2, <2>3, <2>4
    <3> QED BY <1>2, <2>1, <2>2, <2>3, <2>5, <3>1, UdpFacts DEF LinkAccounted
  <2>7. ReadStaysOn' /\ PoolCounts'
    BY <2>1, <2>2, <2>4 DEF UdpInv, ReadStaysOn, PoolCounts
  <2>8. NoStaleDispatch' /\ UnsentIsArmed'
    BY <1>1, <1>2, <1>3, <2>3, <2>4 DEF UdpInv, NoStaleDispatch, UnsentIsArmed
  <2> QED BY <2>6, <2>7, <2>8 DEF UdpInv
<1> QED BY <1>5, <1>6

\* get_event reports only what is watched, so only events of the two sockets.
LEMMA PollKeepsInv ==
  ASSUME UdpInv, NEW d \in ClockSteps, Poll(d)
  PROVE  UdpInv'
<1>1. TimersOK'
  BY DEF Poll, AgesAfter, TimersOK
<1>2. TypeOK'
  BY <1>1 DEF UdpInv, LinkAccounted, Poll, TypeOK, TimersOK, linkVars
<1>3. LinkAccounted' /\ ReadStaysOn' /\ PoolCounts' /\ UnsentIsArmed'
  BY <1>2 DEF UdpInv, LinkAccounted, ReadStaysOn, PoolCounts, UnsentIsArmed, Poll, linkVars
<1>4. NoStaleDispatch'
  <2> SUFFICES ASSUME NEW e \in Event, evType'[e] # {}
               PROVE  e = udpEvent' \/ (e = linkEvent' /\ HasSocket(link'))
    BY DEF NoStaleDispatch, Pending
  <2>1. interest[e] # {}
    BY DEF Poll, Reportable
  <2>2. e \in {udpEvent, linkEvent} /\ (e = linkEvent => HasSocket(link))
    BY <2>1, UdpFacts DEF UdpInv, LinkAccounted
  <2> QED BY <2>2 DEF Poll, linkVars
<1> QED BY <1>3, <1>4 DEF UdpInv

\* The process dies with everything as it was.
LEMMA CrashKeepsInv == UdpInv /\ Crash => UdpInv'
<1> SUFFICES ASSUME UdpInv, Crash PROVE UdpInv'
  OBVIOUS
<1>1. UNCHANGED <<linkVars, udpEvent, interest, evType, unsent, timers, phase>> /\ crashed' = TRUE
  BY DEF Crash
<1>2. SameWatched(interest') /\ TypeOK
  BY <1>1, DisableWatches, UdpFacts DEF UdpInv, LinkAccounted, TypeOK
<1>3. TimersOK' /\ UnsentIsArmed' /\ unsent' \subseteq {"udp", "tcp"}
      /\ phase' \in {"poll", "dispatch"}
  BY <1>1, <1>2 DEF UdpInv, TypeOK, TimersOK, timers, UnsentIsArmed, linkVars
<1> QED BY <1>1, <1>2, <1>3, ServeKeepsInv

\* The handlers of the link's event that end it.
LEMMA LinkEndsKeepsInv ==
  ASSUME UdpInv, NEW e \in Event, ConnectFails(e) \/ LinkCloses(e)
  PROVE  UdpInv'
<1>1. TypeOK /\ HasSocket(link) /\ SameWatched(interest) /\ UnsentIsArmed
  BY DisableWatches DEF UdpInv, LinkAccounted, ConnectFails, LinkCloses, HasSocket
<1>2. unsent \in SUBSET {"udp", "tcp"} /\ phase \in {"poll", "dispatch"} /\ crashed \in BOOLEAN
  BY <1>1 DEF TypeOK
<1>3. "udp" \in unsent => "WRITE" \in interest[udpEvent]
  BY <1>1 DEF UnsentIsArmed
<1>4. CASE ConnectFails(e)
  <2>1. /\ CloseLink(interest, unsent) /\ sinceHeard' = sinceHeard /\ phase' = phase
        /\ crashed' \in BOOLEAN
    BY <1>4 DEF ConnectFails
  <2> QED BY <1>1, <1>2, <1>3, <2>1, CloseKeepsInv
<1>5. CASE LinkCloses(e)
  <2>1. PICK d \in Datagrams :
          /\ CloseLink(WatchedAfter(d, interest), UnsentAfter(d, unsent))
          /\ sinceHeard' \in {0, sinceHeard}
    BY <1>5 DEF LinkCloses
  <2>2. /\ SameWatched(WatchedAfter(d, interest))
        /\ UnsentAfter(d, unsent) \in SUBSET {"udp", "tcp"}
        /\ "udp" \in UnsentAfter(d, unsent) => "WRITE" \in WatchedAfter(d, interest)[udpEvent]
    BY <1>1, <1>2, <1>3, DatagramsWatched
  <2>3. phase' = phase /\ crashed' = crashed
    BY <1>5 DEF LinkCloses
  <2> QED BY <1>1, <1>2, <2>1, <2>2, <2>3, CloseKeepsInv
<1> QED BY <1>4, <1>5

\* The handler of a link whose connect() has succeeded: nothing can wait yet.
LEMMA ConnectKeepsInv ==
  ASSUME UdpInv, NEW e \in Event, ConnectSucceeds(e)
  PROVE  UdpInv'
<1>1. /\ TypeOK /\ e = linkEvent /\ link = "wait" /\ link' = "up" /\ HasSocket(link)
      /\ HasSocket(link') /\ "tcp" \notin unsent /\ udpEvent # e
      /\ UNCHANGED <<pool, linkEvent, sockets, udpEvent, unsent, timers, phase, crashed>>
  BY DEF UdpInv, LinkAccounted, UnsentIsArmed, ConnectSucceeds, HasSocket
<1>2. SameWatched(interest') /\ interest'[udpEvent] = interest[udpEvent]
  BY <1>1, DisableWatches DEF ConnectSucceeds, TypeOK
<1>3. evType' \in [Event -> SUBSET {"READ", "WRITE", "EOF", "ERROR"}] /\ Pending' \subseteq Pending
  BY <1>1 DEF ConnectSucceeds, TypeOK, Consume, Pending
<1>4. TypeOK'
  BY <1>1, <1>2, <1>3 DEF TypeOK, SameWatched, timers
<1>5. LinkAccounted' /\ ReadStaysOn' /\ PoolCounts'
  BY <1>1, <1>2, <1>4 DEF UdpInv, LinkAccounted, SameWatched, ReadStaysOn, PoolCounts
<1>6. NoStaleDispatch' /\ UnsentIsArmed'
  BY <1>1, <1>2, <1>3 DEF UdpInv, NoStaleDispatch, UnsentIsArmed
<1> QED BY <1>5, <1>6 DEF UdpInv

\* The handlers that leave the link up: what is sent switches WRITE off, what
\* is queued or refused switches it on again.
LEMMA LinkServesKeepsInv ==
  ASSUME UdpInv, NEW e \in Event, LinkServes(e)
  PROVE  UdpInv'
<1>1. /\ TypeOK /\ UnsentIsArmed /\ e = linkEvent /\ udpEvent # e /\ udpEvent \in Event
      /\ link = "up" /\ HasSocket(link)
      /\ UNCHANGED <<linkVars, udpEvent, sinceConnect, sinceSent, phase, crashed>>
      /\ evType' = Consume(e)
  BY DEF UdpInv, LinkAccounted, LinkServes, HasSocket, TypeOK
<1>2. PICK d \in Datagrams, sent \in BOOLEAN :
        /\ interest' = WatchedAfter(d, [interest EXCEPT ![e] = IF sent THEN @ \ {"WRITE"} ELSE @])
        /\ unsent' = UnsentAfter(d, IF sent THEN unsent \ {"tcp"} ELSE unsent)
        /\ sinceHeard' \in {0, sinceHeard}
  BY DEF LinkServes
<1> DEFINE w == [interest EXCEPT ![e] = IF sent THEN @ \ {"WRITE"} ELSE @]
           u == IF sent THEN unsent \ {"tcp"} ELSE unsent
<1>3. SameWatched(w) /\ w[udpEvent] = interest[udpEvent] /\ (~sent => w[e] = interest[e])
  <2>1. w = [interest EXCEPT ![e] = @ \ {"WRITE"}] \/ w = interest
    BY <1>1 DEF TypeOK
  <2> QED BY <1>1, <2>1, DisableWatches DEF TypeOK
<1>4. u \in SUBSET {"udp", "tcp"} /\ ("udp" \in u => "WRITE" \in w[udpEvent])
      /\ ("tcp" \in u => ~sent /\ "WRITE" \in w[e])
  BY <1>1, <1>3 DEF TypeOK, UnsentIsArmed
<1>5. interest' = WatchedAfter(d, w) /\ unsent' = UnsentAfter(d, u)
  BY <1>2
<1> HIDE DEF w, u
<1>6. /\ SameWatched(interest') /\ unsent' \subseteq {"udp", "tcp"}
      /\ \A x \in Event : w[x] \subseteq interest'[x]
      /\ "udp" \in unsent' => "WRITE" \in interest'[udpEvent]
      /\ "tcp" \in unsent' <=> "tcp" \in u
  BY <1>3, <1>4, <1>5, DatagramsWatched
<1>7. UnsentIsArmed'
  BY <1>1, <1>4, <1>6 DEF UnsentIsArmed, linkVars
<1>8. TimersOK' /\ phase' \in {"poll", "dispatch"} /\ crashed' \in BOOLEAN
  BY <1>1, <1>2, TimersReset DEF TypeOK, TimersOK
<1> QED BY <1>1, <1>6, <1>7, <1>8, ServeKeepsInv

\* The handler of the UDP socket's event.
LEMMA UdpServesKeepsInv ==
  ASSUME UdpInv, NEW e \in Event, UdpServes(e)
  PROVE  UdpInv'
<1>1. /\ TypeOK /\ UnsentIsArmed /\ e = udpEvent /\ linkEvent # e
      /\ UNCHANGED <<linkVars, udpEvent, timers, phase, crashed>>
      /\ evType' = Consume(e)
  BY DEF UdpInv, LinkAccounted, UdpServes
<1>2. PICK heard, sent \in BOOLEAN :
        /\ heard => link = "up"
        /\ interest' = Notify([interest EXCEPT ![e] = IF sent THEN @ \ {"WRITE"} ELSE @],
                              IF heard THEN {"tcp"} ELSE {})
        /\ unsent' = (IF sent THEN unsent \ {"udp"} ELSE unsent)
                       \cup (IF heard THEN {"tcp"} ELSE {})
  BY DEF UdpServes
<1> DEFINE w == [interest EXCEPT ![e] = IF sent THEN @ \ {"WRITE"} ELSE @]
           X == IF heard THEN {"tcp"} ELSE {}
<1>3. /\ SameWatched(w)
      /\ ~sent => w[e] = interest[e]
      /\ \A x \in Event \ {e} : w[x] = interest[x]
  <2>1. w = [interest EXCEPT ![e] = @ \ {"WRITE"}] \/ w = interest
    BY <1>1 DEF TypeOK
  <2> QED BY <1>1, <2>1, DisableWatches DEF TypeOK
<1>4. X \in SUBSET {"udp", "tcp"} /\ ("tcp" \in X => heard /\ HasSocket(link))
  BY <1>2 DEF HasSocket
<1>5. interest' = Notify(w, X)
  BY <1>2
<1> HIDE DEF w
<1>6. /\ SameWatched(interest') /\ \A x \in Event : w[x] \subseteq interest'[x]
      /\ "tcp" \in X => "WRITE" \in interest'[linkEvent]
  BY <1>3, <1>4, <1>5, NotifyWatches
<1>7. UnsentIsArmed'
  <2>1. "udp" \in unsent' => "WRITE" \in interest'[udpEvent]
    BY <1>1, <1>2, <1>3, <1>6 DEF UnsentIsArmed
  <2>2. ASSUME "tcp" \in unsent' PROVE link = "up" /\ "WRITE" \in interest'[linkEvent]
    <3>1. CASE heard
      BY <1>2, <1>6, <3>1
    <3>2. CASE ~heard
      <4>1. "tcp" \in unsent
        BY <1>2, <2>2, <3>2
      <4>2. link = "up" /\ "WRITE" \in interest[linkEvent] /\ linkEvent \in Event \ {e}
        BY <1>1, <4>1 DEF UdpInv, LinkAccounted, UnsentIsArmed, TypeOK, HasSocket
      <4> QED BY <1>3, <1>6, <4>2
    <3> QED BY <3>1, <3>2
  <2> QED BY <1>1, <2>1, <2>2 DEF UnsentIsArmed, linkVars
<1>8. /\ TimersOK' /\ unsent' \subseteq {"udp", "tcp"} /\ phase' \in {"poll", "dispatch"}
      /\ crashed' \in BOOLEAN
  BY <1>1, <1>2 DEF TypeOK, TimersOK, timers
<1> QED BY <1>1, <1>6, <1>7, <1>8, ServeKeepsInv

\* service_idle_cb.
LEMMA IdleKeepsInv == UdpInv /\ Idle => UdpInv'
<1> SUFFICES ASSUME UdpInv, Idle PROVE UdpInv'
  OBVIOUS
<1>1. TypeOK /\ SameWatched(interest) /\ UnsentIsArmed
  BY DisableWatches, UdpFacts DEF UdpInv, LinkAccounted, TypeOK
<1>2. CASE IdleReconnect
  BY <1>2, ReconnectKeepsInv
<1>3. CASE IdleKeepalive
  <2>1. CASE link # "up"
    BY <1>3, <2>1, CrashKeepsInv DEF IdleKeepalive
  <2>2. CASE link = "up"
    <3>1. /\ interest' = Notify(interest, {"tcp"}) /\ unsent' = unsent \cup {"tcp"}
          /\ sinceSent' = 0 /\ phase' = "poll"
          /\ UNCHANGED <<linkVars, udpEvent, evType, sinceConnect, sinceHeard, crashed>>
      BY <1>3, <2>2 DEF IdleKeepalive
    <3>2. /\ SameWatched(interest') /\ "WRITE" \in interest'[linkEvent]
          /\ \A x \in Event : interest[x] \subseteq interest'[x]
      BY <1>1, <2>2, <3>1, NotifyWatches DEF HasSocket
    <3>3. UnsentIsArmed'
      BY <1>1, <2>2, <3>1, <3>2 DEF UnsentIsArmed, linkVars, TypeOK
    <3>4. TimersOK' /\ unsent' \subseteq {"udp", "tcp"} /\ crashed' \in BOOLEAN
      BY <1>1, <3>1, TimersReset DEF TypeOK, TimersOK
    <3> QED BY <3>1, <3>2, <3>3, <3>4, ServeKeepsInv
  <2> QED BY <2>1, <2>2
<1>4. CASE IdleTimeout
  <2>1. CASE link = "failed"
    BY <1>4, <2>1, CrashKeepsInv DEF IdleTimeout
  <2>2. CASE link # "failed"
    <3>1. /\ CloseLink(interest, unsent) /\ phase' = "poll"
          /\ sinceHeard' = sinceHeard /\ crashed' = crashed
      BY <1>4, <2>2 DEF IdleTimeout
    <3>2. HasSocket(link) /\ crashed \in BOOLEAN /\ unsent \in SUBSET {"udp", "tcp"}
      BY <1>1, <1>4, <2>2 DEF IdleTimeout, HasSocket, TypeOK
    <3>3. "udp" \in unsent => "WRITE" \in interest[udpEvent]
      BY <1>1 DEF UnsentIsArmed
    <3> QED BY <1>1, <3>1, <3>2, <3>3, CloseKeepsInv
  <2> QED BY <2>1, <2>2
<1>5. CASE IdleRest
  <2>1. UNCHANGED <<linkVars, udpEvent, interest, evType, unsent, timers, crashed>> /\ phase' = "poll"
    BY <1>5 DEF IdleRest
  <2>2. TimersOK' /\ UnsentIsArmed' /\ unsent' \subseteq {"udp", "tcp"} /\ crashed' \in BOOLEAN
        /\ SameWatched(interest')
    BY <1>1, <2>1 DEF TypeOK, TimersOK, timers, UnsentIsArmed, linkVars, SameWatched
  <2> QED BY <2>1, <2>2, ServeKeepsInv
<1> QED BY <1>2, <1>3, <1>4, <1>5 DEF Idle

\* One step of the loop.
LEMMA UdpStep == UdpInv /\ [Next]_vars => UdpInv'
<1> SUFFICES ASSUME UdpInv, [Next]_vars PROVE UdpInv'
  OBVIOUS
<1>1. ASSUME NEW d \in ClockSteps, Poll(d) PROVE UdpInv'
  BY <1>1, PollKeepsInv
<1>2. ASSUME NEW e \in Event,
             \/ ConnectSucceeds(e) \/ ConnectFails(e) \/ LinkCloses(e)
             \/ LinkServes(e) \/ UdpServes(e) \/ DatagramWithoutLink(e)
      PROVE  UdpInv'
  BY <1>2, ConnectKeepsInv, LinkEndsKeepsInv, LinkServesKeepsInv, UdpServesKeepsInv,
     CrashKeepsInv DEF DatagramWithoutLink
<1>3. CASE Idle
  BY <1>3, IdleKeepsInv
<1>4. CASE UNCHANGED vars
  BY <1>4 DEF vars, linkVars, timers, UdpInv, LinkAccounted, TypeOK, ReadStaysOn, PoolCounts,
              NoStaleDispatch, Pending, UnsentIsArmed
<1> QED BY <1>1, <1>2, <1>3, <1>4 DEF Next

-----------------------------------------------------------------------------
(***************************************************************************)
(* The theorems.                                                           *)
(***************************************************************************)

\* Every state the UDP side can reach is in order.
LEMMA UdpInvHolds == Spec => []UdpInv
BY UdpStart, UdpStep, PTL DEF Spec

\* do_connect, try_tcp_connect and close_cb account for every descriptor and
\* event, whatever becomes of the attempts and whenever links are lost.
THEOREM NothingOfALinkLeaks == Spec => []LinkAccounted
<1>1. UdpInv => LinkAccounted
  BY DEF UdpInv
<1> QED BY <1>1, UdpInvHolds, PTL

\* On this side no event of a batch needs the FINISH mark: the only handler that
\* closes the link is that of its own event.
THEOREM NoMarkIsNeeded == Spec => []NoStaleDispatch
<1>1. UdpInv => NoStaleDispatch
  BY DEF UdpInv
<1> QED BY <1>1, UdpInvHolds, PTL

\* What handle_udp, tcp_to_udp and send_keepalive_frame leave in a buffer is
\* never forgotten by the loop, and never belongs to a link that is gone.
THEOREM WaitingIsWatched == Spec => []UnsentIsArmed
<1>1. UdpInv => UnsentIsArmed
  BY DEF UdpInv
<1> QED BY <1>1, UdpInvHolds, PTL

\* service_idle_cb sends a keepalive in time: it rests, or looks at anything
\* else, only when none is due.
THEOREM KeepalivesInTime == Spec => []KeepalivesKeepUp
<1>1. Init => KeepalivesKeepUp
  BY DEF Init, KeepalivesKeepUp
<1>2. UdpInv /\ KeepalivesKeepUp /\ [Next]_vars => KeepalivesKeepUp'
  <2> SUFFICES ASSUME UdpInv, KeepalivesKeepUp, [Next]_vars,
                      phase' = "poll", link' = "up", sinceConnect' # 0, ~crashed'
               PROVE  ~IsOver(sinceSent', KeepaliveInterval, Word)
    BY DEF KeepalivesKeepUp
  <2>1. CASE Idle
    <3>1. CASE IdleReconnect
      BY <3>1 DEF IdleReconnect
    <3>2. CASE IdleKeepalive
      BY <3>2, UdpFacts DEF IdleKeepalive, Crash, IsOver
    <3>3. CASE IdleTimeout
      BY <3>3 DEF IdleTimeout, CloseLink, Crash
    <3>4. CASE IdleRest
      BY <3>4 DEF IdleRest, linkVars, timers, KeepaliveDue
    <3> QED BY <2>1, <3>1, <3>2, <3>3, <3>4 DEF Idle
  <2>2. CASE UNCHANGED vars
    BY <2>2 DEF vars, linkVars, timers, KeepalivesKeepUp
  <2>3. phase = "dispatch" => Idle \/ UNCHANGED vars
    BY DEF Next, Poll, ConnectSucceeds, ConnectFails, LinkCloses, LinkServes, UdpServes,
           DatagramWithoutLink, Dispatched, Crash
  <2>4. phase = "poll" => UNCHANGED vars
    BY DEF Next, Poll, ConnectSucceeds, ConnectFails, LinkCloses, LinkServes, UdpServes,
           DatagramWithoutLink, Dispatched, Crash, Idle, IdleReconnect, IdleKeepalive,
           IdleTimeout, IdleRest, BatchDone
  <2>5. phase \in {"poll", "dispatch"}
    BY DEF UdpInv, LinkAccounted, TypeOK
  <2> QED BY <2>1, <2>2, <2>3, <2>4, <2>5
<1> QED BY <1>1, <1>2, UdpInvHolds, PTL DEF Spec

\* The pool has an event for every new link, and an established link keeps
\* every handler and idle_cb from reading through NULL.
THEOREM OnlyTheLinkIsMissing == NumEvents > 2 => (Spec => CrashesOnlyWithoutLink)
<1> SUFFICES ASSUME NumEvents > 2 PROVE Spec => CrashesOnlyWithoutLink
  OBVIOUS
<1>1. UdpInv /\ [Next]_vars => (crashed' => crashed \/ (link # "up" /\ pool.num > 0))
  <2> SUFFICES ASSUME UdpInv, [Next]_vars, crashed', ~crashed
               PROVE  link # "up" /\ pool.num > 0
    OBVIOUS
  <2>1. pool.num > 0
    BY UdpFacts DEF UdpInv, PoolCounts
  <2>2. link # "up"
    BY DEF Next, Poll, ConnectSucceeds, ConnectFails, LinkCloses, LinkServes, UdpServes,
           DatagramWithoutLink, Idle, IdleReconnect, IdleKeepalive, IdleTimeout, IdleRest, vars
  <2> QED BY <2>1, <2>2
<1> QED BY <1>1, UdpInvHolds, PTL DEF Spec, CrashesOnlyWithoutLink

-----------------------------------------------------------------------------
\* While the clock is not set back, what was last heard is not older than the
\* link: try_tcp_connect sets both times.
HeardSinceConnect == sinceHeard >= 0 /\ sinceHeard <= sinceConnect

\* A time that has not run backwards is compared as it is.
LEMMA SmallAge ==
  ASSUME NEW a \in Nat, NEW w \in Nat, a < w
  PROVE  a % w = a
OBVIOUS

\* service_idle_cb gives a link the whole timeout to show a sign of life,
\* however long its predecessor had been silent.
THEOREM EachLinkGetsItsTime == ClockSteps \subseteq {0, 1} => (Spec => NewLinkGetsItsTime)
<1> SUFFICES ASSUME ClockSteps \subseteq {0, 1} PROVE Spec => NewLinkGetsItsTime
  OBVIOUS
<1>1. Init => HeardSinceConnect
  BY DEF Init, HeardSinceConnect
<1>2. UdpInv /\ HeardSinceConnect /\ [Next]_vars => HeardSinceConnect'
  <2> SUFFICES ASSUME UdpInv, HeardSinceConnect, [Next]_vars PROVE HeardSinceConnect'
    OBVIOUS
  <2>1. TimersOK
    BY DEF UdpInv, LinkAccounted, TypeOK, TimersOK
  <2>2. ASSUME NEW d \in ClockSteps, Poll(d) PROVE HeardSinceConnect'
    BY <2>1, <2>2, UdpFacts DEF Poll, AgesAfter, HeardSinceConnect, TimersOK
  <2>3. sinceHeard' = 0 /\ sinceConnect' = 0 => HeardSinceConnect'
    BY DEF HeardSinceConnect
  <2>4. sinceHeard' \in {0, sinceHeard} /\ sinceConnect' = sinceConnect => HeardSinceConnect'
    BY <2>1, UdpFacts DEF HeardSinceConnect, TimersOK
  <2>5. \/ \E d \in ClockSteps : Poll(d)
        \/ sinceHeard' = 0 /\ sinceConnect' = 0
        \/ sinceHeard' \in {0, sinceHeard} /\ sinceConnect' = sinceConnect
    BY ZenonT(60) DEF Next, ConnectSucceeds, ConnectFails, LinkCloses, LinkServes, UdpServes,
           DatagramWithoutLink, Crash, Idle, IdleReconnect, IdleKeepalive, IdleTimeout, IdleRest,
           CloseLink, timers, vars
  <2> QED BY <2>2, <2>3, <2>4, <2>5
<1>3. UdpInv /\ HeardSinceConnect /\ [Next]_vars =>
        (phase' = "poll" /\ HasSocket(link) /\ link' = "none" => sinceConnect > KeepaliveTimeout)
  <2> SUFFICES ASSUME UdpInv, HeardSinceConnect, [Next]_vars,
                      phase' = "poll", HasSocket(link), link' = "none"
               PROVE  sinceConnect > KeepaliveTimeout
    OBVIOUS
  <2>1. IdleTimeout
    BY DEF Next, Poll, ConnectSucceeds, ConnectFails, LinkCloses, LinkServes, UdpServes,
           DatagramWithoutLink, Dispatched, Crash, Idle, IdleReconnect, IdleKeepalive, IdleRest,
           HasSocket, linkVars, vars
  <2>2. sinceHeard % Word > KeepaliveTimeout
    BY <2>1 DEF IdleTimeout, LinkSilent, IsOver
  <2>3. sinceHeard \in Nat /\ sinceConnect \in Int /\ sinceHeard < Word
    BY UdpFacts, SMTT(30) DEF UdpInv, LinkAccounted, TypeOK, HeardSinceConnect
  <2>4. sinceHeard % Word = sinceHeard
    BY <2>3, SmallAge, UdpFacts
  <2> QED BY <2>2, <2>3, <2>4, UdpFacts DEF HeardSinceConnect
<1> QED BY <1>1, <1>2, <1>3, UdpInvHolds, PTL DEF Spec, NewLinkGetsItsTime
==============================================================================
