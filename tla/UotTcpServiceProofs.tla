------------------------- MODULE UotTcpServiceProofs -------------------------
(***************************************************************************)
(* Theorems about the TCP side, for any number of channels, events,        *)
(* descriptors and table entries: the types, the accounting of the events, *)
(* and the FINISH protocol of the event loop that rests on it; then its    *)
(* tables: the table lists the channels, the process holds their           *)
(* descriptors and no others, what waits to be sent is watched for, and    *)
(* what it takes to bring the process down.                                *)
(***************************************************************************)
EXTENDS UotTcpService, FixedPoolProofs

\* The constants as sets, in the form the provers use.
LEMMA EventFacts ==
  /\ NumEvents \in Nat \ {0} /\ Event = 0..(NumEvents - 1) /\ NULL \notin Event
  /\ FdLimit \in Nat \ {0} /\ Fd = 0..(FdLimit - 1) /\ NULL \notin Fd
  /\ ListenFd \in Fd
BY ConstantsAssumption DEF Event, Fd, NULL, ListenFd

\* A pool stays within its type whatever is popped from it or pushed on it.
LEMMA PoolTypes ==
  ASSUME NEW p, p.array \in [Event -> Event \cup {NULL}], p.num \in 0..NumEvents,
         NEW b \in Event \cup {NULL}
  PROVE  /\ PoolPop(p).array \in [Event -> Event \cup {NULL}]
         /\ PoolPop(p).num \in 0..NumEvents
         /\ PoolPush(p, b).array \in [Event -> Event \cup {NULL}]
         /\ PoolPush(p, b).num \in 0..NumEvents
         /\ PoolTop(p) \in Event \cup {NULL}
<1>1. p.num \in Event => p.num + 1 \in 0..NumEvents
  BY EventFacts
<1>2. p.num # 0 => p.num - 1 \in Event
  BY EventFacts
<1>3. DOMAIN p.array = Event
  OBVIOUS
<1>4. /\ PoolPop(p).array \in [Event -> Event \cup {NULL}]
      /\ PoolPop(p).num \in 0..NumEvents
  <2>1. CASE p.num = 0
    BY <2>1 DEF PoolPop
  <2>2. CASE p.num # 0
    <3>1. /\ PoolPop(p).array = [p.array EXCEPT ![p.num - 1] = NULL]
          /\ PoolPop(p).num = p.num - 1
      BY <2>2 DEF PoolPop
    <3> QED BY <3>1, <2>2, EventFacts
  <2> QED BY <2>1, <2>2
<1>5. /\ PoolPush(p, b).array \in [Event -> Event \cup {NULL}]
      /\ PoolPush(p, b).num \in 0..NumEvents
  <2>1. CASE p.num \notin DOMAIN p.array \/ p.array[p.num] # NULL
    BY <2>1 DEF PoolPush
  <2>2. CASE ~(p.num \notin DOMAIN p.array \/ p.array[p.num] # NULL)
    <3>1. /\ PoolPush(p, b).array = [p.array EXCEPT ![p.num] = b]
          /\ PoolPush(p, b).num = p.num + 1
      BY <2>2 DEF PoolPush
    <3> QED BY <3>1, <2>2, <1>1, <1>3
  <2> QED BY <2>1, <2>2
<1>6. PoolTop(p) \in Event \cup {NULL}
  BY <1>2 DEF PoolTop
<1> QED BY <1>4, <1>5, <1>6

\* The names of a channel's two connections tell channels and roles apart.
LEMMA ConnFacts ==
  /\ \A c \in Chan : Tcp(c) \in Conn /\ Udp(c) \in Conn /\ Tcp(c) # Udp(c)
  /\ \A c, d \in Chan : /\ Tcp(c) = Tcp(d) => c = d
                        /\ Udp(c) = Udp(d) => c = d
                        /\ Tcp(c) # Udp(d)
  /\ \A c \in Chan : Tcp(c)[1] = c /\ Udp(c)[1] = c
  /\ \A x \in Conn : x[1] \in Chan /\ (x = Tcp(x[1]) \/ x = Udp(x[1]))
  /\ Listener \notin Conn /\ NoConn \notin Conn /\ Listener # NoConn
<1>1. \A c \in Chan : Tcp(c) \in Conn /\ Udp(c) \in Conn /\ Tcp(c) # Udp(c)
  BY DEF Conn, Tcp, Udp
<1>2. \A c, d \in Chan : /\ Tcp(c) = Tcp(d) => c = d
                         /\ Udp(c) = Udp(d) => c = d
                         /\ Tcp(c) # Udp(d)
  BY DEF Tcp, Udp
<1>3. \A c \in Chan : Tcp(c)[1] = c /\ Udp(c)[1] = c
  BY DEF Tcp, Udp
<1>4. \A x \in Conn : x[1] \in Chan /\ (x = Tcp(x[1]) \/ x = Udp(x[1]))
  BY DEF Conn, Tcp, Udp
<1> QED BY <1>1, <1>2, <1>3, <1>4, ConstantsAssumption

-----------------------------------------------------------------------------
(***************************************************************************)
(* Types.                                                                  *)
(***************************************************************************)
LEMMA TypeInit == Init => TypeOK
<1> SUFFICES ASSUME Init PROVE TypeOK
  OBVIOUS
<1>1. /\ PoolCreate(NumEvents).array \in [Event -> Event \cup {NULL}]
      /\ PoolCreate(NumEvents).num \in 0..NumEvents
  BY EventFacts DEF PoolCreate
<1>2. pool.array \in [Event -> Event \cup {NULL}] /\ pool.num \in 0..NumEvents
  BY <1>1, PoolTypes DEF Init
<1>3. openFd \subseteq Fd
  BY EventFacts DEF Init
<1>4. age \in [Chan -> -1 .. (KeepaliveTimeout + 1)]
  BY ConstantsAssumption DEF Init
<1>5. /\ owner \in [Event -> Conn \cup {Listener, NoConn}]
      /\ interest \in [Event -> SUBSET {"READ", "WRITE"}]
      /\ evType \in [Event -> SUBSET {"READ", "WRITE", "EOF", "ERROR", "FINISH"}]
  BY DEF Init
<1>6. event \in [Conn -> Event \cup {NULL}] /\ fd \in [Conn -> Fd \cup {NULL}]
  BY DEF Init
<1>7. lru \in Seq(Chan)
  BY DEF Init
<1>8. /\ chans \subseteq Chan /\ unsent \subseteq Conn
      /\ phase \in {"poll", "dispatch"} /\ crashed \in BOOLEAN
  BY DEF Init
<1> QED BY <1>2, <1>3, <1>4, <1>5, <1>6, <1>7, <1>8 DEF TypeOK

\* Closing a channel, and the table without one of its entries.
LEMMA PopByKeyType ==
  ASSUME NEW s \in Seq(Chan), NEW c \in Chan
  PROVE  PopByKey(s, c) \in Seq(Chan)
<1>1. CASE \A i \in DOMAIN s : s[i] # c
  BY <1>1 DEF PopByKey
<1>2. CASE \E i \in DOMAIN s : s[i] = c
  <2> DEFINE i == CHOOSE j \in DOMAIN s : s[j] = c
  <2>1. i \in 1..Len(s)
    BY <1>2
  <2>2. PopByKey(s, c) = SubSeq(s, 1, i - 1) \o SubSeq(s, i + 1, Len(s))
    BY <1>2 DEF PopByKey
  <2> HIDE DEF i
  <2>3. SubSeq(s, 1, i - 1) \in Seq(Chan) /\ SubSeq(s, i + 1, Len(s)) \in Seq(Chan)
    BY <2>1
  <2> QED BY <2>2, <2>3
<1> QED BY <1>1, <1>2

LEMMA CloseTypes ==
  ASSUME TypeOK, NEW c \in Chan, CloseChannel(c), phase' \in {"poll", "dispatch"},
         UNCHANGED crashed
  PROVE  TypeOK'
<1>1. /\ pool'.array \in [Event -> Event \cup {NULL}] /\ pool'.num \in 0..NumEvents
  <2>1. pool' = PoolPush(PoolPush(pool, event[Tcp(c)]), event[Udp(c)])
    BY DEF CloseChannel, PoolAfterClose
  <2>2. event[Tcp(c)] \in Event \cup {NULL} /\ event[Udp(c)] \in Event \cup {NULL}
    BY ConnFacts DEF TypeOK
  <2>3. pool.array \in [Event -> Event \cup {NULL}] /\ pool.num \in 0..NumEvents
    BY DEF TypeOK
  <2>4. /\ PoolPush(pool, event[Tcp(c)]).array \in [Event -> Event \cup {NULL}]
        /\ PoolPush(pool, event[Tcp(c)]).num \in 0..NumEvents
    BY <2>2, <2>3, PoolTypes
  <2> QED BY <2>1, <2>2, <2>4, PoolTypes
<1>2. lru' \in Seq(Chan)
  BY PopByKeyType DEF CloseChannel, TypeOK
<1>3. evType' \in [Event -> SUBSET {"READ", "WRITE", "EOF", "ERROR", "FINISH"}]
  BY DEF CloseChannel, MarkFinished, TypeOK
<1>4. /\ owner' \in [Event -> Conn \cup {Listener, NoConn}]
      /\ interest' \in [Event -> SUBSET {"READ", "WRITE"}]
      /\ chans' \subseteq Chan
      /\ event' \in [Conn -> Event \cup {NULL}]
      /\ fd' \in [Conn -> Fd \cup {NULL}]
      /\ openFd' \subseteq Fd
      /\ unsent' \subseteq Conn
  BY DEF CloseChannel, TypeOK
<1> QED BY <1>1, <1>2, <1>3, <1>4 DEF TypeOK, CloseChannel

\* At most the oldest channel is evicted, and the table stays a table.
LEMMA EvictedFacts ==
  ASSUME TypeOK, NEW c \in Chan
  PROVE  /\ Evicted = {} \/ (/\ Evicted = {OldestChannel} /\ OldestChannel \in Chan
                             /\ lru # <<>>)
         /\ LruPut(lru, c) \in Seq(Chan)
<1>1. lru \in Seq(Chan) /\ LruSize \in Nat \ {0}
  BY ConstantsAssumption DEF TypeOK
<1>2. Len(lru) >= LruSize => lru # <<>> /\ OldestChannel \in Chan
  BY <1>1 DEF OldestChannel
<1>3. LruPut(lru, c) \in Seq(Chan)
  <2>1. Len(lru) >= LruSize => SubSeq(lru, 1, Len(lru) - 1) \in Seq(Chan)
    BY <1>1
  <2> QED BY <1>1, <2>1 DEF LruPut
<1> QED BY <1>2, <1>3 DEF Evicted

LEMMA EnterTypes ==
  ASSUME TypeOK, NEW c \in Chan, NEW tf \in Fd, NEW uf \in Fd \cup {NULL},
         NEW te \in Event \cup {NULL}, NEW ue \in Event \cup {NULL},
         NEW p, p.array \in [Event -> Event \cup {NULL}], p.num \in 0..NumEvents,
         Enter(c, p, te, tf, ue, uf), phase' = phase, crashed' \in BOOLEAN,
         evType' \in [Event -> SUBSET {"READ", "WRITE", "EOF", "ERROR", "FINISH"}]
  PROVE  TypeOK'
<1>1. Evicted \subseteq Chan /\ lru' \in Seq(Chan)
  BY EvictedFacts DEF Enter
<1>2. /\ pool'.array \in [Event -> Event \cup {NULL}] /\ pool'.num \in 0..NumEvents
  <2>1. CASE Evicted = {}
    BY <2>1 DEF Enter, PoolAfterClose
  <2>2. CASE Evicted # {}
    <3>1. PICK d \in Chan : Evicted = {d}
      BY <2>2, EvictedFacts
    <3>2. pool' = PoolPush(PoolPush(p, event[Tcp(d)]), event[Udp(d)])
      BY <3>1 DEF Enter, PoolAfterClose
    <3>3. event[Tcp(d)] \in Event \cup {NULL} /\ event[Udp(d)] \in Event \cup {NULL}
      BY ConnFacts DEF TypeOK
    <3>4. /\ PoolPush(p, event[Tcp(d)]).array \in [Event -> Event \cup {NULL}]
          /\ PoolPush(p, event[Tcp(d)]).num \in 0..NumEvents
      BY <3>3, PoolTypes
    <3> QED BY <3>2, <3>3, <3>4, PoolTypes
  <2> QED BY <2>1, <2>2
<1>3. owner' \in [Event -> Conn \cup {Listener, NoConn}]
  BY ConnFacts DEF Enter, TypeOK
<1>4. interest' \in [Event -> SUBSET {"READ", "WRITE"}]
  BY DEF Enter, TypeOK
<1>5. event' \in [Conn -> Event \cup {NULL}]
  BY DEF Enter, TypeOK
<1>6. fd' \in [Conn -> Fd \cup {NULL}]
  BY DEF Enter, TypeOK
<1>7. openFd' \subseteq Fd /\ chans' \subseteq Chan /\ unsent' \subseteq Conn
  BY <1>1 DEF Enter, TypeOK
<1>8. age' \in [Chan -> -1 .. (KeepaliveTimeout + 1)]
  BY ConstantsAssumption DEF Enter, TypeOK
<1> QED BY <1>1, <1>2, <1>3, <1>4, <1>5, <1>6, <1>7, <1>8 DEF TypeOK

LEMMA AcceptTypes ==
  ASSUME TypeOK, NEW e \in Event, AcceptChannel(e)
  PROVE  TypeOK'
<1>1. PICK c \in Chan, tf \in Fd, ue \in Event \cup {NULL}, uf \in Fd \cup {NULL},
          p \in {PoolPop(pool), PoolPop(PoolPop(pool))} :
        /\ p.array \in [Event -> Event \cup {NULL}] /\ p.num \in 0..NumEvents
        /\ Enter(c, p, PoolTop(pool), tf, ue, uf)
  <2> DEFINE p1 == PoolPop(pool)
  <2>1. /\ pool.array \in [Event -> Event \cup {NULL}] /\ pool.num \in 0..NumEvents
    BY DEF TypeOK
  <2>2. /\ p1.array \in [Event -> Event \cup {NULL}] /\ p1.num \in 0..NumEvents
    BY <2>1, PoolTypes
  <2>3. /\ PoolPop(p1).array \in [Event -> Event \cup {NULL}]
        /\ PoolPop(p1).num \in 0..NumEvents
        /\ PoolTop(p1) \in Event \cup {NULL}
    BY <2>2, PoolTypes
  <2>4. PICK c \in Chan, tf \in Fd :
          \/ Enter(c, p1, PoolTop(pool), tf, NULL, NULL)
          \/ \E uf \in Fd : Enter(c, PoolPop(p1), PoolTop(pool), tf, PoolTop(p1), uf)
    BY DEF AcceptChannel
  <2>0. p1 = PoolPop(pool)
    BY DEF p1
  <2> HIDE DEF p1
  <2>5. CASE Enter(c, p1, PoolTop(pool), tf, NULL, NULL)
    BY <2>0, <2>2, <2>5
  <2>6. CASE \E uf \in Fd : Enter(c, PoolPop(p1), PoolTop(pool), tf, PoolTop(p1), uf)
    BY <2>0, <2>3, <2>6
  <2> QED BY <2>4, <2>5, <2>6
<1>2. evType' \in [Event -> SUBSET {"READ", "WRITE", "EOF", "ERROR", "FINISH"}]
  BY DEF AcceptChannel, MarkFinished, Consume, TypeOK
<1>3. PoolTop(pool) \in Event \cup {NULL}
  BY PoolTypes DEF TypeOK
<1>4. phase' = phase /\ crashed' \in BOOLEAN
  BY DEF AcceptChannel
<1> QED BY <1>1, <1>2, <1>3, <1>4, EnterTypes

LEMMA PollTypes ==
  ASSUME TypeOK, NEW d \in ClockSteps, Poll(d)
  PROVE  TypeOK'
<1>1. age' \in [Chan -> -1 .. (KeepaliveTimeout + 1)]
  BY DEF Poll
<1>2. evType' \in [Event -> SUBSET {"READ", "WRITE", "EOF", "ERROR", "FINISH"}]
  <2>1. PICK batch \in SUBSET Registered : \E report \in [batch -> Reports] :
          evType' = [e \in Event |-> IF e \in batch THEN report[e] ELSE {}]
    BY DEF Poll
  <2>2. PICK report \in [batch -> Reports] :
          evType' = [e \in Event |-> IF e \in batch THEN report[e] ELSE {}]
    BY <2>1
  <2>3. \A e \in batch : report[e] \subseteq {"READ", "WRITE", "EOF", "ERROR"}
    BY ConstantsAssumption
  <2> QED BY <2>2, <2>3
<1> QED BY <1>1, <1>2 DEF Poll, TypeOK, tables

LEMMA ServeTypes ==
  ASSUME TypeOK, NEW e \in Event, NEW c \in Chan, TcpServe(e, c) \/ UdpServe(e, c)
  PROVE  TypeOK'
<1>1. evType' \in [Event -> SUBSET {"READ", "WRITE", "EOF", "ERROR", "FINISH"}]
  BY DEF TcpServe, UdpServe, Consume, TypeOK
<1>2. CASE TcpServe(e, c)
  <2>1. PICK disabled \in [Event -> SUBSET {"READ", "WRITE"}], X \in SUBSET Conn :
          interest' = Notify(disabled, X)
    <3>1. [interest EXCEPT ![e] = @ \ {"WRITE"}] \in [Event -> SUBSET {"READ", "WRITE"}]
      BY DEF TypeOK
    <3>2. interest \in [Event -> SUBSET {"READ", "WRITE"}] /\ {Tcp(c), Udp(c)} \subseteq Conn
      BY ConnFacts DEF TypeOK
    <3>3. PICK again \in BOOLEAN, r \in Receipt :
            interest' = Notify(IF "WRITE" \in evType[e] /\ ~again
                               THEN [interest EXCEPT ![e] = @ \ {"WRITE"}] ELSE interest,
                               (IF r.echo THEN {Tcp(c)} ELSE {}) \cup
                               (IF r.datagrams \in {"failed", "failed then sent"}
                                THEN {Udp(c)} ELSE {}))
      BY <1>2 DEF TcpServe
    <3>4. CASE "WRITE" \in evType[e] /\ ~again
      BY <3>1, <3>2, <3>3, <3>4
    <3>5. CASE ~("WRITE" \in evType[e] /\ ~again)
      BY <3>2, <3>3, <3>5
    <3> QED BY <3>4, <3>5
  <2>2. interest' \in [Event -> SUBSET {"READ", "WRITE"}]
    BY <2>1 DEF Notify
  <2>3. unsent' \subseteq Conn
    <3>1. unsent \subseteq Conn /\ {Tcp(c), Udp(c)} \subseteq Conn
      BY ConnFacts DEF TypeOK
    <3>2. unsent' \subseteq unsent \cup {Tcp(c), Udp(c)}
      BY <1>2 DEF TcpServe
    <3> QED BY <3>1, <3>2
  <2>4. age' \in [Chan -> -1 .. (KeepaliveTimeout + 1)]
    <3>1. age' = [age EXCEPT ![c] = 0] \/ age' = age
      BY <1>2 DEF TcpServe
    <3>2. 0 \in -1 .. (KeepaliveTimeout + 1)
      BY ConstantsAssumption
    <3>3. age \in [Chan -> -1 .. (KeepaliveTimeout + 1)]
      BY DEF TypeOK
    <3>4. [age EXCEPT ![c] = 0] \in [Chan -> -1 .. (KeepaliveTimeout + 1)]
      BY <3>2, <3>3
    <3> QED BY <3>1, <3>3, <3>4
  <2> QED BY <1>1, <1>2, <2>2, <2>3, <2>4 DEF TcpServe, TypeOK
<1>3. CASE UdpServe(e, c)
  <2>1. interest' \in [Event -> SUBSET {"READ", "WRITE"}]
    BY <1>3 DEF UdpServe, Notify, TypeOK
  <2>2. unsent' \subseteq Conn
    BY <1>3, ConnFacts DEF UdpServe, TypeOK
  <2> QED BY <1>1, <1>3, <2>1, <2>2 DEF UdpServe, TypeOK
<1> QED BY <1>2, <1>3

\* The steps that leave the tables alone, the end of the process included.
LEMMA QuietTypes ==
  ASSUME TypeOK, NEW e \in Event,
         \/ SkipFinished(e) \/ AcceptFails(e) \/ Crash \/ IdleKeep
         \/ UNCHANGED vars
  PROVE  TypeOK'
<1>1. CASE SkipFinished(e)
  BY <1>1 DEF SkipFinished, TypeOK, tables
<1>2. CASE AcceptFails(e)
  BY <1>2 DEF AcceptFails, Consume, TypeOK, tables
<1>3. CASE Crash
  BY <1>3 DEF Crash, TypeOK, tables
<1>4. CASE IdleKeep
  BY <1>4 DEF IdleKeep, TypeOK, tables
<1>5. CASE UNCHANGED vars
  BY <1>5 DEF vars, TypeOK
<1> QED BY <1>1, <1>2, <1>3, <1>4, <1>5

LEMMA OldestIsChannel ==
  ASSUME TypeOK, lru # <<>>
  PROVE  OldestChannel \in Chan
BY DEF TypeOK, OldestChannel

LEMMA TypeStep == TypeOK /\ [Next]_vars => TypeOK'
<1> SUFFICES ASSUME TypeOK, [Next]_vars PROVE TypeOK'
  OBVIOUS
<1> USE EventFacts
<1>1. ASSUME NEW d \in ClockSteps, Poll(d) PROVE TypeOK'
  BY <1>1, PollTypes
<1>2. ASSUME NEW e \in Event, Dispatch(e) PROVE TypeOK'
  <2>1. CASE SkipFinished(e) \/ AcceptFails(e)
    BY <2>1, QuietTypes
  <2>2. CASE AcceptFatal(e)
    BY <2>2, QuietTypes DEF AcceptFatal
  <2>3. CASE AcceptChannel(e)
    BY <2>3, AcceptTypes
  <2>4. ASSUME NEW c \in Chan, TcpClose(e, c) PROVE TypeOK'
    <3>1. CASE Crash
      BY <3>1, QuietTypes
    <3>2. CASE CloseChannel(c) /\ UNCHANGED <<phase, crashed>>
      BY <3>2, CloseTypes DEF TypeOK
    <3> QED BY <2>4, <3>1, <3>2 DEF TcpClose
  <2>5. ASSUME NEW c \in Chan, TcpServe(e, c) \/ UdpServe(e, c) PROVE TypeOK'
    BY <2>5, ServeTypes
  <2>6. ASSUME NEW c \in Chan, TcpServeWithoutUdp(e, c) PROVE TypeOK'
    BY <2>6, QuietTypes DEF TcpServeWithoutUdp
  <2> QED BY <1>2, <2>1, <2>2, <2>3, <2>4, <2>5, <2>6 DEF Dispatch
<1>3. CASE IdleKeep
  <2>1. 0 \in Event
    OBVIOUS
  <2> QED BY <1>3, <2>1, QuietTypes
<1>4. CASE IdleClose
  <2>1. CASE Crash
    <3>1. 0 \in Event
      OBVIOUS
    <3> QED BY <2>1, <3>1, QuietTypes
  <2>2. CASE CloseChannel(OldestChannel) /\ phase' = "poll" /\ UNCHANGED crashed
    BY <1>4, <2>2, CloseTypes, OldestIsChannel DEF IdleClose
  <2> QED BY <1>4, <2>1, <2>2 DEF IdleClose
<1>5. CASE UNCHANGED vars
  <2>1. 0 \in Event
    OBVIOUS
  <2> QED BY <1>5, <2>1, QuietTypes
<1> QED BY <1>1, <1>2, <1>3, <1>4, <1>5 DEF Next

\* Every reachable state is well typed: no event, descriptor or channel of
\* another kind ever gets into the loop's tables.
THEOREM TypeCorrect == Spec => []TypeOK
BY TypeInit, TypeStep, PTL DEF Spec

-----------------------------------------------------------------------------
(***************************************************************************)
(* The events of the TCP side, for any number of channels, events,         *)
(* descriptors and table entries: every event is in the pool or with one   *)
(* connection, and the FINISH protocol of the loop, which rests on it.     *)
(*                                                                         *)
(* EventsAccounted is not inductive by itself.  A handler that disables    *)
(* WRITE leaves the event registered only because READ is watched as long  *)
(* as the event is (WatchedForReading); and an event of the batch may be   *)
(* dispatched only if it is still with a connection, whatever happened to  *)
(* it since it was reported (PendingOwned).                                *)
(***************************************************************************)

\* What the kernel watches, it watches for reading: set_event only toggles WRITE.
WatchedForReading == \A e \in Event : interest[e] # {} => "READ" \in interest[e]

\* An event that waits in the batch unmarked has not gone back to the pool.
PendingOwned == \A e \in Pending : evType[e] # {"FINISH"} => owner[e] # NoConn

\* The inductive invariant, together with TypeOK.
EventsInv == EventsAccounted /\ WatchedForReading /\ PendingOwned

-----------------------------------------------------------------------------
\* The listener's event is the only one out of the pool at the start.
LEMMA EventsInit == Init => EventsInv
<1> SUFFICES ASSUME Init PROVE EventsInv
  OBVIOUS
<1> DEFINE p == PoolCreate(NumEvents)
<1>1. /\ PoolOK(p, NumEvents) /\ PoolFree(p) = Event /\ p.num > 0
  BY PoolCreateOK, EventFacts DEF PoolCreate
<1>2. /\ PoolOK(PoolPop(p), NumEvents) /\ PoolFree(PoolPop(p)) = Event \ {ListenEvent}
      /\ ListenEvent \in Event
  BY <1>1, PoolPopOK, EventFacts DEF ListenEvent
<1> HIDE DEF p
<1>3. PoolOK(pool, NumEvents) /\ PoolFree(pool) = Event \ {ListenEvent}
  BY <1>2 DEF Init, p
<1>4. \A e \in Event : /\ e \in PoolFree(pool) <=> owner[e] = NoConn
                       /\ e \in PoolFree(pool) <=> interest[e] = {}
                       /\ owner[e] \notin Conn
  BY <1>2, <1>3, ConnFacts DEF Init
<1>5. \A x \in Conn : event[x] = NULL
  BY DEF Init
<1>6. EventsAccounted
  BY <1>3, <1>4, <1>5 DEF EventsAccounted
<1>7. WatchedForReading
  BY DEF WatchedForReading, Init
<1>8. PendingOwned
  BY DEF PendingOwned, Pending, Init
<1> QED BY <1>6, <1>7, <1>8 DEF EventsInv

\* What closing the channels V does to the pool: their events are all with
\* them, none of them is free, and they all go back.
LEMMA ClosedEvents ==
  ASSUME TypeOK, EventsAccounted,
         NEW V, V = {} \/ (\E v \in Chan : V = {v}), ~CloseIsFatal(V),
         NEW p, PoolOK(p, NumEvents), PoolFree(p) \subseteq PoolFree(pool)
  PROVE  /\ V \subseteq chans
         /\ EventsOf(V) \subseteq Event
         /\ \A e \in EventsOf(V) : e \notin PoolFree(pool) /\ owner[e] \in Conn
         /\ \A e \in Event : owner[e] \in Conn => (e \in EventsOf(V) <=> owner[e][1] \in V)
         /\ PoolOK(PoolAfterClose(p, V), NumEvents)
         /\ PoolFree(PoolAfterClose(p, V)) = PoolFree(p) \cup EventsOf(V)
<1>1. CASE V = {}
  BY <1>1 DEF EventsOf, PoolAfterClose
<1>2. CASE \E v \in Chan : V = {v}
  <2>1. PICK v \in Chan : V = {v}
    BY <1>2
  <2> DEFINE t == event[Tcp(v)]
             u == event[Udp(v)]
  <2>2. EventsOf(V) = {t, u}
    BY <2>1 DEF EventsOf
  <2>3. t \in Event /\ u \in Event /\ t # NULL /\ u # NULL
    BY <2>2, ConnFacts DEF CloseIsFatal, TypeOK
  <2>4. /\ Tcp(v) \in LiveConn /\ owner[t] = Tcp(v)
        /\ Udp(v) \in LiveConn /\ owner[u] = Udp(v)
    BY <2>3, ConnFacts DEF EventsAccounted
  <2>5. v \in chans /\ t # u
    BY <2>4, ConnFacts DEF LiveConn
  <2>6. t \notin PoolFree(pool) /\ u \notin PoolFree(pool)
    <3>1. \A e \in Event : e \in PoolFree(pool) => owner[e] = NoConn
      BY DEF EventsAccounted
    <3>2. owner[t] # NoConn /\ owner[u] # NoConn
      BY <2>4, ConnFacts
    <3> HIDE DEF t, u
    <3> QED BY <2>3, <3>1, <3>2
  <2>7. \A e \in Event : owner[e] \in Conn => (e \in {t, u} <=> owner[e][1] = v)
    <3> SUFFICES ASSUME NEW e \in Event, owner[e] \in Conn
                 PROVE  e \in {t, u} <=> owner[e][1] = v
      OBVIOUS
    <3>1. event[owner[e]] = e
      BY DEF EventsAccounted
    <3>2. owner[e][1] = v => owner[e] = Tcp(v) \/ owner[e] = Udp(v)
      BY ConnFacts
    <3>3. e \in {t, u} => owner[e][1] = v
      BY <2>4, ConnFacts
    <3> QED BY <3>1, <3>2, <3>3
  <2>8. PoolAfterClose(p, V) = PoolPush(PoolPush(p, t), u)
    BY <2>1 DEF PoolAfterClose
  <2> HIDE DEF t, u
  <2>9. NumEvents \in Nat /\ t \in 0..(NumEvents - 1) /\ u \in 0..(NumEvents - 1)
    BY <2>3, EventFacts
  <2>10. /\ PoolOK(PoolPush(p, t), NumEvents)
         /\ PoolFree(PoolPush(p, t)) = PoolFree(p) \cup {t}
    BY <2>6, <2>9, PoolPushOK
  <2>11. /\ PoolOK(PoolPush(PoolPush(p, t), u), NumEvents)
         /\ PoolFree(PoolPush(PoolPush(p, t), u)) = PoolFree(p) \cup {t, u}
    <3>1. u \notin PoolFree(PoolPush(p, t))
      BY <2>5, <2>6, <2>10
    <3> QED BY <2>9, <2>10, <3>1, PoolPushOK
  <2>12. \A e \in EventsOf(V) : e \notin PoolFree(pool) /\ owner[e] \in Conn
    BY <2>2, <2>4, <2>6, ConnFacts
  <2> QED BY <2>1, <2>2, <2>3, <2>5, <2>7, <2>8, <2>11, <2>12
<1> QED BY <1>1, <1>2

\* close_cb and idle_cb: the channel's two events go back, marked FINISH if
\* they still wait in the batch.
LEMMA CloseEvents ==
  ASSUME TypeOK, EventsInv, NEW c \in Chan, CloseChannel(c), ~CloseIsFatal({c})
  PROVE  EventsInv'
<1> DEFINE E == EventsOf({c})
<1>0. PoolOK(pool, NumEvents)
  BY DEF EventsInv, EventsAccounted
<1>1. /\ E \subseteq Event
      /\ \A e \in E : e \notin PoolFree(pool) /\ owner[e] \in Conn
      /\ \A e \in Event : owner[e] \in Conn => (e \in E <=> owner[e][1] = c)
      /\ PoolOK(pool', NumEvents) /\ PoolFree(pool') = PoolFree(pool) \cup E
  <2>1. \E v \in Chan : {c} = {v}
    OBVIOUS
  <2>2. EventsAccounted /\ PoolFree(pool) \subseteq PoolFree(pool)
    BY DEF EventsInv
  <2>3. pool' = PoolAfterClose(pool, {c})
    BY DEF CloseChannel
  <2>4. \A e \in Event : owner[e] \in Conn => (e \in E <=> owner[e][1] \in {c})
    BY <1>0, <2>1, <2>2, ClosedEvents
  <2>5. /\ E \subseteq Event
        /\ \A e \in E : e \notin PoolFree(pool) /\ owner[e] \in Conn
        /\ PoolOK(pool', NumEvents) /\ PoolFree(pool') = PoolFree(pool) \cup E
    BY <1>0, <2>1, <2>2, <2>3, ClosedEvents
  <2> HIDE DEF E
  <2> QED BY <2>4, <2>5
<1>2. /\ owner' = [e \in Event |-> IF e \in E THEN NoConn ELSE owner[e]]
      /\ interest' = [e \in Event |-> IF e \in E THEN {} ELSE interest[e]]
      /\ evType' = [e \in Event |-> IF e \in E /\ evType[e] # {} THEN {"FINISH"} ELSE evType[e]]
      /\ chans' = chans \ {c}
      /\ event' = [event EXCEPT ![Tcp(c)] = NULL, ![Udp(c)] = NULL]
  BY DEF CloseChannel, MarkFinished
<1> HIDE DEF E
<1>3. \A e \in Event : /\ e \in PoolFree(pool') <=> owner'[e] = NoConn
                       /\ e \in PoolFree(pool') <=> interest'[e] = {}
  <2>1. \A e \in Event : /\ e \in PoolFree(pool) <=> owner[e] = NoConn
                         /\ e \in PoolFree(pool) <=> interest[e] = {}
    BY DEF EventsInv, EventsAccounted
  <2> SUFFICES ASSUME NEW e \in Event
               PROVE  /\ e \in PoolFree(pool') <=> owner'[e] = NoConn
                      /\ e \in PoolFree(pool') <=> interest'[e] = {}
    OBVIOUS
  <2>2. CASE e \in E
    BY <1>1, <1>2, <2>2
  <2>3. CASE e \notin E
    <3>1. e \in PoolFree(pool') <=> e \in PoolFree(pool)
      BY <1>1, <2>3
    <3>2. owner'[e] = owner[e] /\ interest'[e] = interest[e]
      BY <1>2, <2>3
    <3> QED BY <2>1, <3>1, <3>2
  <2> QED BY <2>2, <2>3
<1>4. \A x \in Conn : event'[x] # NULL => x \in LiveConn' /\ owner'[event'[x]] = x
  <2> SUFFICES ASSUME NEW x \in Conn, event'[x] # NULL
               PROVE  x \in LiveConn' /\ owner'[event'[x]] = x
    OBVIOUS
  <2>1. x # Tcp(c) /\ x # Udp(c) /\ event'[x] = event[x]
    BY <1>2, ConnFacts DEF TypeOK
  <2>2. x \in LiveConn /\ owner[event[x]] = x /\ event[x] \in Event
    BY <2>1 DEF EventsInv, EventsAccounted, TypeOK
  <2>3. x[1] # c
    BY <2>1, ConnFacts
  <2> QED BY <1>1, <1>2, <2>1, <2>2, <2>3 DEF LiveConn
<1>5. \A e \in Event : owner'[e] \in Conn => event'[owner'[e]] = e
  <2> SUFFICES ASSUME NEW e \in Event, owner'[e] \in Conn PROVE event'[owner'[e]] = e
    OBVIOUS
  <2>1. e \notin E /\ owner'[e] = owner[e]
    BY <1>2, ConnFacts
  <2>2. event[owner[e]] = e /\ owner[e] # Tcp(c) /\ owner[e] # Udp(c)
    BY <1>1, <2>1, ConnFacts DEF EventsInv, EventsAccounted
  <2> QED BY <1>2, <2>1, <2>2 DEF TypeOK
<1>6. WatchedForReading'
  BY <1>2 DEF EventsInv, WatchedForReading
<1>7. PendingOwned'
  BY <1>2 DEF EventsInv, PendingOwned, Pending
<1> QED BY <1>1, <1>3, <1>4, <1>5, <1>6, <1>7 DEF EventsInv, EventsAccounted

\* The channel c takes the events te and ue from the pool, and the evicted
\* channel, if there is one, gives its own back.
LEMMA EnterEvents ==
  ASSUME TypeOK, EventsInv, NEW e \in Event, NEW c \in Chan \ chans, NEW tf, NEW uf,
         NEW te \in PoolFree(pool), te \in Event, NEW ue \in Event \cup {NULL},
         ue # NULL => ue \in PoolFree(pool), ue # te,
         NEW p, PoolOK(p, NumEvents), PoolFree(p) = PoolFree(pool) \ {te, ue},
         ~CloseIsFatal(Evicted), Enter(c, p, te, tf, ue, uf),
         evType' = MarkFinished(Consume(e), Evicted)
  PROVE  EventsInv'
<1> DEFINE V == Evicted
           E == EventsOf(V)
<1>1. /\ V \subseteq chans
      /\ E \subseteq Event
      /\ \A x \in E : x \notin PoolFree(pool) /\ owner[x] \in Conn
      /\ \A x \in Event : owner[x] \in Conn => (x \in E <=> owner[x][1] \in V)
      /\ PoolOK(pool', NumEvents) /\ PoolFree(pool') = PoolFree(p) \cup E
  <2>1. V = {} \/ (\E v \in Chan : V = {v})
    BY EvictedFacts
  <2>2. EventsAccounted /\ PoolFree(p) \subseteq PoolFree(pool)
    BY DEF EventsInv
  <2>3. pool' = PoolAfterClose(p, V)
    BY DEF Enter
  <2> HIDE DEF V
  <2>4. ~CloseIsFatal(V)
    BY DEF V
  <2> QED BY <2>1, <2>2, <2>3, <2>4, ClosedEvents
<1>2. /\ owner' = [x \in Event |-> IF x = te THEN Tcp(c) ELSE IF x = ue THEN Udp(c)
                                   ELSE IF x \in E THEN NoConn ELSE owner[x]]
      /\ interest' = [x \in Event |-> IF x \in {te, ue} THEN {"READ"}
                                      ELSE IF x \in E THEN {} ELSE interest[x]]
      /\ event' = [x \in Conn |-> IF x = Tcp(c) THEN te ELSE IF x = Udp(c) THEN ue
                                  ELSE IF x[1] \in V THEN NULL ELSE event[x]]
      /\ chans' = (chans \ V) \cup {c}
  BY DEF Enter
<1>3. evType' = [x \in Event |-> IF x \in E /\ Consume(e)[x] # {} THEN {"FINISH"}
                                ELSE Consume(e)[x]]
  BY DEF MarkFinished
<1> HIDE DEF V, E
<1>4. \A x \in Event : /\ x \in PoolFree(pool) <=> owner[x] = NoConn
                       /\ x \in PoolFree(pool) <=> interest[x] = {}
  BY DEF EventsInv, EventsAccounted
<1>5. /\ \A x \in Conn : event[x] # NULL => x \in LiveConn /\ owner[event[x]] = x
      /\ \A x \in Event : owner[x] \in Conn => event[owner[x]] = x
  BY DEF EventsInv, EventsAccounted
<1>6. te \notin E /\ ue \notin E
  BY <1>1, EventFacts
<1>7. \A x \in Event : /\ x \in PoolFree(pool') <=> owner'[x] = NoConn
                       /\ x \in PoolFree(pool') <=> interest'[x] = {}
  <2> SUFFICES ASSUME NEW x \in Event
               PROVE  /\ x \in PoolFree(pool') <=> owner'[x] = NoConn
                      /\ x \in PoolFree(pool') <=> interest'[x] = {}
    OBVIOUS
  <2>1. CASE x \in {te, ue}
    <3>1. x \notin PoolFree(pool')
      BY <1>1, <1>6, <2>1
    <3>2. owner'[x] # NoConn /\ interest'[x] # {}
      BY <1>2, <2>1, ConnFacts
    <3> QED BY <3>1, <3>2
  <2>2. CASE x \in E
    BY <1>1, <1>2, <1>6, <2>2
  <2>3. CASE x \notin {te, ue} /\ x \notin E
    <3>1. x \in PoolFree(pool') <=> x \in PoolFree(pool)
      BY <1>1, <2>3
    <3>2. owner'[x] = owner[x] /\ interest'[x] = interest[x]
      BY <1>2, <2>3
    <3> QED BY <1>4, <3>1, <3>2
  <2> QED BY <2>1, <2>2, <2>3
<1>8. \A x \in Conn : event'[x] # NULL => x \in LiveConn' /\ owner'[event'[x]] = x
  <2> SUFFICES ASSUME NEW x \in Conn, event'[x] # NULL
               PROVE  x \in LiveConn' /\ owner'[event'[x]] = x
    OBVIOUS
  <2>1. CASE x = Tcp(c)
    BY <1>2, <2>1, ConnFacts DEF LiveConn
  <2>2. CASE x = Udp(c)
    <3>1. event'[x] = ue /\ ue \in Event
      BY <1>2, <2>2, ConnFacts
    <3> QED BY <1>2, <2>2, <3>1, ConnFacts DEF LiveConn
  <2>3. CASE x # Tcp(c) /\ x # Udp(c)
    <3>1. x[1] \notin V /\ event'[x] = event[x]
      BY <1>2, <2>3
    <3>2. event[x] \in Event /\ x \in LiveConn /\ owner[event[x]] = x
      BY <1>5, <3>1 DEF TypeOK
    <3>3. event[x] \notin E /\ event[x] # te /\ event[x] # ue
      BY <1>1, <1>4, <3>1, <3>2, ConnFacts
    <3>4. owner'[event[x]] = x
      BY <1>2, <3>2, <3>3
    <3> QED BY <1>2, <3>1, <3>2, <3>4 DEF LiveConn
  <2> QED BY <2>1, <2>2, <2>3
<1>9. \A x \in Event : owner'[x] \in Conn => event'[owner'[x]] = x
  <2> SUFFICES ASSUME NEW x \in Event, owner'[x] \in Conn PROVE event'[owner'[x]] = x
    OBVIOUS
  <2>1. CASE x = te
    BY <1>2, <2>1, ConnFacts
  <2>2. CASE x = ue
    BY <1>2, <2>2, ConnFacts
  <2>3. CASE x # te /\ x # ue
    <3>1. x \notin E /\ owner'[x] = owner[x]
      BY <1>2, <2>3, ConnFacts
    <3>2. event[owner[x]] = x /\ owner[x][1] \notin V
      BY <1>1, <1>5, <3>1
    <3>3. owner[x] \in LiveConn
      BY <1>5, <3>1, <3>2, EventFacts
    <3>4. owner[x] # Tcp(c) /\ owner[x] # Udp(c)
      BY <3>3, ConnFacts DEF LiveConn
    <3> QED BY <1>2, <3>1, <3>2, <3>4
  <2> QED BY <2>1, <2>2, <2>3
<1>10. WatchedForReading'
  BY <1>2 DEF EventsInv, WatchedForReading
<1>11. PendingOwned'
  <2> SUFFICES ASSUME NEW x \in Event, evType'[x] # {}, evType'[x] # {"FINISH"}
               PROVE  owner'[x] # NoConn
    BY DEF PendingOwned, Pending
  <2>1. x \notin E /\ evType'[x] = Consume(e)[x]
    BY <1>3
  <2>2. evType'[x] = evType[x]
    BY <2>1 DEF Consume, TypeOK
  <2>3. owner[x] # NoConn
    BY <2>2 DEF EventsInv, PendingOwned, Pending
  <2> QED BY <1>2, <2>1, <2>3, ConnFacts
<1> QED BY <1>1, <1>7, <1>8, <1>9, <1>10, <1>11 DEF EventsInv, EventsAccounted

\* do_accept with service_accept_cb: one or two events are popped, the evicted
\* channel's are pushed.
LEMMA AcceptEvents ==
  ASSUME TypeOK, EventsInv, NEW e \in Event, AcceptChannel(e)
  PROVE  EventsInv'
<1> DEFINE p1 == PoolPop(pool)
           te == PoolTop(pool)
<1>1. /\ te \in PoolFree(pool) /\ te \in Event /\ PoolOK(p1, NumEvents)
      /\ PoolFree(p1) = PoolFree(pool) \ {te}
  <2>1. PoolOK(pool, NumEvents) /\ pool.num > 0
    BY DEF EventsInv, EventsAccounted, AcceptChannel
  <2> QED BY <2>1, PoolPopOK, EventFacts
<1>2. /\ ~CloseIsFatal(Evicted) /\ evType' = MarkFinished(Consume(e), Evicted)
  BY DEF AcceptChannel
<1>3. PICK c \in Chan \ chans, tf \in Fd :
        \/ Enter(c, p1, te, tf, NULL, NULL)
        \/ p1.num > 0 /\ \E uf \in Fd : Enter(c, PoolPop(p1), te, tf, PoolTop(p1), uf)
  BY DEF AcceptChannel
<1> HIDE DEF p1, te
<1>4. CASE Enter(c, p1, te, tf, NULL, NULL)
  <2>1. NULL \in Event \cup {NULL} /\ NULL # te
    BY <1>1, EventFacts
  <2>2. PoolFree(p1) = PoolFree(pool) \ {te, NULL}
    <3>1. NULL \notin PoolFree(pool)
      <4>1. pool.num \in 0..NumEvents
        BY DEF TypeOK
      <4>2. \A i \in 0..(pool.num - 1) : i \in Event /\ pool.array[i] # NULL
        BY <4>1, EventFacts DEF EventsInv, EventsAccounted, PoolOK
      <4> QED BY <4>2 DEF PoolFree
    <3> QED BY <1>1, <3>1
  <2> QED BY <1>1, <1>2, <1>4, <2>1, <2>2, EnterEvents
<1>5. CASE p1.num > 0 /\ \E uf \in Fd : Enter(c, PoolPop(p1), te, tf, PoolTop(p1), uf)
  <2>1. PICK uf \in Fd : Enter(c, PoolPop(p1), te, tf, PoolTop(p1), uf)
    BY <1>5
  <2> DEFINE ue == PoolTop(p1)
             p2 == PoolPop(p1)
  <2>2. /\ ue \in PoolFree(p1) /\ ue \in Event /\ PoolOK(p2, NumEvents)
        /\ PoolFree(p2) = PoolFree(p1) \ {ue}
    BY <1>1, <1>5, PoolPopOK, EventFacts
  <2>3. Enter(c, p2, te, tf, ue, uf)
    BY <2>1
  <2> HIDE DEF ue, p2
  <2>4. ue \in PoolFree(pool) /\ ue # te /\ PoolFree(p2) = PoolFree(pool) \ {te, ue}
    BY <1>1, <2>2
  <2> QED BY <1>1, <1>2, <2>2, <2>3, <2>4, EnterEvents
<1> QED BY <1>3, <1>4, <1>5

\* The handlers that keep the channel only change what is watched of it.
LEMMA ServeEvents ==
  ASSUME TypeOK, EventsInv, UNCHANGED <<pool, owner, chans, event>>,
         NEW e \in Event, owner[e] \in Conn, evType' = Consume(e),
         NEW disabled \in {interest, [interest EXCEPT ![e] = @ \ {"WRITE"}]},
         NEW X \in SUBSET Conn, interest' = Notify(disabled, X)
  PROVE  EventsInv'
<1>1. /\ PoolOK(pool, NumEvents)
      /\ \A x \in Conn : event[x] # NULL => x \in LiveConn /\ owner[event[x]] = x
      /\ \A x \in Event : owner[x] \in Conn => event[owner[x]] = x
  BY DEF EventsInv, EventsAccounted
<1>2. \A x \in Event : /\ x \in PoolFree(pool) <=> owner[x] = NoConn
                       /\ x \in PoolFree(pool) <=> interest[x] = {}
  BY DEF EventsInv, EventsAccounted
<1>3. \A x \in Event : interest[x] # {} => "READ" \in interest[x]
  BY DEF EventsInv, WatchedForReading
<1>4. \A x \in Event : /\ interest'[x] = {} <=> interest[x] = {}
                       /\ interest'[x] # {} => "READ" \in interest'[x]
  <2> SUFFICES ASSUME NEW x \in Event
               PROVE  /\ interest'[x] = {} <=> interest[x] = {}
                      /\ interest'[x] # {} => "READ" \in interest'[x]
    OBVIOUS
  <2>1. /\ disabled[x] = {} <=> interest[x] = {}
        /\ disabled[x] # {} => "READ" \in disabled[x]
    BY <1>3 DEF TypeOK
  <2>2. owner[x] \in X => interest[x] # {}
    BY <1>2, ConnFacts
  <2>3. interest'[x] = IF owner[x] \in X THEN disabled[x] \cup {"WRITE"} ELSE disabled[x]
    BY DEF Notify
  <2> QED BY <2>1, <2>2, <2>3
<1>5. PendingOwned'
  BY DEF EventsInv, PendingOwned, Pending, Consume, TypeOK
<1>6. WatchedForReading'
  BY <1>4 DEF WatchedForReading
<1>7. \A x \in Event : /\ x \in PoolFree(pool') <=> owner'[x] = NoConn
                       /\ x \in PoolFree(pool') <=> interest'[x] = {}
  BY <1>2, <1>4
<1>8. LiveConn' = LiveConn
  BY DEF LiveConn
<1> QED BY <1>1, <1>5, <1>6, <1>7, <1>8 DEF EventsInv, EventsAccounted

\* The steps that leave the tables alone.
LEMMA QuietEvents ==
  ASSUME TypeOK, EventsInv, UNCHANGED tables,
         UNCHANGED evType \/ \E e \in Event : evType' = Consume(e)
  PROVE  EventsInv'
<1>1. EventsAccounted' /\ WatchedForReading'
  BY DEF EventsInv, EventsAccounted, WatchedForReading, LiveConn, tables
<1>2. PendingOwned'
  BY DEF EventsInv, PendingOwned, Pending, Consume, TypeOK, tables
<1> QED BY <1>1, <1>2 DEF EventsInv

\* get_event reports registered events only.
LEMMA PollEvents ==
  ASSUME TypeOK, EventsInv, NEW d \in ClockSteps, Poll(d)
  PROVE  EventsInv'
<1>1. EventsAccounted' /\ WatchedForReading'
  BY DEF EventsInv, EventsAccounted, WatchedForReading, LiveConn, tables, Poll
<1>2. PendingOwned'
  <2>1. PICK batch \in SUBSET Registered : \E report \in [batch -> Reports] :
          evType' = [e \in Event |-> IF e \in batch THEN report[e] ELSE {}]
    BY DEF Poll
  <2>2. \A e \in batch : owner[e] # NoConn
    BY DEF Registered, EventsInv, EventsAccounted
  <2> QED BY <2>1, <2>2 DEF PendingOwned, Pending, Poll, tables
<1> QED BY <1>1, <1>2 DEF EventsInv

\* One step of the loop.
LEMMA EventsStep == TypeOK /\ EventsInv /\ [Next]_vars => EventsInv'
<1> SUFFICES ASSUME TypeOK, EventsInv, [Next]_vars PROVE EventsInv'
  OBVIOUS
<1>0. Crash => EventsInv'
  BY QuietEvents DEF Crash
<1>1. ASSUME NEW d \in ClockSteps, Poll(d) PROVE EventsInv'
  BY <1>1, PollEvents
<1>2. ASSUME NEW e \in Event, Dispatch(e) PROVE EventsInv'
  <2>1. CASE SkipFinished(e) \/ AcceptFails(e)
    BY <2>1, QuietEvents DEF SkipFinished, AcceptFails, Consume
  <2>2. CASE AcceptFatal(e)
    BY <1>0, <2>2 DEF AcceptFatal
  <2>3. CASE AcceptChannel(e)
    BY <2>3, AcceptEvents
  <2>4. ASSUME NEW c \in Chan, TcpClose(e, c) PROVE EventsInv'
    BY <1>0, <2>4, CloseEvents DEF TcpClose
  <2>5. ASSUME NEW c \in Chan, TcpServe(e, c) PROVE EventsInv'
    <3>1. PICK again \in BOOLEAN, r \in Receipt :
            interest' = Notify(IF "WRITE" \in evType[e] /\ ~again
                               THEN [interest EXCEPT ![e] = @ \ {"WRITE"}] ELSE interest,
                               (IF r.echo THEN {Tcp(c)} ELSE {}) \cup
                               (IF r.datagrams \in {"failed", "failed then sent"}
                                THEN {Udp(c)} ELSE {}))
      BY <2>5 DEF TcpServe
    <3> DEFINE disabled == IF "WRITE" \in evType[e] /\ ~again
                           THEN [interest EXCEPT ![e] = @ \ {"WRITE"}] ELSE interest
               X == (IF r.echo THEN {Tcp(c)} ELSE {}) \cup
                    (IF r.datagrams \in {"failed", "failed then sent"}
                     THEN {Udp(c)} ELSE {})
    <3>2. disabled \in {interest, [interest EXCEPT ![e] = @ \ {"WRITE"}]}
      OBVIOUS
    <3>3. X \in SUBSET Conn
      BY ConnFacts
    <3>4. interest' = Notify(disabled, X)
      BY <3>1
    <3>5. /\ UNCHANGED <<pool, owner, chans, event>>
          /\ owner[e] \in Conn /\ evType' = Consume(e)
      BY <2>5, ConnFacts DEF TcpServe, IsTcpOf
    <3> HIDE DEF disabled, X
    <3> QED BY <3>2, <3>3, <3>4, <3>5, ServeEvents
  <2>6. ASSUME NEW c \in Chan, UdpServe(e, c) PROVE EventsInv'
    <3>1. PICK heard \in BOOLEAN :
            interest' = Notify(IF "WRITE" \in evType[e]
                               THEN [interest EXCEPT ![e] = @ \ {"WRITE"}] ELSE interest,
                               IF heard THEN {Tcp(c)} ELSE {})
      BY <2>6 DEF UdpServe
    <3> DEFINE disabled == IF "WRITE" \in evType[e]
                           THEN [interest EXCEPT ![e] = @ \ {"WRITE"}] ELSE interest
               X == IF heard THEN {Tcp(c)} ELSE {}
    <3>2. disabled \in {interest, [interest EXCEPT ![e] = @ \ {"WRITE"}]}
      OBVIOUS
    <3>3. X \in SUBSET Conn
      BY ConnFacts
    <3>4. interest' = Notify(disabled, X)
      BY <3>1
    <3>5. /\ UNCHANGED <<pool, owner, chans, event>>
          /\ owner[e] \in Conn /\ evType' = Consume(e)
      BY <2>6, ConnFacts DEF UdpServe
    <3> HIDE DEF disabled, X
    <3> QED BY <3>2, <3>3, <3>4, <3>5, ServeEvents
  <2>7. ASSUME NEW c \in Chan, TcpServeWithoutUdp(e, c) PROVE EventsInv'
    BY <1>0, <2>7 DEF TcpServeWithoutUdp
  <2> QED BY <1>2, <2>1, <2>2, <2>3, <2>4, <2>5, <2>6, <2>7 DEF Dispatch
<1>3. CASE IdleKeep
  BY <1>3, QuietEvents DEF IdleKeep
<1>4. CASE IdleClose
  BY <1>0, <1>4, CloseEvents, OldestIsChannel DEF IdleClose
<1>5. CASE UNCHANGED vars
  BY <1>5, QuietEvents DEF vars, tables
<1> QED BY <1>1, <1>2, <1>3, <1>4, <1>5 DEF Next

-----------------------------------------------------------------------------
\* Whatever is accepted, closed, evicted and timed out, in whatever order the
\* batches bring it, do_accept and gnb_connection_close neither lose an event
\* of the pool nor give one to two connections.
THEOREM NoEventLost == Spec => []EventsAccounted
<1>1. EventsInv => EventsAccounted
  BY DEF EventsInv
<1> QED BY <1>1, TypeInit, TypeStep, EventsInit, EventsStep, PTL DEF Spec

\* An event that waits in the batch unmarked has a connection of its own to be
\* dispatched to: the FINISH mark of gnb_connection_close is all the loop needs
\* to tell the events of closed channels from the others.
THEOREM DispatchIsFresh == Spec => []NoStaleDispatch
<1>1. TypeOK /\ EventsInv => NoStaleDispatch
  <2> SUFFICES ASSUME TypeOK, EventsInv, NEW e \in Pending, evType[e] # {"FINISH"},
                      owner[e] # Listener
               PROVE  owner[e] \in LiveConn /\ event[owner[e]] = e
    BY DEF NoStaleDispatch
  <2>1. e \in Event /\ owner[e] \in Conn
    BY DEF TypeOK, EventsInv, PendingOwned, Pending
  <2>2. event[owner[e]] = e
    BY <2>1 DEF EventsInv, EventsAccounted
  <2>3. event[owner[e]] # NULL
    BY <2>1, <2>2, EventFacts
  <2> QED BY <2>1, <2>2, <2>3 DEF EventsInv, EventsAccounted
<1> QED BY <1>1, TypeInit, TypeStep, EventsInit, EventsStep, PTL DEF Spec

-----------------------------------------------------------------------------
(***************************************************************************)
(* The tables.                                                             *)
(***************************************************************************)
Listed(s) == {s[i] : i \in DOMAIN s}
Distinct(s) == \A i, j \in DOMAIN s : s[i] = s[j] => i = j

\* gnb_lru32_pop_by_key takes out the one entry of the channel.
LEMMA PopByKeyTakesOne ==
  ASSUME NEW s \in Seq(Chan), Distinct(s), NEW c \in Listed(s)
  PROVE  /\ Len(PopByKey(s, c)) = Len(s) - 1
         /\ Listed(PopByKey(s, c)) = Listed(s) \ {c}
         /\ Distinct(PopByKey(s, c))
<1> DEFINE i == CHOOSE j \in DOMAIN s : s[j] = c
           front == SubSeq(s, 1, i - 1)
           back == SubSeq(s, i + 1, Len(s))
           r == front \o back
<1>1. i \in 1..Len(s) /\ s[i] = c
  BY DEF Listed
<1>2. PopByKey(s, c) = r
  BY DEF PopByKey, Listed
<1> HIDE DEF i
<1>3. /\ front \in Seq(Chan) /\ Len(front) = i - 1
      /\ back \in Seq(Chan) /\ Len(back) = Len(s) - i
  BY <1>1
<1>4. /\ \A k \in 1..(i - 1) : front[k] = s[k]
      /\ \A k \in 1..(Len(s) - i) : back[k] = s[i + k]
  BY <1>1
<1> HIDE DEF front, back
<1>5. /\ r \in Seq(Chan) /\ Len(r) = Len(s) - 1
      /\ \A k \in 1..(Len(s) - 1) : r[k] = IF k < i THEN s[k] ELSE s[k + 1]
  <2>1. r \in Seq(Chan) /\ Len(r) = Len(s) - 1
    BY <1>1, <1>3
  <2>2. ASSUME NEW k \in 1..(Len(s) - 1) PROVE r[k] = IF k < i THEN s[k] ELSE s[k + 1]
    <3>1. CASE k < i
      BY <1>1, <1>3, <1>4, <3>1
    <3>2. CASE k >= i
      <4>1. k - (i - 1) \in 1..(Len(s) - i) /\ r[k] = back[k - (i - 1)]
        BY <1>1, <1>3, <3>2
      <4>2. back[k - (i - 1)] = s[i + (k - (i - 1))]
        BY <1>4, <4>1
      <4>3. i + (k - (i - 1)) = k + 1 /\ ~(k < i)
        BY <1>1, <3>2
      <4>4. back[k - (i - 1)] = s[k + 1]
        BY <4>2, <4>3
      <4> HIDE DEF r
      <4> QED BY <4>1, <4>3, <4>4
    <3> HIDE DEF r
    <3>3. k \in Int /\ i \in Int
      BY <1>1
    <3> QED BY <3>1, <3>2, <3>3
  <2> QED BY <2>1, <2>2
<1> HIDE DEF r
<1>6. Distinct(r)
  <2> SUFFICES ASSUME NEW j \in 1..Len(r), NEW k \in 1..Len(r), j # k PROVE r[j] # r[k]
    BY DEF Distinct
  <2> DEFINE from(m) == IF m < i THEN m ELSE m + 1
  <2>1. /\ from(j) \in 1..Len(s) /\ from(k) \in 1..Len(s) /\ from(j) # from(k)
        /\ r[j] = s[from(j)] /\ r[k] = s[from(k)]
    BY <1>1, <1>5
  <2> HIDE DEF from
  <2> QED BY <1>1, <2>1 DEF Distinct
<1>7. ASSUME NEW x \in Listed(r) PROVE x \in Listed(s) \ {c}
  <2>1. PICK k \in 1..(Len(s) - 1) : r[k] = x
    BY <1>1, <1>5 DEF Listed
  <2>2. PICK j \in 1..Len(s) : j # i /\ s[j] = x
    BY <1>1, <1>5, <2>1
  <2> QED BY <1>1, <2>2 DEF Distinct, Listed
<1>8. ASSUME NEW x \in Listed(s) \ {c} PROVE x \in Listed(r)
  <2>1. PICK k \in 1..Len(s) : s[k] = x
    BY DEF Listed
  <2>2. CASE k < i
    BY <1>1, <1>5, <2>1, <2>2 DEF Listed
  <2>3. CASE k > i
    <3>1. k - 1 \in 1..Len(r) /\ r[k - 1] = x
      BY <1>1, <1>5, <2>1, <2>3
    <3> QED BY <1>5, <3>1 DEF Listed
  <2> QED BY <1>1, <2>1, <2>2, <2>3
<1> QED BY <1>2, <1>5, <1>6, <1>7, <1>8

\* gnb_lru32_put enters the channel, and a full table loses its oldest entry
\* for it.
LEMMA LruPutEnters ==
  ASSUME TypeOK, Distinct(lru), NEW c \in Chan \ Listed(lru)
  PROVE  /\ Len(LruPut(lru, c)) = IF Len(lru) >= LruSize THEN Len(lru) ELSE Len(lru) + 1
         /\ Listed(LruPut(lru, c)) = (Listed(lru) \ Evicted) \cup {c}
         /\ Distinct(LruPut(lru, c))
<1> DEFINE n == Len(lru)
           kept == IF n >= LruSize THEN SubSeq(lru, 1, n - 1) ELSE lru
           m == IF n >= LruSize THEN n - 1 ELSE n
           r == <<c>> \o kept
<1>1. lru \in Seq(Chan) /\ n \in Nat /\ LruSize \in Nat \ {0} /\ m \in 0..n
  BY ConstantsAssumption DEF TypeOK
<1>2. kept \in Seq(Chan) /\ Len(kept) = m /\ \A k \in 1..m : kept[k] = lru[k]
  BY <1>1
<1>3. LruPut(lru, c) = r
  BY DEF LruPut
<1>4. Evicted = IF m = n THEN {} ELSE {lru[n]}
  BY <1>1 DEF Evicted, OldestChannel
<1>5. m = IF n >= LruSize THEN n - 1 ELSE n
  OBVIOUS
<1> HIDE DEF kept, m
<1>6. /\ r \in Seq(Chan) /\ Len(r) = m + 1
      /\ \A k \in 1..(m + 1) : r[k] = IF k = 1 THEN c ELSE lru[k - 1]
  BY <1>1, <1>2
<1> HIDE DEF r
<1>7. \A k \in 1..n : lru[k] # c
  BY <1>1 DEF Listed
<1>8. Distinct(r)
  <2> SUFFICES ASSUME NEW j \in 1..(m + 1), NEW k \in 1..(m + 1), r[j] = r[k] PROVE j = k
    BY <1>6 DEF Distinct
  <2>1. j # 1 => j - 1 \in 1..n /\ r[j] = lru[j - 1]
    BY <1>1, <1>6
  <2>2. k # 1 => k - 1 \in 1..n /\ r[k] = lru[k - 1]
    BY <1>1, <1>6
  <2>3. j # 1 /\ k # 1 => j - 1 = k - 1
    BY <1>1, <2>1, <2>2 DEF Distinct
  <2>4. j = 1 <=> k = 1
    BY <1>1, <1>6, <1>7, <2>1, <2>2
  <2> QED BY <2>3, <2>4
<1>9. ASSUME NEW x \in Listed(r) PROVE x \in (Listed(lru) \ Evicted) \cup {c}
  <2>1. PICK k \in 1..(m + 1) : r[k] = x
    BY <1>6 DEF Listed
  <2>2. CASE k # 1
    <3>1. k - 1 \in 1..m /\ lru[k - 1] = x /\ k - 1 \in DOMAIN lru
      BY <1>1, <1>6, <2>1, <2>2
    <3>2. m # n => lru[n] # x
      BY <1>1, <3>1 DEF Distinct
    <3> QED BY <1>4, <3>1, <3>2 DEF Listed
  <2> QED BY <1>6, <2>1, <2>2
<1>10. ASSUME NEW x \in (Listed(lru) \ Evicted) \cup {c} PROVE x \in Listed(r)
  <2>1. CASE x = c
    BY <1>1, <1>6, <2>1 DEF Listed
  <2>2. CASE x # c
    <3>1. PICK k \in 1..n : lru[k] = x
      BY <1>1, <2>2 DEF Listed
    <3>2. k \in 1..m
      BY <1>1, <1>4, <1>5, <2>2, <3>1
    <3>3. k + 1 \in 1..(m + 1) /\ r[k + 1] = x
      BY <1>1, <1>6, <3>1, <3>2
    <3> QED BY <1>6, <3>3 DEF Listed
  <2> QED BY <2>1, <2>2
<1> QED BY <1>1, <1>3, <1>5, <1>6, <1>8, <1>9, <1>10

-----------------------------------------------------------------------------
\* A channel's TCP connection always has an event: service_accept_cb is only
\* reached with one.  Its UDP connection may have none.
TcpHasEvent == \A c \in chans : event[Tcp(c)] # NULL

\* The inductive invariant, together with TypeOK and EventsInv.
TablesInv ==
  /\ TableMatchesChannels /\ Len(lru) <= LruSize
  /\ DescriptorsAccounted
  /\ TcpHasEvent
  /\ UnsentIsArmed /\ \A x \in unsent : event[x] # NULL

\* The table's property in terms of the lemmas above.
LEMMA TableFacts ==
  TableMatchesChannels <=> Listed(lru) = chans /\ Distinct(lru)
BY DEF TableMatchesChannels, Listed, Distinct

\* At the start there is the listener and no channel.
LEMMA TablesInit == Init => TablesInv
<1> SUFFICES ASSUME Init PROVE TablesInv
  OBVIOUS
<1>1. lru = <<>> /\ chans = {} /\ LiveConn = {} /\ unsent = {} /\ openFd = {ListenFd}
  BY DEF Init, LiveConn
<1>2. TableMatchesChannels /\ Len(lru) <= LruSize
  BY <1>1, ConstantsAssumption DEF TableMatchesChannels
<1>3. DescriptorsAccounted /\ TcpHasEvent /\ UnsentIsArmed
  BY <1>1 DEF DescriptorsAccounted, TcpHasEvent, UnsentIsArmed
<1> QED BY <1>1, <1>2, <1>3 DEF TablesInv

\* close_cb and idle_cb: the entry, the descriptors and what waits go with the
\* channel; the other channels keep theirs.
LEMMA CloseTables ==
  ASSUME TypeOK, EventsInv, TablesInv, NEW c \in chans, CloseChannel(c),
         ~CloseIsFatal({c})
  PROVE  TablesInv'
<1>1. /\ c \in Chan /\ chans' = chans \ {c} /\ openFd' = openFd \ {fd[Tcp(c)], fd[Udp(c)]}
      /\ event' = [event EXCEPT ![Tcp(c)] = NULL, ![Udp(c)] = NULL]
      /\ fd' = [fd EXCEPT ![Tcp(c)] = NULL, ![Udp(c)] = NULL]
      /\ unsent' = unsent \ {Tcp(c), Udp(c)} /\ lru' = PopByKey(lru, c)
      /\ interest' = [e \in Event |-> IF e \in EventsOf({c}) THEN {} ELSE interest[e]]
  BY DEF CloseChannel, FdsOf, TypeOK
<1>2. TableMatchesChannels' /\ Len(lru') <= LruSize
  <2>1. lru \in Seq(Chan) /\ Listed(lru) = chans /\ Distinct(lru) /\ Len(lru) <= LruSize
    BY TableFacts DEF TypeOK, TablesInv
  <2>2. Listed(lru') = chans' /\ Distinct(lru') /\ Len(lru') = Len(lru) - 1
    BY <1>1, <2>1, PopByKeyTakesOne
  <2> QED BY <2>1, <2>2, ConstantsAssumption DEF TableMatchesChannels, Listed, Distinct
<1>3. LiveConn' = LiveConn \ {Tcp(c), Udp(c)} /\ Tcp(c) \in LiveConn /\ Udp(c) \in LiveConn
  BY <1>1, ConnFacts DEF LiveConn
<1>4. \A x \in LiveConn' : fd'[x] = fd[x] /\ event'[x] = event[x]
  BY <1>1, <1>3 DEF TypeOK, LiveConn
<1>5. DescriptorsAccounted'
  <2>1. /\ openFd = {ListenFd} \cup ({fd[x] : x \in LiveConn} \ {NULL})
        /\ \A x \in LiveConn : fd[x] # ListenFd /\ (fd[x] = NULL <=> event[x] = NULL)
        /\ \A x, y \in LiveConn : fd[x] = fd[y] /\ fd[x] # NULL => x = y
    BY DEF TablesInv, DescriptorsAccounted
  <2>2. {fd'[x] : x \in LiveConn'} = {fd[x] : x \in LiveConn'}
    BY <1>4
  <2>3. openFd' = {ListenFd} \cup ({fd'[x] : x \in LiveConn'} \ {NULL})
    BY <1>1, <1>3, <2>1, <2>2
  <2> QED BY <1>3, <1>4, <2>1, <2>3 DEF DescriptorsAccounted
<1>6. TcpHasEvent'
  <2> SUFFICES ASSUME NEW d \in chans' PROVE event'[Tcp(d)] # NULL
    BY DEF TcpHasEvent
  <2>1. d \in chans /\ Tcp(d) \in LiveConn'
    BY <1>1, <1>3, ConnFacts DEF LiveConn, TypeOK
  <2> QED BY <1>4, <2>1 DEF TablesInv, TcpHasEvent
<1>7. ASSUME NEW x \in unsent'
      PROVE  x \in LiveConn' /\ "WRITE" \in interest'[event'[x]] /\ event'[x] # NULL
  <2>1. /\ x \in LiveConn' /\ x \in LiveConn /\ event'[x] = event[x] /\ event[x] # NULL
        /\ "WRITE" \in interest[event[x]]
    BY <1>1, <1>3, <1>4 DEF TablesInv, UnsentIsArmed
  <2>2. event[x] \in Event /\ owner[event[x]] = x
    BY <2>1 DEF TypeOK, LiveConn, EventsInv, EventsAccounted
  <2>3. event[x] \notin EventsOf({c})
    <3>1. EventsOf({c}) = {event[Tcp(c)], event[Udp(c)]}
      BY DEF EventsOf
    <3>2. event[Tcp(c)] # NULL /\ event[Udp(c)] # NULL
      BY <3>1 DEF CloseIsFatal
    <3>3. owner[event[Tcp(c)]] = Tcp(c) /\ owner[event[Udp(c)]] = Udp(c)
      BY <1>3, <3>2 DEF LiveConn, EventsInv, EventsAccounted
    <3> QED BY <1>3, <2>1, <2>2, <3>1, <3>3
  <2> QED BY <1>1, <2>1, <2>2, <2>3
<1> QED BY <1>2, <1>5, <1>6, <1>7 DEF TablesInv, UnsentIsArmed

\* service_accept_cb: the new channel is entered with descriptors and events
\* that were free; the evicted one takes its own away.
LEMMA EnterTables ==
  ASSUME TypeOK, EventsInv, TablesInv, NEW c \in Chan \ chans,
         NEW tf \in Fd \ openFd, NEW uf \in Fd \cup {NULL},
         uf # NULL => uf \notin openFd /\ uf # tf,
         NEW te \in PoolFree(pool), te \in Event, NEW ue \in Event \cup {NULL},
         ue # NULL => ue \in PoolFree(pool), ue = NULL <=> uf = NULL,
         NEW p, ~CloseIsFatal(Evicted), Enter(c, p, te, tf, ue, uf)
  PROVE  TablesInv'
<1> DEFINE V == Evicted
<1>1. V = {} \/ \E v \in chans : V = {v}
  <2>1. V = {} \/ (V = {OldestChannel} /\ lru # <<>>)
    BY EvictedFacts
  <2>2. lru # <<>> => OldestChannel \in Listed(lru)
    BY DEF TypeOK, Listed, OldestChannel
  <2> QED BY <2>1, <2>2, TableFacts DEF TablesInv
<1>2. /\ chans' = (chans \ V) \cup {c} /\ lru' = LruPut(lru, c)
      /\ openFd' = (openFd \ FdsOf(V)) \cup ({tf, uf} \ {NULL})
      /\ event' = [x \in Conn |-> IF x = Tcp(c) THEN te ELSE IF x = Udp(c) THEN ue
                                  ELSE IF x[1] \in V THEN NULL ELSE event[x]]
      /\ fd' = [x \in Conn |-> IF x = Tcp(c) THEN tf ELSE IF x = Udp(c) THEN uf
                               ELSE IF x[1] \in V THEN NULL ELSE fd[x]]
      /\ unsent' = unsent \ {x \in Conn : x[1] \in V}
      /\ interest' = [x \in Event |-> IF x \in {te, ue} THEN {"READ"}
                                      ELSE IF x \in EventsOf(V) THEN {} ELSE interest[x]]
  BY DEF Enter
<1>3. TableMatchesChannels' /\ Len(lru') <= LruSize
  <2>1. Listed(lru) = chans /\ Distinct(lru) /\ Len(lru) <= LruSize
    BY TableFacts DEF TablesInv
  <2>2. /\ Listed(lru') = chans' /\ Distinct(lru')
        /\ Len(lru') = IF Len(lru) >= LruSize THEN Len(lru) ELSE Len(lru) + 1
    BY <1>2, <2>1, LruPutEnters
  <2>3. Len(lru) \in Nat /\ LruSize \in Nat
    BY ConstantsAssumption DEF TypeOK
  <2> QED BY <2>1, <2>2, <2>3 DEF TableMatchesChannels, Listed, Distinct
<1> DEFINE Gone == {x \in Conn : x[1] \in V}
           Rest == LiveConn \ Gone
<1>4. /\ LiveConn' = Rest \cup {Tcp(c), Udp(c)} /\ Gone \subseteq LiveConn
      /\ Tcp(c) \notin LiveConn /\ Udp(c) \notin LiveConn /\ Tcp(c) # Udp(c)
      /\ Tcp(c) \in Conn /\ Udp(c) \in Conn
  BY <1>1, <1>2, ConnFacts DEF LiveConn
<1>5. \A x \in Rest : /\ fd'[x] = fd[x] /\ event'[x] = event[x]
                      /\ x # Tcp(c) /\ x # Udp(c) /\ x \in LiveConn
  BY <1>2, <1>4 DEF LiveConn
<1>6. fd'[Tcp(c)] = tf /\ fd'[Udp(c)] = uf /\ event'[Tcp(c)] = te /\ event'[Udp(c)] = ue
  BY <1>2, <1>4
<1>7. FdsOf(V) = {fd[x] : x \in Gone}
  <2>1. CASE V = {}
    BY <2>1 DEF FdsOf
  <2>2. ASSUME NEW v \in chans, V = {v} PROVE FdsOf(V) = {fd[x] : x \in Gone}
    <3>1. Gone = {Tcp(v), Udp(v)}
      BY <2>2, ConnFacts DEF TypeOK
    <3> HIDE DEF Gone
    <3> QED BY <2>2, <3>1 DEF FdsOf
  <2> QED BY <1>1, <2>1, <2>2
<1>8. te # NULL /\ tf # NULL /\ tf # ListenFd /\ uf # ListenFd
  BY EventFacts DEF TablesInv, DescriptorsAccounted
<1> HIDE DEF V, Gone, Rest
<1>9. DescriptorsAccounted'
  <2>1. /\ openFd = {ListenFd} \cup ({fd[x] : x \in LiveConn} \ {NULL})
        /\ \A x \in LiveConn : fd[x] # ListenFd /\ (fd[x] = NULL <=> event[x] = NULL)
        /\ \A x, y \in LiveConn : fd[x] = fd[y] /\ fd[x] # NULL => x = y
    BY DEF TablesInv, DescriptorsAccounted
  <2>2. {fd'[x] : x \in LiveConn'} = {fd[x] : x \in Rest} \cup {tf, uf}
    BY <1>4, <1>5, <1>6
  <2>3. openFd \ FdsOf(V) = {ListenFd} \cup ({fd[x] : x \in Rest} \ {NULL})
    BY <1>4, <1>7, <2>1 DEF Rest
  <2>4. openFd' = {ListenFd} \cup ({fd'[x] : x \in LiveConn'} \ {NULL})
    BY <1>2, <1>8, <2>2, <2>3
  <2>5. \A x \in LiveConn' : fd'[x] # ListenFd /\ (fd'[x] = NULL <=> event'[x] = NULL)
    BY <1>4, <1>5, <1>6, <1>8, <2>1
  <2>6. \A x \in Rest : fd[x] # NULL => fd[x] \in openFd
    BY <1>5, <2>1
  <2>7. \A x, y \in LiveConn' : fd'[x] = fd'[y] /\ fd'[x] # NULL => x = y
    BY <1>4, <1>5, <1>6, <1>8, <2>1, <2>6
  <2> QED BY <2>4, <2>5, <2>7 DEF DescriptorsAccounted
<1>10. TcpHasEvent'
  <2> SUFFICES ASSUME NEW d \in chans' PROVE event'[Tcp(d)] # NULL
    BY DEF TcpHasEvent
  <2>1. d = c \/ (d \in chans /\ Tcp(d) \in Rest)
    BY <1>2, ConnFacts DEF TypeOK, Rest, Gone, LiveConn
  <2> QED BY <1>5, <1>6, <1>8, <2>1 DEF TablesInv, TcpHasEvent
<1>11. ASSUME NEW x \in unsent'
       PROVE  x \in LiveConn' /\ "WRITE" \in interest'[event'[x]] /\ event'[x] # NULL
  <2>1. /\ x \in Rest /\ event[x] # NULL /\ event'[x] = event[x] /\ x \in LiveConn'
        /\ "WRITE" \in interest[event[x]] /\ x \in Conn
    BY <1>2, <1>4, <1>5 DEF TablesInv, UnsentIsArmed, Rest, Gone, LiveConn
  <2>2. event[x] \in Event /\ owner[event[x]] = x
    BY <2>1 DEF TypeOK, EventsInv, EventsAccounted
  <2>3. event[x] \notin PoolFree(pool)
    BY <2>1, <2>2, ConnFacts DEF EventsInv, EventsAccounted
  <2>4. event[x] \notin EventsOf(V)
    <3> SUFFICES ASSUME NEW v \in V, event[x] = event[Tcp(v)] \/ event[x] = event[Udp(v)]
                 PROVE  FALSE
      BY DEF EventsOf
    <3>1. Tcp(v) \in Gone /\ Udp(v) \in Gone
      BY <1>1, ConnFacts DEF Gone, TypeOK
    <3>2. x \in Gone
      BY <2>1, <2>2, <3>1 DEF Gone, EventsInv, EventsAccounted
    <3> QED BY <2>1, <3>2 DEF Rest
  <2>5. event[x] \notin {te, ue}
    BY <2>1, <2>3
  <2> QED BY <1>2, <2>1, <2>2, <2>4, <2>5
<1> QED BY <1>3, <1>9, <1>10, <1>11 DEF TablesInv, UnsentIsArmed

\* The handlers that leave the channels alone: WRITE is switched off for a
\* connection whose buffer is empty now, and on for those that have something.
LEMMA ServeTables ==
  ASSUME TypeOK, EventsInv, TablesInv, NEW e \in Event, owner[e] \in Conn,
         NEW sent \in BOOLEAN, NEW X \in SUBSET LiveConn, \A x \in X : event[x] # NULL,
         interest' = Notify(IF sent THEN [interest EXCEPT ![e] = @ \ {"WRITE"}] ELSE interest, X),
         unsent' \subseteq (IF sent THEN unsent \ {owner[e]} ELSE unsent) \cup X,
         UNCHANGED <<pool, owner, chans, event, fd, openFd, lru>>
  PROVE  TablesInv'
<1> DEFINE w == IF sent THEN [interest EXCEPT ![e] = @ \ {"WRITE"}] ELSE interest
<1>1. LiveConn' = LiveConn /\ LiveConn \subseteq Conn
  BY DEF LiveConn
<1>2. TableMatchesChannels' /\ Len(lru') <= LruSize /\ DescriptorsAccounted' /\ TcpHasEvent'
  BY <1>1 DEF TablesInv, TableMatchesChannels, DescriptorsAccounted, TcpHasEvent
<1>3. \A x \in Event : interest'[x] = IF owner[x] \in X THEN w[x] \cup {"WRITE"} ELSE w[x]
  BY DEF Notify
<1>4. \A x \in LiveConn : event[x] # NULL => event[x] \in Event /\ owner[event[x]] = x
  BY <1>1 DEF TypeOK, EventsInv, EventsAccounted
<1>5. ASSUME NEW x \in unsent'
      PROVE  x \in LiveConn' /\ "WRITE" \in interest'[event'[x]] /\ event'[x] # NULL
  <2>1. CASE x \in X
    <3>1. x \in LiveConn /\ event[x] \in Event /\ owner[event[x]] \in X /\ event[x] # NULL
      BY <1>4, <2>1
    <3> HIDE DEF w
    <3> QED BY <1>1, <1>3, <3>1
  <2>2. CASE x \notin X
    <3>1. /\ x \in LiveConn /\ event[x] # NULL /\ "WRITE" \in interest[event[x]]
          /\ sent => x # owner[e]
      BY <2>2 DEF TablesInv, UnsentIsArmed
    <3>2. event[x] \in Event /\ w[event[x]] = interest[event[x]]
      BY <1>4, <3>1 DEF TypeOK
    <3> HIDE DEF w
    <3> QED BY <1>1, <1>3, <1>4, <2>2, <3>1, <3>2
  <2> QED BY <2>1, <2>2
<1> QED BY <1>2, <1>5 DEF TablesInv, UnsentIsArmed

\* The steps that leave the tables and the buffers alone.
LEMMA QuietTables ==
  ASSUME TablesInv, UNCHANGED <<tables, unsent>>
  PROVE  TablesInv'
BY DEF TablesInv, TableMatchesChannels, DescriptorsAccounted, TcpHasEvent, UnsentIsArmed,
       LiveConn, tables

\* What do_accept takes for the new channel, in a form that tells the two
\* outcomes of opening its UDP socket by ue and uf being NULL.
LEMMA AcceptTakes ==
  ASSUME TypeOK, EventsInv, NEW e \in Event, AcceptChannel(e)
  PROVE  \E c \in Chan \ chans, tf \in Fd \ openFd, uf \in Fd \cup {NULL},
            te \in PoolFree(pool), ue \in Event \cup {NULL},
            p \in {PoolPop(pool), PoolPop(PoolPop(pool))} :
           /\ te \in Event /\ (ue = NULL <=> uf = NULL)
           /\ IF uf = NULL
              THEN openFd \cup {tf} = Fd /\ p.num = pool.num - 1
              ELSE /\ uf \notin openFd /\ uf # tf /\ ue \in PoolFree(pool) /\ ue # te
                   /\ p.num = pool.num - 2
           /\ PoolOK(p, NumEvents) /\ PoolFree(p) = PoolFree(pool) \ {te, ue}
           /\ Enter(c, p, te, tf, ue, uf)
<1> DEFINE p1 == PoolPop(pool)
           te == PoolTop(pool)
<1>1. /\ te \in PoolFree(pool) /\ te \in Event /\ PoolOK(p1, NumEvents)
      /\ PoolFree(p1) = PoolFree(pool) \ {te} /\ p1.num = pool.num - 1
  <2>1. PoolOK(pool, NumEvents) /\ pool.num > 0
    BY DEF EventsInv, EventsAccounted, AcceptChannel
  <2> QED BY <2>1, PoolPopOK, EventFacts
<1>2. PICK c \in Chan \ chans, tf \in Fd :
        /\ LowestFd(tf, openFd)
        /\ \/ openFd \cup {tf} = Fd /\ Enter(c, p1, te, tf, NULL, NULL)
           \/ p1.num > 0 /\ \E uf \in Fd : /\ LowestFd(uf, openFd \cup {tf})
                                           /\ Enter(c, PoolPop(p1), te, tf, PoolTop(p1), uf)
  BY DEF AcceptChannel
<1>3. tf \in Fd \ openFd
  BY <1>2 DEF LowestFd
<1>4. CASE openFd \cup {tf} = Fd /\ Enter(c, p1, te, tf, NULL, NULL)
  <2>1. PoolFree(p1) = PoolFree(pool) \ {te, NULL}
    <3>1. NULL \notin PoolFree(pool)
      BY EventFacts DEF PoolFree, PoolOK, EventsInv, EventsAccounted, NULL
    <3> HIDE DEF p1, te
    <3> QED BY <1>1, <3>1
  <2>2. p1 \in {PoolPop(pool), PoolPop(PoolPop(pool))}
    OBVIOUS
  <2> te \in PoolFree(pool)
    BY <1>1
  <2> HIDE DEF p1, te
  <2> WITNESS c \in Chan \ chans, tf \in Fd \ openFd, NULL \in Fd \cup {NULL},
              te \in PoolFree(pool), NULL \in Event \cup {NULL},
              p1 \in {PoolPop(pool), PoolPop(PoolPop(pool))}
  <2> QED BY <1>1, <1>4, <2>1
<1>5. ASSUME NEW uf \in Fd, p1.num > 0, LowestFd(uf, openFd \cup {tf}),
             Enter(c, PoolPop(p1), te, tf, PoolTop(p1), uf)
      PROVE  \E c1 \in Chan \ chans, tf1 \in Fd \ openFd, uf1 \in Fd \cup {NULL},
                te1 \in PoolFree(pool), ue \in Event \cup {NULL},
                p \in {PoolPop(pool), PoolPop(PoolPop(pool))} :
               /\ te1 \in Event /\ (ue = NULL <=> uf1 = NULL)
               /\ IF uf1 = NULL
                  THEN openFd \cup {tf1} = Fd /\ p.num = pool.num - 1
                  ELSE /\ uf1 \notin openFd /\ uf1 # tf1 /\ ue \in PoolFree(pool) /\ ue # te1
                       /\ p.num = pool.num - 2
               /\ PoolOK(p, NumEvents) /\ PoolFree(p) = PoolFree(pool) \ {te1, ue}
               /\ Enter(c1, p, te1, tf1, ue, uf1)
  <2> DEFINE p2 == PoolPop(p1)
             ue == PoolTop(p1)
  <2>1. /\ ue \in PoolFree(p1) /\ ue \in Event /\ PoolOK(p2, NumEvents)
        /\ PoolFree(p2) = PoolFree(p1) \ {ue} /\ p2.num = p1.num - 1
    BY <1>1, <1>5, PoolPopOK, EventFacts
  <2>2. uf \notin openFd /\ uf # tf /\ uf # NULL /\ ue # NULL
    BY <1>5, <2>1, EventFacts DEF LowestFd
  <2>3. p2 \in {PoolPop(pool), PoolPop(PoolPop(pool))}
    OBVIOUS
  <2>4. Enter(c, p2, te, tf, ue, uf)
    BY <1>5
  <2>5. pool.num \in Nat
    BY DEF TypeOK
  <2> HIDE DEF p2, ue, p1, te
  <2>6. /\ te \in Event /\ (ue = NULL <=> uf = NULL)
        /\ uf \notin openFd /\ uf # tf /\ ue \in PoolFree(pool) /\ ue # te
        /\ p2.num = pool.num - 2
        /\ PoolOK(p2, NumEvents) /\ PoolFree(p2) = PoolFree(pool) \ {te, ue}
    BY <1>1, <2>1, <2>2, <2>5
  <2> te \in PoolFree(pool) /\ ue \in Event \cup {NULL}
    BY <1>1, <2>1
  <2> WITNESS c \in Chan \ chans, tf \in Fd \ openFd, uf \in Fd \cup {NULL},
              te \in PoolFree(pool), ue \in Event \cup {NULL},
              p2 \in {PoolPop(pool), PoolPop(PoolPop(pool))}
  <2> QED BY <2>2, <2>4, <2>6
<1> HIDE DEF p1, te
<1> QED BY <1>2, <1>4, <1>5

\* One step of the loop.
LEMMA TablesStep == TypeOK /\ EventsInv /\ TablesInv /\ [Next]_vars => TablesInv'
<1> SUFFICES ASSUME TypeOK, EventsInv, TablesInv, [Next]_vars PROVE TablesInv'
  OBVIOUS
<1>0. Crash => TablesInv'
  BY QuietTables DEF Crash
<1>1. ASSUME NEW d \in ClockSteps, Poll(d) PROVE TablesInv'
  BY <1>1, QuietTables DEF Poll
<1>2. ASSUME NEW e \in Event, Dispatch(e) PROVE TablesInv'
  <2>1. CASE SkipFinished(e) \/ AcceptFails(e)
    BY <2>1, QuietTables DEF SkipFinished, AcceptFails
  <2>2. CASE AcceptFatal(e)
    BY <1>0, <2>2 DEF AcceptFatal
  <2>3. CASE AcceptChannel(e)
    <3>1. ~CloseIsFatal(Evicted)
      BY <2>3 DEF AcceptChannel
    <3> QED BY <2>3, <3>1, AcceptTakes, EnterTables
  <2>4. ASSUME NEW c \in Chan, TcpClose(e, c) PROVE TablesInv'
    BY <1>0, <2>4, CloseTables DEF TcpClose, IsTcpOf
  <2>5. ASSUME NEW c \in Chan, TcpServe(e, c) PROVE TablesInv'
    <3>1. PICK again \in BOOLEAN, r \in Receipt :
            LET sent == "WRITE" \in evType[e] /\ ~again
                toTcp == IF r.echo THEN {Tcp(c)} ELSE {}
                toUdp == IF r.datagrams \in {"failed", "failed then sent"}
                         THEN {Udp(c)} ELSE {}
                flushed == IF sent THEN unsent \ {Tcp(c)} ELSE unsent
            IN /\ r.datagrams # "none" => event[Udp(c)] # NULL
               /\ interest' = Notify(IF sent THEN [interest EXCEPT ![e] = @ \ {"WRITE"}]
                                     ELSE interest, toTcp \cup toUdp)
               /\ unsent' = CASE r.datagrams = "none" -> flushed \cup toTcp
                              [] r.datagrams = "failed" -> flushed \cup toTcp \cup {Udp(c)}
                              [] OTHER -> (flushed \cup toTcp) \ {Udp(c)}
      BY <2>5, ZenonT(60) DEF TcpServe
    <3> DEFINE sent == "WRITE" \in evType[e] /\ ~again
               X == (IF r.echo THEN {Tcp(c)} ELSE {}) \cup
                    (IF r.datagrams \in {"failed", "failed then sent"}
                     THEN {Udp(c)} ELSE {})
    <3>2. /\ c \in chans /\ owner[e] = Tcp(c) /\ owner[e] \in Conn
          /\ UNCHANGED <<pool, owner, chans, event, fd, openFd, lru>>
      BY <2>5, ConnFacts DEF TcpServe, IsTcpOf
    <3>3. X \in SUBSET LiveConn /\ \A x \in X : event[x] # NULL
      <4>1. Tcp(c) \in LiveConn /\ event[Tcp(c)] # NULL
        BY <3>2, ConnFacts DEF LiveConn, TablesInv, TcpHasEvent, TypeOK
      <4>2. Udp(c) \in LiveConn
        BY <3>2, ConnFacts DEF LiveConn, TypeOK
      <4>3. r.datagrams \in {"failed", "failed then sent"} => event[Udp(c)] # NULL
        BY <3>1
      <4> QED BY <4>1, <4>2, <4>3
    <3>4. interest' = Notify(IF sent THEN [interest EXCEPT ![e] = @ \ {"WRITE"}] ELSE interest, X)
      BY <3>1
    <3>5. unsent' \subseteq (IF sent THEN unsent \ {owner[e]} ELSE unsent) \cup X
      <4>1. CASE r.datagrams = "none"
        BY <3>1, <3>2, <4>1
      <4>2. CASE r.datagrams = "failed"
        BY <3>1, <3>2, <4>2
      <4>3. CASE r.datagrams \notin {"none", "failed"}
        BY <3>1, <3>2, <4>3
      <4> QED BY <4>1, <4>2, <4>3
    <3>6. sent \in BOOLEAN
      OBVIOUS
    <3> HIDE DEF sent, X
    <3> QED BY <3>2, <3>3, <3>4, <3>5, <3>6, ServeTables
  <2>6. ASSUME NEW c \in Chan, UdpServe(e, c) PROVE TablesInv'
    <3>1. PICK heard \in BOOLEAN :
            LET sent == "WRITE" \in evType[e]
                toTcp == IF heard THEN {Tcp(c)} ELSE {}
            IN /\ interest' = Notify(IF sent THEN [interest EXCEPT ![e] = @ \ {"WRITE"}]
                                     ELSE interest, toTcp)
               /\ unsent' = (IF sent THEN unsent \ {Udp(c)} ELSE unsent) \cup toTcp
      BY <2>6 DEF UdpServe
    <3> DEFINE sent == "WRITE" \in evType[e]
               X == IF heard THEN {Tcp(c)} ELSE {}
    <3>2. /\ c \in chans /\ owner[e] = Udp(c) /\ owner[e] \in Conn
          /\ UNCHANGED <<pool, owner, chans, event, fd, openFd, lru>>
      BY <2>6, ConnFacts DEF UdpServe
    <3>3. X \in SUBSET LiveConn /\ \A x \in X : event[x] # NULL
      BY <3>2, ConnFacts DEF LiveConn, TablesInv, TcpHasEvent
    <3>4. interest' = Notify(IF sent THEN [interest EXCEPT ![e] = @ \ {"WRITE"}] ELSE interest, X)
      BY <3>1
    <3>5. unsent' \subseteq (IF sent THEN unsent \ {owner[e]} ELSE unsent) \cup X
      BY <3>1, <3>2
    <3>6. sent \in BOOLEAN
      OBVIOUS
    <3> HIDE DEF sent, X
    <3> QED BY <3>2, <3>3, <3>4, <3>5, <3>6, ServeTables
  <2>7. ASSUME NEW c \in Chan, TcpServeWithoutUdp(e, c) PROVE TablesInv'
    BY <1>0, <2>7 DEF TcpServeWithoutUdp
  <2> QED BY <1>2, <2>1, <2>2, <2>3, <2>4, <2>5, <2>6, <2>7 DEF Dispatch
<1>3. CASE IdleKeep
  BY <1>3, QuietTables DEF IdleKeep
<1>4. CASE IdleClose
  <2>1. lru # <<>> /\ (Crash \/ (/\ CloseChannel(OldestChannel)
                                 /\ ~CloseIsFatal({OldestChannel})))
    BY <1>4 DEF IdleClose
  <2>2. OldestChannel \in chans
    BY <2>1, TableFacts DEF TablesInv, TypeOK, Listed, OldestChannel
  <2> QED BY <1>0, <2>1, <2>2, CloseTables
<1>5. CASE UNCHANGED vars
  BY <1>5, QuietTables DEF vars, tables
<1> QED BY <1>1, <1>2, <1>3, <1>4, <1>5 DEF Next

-----------------------------------------------------------------------------
\* idle_cb and the eviction of service_accept_cb can only take down a channel
\* that exists: the table holds the channels, each of them once.
THEOREM TableIsOfTheChannels == Spec => []TableMatchesChannels
<1>1. TablesInv => TableMatchesChannels
  BY DEF TablesInv
<1> QED BY <1>1, TypeInit, TypeStep, EventsInit, EventsStep, TablesInit, TablesStep, PTL DEF Spec

\* accept_cb, close_cb, idle_cb and the eviction neither leak a descriptor nor
\* close one that is another connection's by then.
THEOREM NoDescriptorLeaks == Spec => []DescriptorsAccounted
<1>1. TablesInv => DescriptorsAccounted
  BY DEF TablesInv
<1> QED BY <1>1, TypeInit, TypeStep, EventsInit, EventsStep, TablesInit, TablesStep, PTL DEF Spec

\* GNB_SERVICE_NOTIFY_SEND: the loop watches for WRITE as long as anything waits
\* in a send buffer, whatever is sent, queued and closed in between.
THEOREM NothingQueuedIsForgotten == Spec => []UnsentIsArmed
<1>1. TablesInv => UnsentIsArmed
  BY DEF TablesInv
<1> QED BY <1>1, TypeInit, TypeStep, EventsInit, EventsStep, TablesInit, TablesStep, PTL DEF Spec

\* The process only dies when a connection is accepted with the pool or the
\* table at its limit, or with a channel that has no UDP socket: a batch of
\* closes, however it falls, is not enough.
THEOREM DiesAtALimitOnly == Spec => CrashesOnlyAtALimit
<1> DEFINE AtALimit == \/ crashed
                       \/ pool.num < 2
                       \/ Len(lru) = LruSize
                       \/ \E c \in chans : fd[Udp(c)] = NULL
<1>1. TypeOK /\ EventsInv /\ TablesInv /\ [Next]_vars => (crashed' => AtALimit)
  <2> SUFFICES ASSUME TypeOK, EventsInv, TablesInv, [Next]_vars, crashed' PROVE AtALimit
    OBVIOUS
  <2>1. ASSUME NEW c \in chans, CloseIsFatal({c}) PROVE AtALimit
    <3>1. c \in Chan /\ event[Udp(c)] = NULL
      BY <2>1 DEF CloseIsFatal, EventsOf, TypeOK, TablesInv, TcpHasEvent
    <3>2. Udp(c) \in LiveConn
      BY <3>1, ConnFacts DEF LiveConn
    <3> QED BY <3>1, <3>2 DEF TablesInv, DescriptorsAccounted
  <2>2. Evicted = {} \/ (Evicted = {OldestChannel} /\ Len(lru) = LruSize)
    BY ConstantsAssumption DEF Evicted, TablesInv, TypeOK
  <2>3. pool.num \in Nat
    BY DEF TypeOK
  <2>4. ASSUME NEW e \in Event, Dispatch(e) PROVE AtALimit
    <3>1. CASE SkipFinished(e) \/ AcceptFails(e)
      BY <3>1 DEF SkipFinished, AcceptFails
    <3>2. CASE AcceptFatal(e)
      <4>1. pool.num = 0 \/ pool.num = 1 \/ CloseIsFatal(Evicted)
        BY <3>2 DEF AcceptFatal
      <4>2. CloseIsFatal(Evicted) => Evicted # {}
        BY DEF CloseIsFatal, EventsOf
      <4> QED BY <2>2, <2>3, <4>1, <4>2
    <3>3. CASE AcceptChannel(e)
      BY <2>2, <3>3 DEF AcceptChannel
    <3>4. ASSUME NEW c \in Chan, TcpClose(e, c) PROVE AtALimit
      BY <2>1, <3>4 DEF TcpClose, IsTcpOf
    <3>5. ASSUME NEW c \in Chan, TcpServe(e, c) \/ UdpServe(e, c) PROVE AtALimit
      BY <3>5 DEF TcpServe, UdpServe
    <3>6. ASSUME NEW c \in Chan, TcpServeWithoutUdp(e, c) PROVE AtALimit
      <4>1. Udp(c) \in LiveConn /\ event[Udp(c)] = NULL /\ c \in chans
        BY <3>6, ConnFacts DEF TcpServeWithoutUdp, IsTcpOf, LiveConn
      <4> QED BY <4>1 DEF TablesInv, DescriptorsAccounted
    <3> QED BY <2>4, <3>1, <3>2, <3>3, <3>4, <3>5, <3>6 DEF Dispatch
  <2>5. CASE IdleClose
    <3>1. OldestChannel \in chans
      BY <2>5, TableFacts DEF IdleClose, TablesInv, TypeOK, Listed, OldestChannel
    <3> QED BY <2>1, <2>5, <3>1 DEF IdleClose
  <2> QED BY <2>4, <2>5 DEF Next, Poll, IdleKeep, vars
<1>2. TypeOK /\ EventsInv /\ TablesInv /\ [Next]_vars
        => [crashed' => AtALimit]_vars
  BY <1>1
<1> QED
  BY <1>2, TypeInit, TypeStep, EventsInit, EventsStep, TablesInit, TablesStep, PTL
     DEF Spec, CrashesOnlyAtALimit, AtALimit

==============================================================================
