---------------------------- MODULE EventHandlers ----------------------------
(***************************************************************************)
(* The three event handlers (epoll, select and kqueue) under the loop of   *)
(* gnb_network_service.c, down to the memory they share: the blocks of     *)
(* event_fixed_pool, the arrays of select and kqueue with the index each   *)
(* event keeps of its place, and the batch of pointers the loop goes       *)
(* through while its handlers close and open connections.                  *)
(*                                                                         *)
(* What the services do in a handler is left open: it may close some       *)
(* connections, open others and switch WRITE.  UotTcpService and           *)
(* UotUdpService say what they really do, over epoll's batches.            *)
(***************************************************************************)
EXTENDS Integers, Sequences, FiniteSets, FixedPool

CONSTANTS
  Conn,       \* connection records besides the listener
  Listener,   \* conn_array->conn[0]
  NoConn,     \* udata that names no connection
  NumEvents,  \* max_event
  MaxGet,     \* MAX_GET_GNB_EVENT, the length of gnb_events
  Handlers    \* the handlers gnb_create_event_cmd may pick

Event == 0 .. (NumEvents - 1)
Owner == Conn \cup {Listener}

ASSUME HandlersAssumption ==
  /\ NumEvents \in Nat \ {0} /\ MaxGet \in Nat \ {0}
  /\ Handlers \subseteq {"epoll", "select", "kqueue"}
  /\ Listener \notin Conn /\ NoConn \notin Conn /\ NoConn # Listener

VARIABLES
  handler, \* event_cmd
  pool,    \* service->event_fixed_pool
  owner,   \* event->udata
  filter,  \* what the kernel watches for the event; {}: not registered
  evType,  \* event->ev_type while the event waits in the batch, else {}
  array,   \* event_array->list, of select and kqueue
  index,   \* event->index while the event is in the array, else 0
  batch,   \* the part of gnb_events the loop has yet to go through
  phase,   \* "poll": in get_event, "dispatch": going through the batch
  overrun  \* get_event wrote past the end of gnb_events

vars == <<handler, pool, owner, filter, evType, array, index, batch, phase, overrun>>

HasArray == handler # "epoll"
Registered == {e \in Event : filter[e] # {}}
Live == {owner[e] : e \in Registered}

-----------------------------------------------------------------------------
(***************************************************************************)
(* add_event, set_event and del_event on the part of the state they        *)
(* change, as operators on a record: a callback makes several such calls.  *)
(***************************************************************************)
Tables == [pool |-> pool, owner |-> owner, filter |-> filter, evType |-> evType,
           array |-> array, index |-> index]

\* ev_type is read for the events of the batch only.
InBatch(types, b) == [e \in Event |-> IF \E i \in DOMAIN b : b[i] = e THEN types[e] ELSE {}]

Become(s, b) ==
  /\ pool' = s.pool /\ owner' = s.owner /\ filter' = s.filter
  /\ array' = s.array /\ index' = s.index
  /\ batch' = b /\ evType' = InBatch(s.evType, b)

\* Mutant: the popped event is cleared, as the loop does for the listener's.
PopClean(s, x) ==
  [s EXCEPT !.pool = PoolPop(@), !.owner[PoolTop(s.pool)] = x,
            !.evType[PoolTop(s.pool)] = {}]

\* An event is popped and tied to its connection; its ev_type stays what it was.
Pop(s, x) ==
  [s EXCEPT !.pool = PoolPop(@), !.owner[PoolTop(s.pool)] = x]

\* add_event; a full array refuses the event.
Add(s, e, types) ==
  IF ~HasArray THEN [s EXCEPT !.filter[e] = types]
  ELSE IF Len(s.array) >= NumEvents THEN s
  ELSE [s EXCEPT !.array = Append(@, e), !.index[e] = Len(s.array), !.filter[e] = types]

\* set_event with GNB_EVENT_OP_ENABLE or GNB_EVENT_OP_DISABLE, for WRITE.
Arm(s, e) == [s EXCEPT !.filter[e] = @ \cup {"WRITE"}]
Disarm(s, e) == [s EXCEPT !.filter[e] = @ \ {"WRITE"}]

\* Mutant: the event that fills the gap keeps its old index.
DropStale(s, e) ==
  LET last == s.array[Len(s.array)]
  IN IF s.array = <<>> \/ s.index[e] > Len(s.array) THEN s
     ELSE [s EXCEPT !.array = [i \in 1 .. (Len(@) - 1) |->
                                 IF i = s.index[e] + 1 THEN last ELSE @[i]],
                    !.index[e] = 0]

\* The array's part of del_event: the last event takes the place e leaves
\* (places count from 0 in the code).
Drop(s, e) ==
  LET last == s.array[Len(s.array)]
  IN IF s.array = <<>> \/ s.index[e] > Len(s.array) THEN s
     ELSE [s EXCEPT !.array = [i \in 1 .. (Len(@) - 1) |->
                                 IF i = s.index[e] + 1 THEN last ELSE @[i]],
                    !.index = [[@ EXCEPT ![last] = s.index[e]] EXCEPT ![e] = 0]]

\* gnb_connection_close: the mark, del_event, and the event goes back.
Close(s, x) ==
  LET e == CHOOSE f \in Event : s.owner[f] = x
      d == IF HasArray THEN Drop(s, e) ELSE s
  IN [d EXCEPT !.evType[e] = {"FINISH"}, !.filter[e] = {}, !.owner[e] = NoConn,
               !.pool = PoolPush(@, e)]

\* A channel's two connections, a link, or none.
CloseAll(s, xs) ==
  CASE xs = <<>>    -> s
    [] Len(xs) = 1  -> Close(s, xs[1])
    [] OTHER        -> Close(Close(s, xs[1]), xs[2])

Closings ==
  {xs \in {<<>>} \cup {<<x>> : x \in Conn} \cup (Conn \X Conn) :
     /\ \A i \in DOMAIN xs : xs[i] \in Live
     /\ \A i, j \in DOMAIN xs : xs[i] = xs[j] => i = j}

-----------------------------------------------------------------------------
\* gnb_network_service_create and the start of the loop: the listener has the
\* first event.
Init ==
  /\ handler \in Handlers
  /\ pool = PoolPop(PoolCreate(NumEvents))
  /\ owner = [e \in Event |-> IF e = NumEvents - 1 THEN Listener ELSE NoConn]
  /\ filter = [e \in Event |-> IF e = NumEvents - 1 THEN {"READ"} ELSE {}]
  /\ evType = [e \in Event |-> {}]
  /\ array = IF HasArray THEN <<NumEvents - 1>> ELSE <<>>
  /\ index = [e \in Event |-> 0]
  /\ batch = <<>>
  /\ phase = "poll"
  /\ overrun = FALSE

-----------------------------------------------------------------------------
(***************************************************************************)
(* get_event.  `ready` is what the kernel has to report: pairs of an event *)
(* and READ or WRITE, when that is watched, or END for a connection that   *)
(* ended or failed, which is watched for without being asked.              *)
(***************************************************************************)
Reportable ==
  {p \in Event \X {"READ", "WRITE", "END"} :
     IF p[2] = "END" THEN p[1] \in Registered /\ owner[p[1]] # Listener
                     ELSE p[2] \in filter[p[1]]}

Types(ready, e) == {t \in {"READ", "WRITE", "END"} : <<e, t>> \in ready}
Least(a, b) == IF a < b THEN a ELSE b

\* Any n of S, in any order.
Picks(S, n) ==
  {s \in [1 .. Least(Cardinality(S), n) -> S] :
     \A i, j \in DOMAIN s : s[i] = s[j] => i = j}

\* ev_lst[] and ev_type are written; beyond its end, ev_lst is not ours and the
\* model stops there.  Only select can come to that, in a build that has more
\* descriptors in its sets than the Windows build, the one that selects, takes.
Hand(s, types) ==
  IF Len(s) > MaxGet THEN overrun' = TRUE /\ UNCHANGED <<batch, evType>>
  ELSE batch' = s /\ evType' = InBatch(types, s) /\ UNCHANGED overrun

\* epoll_wait: at most *nevents events, each of them once.
EpollGet(ready) ==
  /\ handler = "epoll"
  /\ \E s \in Picks({p[1] : p \in ready}, MaxGet) :
       Hand(s, [e \in Event |-> Types(ready, e)])

\* select(): the array is gone through from its first place, until as many
\* events were found as there are bits in the three sets; *nevents is not
\* looked at.
SelectGet(ready) ==
  /\ handler = "select"
  /\ LET hits == {i \in DOMAIN array : Types(ready, array[i]) # {}}
     IN \E found \in [1 .. Least(Cardinality(ready), Cardinality(hits)) -> hits] :
          /\ \A n \in DOMAIN found : Cardinality({i \in hits : i < found[n]}) = n - 1
          /\ Hand([n \in DOMAIN found |-> array[found[n]]],
                  [e \in Event |-> Types(ready, e)])

\* How many entries kevent() may fill.
KqueueAsks == MaxGet

\* kevent(): one entry for a filter, so that an event may come twice; the
\* entry that comes later overwrites ev_type.  The end is a flag of both.
KqueueGet(ready) ==
  /\ handler = "kqueue"
  /\ LET knotes == {k \in Event \X {"READ", "WRITE"} :
                      \/ k \in ready
                      \/ k[2] \in filter[k[1]] /\ <<k[1], "END">> \in ready}
     IN \E s \in Picks(knotes, KqueueAsks) :
          LET Lasts(e) == {i \in DOMAIN s : /\ s[i][1] = e
                                            /\ \A j \in DOMAIN s : j > i => s[j][1] # e}
          IN Hand([i \in DOMAIN s |-> s[i][1]],
                  [e \in Event |-> {s[i][2] : i \in Lasts(e)} \cup (Types(ready, e) \cap {"END"})])

Poll ==
  /\ ~overrun /\ phase = "poll"
  /\ \E ready \in SUBSET Reportable : EpollGet(ready) \/ SelectGet(ready) \/ KqueueGet(ready)
  /\ phase' = "dispatch"
  /\ UNCHANGED <<handler, pool, owner, filter, array, index>>

-----------------------------------------------------------------------------
(***************************************************************************)
(* gnb_network_service_loop goes through the batch.                        *)
(***************************************************************************)
This == Head(batch)
Dispatches == ~overrun /\ batch # <<>>
Handles == Dispatches /\ evType[This] # {"FINISH"}

\* The head of handle_tcp_event and of handle_udp_event.
SkipFinished ==
  /\ Dispatches /\ evType[This] = {"FINISH"}
  /\ Become(Tables, Tail(batch))
  /\ UNCHANGED <<handler, phase, overrun>>

\* do_accept: the new connection's event is popped first and added last; in
\* between accept_cb opens a UDP socket and closes what the table gives up.
Accept ==
  /\ Handles /\ owner[This] = Listener /\ pool.num >= 2
  /\ \E x, udp \in Conn \ Live, xs \in Closings :
       /\ x # udp
       /\ LET s1 == Pop(Tables, x)
              s2 == Add(Pop(s1, udp), PoolTop(s1.pool), {"READ"})
          IN Become(Add(CloseAll(s2, xs), PoolTop(pool), {"READ"}), Tail(batch))
  /\ UNCHANGED <<handler, phase, overrun>>

\* accept() fails, or the listener is the UDP side's socket: WRITE may be
\* switched on for one connection.
ServeListener ==
  /\ Handles /\ owner[This] = Listener
  /\ \/ Become(Tables, Tail(batch))
     \/ \E e \in Registered : Become(Arm(Tables, e), Tail(batch))
  /\ UNCHANGED <<handler, phase, overrun>>

\* Another connection is served: WRITE is switched off when it was reported and
\* on for one that has something to send, and the connection may be closed,
\* alone or with the other one of its channel; at its end it is.
Serve ==
  /\ Handles /\ owner[This] # Listener
  /\ LET s == IF "WRITE" \in evType[This] THEN Disarm(Tables, This) ELSE Tables
     IN \/ "END" \notin evType[This] /\ Become(s, Tail(batch))
        \/ /\ "END" \notin evType[This]
           /\ \E e \in Registered : Become(Arm(s, e), Tail(batch))
        \/ \E xs \in Closings : xs # <<>> /\ xs[1] = owner[This]
                                /\ Become(CloseAll(s, xs), Tail(batch))
  /\ UNCHANGED <<handler, phase, overrun>>

\* idle_cb: a timeout closes, a keepalive switches WRITE on, a reconnect opens
\* a link, which is watched for both.
Idle ==
  /\ ~overrun /\ phase = "dispatch" /\ batch = <<>>
  /\ \/ \E xs \in Closings : Become(CloseAll(Tables, xs), <<>>)
     \/ \E e \in Registered : Become(Arm(Tables, e), <<>>)
     \/ \E x \in Conn \ Live :
          pool.num > 0 /\ Become(Add(Pop(Tables, x), PoolTop(pool), {"READ", "WRITE"}), <<>>)
  /\ phase' = "poll"
  /\ UNCHANGED <<handler, overrun>>

Next == Poll \/ SkipFinished \/ Accept \/ ServeListener \/ Serve \/ Idle

Spec == Init /\ [][Next]_vars

-----------------------------------------------------------------------------
\* del_event fills the gap in the array with the last event and renumbers that
\* event: after any order of add_event and del_event the array of select and
\* kqueue lists every registered event once, and each event knows its place.  A
\* stale index would unregister another connection at the next close.
ArrayMatchesFilters ==
  HasArray =>
    /\ Len(array) = Cardinality(Registered)
    /\ \A e \in Registered : index[e] < Len(array) /\ array[index[e] + 1] = e

\* Whatever handler it has, the loop gets what Readiness says: connections that
\* were there when the kernel was asked, served in order, and never one that
\* was closed since, though its event may have been popped again, for another
\* connection, and though kqueue may list an event twice (the comment of
\* GNB_EVENT_TYPE_FINISH in gnb_event.h).
Watched(x) == UNION {filter[e] : e \in {f \in Event : owner[f] = x}}
Waiting ==
  [i \in DOMAIN batch |-> IF evType[batch[i]] = {"FINISH"} THEN NoConn ELSE owner[batch[i]]]
R == INSTANCE Readiness
       WITH Conn <- Owner, watched <- [x \in Owner |-> Watched(x)], pending <- Waiting
Contract == R!Spec
==============================================================================
