-------------------------- MODULE EventHandlersProofs --------------------------
(***************************************************************************)
(* The event handlers, for any number of events and connections and any    *)
(* size of a batch: the array of select and kqueue lists the registered    *)
(* events and each event knows its place, only select writes past the      *)
(* batch, and the loop over any of the three is what Readiness says.       *)
(*                                                                         *)
(* A callback makes several calls of add_event and del_event, and between  *)
(* two of them an event may be popped and not added yet.  So what is kept  *)
(* is a property of the tables in a callback, Good(s, H), with H the       *)
(* events that are popped and not added; between two callbacks H is empty. *)
(***************************************************************************)
EXTENDS EventHandlers, FixedPoolProofs

\* s has the fields of Tables.
IsTables(s) ==
  s = [pool |-> s.pool, owner |-> s.owner, filter |-> s.filter, evType |-> s.evType,
       array |-> s.array, index |-> s.index]

\* The array lists the events that are watched, each in the place it has noted.
Placed(s) ==
  /\ s.array \in Seq(Event) /\ s.index \in [Event -> Nat]
  /\ \A i \in 1..Len(s.array) :
       s.filter[s.array[i]] # {} /\ s.index[s.array[i]] = i - 1
  /\ \A e \in Event :
       s.filter[e] # {} => s.index[e] < Len(s.array) /\ s.array[s.index[e] + 1] = e

\* An event is in the pool, with a connection, or popped for one; what is
\* watched is watched for reading.
Good(s, H) ==
  /\ IsTables(s) /\ PoolOK(s.pool, NumEvents)
  /\ s.owner \in [Event -> Owner \cup {NoConn}]
  /\ s.filter \in [Event -> SUBSET {"READ", "WRITE"}]
  /\ H \subseteq Event /\ H \cap PoolFree(s.pool) = {}
  /\ \A e \in Event : /\ e \in PoolFree(s.pool) <=> s.owner[e] = NoConn
                      /\ e \in PoolFree(s.pool) \/ e \in H <=> s.filter[e] = {}
                      /\ s.filter[e] # {} => "READ" \in s.filter[e]
  /\ HasArray => Placed(s)

\* The constants in the form the provers use.
LEMMA EventFacts ==
  /\ NumEvents \in Nat \ {0} /\ Event = 0..(NumEvents - 1) /\ NULL \notin Event
  /\ NumEvents - 1 \in Event
  /\ MaxGet \in Nat \ {0}
  /\ Conn \subseteq Owner /\ NoConn \notin Owner /\ Listener \in Owner
BY HandlersAssumption DEF Event, NULL, Owner

\* More places than events to fill them: some event has two.
LEMMA TwoInOnePlace ==
  ASSUME NEW n \in Nat, NEW T, IsFiniteSet(T), Cardinality(T) < n, NEW f \in [1..n -> T]
  PROVE  \E i, j \in 1..n : i # j /\ f[i] = f[j]
<1>1. IsFiniteSet(1..n) /\ Cardinality(1..n) = n
  BY FS_Interval
<1>2. Cardinality(T) < Cardinality(1..n)
  BY <1>1
<1> QED BY ONLY <1>1, <1>2, IsFiniteSet(T), f \in [1..n -> T], FS_PigeonHole

\* An event that is not watched leaves room in the array for it.
LEMMA RoomForOne ==
  ASSUME NEW s, Placed(s), NEW e \in Event, s.filter[e] = {}
  PROVE  Len(s.array) < NumEvents
<1> SUFFICES ASSUME Len(s.array) >= NumEvents PROVE FALSE
  BY EventFacts DEF Placed
<1> DEFINE n == Len(s.array)
           f == [i \in 1..n |-> s.array[i]]
           T == Event \ {e}
<1>1. /\ s.array \in Seq(Event) /\ n \in Nat
      /\ \A i \in 1..n : s.array[i] \in Event /\ s.array[i] # e /\ s.index[s.array[i]] = i - 1
  <2>1. s.array \in Seq(Event) /\ n \in Nat
    BY DEF Placed
  <2>2. \A i \in 1..n : s.filter[s.array[i]] # {} /\ s.index[s.array[i]] = i - 1
    BY DEF Placed
  <2>3. \A i \in 1..n : s.array[i] \in Event
    BY <2>1
  <2> HIDE DEF n
  <2> QED BY <2>1, <2>2, <2>3
<1>2. f \in [1..n -> T]
  BY <1>1
<1>3. IsFiniteSet(1..n) /\ Cardinality(1..n) = n
  <2>1. 1 \in Int /\ n \in Int
    BY <1>1
  <2> HIDE DEF n
  <2> QED BY <1>1, <2>1, FS_Interval
<1>4. IsFiniteSet(T) /\ Cardinality(T) = NumEvents - 1
  <2>1. 0 \in Int /\ NumEvents - 1 \in Int /\ NumEvents \in Nat \ {0} /\ Event = 0..(NumEvents - 1)
    BY EventFacts
  <2>2. IsFiniteSet(Event) /\ Cardinality(Event) = NumEvents
    BY <2>1, FS_Interval
  <2>3. IsFiniteSet(Event \ {e}) /\ Cardinality(Event \ {e}) = Cardinality(Event) - 1
    BY <2>2, FS_RemoveElement
  <2> QED BY <2>1, <2>2, <2>3
<1>5. NumEvents - 1 < n
  BY <1>1, EventFacts
<1>6. \E i, j \in 1..n : i # j /\ f[i] = f[j]
  <2> HIDE DEF f, T, n
  <2> QED BY <1>1, <1>2, <1>4, <1>5, TwoInOnePlace
<1>7. PICK i, j \in 1..n : i # j /\ f[i] = f[j]
  BY <1>6
<1>8. i - 1 = j - 1
  BY <1>1, <1>7
<1> QED BY <1>1, <1>7, <1>8

-----------------------------------------------------------------------------
(***************************************************************************)
(* The calls, field by field.                                              *)
(***************************************************************************)
\* A pop writes the pool and the udata of one event.
LEMMA PopFields ==
  ASSUME NEW s, IsTables(s), NEW x
  PROVE  /\ IsTables(Pop(s, x)) /\ Pop(s, x).pool = PoolPop(s.pool)
         /\ Pop(s, x).owner = [s.owner EXCEPT ![PoolTop(s.pool)] = x]
         /\ Pop(s, x).filter = s.filter
         /\ Pop(s, x).array = s.array /\ Pop(s, x).index = s.index
<1> DEFINE p == PoolPop(s.pool)
           o == [s.owner EXCEPT ![PoolTop(s.pool)] = x]
           r == [pool |-> p, owner |-> o, filter |-> s.filter, evType |-> s.evType,
                 array |-> s.array, index |-> s.index]
<1>1. Pop(s, x) = [s EXCEPT !.pool = p, !.owner = o]
  BY DEF Pop, IsTables
<1>2. Pop(s, x) = r
  <2> HIDE DEF p, o
  <2> QED BY <1>1 DEF IsTables
<1> HIDE DEF p, o
<1>3. /\ IsTables(r) /\ r.pool = p /\ r.owner = o
      /\ r.filter = s.filter /\ r.array = s.array /\ r.index = s.index
  BY DEF IsTables
<1> HIDE DEF r
<1> QED BY <1>2, <1>3 DEF p, o

\* set_event writes what is watched for one event.
LEMMA ArmFields ==
  ASSUME NEW s, IsTables(s), NEW e
  PROVE  /\ IsTables(Arm(s, e)) /\ Arm(s, e).pool = s.pool /\ Arm(s, e).owner = s.owner
         /\ Arm(s, e).filter = [s.filter EXCEPT ![e] = @ \cup {"WRITE"}]
         /\ Arm(s, e).array = s.array /\ Arm(s, e).index = s.index
         /\ IsTables(Disarm(s, e)) /\ Disarm(s, e).pool = s.pool
         /\ Disarm(s, e).owner = s.owner
         /\ Disarm(s, e).filter = [s.filter EXCEPT ![e] = @ \ {"WRITE"}]
         /\ Disarm(s, e).array = s.array /\ Disarm(s, e).index = s.index
BY DEF IsTables, Arm, Disarm

\* The array's part of del_event writes the array and the index of two events.
LEMMA DropFields ==
  ASSUME NEW s, IsTables(s), NEW e, s.array # <<>>, ~(s.index[e] > Len(s.array))
  PROVE  /\ IsTables(Drop(s, e))
         /\ Drop(s, e).pool = s.pool /\ Drop(s, e).owner = s.owner
         /\ Drop(s, e).filter = s.filter
         /\ Drop(s, e).array =
              [i \in 1..(Len(s.array) - 1) |->
                 IF i = s.index[e] + 1 THEN s.array[Len(s.array)] ELSE s.array[i]]
         /\ Drop(s, e).index =
              [[s.index EXCEPT ![s.array[Len(s.array)]] = s.index[e]] EXCEPT ![e] = 0]
BY DEF IsTables, Drop
-----------------------------------------------------------------------------
(***************************************************************************)
(* The calls keep the tables in order.                                     *)
(***************************************************************************)

\* gnb_fixed_pool_pop for a connection: the event is out of the pool, tied to
\* the connection, and not watched.
LEMMA PopGood ==
  ASSUME NEW s, NEW H, Good(s, H), s.pool.num > 0, NEW x \in Owner
  PROVE  /\ PoolTop(s.pool) \in Event \cap PoolFree(s.pool)
         /\ Good(Pop(s, x), H \cup {PoolTop(s.pool)})
         /\ Pop(s, x).pool.num = s.pool.num - 1
         /\ Pop(s, x).owner = [s.owner EXCEPT ![PoolTop(s.pool)] = x]
<1> DEFINE t == PoolTop(s.pool)
           r == Pop(s, x)
<1>1. NumEvents \in Nat /\ Event = 0..(NumEvents - 1) /\ NoConn \notin Owner
  BY EventFacts
<1>2. /\ PoolOK(s.pool, NumEvents)
      /\ s.owner \in [Event -> Owner \cup {NoConn}]
      /\ s.filter \in [Event -> SUBSET {"READ", "WRITE"}]
      /\ H \subseteq Event /\ H \cap PoolFree(s.pool) = {}
      /\ \A e \in Event : /\ e \in PoolFree(s.pool) <=> s.owner[e] = NoConn
                          /\ e \in PoolFree(s.pool) \/ e \in H <=> s.filter[e] = {}
                          /\ s.filter[e] # {} => "READ" \in s.filter[e]
      /\ HasArray => Placed(s)
  BY DEF Good
<1>3. /\ t \in PoolFree(s.pool) /\ t \in Event
      /\ PoolOK(PoolPop(s.pool), NumEvents)
      /\ PoolFree(PoolPop(s.pool)) = PoolFree(s.pool) \ {t}
      /\ PoolPop(s.pool).num = s.pool.num - 1
  BY <1>1, <1>2, PoolPopOK
<1>4. /\ IsTables(r) /\ r.pool = PoolPop(s.pool) /\ r.owner = [s.owner EXCEPT ![t] = x]
      /\ r.filter = s.filter /\ r.array = s.array /\ r.index = s.index
  BY PopFields DEF Good
<1> HIDE DEF t, r
<1>5. HasArray => Placed(r)
  BY <1>2, <1>4 DEF Placed
<1>6. r.owner \in [Event -> Owner \cup {NoConn}]
      /\ \A e \in Event : r.owner[e] = IF e = t THEN x ELSE s.owner[e]
  BY <1>2, <1>3, <1>4
<1>7. H \cup {t} \subseteq Event /\ (H \cup {t}) \cap PoolFree(r.pool) = {}
  BY <1>2, <1>3, <1>4
<1>8. \A e \in Event : /\ e \in PoolFree(r.pool) <=> r.owner[e] = NoConn
                       /\ e \in PoolFree(r.pool) \/ e \in H \cup {t} <=> r.filter[e] = {}
                       /\ r.filter[e] # {} => "READ" \in r.filter[e]
  BY <1>1, <1>2, <1>3, <1>4, <1>6
<1>9. Good(r, H \cup {t})
  BY <1>2, <1>3, <1>4, <1>5, <1>6, <1>7, <1>8 DEF Good
<1> QED BY <1>3, <1>4, <1>9 DEF t, r

\* add_event for an event that was popped: it has room in the array.
LEMMA AddGood ==
  ASSUME NEW s, NEW H, Good(s, H), NEW e \in H,
         NEW types \in SUBSET {"READ", "WRITE"}, "READ" \in types
  PROVE  Good(Add(s, e, types), H \ {e}) /\ Add(s, e, types).owner = s.owner
         /\ Add(s, e, types).pool = s.pool
<1> DEFINE r == Add(s, e, types)
<1>1. /\ IsTables(s) /\ PoolOK(s.pool, NumEvents)
      /\ s.owner \in [Event -> Owner \cup {NoConn}]
      /\ s.filter \in [Event -> SUBSET {"READ", "WRITE"}]
      /\ H \subseteq Event /\ H \cap PoolFree(s.pool) = {}
      /\ \A f \in Event : /\ f \in PoolFree(s.pool) <=> s.owner[f] = NoConn
                          /\ f \in PoolFree(s.pool) \/ f \in H <=> s.filter[f] = {}
                          /\ s.filter[f] # {} => "READ" \in s.filter[f]
      /\ HasArray => Placed(s)
  BY DEF Good
<1>2. e \in Event /\ s.filter[e] = {} /\ e \notin PoolFree(s.pool)
  BY <1>1
<1>3. HasArray => Len(s.array) \in Nat /\ Len(s.array) < NumEvents /\ s.array \in Seq(Event)
  <2>1. HasArray => Len(s.array) < NumEvents
    BY <1>1, <1>2, RoomForOne
  <2> QED BY <1>1, <2>1 DEF Placed
<1>4. HasArray => ~(Len(s.array) >= NumEvents)
  BY <1>3, EventFacts
<1>5. /\ IsTables(r) /\ r.pool = s.pool /\ r.owner = s.owner
      /\ r.filter = [s.filter EXCEPT ![e] = types]
      /\ HasArray => /\ r.array = Append(s.array, e)
                     /\ r.index = [s.index EXCEPT ![e] = Len(s.array)]
  <2>1. IsTables(s)
    BY <1>1
  <2>2. CASE ~HasArray
    BY <2>1, <2>2 DEF IsTables, Add
  <2>3. CASE HasArray
    <3>1. r = [s EXCEPT !.array = Append(@, e), !.index[e] = Len(s.array), !.filter[e] = types]
      BY <1>4, <2>3 DEF Add
    <3> HIDE DEF r
    <3> QED BY <2>1, <2>3, <3>1 DEF IsTables
  <2> QED BY <2>2, <2>3
<1> HIDE DEF r
<1>6. /\ r.filter \in [Event -> SUBSET {"READ", "WRITE"}]
      /\ \A f \in Event : r.filter[f] = IF f = e THEN types ELSE s.filter[f]
  BY <1>1, <1>2, <1>5
<1>7. ASSUME HasArray PROVE Placed(r)
  <2> DEFINE n == Len(s.array)
  <2>1. /\ s.array \in Seq(Event) /\ s.index \in [Event -> Nat] /\ n \in Nat
        /\ \A i \in 1..n : s.filter[s.array[i]] # {} /\ s.index[s.array[i]] = i - 1
        /\ \A f \in Event : s.filter[f] # {} => s.index[f] < n /\ s.array[s.index[f] + 1] = f
    BY <1>1, <1>3, <1>7 DEF Placed
  <2>2. /\ r.array \in Seq(Event) /\ Len(r.array) = n + 1
        /\ \A i \in 1..n : r.array[i] = s.array[i] /\ r.array[i] \in Event
        /\ r.array[n + 1] = e
    <3>1. r.array = Append(s.array, e)
      BY <1>5, <1>7
    <3> QED BY <2>1, <3>1, <1>2
  <2>3. /\ r.index \in [Event -> Nat]
        /\ \A f \in Event : r.index[f] = IF f = e THEN n ELSE s.index[f]
    BY <1>2, <1>5, <1>7, <2>1, SMTT(30)
  <2> HIDE DEF n
  <2>4. ASSUME NEW i \in 1..Len(r.array)
        PROVE  r.filter[r.array[i]] # {} /\ r.index[r.array[i]] = i - 1
    <3>1. CASE i = n + 1
      BY <1>2, <1>6, <2>1, <2>2, <2>3, <3>1
    <3>2. CASE i # n + 1
      <4>1. i \in 1..n
        BY <2>1, <2>2, <3>2
      <4>2. r.array[i] = s.array[i] /\ s.array[i] \in Event /\ s.array[i] # e
        BY <1>2, <2>1, <2>2, <4>1
      <4> QED BY <1>6, <2>1, <2>3, <4>1, <4>2
    <3> QED BY <3>1, <3>2
  <2>5. ASSUME NEW f \in Event, r.filter[f] # {}
        PROVE  r.index[f] < Len(r.array) /\ r.array[r.index[f] + 1] = f
    <3>1. CASE f = e
      BY <2>1, <2>2, <2>3, <3>1
    <3>2. CASE f # e
      <4>1. s.index[f] \in Nat /\ s.index[f] < n /\ s.array[s.index[f] + 1] = f
        BY <1>6, <2>1, <2>5, <3>2
      <4>2. s.index[f] + 1 \in 1..n
        BY <2>1, <4>1
      <4>3. r.array[s.index[f] + 1] = s.array[s.index[f] + 1]
        BY <2>2, <4>2
      <4>4. r.index[f] = s.index[f]
        BY <2>3, <3>2
      <4>5. s.index[f] < n + 1
        BY <2>1, <4>1
      <4> QED BY <2>2, <4>1, <4>3, <4>4, <4>5
    <3> QED BY <3>1, <3>2
  <2> QED BY <2>2, <2>3, <2>4, <2>5 DEF Placed
<1>8. \A f \in Event : /\ f \in PoolFree(r.pool) <=> r.owner[f] = NoConn
                       /\ f \in PoolFree(r.pool) \/ f \in H \ {e} <=> r.filter[f] = {}
                       /\ r.filter[f] # {} => "READ" \in r.filter[f]
  BY <1>1, <1>2, <1>5, <1>6
<1>9. Good(r, H \ {e})
  BY <1>1, <1>5, <1>6, <1>7, <1>8 DEF Good
<1> QED BY <1>5, <1>9 DEF r

\* What is watched may change as long as reading stays watched.
LEMMA WatchGood ==
  ASSUME NEW s, NEW H, Good(s, H),
         NEW r, IsTables(r), r.pool = s.pool, r.owner = s.owner,
         r.array = s.array, r.index = s.index,
         r.filter \in [Event -> SUBSET {"READ", "WRITE"}],
         \A f \in Event : /\ r.filter[f] = {} <=> s.filter[f] = {}
                          /\ r.filter[f] # {} => "READ" \in r.filter[f]
  PROVE  Good(r, H)
<1>1. /\ PoolOK(s.pool, NumEvents)
      /\ s.owner \in [Event -> Owner \cup {NoConn}]
      /\ H \subseteq Event /\ H \cap PoolFree(s.pool) = {}
      /\ \A f \in Event : /\ f \in PoolFree(s.pool) <=> s.owner[f] = NoConn
                          /\ f \in PoolFree(s.pool) \/ f \in H <=> s.filter[f] = {}
      /\ HasArray => Placed(s)
  BY DEF Good
<1>2. HasArray => Placed(r)
  <2>1. ASSUME HasArray PROVE \A i \in 1..Len(s.array) : s.array[i] \in Event
    BY <1>1, <2>1 DEF Placed
  <2> QED BY <1>1, <2>1 DEF Placed
<1> QED BY <1>1, <1>2 DEF Good

\* set_event with GNB_EVENT_OP_ENABLE for WRITE, of an event that is watched.
LEMMA ArmGood ==
  ASSUME NEW s, NEW H, Good(s, H), NEW e \in Event, s.filter[e] # {}
  PROVE  Good(Arm(s, e), H)
<1> DEFINE r == Arm(s, e)
<1>1. /\ IsTables(s) /\ s.filter \in [Event -> SUBSET {"READ", "WRITE"}]
      /\ \A f \in Event : s.filter[f] # {} => "READ" \in s.filter[f]
  BY DEF Good
<1>2. /\ IsTables(r) /\ r.pool = s.pool /\ r.owner = s.owner
      /\ r.array = s.array /\ r.index = s.index
      /\ r.filter = [s.filter EXCEPT ![e] = @ \cup {"WRITE"}]
  <2>1. IsTables(s)
    BY <1>1
  <2> QED BY <2>1, ArmFields, ZenonT(60)
<1> HIDE DEF r
<1>3. /\ r.filter \in [Event -> SUBSET {"READ", "WRITE"}]
      /\ \A f \in Event : r.filter[f] = IF f = e THEN s.filter[e] \cup {"WRITE"}
                                                 ELSE s.filter[f]
  BY <1>1, <1>2
<1>4. \A f \in Event : /\ r.filter[f] = {} <=> s.filter[f] = {}
                       /\ r.filter[f] # {} => "READ" \in r.filter[f]
  BY <1>1, <1>3
<1>5. r.filter \in [Event -> SUBSET {"READ", "WRITE"}]
  BY <1>3
<1>6. Good(r, H)
  BY ONLY Good(s, H), <1>2, <1>4, <1>5, WatchGood
<1> QED BY <1>6 DEF r

\* set_event with GNB_EVENT_OP_DISABLE for WRITE: reading stays watched.
LEMMA DisarmGood ==
  ASSUME NEW s, NEW H, Good(s, H), NEW e
  PROVE  /\ Good(Disarm(s, e), H) /\ Disarm(s, e).owner = s.owner
         /\ \A f \in Event : Disarm(s, e).filter[f] = {} <=> s.filter[f] = {}
<1> DEFINE r == Disarm(s, e)
<1>1. /\ IsTables(s) /\ s.filter \in [Event -> SUBSET {"READ", "WRITE"}]
      /\ \A f \in Event : s.filter[f] # {} => "READ" \in s.filter[f]
  BY DEF Good
<1>2. /\ IsTables(r) /\ r.pool = s.pool /\ r.owner = s.owner
      /\ r.array = s.array /\ r.index = s.index
      /\ r.filter = [s.filter EXCEPT ![e] = @ \ {"WRITE"}]
  <2>1. IsTables(s)
    BY <1>1
  <2> QED BY <2>1, ArmFields, ZenonT(60)
<1> HIDE DEF r
<1>3. /\ r.filter \in [Event -> SUBSET {"READ", "WRITE"}]
      /\ \A f \in Event : r.filter[f] = IF f = e THEN s.filter[e] \ {"WRITE"}
                                                 ELSE s.filter[f]
  BY <1>1, <1>2
<1>4. \A f \in Event : /\ r.filter[f] = {} <=> s.filter[f] = {}
                       /\ r.filter[f] # {} => "READ" \in r.filter[f]
  BY <1>1, <1>3
<1>5. Good(r, H)
  BY <1>2, <1>3, <1>4, WatchGood
<1> QED BY <1>2, <1>4, <1>5 DEF r

\* del_event: the last event of the array takes the place that the removed one
\* leaves, and takes note of it.
LEMMA DropPlaced ==
  ASSUME NEW s, Placed(s), NEW e \in Event, s.filter \in [Event -> SUBSET {"READ", "WRITE"}],
         s.filter[e] # {}, NEW c, c.filter = [s.filter EXCEPT ![e] = {}],
         c.array = [i \in 1..(Len(s.array) - 1) |->
                      IF i = s.index[e] + 1 THEN s.array[Len(s.array)] ELSE s.array[i]],
         c.index = [[s.index EXCEPT ![s.array[Len(s.array)]] = s.index[e]] EXCEPT ![e] = 0]
  PROVE  Placed(c)
<1> DEFINE n == Len(s.array)
           k == s.index[e]
           last == s.array[n]
<1>1. /\ s.array \in Seq(Event) /\ s.index \in [Event -> Nat] /\ n \in Nat
      /\ \A i \in 1..n : s.filter[s.array[i]] # {} /\ s.index[s.array[i]] = i - 1
      /\ \A f \in Event : s.filter[f] # {} => s.index[f] < n /\ s.array[s.index[f] + 1] = f
  BY DEF Placed
<1>2. \A i \in 1..n : s.array[i] \in Event
  BY <1>1
<1>3. k \in 0..(n - 1) /\ s.array[k + 1] = e /\ n \in 1..n
  <2>1. s.index[e] \in Nat /\ s.index[e] < n /\ s.array[s.index[e] + 1] = e
    BY <1>1
  <2> HIDE DEF n
  <2> QED BY <1>1, <2>1
<1>4. last \in Event /\ s.index[last] = n - 1
  BY <1>1, <1>2, <1>3
<1>5. c.array = [i \in 1..(n - 1) |-> IF i = k + 1 THEN last ELSE s.array[i]]
      /\ c.index = [[s.index EXCEPT ![last] = k] EXCEPT ![e] = 0]
  OBVIOUS
<1> HIDE DEF n, k, last
<1>6. /\ c.index \in [Event -> Nat]
      /\ \A f \in Event : c.index[f] = IF f = e THEN 0 ELSE IF f = last THEN k ELSE s.index[f]
  <2> DEFINE g == [s.index EXCEPT ![last] = k]
             h == [g EXCEPT ![e] = 0]
  <2>1. /\ g \in [Event -> Nat]
        /\ \A f \in Event : g[f] = IF f = last THEN k ELSE s.index[f]
    BY <1>1, <1>3, <1>4
  <2> HIDE DEF g
  <2>2. h \in [Event -> Nat] /\ \A f \in Event : h[f] = IF f = e THEN 0 ELSE g[f]
    BY <2>1
  <2>3. c.index = h
    BY <1>5 DEF g
  <2> HIDE DEF h
  <2> QED BY <2>1, <2>2, <2>3
<1>7. /\ c.array \in Seq(Event) /\ Len(c.array) = n - 1
      /\ \A i \in 1..(n - 1) : c.array[i] = IF i = k + 1 THEN last ELSE s.array[i]
  <2>1. n - 1 \in Nat
    BY <1>1, <1>3
  <2>2. \A i \in 1..(n - 1) : (IF i = k + 1 THEN last ELSE s.array[i]) \in Event
    BY <1>1, <1>2, <1>4
  <2> DEFINE a == [i \in 1..(n - 1) |-> IF i = k + 1 THEN last ELSE s.array[i]]
  <2>3. /\ a \in [1..(n - 1) -> Event]
        /\ \A i \in 1..(n - 1) : a[i] = IF i = k + 1 THEN last ELSE s.array[i]
    BY <2>2
  <2>4. c.array = a
    BY <1>5
  <2> HIDE DEF a
  <2>5. a \in Seq(Event) /\ Len(a) = n - 1
    BY <2>1, <2>3
  <2> QED BY <2>3, <2>4, <2>5
<1>8. \A f \in Event : c.filter[f] = IF f = e THEN {} ELSE s.filter[f]
  OBVIOUS
<1>9. ASSUME NEW i \in 1..Len(c.array)
      PROVE  c.filter[c.array[i]] # {} /\ c.index[c.array[i]] = i - 1
  <2>0. i \in 1..(n - 1)
    BY <1>7
  <2>1. i \in 1..n /\ i \in 1..(n - 1) /\ i # n
    BY <1>1, <2>0
  <2>2. CASE i = k + 1
    <3>1. c.array[i] = last /\ k = i - 1
      <4>1. k \in Nat
        BY <1>1, <1>3
      <4>2. k = i - 1
        BY <2>2, <4>1
      <4>3. c.array[i] = last
        BY <1>7, <2>0, <2>2
      <4> QED BY <4>2, <4>3
    <3>2. last # e
      BY <1>1, <1>3, <1>4, <2>1, <2>2 DEF k
    <3>3. s.filter[last] # {}
      BY <1>1, <1>3 DEF last
    <3> QED BY <1>4, <1>6, <1>8, <3>1, <3>2, <3>3
  <2>3. CASE i # k + 1
    <3> DEFINE f == s.array[i]
    <3>1. c.array[i] = f /\ f \in Event /\ s.index[f] = i - 1 /\ s.filter[f] # {}
      BY <1>1, <1>2, <1>7, <2>1, <2>3
    <3> HIDE DEF f
    <3>2. f # e
      BY <1>3, <2>1, <2>3, <3>1 DEF k
    <3>3. f # last
      BY <1>1, <1>4, <2>1, <3>1
    <3> QED BY <1>6, <1>8, <3>1, <3>2, <3>3
  <2> QED BY <2>2, <2>3
<1>10. ASSUME NEW f \in Event, c.filter[f] # {}
       PROVE  c.index[f] < Len(c.array) /\ c.array[c.index[f] + 1] = f
  <2>1. f # e /\ s.filter[f] # {}
    BY <1>8, <1>10
  <2>2. s.index[f] \in Nat /\ s.index[f] < n /\ s.array[s.index[f] + 1] = f
    BY <1>1, <2>1
  <2>3. CASE f = last
    <3>1. c.index[f] = k
      BY <1>6, <2>1, <2>3
    <3>2. k # n - 1
      BY <1>3, <1>4, <2>1, <2>2, <2>3
    <3>3. k < n - 1 /\ k + 1 \in 1..(n - 1)
      BY <1>1, <1>3, <3>2
    <3> QED BY <1>7, <2>3, <3>1, <3>3
  <2>4. CASE f # last
    <3>1. c.index[f] = s.index[f]
      BY <1>6, <2>1, <2>4
    <3>2. s.index[f] # n - 1
      <4>1. s.index[f] = n - 1 => s.index[f] + 1 = n
        BY <1>1
      <4> QED BY <2>2, <2>4, <4>1 DEF last
    <3>3. s.index[f] < n - 1 /\ s.index[f] + 1 \in 1..(n - 1)
      BY <1>1, <2>2, <3>2, SMTT(30)
    <3>4. s.index[f] + 1 # k + 1
      BY <1>3, <2>1, <2>2
    <3>5. c.array[s.index[f] + 1] = s.array[s.index[f] + 1]
      BY <1>7, <3>3, <3>4
    <3> QED BY <1>7, <2>2, <3>1, <3>3, <3>5
  <2> QED BY <2>3, <2>4
<1> QED BY <1>6, <1>7, <1>9, <1>10 DEF Placed
\* gnb_connection_close: the event of the connection, and no other, goes back
\* to the pool, out of the array and unwatched.
LEMMA CloseGood ==
  ASSUME NEW s, NEW H, Good(s, H), NEW x \in Owner,
         \E f \in Event : s.owner[f] = x, \A h \in H : s.owner[h] # x
  PROVE  /\ Good(Close(s, x), H)
         /\ \E e \in Event : s.owner[e] = x /\ Close(s, x).owner = [s.owner EXCEPT ![e] = NoConn]
<1> DEFINE e == CHOOSE f \in Event : s.owner[f] = x
           d == IF HasArray THEN Drop(s, e) ELSE s
           c == Close(s, x)
<1>1. e \in Event /\ s.owner[e] = x
  OBVIOUS
<1>2. c = [d EXCEPT !.evType[e] = {"FINISH"}, !.filter[e] = {}, !.owner[e] = NoConn,
                    !.pool = PoolPush(@, e)]
  BY DEF Close
<1> HIDE DEF e
<1>3. /\ IsTables(s) /\ PoolOK(s.pool, NumEvents)
      /\ s.owner \in [Event -> Owner \cup {NoConn}]
      /\ s.filter \in [Event -> SUBSET {"READ", "WRITE"}]
      /\ H \subseteq Event /\ H \cap PoolFree(s.pool) = {}
      /\ \A f \in Event : /\ f \in PoolFree(s.pool) <=> s.owner[f] = NoConn
                          /\ f \in PoolFree(s.pool) \/ f \in H <=> s.filter[f] = {}
                          /\ s.filter[f] # {} => "READ" \in s.filter[f]
      /\ HasArray => Placed(s)
  BY DEF Good
<1>4. /\ NumEvents \in Nat /\ Event = 0..(NumEvents - 1) /\ NoConn \notin Owner
  BY EventFacts
<1>5. e \notin PoolFree(s.pool) /\ e \notin H /\ s.filter[e] # {}
  BY <1>1, <1>3, <1>4
<1>6. /\ PoolOK(PoolPush(s.pool, e), NumEvents)
      /\ PoolFree(PoolPush(s.pool, e)) = PoolFree(s.pool) \cup {e}
  BY <1>1, <1>3, <1>4, <1>5, PoolPushOK
<1>7. /\ IsTables(d) /\ d.pool = s.pool /\ d.owner = s.owner /\ d.filter = s.filter
      /\ HasArray =>
           /\ d.array = [i \in 1..(Len(s.array) - 1) |->
                           IF i = s.index[e] + 1 THEN s.array[Len(s.array)] ELSE s.array[i]]
           /\ d.index = [[s.index EXCEPT ![s.array[Len(s.array)]] = s.index[e]] EXCEPT ![e] = 0]
  <2>1. CASE ~HasArray
    BY <1>3, <2>1
  <2>2. CASE HasArray
    <3>1. s.array \in Seq(Event) /\ s.index[e] \in Nat /\ s.index[e] < Len(s.array)
      BY <1>1, <1>3, <1>5, <2>2 DEF Placed
    <3>2. s.array # <<>> /\ ~(s.index[e] > Len(s.array))
      BY <3>1
    <3>3. IsTables(s)
      BY <1>3
    <3>4. d = Drop(s, e)
      BY <2>2
    <3> HIDE DEF d
    <3>5. /\ IsTables(Drop(s, e))
          /\ Drop(s, e).pool = s.pool /\ Drop(s, e).owner = s.owner
          /\ Drop(s, e).filter = s.filter
          /\ Drop(s, e).array =
               [i \in 1..(Len(s.array) - 1) |->
                  IF i = s.index[e] + 1 THEN s.array[Len(s.array)] ELSE s.array[i]]
          /\ Drop(s, e).index =
               [[s.index EXCEPT ![s.array[Len(s.array)]] = s.index[e]] EXCEPT ![e] = 0]
      BY ONLY <3>2, <3>3, DropFields
    <3> QED BY <3>4, <3>5
  <2> QED BY <2>1, <2>2
<1> HIDE DEF d
<1>8. /\ IsTables(c) /\ c.pool = PoolPush(s.pool, e)
      /\ c.owner = [s.owner EXCEPT ![e] = NoConn]
      /\ c.filter = [s.filter EXCEPT ![e] = {}]
      /\ c.array = d.array /\ c.index = d.index
  <2> DEFINE p == PoolPush(d.pool, e)
             ow == [d.owner EXCEPT ![e] = NoConn]
             fi == [d.filter EXCEPT ![e] = {}]
             ev == [d.evType EXCEPT ![e] = {"FINISH"}]
             r == [pool |-> p, owner |-> ow, filter |-> fi, evType |-> ev,
                   array |-> d.array, index |-> d.index]
  <2>1. c = [d EXCEPT !.evType = ev, !.filter = fi, !.owner = ow, !.pool = p]
    BY <1>2, <1>7 DEF IsTables
  <2>2. IsTables(d)
    BY <1>7
  <2> HIDE DEF c
  <2>3. c = r
    <3> HIDE DEF p, ow, fi, ev
    <3> QED BY <2>1, <2>2 DEF IsTables
  <2>4. /\ IsTables(c) /\ c.pool = p /\ c.owner = ow /\ c.filter = fi
        /\ c.array = d.array /\ c.index = d.index
    <3> HIDE DEF p, ow, fi, ev
    <3> QED BY <2>3 DEF IsTables
  <2> QED BY <1>7, <2>4
<1> HIDE DEF c
<1>9. HasArray => Placed(c)
  <2> SUFFICES ASSUME HasArray PROVE Placed(c)
    OBVIOUS
  <2>1. Placed(s) /\ s.filter \in [Event -> SUBSET {"READ", "WRITE"}]
    BY <1>3
  <2>2. /\ c.array = [i \in 1..(Len(s.array) - 1) |->
                        IF i = s.index[e] + 1 THEN s.array[Len(s.array)] ELSE s.array[i]]
        /\ c.index = [[s.index EXCEPT ![s.array[Len(s.array)]] = s.index[e]] EXCEPT ![e] = 0]
    BY <1>7, <1>8
  <2> QED BY <1>1, <1>5, <1>8, <2>1, <2>2, DropPlaced
<1>10. /\ c.owner \in [Event -> Owner \cup {NoConn}]
       /\ \A f \in Event : c.owner[f] = IF f = e THEN NoConn ELSE s.owner[f]
       /\ c.filter \in [Event -> SUBSET {"READ", "WRITE"}]
       /\ \A f \in Event : c.filter[f] = IF f = e THEN {} ELSE s.filter[f]
  BY <1>1, <1>3, <1>8
<1>11. \A f \in Event : /\ f \in PoolFree(c.pool) <=> c.owner[f] = NoConn
                        /\ f \in PoolFree(c.pool) \/ f \in H <=> c.filter[f] = {}
                        /\ c.filter[f] # {} => "READ" \in c.filter[f]
  BY <1>3, <1>6, <1>8, <1>10
<1>12. H \cap PoolFree(c.pool) = {}
  BY <1>3, <1>5, <1>6, <1>8
<1>13. Good(c, H)
  BY <1>3, <1>6, <1>8, <1>9, <1>10, <1>11, <1>12 DEF Good
<1> QED BY <1>1, <1>8, <1>13 DEF c

\* A channel's two connections are closed one after the other, and no event of
\* the other connections is touched.
LEMMA CloseAllGood ==
  ASSUME NEW s, NEW H, Good(s, H), NEW xs \in Closings,
         \A x \in Live : (\E f \in Event : s.owner[f] = x) /\ (\A h \in H : s.owner[h] # x)
  PROVE  Good(CloseAll(s, xs), H)
<1>1. xs \in {<<>>} \cup {<<x>> : x \in Conn} \cup (Conn \X Conn)
  BY DEF Closings
<1>2. (\A i \in DOMAIN xs : xs[i] \in Live) /\ \A i, j \in DOMAIN xs : xs[i] = xs[j] => i = j
  BY DEF Closings
<1>3. Conn \subseteq Owner /\ NoConn \notin Owner
  BY EventFacts
<1>4. CASE xs = <<>>
  BY <1>4 DEF CloseAll
<1>5. CASE xs \in {<<x>> : x \in Conn}
  <2>1. PICK x \in Conn : xs = <<x>>
    BY <1>5
  <2>2. x \in Live /\ CloseAll(s, xs) = Close(s, x)
    BY <1>2, <2>1 DEF CloseAll
  <2> QED BY <1>3, <2>2, CloseGood
<1>6. CASE xs \in Conn \X Conn
  <2>1. PICK x \in Conn, y \in Conn : xs = <<x, y>>
    BY <1>6
  <2>2. x \in Live /\ y \in Live /\ x # y /\ CloseAll(s, xs) = Close(Close(s, x), y)
    BY <1>2, <2>1 DEF CloseAll
  <2>3. x \in Owner /\ y \in Owner /\ y # NoConn
    BY <1>3
  <2> DEFINE c == Close(s, x)
  <2>4. Good(c, H) /\ \E e \in Event : s.owner[e] = x /\ c.owner = [s.owner EXCEPT ![e] = NoConn]
    BY <2>2, <2>3, CloseGood
  <2> HIDE DEF c
  <2>5. PICK e \in Event : s.owner[e] = x /\ c.owner = [s.owner EXCEPT ![e] = NoConn]
    BY <2>4
  <2>6. s.owner \in [Event -> Owner \cup {NoConn}] /\ H \subseteq Event
    BY DEF Good
  <2>7. \A f \in Event : c.owner[f] = IF f = e THEN NoConn ELSE s.owner[f]
    BY <2>5, <2>6
  <2>8. \E f \in Event : c.owner[f] = y
    BY <2>2, <2>5, <2>7
  <2>9. \A h \in H : c.owner[h] # y
    BY <2>2, <2>3, <2>6, <2>7
  <2>10. Good(Close(c, y), H)
    BY <2>3, <2>4, <2>8, <2>9, CloseGood
  <2> QED BY <2>2, <2>10 DEF c
<1> QED BY <1>1, <1>4, <1>5, <1>6
-----------------------------------------------------------------------------
(***************************************************************************)
(* The invariant, and what it says between two callbacks.                  *)
(***************************************************************************)
HandlersInv == Good(Tables, {})
\* The invariant depends on the memory only, not on the batch.
LEMMA Keeps ==
  ASSUME NEW s, Good(s, {}), handler' = handler,
         pool' = s.pool, owner' = s.owner, filter' = s.filter,
         array' = s.array, index' = s.index
  PROVE  HandlersInv'
<1>1. PICK r : r = [pool |-> pool', owner |-> owner', filter |-> filter', evType |-> evType',
                    array |-> array', index |-> index']
  OBVIOUS
<1>2. /\ IsTables(r) /\ r.pool = s.pool /\ r.owner = s.owner /\ r.filter = s.filter
      /\ r.array = s.array /\ r.index = s.index
  BY <1>1 DEF IsTables
<1>3. /\ s.filter \in [Event -> SUBSET {"READ", "WRITE"}]
      /\ \A f \in Event : s.filter[f] # {} => "READ" \in s.filter[f]
  BY DEF Good
<1>4. Good(r, {})
  BY <1>2, <1>3, WatchGood
<1>5. HasArray' <=> HasArray
  BY DEF HasArray
<1>6. Good(r, {})'
  BY <1>4, <1>5 DEF Good
<1>7. Tables' = r
  BY <1>1 DEF Tables
<1>8. Good(Tables, {})'
  BY <1>6, <1>7
<1> QED BY <1>8 DEF HandlersInv

\* The start of the loop: the listener has the last event.
LEMMA HandlersInit == Init => HandlersInv
<1> SUFFICES ASSUME Init PROVE Good(Tables, {})
  BY DEF HandlersInv
<1> DEFINE s == Tables
           p == PoolCreate(NumEvents)
<1>1. /\ NumEvents \in Nat \ {0} /\ Event = 0..(NumEvents - 1) /\ NULL \notin Event
      /\ NumEvents - 1 \in Event /\ NoConn \notin Owner /\ Listener \in Owner
  BY EventFacts
<1>2. /\ IsTables(s) /\ s.pool = PoolPop(p)
      /\ s.owner = [e \in Event |-> IF e = NumEvents - 1 THEN Listener ELSE NoConn]
      /\ s.filter = [e \in Event |-> IF e = NumEvents - 1 THEN {"READ"} ELSE {}]
      /\ HasArray => s.array = <<NumEvents - 1>>
      /\ s.index = [e \in Event |-> 0]
  BY DEF Init, Tables, IsTables
<1>3. PoolOK(p, NumEvents) /\ PoolFree(p) = Event /\ p.num > 0 /\ PoolTop(p) = NumEvents - 1
  <2>1. PoolOK(p, NumEvents) /\ PoolFree(p) = Event
    BY <1>1, PoolCreateOK
  <2>2. p.num = NumEvents /\ p.array = [i \in 0..(NumEvents - 1) |-> i]
    BY DEF PoolCreate
  <2>3. p.num > 0 /\ PoolTop(p) = NumEvents - 1
    <3> HIDE DEF p
    <3> QED BY <1>1, <2>2 DEF PoolTop
  <2> QED BY <2>1, <2>3
<1> HIDE DEF s, p
<1>4. /\ PoolOK(s.pool, NumEvents) /\ PoolFree(s.pool) = Event \ {NumEvents - 1}
  <2>1. NumEvents \in Nat
    BY <1>1
  <2> QED BY <1>2, <1>3, <2>1, PoolPopOK
<1>5. /\ s.owner \in [Event -> Owner \cup {NoConn}]
      /\ s.filter \in [Event -> SUBSET {"READ", "WRITE"}]
      /\ \A e \in Event : /\ e \in PoolFree(s.pool) <=> s.owner[e] = NoConn
                          /\ e \in PoolFree(s.pool) \/ e \in {} <=> s.filter[e] = {}
                          /\ s.filter[e] # {} => "READ" \in s.filter[e]
  BY <1>1, <1>2, <1>4
<1>6. HasArray => Placed(s)
  <2> SUFFICES ASSUME HasArray PROVE Placed(s)
    OBVIOUS
  <2>1. /\ s.array \in Seq(Event) /\ Len(s.array) = 1 /\ s.array[1] = NumEvents - 1
    <3>1. s.array = <<NumEvents - 1>>
      BY <1>2
    <3>2. NumEvents - 1 \in Event
      BY <1>1
    <3> QED BY <3>1, <3>2
  <2>2. s.index \in [Event -> Nat] /\ \A e \in Event : s.index[e] = 0
    BY <1>2
  <2>3. \A e \in Event : s.filter[e] = IF e = NumEvents - 1 THEN {"READ"} ELSE {}
    BY <1>2
  <2>4. \A i \in 1..1 : s.filter[s.array[i]] # {} /\ s.index[s.array[i]] = i - 1
    <3>1. s.array[1] \in Event /\ s.filter[s.array[1]] = {"READ"} /\ s.index[s.array[1]] = 0
      BY <1>1, <2>1, <2>2, <2>3
    <3>2. \A i \in 1..1 : i = 1 /\ i - 1 = 0
      OBVIOUS
    <3> QED BY <3>1, <3>2
  <2>5. \A e \in Event : s.filter[e] # {} => s.index[e] < 1 /\ s.array[s.index[e] + 1] = e
    BY <2>1, <2>2, <2>3
  <2> QED BY <2>1, <2>2, <2>4, <2>5 DEF Placed
<1>7. Good(s, {})
  BY <1>2, <1>4, <1>5, <1>6 DEF Good
<1> QED BY <1>7 DEF s

\* Who is watched has an event, and no connection without one is watched.
LEMMA LiveFacts ==
  ASSUME HandlersInv
  PROVE  /\ Live \subseteq Owner
         /\ \A x \in Live : \E f \in Event : owner[f] = x
BY DEF HandlersInv, Good, Tables, Live, Registered

\* do_accept, with what accept_cb does between the pop of the new connection's
\* event and its add_event.
LEMMA AcceptGood ==
  ASSUME HandlersInv, pool.num >= 2,
         NEW x \in Conn \ Live, NEW udp \in Conn \ Live, NEW xs \in Closings
  PROVE  LET s1 == Pop(Tables, x)
             s2 == Add(Pop(s1, udp), PoolTop(s1.pool), {"READ"})
         IN Good(Add(CloseAll(s2, xs), PoolTop(pool), {"READ"}), {})
<1> DEFINE s0 == Tables
           s1 == Pop(s0, x)
           t1 == PoolTop(s0.pool)
           t2 == PoolTop(s1.pool)
           r == Pop(s1, udp)
           s2 == Add(r, t2, {"READ"})
           c == CloseAll(s2, xs)
<1>1. Good(s0, {}) /\ s0.pool = pool /\ s0.owner = owner
  BY DEF HandlersInv, Tables
<1>2. x \in Owner /\ udp \in Owner /\ NoConn \notin Owner /\ x \notin Live
      /\ {"READ"} \in SUBSET {"READ", "WRITE"} /\ "READ" \in {"READ"}
  BY EventFacts
<1>3. pool.num \in Nat
  BY <1>1, EventFacts DEF Good, PoolOK
<1> HIDE DEF s0
<1>4. /\ t1 \in Event \cap PoolFree(s0.pool) /\ Good(s1, {t1})
      /\ s1.pool.num = pool.num - 1 /\ s1.owner = [s0.owner EXCEPT ![t1] = x]
  <2>1. s0.pool.num > 0
    BY <1>1, <1>3
  <2>2. Good(s1, {} \cup {t1}) /\ t1 \in Event \cap PoolFree(s0.pool)
        /\ s1.pool.num = s0.pool.num - 1 /\ s1.owner = [s0.owner EXCEPT ![t1] = x]
    BY <1>1, <1>2, <2>1, PopGood
  <2>3. {} \cup {t1} = {t1}
    OBVIOUS
  <2> QED BY <1>1, <2>2, <2>3
<1> HIDE DEF s1, t1
<1>5. /\ t2 \in Event \cap PoolFree(s1.pool) /\ Good(r, {t1} \cup {t2})
      /\ r.owner = [s1.owner EXCEPT ![t2] = udp]
  <2>1. s1.pool.num > 0
    BY <1>3, <1>4
  <2> QED BY <1>2, <1>4, <2>1, PopGood
<1>6. t1 # t2
  BY <1>4, <1>5 DEF Good
<1> HIDE DEF r, t2
<1>7. Good(s2, {t1}) /\ s2.owner = r.owner
  <2>1. t2 \in {t1} \cup {t2} /\ ({t1} \cup {t2}) \ {t2} = {t1}
    BY <1>6
  <2>2. Good(s2, ({t1} \cup {t2}) \ {t2}) /\ s2.owner = r.owner
    BY <1>2, <1>5, <2>1, AddGood
  <2> QED BY <2>1, <2>2
<1> HIDE DEF s2
<1>8. /\ s0.owner \in [Event -> Owner \cup {NoConn}] /\ s0.owner[t1] = NoConn
      /\ s1.owner \in [Event -> Owner \cup {NoConn}] /\ s1.owner[t2] = NoConn
  BY <1>1, <1>4, <1>5 DEF Good
<1>9. ASSUME NEW y \in Live
      PROVE  (\E f \in Event : s2.owner[f] = y) /\ \A h \in {t1} : s2.owner[h] # y
  <2>1. y \in Owner /\ y # x /\ y # NoConn
    BY <1>2, LiveFacts
  <2>2. PICK f \in Event : s0.owner[f] = y
    BY <1>1, LiveFacts
  <2>3. f # t1 /\ s1.owner[f] = y
    BY <1>4, <1>8, <2>1, <2>2
  <2>4. f # t2 /\ s2.owner[f] = y
    BY <1>5, <1>7, <1>8, <2>1, <2>3
  <2>5. s2.owner[t1] = x
    BY <1>4, <1>5, <1>6, <1>7, <1>8
  <2> QED BY <2>1, <2>4, <2>5
<1>10. Good(c, {t1})
  BY <1>7, <1>9, CloseAllGood
<1> HIDE DEF c
<1>11. Good(Add(c, t1, {"READ"}), {t1} \ {t1})
  <2>1. t1 \in {t1}
    OBVIOUS
  <2> QED BY <1>2, <1>10, <2>1, AddGood
<1>12. {t1} \ {t1} = {} /\ t1 = PoolTop(pool)
  BY <1>1 DEF t1
<1>13. Good(Add(c, PoolTop(pool), {"READ"}), {})
  BY <1>11, <1>12
<1> QED BY <1>13 DEF c, s2, r, t2, s1, s0
\* Every step of the loop keeps the tables in order.
LEMMA HandlersStep == HandlersInv /\ [Next]_vars => HandlersInv'
<1> SUFFICES ASSUME HandlersInv, [Next]_vars PROVE HandlersInv'
  OBVIOUS
<1>1. /\ Good(Tables, {}) /\ Tables.pool = pool /\ Tables.owner = owner
      /\ Tables.filter = filter /\ Tables.array = array /\ Tables.index = index
  BY DEF HandlersInv, Tables
<1>2. ASSUME NEW s, Good(s, {}), NEW b, Become(s, b), handler' = handler PROVE HandlersInv'
  BY <1>2, Keeps DEF Become
<1>3. \A e \in Registered : e \in Event /\ filter[e] # {}
  BY DEF Registered
<1>4. CASE UNCHANGED vars
  <2>1. /\ handler' = handler /\ pool' = Tables.pool /\ owner' = Tables.owner
        /\ filter' = Tables.filter /\ array' = Tables.array /\ index' = Tables.index
    BY <1>1, <1>4 DEF vars
  <2> QED BY <1>1, <2>1, Keeps
<1>5. CASE Poll
  <2>1. /\ handler' = handler /\ pool' = Tables.pool /\ owner' = Tables.owner
        /\ filter' = Tables.filter /\ array' = Tables.array /\ index' = Tables.index
    BY <1>1, <1>5 DEF Poll
  <2> QED BY <1>1, <2>1, Keeps
<1>6. CASE SkipFinished
  BY <1>1, <1>2, <1>6 DEF SkipFinished
<1>7. CASE Accept
  <2>1. PICK x \in Conn \ Live, udp \in Conn \ Live, xs \in Closings :
          LET s1 == Pop(Tables, x)
              s2 == Add(Pop(s1, udp), PoolTop(s1.pool), {"READ"})
          IN Become(Add(CloseAll(s2, xs), PoolTop(pool), {"READ"}), Tail(batch))
    BY <1>7 DEF Accept
  <2>2. pool.num >= 2 /\ handler' = handler
    BY <1>7 DEF Accept
  <2> DEFINE s1 == Pop(Tables, x)
             s2 == Add(Pop(s1, udp), PoolTop(s1.pool), {"READ"})
             r == Add(CloseAll(s2, xs), PoolTop(pool), {"READ"})
  <2>3. Become(r, Tail(batch))
    BY <2>1
  <2>4. Good(r, {})
    BY <2>2, AcceptGood
  <2> HIDE DEF r
  <2> QED BY <1>2, <2>2, <2>3, <2>4
<1>8. CASE ServeListener
  <2>1. handler' = handler
    BY <1>8 DEF ServeListener
  <2>2. CASE Become(Tables, Tail(batch))
    BY <1>1, <1>2, <2>1, <2>2
  <2>3. CASE \E e \in Registered : Become(Arm(Tables, e), Tail(batch))
    <3>1. PICK e \in Registered : Become(Arm(Tables, e), Tail(batch))
      BY <2>3
    <3>2. Good(Arm(Tables, e), {})
      BY <1>1, <1>3, ArmGood
    <3> QED BY <1>2, <2>1, <3>1, <3>2
  <2> QED BY <1>8, <2>2, <2>3 DEF ServeListener
<1>9. CASE Serve
  <2> DEFINE s == IF "WRITE" \in evType[This] THEN Disarm(Tables, This) ELSE Tables
  <2>1. handler' = handler
    BY <1>9 DEF Serve
  <2>2. /\ Good(s, {}) /\ s.owner = owner
        /\ \A f \in Event : s.filter[f] = {} <=> filter[f] = {}
    <3>1. /\ Good(Disarm(Tables, This), {}) /\ Disarm(Tables, This).owner = Tables.owner
          /\ \A f \in Event : Disarm(Tables, This).filter[f] = {} <=> Tables.filter[f] = {}
      BY <1>1, DisarmGood
    <3> QED BY <1>1, <3>1
  <2>3. \/ Become(s, Tail(batch))
        \/ \E e \in Registered : Become(Arm(s, e), Tail(batch))
        \/ \E xs \in Closings : Become(CloseAll(s, xs), Tail(batch))
    BY <1>9 DEF Serve
  <2> HIDE DEF s
  <2>4. CASE Become(s, Tail(batch))
    BY <1>2, <2>1, <2>2, <2>4
  <2>5. CASE \E e \in Registered : Become(Arm(s, e), Tail(batch))
    <3>1. PICK e \in Registered : Become(Arm(s, e), Tail(batch))
      BY <2>5
    <3>2. e \in Event /\ s.filter[e] # {}
      BY <1>3, <2>2
    <3>3. Good(Arm(s, e), {})
      BY <2>2, <3>2, ArmGood
    <3> QED BY <1>2, <2>1, <3>1, <3>3
  <2>6. CASE \E xs \in Closings : Become(CloseAll(s, xs), Tail(batch))
    <3>1. PICK xs \in Closings : Become(CloseAll(s, xs), Tail(batch))
      BY <2>6
    <3>2. \A x \in Live : (\E f \in Event : s.owner[f] = x) /\ (\A h \in {} : s.owner[h] # x)
      BY <2>2, LiveFacts
    <3>3. Good(CloseAll(s, xs), {})
      BY <2>2, <3>2, CloseAllGood
    <3> QED BY <1>2, <2>1, <3>1, <3>3
  <2> QED BY <2>3, <2>4, <2>5, <2>6
<1>10. CASE Idle
  <2>1. handler' = handler
    BY <1>10 DEF Idle
  <2>2. CASE \E xs \in Closings : Become(CloseAll(Tables, xs), <<>>)
    <3>1. PICK xs \in Closings : Become(CloseAll(Tables, xs), <<>>)
      BY <2>2
    <3>2. \A x \in Live : /\ \E f \in Event : Tables.owner[f] = x
                          /\ \A h \in {} : Tables.owner[h] # x
      BY <1>1, LiveFacts
    <3>3. Good(CloseAll(Tables, xs), {})
      BY <1>1, <3>2, CloseAllGood
    <3> QED BY <1>2, <2>1, <3>1, <3>3
  <2>3. CASE \E e \in Registered : Become(Arm(Tables, e), <<>>)
    <3>1. PICK e \in Registered : Become(Arm(Tables, e), <<>>)
      BY <2>3
    <3>2. Good(Arm(Tables, e), {})
      BY <1>1, <1>3, ArmGood
    <3> QED BY <1>2, <2>1, <3>1, <3>2
  <2>4. CASE \E x \in Conn \ Live :
               pool.num > 0 /\ Become(Add(Pop(Tables, x), PoolTop(pool), {"READ", "WRITE"}), <<>>)
    <3>1. PICK x \in Conn \ Live :
            pool.num > 0 /\ Become(Add(Pop(Tables, x), PoolTop(pool), {"READ", "WRITE"}), <<>>)
      BY <2>4
    <3> DEFINE t == PoolTop(pool)
               p == Pop(Tables, x)
               r == Add(p, t, {"READ", "WRITE"})
    <3>2. x \in Owner
      BY EventFacts
    <3>3. Good(p, {} \cup {t})
      BY <1>1, <3>1, <3>2, PopGood
    <3> HIDE DEF t, p
    <3>4. t \in {} \cup {t} /\ ({} \cup {t}) \ {t} = {}
          /\ {"READ", "WRITE"} \in SUBSET {"READ", "WRITE"} /\ "READ" \in {"READ", "WRITE"}
      OBVIOUS
    <3>5. Good(r, ({} \cup {t}) \ {t})
      BY <3>3, <3>4, AddGood
    <3>6. Become(r, <<>>)
      BY <3>1 DEF t, p
    <3> HIDE DEF r
    <3>7. Good(r, {})
      BY <3>4, <3>5
    <3> QED BY <1>2, <2>1, <3>6, <3>7
  <2> QED BY <1>10, <2>2, <2>3, <2>4 DEF Idle
<1> QED BY <1>4, <1>5, <1>6, <1>7, <1>8, <1>9, <1>10 DEF Next

\* gnb_event handlers' memory is in order between any two callbacks.
THEOREM HandlersKeepOrder == Spec => []HandlersInv
<1> QED BY HandlersInit, HandlersStep, PTL DEF Spec

\* After any order of add_event and del_event the array of select and kqueue
\* lists every registered event once, and each event knows its place.
THEOREM ArrayListsTheWatched == Spec => []ArrayMatchesFilters
<1>1. HandlersInv => ArrayMatchesFilters
  <2> SUFFICES ASSUME HandlersInv, HasArray
               PROVE  /\ Len(array) = Cardinality(Registered)
                      /\ \A e \in Registered : index[e] < Len(array) /\ array[index[e] + 1] = e
    BY DEF ArrayMatchesFilters
  <2>1. Placed(Tables) /\ Tables.array = array /\ Tables.index = index /\ Tables.filter = filter
    BY DEF HandlersInv, Good, Tables
  <2> DEFINE n == Len(array)
             f == [i \in 1..n |-> array[i]]
  <2>2. /\ array \in Seq(Event) /\ index \in [Event -> Nat] /\ n \in Nat
        /\ \A i \in 1..n : filter[array[i]] # {} /\ index[array[i]] = i - 1
        /\ \A e \in Event : filter[e] # {} => index[e] < n /\ array[index[e] + 1] = e
    <3>1. /\ Tables.array \in Seq(Event) /\ Tables.index \in [Event -> Nat]
          /\ \A i \in 1..Len(Tables.array) :
               Tables.filter[Tables.array[i]] # {} /\ Tables.index[Tables.array[i]] = i - 1
          /\ \A e \in Event : Tables.filter[e] # {} =>
               /\ Tables.index[e] < Len(Tables.array)
               /\ Tables.array[Tables.index[e] + 1] = e
      BY <2>1 DEF Placed
    <3>2. Len(array) \in Nat /\ array \in Seq(Event) /\ index \in [Event -> Nat]
      BY <2>1, <3>1
    <3>3. \A i \in 1..Len(array) : filter[array[i]] # {} /\ index[array[i]] = i - 1
      BY <2>1, <3>1, Zenon
    <3>4. \A e \in Event : filter[e] # {} => index[e] < Len(array) /\ array[index[e] + 1] = e
      BY <2>1, <3>1, Zenon
    <3> QED BY <3>2, <3>3, <3>4
  <2>3. \A i \in 1..n : array[i] \in Event
    BY <2>2
  <2>4. \A e \in Registered : e \in Event /\ filter[e] # {}
    BY DEF Registered
  <2>5. \A i \in 1..n : array[i] \in Registered
    BY <2>2, <2>3 DEF Registered
  <2>6. f \in [1..n -> Registered] /\ \A i \in 1..n : f[i] = array[i]
    BY <2>5
  <2> HIDE DEF n, f
  <2>7. \A i, j \in 1..n : f[i] = f[j] => i = j
    <3> SUFFICES ASSUME NEW i \in 1..n, NEW j \in 1..n, f[i] = f[j] PROVE i = j
      OBVIOUS
    <3>1. array[i] = array[j]
      BY <2>6
    <3>2. index[array[i]] = i - 1 /\ index[array[j]] = j - 1
      BY <2>2
    <3>3. i - 1 = j - 1
      BY <3>1, <3>2
    <3> QED BY <3>3
  <2>8. \A e \in Registered : \E i \in 1..n : f[i] = e
    <3> SUFFICES ASSUME NEW e \in Registered PROVE \E i \in 1..n : f[i] = e
      OBVIOUS
    <3>1. index[e] \in Nat /\ index[e] < n /\ array[index[e] + 1] = e
      BY <2>2, <2>4
    <3>2. index[e] + 1 \in 1..n
      BY <2>2, <3>1
    <3> QED BY <2>6, <3>1, <3>2
  <2>9. f \in Bijection(1..n, Registered)
    BY <2>6, <2>7, <2>8 DEF Bijection, Injection, Surjection, IsInjective
  <2>10. Cardinality(Registered) = n
    BY <2>2, <2>9, FS_CountingElements DEF ExistsBijection
  <2> QED BY <2>2, <2>4, <2>10 DEF n
<1> QED BY <1>1, HandlersKeepOrder, PTL

\* A poll has finitely many things to report.
LEMMA EventsFinite ==
  /\ IsFiniteSet(Event) /\ IsFiniteSet(Event \X {"READ", "WRITE"})
  /\ IsFiniteSet(Event \X {"READ", "WRITE", "END"}) /\ MaxGet \in Nat
<1>1. 0 \in Int /\ NumEvents - 1 \in Int /\ Event = 0..(NumEvents - 1) /\ MaxGet \in Nat
  BY EventFacts
<1>2. IsFiniteSet(Event)
  BY <1>1, FS_Interval
<1>3. IsFiniteSet({"READ", "WRITE", "END"})
  <2>1. IsFiniteSet({"WRITE"})
    BY FS_Singleton
  <2>2. IsFiniteSet({"WRITE"} \cup {"READ"})
    BY <2>1, FS_AddElement
  <2>3. IsFiniteSet(({"WRITE"} \cup {"READ"}) \cup {"END"})
    BY <2>2, FS_AddElement
  <2>4. ({"WRITE"} \cup {"READ"}) \cup {"END"} = {"READ", "WRITE", "END"}
    OBVIOUS
  <2> QED BY <2>3, <2>4
<1>4. IsFiniteSet(Event \X {"READ", "WRITE", "END"})
  BY <1>2, <1>3, FS_Product
<1>5. Event \X {"READ", "WRITE"} \subseteq Event \X {"READ", "WRITE", "END"}
  OBVIOUS
<1> QED BY <1>1, <1>2, <1>4, <1>5, FS_Subset

-----------------------------------------------------------------------------
(***************************************************************************)
(* What the loop makes of the events: whose they are and which of them are *)
(* marked FINISH.                                                          *)
(***************************************************************************)
\* A connection has one event.
OneEach(s) == \A e, f \in Event : s.owner[e] = s.owner[f] /\ s.owner[e] # NoConn => e = f

\* ev_type is there for every event.
Typed(s) == s.evType = [e \in Event |-> s.evType[e]]

\* c is s with the connections of X closed: their events are marked and belong
\* to nobody, the other events are as they were.
Closed(s, c, X) ==
  \A e \in Event : /\ c.owner[e] = IF s.owner[e] \in X THEN NoConn ELSE s.owner[e]
                   /\ c.evType[e] = IF s.owner[e] \in X THEN {"FINISH"} ELSE s.evType[e]

\* Only a close writes ev_type; add_event and set_event leave udata alone.
LEMMA MarksStay ==
  ASSUME NEW s, IsTables(s), NEW x, NEW e, NEW types
  PROVE  /\ Pop(s, x).evType = s.evType
         /\ Add(s, e, types).evType = s.evType /\ Add(s, e, types).owner = s.owner
         /\ Arm(s, e).evType = s.evType /\ Arm(s, e).owner = s.owner
         /\ Disarm(s, e).evType = s.evType /\ Disarm(s, e).owner = s.owner
         /\ IsTables(Drop(s, e))
         /\ Drop(s, e).evType = s.evType /\ Drop(s, e).owner = s.owner
<1>1. Pop(s, x).evType = s.evType
  BY DEF IsTables, Pop
<1>2. Add(s, e, types).evType = s.evType /\ Add(s, e, types).owner = s.owner
  <2>1. CASE ~HasArray
    BY <2>1 DEF IsTables, Add
  <2>2. CASE HasArray /\ Len(s.array) >= NumEvents
    BY <2>2 DEF Add
  <2>3. CASE HasArray /\ ~(Len(s.array) >= NumEvents)
    <3>1. Add(s, e, types) =
            [s EXCEPT !.array = Append(@, e), !.index[e] = Len(s.array), !.filter[e] = types]
      BY <2>3 DEF Add
    <3> QED BY <3>1 DEF IsTables
  <2> QED BY <2>1, <2>2, <2>3
<1>3. /\ Arm(s, e).evType = s.evType /\ Arm(s, e).owner = s.owner
      /\ Disarm(s, e).evType = s.evType /\ Disarm(s, e).owner = s.owner
  BY DEF IsTables, Arm, Disarm
<1>4. /\ IsTables(Drop(s, e))
      /\ Drop(s, e).evType = s.evType /\ Drop(s, e).owner = s.owner
  <2>1. CASE s.array = <<>> \/ s.index[e] > Len(s.array)
    BY <2>1 DEF Drop
  <2>2. CASE ~(s.array = <<>> \/ s.index[e] > Len(s.array))
    BY <2>2 DEF IsTables, Drop
  <2> QED BY <2>1, <2>2
<1> QED BY <1>1, <1>2, <1>3, <1>4

\* gnb_connection_close marks the connection's event and no other.
LEMMA CloseMarks ==
  ASSUME NEW s, NEW H, Good(s, H), OneEach(s), Typed(s), NEW x \in Owner,
         \E f \in Event : s.owner[f] = x
  PROVE  Closed(s, Close(s, x), {x}) /\ OneEach(Close(s, x)) /\ Typed(Close(s, x))
<1> DEFINE e == CHOOSE f \in Event : s.owner[f] = x
           d == IF HasArray THEN Drop(s, e) ELSE s
           c == Close(s, x)
<1>1. e \in Event /\ s.owner[e] = x
  OBVIOUS
<1>2. c = [d EXCEPT !.evType[e] = {"FINISH"}, !.filter[e] = {}, !.owner[e] = NoConn,
                    !.pool = PoolPush(@, e)]
  BY DEF Close
<1> HIDE DEF e
<1>3. IsTables(s) /\ s.owner \in [Event -> Owner \cup {NoConn}] /\ NoConn \notin Owner
  BY EventFacts DEF Good
<1>4. IsTables(d) /\ d.evType = s.evType /\ d.owner = s.owner
  <2>1. IsTables(s)
    BY <1>3
  <2> QED BY <2>1, MarksStay
<1> HIDE DEF d, c
<1>5. c.owner = [s.owner EXCEPT ![e] = NoConn] /\ c.evType = [s.evType EXCEPT ![e] = {"FINISH"}]
  BY <1>2, <1>4 DEF IsTables
<1>6. \A f \in Event : c.owner[f] = IF f = e THEN NoConn ELSE s.owner[f]
  BY <1>1, <1>3, <1>5
<1>7. /\ \A f \in Event : c.evType[f] = IF f = e THEN {"FINISH"} ELSE s.evType[f]
      /\ c.evType = [f \in Event |-> c.evType[f]]
  <2>1. PICK t : t = s.evType
    OBVIOUS
  <2>2. t = [f \in Event |-> t[f]]
    BY <2>1 DEF Typed
  <2>3. c.evType = [t EXCEPT ![e] = {"FINISH"}]
    BY <1>5, <2>1
  <2>4. /\ \A f \in Event : c.evType[f] = IF f = e THEN {"FINISH"} ELSE t[f]
        /\ c.evType = [f \in Event |-> c.evType[f]]
    BY <1>1, <2>2, <2>3
  <2> QED BY <2>1, <2>4
<1>8. \A f \in Event : s.owner[f] = x <=> f = e
  BY <1>1, <1>3 DEF OneEach
<1>9. Closed(s, c, {x})
  BY <1>6, <1>7, <1>8 DEF Closed
<1>10. OneEach(c)
  BY <1>6 DEF OneEach
<1> QED BY <1>7, <1>9, <1>10 DEF Typed, c

\* A channel's two connections are closed one after the other.
LEMMA CloseAllMarks ==
  ASSUME NEW s, NEW H, Good(s, H), OneEach(s), Typed(s), NEW xs \in Closings,
         \A x \in Live : (\E f \in Event : s.owner[f] = x) /\ (\A h \in H : s.owner[h] # x)
  PROVE  /\ \E X \in SUBSET Live : NoConn \notin X /\ Closed(s, CloseAll(s, xs), X)
         /\ OneEach(CloseAll(s, xs)) /\ Typed(CloseAll(s, xs))
<1>1. xs \in {<<>>} \cup {<<x>> : x \in Conn} \cup (Conn \X Conn)
  BY DEF Closings
<1>2. (\A i \in DOMAIN xs : xs[i] \in Live) /\ \A i, j \in DOMAIN xs : xs[i] = xs[j] => i = j
  BY DEF Closings
<1>3. Conn \subseteq Owner /\ NoConn \notin Owner
  BY EventFacts
<1>4. CASE xs = <<>>
  <2>1. CloseAll(s, xs) = s
    BY <1>4 DEF CloseAll
  <2>2. Closed(s, s, {}) /\ {} \in SUBSET Live /\ NoConn \notin {}
    BY DEF Closed
  <2> QED BY <2>1, <2>2
<1>5. CASE xs \in {<<x>> : x \in Conn}
  <2>1. PICK x \in Conn : xs = <<x>>
    BY <1>5
  <2>2. x \in Live /\ CloseAll(s, xs) = Close(s, x)
    BY <1>2, <2>1 DEF CloseAll
  <2>3. x \in Owner /\ {x} \in SUBSET Live /\ NoConn \notin {x}
    BY <1>3, <2>2
  <2>4. Closed(s, Close(s, x), {x}) /\ OneEach(Close(s, x)) /\ Typed(Close(s, x))
    BY <2>2, <2>3, CloseMarks
  <2> QED BY <2>2, <2>3, <2>4
<1>6. CASE xs \in Conn \X Conn
  <2>1. PICK x \in Conn, y \in Conn : xs = <<x, y>>
    BY <1>6
  <2>2. x \in Live /\ y \in Live /\ x # y /\ CloseAll(s, xs) = Close(Close(s, x), y)
    BY <1>2, <2>1 DEF CloseAll
  <2>3. x \in Owner /\ y \in Owner /\ y # NoConn /\ {x, y} \in SUBSET Live /\ NoConn \notin {x, y}
    BY <1>3, <2>2
  <2> DEFINE c == Close(s, x)
  <2>4. Good(c, H) /\ Closed(s, c, {x}) /\ OneEach(c) /\ Typed(c)
    BY <2>2, <2>3, CloseGood, CloseMarks
  <2> HIDE DEF c
  <2>5. \E f \in Event : c.owner[f] = y
    <3>1. PICK f \in Event : s.owner[f] = y
      BY <2>2
    <3>2. c.owner[f] = y
      BY <2>2, <2>4, <3>1 DEF Closed
    <3> QED BY <3>2
  <2> DEFINE d == Close(c, y)
  <2>6. Closed(c, d, {y}) /\ OneEach(d) /\ Typed(d)
    BY <2>3, <2>4, <2>5, CloseMarks
  <2> HIDE DEF d
  <2>7. Closed(s, d, {x, y})
    BY <2>3, <2>4, <2>6 DEF Closed
  <2> QED BY <2>2, <2>3, <2>6, <2>7 DEF c, d
<1> QED BY <1>1, <1>4, <1>5, <1>6

-----------------------------------------------------------------------------
(***************************************************************************)
(* The refinement of Readiness.  What is kept: an event of the batch that  *)
(* is not marked is watched, so that a mark is all the loop needs to tell  *)
(* the closed ones; and a poll finds the last batch gone through.          *)
(***************************************************************************)
ReadyInv ==
  /\ HandlersInv /\ OneEach(Tables) /\ Typed(Tables)
  /\ batch \in Seq(Event)
  /\ \A i \in DOMAIN batch : evType[batch[i]] # {"FINISH"} => filter[batch[i]] # {}
  /\ phase = "poll" => batch = <<>>

\* Tables, with the connections of X closed and perhaps some opened.
Turned(r, X) ==
  /\ Good(r, {}) /\ OneEach(r) /\ Typed(r) /\ NoConn \notin X
  /\ \A e \in Event :
       /\ owner[e] \in X => r.evType[e] = {"FINISH"}
       /\ owner[e] \notin X => r.evType[e] = evType[e]
       /\ owner[e] \notin X \cup {NoConn} => r.owner[e] = owner[e]
       /\ r.owner[e] \notin X

\* The invariant in the form the provers use.
LEMMA ReadyFacts ==
  ASSUME ReadyInv
  PROVE  /\ Good(Tables, {}) /\ OneEach(Tables) /\ Typed(Tables) /\ IsTables(Tables)
         /\ Tables.pool = pool /\ Tables.owner = owner /\ Tables.filter = filter
         /\ Tables.evType = evType
         /\ owner \in [Event -> Owner \cup {NoConn}]
         /\ filter \in [Event -> SUBSET {"READ", "WRITE"}]
         /\ \A e \in Event : /\ owner[e] = NoConn <=> filter[e] = {}
                             /\ owner[e] # NoConn => owner[e] \in Live
                             /\ filter[e] # {} => "READ" \in filter[e]
         /\ \A e, f \in Event : owner[e] = owner[f] /\ owner[e] # NoConn => e = f
         /\ evType = [e \in Event |-> evType[e]]
<1>1. /\ Tables.pool = pool /\ Tables.owner = owner /\ Tables.filter = filter
      /\ Tables.evType = evType
  BY DEF Tables
<1>2. Good(Tables, {}) /\ OneEach(Tables) /\ Typed(Tables)
  BY DEF ReadyInv, HandlersInv
<1>3. /\ IsTables(Tables)
      /\ owner \in [Event -> Owner \cup {NoConn}]
      /\ filter \in [Event -> SUBSET {"READ", "WRITE"}]
      /\ \A e \in Event : /\ owner[e] = NoConn <=> filter[e] = {}
                          /\ filter[e] # {} => "READ" \in filter[e]
  BY <1>1, <1>2 DEF Good
<1>4. \A e \in Event : owner[e] # NoConn => owner[e] \in Live
  BY <1>3 DEF Live, Registered
<1>5. \A e, f \in Event : owner[e] = owner[f] /\ owner[e] # NoConn => e = f
  BY <1>1, <1>2 DEF OneEach
<1>6. evType = [e \in Event |-> evType[e]]
  BY <1>1, <1>2 DEF Typed
<1> QED BY <1>1, <1>2, <1>3, <1>4, <1>5, <1>6

\* A pop for a connection that has no event.
LEMMA PopOne ==
  ASSUME NEW s, NEW H, Good(s, H), OneEach(s), Typed(s), s.pool.num > 0, NEW x \in Owner,
         \A f \in Event : s.owner[f] # x
  PROVE  /\ OneEach(Pop(s, x)) /\ Typed(Pop(s, x)) /\ Pop(s, x).evType = s.evType
         /\ \A f \in Event :
              Pop(s, x).owner[f] = IF f = PoolTop(s.pool) THEN x ELSE s.owner[f]
         /\ s.owner[PoolTop(s.pool)] = NoConn
<1> DEFINE t == PoolTop(s.pool)
           r == Pop(s, x)
<1>1. t \in Event \cap PoolFree(s.pool) /\ r.owner = [s.owner EXCEPT ![t] = x]
  BY PopGood
<1>2. s.owner \in [Event -> Owner \cup {NoConn}] /\ s.owner[t] = NoConn /\ IsTables(s)
  BY <1>1 DEF Good
<1>3. r.evType = s.evType
  BY <1>2, MarksStay
<1> HIDE DEF t, r
<1>4. \A f \in Event : r.owner[f] = IF f = t THEN x ELSE s.owner[f]
  BY <1>1, <1>2
<1>5. OneEach(r)
  BY <1>4 DEF OneEach
<1>6. Typed(r)
  BY <1>3 DEF Typed
<1> QED BY <1>2, <1>3, <1>4, <1>5, <1>6 DEF t, r

\* Tables as they are, but for what is watched.
LEMMA SameTurns ==
  ASSUME ReadyInv, NEW r, Good(r, {}), r.owner = owner, r.evType = evType
  PROVE  Turned(r, {}) /\ OneEach(r) /\ Typed(r)
BY ReadyFacts DEF Turned, OneEach, Typed

\* Connections are closed.
LEMMA CloseTurns ==
  ASSUME ReadyInv, NEW s, Good(s, {}), s.owner = owner, s.evType = evType, NEW xs \in Closings
  PROVE  \E X : Turned(CloseAll(s, xs), X)
<1>1. \A x \in Live : (\E f \in Event : s.owner[f] = x) /\ (\A h \in {} : s.owner[h] # x)
  BY LiveFacts DEF ReadyInv
<1>2. OneEach(s) /\ Typed(s)
  BY SameTurns
<1> DEFINE c == CloseAll(s, xs)
<1>3. Good(c, {})
  BY <1>1, CloseAllGood
<1>4. /\ \E X \in SUBSET Live : NoConn \notin X /\ Closed(s, c, X)
      /\ OneEach(c) /\ Typed(c)
  BY <1>1, <1>2, CloseAllMarks
<1> HIDE DEF c
<1>5. PICK X \in SUBSET Live : NoConn \notin X /\ Closed(s, c, X)
  BY <1>4
<1>6. Turned(c, X)
  BY <1>3, <1>4, <1>5 DEF Turned, Closed
<1> QED BY <1>6 DEF c

\* gnb_service_tcp_accept with what accept_cb closes in between.
LEMMA AcceptTurns ==
  ASSUME ReadyInv, pool.num >= 2,
         NEW x \in Conn \ Live, NEW udp \in Conn \ Live, x # udp, NEW xs \in Closings
  PROVE  LET s1 == Pop(Tables, x)
             s2 == Add(Pop(s1, udp), PoolTop(s1.pool), {"READ"})
         IN \E X : Turned(Add(CloseAll(s2, xs), PoolTop(pool), {"READ"}), X)
<1> DEFINE s0 == Tables
           s1 == Pop(s0, x)
           t1 == PoolTop(s0.pool)
           t2 == PoolTop(s1.pool)
           r == Pop(s1, udp)
           s2 == Add(r, t2, {"READ"})
           c == CloseAll(s2, xs)
           d == Add(c, t1, {"READ"})
<1>1. /\ Good(s0, {}) /\ OneEach(s0) /\ Typed(s0) /\ s0.pool = pool /\ s0.owner = owner
      /\ s0.evType = evType
      /\ owner \in [Event -> Owner \cup {NoConn}]
      /\ \A e \in Event : owner[e] # NoConn => owner[e] \in Live
  BY ReadyFacts
<1>2. /\ x \in Owner /\ udp \in Owner /\ NoConn \notin Owner /\ x \notin Live /\ udp \notin Live
      /\ {"READ"} \in SUBSET {"READ", "WRITE"} /\ "READ" \in {"READ"}
  BY EventFacts
<1>3. pool.num \in Nat
  BY <1>1, EventFacts DEF Good, PoolOK
<1>4. Good(d, {})
  <2>1. HandlersInv
    BY DEF ReadyInv
  <2>2. Good(Add(c, PoolTop(pool), {"READ"}), {})
    BY <2>1, AcceptGood
  <2> QED BY <1>1, <2>2
<1> HIDE DEF s0
<1>5. \A f \in Event : s0.owner[f] # x /\ s0.owner[f] # udp
  BY <1>1, <1>2
<1>6. /\ Good(s1, {t1}) /\ OneEach(s1) /\ Typed(s1) /\ s1.evType = evType
      /\ s1.pool.num = pool.num - 1 /\ owner[t1] = NoConn /\ t1 \in Event
      /\ \A f \in Event : s1.owner[f] = IF f = t1 THEN x ELSE owner[f]
  <2>1. s0.pool.num > 0
    BY <1>1, <1>3
  <2>2. Good(s1, {} \cup {t1}) /\ s1.pool.num = s0.pool.num - 1 /\ t1 \in Event
    BY <1>1, <1>2, <2>1, PopGood
  <2>3. /\ OneEach(s1) /\ Typed(s1) /\ s1.evType = s0.evType /\ s0.owner[t1] = NoConn
        /\ \A f \in Event : s1.owner[f] = IF f = t1 THEN x ELSE s0.owner[f]
    BY <1>1, <1>2, <1>5, <2>1, PopOne
  <2>4. {} \cup {t1} = {t1}
    OBVIOUS
  <2> QED BY <1>1, <2>2, <2>3, <2>4
<1> HIDE DEF s1, t1
<1>7. /\ Good(r, {t1} \cup {t2}) /\ OneEach(r) /\ Typed(r) /\ r.evType = evType
      /\ s1.owner[t2] = NoConn /\ t2 \in Event \cap PoolFree(s1.pool)
      /\ \A f \in Event : r.owner[f] = IF f = t2 THEN udp ELSE s1.owner[f]
  <2>1. s1.pool.num > 0
    BY <1>3, <1>6
  <2>2. \A f \in Event : s1.owner[f] # udp
    BY <1>1, <1>5, <1>6
  <2>3. Good(r, {t1} \cup {t2}) /\ t2 \in Event \cap PoolFree(s1.pool)
    BY <1>2, <1>6, <2>1, PopGood
  <2>4. /\ OneEach(r) /\ Typed(r) /\ r.evType = s1.evType /\ s1.owner[t2] = NoConn
        /\ \A f \in Event : r.owner[f] = IF f = t2 THEN udp ELSE s1.owner[f]
    BY <1>2, <1>6, <2>1, <2>2, PopOne
  <2> QED BY <1>6, <2>3, <2>4
<1>8. t1 # t2
  BY <1>6, <1>7 DEF Good
<1> HIDE DEF r, t2
<1>9. /\ Good(s2, {t1}) /\ OneEach(s2) /\ Typed(s2) /\ s2.evType = evType
      /\ \A f \in Event : s2.owner[f] = IF f = t1 THEN x ELSE IF f = t2 THEN udp ELSE owner[f]
  <2>1. t2 \in {t1} \cup {t2} /\ ({t1} \cup {t2}) \ {t2} = {t1}
    BY <1>8
  <2>2. Good(s2, ({t1} \cup {t2}) \ {t2}) /\ s2.owner = r.owner
    BY <1>2, <1>7, <2>1, AddGood
  <2>3. IsTables(r)
    BY <1>7 DEF Good
  <2>4. s2.evType = r.evType
    BY <2>3, MarksStay
  <2> HIDE DEF s2
  <2>5. OneEach(s2) /\ Typed(s2)
    BY <1>7, <2>2, <2>4 DEF OneEach, Typed
  <2>6. \A f \in Event : s2.owner[f] = IF f = t1 THEN x ELSE IF f = t2 THEN udp ELSE owner[f]
    BY <1>6, <1>7, <1>8, <2>2
  <2> QED BY <1>7, <2>1, <2>2, <2>4, <2>5, <2>6
<1> HIDE DEF s2
<1>10. owner[t2] = NoConn
  BY <1>6, <1>7, <1>8
<1>11. ASSUME NEW y \in Live
       PROVE  (\E f \in Event : s2.owner[f] = y) /\ \A h \in {t1} : s2.owner[h] # y
  <2>1. y \in Owner /\ y # x /\ y # udp /\ y # NoConn
    BY <1>2, LiveFacts DEF ReadyInv
  <2>2. PICK f \in Event : owner[f] = y
    BY LiveFacts DEF ReadyInv
  <2>3. f # t1 /\ f # t2 /\ s2.owner[f] = y
    BY <1>6, <1>9, <1>10, <2>1, <2>2
  <2> QED BY <1>6, <1>9, <2>1, <2>3
<1>12. Good(c, {t1}) /\ OneEach(c) /\ Typed(c)
       /\ \E X \in SUBSET Live : NoConn \notin X /\ Closed(s2, c, X)
  BY <1>9, <1>11, CloseAllGood, CloseAllMarks
<1> HIDE DEF c
<1>13. PICK X \in SUBSET Live : NoConn \notin X /\ Closed(s2, c, X)
  BY <1>12
<1>14. d.owner = c.owner /\ d.evType = c.evType
  <2>1. IsTables(c)
    BY <1>12 DEF Good
  <2> QED BY <2>1, MarksStay
<1> HIDE DEF d
<1>15. OneEach(d) /\ Typed(d)
  BY <1>12, <1>14 DEF OneEach, Typed
<1>16. ASSUME NEW e \in Event
       PROVE  /\ owner[e] \in X => d.evType[e] = {"FINISH"}
              /\ owner[e] \notin X => d.evType[e] = evType[e]
              /\ owner[e] \notin X \cup {NoConn} => d.owner[e] = owner[e]
              /\ d.owner[e] \notin X
  <2>1. /\ c.owner[e] = IF s2.owner[e] \in X THEN NoConn ELSE s2.owner[e]
        /\ c.evType[e] = IF s2.owner[e] \in X THEN {"FINISH"} ELSE evType[e]
    BY <1>9, <1>13 DEF Closed
  <2>2. x \notin X /\ udp \notin X
    BY <1>2
  <2>3. s2.owner[e] \in X <=> owner[e] \in X
    BY <1>6, <1>9, <1>10, <1>13, <2>2
  <2>4. owner[e] # NoConn => s2.owner[e] = owner[e]
    BY <1>6, <1>9, <1>10
  <2> QED BY <1>13, <1>14, <2>1, <2>3, <2>4
<1>17. Turned(d, X)
  BY <1>4, <1>13, <1>15, <1>16 DEF Turned
<1>18. t1 = PoolTop(pool)
  BY <1>1 DEF t1
<1>19. \E Y : Turned(Add(c, PoolTop(pool), {"READ"}), Y)
  BY <1>17, <1>18 DEF d
<1> QED BY <1>19 DEF c, s2, r, t2, s1, s0

\* A link is opened by idle_cb.
LEMMA OpenTurns ==
  ASSUME ReadyInv, pool.num > 0, NEW x \in Conn \ Live
  PROVE  Turned(Add(Pop(Tables, x), PoolTop(pool), {"READ", "WRITE"}), {})
<1> DEFINE s == Tables
           t == PoolTop(s.pool)
           p == Pop(s, x)
           r == Add(p, t, {"READ", "WRITE"})
<1>1. /\ Good(s, {}) /\ OneEach(s) /\ Typed(s) /\ s.pool = pool /\ s.owner = owner
      /\ s.evType = evType
      /\ \A e \in Event : owner[e] # NoConn => owner[e] \in Live
  BY ReadyFacts
<1>2. x \in Owner /\ NoConn \notin Owner /\ x \notin Live
  BY EventFacts
<1> HIDE DEF s
<1>3. \A f \in Event : s.owner[f] # x
  BY <1>1, <1>2
<1>4. Good(p, {} \cup {t})
  BY <1>1, <1>2, PopGood
<1>5. /\ OneEach(p) /\ Typed(p) /\ p.evType = evType /\ owner[t] = NoConn
      /\ \A f \in Event : p.owner[f] = IF f = t THEN x ELSE owner[f]
  BY <1>1, <1>2, <1>3, PopOne
<1> HIDE DEF p, t
<1>6. t \in {} \cup {t} /\ ({} \cup {t}) \ {t} = {}
      /\ {"READ", "WRITE"} \in SUBSET {"READ", "WRITE"} /\ "READ" \in {"READ", "WRITE"}
  OBVIOUS
<1>7. Good(r, ({} \cup {t}) \ {t}) /\ r.owner = p.owner
  BY <1>4, <1>6, AddGood
<1>8. r.evType = p.evType
  <2>1. IsTables(p)
    BY <1>4 DEF Good
  <2> QED BY <2>1, MarksStay
<1> HIDE DEF r
<1>9. Good(r, {})
  BY <1>6, <1>7
<1>10. Turned(r, {})
  BY <1>5, <1>7, <1>8, <1>9 DEF Turned, OneEach, Typed
<1> QED BY <1>1, <1>10 DEF r, p, t, s

\* What is watched for the connection of an event is what the event says.
LEMMA WatchedBy ==
  ASSUME NEW ow, NEW fi, NEW x,
         \A e, f \in Event : ow[e] = x /\ ow[f] = x => e = f
  PROVE  LET w == UNION {fi[e] : e \in {f \in Event : ow[f] = x}}
         IN /\ \A e \in Event : ow[e] = x => w = fi[e]
            /\ (\A e \in Event : ow[e] # x) => w = {}
            /\ w # {} => \E e \in Event : ow[e] = x /\ w = fi[e]
<1> DEFINE w == UNION {fi[e] : e \in {f \in Event : ow[f] = x}}
<1>1. ASSUME NEW e \in Event, ow[e] = x PROVE w = fi[e]
  <2>1. {f \in Event : ow[f] = x} = {e}
    BY <1>1
  <2> QED BY <2>1
<1>2. ASSUME \A e \in Event : ow[e] # x PROVE w = {}
  <2>1. {f \in Event : ow[f] = x} = {}
    BY <1>2
  <2> QED BY <2>1
<1> QED BY <1>1, <1>2

\* What Readiness sees of the connections.
Watching == [x \in Owner |-> Watched(x)]
WatchingOK ==
  \A x \in Owner :
    /\ \A e \in Event : owner[e] = x => Watching[x] = filter[e]
    /\ (\A e \in Event : owner[e] # x) => Watching[x] = {}
    /\ Watching[x] # {} => "READ" \in Watching[x]
\* A connection is watched as its one event is, and for reading if at all.
LEMMA WatchedFacts == ReadyInv => WatchingOK
<1> SUFFICES ASSUME ReadyInv, NEW x \in Owner
             PROVE  /\ \A e \in Event : owner[e] = x => Watched(x) = filter[e]
                    /\ (\A e \in Event : owner[e] # x) => Watched(x) = {}
                    /\ Watched(x) # {} => "READ" \in Watched(x)
  BY DEF WatchingOK, Watching
<1>1. /\ \A e, f \in Event : owner[e] = owner[f] /\ owner[e] # NoConn => e = f
      /\ \A e \in Event : filter[e] # {} => "READ" \in filter[e]
  BY ReadyFacts
<1>2. \A e, f \in Event : owner[e] = x /\ owner[f] = x => e = f
  BY <1>1, EventFacts
<1>3. /\ \A e \in Event : owner[e] = x => Watched(x) = filter[e]
      /\ (\A e \in Event : owner[e] # x) => Watched(x) = {}
      /\ Watched(x) # {} => \E e \in Event : owner[e] = x /\ Watched(x) = filter[e]
  BY <1>2, WatchedBy DEF Watched
<1> QED BY <1>1, <1>3

\* And after the step.
LEMMA WatchedFactsAfter == ReadyInv' => WatchingOK'
BY WatchedFacts, PTL

\* What Readiness sees of the batch.
WaitingOK ==
  /\ Waiting \in Seq(Owner \cup {NoConn}) /\ Len(Waiting) = Len(batch)
  /\ \A i \in 1..Len(batch) :
       /\ batch[i] \in Event
       /\ Waiting[i] = IF evType[batch[i]] = {"FINISH"} THEN NoConn ELSE owner[batch[i]]
       /\ evType[batch[i]] # {"FINISH"} =>
            /\ Waiting[i] \in Owner /\ Watching[Waiting[i]] = filter[batch[i]]
            /\ filter[batch[i]] # {}
\* What the loop goes through: blanks, and connections that are watched.
LEMMA WaitingFacts == ReadyInv => WaitingOK
<1> SUFFICES ASSUME ReadyInv PROVE WaitingOK
  OBVIOUS
<1>1. /\ batch \in Seq(Event) /\ Len(batch) \in Nat /\ DOMAIN batch = 1..Len(batch)
      /\ \A i \in 1..Len(batch) : batch[i] \in Event
  BY DEF ReadyInv
<1>2. /\ owner \in [Event -> Owner \cup {NoConn}]
      /\ \A e \in Event : owner[e] = NoConn <=> filter[e] = {}
  BY ReadyFacts
<1>3. \A i \in 1..Len(batch) : evType[batch[i]] # {"FINISH"} => filter[batch[i]] # {}
  BY <1>1 DEF ReadyInv
<1> DEFINE n == Len(batch)
           W(i) == IF evType[batch[i]] = {"FINISH"} THEN NoConn ELSE owner[batch[i]]
<1>4. \A i \in 1..n : W(i) \in Owner \cup {NoConn}
  BY <1>1, <1>2
<1>5. Waiting = [i \in 1..n |-> W(i)]
  BY <1>1 DEF Waiting
<1> HIDE DEF n, W
<1>6. /\ Waiting \in Seq(Owner \cup {NoConn}) /\ Len(Waiting) = n
      /\ \A i \in 1..n : Waiting[i] = W(i)
  <2>1. n \in Nat
    BY <1>1 DEF n
  <2>2. Waiting \in [1..n -> Owner \cup {NoConn}]
    BY <1>4, <1>5
  <2> QED BY <1>5, <2>1, <2>2
<1>7. ASSUME NEW i \in 1..n, evType[batch[i]] # {"FINISH"}
      PROVE  Waiting[i] \in Owner /\ Watching[Waiting[i]] = filter[batch[i]] /\ filter[batch[i]] # {}
  <2>1. Waiting[i] = owner[batch[i]] /\ batch[i] \in Event /\ filter[batch[i]] # {}
    BY <1>1, <1>3, <1>6, <1>7 DEF n, W
  <2>2. owner[batch[i]] \in Owner
    BY <1>2, <2>1
  <2>3. Watching[owner[batch[i]]] = filter[batch[i]]
    BY <2>1, <2>2, WatchedFacts DEF WatchingOK
  <2> QED BY <2>1, <2>2, <2>3
<1> QED BY <1>1, <1>6, <1>7 DEF n, W, WaitingOK

\* And after the step.
LEMMA WaitingFactsAfter == ReadyInv' => WaitingOK'
BY WaitingFacts, PTL

\* The closed connections of b turn blank, and no others.
TurnsBlank(b) ==
  \A i \in DOMAIN b : \A w :
    w = (IF evType[b[i]] = {"FINISH"} THEN NoConn ELSE owner[b[i]]) =>
      (IF evType'[b[i]] = {"FINISH"} THEN NoConn ELSE owner'[b[i]]) =
        IF w # NoConn /\ Watching'[w] # {} THEN w ELSE NoConn

\* A callback leaves the batch in order, and Readiness sees its closed
\* connections turn blank.
LEMMA TurnKeeps ==
  ASSUME ReadyInv, NEW r, NEW X, Turned(r, X), NEW b \in Seq(Event),
         \A i \in DOMAIN b : \E j \in DOMAIN batch : batch[j] = b[i],
         Become(r, b), handler' = handler, phase' = "poll" => b = <<>>
  PROVE  /\ ReadyInv'
         /\ TurnsBlank(b)
<1>1. /\ owner \in [Event -> Owner \cup {NoConn}]
      /\ \A e \in Event : owner[e] = NoConn <=> filter[e] = {}
  BY ReadyFacts
<1>2. /\ Good(r, {}) /\ OneEach(r) /\ NoConn \notin X
      /\ \A e \in Event :
           /\ owner[e] \in X => r.evType[e] = {"FINISH"}
           /\ owner[e] \notin X => r.evType[e] = evType[e]
           /\ owner[e] \notin X \cup {NoConn} => r.owner[e] = owner[e]
           /\ r.owner[e] \notin X
  BY DEF Turned
<1>3. \A e \in Event : r.owner[e] = NoConn <=> r.filter[e] = {}
  BY <1>2 DEF Good
<1>4. /\ pool' = r.pool /\ owner' = r.owner /\ filter' = r.filter
      /\ array' = r.array /\ index' = r.index /\ batch' = b
      /\ evType' = [e \in Event |-> IF \E i \in DOMAIN b : b[i] = e THEN r.evType[e] ELSE {}]
  BY DEF Become, InBatch
<1>5. \A i \in DOMAIN b : b[i] \in Event /\ evType'[b[i]] = r.evType[b[i]]
  <2>1. \A i \in DOMAIN b : b[i] \in Event
    OBVIOUS
  <2> QED BY <1>4, <2>1
<1>6. \A i \in DOMAIN b : evType[b[i]] # {"FINISH"} => filter[b[i]] # {}
  BY DEF ReadyInv
<1>7. \A i \in DOMAIN b : evType'[b[i]] # {"FINISH"} =>
        /\ evType[b[i]] # {"FINISH"} /\ owner[b[i]] \notin X /\ owner[b[i]] # NoConn
        /\ owner'[b[i]] = owner[b[i]] /\ filter'[b[i]] # {}
  BY <1>1, <1>2, <1>3, <1>4, <1>5, <1>6
<1>8. ReadyInv'
  <2>1. HandlersInv'
    BY <1>2, <1>4, Keeps
  <2>2. OneEach(Tables)' /\ Typed(Tables)'
    <3>1. \A e, f \in Event : owner'[e] = owner'[f] /\ owner'[e] # NoConn => e = f
      BY <1>2, <1>4 DEF OneEach
    <3>2. evType' = [e \in Event |-> evType'[e]]
      BY <1>4
    <3>3. Tables'.owner = owner' /\ Tables'.evType = evType'
      BY DEF Tables
    <3> QED BY <3>1, <3>2, <3>3 DEF OneEach, Typed
  <2>3. \A i \in DOMAIN batch' : evType'[batch'[i]] # {"FINISH"} => filter'[batch'[i]] # {}
    BY <1>4, <1>7
  <2>4. batch' \in Seq(Event) /\ (phase' = "poll" => batch' = <<>>)
    BY <1>4
  <2> QED BY <2>1, <2>2, <2>3, <2>4 DEF ReadyInv
<1>9. ASSUME NEW i \in DOMAIN b, NEW w,
             w = IF evType[b[i]] = {"FINISH"} THEN NoConn ELSE owner[b[i]]
      PROVE  (IF evType'[b[i]] = {"FINISH"} THEN NoConn ELSE owner'[b[i]]) =
                IF w # NoConn /\ Watching'[w] # {} THEN w ELSE NoConn
  <2> DEFINE e == b[i]
  <2>0. w = IF evType[e] = {"FINISH"} THEN NoConn ELSE owner[e]
    BY <1>9
  <2>1. e \in Event /\ evType'[e] = r.evType[e]
    BY <1>5
  <2>2. evType[e] # {"FINISH"} => filter[e] # {}
    BY <1>6
  <2>3. evType'[e] # {"FINISH"} =>
          /\ evType[e] # {"FINISH"} /\ owner[e] \notin X /\ owner[e] # NoConn
          /\ owner'[e] = owner[e] /\ filter'[e] # {}
    BY <1>7
  <2> HIDE DEF e
  <2>4. CASE evType[e] = {"FINISH"}
    <3>1. evType'[e] = {"FINISH"}
      BY <2>3, <2>4
    <3> QED BY <2>0, <2>4, <3>1 DEF e
  <2>5. CASE evType[e] # {"FINISH"} /\ evType'[e] = {"FINISH"}
    <3>1. owner[e] \in Owner /\ owner[e] \in X
      BY <1>1, <1>2, <2>1, <2>2, <2>5
    <3>2. \A f \in Event : owner'[f] # owner[e]
      BY <1>2, <1>4, <3>1
    <3>3. PICK x \in Owner : x = owner[e]
      BY <3>1
    <3>4. Watching'[x] = {}
      BY <1>8, <3>2, <3>3, WatchedFactsAfter DEF WatchingOK
    <3> QED BY <2>0, <2>5, <3>3, <3>4 DEF e
  <2>6. CASE evType[e] # {"FINISH"} /\ evType'[e] # {"FINISH"}
    <3>1. owner'[e] = owner[e] /\ filter'[e] # {} /\ owner[e] \in Owner /\ owner[e] # NoConn
      BY <1>1, <2>1, <2>3, <2>6
    <3>2. PICK x \in Owner : x = owner[e]
      BY <3>1
    <3>3. Watching'[x] = filter'[e]
      BY <1>8, <2>1, <3>1, <3>2, WatchedFactsAfter DEF WatchingOK
    <3> QED BY <2>0, <2>6, <3>1, <3>2, <3>3 DEF e
  <2> QED BY <2>4, <2>5, <2>6
<1> QED BY <1>8, <1>9 DEF TurnsBlank

\* The start of the loop.
LEMMA ReadyInit == Init => ReadyInv
<1> SUFFICES ASSUME Init PROVE ReadyInv
  OBVIOUS
<1>1. HandlersInv
  BY HandlersInit
<1>2. /\ owner = [e \in Event |-> IF e = NumEvents - 1 THEN Listener ELSE NoConn]
      /\ evType = [e \in Event |-> {}] /\ batch = <<>>
  BY DEF Init
<1>3. OneEach(Tables) /\ Typed(Tables)
  <2>1. Tables.owner = owner /\ Tables.evType = evType
    BY DEF Tables
  <2> QED BY <1>2, <2>1 DEF OneEach, Typed
<1> QED BY <1>1, <1>2, <1>3 DEF ReadyInv

\* get_event hands over events that are watched, none of them marked.
LEMMA HandReports ==
  ASSUME ReadyInv, Poll, NEW s \in Seq(Event), NEW types, Hand(s, types),
         \A i \in DOMAIN s : filter[s[i]] # {} /\ types[s[i]] # {"FINISH"}
  PROVE  ReadyInv' /\ (R!Report \/ UNCHANGED <<Watching, Waiting>>)
<1>1. /\ HandlersInv' /\ batch = <<>>
      /\ UNCHANGED <<handler, pool, owner, filter, array, index>> /\ phase' = "dispatch"
  <2>1. HandlersInv'
    BY HandlersStep DEF ReadyInv, Next
  <2> QED BY <2>1 DEF Poll, ReadyInv
<1>2. Watching' = Watching
  BY <1>1 DEF Watching, Watched
<1>3. CASE Len(s) > MaxGet
  <2>1. batch' = batch /\ evType' = evType
    BY <1>3 DEF Hand
  <2>2. Waiting' = Waiting
    BY <1>1, <2>1 DEF Waiting
  <2>3. ReadyInv'
    <3>1. Tables' = Tables
      BY <1>1, <2>1 DEF Tables
    <3> QED BY <1>1, <2>1, <3>1 DEF ReadyInv, OneEach, Typed
  <2> QED BY <1>2, <2>2, <2>3
<1>4. CASE ~(Len(s) > MaxGet)
  <2>1. /\ batch' = s
        /\ evType' = [e \in Event |-> IF \E i \in DOMAIN s : s[i] = e THEN types[e] ELSE {}]
    BY <1>4 DEF Hand, InBatch
  <2>2. \A i \in DOMAIN s : evType'[s[i]] # {"FINISH"} /\ filter'[s[i]] # {}
    <3>1. \A i \in DOMAIN s : s[i] \in Event
      OBVIOUS
    <3> QED BY <1>1, <2>1, <3>1
  <2>3. ReadyInv'
    <3>1. OneEach(Tables)'
      <4>1. OneEach(Tables) /\ Tables.owner = owner /\ Tables'.owner = owner'
        BY DEF ReadyInv, Tables
      <4> QED BY <1>1, <4>1 DEF OneEach
    <3>2. Typed(Tables)'
      <4>1. Tables'.evType = evType' /\ evType' = [e \in Event |-> evType'[e]]
        BY <2>1 DEF Tables
      <4> QED BY <4>1 DEF Typed
    <3> QED BY <1>1, <2>1, <2>2, <3>1, <3>2 DEF ReadyInv
  <2>4. WaitingOK /\ WaitingOK' /\ Len(s) \in Nat /\ MaxGet \in Nat /\ DOMAIN s = 1..Len(s)
    BY <2>3, WaitingFacts, WaitingFactsAfter, EventFacts
  <2>5. Waiting \in Seq(Owner \cup {NoConn}) /\ Len(Waiting) = 0
    BY <1>1, <2>4 DEF WaitingOK
  <2>6. Waiting = <<>>
    BY <2>5
  <2>7. /\ Waiting' \in Seq(Owner \cup {NoConn}) /\ Len(Waiting') = Len(s)
        /\ \A i \in 1..Len(s) : /\ Waiting'[i] \in Owner
                                /\ Watching'[Waiting'[i]] # {}
    <3>1. Waiting' \in Seq(Owner \cup {NoConn}) /\ Len(Waiting') = Len(s)
      BY <2>1, <2>4 DEF WaitingOK
    <3>2. \A i \in 1..Len(s) : evType'[s[i]] # {"FINISH"} =>
            /\ Waiting'[i] \in Owner /\ Watching'[Waiting'[i]] = filter'[s[i]]
            /\ filter'[s[i]] # {}
      BY <2>1, <2>4 DEF WaitingOK
    <3>3. \A i \in 1..Len(s) : evType'[s[i]] # {"FINISH"}
      BY <2>2, <2>4
    <3> QED BY <3>1, <3>2, <3>3
  <2>8. CASE s = <<>>
    <3>1. Waiting' = <<>>
      BY <2>7, <2>8
    <3> QED BY <1>2, <2>3, <2>6, <3>1
  <2>9. CASE s # <<>>
    <3>1. Waiting' # <<>> /\ Len(Waiting') <= MaxGet /\ DOMAIN Waiting' = 1..Len(s)
      BY <1>4, <2>4, <2>7, <2>9
    <3>2. \A i \in DOMAIN Waiting' : Waiting'[i] \in Owner /\ Watching[Waiting'[i]] # {}
      BY <1>2, <2>7, <3>1
    <3>3. R!Report
      BY <1>2, <2>6, <3>1, <3>2 DEF R!Report, Watching
    <3> QED BY <2>3, <3>3
  <2> QED BY <2>8, <2>9
<1> QED BY <1>3, <1>4

\* A function on the first n numbers is a sequence.
LEMMA MakeSeq ==
  ASSUME NEW n \in Nat, NEW T, NEW f \in [1..n -> T]
  PROVE  f \in Seq(T) /\ Len(f) = n /\ DOMAIN f = 1..n
OBVIOUS

\* What Picks chooses is a sequence.
LEMMA PicksType ==
  ASSUME NEW S, IsFiniteSet(S), NEW n \in Nat, NEW s \in Picks(S, n)
  PROVE  s \in Seq(S) /\ DOMAIN s = 1..Len(s) /\ \A i \in DOMAIN s : s[i] \in S
<1>1. Cardinality(S) \in Nat
  BY FS_CardinalityType
<1>2. Least(Cardinality(S), n) \in Nat /\ s \in [1..Least(Cardinality(S), n) -> S]
  BY <1>1 DEF Picks, Least
<1> QED BY <1>2, MakeSeq

\* A poll, with any of the three handlers.
LEMMA PollReports ==
  ASSUME ReadyInv, Poll
  PROVE  ReadyInv' /\ (R!Report \/ UNCHANGED <<Watching, Waiting>>)
<1>1. PICK ready \in SUBSET Reportable :
        EpollGet(ready) \/ SelectGet(ready) \/ KqueueGet(ready)
  BY DEF Poll
<1>2. /\ filter \in [Event -> SUBSET {"READ", "WRITE"}]
      /\ \A e \in Event : owner[e] = NoConn <=> filter[e] = {}
  BY ReadyFacts
<1>3. \A p \in ready : p \in Event \X {"READ", "WRITE", "END"} /\ filter[p[1]] # {}
  BY <1>1, <1>2 DEF Reportable, Registered
<1>4. \A e \in Event : Types(ready, e) \subseteq {"READ", "WRITE", "END"}
  BY DEF Types
<1>5. \A e \in Event : Types(ready, e) # {} => filter[e] # {}
  <2> SUFFICES ASSUME NEW e \in Event, Types(ready, e) # {} PROVE filter[e] # {}
    OBVIOUS
  <2>1. PICK t : <<e, t>> \in ready
    BY DEF Types
  <2> QED BY <1>3, <2>1
<1>6. \A T : T \subseteq {"READ", "WRITE", "END"} => T # {"FINISH"}
  OBVIOUS
<1>7. /\ IsFiniteSet(Event) /\ IsFiniteSet(Event \X {"READ", "WRITE"})
      /\ MaxGet \in Nat
  BY EventsFinite
<1>8. CASE EpollGet(ready)
  <2> DEFINE S == {p[1] : p \in ready}
             types == [e \in Event |-> Types(ready, e)]
  <2>1. S \subseteq Event /\ \A e \in S : filter[e] # {}
    BY <1>3
  <2>2. IsFiniteSet(S)
    BY <1>7, <2>1, FS_Subset
  <2>3. PICK s \in Picks(S, MaxGet) : Hand(s, types)
    BY <1>8 DEF EpollGet
  <2>4. \A e \in Event : types[e] # {"FINISH"}
    BY <1>4, <1>6
  <2> HIDE DEF S, types
  <2>5. s \in Seq(S) /\ \A i \in DOMAIN s : s[i] \in S
    BY <1>7, <2>2, <2>3, PicksType
  <2>6. s \in Seq(Event) /\ \A i \in DOMAIN s : filter[s[i]] # {} /\ types[s[i]] # {"FINISH"}
    BY <2>1, <2>4, <2>5
  <2> QED BY <2>3, <2>6, HandReports
<1>9. CASE SelectGet(ready)
  <2> DEFINE hits == {i \in DOMAIN array : Types(ready, array[i]) # {}}
             types == [e \in Event |-> Types(ready, e)]
             n == Least(Cardinality(ready), Cardinality(hits))
  <2>1. PICK found \in [1..n -> hits] : Hand([k \in DOMAIN found |-> array[found[k]]], types)
    BY <1>9 DEF SelectGet
  <2>2. array \in Seq(Event)
    <3>1. HasArray /\ Good(Tables, {}) /\ Tables.array = array
      BY <1>9 DEF SelectGet, HasArray, ReadyInv, HandlersInv, Tables
    <3> QED BY <3>1 DEF Good, Placed
  <2>3. \A i \in hits : array[i] \in Event /\ filter[array[i]] # {}
    BY <1>5, <2>2
  <2>4. n \in Nat
    <3>1. IsFiniteSet(ready)
      <4>1. ready \subseteq Event \X {"READ", "WRITE", "END"}
        BY <1>3
      <4> QED BY <4>1, EventsFinite, FS_Subset
    <3>2. IsFiniteSet(hits)
      <4>1. Len(array) \in Nat /\ DOMAIN array = 1..Len(array)
        BY <2>2
      <4>2. IsFiniteSet(1..Len(array))
        BY <4>1, FS_Interval
      <4>3. hits \subseteq 1..Len(array)
        BY <4>1
      <4> QED BY <4>2, <4>3, FS_Subset
    <3> HIDE DEF hits
    <3>3. Cardinality(ready) \in Nat /\ Cardinality(hits) \in Nat
      BY <3>1, <3>2, FS_CardinalityType
    <3> QED BY <3>3 DEF Least
  <2>5. \A e \in Event : types[e] # {"FINISH"}
    BY <1>4, <1>6
  <2> DEFINE s == [k \in DOMAIN found |-> array[found[k]]]
  <2>6. \A k \in 1..n : found[k] \in hits
    BY <2>1
  <2> HIDE DEF hits, types, n
  <2>7. DOMAIN found = 1..n
    BY <2>1
  <2>8. s \in [1..n -> Event] /\ \A k \in 1..n : filter[s[k]] # {}
    BY <2>3, <2>6, <2>7
  <2> HIDE DEF s
  <2>9. s \in Seq(Event) /\ DOMAIN s = 1..n
    BY <2>4, <2>8, MakeSeq
  <2>10. \A i \in DOMAIN s : filter[s[i]] # {} /\ types[s[i]] # {"FINISH"}
    BY <2>5, <2>8, <2>9
  <2>11. Hand(s, types)
    BY <2>1 DEF s
  <2> QED BY <2>9, <2>10, <2>11, HandReports
<1>10. CASE KqueueGet(ready)
  <2> DEFINE S == {k \in Event \X {"READ", "WRITE"} :
                     \/ k \in ready
                     \/ k[2] \in filter[k[1]] /\ <<k[1], "END">> \in ready}
             L(s, e) == {i \in DOMAIN s : /\ s[i][1] = e
                                          /\ \A j \in DOMAIN s : j > i => s[j][1] # e}
             types(s) == [e \in Event |-> {s[i][2] : i \in L(s, e)}
                                            \cup (Types(ready, e) \cap {"END"})]
  <2>1. PICK s \in Picks(S, MaxGet) : Hand([i \in DOMAIN s |-> s[i][1]], types(s))
    BY <1>10 DEF KqueueGet, KqueueAsks
  <2>2. \A k \in S : k[1] \in Event /\ k[2] \in {"READ", "WRITE"} /\ filter[k[1]] # {}
    BY <1>3
  <2>3. IsFiniteSet(S)
    BY <1>7, FS_Subset
  <2> HIDE DEF S
  <2>4. s \in Seq(S) /\ DOMAIN s = 1..Len(s) /\ \A i \in DOMAIN s : s[i] \in S
    BY <1>7, <2>1, <2>3, PicksType
  <2>5. \A e \in Event : types(s)[e] \subseteq {"READ", "WRITE", "END"}
    <3> SUFFICES ASSUME NEW e \in Event, NEW t \in types(s)[e] PROVE t \in {"READ", "WRITE", "END"}
      OBVIOUS
    <3>1. t = "END" \/ \E i \in DOMAIN s : t = s[i][2]
      OBVIOUS
    <3> QED BY <2>2, <2>4, <3>1
  <2>6. \A e \in Event : types(s)[e] # {"FINISH"}
    BY <1>6, <2>5
  <2> HIDE DEF types
  <2> DEFINE q == [i \in DOMAIN s |-> s[i][1]]
  <2>7. Len(s) \in Nat /\ q \in [1..Len(s) -> Event] /\ \A i \in 1..Len(s) : filter[q[i]] # {}
    BY <2>2, <2>4
  <2>8. Hand(q, types(s))
    BY <2>1
  <2> HIDE DEF q
  <2>9. q \in Seq(Event) /\ DOMAIN q = 1..Len(s)
    BY <2>7, MakeSeq
  <2>10. \A i \in DOMAIN q : filter[q[i]] # {} /\ types(s)[q[i]] # {"FINISH"}
    BY <2>6, <2>7, <2>9
  <2> QED BY <2>8, <2>9, <2>10, HandReports
<1> QED BY <1>1, <1>8, <1>9, <1>10

\* The tail of a sequence.
LEMMA TailIs ==
  ASSUME NEW T, NEW p \in Seq(T), p # <<>>
  PROVE  /\ Len(p) \in Nat \ {0} /\ Head(p) = p[1]
         /\ Tail(p) \in Seq(T) /\ DOMAIN Tail(p) = 1..(Len(p) - 1)
         /\ \A i \in 1..(Len(p) - 1) : i + 1 \in 1..Len(p) /\ Tail(p)[i] = p[i + 1]
OBVIOUS

\* What is known before the first of the batch is served or passed over.
LEMMA HeadFacts ==
  ASSUME ReadyInv, Dispatches
  PROVE  /\ Len(batch) \in Nat \ {0} /\ This = batch[1] /\ Waiting # <<>>
         /\ Head(Waiting) = Waiting[1] /\ WaitingOK
         /\ Tail(batch) \in Seq(Event) /\ DOMAIN Tail(batch) = 1..(Len(batch) - 1)
         /\ DOMAIN Tail(Waiting) = 1..(Len(batch) - 1)
         /\ \A i \in 1..(Len(batch) - 1) :
              /\ i + 1 \in 1..Len(batch)
              /\ Tail(batch)[i] = batch[i + 1] /\ Tail(Waiting)[i] = Waiting[i + 1]
         /\ phase # "poll"
<1>1. batch \in Seq(Event) /\ batch # <<>> /\ WaitingOK
  BY WaitingFacts DEF ReadyInv, Dispatches
<1>2. /\ Len(batch) \in Nat \ {0} /\ Head(batch) = batch[1]
      /\ Tail(batch) \in Seq(Event) /\ DOMAIN Tail(batch) = 1..(Len(batch) - 1)
      /\ \A i \in 1..(Len(batch) - 1) : i + 1 \in 1..Len(batch) /\ Tail(batch)[i] = batch[i + 1]
  BY <1>1, TailIs
<1>3. Waiting \in Seq(Owner \cup {NoConn}) /\ Len(Waiting) = Len(batch)
  BY <1>1 DEF WaitingOK
<1>4. Waiting # <<>>
  BY <1>2, <1>3
<1>5. /\ Head(Waiting) = Waiting[1] /\ DOMAIN Tail(Waiting) = 1..(Len(Waiting) - 1)
      /\ \A i \in 1..(Len(Waiting) - 1) : Tail(Waiting)[i] = Waiting[i + 1]
  BY <1>3, <1>4, TailIs
<1>6. phase # "poll"
  BY <1>1 DEF ReadyInv
<1> QED BY <1>1, <1>2, <1>3, <1>4, <1>5, <1>6 DEF This

\* Reading stays watched.
LEMMA Rewatches ==
  ASSUME ReadyInv'
  PROVE  \A x \in Owner : Watching'[x] # {} => "READ" \in Watching'[x]
BY WatchedFactsAfter DEF WatchingOK

\* A callback for the first of the batch.
LEMMA TurnServes ==
  ASSUME ReadyInv, Handles, NEW r, NEW X, Turned(r, X), Become(r, Tail(batch)),
         UNCHANGED <<handler, phase>>
  PROVE  ReadyInv' /\ R!Serve
<1>0. PICK b : b = Tail(batch)
  OBVIOUS
<1> DEFINE n == Len(batch)
<1>1. /\ n \in Nat \ {0} /\ This = batch[1] /\ Waiting # <<>>
      /\ Head(Waiting) = Waiting[1] /\ WaitingOK
      /\ b \in Seq(Event) /\ DOMAIN b = 1..(n - 1) /\ DOMAIN Tail(Waiting) = 1..(n - 1)
      /\ \A i \in 1..(n - 1) :
           i + 1 \in 1..n /\ b[i] = batch[i + 1] /\ Tail(Waiting)[i] = Waiting[i + 1]
      /\ phase # "poll"
  BY <1>0, HeadFacts DEF Handles
<1>2. \A i \in DOMAIN b : \E j \in DOMAIN batch : batch[j] = b[i]
  <2>1. DOMAIN batch = 1..n
    BY DEF ReadyInv
  <2> HIDE DEF n
  <2> QED BY <1>1, <2>1
<1>3. /\ \A i \in 1..n : Waiting[i] = IF evType[batch[i]] = {"FINISH"} THEN NoConn
                                                                    ELSE owner[batch[i]]
      /\ \A i \in 1..n : evType[batch[i]] # {"FINISH"} =>
           Waiting[i] \in Owner /\ Watching[Waiting[i]] # {}
  BY <1>1 DEF WaitingOK
<1>4. batch' = b
  BY <1>0 DEF Become
<1> HIDE DEF n
<1>5. /\ ReadyInv'
      /\ TurnsBlank(b)
  <2>1. Become(r, b) /\ handler' = handler /\ (phase' = "poll" => b = <<>>)
    BY <1>0, <1>1
  <2>2. ReadyInv /\ Turned(r, X) /\ b \in Seq(Event)
    BY <1>1
  <2> QED BY ONLY <1>2, <2>1, <2>2, TurnKeeps
<1>6. Head(Waiting) \in Owner /\ Watching[Head(Waiting)] # {}
  BY <1>1, <1>3 DEF Handles
<1>7. Waiting' = [i \in 1..(n - 1) |-> IF evType'[b[i]] = {"FINISH"} THEN NoConn
                                                                     ELSE owner'[b[i]]]
  BY <1>1, <1>4 DEF Waiting
<1>8. ASSUME NEW i \in 1..(n - 1)
      PROVE  (IF evType'[b[i]] = {"FINISH"} THEN NoConn ELSE owner'[b[i]]) =
                IF Tail(Waiting)[i] # NoConn /\ Watching'[Tail(Waiting)[i]] # {}
                THEN Tail(Waiting)[i] ELSE NoConn
  <2>1. i + 1 \in 1..n /\ b[i] = batch[i + 1] /\ Tail(Waiting)[i] = Waiting[i + 1]
    BY <1>1
  <2>2. Waiting[i + 1] = IF evType[batch[i + 1]] = {"FINISH"} THEN NoConn ELSE owner[batch[i + 1]]
    BY <1>3, <2>1
  <2>3. Tail(Waiting)[i] = IF evType[b[i]] = {"FINISH"} THEN NoConn ELSE owner[b[i]]
    BY <2>1, <2>2
  <2>4. i \in DOMAIN b
    BY <1>1
  <2> QED BY <1>5, <2>3, <2>4 DEF TurnsBlank
<1>9. Waiting' = [i \in DOMAIN Tail(Waiting) |->
                    IF Tail(Waiting)[i] # NoConn /\ Watching'[Tail(Waiting)[i]] # {}
                    THEN Tail(Waiting)[i] ELSE NoConn]
  BY <1>1, <1>7, <1>8
<1>10. \A x \in Owner : Watching'[x] # {} => "READ" \in Watching'[x]
  BY <1>5, Rewatches
<1> QED BY <1>1, <1>5, <1>6, <1>9, <1>10 DEF R!Serve, R!Rewatch, R!Left, Watching

\* The head of a handler passes a marked event over.
LEMMA SkipPasses ==
  ASSUME ReadyInv, SkipFinished
  PROVE  ReadyInv' /\ R!Skip
<1>0. PICK b : b = Tail(batch)
  OBVIOUS
<1> DEFINE n == Len(batch)
<1>1. /\ Dispatches /\ evType[This] = {"FINISH"} /\ Become(Tables, b)
      /\ UNCHANGED <<handler, phase>>
  BY <1>0 DEF SkipFinished
<1>2. /\ n \in Nat \ {0} /\ This = batch[1] /\ Waiting # <<>>
      /\ Head(Waiting) = Waiting[1] /\ WaitingOK
      /\ b \in Seq(Event) /\ DOMAIN b = 1..(n - 1) /\ DOMAIN Tail(Waiting) = 1..(n - 1)
      /\ \A i \in 1..(n - 1) :
           i + 1 \in 1..n /\ b[i] = batch[i + 1] /\ Tail(Waiting)[i] = Waiting[i + 1]
      /\ phase # "poll"
  BY <1>0, <1>1, HeadFacts
<1>3. \A i \in 1..n : Waiting[i] = IF evType[batch[i]] = {"FINISH"} THEN NoConn
                                                                  ELSE owner[batch[i]]
  BY <1>2 DEF WaitingOK
<1>4. /\ batch' = b /\ owner' = owner /\ filter' = filter
      /\ evType' = [e \in Event |-> IF \E i \in DOMAIN b : b[i] = e THEN evType[e] ELSE {}]
  BY <1>1 DEF Become, InBatch, Tables
<1>5. Turned(Tables, {})
  BY ReadyFacts, SameTurns
<1>6. ReadyInv'
  <2>1. \A i \in DOMAIN b : \E j \in DOMAIN batch : batch[j] = b[i]
    <3>1. DOMAIN batch = 1..n
      BY DEF ReadyInv
    <3> HIDE DEF n
    <3> QED BY <1>2, <3>1
  <2> HIDE DEF n
  <2> QED BY <1>1, <1>2, <1>5, <2>1, TurnKeeps
<1> HIDE DEF n
<1>7. Watching' = Watching
  BY <1>4 DEF Watching, Watched
<1>8. Head(Waiting) = NoConn
  BY <1>1, <1>2, <1>3
<1>9. Waiting' = Tail(Waiting)
  <2>1. Waiting' = [i \in 1..(n - 1) |-> IF evType'[b[i]] = {"FINISH"} THEN NoConn
                                                                       ELSE owner'[b[i]]]
    BY <1>2, <1>4 DEF Waiting
  <2>2. \A i \in 1..(n - 1) : evType'[b[i]] = evType[b[i]]
    <3>1. \A i \in 1..(n - 1) : b[i] \in Event
      BY <1>2
    <3> QED BY <1>2, <1>4, <3>1
  <2>3. \A i \in 1..(n - 1) : (IF evType'[b[i]] = {"FINISH"} THEN NoConn ELSE owner'[b[i]])
                                = Tail(Waiting)[i]
    <3> SUFFICES ASSUME NEW i \in 1..(n - 1)
                 PROVE  (IF evType[b[i]] = {"FINISH"} THEN NoConn ELSE owner[b[i]])
                          = Tail(Waiting)[i]
      BY <1>4, <2>2
    <3>1. i + 1 \in 1..n /\ b[i] = batch[i + 1] /\ Tail(Waiting)[i] = Waiting[i + 1]
      BY <1>2
    <3>2. Waiting[i + 1] = IF evType[batch[i + 1]] = {"FINISH"} THEN NoConn
                                                              ELSE owner[batch[i + 1]]
      BY <1>3, <3>1
    <3> QED BY <3>1, <3>2
  <2>4. Tail(Waiting) = [i \in 1..(n - 1) |-> Tail(Waiting)[i]]
    <3>1. Waiting \in Seq(Owner \cup {NoConn}) /\ Waiting # <<>>
      BY <1>2 DEF WaitingOK
    <3>2. Tail(Waiting) \in Seq(Owner \cup {NoConn})
      BY <3>1, TailIs
    <3>3. \A p : p \in Seq(Owner \cup {NoConn}) => p = [i \in DOMAIN p |-> p[i]]
      OBVIOUS
    <3> QED BY <1>2, <3>2, <3>3
  <2> QED BY <2>1, <2>3, <2>4
<1> QED BY <1>2, <1>6, <1>7, <1>8, <1>9 DEF R!Skip, Watching

\* Every step of the loop is one that Readiness allows.
LEMMA ReadyStep ==
  ReadyInv /\ [Next]_vars => ReadyInv' /\ [R!Next]_<<Watching, Waiting>>
<1> SUFFICES ASSUME ReadyInv, [Next]_vars
             PROVE  ReadyInv' /\ [R!Next]_<<Watching, Waiting>>
  OBVIOUS
<1>1. /\ Good(Tables, {}) /\ Tables.owner = owner /\ Tables.filter = filter
      /\ Tables.evType = evType /\ IsTables(Tables)
  BY ReadyFacts
<1>2. \A e \in Registered : e \in Event /\ filter[e] # {}
  BY DEF Registered
<1>3. Turned(Tables, {})
  BY <1>1, SameTurns
<1>4. ASSUME NEW s, Good(s, {}), s.owner = owner, s.evType = evType,
             NEW e \in Event, s.filter[e] # {}
      PROVE  Turned(Arm(s, e), {})
  <2>1. Good(Arm(s, e), {})
    BY <1>4, ArmGood
  <2>2. IsTables(s)
    BY <1>4 DEF Good
  <2>3. Arm(s, e).owner = owner /\ Arm(s, e).evType = evType
    BY <1>4, <2>2, MarksStay
  <2> QED BY <2>1, <2>3, SameTurns
<1>5. ASSUME Handles, UNCHANGED <<handler, phase>>,
             \E r, X : Turned(r, X) /\ Become(r, Tail(batch))
      PROVE  ReadyInv' /\ R!Next
  BY <1>5, TurnServes DEF R!Next
<1>6. CASE UNCHANGED vars
  <2>1. Tables' = Tables /\ HasArray' = HasArray
    BY <1>6 DEF vars, Tables, HasArray
  <2>2. HandlersInv'
    BY HandlersStep DEF ReadyInv
  <2>3. OneEach(Tables)' /\ Typed(Tables)'
    BY <2>1 DEF ReadyInv, OneEach, Typed
  <2>4. ReadyInv'
    BY <1>6, <2>2, <2>3 DEF ReadyInv, vars
  <2>5. UNCHANGED <<Watching, Waiting>>
    BY <1>6 DEF vars, Watching, Watched, Waiting
  <2> QED BY <2>4, <2>5
<1>7. CASE Poll
  BY <1>7, PollReports DEF R!Next
<1>8. CASE SkipFinished
  BY <1>8, SkipPasses DEF R!Next
<1>9. CASE Accept
  <2>1. PICK x \in Conn \ Live, udp \in Conn \ Live, xs \in Closings :
          /\ x # udp
          /\ LET s1 == Pop(Tables, x)
                 s2 == Add(Pop(s1, udp), PoolTop(s1.pool), {"READ"})
             IN Become(Add(CloseAll(s2, xs), PoolTop(pool), {"READ"}), Tail(batch))
    BY <1>9 DEF Accept
  <2>2. Handles /\ pool.num >= 2 /\ UNCHANGED <<handler, phase>>
    BY <1>9 DEF Accept
  <2> DEFINE s1 == Pop(Tables, x)
             s2 == Add(Pop(s1, udp), PoolTop(s1.pool), {"READ"})
             r == Add(CloseAll(s2, xs), PoolTop(pool), {"READ"})
  <2>3. Become(r, Tail(batch))
    BY <2>1
  <2>4. \E X : Turned(r, X)
    BY <2>1, <2>2, AcceptTurns
  <2> HIDE DEF r
  <2> QED BY <1>5, <2>2, <2>3, <2>4
<1>10. CASE ServeListener
  <2>1. Handles /\ UNCHANGED <<handler, phase>>
    BY <1>10 DEF ServeListener
  <2>2. CASE Become(Tables, Tail(batch))
    BY <1>3, <1>5, <2>1, <2>2
  <2>3. CASE \E e \in Registered : Become(Arm(Tables, e), Tail(batch))
    <3>1. PICK e \in Registered : Become(Arm(Tables, e), Tail(batch))
      BY <2>3
    <3>2. Turned(Arm(Tables, e), {})
      BY <1>1, <1>2, <1>4
    <3> QED BY <1>5, <2>1, <3>1, <3>2
  <2> QED BY <1>10, <2>2, <2>3 DEF ServeListener
<1>11. CASE Serve
  <2> DEFINE s == IF "WRITE" \in evType[This] THEN Disarm(Tables, This) ELSE Tables
  <2>1. Handles /\ UNCHANGED <<handler, phase>>
    BY <1>11 DEF Serve
  <2>2. /\ Good(s, {}) /\ s.owner = owner /\ s.evType = evType
        /\ \A f \in Event : s.filter[f] = {} <=> filter[f] = {}
    <3>1. /\ Good(Disarm(Tables, This), {}) /\ Disarm(Tables, This).owner = Tables.owner
          /\ \A f \in Event : Disarm(Tables, This).filter[f] = {} <=> Tables.filter[f] = {}
      BY <1>1, DisarmGood
    <3>2. Disarm(Tables, This).evType = Tables.evType
      BY <1>1, MarksStay
    <3> QED BY <1>1, <3>1, <3>2
  <2>3. \/ Become(s, Tail(batch))
        \/ \E e \in Registered : Become(Arm(s, e), Tail(batch))
        \/ \E xs \in Closings : Become(CloseAll(s, xs), Tail(batch))
    BY <1>11 DEF Serve
  <2> HIDE DEF s
  <2>4. CASE Become(s, Tail(batch))
    BY <1>5, <2>1, <2>2, <2>4, SameTurns
  <2>5. CASE \E e \in Registered : Become(Arm(s, e), Tail(batch))
    <3>1. PICK e \in Registered : Become(Arm(s, e), Tail(batch))
      BY <2>5
    <3>2. e \in Event /\ s.filter[e] # {}
      BY <1>2, <2>2
    <3>3. Turned(Arm(s, e), {})
      BY <1>4, <2>2, <3>2
    <3> QED BY <1>5, <2>1, <3>1, <3>3
  <2>6. CASE \E xs \in Closings : Become(CloseAll(s, xs), Tail(batch))
    <3>1. PICK xs \in Closings : Become(CloseAll(s, xs), Tail(batch))
      BY <2>6
    <3>2. \E X : Turned(CloseAll(s, xs), X)
      BY <2>2, CloseTurns
    <3> QED BY <1>5, <2>1, <3>1, <3>2
  <2> QED BY <2>3, <2>4, <2>5, <2>6
<1>12. CASE Idle
  <2>1. batch = <<>> /\ handler' = handler
    BY <1>12 DEF Idle
  <2>2. \E r, X : Turned(r, X) /\ Become(r, <<>>)
    <3>1. CASE \E xs \in Closings : Become(CloseAll(Tables, xs), <<>>)
      <4>1. PICK xs \in Closings : Become(CloseAll(Tables, xs), <<>>)
        BY <3>1
      <4>2. \E X : Turned(CloseAll(Tables, xs), X)
        BY <1>1, CloseTurns
      <4> QED BY <4>1, <4>2
    <3>2. CASE \E e \in Registered : Become(Arm(Tables, e), <<>>)
      <4>1. PICK e \in Registered : Become(Arm(Tables, e), <<>>)
        BY <3>2
      <4>2. Turned(Arm(Tables, e), {})
        BY <1>1, <1>2, <1>4
      <4> QED BY <4>1, <4>2
    <3>3. CASE \E x \in Conn \ Live :
                 /\ pool.num > 0
                 /\ Become(Add(Pop(Tables, x), PoolTop(pool), {"READ", "WRITE"}), <<>>)
      BY <3>3, OpenTurns
    <3> QED BY <1>12, <3>1, <3>2, <3>3 DEF Idle
  <2>3. PICK r, X : Turned(r, X) /\ Become(r, <<>>)
    BY <2>2
  <2>4. ReadyInv'
    <3>1. <<>> \in Seq(Event) /\ \A i \in DOMAIN <<>> : \E j \in DOMAIN batch : batch[j] = <<>>[i]
      OBVIOUS
    <3> QED BY <2>1, <2>3, <3>1, TurnKeeps
  <2>5. Waiting = <<>> /\ Waiting' = <<>>
    <3>1. batch' = <<>>
      BY <2>3 DEF Become
    <3>2. WaitingOK /\ WaitingOK'
      BY <2>4, WaitingFacts, WaitingFactsAfter
    <3>3. /\ Waiting \in Seq(Owner \cup {NoConn}) /\ Len(Waiting) = 0
          /\ Waiting' \in Seq(Owner \cup {NoConn}) /\ Len(Waiting') = 0
      BY <2>1, <3>1, <3>2 DEF WaitingOK
    <3> QED BY <3>3
  <2>6. \A x \in Owner : Watching'[x] # {} => "READ" \in Watching'[x]
    BY <2>4, Rewatches
  <2>7. R!Rest
    BY <2>5, <2>6 DEF R!Rest, R!Rewatch, Watching
  <2> QED BY <2>4, <2>7 DEF R!Next
<1> QED BY <1>6, <1>7, <1>8, <1>9, <1>10, <1>11, <1>12 DEF Next

\* Whichever event handler it has, the loop of gnb_network_service.c gets what
\* Readiness says: a poll reports connections that are watched and no more of
\* them than there is room for, they are served in that order, and one that is
\* closed while its event waits is never served, though the event may be popped
\* for another connection, kqueue may have listed it twice, and the connection
\* may have been opened again.
THEOREM LoopGetsReadiness == Spec => Contract
<1>1. Init => R!Init
  <2> SUFFICES ASSUME Init PROVE R!Init
    OBVIOUS
  <2>1. ReadyInv
    BY ReadyInit
  <2>2. WatchingOK /\ WaitingOK
    BY <2>1, WatchedFacts, WaitingFacts
  <2>3. /\ owner = [e \in Event |-> IF e = NumEvents - 1 THEN Listener ELSE NoConn]
        /\ filter = [e \in Event |-> IF e = NumEvents - 1 THEN {"READ"} ELSE {}]
        /\ batch = <<>> /\ NumEvents - 1 \in Event
    BY EventFacts DEF Init
  <2>4. Waiting = <<>>
    <3>1. Waiting \in Seq(Owner \cup {NoConn}) /\ Len(Waiting) = 0
      BY <2>2, <2>3 DEF WaitingOK
    <3> QED BY <3>1
  <2>5. \A x \in Owner : Watching[x] = IF x = Listener THEN {"READ"} ELSE {}
    <3> SUFFICES ASSUME NEW x \in Owner PROVE Watching[x] = IF x = Listener THEN {"READ"} ELSE {}
      OBVIOUS
    <3>1. x # NoConn
      BY EventFacts
    <3>2. CASE x = Listener
      <4>1. owner[NumEvents - 1] = x /\ filter[NumEvents - 1] = {"READ"}
        BY <2>3, <3>2
      <4> QED BY <2>2, <2>3, <3>2, <4>1 DEF WatchingOK
    <3>3. CASE x # Listener
      <4>1. \A e \in Event : owner[e] # x
        BY <2>3, <3>1, <3>3
      <4> QED BY <2>2, <3>3, <4>1 DEF WatchingOK
    <3> QED BY <3>2, <3>3
  <2>6. Watching = [x \in Owner |-> IF x = Listener THEN {"READ"} ELSE {}]
    BY <2>5 DEF Watching
  <2> QED BY <2>4, <2>6 DEF R!Init, Watching
<1>2. ReadyInv /\ [Next]_vars => ReadyInv' /\ [R!Next]_<<[x \in Owner |-> Watched(x)], Waiting>>
  BY ReadyStep DEF Watching
<1> QED BY <1>1, <1>2, ReadyInit, PTL DEF Spec, Contract, R!Spec
==============================================================================
