-------------------------- MODULE ContainersProofs --------------------------
(***************************************************************************)
(* The containers.  The heap's list holds every block in use once, at the  *)
(* place the block knows, for any limit and any order of allocations and   *)
(* frees.  The address list keeps the addresses heard of last, for any     *)
(* number of places and any order of updates.  And in the table of         *)
(* channels, for any size, any keys and any hash function, list, map and   *)
(* pools agree after any sequence of calls, and together they are the      *)
(* bounded table of LruTable.                                              *)
(***************************************************************************)
EXTENDS Lru32, Heap, AddressList, FixedPoolProofs, SequenceTheorems

Used == 0 .. (fragmentNums - 1)

HeapTypeOK ==
  /\ fragmentNums \in 0..MaxFragment
  /\ fragmentList \in [Slot -> Fragment \cup {None}]
  /\ idx \in [Fragment -> Nat]
  /\ live \subseteq Fragment /\ IsFiniteSet(live)

\* list and idx are inverse to each other on the places in use and the blocks
\* in use.
PlacesMatch ==
  /\ \A i \in Used : fragmentList[i] \in live /\ idx[fragmentList[i]] = i
  /\ \A f \in live : idx[f] \in Used /\ fragmentList[idx[f]] = f

HeapInv == HeapTypeOK /\ PlacesMatch /\ Cardinality(live) = fragmentNums

\* A heap in order refuses no block in use.
LEMMA InOrderRefusesNone ==
  ASSUME HeapInv, NEW f \in live
  PROVE  ~Refused(f)
<1>1. fragmentNums \in Nat /\ fragmentNums <= MaxFragment /\ MaxFragment \in Nat
  BY HeapAssumption DEF HeapInv, HeapTypeOK
<1>2. idx[f] \in Used /\ fragmentList[idx[f]] = f
  BY DEF HeapInv, PlacesMatch
<1>3. fragmentNums > 0
  BY <1>1, <1>2 DEF Used
<1>4. idx[f] \in Slot
  BY <1>1, <1>2 DEF Used, Slot
<1>5. fragmentNums - 1 \in Used
  BY <1>1, <1>3 DEF Used
<1>6. idx[fragmentList[fragmentNums - 1]] = fragmentNums - 1
  BY <1>5 DEF HeapInv, PlacesMatch
<1>7. fragmentNums = 1 => idx[f] = 0 /\ idx[fragmentList[0]] = 0
  BY <1>1, <1>2, <1>6 DEF Used
<1> QED
  BY <1>1, <1>3, <1>4, <1>6, <1>7 DEF Refused, Slot

\* A heap in order keeps each block in use at one place of its list, and would
\* take every one of them back.
LEMMA InOrderHolds ==
  ASSUME HeapInv
  PROVE  ListHoldsTheLive
<1>1. {fragmentList[i] : i \in Used} = live
  BY DEF HeapInv, PlacesMatch
<1>2. \A f \in live : ~Refused(f)
  BY InOrderRefusesNone
<1> QED
  BY <1>1, <1>2 DEF ListHoldsTheLive, HeapInv, PlacesMatch, Used

\* gnb_heap_create() leaves an empty list, which is in order.
LEMMA HeapStart == HeapInit => HeapInv
<1> SUFFICES ASSUME HeapInit PROVE HeapInv
  OBVIOUS
<1>1. IsFiniteSet(live) /\ Cardinality(live) = 0
  BY FS_EmptySet DEF HeapInit
<1>2. Used = {}
  BY DEF HeapInit, Used
<1> QED
  BY <1>1, <1>2, HeapAssumption DEF HeapInit, HeapInv, HeapTypeOK, PlacesMatch, Slot

\* malloc() returns a block that is not in use, and it takes the next place.
LEMMA AllocInOrder ==
  ASSUME HeapInv, Alloc
  PROVE  HeapInv'
<1>1. fragmentNums \in Nat /\ fragmentNums <= MaxFragment /\ MaxFragment \in Nat
  BY HeapAssumption DEF HeapInv, HeapTypeOK
<1>2. CASE fragmentNums = MaxFragment
  BY <1>2 DEF Alloc, HeapInv, HeapTypeOK, PlacesMatch, Used
<1>3. CASE fragmentNums # MaxFragment
  <2>1. PICK f \in Fragment \ live :
          /\ fragmentList' = [fragmentList EXCEPT ![fragmentNums] = f]
          /\ idx' = [idx EXCEPT ![f] = fragmentNums]
          /\ fragmentNums' = fragmentNums + 1
          /\ live' = live \cup {f}
    BY <1>3 DEF Alloc
  <2>2. fragmentNums \in Slot
    BY <1>1, <1>3 DEF Slot
  <2>3. HeapTypeOK'
    <3>1. IsFiniteSet(live')
      BY <2>1, FS_AddElement DEF HeapInv, HeapTypeOK
    <3> QED
      BY <1>1, <1>3, <2>1, <2>2, <3>1 DEF HeapInv, HeapTypeOK
  <2>4. Cardinality(live') = fragmentNums'
    BY <2>1, FS_AddElement DEF HeapInv, HeapTypeOK
  <2>5. Used' = Used \cup {fragmentNums} /\ fragmentNums \notin Used
    BY <1>1, <2>1 DEF Used
  <2>6. Used \subseteq Slot
    BY <1>1 DEF Used, Slot
  <2>7. ASSUME NEW i \in Used'
        PROVE  fragmentList'[i] \in live' /\ idx'[fragmentList'[i]] = i
    <3>1. CASE i = fragmentNums
      BY <2>1, <2>2, <3>1 DEF HeapInv, HeapTypeOK
    <3>2. CASE i \in Used
      <4>1. fragmentList'[i] = fragmentList[i] /\ fragmentList[i] \in live
        BY <2>1, <2>2, <2>5, <2>6, <3>2 DEF HeapInv, HeapTypeOK, PlacesMatch
      <4>2. idx'[fragmentList[i]] = idx[fragmentList[i]]
        BY <2>1, <4>1 DEF HeapInv, HeapTypeOK
      <4> QED
        BY <2>1, <3>2, <4>1, <4>2 DEF HeapInv, PlacesMatch
    <3> QED
      BY <2>5, <3>1, <3>2
  <2>8. ASSUME NEW g \in live'
        PROVE  idx'[g] \in Used' /\ fragmentList'[idx'[g]] = g
    <3>1. CASE g = f
      BY <2>1, <2>2, <2>5, <3>1 DEF HeapInv, HeapTypeOK
    <3>2. CASE g \in live
      <4>1. idx'[g] = idx[g] /\ idx[g] \in Used /\ fragmentList[idx[g]] = g
        BY <2>1, <3>2 DEF HeapInv, HeapTypeOK, PlacesMatch
      <4> QED
        BY <2>1, <2>2, <2>5, <2>6, <4>1 DEF HeapInv, HeapTypeOK
    <3> QED
      BY <2>1, <3>1, <3>2
  <2> QED
    BY <2>3, <2>4, <2>7, <2>8 DEF HeapInv, PlacesMatch
<1> QED
  BY <1>2, <1>3

\* The last block takes the place that is given up, and knows it.
LEMMA FreeInOrder ==
  ASSUME HeapInv, NEW f \in Fragment, Free(f)
  PROVE  HeapInv'
<1> DEFINE last == fragmentList[fragmentNums - 1]
<1>1. fragmentNums \in Nat /\ fragmentNums <= MaxFragment /\ MaxFragment \in Nat
  BY HeapAssumption DEF HeapInv, HeapTypeOK
<1>2. f \in live /\ ~Refused(f)
  BY InOrderRefusesNone DEF Free
<1>3. fragmentNums' = fragmentNums - 1 /\ live' = live \ {f}
  BY <1>2 DEF Free
<1>4. idx[f] \in Used /\ fragmentList[idx[f]] = f
  BY <1>2 DEF HeapInv, PlacesMatch
<1>5. fragmentNums - 1 \in Used /\ fragmentNums > 0
  BY <1>1, <1>4 DEF Used
<1>6. last \in live /\ idx[last] = fragmentNums - 1 /\ last \in Fragment
  BY <1>5 DEF HeapInv, HeapTypeOK, PlacesMatch
<1>7. Used \subseteq Slot /\ Used' = Used \ {fragmentNums - 1}
  BY <1>1, <1>3, <1>5 DEF Used, Slot
<1>8. IsFiniteSet(live') /\ Cardinality(live') = fragmentNums'
  BY <1>2, <1>3, FS_RemoveElement DEF HeapInv, HeapTypeOK
<1>9. CASE idx[last] = idx[f]
  <2>1. UNCHANGED <<fragmentList, idx>>
    BY <1>2, <1>9 DEF Free
  <2>2. last = f
    BY <1>4, <1>6, <1>9
  <2>3. HeapTypeOK'
    BY <1>1, <1>3, <1>5, <1>8, <2>1 DEF HeapInv, HeapTypeOK
  <2>4. ASSUME NEW i \in Used'
        PROVE  fragmentList'[i] \in live' /\ idx'[fragmentList'[i]] = i
    BY <1>3, <1>6, <1>7, <2>1, <2>2 DEF HeapInv, PlacesMatch
  <2>5. ASSUME NEW g \in live'
        PROVE  idx'[g] \in Used' /\ fragmentList'[idx'[g]] = g
    BY <1>3, <1>7, <2>1, <2>2 DEF HeapInv, PlacesMatch
  <2> QED
    BY <1>8, <2>3, <2>4, <2>5 DEF HeapInv, PlacesMatch
<1>10. CASE idx[last] # idx[f]
  <2>1. /\ idx' = [idx EXCEPT ![last] = idx[f]]
        /\ fragmentList' = [fragmentList EXCEPT ![idx[f]] = last]
    BY <1>2, <1>10 DEF Free
  <2>2. last # f /\ idx[f] \in Slot
    BY <1>4, <1>7, <1>10
  <2>3. HeapTypeOK'
    <3>1. idx' \in [Fragment -> Nat]
      BY <1>6, <2>1 DEF HeapInv, HeapTypeOK
    <3>2. fragmentList' \in [Slot -> Fragment \cup {None}]
      BY <1>6, <2>1 DEF HeapInv, HeapTypeOK
    <3> QED
      BY <1>1, <1>3, <1>5, <1>8, <3>1, <3>2 DEF HeapInv, HeapTypeOK
  <2>4. ASSUME NEW i \in Used'
        PROVE  fragmentList'[i] \in live' /\ idx'[fragmentList'[i]] = i
    <3>1. CASE i = idx[f]
      BY <1>3, <1>6, <2>1, <2>2, <3>1 DEF HeapInv, HeapTypeOK
    <3>2. CASE i # idx[f]
      <4>1. i \in Used /\ i \in Slot /\ i # fragmentNums - 1
        BY <1>7
      <4>2. fragmentList'[i] = fragmentList[i]
        BY <2>1, <3>2, <4>1 DEF HeapInv, HeapTypeOK
      <4>3. fragmentList[i] \in live /\ idx[fragmentList[i]] = i
        BY <4>1 DEF HeapInv, PlacesMatch
      <4>4. fragmentList[i] # f /\ fragmentList[i] # last
        BY <1>6, <3>2, <4>1, <4>3
      <4>5. idx'[fragmentList[i]] = i
        BY <2>1, <4>3, <4>4 DEF HeapInv, HeapTypeOK
      <4> QED
        BY <1>3, <4>2, <4>3, <4>4, <4>5
    <3> QED
      BY <3>1, <3>2
  <2>5. ASSUME NEW g \in live'
        PROVE  idx'[g] \in Used' /\ fragmentList'[idx'[g]] = g
    <3>1. g \in live /\ g # f /\ idx[g] \in Used /\ fragmentList[idx[g]] = g
      BY <1>3 DEF HeapInv, PlacesMatch
    <3>2. CASE g = last
      <4>1. idx'[g] = idx[f]
        BY <1>6, <2>1, <3>2 DEF HeapInv, HeapTypeOK
      <4>2. idx[f] \in Used'
        BY <1>4, <1>6, <1>7, <1>10
      <4> QED
        BY <2>1, <2>2, <3>2, <4>1, <4>2 DEF HeapInv, HeapTypeOK
    <3>3. CASE g # last
      <4>1. idx'[g] = idx[g]
        BY <2>1, <3>1, <3>3 DEF HeapInv, HeapTypeOK
      <4>2. idx[g] # idx[f] /\ idx[g] # fragmentNums - 1
        BY <1>4, <3>1, <3>3
      <4>3. fragmentList'[idx[g]] = fragmentList[idx[g]]
        BY <1>7, <2>1, <3>1, <4>2 DEF HeapInv, HeapTypeOK
      <4> QED
        BY <1>7, <3>1, <4>1, <4>2, <4>3
    <3> QED
      BY <3>2, <3>3
  <2> QED
    BY <1>8, <2>3, <2>4, <2>5 DEF HeapInv, PlacesMatch
<1> QED
  BY <1>9, <1>10

\* gnb_heap_clean() frees what the list holds, which is all that is in use.
LEMMA CleanInOrder ==
  ASSUME HeapInv, Clean
  PROVE  HeapInv'
<1>1. {fragmentList[i] : i \in 0..(fragmentNums - 1)} = live
  BY InOrderHolds DEF ListHoldsTheLive
<1>2. live' = {} /\ fragmentNums' = 0 /\ UNCHANGED <<fragmentList, idx>>
  BY <1>1 DEF Clean
<1>3. IsFiniteSet(live') /\ Cardinality(live') = 0
  BY <1>2, FS_EmptySet
<1>4. Used' = {}
  BY <1>2 DEF Used
<1> QED
  BY <1>2, <1>3, <1>4, HeapAssumption DEF HeapInv, HeapTypeOK, PlacesMatch

\* Whatever the limit and the order of gnb_heap_alloc(), gnb_heap_free() and
\* gnb_heap_clean(), the fragment list holds each block in use exactly once and
\* gnb_heap_free() refuses none of them.
\* HeapInv adds the types, and states from the place's side what the property
\* gives only by counting: the block at a place knows that place, which is what
\* gnb_heap_free() needs of the last one before it moves it.
THEOREM HeapHoldsTheLive == HeapSpec => []ListHoldsTheLive
<1>1. HeapInv /\ [HeapNext]_heapVars => HeapInv'
  <2> SUFFICES ASSUME HeapInv, [HeapNext]_heapVars PROVE HeapInv'
    OBVIOUS
  <2>1. CASE Alloc
    BY <2>1, AllocInOrder
  <2>2. CASE \E f \in Fragment : Free(f)
    BY <2>2, FreeInOrder
  <2>3. CASE Clean
    BY <2>3, CleanInOrder
  <2>4. CASE UNCHANGED heapVars
    BY <2>4 DEF heapVars, HeapInv, HeapTypeOK, PlacesMatch, Used
  <2> QED
    BY <2>1, <2>2, <2>3, <2>4 DEF HeapNext
<1>2. HeapInv => ListHoldsTheLive
  BY InOrderHolds
<1> QED
  BY <1>1, <1>2, HeapStart, PTL DEF HeapSpec

-----------------------------------------------------------------------------
\* The choice of the least place is well defined,
LEMMA FirstIsLeast ==
  ASSUME NEW S \in SUBSET Nat, S # {}
  PROVE  First(S) \in S /\ \A j \in S : First(S) <= j
BY LeastOfNaturals DEF First

\* and so is the choice of the greatest: it is the least counted from n down.
LEMMA LastIsGreatest ==
  ASSUME NEW n \in Nat, NEW S \in SUBSET (0..n), S # {}
  PROVE  Last(S) \in S /\ \A j \in S : j <= Last(S)
<1> DEFINE T == {n - i : i \in S}
<1>1. T \in SUBSET Nat /\ T # {}
  <2>1. \A i \in S : n - i \in Nat
    OBVIOUS
  <2>2. PICK i \in S : TRUE
    OBVIOUS
  <2>3. n - i \in T
    OBVIOUS
  <2> HIDE DEF T
  <2> QED BY <2>1, <2>3 DEF T
<1>2. PICK t \in T : \A j \in T : t <= j
  BY <1>1, LeastOfNaturals
<1>3. PICK i \in S : t = n - i
  BY <1>2
<1>4. \A j \in S : n - i <= n - j
  BY <1>2, <1>3
<1>5. \A j \in S : j <= i
  BY <1>4
<1> QED BY <1>5 DEF Last

-----------------------------------------------------------------------------
\* What the fields of gnb_address_list_t and the clock hold.
AddressType ==
  /\ entries \in [Spot -> [addr : Address, port : Port \cup {0}, ts : Nat]]
  /\ num \in 0..ListSize /\ now \in Nat
  /\ heard \in [Address -> Nat \cup {Never}]

\* The places in use are the first ones, with an address each and the time it
\* was heard of last.
PlacesAreFirst ==
  /\ \A i \in Spot : entries[i].port # 0 <=> i < num
  /\ \A i, j \in Spot : i < num /\ j < num /\ entries[i].addr = entries[j].addr => i = j
  /\ \A i \in Spot : i < num => entries[i].ts = heard[entries[i].addr]

\* Nothing was heard of later than now, and what has no place was heard of no
\* later than what has one.
OldestAreGone ==
  /\ \A a \in Address : heard[a] <= now
  /\ \A a \in Address, i \in Spot :
       i < num /\ (\A j \in Spot : j < num => entries[j].addr # a)
         => heard[a] <= entries[i].ts

AddressInv == AddressType /\ PlacesAreFirst /\ OldestAreGone

\* The constants in the form the provers use.
LEMMA AddressFacts ==
  /\ ListSize \in Nat \ {0} /\ Spot = 0..(ListSize - 1) /\ Spot \subseteq Nat
  /\ 0 \notin Port
  /\ FreePlace \in [addr : Address, port : Port \cup {0}, ts : Nat] /\ FreePlace.port = 0
BY AddressListAssumption DEF Spot, FreePlace

\* gnb_create_address_list.
LEMMA AddressInitially == AddressInit => AddressInv
<1> SUFFICES ASSUME AddressInit PROVE AddressInv
  OBVIOUS
<1>1. \A i \in Spot : entries[i] = FreePlace
  BY DEF AddressInit
<1>2. AddressType
  BY AddressFacts DEF AddressInit, AddressType, Never
<1>3. PlacesAreFirst
  BY <1>1, AddressFacts DEF AddressInit, PlacesAreFirst
<1>4. OldestAreGone
  BY AddressFacts DEF AddressInit, OldestAreGone, Never
<1> QED BY <1>2, <1>3, <1>4 DEF AddressInv

\* gnb_address_list_get_free_idx: the first place that is not in use, or a
\* place whose time is the least.
LEMMA FreeIdxIsNextOrOldest ==
  ASSUME AddressInv
  PROVE  /\ FreeIdx \in Spot
         /\ num < ListSize => FreeIdx = num
         /\ num = ListSize => \A j \in Spot : entries[FreeIdx].ts <= entries[j].ts
<1>1. /\ ListSize \in Nat \ {0} /\ Spot = 0..(ListSize - 1) /\ Spot \subseteq Nat
      /\ num \in 0..ListSize
      /\ \A i \in Spot : entries[i].port # 0 <=> i < num
      /\ \A i \in Spot : entries[i].ts \in Nat
  BY AddressFacts DEF AddressInv, AddressType, PlacesAreFirst
<1>2. CASE num < ListSize
  <2> DEFINE S == {i \in Spot : entries[i].port = 0}
  <2>1. \A i \in Spot : i \in S <=> i >= num
    BY <1>1
  <2>2. S \in SUBSET Nat /\ num \in Spot /\ num \in S
    BY <1>1, <1>2, <2>1
  <2>3. FreeIdx = First(S)
    BY <2>2 DEF FreeIdx
  <2>4. S \subseteq Spot
    OBVIOUS
  <2> HIDE DEF S
  <2>5. First(S) \in S /\ First(S) <= num
    BY <2>2, FirstIsLeast
  <2>6. First(S) \in Spot /\ First(S) >= num
    BY <2>1, <2>4, <2>5
  <2>7. First(S) = num
    BY <1>1, <2>5, <2>6
  <2> QED BY <1>1, <1>2, <2>3, <2>6, <2>7
<1>3. CASE num = ListSize
  <2> DEFINE T == {entries[i].ts : i \in Spot}
             S == {i \in Spot : \A j \in Spot : entries[i].ts <= entries[j].ts}
  <2>1. 0 \in Spot /\ \A i \in Spot : entries[i].port # 0
    BY <1>1, <1>3
  <2>2. T \in SUBSET Nat /\ T # {}
    BY <1>1, <2>1
  <2>3. PICK t \in T : \A u \in T : t <= u
    BY <2>2, LeastOfNaturals
  <2>4. PICK i \in Spot : t = entries[i].ts
    BY <2>3
  <2>5. \A j \in Spot : entries[i].ts <= entries[j].ts
    BY <2>3, <2>4
  <2>6. S # {} /\ S \in SUBSET (0..(ListSize - 1))
    BY <1>1, <2>5
  <2>7. FreeIdx = Last(S)
    BY <2>1 DEF FreeIdx
  <2>8. Last(S) \in S
    <3> HIDE DEF S
    <3>1. ListSize - 1 \in Nat
      BY <1>1
    <3> QED BY <2>6, <3>1, LastIsGreatest
  <2>9. FreeIdx \in S
    BY <2>7, <2>8
  <2>10. ~ (num < ListSize)
    BY <1>1, <1>3
  <2>11. FreeIdx \in Spot /\ \A j \in Spot : entries[FreeIdx].ts <= entries[j].ts
    BY <2>9
  <2> QED BY <1>3, <2>10, <2>11
<1>4. num < ListSize \/ num = ListSize
  BY <1>1
<1> QED BY <1>2, <1>3, <1>4

\* gnb_address_list_find: the place of an address that has one.
LEMMA FoundIsItsPlace ==
  ASSUME AddressInv, NEW a \in Address, Found(a) # {}
  PROVE  First(Found(a)) \in Spot /\ First(Found(a)) < num
         /\ entries[First(Found(a))].addr = a
<1>1. Found(a) \in SUBSET Nat
  BY AddressFacts DEF Found
<1>2. First(Found(a)) \in Found(a)
  BY <1>1, FirstIsLeast
<1> QED BY <1>2 DEF Found

\* gnb_address_list_update keeps the list in order, whether the address has a
\* place, takes a free one or that of the oldest.
LEMMA UpdateKeepsOrder ==
  ASSUME AddressInv, NEW a \in Address, NEW p \in Port, AddressUpdate(a, p)
  PROVE  AddressInv'
<1> DEFINE i == IF Found(a) # {} THEN First(Found(a)) ELSE FreeIdx
           new == [addr |-> a, port |-> p, ts |-> now]
<1>1. /\ ListSize \in Nat \ {0} /\ Spot = 0..(ListSize - 1) /\ Spot \subseteq Nat
      /\ 0 \notin Port /\ num \in 0..ListSize /\ now \in Nat
      /\ entries \in [Spot -> [addr : Address, port : Port \cup {0}, ts : Nat]]
      /\ heard \in [Address -> Nat \cup {Never}]
  BY AddressFacts DEF AddressInv, AddressType
<1>2. /\ \A j \in Spot : entries[j].port # 0 <=> j < num
      /\ \A j, k \in Spot : j < num /\ k < num /\ entries[j].addr = entries[k].addr => j = k
      /\ \A j \in Spot : j < num => entries[j].ts = heard[entries[j].addr]
      /\ \A b \in Address : heard[b] <= now
      /\ \A b \in Address, j \in Spot :
           j < num /\ (\A k \in Spot : k < num => entries[k].addr # b)
             => heard[b] <= entries[j].ts
  BY DEF AddressInv, PlacesAreFirst, OldestAreGone
<1>3. /\ i \in Spot /\ i <= num
      /\ i = num => \A j \in Spot : j < num => entries[j].addr # a
      /\ i < num /\ entries[i].addr # a =>
           /\ num = ListSize /\ \A j \in Spot : entries[i].ts <= entries[j].ts
           /\ \A j \in Spot : j < num => entries[j].addr # a
  <2>1. CASE Found(a) # {}
    BY <1>1, <2>1, FoundIsItsPlace
  <2>2. CASE Found(a) = {}
    <3>1. \A j \in Spot : j < num => entries[j].addr # a
      BY <2>2 DEF Found
    <3>2. /\ FreeIdx \in Spot
          /\ num < ListSize => FreeIdx = num
          /\ num = ListSize => \A j \in Spot : entries[FreeIdx].ts <= entries[j].ts
      BY FreeIdxIsNextOrOldest
    <3>3. i = FreeIdx
      BY <2>2
    <3> HIDE DEF i
    <3> QED BY <1>1, <3>1, <3>2, <3>3
  <2> QED BY <2>1, <2>2
<1>4. /\ entries' = [entries EXCEPT ![i] = new]
      /\ num' = IF entries[i].port = 0 /\ num < ListSize THEN num + 1 ELSE num
      /\ heard' = [heard EXCEPT ![a] = now] /\ now' = now
  BY DEF AddressUpdate
<1> HIDE DEF i
<1>5. new \in [addr : Address, port : Port \cup {0}, ts : Nat]
      /\ new.addr = a /\ new.port = p /\ p # 0 /\ new.ts = now
  BY <1>1
<1> HIDE DEF new
<1>6. /\ entries' \in [Spot -> [addr : Address, port : Port \cup {0}, ts : Nat]]
      /\ \A j \in Spot : entries'[j] = IF j = i THEN new ELSE entries[j]
  BY <1>1, <1>3, <1>4, <1>5
<1>7. /\ heard' \in [Address -> Nat \cup {Never}]
      /\ \A b \in Address : heard'[b] = IF b = a THEN now ELSE heard[b]
  BY <1>1, <1>4
<1>8. num' = IF i = num THEN num + 1 ELSE num
  BY <1>1, <1>2, <1>3, <1>4
<1>9. num' \in 0..ListSize
  BY <1>1, <1>3, <1>8
<1>10. \A j \in Spot : j < num' <=> j < num \/ j = i
  BY <1>1, <1>3, <1>8
<1>11. \A j \in Spot : j # i /\ j < num => entries[j].addr # a
  <2> SUFFICES ASSUME NEW j \in Spot, j # i, j < num PROVE entries[j].addr # a
    OBVIOUS
  <2>1. CASE i < num
    BY <1>2, <1>3, <2>1
  <2>2. CASE i = num
    BY <1>3, <2>2
  <2> QED BY <1>1, <1>3, <2>1, <2>2
<1>12. AddressType'
  BY <1>1, <1>4, <1>6, <1>7, <1>9 DEF AddressType
<1>13. PlacesAreFirst'
  <2>1. \A j \in Spot : entries'[j].port # 0 <=> j < num'
    BY <1>2, <1>5, <1>6, <1>10
  <2>2. \A j, k \in Spot : j < num' /\ k < num' /\ entries'[j].addr = entries'[k].addr => j = k
    BY <1>2, <1>5, <1>6, <1>10, <1>11
  <2>3. \A j \in Spot : j < num' => entries'[j].ts = heard'[entries'[j].addr]
    <3> SUFFICES ASSUME NEW j \in Spot, j < num' PROVE entries'[j].ts = heard'[entries'[j].addr]
      OBVIOUS
    <3>1. CASE j = i
      BY <1>5, <1>6, <1>7, <3>1
    <3>2. CASE j # i
      <4>1. entries[j].addr \in Address /\ entries[j].addr # a /\ j < num
        BY <1>1, <1>10, <1>11, <3>2
      <4> QED BY <1>2, <1>6, <1>7, <3>2, <4>1
    <3> QED BY <3>1, <3>2
  <2> QED BY <2>1, <2>2, <2>3 DEF PlacesAreFirst
<1>14. OldestAreGone'
  <2>1. \A b \in Address : heard'[b] <= now'
    BY <1>1, <1>2, <1>4, <1>7
  <2>2. ASSUME NEW b \in Address, NEW j \in Spot, j < num',
               \A k \in Spot : k < num' => entries'[k].addr # b
        PROVE  heard'[b] <= entries'[j].ts
    <3>1. b # a
      BY <1>3, <1>5, <1>6, <1>10, <2>2
    <3>2. heard'[b] = heard[b] /\ heard[b] <= now
      BY <1>2, <1>7, <3>1
    <3>3. CASE j = i
      BY <1>5, <1>6, <3>2, <3>3
    <3>4. CASE j # i
      <4>1. entries'[j] = entries[j] /\ j < num
        BY <1>6, <1>10, <2>2, <3>4
      <4>2. CASE \A k \in Spot : k < num => entries[k].addr # b
        BY <1>2, <3>2, <4>1, <4>2
      <4>3. CASE \E k \in Spot : k < num /\ entries[k].addr = b
        <5>1. PICK k \in Spot : k < num /\ entries[k].addr = b
          BY <4>3
        <5>2. k = i
          BY <1>6, <1>10, <2>2, <5>1
        <5>3. entries[i].ts <= entries[j].ts
          BY <1>3, <3>1, <5>1, <5>2
        <5>4. entries[i].ts = heard[b]
          BY <1>2, <5>1, <5>2
        <5> QED BY <3>2, <4>1, <5>3, <5>4
      <4> QED BY <4>2, <4>3
    <3> QED BY <3>3, <3>4
  <2> QED BY <2>1, <2>2 DEF OldestAreGone
<1> QED BY <1>12, <1>13, <1>14 DEF AddressInv

\* A second passes.
LEMMA LaterKeepsOrder ==
  ASSUME AddressInv, Later \/ UNCHANGED addressVars
  PROVE  AddressInv'
<1>1. entries' = entries /\ num' = num /\ heard' = heard /\ now' \in {now, now + 1}
  BY DEF Later, addressVars
<1>2. now \in Nat /\ \A a \in Address : heard[a] \in Nat \cup {Never} /\ heard[a] <= now
  BY DEF AddressInv, AddressType, OldestAreGone
<1>3. AddressType'
  BY <1>1, <1>2 DEF AddressInv, AddressType
<1>4. PlacesAreFirst'
  BY <1>1 DEF AddressInv, PlacesAreFirst
<1>5. OldestAreGone'
  <2>1. \A a \in Address : heard[a] <= now'
    BY <1>1, <1>2 DEF Never
  <2> QED BY <1>1, <2>1 DEF AddressInv, OldestAreGone
<1> QED BY <1>3, <1>4, <1>5 DEF AddressInv

\* Whatever the order of updates, the list keeps the addresses heard of last,
\* each once, in the first places.
THEOREM ListKeepsTheLatest == AddressSpec => []KeepsTheLatest
<1>1. AddressInv /\ [AddressNext]_addressVars => AddressInv'
  BY UpdateKeepsOrder, LaterKeepsOrder DEF AddressNext
<1>2. AddressInv => KeepsTheLatest
  <2> SUFFICES ASSUME AddressInv PROVE KeepsTheLatest
    OBVIOUS
  <2> DEFINE used == {i \in Spot : entries[i].port # 0}
             kept == {entries[i].addr : i \in used}
             f == [k \in 1..num |-> entries[k - 1].addr]
  <2>1. /\ ListSize \in Nat \ {0} /\ Spot = 0..(ListSize - 1) /\ num \in 0..ListSize
        /\ \A j \in Spot : entries[j].port # 0 <=> j < num
        /\ \A j, k \in Spot : j < num /\ k < num /\ entries[j].addr = entries[k].addr => j = k
        /\ \A j \in Spot : j < num => entries[j].ts = heard[entries[j].addr]
        /\ \A b \in Address, j \in Spot :
             j < num /\ (\A k \in Spot : k < num => entries[k].addr # b)
               => heard[b] <= entries[j].ts
    BY AddressFacts DEF AddressInv, AddressType, PlacesAreFirst, OldestAreGone
  <2>2. used = 0..(num - 1) /\ used \subseteq Spot
    BY <2>1
  <2>3. \A i \in used : entries[i].ts = heard[entries[i].addr]
    BY <2>1, <2>2
  <2>4. \A a \in Address \ kept, b \in kept : heard[a] <= heard[b]
    <3> SUFFICES ASSUME NEW a \in Address \ kept, NEW i \in used
                 PROVE  heard[a] <= heard[entries[i].addr]
      OBVIOUS
    <3>1. \A k \in Spot : k < num => entries[k].addr # a
      BY <2>1
    <3> QED BY <2>1, <2>2, <2>3, <3>1
  <2>5. Cardinality(kept) = num
    <3> HIDE DEF used
    <3>1. \A k \in 1..num : k - 1 \in used /\ k - 1 \in Spot /\ k - 1 < num
      BY <2>1, <2>2
    <3>2. \A i \in used : i + 1 \in 1..num /\ (i + 1) - 1 = i
      BY <2>1, <2>2
    <3>3. f \in [1..num -> kept] /\ \A k \in 1..num : f[k] = entries[k - 1].addr
      BY <3>1
    <3>4. \A j, k \in 1..num : f[j] = f[k] => j = k
      <4> SUFFICES ASSUME NEW j \in 1..num, NEW k \in 1..num, f[j] = f[k] PROVE j = k
        OBVIOUS
      <4>1. entries[j - 1].addr = entries[k - 1].addr
        BY <3>3
      <4>2. j - 1 = k - 1
        BY <2>1, <3>1, <4>1
      <4> QED BY <4>2
    <3>5. \A x \in kept : \E k \in 1..num : f[k] = x
      <4> SUFFICES ASSUME NEW i \in used PROVE \E k \in 1..num : f[k] = entries[i].addr
        OBVIOUS
      <4> QED BY <3>2, <3>3
    <3> HIDE DEF f, kept
    <3>6. f \in Bijection(1..num, kept)
      BY <3>3, <3>4, <3>5 DEF Bijection, Injection, Surjection, IsInjective
    <3>7. num \in Nat
      BY <2>1
    <3> QED BY <3>6, <3>7, FS_CountingElements DEF ExistsBijection
  <2> QED BY <2>2, <2>3, <2>4, <2>5 DEF KeepsTheLatest
<1> QED BY <1>1, <1>2, AddressInitially, PTL DEF AddressSpec

-----------------------------------------------------------------------------
(***************************************************************************)
(* The table of channels.  The links of the list are named by the order    *)
(* they make: ListHas(l, f, n) says that f is the sequence of the n nodes  *)
(* of l from the head on.  Each operation of the list has a lemma that     *)
(* gives the order after it, and each call one that gives the rows of the  *)
(* table after it.                                                         *)
(***************************************************************************)
\* The constants in the form the provers use.
LEMMA LruFacts ==
  /\ MaxSize \in Nat \ {0} /\ Node = 0..(MaxSize - 1) /\ NULL \notin Node /\ NoNode \notin Node
  /\ NoValue = NULL /\ NoNode = NULL
BY LruAssumption DEF Node, NULL, NoNode

-----------------------------------------------------------------------------
(***************************************************************************)
(* The list.                                                               *)
(***************************************************************************)
IsList(l) ==
  l = [head |-> l.head, tail |-> l.tail, num |-> l.num, pre |-> l.pre, nex |-> l.nex]

ListHas(l, f, n) ==
  /\ IsList(l) /\ n \in Nat /\ l.num = n
  /\ f \in [1..n -> Node]
  /\ \A i, j \in 1..n : f[i] = f[j] => i = j
  /\ n > 0 => l.head = f[1] /\ l.tail = f[n]
  /\ l.pre \in [Node -> Node \cup {NoNode}] /\ l.nex \in [Node -> Node \cup {NoNode}]
  /\ \A i \in 1..n : /\ l.pre[f[i]] = IF i = 1 THEN NoNode ELSE f[i - 1]
                     /\ l.nex[f[i]] = IF i = n THEN NoNode ELSE f[i + 1]

\* The orders the operations make.
Added(f, n, m) == [i \in 1..(n + 1) |-> IF i = 1 THEN m ELSE f[i - 1]]
Taken(f, n, i) == [j \in 1..(n - 1) |-> IF j < i THEN f[j] ELSE f[j + 1]]
Moved(f, n, i) ==
  IF n = 2 THEN f
  ELSE [j \in 1..n |-> IF j = 1 THEN f[i] ELSE IF j <= i THEN f[j - 1] ELSE f[j]]

\* gnb_doubly_linked_list_create.
LEMMA CreateHas == ListHas(ListCreate(Node), [i \in 1..0 |-> 0], 0)
BY DEF ListHas, ListCreate, IsList

\* gnb_doubly_linked_list_add: the node is the head.
LEMMA AddHas ==
  ASSUME NEW l, NEW n, NEW f, ListHas(l, f, n), NEW m \in Node, \A i \in 1..n : f[i] # m
  PROVE  ListHas(ListAdd(l, m), Added(f, n, m), n + 1)
<1> DEFINE r == ListAdd(l, m)
           g == Added(f, n, m)
<1>1. /\ IsList(l) /\ n \in Nat /\ l.num = n
      /\ f \in [1..n -> Node]
      /\ \A i, j \in 1..n : f[i] = f[j] => i = j
      /\ n > 0 => l.head = f[1] /\ l.tail = f[n]
      /\ l.pre \in [Node -> Node \cup {NoNode}] /\ l.nex \in [Node -> Node \cup {NoNode}]
      /\ \A i \in 1..n : /\ l.pre[f[i]] = IF i = 1 THEN NoNode ELSE f[i - 1]
                         /\ l.nex[f[i]] = IF i = n THEN NoNode ELSE f[i + 1]
  BY DEF ListHas
<1>2. g \in [1..(n + 1) -> Node] /\ g[1] = m /\ \A i \in 1..n : g[i + 1] = f[i]
  BY <1>1 DEF Added
<1>3. \A i \in 1..(n + 1) : i = 1 \/ (i - 1 \in 1..n /\ g[i] = f[i - 1])
  BY <1>1 DEF Added
<1>4. \A i, j \in 1..(n + 1) : g[i] = g[j] => i = j
  <2> SUFFICES ASSUME NEW i \in 1..(n + 1), NEW j \in 1..(n + 1), g[i] = g[j] PROVE i = j
    OBVIOUS
  <2> HIDE DEF g
  <2>1. CASE i = 1 \/ j = 1
    BY <1>2, <1>3, <2>1
  <2>2. CASE i # 1 /\ j # 1
    <3>1. i - 1 = j - 1
      BY <1>1, <1>3, <2>2
    <3> QED BY <3>1
  <2> QED BY <2>1, <2>2
<1>5. CASE n = 0
  <2>1. r = [l EXCEPT !.head = m, !.tail = m, !.num = 1, !.pre[m] = NoNode, !.nex[m] = NoNode]
    BY <1>1, <1>5 DEF ListAdd
  <2> HIDE DEF r
  <2>2. /\ IsList(r) /\ r.num = 1 /\ r.head = m /\ r.tail = m
        /\ r.pre = [l.pre EXCEPT ![m] = NoNode] /\ r.nex = [l.nex EXCEPT ![m] = NoNode]
    BY <1>1, <2>1 DEF IsList
  <2> HIDE DEF g
  <2>3. /\ r.pre \in [Node -> Node \cup {NoNode}] /\ r.nex \in [Node -> Node \cup {NoNode}]
        /\ r.pre[m] = NoNode /\ r.nex[m] = NoNode
    BY <1>1, <2>2
  <2>4. n + 1 = 1
    BY <1>5
  <2>5. \A i \in 1..1 : i = 1
    OBVIOUS
  <2>6. ListHas(r, g, n + 1)
    BY <1>2, <1>4, <2>2, <2>3, <2>4, <2>5 DEF ListHas
  <2> QED BY <2>6 DEF r, g
<1>6. CASE n # 0
  <2>1. r = [l EXCEPT !.head = m, !.num = @ + 1, !.tail = IF l.num = 1 THEN l.head ELSE @,
                      !.pre = [@ EXCEPT ![m] = NoNode, ![l.head] = m], !.nex[m] = l.head]
    BY <1>1, <1>6 DEF ListAdd
  <2> HIDE DEF r
  <2>2. /\ IsList(r) /\ r.num = l.num + 1 /\ r.head = m
        /\ r.tail = IF l.num = 1 THEN l.head ELSE l.tail
        /\ r.pre = [l.pre EXCEPT ![m] = NoNode, ![l.head] = m]
        /\ r.nex = [l.nex EXCEPT ![m] = l.head]
    <3>1. IsList(l)
      BY <1>1
    <3> QED BY <2>1, <3>1 DEF IsList
  <2>3. n > 0 /\ l.head = f[1] /\ l.tail = f[n] /\ 1 \in 1..n /\ f[1] \in Node /\ f[1] # m
    BY <1>1, <1>6
  <2>4. /\ r.pre \in [Node -> Node \cup {NoNode}]
        /\ \A x \in Node : r.pre[x] = IF x = f[1] THEN m ELSE IF x = m THEN NoNode ELSE l.pre[x]
    BY <1>1, <2>2, <2>3
  <2>5. /\ r.nex \in [Node -> Node \cup {NoNode}]
        /\ \A x \in Node : r.nex[x] = IF x = m THEN f[1] ELSE l.nex[x]
    BY <1>1, <2>2, <2>3
  <2>6. r.num = n + 1 /\ n + 1 \in Nat /\ r.head = g[1] /\ r.tail = g[n + 1]
    BY <1>1, <1>2, <2>2, <2>3
  <2> HIDE DEF g
  <2>7. ASSUME NEW i \in 1..(n + 1)
        PROVE  /\ r.pre[g[i]] = IF i = 1 THEN NoNode ELSE g[i - 1]
               /\ r.nex[g[i]] = IF i = n + 1 THEN NoNode ELSE g[i + 1]
    <3>1. CASE i = 1
      <4>1. r.pre[m] = NoNode /\ r.nex[m] = f[1] /\ g[i] = m /\ g[i + 1] = f[1] /\ i # n + 1
        BY <1>1, <1>2, <2>3, <2>4, <2>5, <3>1
      <4> QED BY <3>1, <4>1
    <3>2. CASE i # 1
      <4> DEFINE j == i - 1
      <4>1. j \in 1..n /\ i = j + 1 /\ g[i] = f[j] /\ f[j] \in Node /\ f[j] # m
        BY <1>1, <1>3, <3>2
      <4>2. r.nex[f[j]] = IF j = n THEN NoNode ELSE f[j + 1]
        BY <1>1, <2>5, <4>1
      <4>3. j # n => j + 1 \in 1..n /\ g[i + 1] = f[j + 1]
        BY <1>1, <1>2, <4>1
      <4>4. j = n <=> i = n + 1
        BY <1>1, <4>1
      <4>5. r.nex[g[i]] = IF i = n + 1 THEN NoNode ELSE g[i + 1]
        BY <4>1, <4>2, <4>3, <4>4
      <4>6. r.pre[f[j]] = IF j = 1 THEN m ELSE f[j - 1]
        <5>1. f[j] = f[1] <=> j = 1
          BY <1>1, <2>3, <4>1
        <5> QED BY <1>1, <2>4, <4>1, <5>1
      <4>7. g[i - 1] = IF j = 1 THEN m ELSE f[j - 1]
        <5>1. j # 1 => j - 1 \in 1..n /\ (j - 1) + 1 = j
          BY <1>1, <4>1
        <5> QED BY <1>2, <4>1, <5>1
      <4> QED BY <3>2, <4>1, <4>5, <4>6, <4>7
    <3> QED BY <3>1, <3>2
  <2>8. ListHas(r, g, n + 1)
    BY <1>2, <1>4, <2>2, <2>4, <2>5, <2>6, <2>7 DEF ListHas
  <2> QED BY <2>8 DEF r, g
<1> QED BY <1>5, <1>6
\* A list without its i-th node: its neighbours are linked to each other.

LEMMA TakenHas ==
  ASSUME NEW l, NEW n, NEW f, ListHas(l, f, n), NEW i \in 1..n,
         NEW r, IsList(r), r.num = n - 1,
         r.pre \in [Node -> Node \cup {NoNode}], r.nex \in [Node -> Node \cup {NoNode}],
         n > 1 => /\ r.head = IF i = 1 THEN f[2] ELSE f[1]
                  /\ r.tail = IF i = n THEN f[n - 1] ELSE f[n],
         \A j \in 1..n : j # i =>
           /\ r.pre[f[j]] = IF j = 1 \/ (j = 2 /\ i = 1) THEN NoNode
                            ELSE IF j = i + 1 THEN f[i - 1] ELSE f[j - 1]
           /\ r.nex[f[j]] = IF j = n \/ (j = n - 1 /\ i = n) THEN NoNode
                            ELSE IF j = i - 1 THEN f[i + 1] ELSE f[j + 1]
  PROVE  ListHas(r, Taken(f, n, i), n - 1)
<1> DEFINE g == Taken(f, n, i)
           At(j) == IF j < i THEN j ELSE j + 1
<1>1. /\ n \in Nat /\ f \in [1..n -> Node] /\ i \in 1..n
      /\ \A j, k \in 1..n : f[j] = f[k] => j = k
  BY DEF ListHas
<1>2. \A j \in 1..(n - 1) : At(j) \in 1..n /\ At(j) # i /\ g[j] = f[At(j)]
  BY <1>1 DEF Taken
<1>3. g \in [1..(n - 1) -> Node]
  <2>1. \A j \in 1..(n - 1) : (IF j < i THEN f[j] ELSE f[j + 1]) \in Node
    BY <1>1
  <2> QED BY <2>1 DEF Taken
<1>4. \A j, k \in 1..(n - 1) : g[j] = g[k] => j = k
  <2> SUFFICES ASSUME NEW j \in 1..(n - 1), NEW k \in 1..(n - 1), g[j] = g[k] PROVE j = k
    OBVIOUS
  <2> HIDE DEF g
  <2>1. At(j) = At(k)
    <3> HIDE DEF At
    <3> QED BY <1>1, <1>2
  <2> QED BY <1>1, <2>1
<1>5. n - 1 \in Nat
  BY <1>1
<1>6. n - 1 > 0 => r.head = g[1] /\ r.tail = g[n - 1]
  BY <1>1 DEF Taken
<1>7. ASSUME NEW j \in 1..(n - 1)
      PROVE  /\ r.pre[g[j]] = IF j = 1 THEN NoNode ELSE g[j - 1]
             /\ r.nex[g[j]] = IF j = n - 1 THEN NoNode ELSE g[j + 1]
  <2>1. /\ At(j) \in 1..n /\ At(j) # i /\ g[j] = f[At(j)]
        /\ j # 1 => j - 1 \in 1..(n - 1) /\ g[j - 1] = f[At(j - 1)]
        /\ j # n - 1 => j + 1 \in 1..(n - 1) /\ g[j + 1] = f[At(j + 1)]
    <3> HIDE DEF g, At
    <3>1. (j # 1 => j - 1 \in 1..(n - 1)) /\ (j # n - 1 => j + 1 \in 1..(n - 1))
      BY <1>1
    <3> QED BY <1>2, <3>1
  <2> HIDE DEF g
  <2>2. CASE j < i
    <3>1. /\ r.pre[f[j]] = IF j = 1 THEN NoNode ELSE f[j - 1]
          /\ r.nex[f[j]] = IF j = n - 1 /\ i = n THEN NoNode
                           ELSE IF j = i - 1 THEN f[i + 1] ELSE f[j + 1]
      BY <1>1, <2>2
    <3>2. j = n - 1 => i = n
      BY <1>1, <2>2
    <3> QED BY <1>1, <2>1, <2>2, <3>1, <3>2
  <2>3. CASE ~(j < i)
    <3> DEFINE k == j + 1
    <3>1. k \in 1..n /\ k # i /\ k # 1 /\ (k = 2 => i = 1) /\ (k = n <=> j = n - 1)
      BY <1>1, <2>3
    <3>2. /\ r.pre[f[k]] = IF k = 2 THEN NoNode ELSE IF k = i + 1 THEN f[i - 1] ELSE f[k - 1]
          /\ r.nex[f[k]] = IF k = n THEN NoNode ELSE f[k + 1]
      <4>1. (k = n - 1 => i # n) /\ k # i - 1
        BY <1>1, <2>3
      <4> HIDE DEF k
      <4>2. /\ r.pre[f[k]] = IF k = 1 \/ (k = 2 /\ i = 1) THEN NoNode
                            ELSE IF k = i + 1 THEN f[i - 1] ELSE f[k - 1]
            /\ r.nex[f[k]] = IF k = n \/ (k = n - 1 /\ i = n) THEN NoNode
                            ELSE IF k = i - 1 THEN f[i + 1] ELSE f[k + 1]
        BY <3>1
      <4> QED BY ONLY <3>1, <4>1, <4>2
    <3>3. At(j) = k /\ (j # 1 => At(j - 1) = IF j = i THEN i - 1 ELSE j)
          /\ At(j + 1) = k + 1
      BY <1>1, <2>3
    <3>4. k = 2 <=> j = 1
      OBVIOUS
    <3>5. k = i + 1 <=> j = i
      BY <1>1
    <3>6. k - 1 = j
      OBVIOUS
    <3> HIDE DEF k, At
    <3> QED BY <2>1, <3>1, <3>2, <3>3, <3>4, <3>5, <3>6
  <2> QED BY <2>2, <2>3
<1> HIDE DEF g
<1>8. ListHas(r, g, n - 1)
  BY <1>3, <1>4, <1>5, <1>6, <1>7 DEF ListHas
<1> QED BY <1>8 DEF g

\* A list of one node is emptied.
LEMMA EmptiedHas ==
  ASSUME NEW l, NEW n, NEW f, ListHas(l, f, n), n = 1
  PROVE  ListHas(ListEmptied(l), Taken(f, n, 1), n - 1)
<1> DEFINE r == ListEmptied(l)
<1>1. /\ IsList(r) /\ r.num = 0 /\ r.pre = l.pre /\ r.nex = l.nex
  <2>1. IsList(l)
    BY DEF ListHas
  <2>2. r = [l EXCEPT !.head = NoNode, !.tail = NoNode, !.num = 0]
    BY DEF ListEmptied
  <2> HIDE DEF r
  <2> QED BY <2>1, <2>2 DEF IsList
<1>2. /\ l.pre \in [Node -> Node \cup {NoNode}] /\ l.nex \in [Node -> Node \cup {NoNode}]
      /\ 1 \in 1..n /\ \A j \in 1..n : j = 1
  BY DEF ListHas
<1> HIDE DEF r
<1>3. ListHas(r, Taken(f, n, 1), n - 1)
  BY <1>1, <1>2, TakenHas
<1> QED BY <1>3 DEF r

\* gnb_doubly_linked_list_pop_head.
LEMMA PopHeadHas ==
  ASSUME NEW l, NEW n, NEW f, ListHas(l, f, n), n > 0
  PROVE  ListHas(ListPopHead(l), Taken(f, n, 1), n - 1)
<1>1. /\ IsList(l) /\ n \in Nat /\ l.num = n /\ f \in [1..n -> Node]
      /\ \A i, j \in 1..n : f[i] = f[j] => i = j
      /\ l.head = f[1] /\ l.tail = f[n]
      /\ l.pre \in [Node -> Node \cup {NoNode}] /\ l.nex \in [Node -> Node \cup {NoNode}]
      /\ \A i \in 1..n : /\ l.pre[f[i]] = IF i = 1 THEN NoNode ELSE f[i - 1]
                         /\ l.nex[f[i]] = IF i = n THEN NoNode ELSE f[i + 1]
  BY DEF ListHas
<1>2. CASE n = 1
  <2>1. ListPopHead(l) = ListEmptied(l)
    BY <1>1, <1>2 DEF ListPopHead
  <2> QED BY <1>2, <2>1, EmptiedHas
<1>3. CASE n # 1
  <2> DEFINE r == ListPopHead(l)
  <2>1. 1 \in 1..n /\ 2 \in 1..n /\ n \in 1..n /\ f[1] # f[n] /\ l.nex[f[1]] = f[2]
    BY <1>1, <1>3
  <2>2. r = [l EXCEPT !.head = f[2], !.pre[f[2]] = NoNode, !.num = @ - 1]
    BY <1>1, <1>3, <2>1 DEF ListPopHead
  <2> HIDE DEF r
  <2>3. /\ IsList(r) /\ r.head = f[2] /\ r.tail = l.tail /\ r.num = l.num - 1
        /\ r.pre = [l.pre EXCEPT ![f[2]] = NoNode] /\ r.nex = l.nex
    <3>1. IsList(l)
      BY <1>1
    <3> QED BY <2>2, <3>1 DEF IsList
  <2>4. /\ r.pre \in [Node -> Node \cup {NoNode}]
        /\ \A j \in 1..n : r.pre[f[j]] = IF j = 2 THEN NoNode ELSE l.pre[f[j]]
    BY <1>1, <2>1, <2>3
  <2>5. \A j \in 1..n : j # 1 =>
           /\ r.pre[f[j]] = IF j = 1 \/ (j = 2 /\ 1 = 1) THEN NoNode
                            ELSE IF j = 1 + 1 THEN f[1 - 1] ELSE f[j - 1]
           /\ r.nex[f[j]] = IF j = n \/ (j = n - 1 /\ 1 = n) THEN NoNode
                            ELSE IF j = 1 - 1 THEN f[1 + 1] ELSE f[j + 1]
    BY <1>1, <1>3, <2>3, <2>4
  <2>6. r.num = n - 1 /\ r.nex \in [Node -> Node \cup {NoNode}] /\ r.tail = f[n]
    BY <1>1, <2>3
  <2>7. ListHas(r, Taken(f, n, 1), n - 1)
    BY <1>3, <2>1, <2>3, <2>4, <2>5, <2>6, TakenHas
  <2> QED BY <2>7 DEF r
<1> QED BY <1>2, <1>3

\* gnb_doubly_linked_list_pop_tail.
LEMMA PopTailHas ==
  ASSUME NEW l, NEW n, NEW f, ListHas(l, f, n), n > 0
  PROVE  ListHas(ListPopTail(l), Taken(f, n, n), n - 1)
<1>1. /\ IsList(l) /\ n \in Nat /\ l.num = n /\ f \in [1..n -> Node]
      /\ \A i, j \in 1..n : f[i] = f[j] => i = j
      /\ l.head = f[1] /\ l.tail = f[n]
      /\ l.pre \in [Node -> Node \cup {NoNode}] /\ l.nex \in [Node -> Node \cup {NoNode}]
      /\ \A i \in 1..n : /\ l.pre[f[i]] = IF i = 1 THEN NoNode ELSE f[i - 1]
                         /\ l.nex[f[i]] = IF i = n THEN NoNode ELSE f[i + 1]
  BY DEF ListHas
<1>2. CASE n = 1
  <2>1. ListPopTail(l) = ListEmptied(l)
    BY <1>1, <1>2 DEF ListPopTail
  <2> QED BY <1>2, <2>1, EmptiedHas
<1>3. CASE n # 1
  <2> DEFINE r == ListPopTail(l)
             m == n - 1
  <2>1. 1 \in 1..n /\ m \in 1..n /\ n \in 1..n /\ f[1] # f[n] /\ l.pre[f[n]] = f[m] /\ m # n
    BY <1>1, <1>3
  <2>2. r = [l EXCEPT !.tail = f[m], !.nex[f[m]] = NoNode, !.num = @ - 1]
    BY <1>1, <1>3, <2>1 DEF ListPopTail
  <2> HIDE DEF r
  <2>3. /\ IsList(r) /\ r.tail = f[m] /\ r.head = l.head /\ r.num = l.num - 1
        /\ r.nex = [l.nex EXCEPT ![f[m]] = NoNode] /\ r.pre = l.pre
    <3>1. IsList(l)
      BY <1>1
    <3> HIDE DEF m
    <3> QED BY <2>2, <3>1 DEF IsList
  <2>4. /\ r.nex \in [Node -> Node \cup {NoNode}]
        /\ \A j \in 1..n : r.nex[f[j]] = IF j = m THEN NoNode ELSE l.nex[f[j]]
    <3> HIDE DEF m
    <3> QED BY <1>1, <2>1, <2>3
  <2>5. \A j \in 1..n : j # n =>
           /\ r.pre[f[j]] = IF j = 1 \/ (j = 2 /\ n = 1) THEN NoNode
                            ELSE IF j = n + 1 THEN f[n - 1] ELSE f[j - 1]
           /\ r.nex[f[j]] = IF j = n \/ (j = n - 1 /\ n = n) THEN NoNode
                            ELSE IF j = n - 1 THEN f[n + 1] ELSE f[j + 1]
    BY <1>1, <1>3, <2>3, <2>4
  <2>6. r.num = n - 1 /\ r.pre \in [Node -> Node \cup {NoNode}] /\ r.head = f[1]
    BY <1>1, <2>3
  <2>7. ListHas(r, Taken(f, n, n), n - 1)
    BY <1>3, <2>1, <2>3, <2>4, <2>5, <2>6, TakenHas
  <2> QED BY <2>7 DEF r
<1> QED BY <1>2, <1>3
\* gnb_doubly_linked_list_pop, of any node of the list.

LEMMA PopHas ==
  ASSUME NEW l, NEW n, NEW f, ListHas(l, f, n), NEW i \in 1..n
  PROVE  ListHas(ListPop(l, f[i]), Taken(f, n, i), n - 1)
<1>1. /\ IsList(l) /\ n \in Nat /\ l.num = n /\ f \in [1..n -> Node]
      /\ \A j, k \in 1..n : f[j] = f[k] => j = k
      /\ l.head = f[1] /\ l.tail = f[n]
      /\ l.pre \in [Node -> Node \cup {NoNode}] /\ l.nex \in [Node -> Node \cup {NoNode}]
      /\ \A j \in 1..n : /\ l.pre[f[j]] = IF j = 1 THEN NoNode ELSE f[j - 1]
                         /\ l.nex[f[j]] = IF j = n THEN NoNode ELSE f[j + 1]
  BY DEF ListHas
<1>2. NoNode \notin Node
  BY LruFacts
<1>3. 1 \in 1..n /\ n \in 1..n /\ n > 0
  BY <1>1
<1>4. IsList(l)
  BY <1>1
<1>5. CASE n = 1
  <2>1. i = 1 /\ l.pre[f[i]] = NoNode /\ l.nex[f[i]] = NoNode
    BY <1>1, <1>5
  <2>2. ListPop(l, f[i]) = ListEmptied(l)
    BY <1>1, <1>5, <2>1 DEF ListPop
  <2> QED BY <1>5, <2>1, <2>2, EmptiedHas
<1>6. CASE n # 1 /\ i = 1
  <2>1. 2 \in 1..n /\ l.pre[f[i]] = NoNode /\ l.nex[f[i]] = f[2] /\ f[2] # NoNode
    BY <1>1, <1>2, <1>3, <1>6
  <2>2. f[1] # f[n]
    BY <1>1, <1>3, <1>6
  <2>3. ListPop(l, f[i]) = [l EXCEPT !.head = f[2], !.pre[f[2]] = NoNode, !.num = @ - 1]
    BY <1>1, <1>3, <1>6, <2>1 DEF ListPop
  <2>4. l.nex[f[1]] = f[2] /\ l.head = f[1]
    BY <1>1, <1>6, <2>1
  <2>5. ListPopHead(l) = [l EXCEPT !.head = f[2], !.pre[f[2]] = NoNode, !.num = @ - 1]
    BY <1>1, <1>3, <1>6, <2>2, <2>4 DEF ListPopHead
  <2> QED BY <1>3, <1>6, <2>3, <2>5, PopHeadHas
<1>7. CASE n # 1 /\ i = n
  <2> DEFINE m == n - 1
  <2>1. m \in 1..n /\ l.nex[f[i]] = NoNode /\ l.pre[f[i]] = f[m] /\ f[m] # NoNode /\ f[i] = f[n]
    BY <1>1, <1>2, <1>3, <1>7
  <2> HIDE DEF m
  <2>2. f[1] # f[n]
    BY <1>1, <1>3, <1>7
  <2>3. ListPop(l, f[i]) = [l EXCEPT !.tail = f[m], !.nex[f[m]] = NoNode, !.num = @ - 1]
    BY <1>1, <1>3, <1>7, <2>1 DEF ListPop
  <2>4. ListPopTail(l) = [l EXCEPT !.tail = f[m], !.nex[f[m]] = NoNode, !.num = @ - 1]
    BY <1>1, <1>3, <1>7, <2>1, <2>2 DEF ListPopTail
  <2> QED BY <1>3, <1>7, <2>3, <2>4, PopTailHas
<1>8. CASE i # 1 /\ i # n
  <2> DEFINE r == ListPop(l, f[i])
             p == f[i - 1]
             x == f[i + 1]
  <2>1. /\ i - 1 \in 1..n /\ i + 1 \in 1..n /\ p \in Node /\ x \in Node
        /\ l.pre[f[i]] = p /\ l.nex[f[i]] = x /\ n > 2
    BY <1>1, <1>8
  <2> HIDE DEF p, x
  <2>2. r = [l EXCEPT !.nex[p] = x, !.pre[x] = p, !.num = @ - 1]
    BY <1>1, <1>2, <1>3, <2>1 DEF ListPop
  <2> HIDE DEF r
  <2>3. /\ IsList(r) /\ r.tail = l.tail /\ r.head = l.head /\ r.num = l.num - 1
        /\ r.nex = [l.nex EXCEPT ![p] = x] /\ r.pre = [l.pre EXCEPT ![x] = p]
    BY <1>4, <2>2 DEF IsList
  <2>4. /\ r.pre \in [Node -> Node \cup {NoNode}] /\ r.nex \in [Node -> Node \cup {NoNode}]
        /\ \A y \in Node : r.pre[y] = IF y = x THEN p ELSE l.pre[y]
        /\ \A y \in Node : r.nex[y] = IF y = p THEN x ELSE l.nex[y]
    BY <1>1, <2>1, <2>3
  <2>5. \A j \in 1..n : (f[j] = p <=> j = i - 1) /\ (f[j] = x <=> j = i + 1) /\ f[j] \in Node
    BY <1>1, <2>1 DEF p, x
  <2>6. \A j \in 1..n : j # i =>
           /\ r.pre[f[j]] = IF j = i + 1 THEN p ELSE IF j = 1 THEN NoNode ELSE f[j - 1]
           /\ r.nex[f[j]] = IF j = i - 1 THEN x ELSE IF j = n THEN NoNode ELSE f[j + 1]
    BY <1>1, <2>4, <2>5
  <2>7. \A j \in 1..n : j # i =>
           /\ r.pre[f[j]] = IF j = 1 \/ (j = 2 /\ i = 1) THEN NoNode
                            ELSE IF j = i + 1 THEN f[i - 1] ELSE f[j - 1]
           /\ r.nex[f[j]] = IF j = n \/ (j = n - 1 /\ i = n) THEN NoNode
                            ELSE IF j = i - 1 THEN f[i + 1] ELSE f[j + 1]
    <3> SUFFICES ASSUME NEW j \in 1..n, j # i
                 PROVE  /\ r.pre[f[j]] = IF j = 1 THEN NoNode
                                         ELSE IF j = i + 1 THEN f[i - 1] ELSE f[j - 1]
                        /\ r.nex[f[j]] = IF j = n THEN NoNode
                                         ELSE IF j = i - 1 THEN f[i + 1] ELSE f[j + 1]
      BY <1>8
    <3>1. i + 1 # 1 /\ i - 1 # n /\ p = f[i - 1] /\ x = f[i + 1]
      BY <1>1 DEF p, x
    <3> QED BY <2>6, <3>1
  <2>8. r.num = n - 1 /\ r.head = f[1] /\ r.tail = f[n]
    BY <1>1, <2>3
  <2>9. ListHas(r, Taken(f, n, i), n - 1)
    BY <1>8, <2>3, <2>4, <2>7, <2>8, TakenHas
  <2> QED BY <2>9 DEF r
<1> QED BY <1>5, <1>6, <1>7, <1>8

\* gnb_doubly_linked_list_move_head: the node comes first, the others keep
\* their order; a list of two stays as it is.
LEMMA MoveHeadHas ==
  ASSUME NEW l, NEW n, NEW f, ListHas(l, f, n), NEW i \in 1..n
  PROVE  ListHas(ListMoveHead(l, f[i]), Moved(f, n, i), n)
<1>1. /\ IsList(l) /\ n \in Nat /\ l.num = n /\ f \in [1..n -> Node]
      /\ \A j, k \in 1..n : f[j] = f[k] => j = k
      /\ l.head = f[1] /\ l.tail = f[n]
      /\ l.pre \in [Node -> Node \cup {NoNode}] /\ l.nex \in [Node -> Node \cup {NoNode}]
      /\ \A j \in 1..n : /\ l.pre[f[j]] = IF j = 1 THEN NoNode ELSE f[j - 1]
                         /\ l.nex[f[j]] = IF j = n THEN NoNode ELSE f[j + 1]
  BY DEF ListHas
<1>2. NoNode \notin Node
  BY LruFacts
<1>3. 1 \in 1..n /\ n \in 1..n /\ n > 0
  BY <1>1
<1>4. IsList(l)
  BY <1>1
<1>5. CASE n \in {1, 2} \/ i = 1
  <2>1. l.pre[f[i]] = NoNode \/ l.num \in {1, 2}
    BY <1>1, <1>5
  <2>2. ListMoveHead(l, f[i]) = l
    BY <2>1 DEF ListMoveHead
  <2>3. Moved(f, n, i) = f
    <3>1. CASE n = 2
      BY <3>1 DEF Moved
    <3>2. CASE n # 2
      <4>1. i = 1
        BY <1>5, <3>2
      <4>2. \A j \in 1..n : (IF j = 1 THEN f[i] ELSE IF j <= i THEN f[j - 1] ELSE f[j]) = f[j]
        BY <4>1
      <4> QED BY <1>1, <3>2, <4>2 DEF Moved
    <3> QED BY <3>1, <3>2
  <2> QED BY <2>2, <2>3
<1>6. CASE ~(n \in {1, 2}) /\ i # 1
  <2> DEFINE r == ListMoveHead(l, f[i])
             g == Moved(f, n, i)
             m == f[i]
             h == f[1]
             p == f[i - 1]
             x == IF i = n THEN NoNode ELSE f[i + 1]
  <2>1. /\ i - 1 \in 1..n /\ (i # n => i + 1 \in 1..n) /\ p \in Node /\ x \in Node \cup {NoNode}
        /\ m \in Node /\ h \in Node
        /\ l.pre[m] = p /\ l.nex[m] = x /\ p # NoNode /\ ~(l.num \in {1, 2})
    BY <1>1, <1>2, <1>3, <1>6
  <2>2. (x = NoNode <=> i = n) /\ p # m /\ h # m
    BY <1>1, <1>2, <1>3, <1>6, <2>1
  <2>3. \A j \in 1..n : /\ f[j] = m <=> j = i
                        /\ f[j] = h <=> j = 1
                        /\ f[j] = p <=> j = i - 1
                        /\ f[j] = x <=> j = i + 1
                        /\ f[j] \in Node
    BY <1>1, <1>2, <1>3, <2>1, SMTT(30)
  <2>4. r = [l EXCEPT !.head = m, !.tail = IF x = NoNode THEN p ELSE @,
                      !.pre = [y \in DOMAIN @ |-> IF y = m THEN NoNode ELSE IF y = h THEN m
                                                  ELSE IF y = x THEN p ELSE @[y]],
                      !.nex = [@ EXCEPT ![p] = x, ![m] = h]]
    <3>1. l.head = h
      BY <1>1
    <3> HIDE DEF m, h, p, x
    <3>2. ListMoveHead(l, m) =
            [l EXCEPT !.head = m, !.tail = IF x = NoNode THEN p ELSE @,
                      !.pre = [y \in DOMAIN @ |-> IF y = m THEN NoNode ELSE IF y = l.head THEN m
                                                  ELSE IF y = x THEN p ELSE @[y]],
                      !.nex = [@ EXCEPT ![p] = x, ![m] = l.head]]
      BY <2>1, Zenon DEF ListMoveHead
    <3>3. r = ListMoveHead(l, m)
      BY DEF m
    <3> QED BY <3>1, <3>2, <3>3, Zenon
  <2> HIDE DEF r
  <2>5. /\ IsList(r) /\ r.head = m /\ r.num = l.num
        /\ r.tail = IF x = NoNode THEN p ELSE l.tail
        /\ r.pre = [y \in DOMAIN l.pre |-> IF y = m THEN NoNode ELSE IF y = h THEN m
                                           ELSE IF y = x THEN p ELSE l.pre[y]]
        /\ r.nex = [[l.nex EXCEPT ![p] = x] EXCEPT ![m] = h]
    <3> HIDE DEF m, h, p, x
    <3> QED BY <1>4, <2>4 DEF IsList
  <2>6. /\ r.pre \in [Node -> Node \cup {NoNode}] /\ r.nex \in [Node -> Node \cup {NoNode}]
        /\ \A y \in Node : r.pre[y] = IF y = m THEN NoNode ELSE IF y = h THEN m
                                      ELSE IF y = x THEN p ELSE l.pre[y]
        /\ \A y \in Node : r.nex[y] = IF y = m THEN h ELSE IF y = p THEN x ELSE l.nex[y]
    <3> HIDE DEF m, h, p, x
    <3> QED BY <1>1, <2>1, <2>5
  <2>7. \A j \in 1..n :
           /\ r.pre[f[j]] = IF j = i THEN NoNode ELSE IF j = 1 THEN m
                            ELSE IF j = i + 1 THEN p ELSE f[j - 1]
           /\ r.nex[f[j]] = IF j = i THEN h ELSE IF j = i - 1 THEN x
                            ELSE IF j = n THEN NoNode ELSE f[j + 1]
    <3> HIDE DEF m, h, p, x
    <3> QED BY <1>1, <2>3, <2>6
  <2>8. g = [j \in 1..n |-> IF j = 1 THEN m ELSE IF j <= i THEN f[j - 1] ELSE f[j]]
    BY <1>6 DEF Moved
  <2> HIDE DEF g
  <2>9. \A j \in 1..n : /\ j = 1 => g[j] = f[i]
                        /\ j # 1 /\ j <= i => j - 1 \in 1..n /\ g[j] = f[j - 1]
                        /\ j > i => g[j] = f[j]
    BY <1>1, <1>6, <2>8
  <2>10. g \in [1..n -> Node]
    BY <1>1, <2>8, <2>9
  <2>11. \A j, k \in 1..n : g[j] = g[k] => j = k
    <3> DEFINE At(j) == IF j = 1 THEN i ELSE IF j <= i THEN j - 1 ELSE j
    <3>1. \A j \in 1..n : At(j) \in 1..n /\ g[j] = f[At(j)]
      <4> SUFFICES ASSUME NEW j \in 1..n PROVE At(j) \in 1..n /\ g[j] = f[At(j)]
        OBVIOUS
      <4>1. CASE j = 1
        BY <1>1, <2>9, <4>1
      <4>2. CASE j # 1 /\ j <= i
        BY <2>9, <4>2
      <4>3. CASE j > i
        BY <1>1, <2>9, <4>3
      <4> QED BY <1>1, <4>1, <4>2, <4>3
    <3>2. \A j, k \in 1..n : At(j) = At(k) => j = k
      BY <1>1
    <3> HIDE DEF At
    <3> SUFFICES ASSUME NEW j \in 1..n, NEW k \in 1..n, g[j] = g[k] PROVE j = k
      OBVIOUS
    <3>3. PICK a, b \in 1..n : a = At(j) /\ b = At(k) /\ f[a] = f[b]
      BY <3>1
    <3>4. a = b
      BY <1>1, <3>3
    <3> QED BY <3>2, <3>3, <3>4
  <2>12. r.num = n /\ r.head = g[1] /\ r.tail = g[n]
    BY <1>1, <1>3, <1>6, <2>2, <2>5, <2>9
  <2>13. ASSUME NEW j \in 1..n
         PROVE  /\ r.pre[g[j]] = IF j = 1 THEN NoNode ELSE g[j - 1]
                /\ r.nex[g[j]] = IF j = n THEN NoNode ELSE g[j + 1]
    <3> USE DEF m, h, p, x
    <3>1. CASE j = 1
      BY <1>1, <1>3, <1>6, <2>7, <2>9, <3>1
    <3>2. CASE j # 1 /\ j <= i
      <4> DEFINE k == j - 1
      <4>1. k \in 1..n /\ k < i /\ g[j] = f[k] /\ j = k + 1
        <5>1. i \in Int /\ n \in Int /\ j \in Int /\ 1 <= j /\ j # 1 /\ j <= i /\ i <= n
          BY <1>1, <3>2
        <5>2. j - 1 \in 1..n /\ g[j] = f[j - 1]
          BY <2>9, <3>2
        <5>3. k = j - 1
          OBVIOUS
        <5> HIDE DEF k, m, h, p, x
        <5>4. k < i /\ j = k + 1
          BY <5>1, <5>3
        <5> QED BY <5>2, <5>3, <5>4
      <4>2. r.pre[f[k]] = IF k = 1 THEN m ELSE f[k - 1]
        BY <1>1, <2>7, <4>1
      <4>3. r.nex[f[k]] = IF k = i - 1 THEN x ELSE f[k + 1]
        BY <1>1, <2>7, <4>1
      <4>4. g[k] = IF k = 1 THEN f[i] ELSE f[k - 1]
        BY <1>1, <2>9, <4>1
      <4>5. j # n => g[j + 1] = IF k = i - 1 THEN f[i + 1] ELSE f[k + 1]
        <5>1. j # n => j + 1 \in 1..n /\ j + 1 # 1
          BY <1>1, <3>2
        <5>2. k = i - 1 <=> j + 1 > i
          BY <4>1
        <5> QED BY <1>1, <2>9, <4>1, <5>1, <5>2
      <4> HIDE DEF k
      <4>6. j = n <=> k = i - 1 /\ i = n
        BY <1>1, <4>1
      <4> QED BY <1>1, <3>2, <4>1, <4>2, <4>3, <4>4, <4>5, <4>6
    <3>3. CASE j > i
      <4>1. g[j] = f[j] /\ j # 1 /\ j # i /\ j # i - 1
        BY <1>1, <2>9, <3>3
      <4>2. r.pre[f[j]] = IF j = i + 1 THEN p ELSE f[j - 1]
        BY <2>7, <4>1
      <4>3. r.nex[f[j]] = IF j = n THEN NoNode ELSE f[j + 1]
        BY <2>7, <4>1
      <4>4. j # n => j + 1 \in 1..n /\ j + 1 > i
        BY <1>1, <3>3
      <4>5. j # n => g[j + 1] = f[j + 1]
        BY <2>9, <4>4
      <4>6. g[j - 1] = IF j = i + 1 THEN f[i - 1] ELSE f[j - 1]
        <5>1. j - 1 \in 1..n
          BY <1>1, <4>1
        <5>2. j = i + 1 => j - 1 = i
          OBVIOUS
        <5>3. j # i + 1 => j - 1 > i
          BY <3>3
        <5> QED BY <1>6, <2>9, <5>1, <5>2, <5>3
      <4> QED BY <4>1, <4>2, <4>3, <4>5, <4>6
    <3> QED BY <1>1, <3>1, <3>2, <3>3
  <2>14. ListHas(r, g, n)
    <3> HIDE DEF m, h, p, x
    <3> QED BY <1>1, <2>5, <2>6, <2>10, <2>11, <2>12, <2>13 DEF ListHas
  <2> QED BY <2>14 DEF r, g
<1> QED BY <1>5, <1>6

-----------------------------------------------------------------------------
(***************************************************************************)
(* The map.                                                                *)
(***************************************************************************)
\* The nodes of U have keys, each its own.
Keyed(U, ky) ==
  /\ U \subseteq Node
  /\ ky \in [Node -> Key \cup {Nothing}]
  /\ \A n \in U : ky[n] \in Key
  /\ \A m, n \in U : ky[m] = ky[n] => m = n

\* The chains of h hold the nodes of U, each once, under its key in ky and in
\* the bucket of that key.
MapHas(h, U, ky) ==
  /\ h.chain \in [Bucket -> Seq([key : Key, value : Node])]
  /\ h.chainLen \in [Bucket -> Nat]
  /\ \A b \in Bucket : h.chainLen[b] = Len(h.chain[b])
  /\ \A b \in Bucket : \A i \in 1..Len(h.chain[b]) :
       /\ h.chain[b][i].value \in U
       /\ h.chain[b][i].key = ky[h.chain[b][i].value]
       /\ BucketOf(h.chain[b][i].key) = b
  /\ \A b \in Bucket : \A i, j \in 1..Len(h.chain[b]) :
       h.chain[b][i].value = h.chain[b][j].value => i = j
  /\ \A n \in U : \E i \in 1..Len(h.chain[BucketOf(ky[n])]) :
       h.chain[BucketOf(ky[n])][i].value = n

\* Every key has a bucket.
LEMMA BucketFact == \A k \in Key : BucketOf(k) \in Bucket
<1> SUFFICES ASSUME NEW k \in Key PROVE BucketOf(k) \in Bucket
  OBVIOUS
<1>1. HashOf[k] \in Nat /\ BucketNum \in Nat \ {0}
  BY LruAssumption, HashAssumption
<1>2. HashOf[k] % BucketNum \in 0..(BucketNum - 1)
  BY <1>1
<1> QED BY <1>2 DEF BucketOf, Bucket

\* A sequence without its i-th element.
IsCut(T, c, i, d) ==
  c \in Seq(T) /\ i \in 1..Len(c) /\ d = SubSeq(c, 1, i - 1) \o SubSeq(c, i + 1, Len(c))

LEMMA CutSeq ==
  ASSUME NEW T, NEW c, NEW i, NEW d, IsCut(T, c, i, d)
  PROVE  /\ d \in Seq(T) /\ Len(d) = Len(c) - 1
         /\ \A j \in 1..Len(d) : d[j] = IF j < i THEN c[j] ELSE c[j + 1]
<1> DEFINE n == Len(c)
           front == SubSeq(c, 1, i - 1)
           back == SubSeq(c, i + 1, n)
<1>1. n \in Nat /\ i \in 1..n /\ c \in Seq(T)
  BY DEF IsCut
<1>2. /\ front \in Seq(T) /\ Len(front) = i - 1
      /\ \A j \in 1..(i - 1) : front[j] = c[j]
  BY <1>1
<1>3. /\ back \in Seq(T) /\ Len(back) = n - i
      /\ \A j \in 1..(n - i) : back[j] = c[i + j]
  BY <1>1
<1>4. d = front \o back
  BY DEF IsCut
<1> HIDE DEF n, front, back
<1>5. /\ d \in Seq(T) /\ Len(d) = n - 1
      /\ \A j \in 1..(n - 1) : d[j] = IF j <= i - 1 THEN front[j] ELSE back[j - (i - 1)]
  <2>1. /\ d \in Seq(T) /\ Len(d) = Len(front) + Len(back)
        /\ \A j \in 1..(Len(front) + Len(back)) :
             d[j] = IF j <= Len(front) THEN front[j] ELSE back[j - Len(front)]
    <3>1. front \in Seq(T) /\ back \in Seq(T)
      BY <1>2, <1>3
    <3>2. /\ front \o back \in Seq(T) /\ Len(front \o back) = Len(front) + Len(back)
          /\ \A j \in 1..(Len(front) + Len(back)) :
               (front \o back)[j] = IF j <= Len(front) THEN front[j] ELSE back[j - Len(front)]
      BY ONLY <3>1, ConcatProperties, Zenon
    <3> QED BY ONLY <3>2, <1>4, Zenon
  <2>2. (i - 1) + (n - i) = n - 1
    BY <1>1
  <2> QED BY ONLY <1>2, <1>3, <2>1, <2>2
<1>6. ASSUME NEW j \in 1..(n - 1)
      PROVE  d[j] = IF j < i THEN c[j] ELSE c[j + 1]
  <2>1. CASE j < i
    <3>1. j \in 1..(i - 1) /\ j <= i - 1
      BY <1>1, <2>1
    <3>2. d[j] = front[j] /\ front[j] = c[j]
      BY ONLY <1>2, <1>5, <1>6, <3>1
    <3> QED BY <2>1, <3>2
  <2>2. CASE ~(j < i)
    <3>1. j - (i - 1) \in 1..(n - i) /\ i + (j - (i - 1)) = j + 1
      BY <1>1, <2>2
    <3>2. back[j - (i - 1)] = c[j + 1]
      BY <1>3, <3>1
    <3>3. ~(j <= i - 1)
      BY <1>1, <2>2
    <3>4. d[j] = back[j - (i - 1)]
      BY ONLY <1>5, <3>3, <1>6
    <3> QED BY <2>2, <3>2, <3>4
  <2> QED BY <2>1, <2>2
<1>7. n = Len(c)
  BY DEF n
<1> QED BY <1>5, <1>6, <1>7

\* A key is at most at one place of its chain: that of the node with this key.
LEMMA PlacesAre ==
  ASSUME NEW h, NEW U, NEW ky, MapHas(h, U, ky), Keyed(U, ky), NEW k \in Key
  PROVE  /\ \A n \in U : ky[n] = k =>
              \E i \in 1..Len(h.chain[BucketOf(k)]) :
                 /\ h.chain[BucketOf(k)][i].value = n
                 /\ Places(h.chain[BucketOf(k)], k) = {i}
                 /\ Place(h.chain[BucketOf(k)], k) = i
         /\ (\A n \in U : ky[n] # k) => Places(h.chain[BucketOf(k)], k) = {}
<1> DEFINE c == h.chain[BucketOf(k)]
<1>1. /\ BucketOf(k) \in Bucket /\ c \in Seq([key : Key, value : Node])
      /\ \A i \in 1..Len(c) : c[i].value \in U /\ c[i].key = ky[c[i].value]
      /\ \A i, j \in 1..Len(c) : c[i].value = c[j].value => i = j
  BY BucketFact DEF MapHas
<1>2. \A n \in U : ky[n] = k => \E i \in 1..Len(c) : c[i].value = n
  BY DEF MapHas
<1>3. \A m, n \in U : ky[m] = ky[n] => m = n
  BY DEF Keyed
<1>4. DOMAIN c = 1..Len(c)
  BY <1>1
<1> HIDE DEF c
<1>5. ASSUME NEW n \in U, ky[n] = k
      PROVE  \E i \in 1..Len(c) : c[i].value = n /\ Places(c, k) = {i} /\ Place(c, k) = i
  <2>1. PICK i \in 1..Len(c) : c[i].value = n
    BY <1>2, <1>5
  <2>2. \A j \in 1..Len(c) : c[j].key = k <=> j = i
    BY <1>1, <1>3, <1>5, <2>1
  <2>3. Places(c, k) = {i}
    BY <1>4, <2>2 DEF Places
  <2>4. Place(c, k) = i
    <3>1. i \in {i} /\ \A j \in {i} : i <= j
      OBVIOUS
    <3> QED BY <2>3, <3>1 DEF Place
  <2> QED BY <2>1, <2>3, <2>4
<1>6. ASSUME \A n \in U : ky[n] # k
      PROVE  Places(c, k) = {}
  BY <1>1, <1>4, <1>6 DEF Places
<1> QED BY <1>5, <1>6 DEF c

\* gnb_hash32_get: the node with the key, NULL when there is none.
LEMMA GetHas ==
  ASSUME NEW h, NEW U, NEW ky, MapHas(h, U, ky), Keyed(U, ky), NEW k \in Key
  PROVE  /\ \A n \in U : ky[n] = k => KvGet(h, k) = n
         /\ (\A n \in U : ky[n] # k) => KvGet(h, k) = NULL
<1> DEFINE c == h.chain[BucketOf(k)]
<1>1. ASSUME NEW n \in U, ky[n] = k PROVE KvGet(h, k) = n
  <2>1. PICK i \in 1..Len(c) : c[i].value = n /\ Places(c, k) = {i} /\ Place(c, k) = i
    BY <1>1, PlacesAre
  <2> QED BY <2>1 DEF KvGet
<1>2. ASSUME \A n \in U : ky[n] # k PROVE KvGet(h, k) = NULL
  BY <1>2, PlacesAre, LruFacts, SMTT(30) DEF KvGet
<1> QED BY <1>1, <1>2

\* gnb_hash32_set, for a key that no node has.
LEMMA SetHas ==
  ASSUME NEW h, NEW U, NEW ky, MapHas(h, U, ky), Keyed(U, ky), NEW k \in Key,
         NEW n \in Node, n \notin U, \A m \in U : ky[m] # k
  PROVE  /\ MapHas(KvSet(h, k, n), U \cup {n}, [ky EXCEPT ![n] = k])
         /\ KvSet(h, k, n).kvNum = h.kvNum + 1
         /\ Keyed(U \cup {n}, [ky EXCEPT ![n] = k])
<1> DEFINE b == BucketOf(k)
           c == h.chain[b]
           p == [key |-> k, value |-> n]
           d == Append(c, p)
           r == KvSet(h, k, n)
           V == U \cup {n}
           ly == [ky EXCEPT ![n] = k]
<1>1. Keyed(V, ly) /\ ly[n] = k /\ \A m \in U : m # n /\ ly[m] = ky[m]
  BY DEF Keyed
<1>2. Places(c, k) = {}
  BY PlacesAre
<1>3. r = [chain |-> [h.chain EXCEPT ![b] = d],
           chainLen |-> [h.chainLen EXCEPT ![b] = IF c = <<>> THEN 1 ELSE @ + 1],
           kvNum |-> h.kvNum + 1]
  BY <1>2, Zenon DEF KvSet
<1>4. /\ h.chain \in [Bucket -> Seq([key : Key, value : Node])] /\ b \in Bucket
      /\ c \in Seq([key : Key, value : Node]) /\ p \in [key : Key, value : Node]
      /\ p.key = k /\ p.value = n
      /\ h.chainLen \in [Bucket -> Nat] /\ h.chainLen[b] = Len(c)
  BY BucketFact DEF MapHas
<1> HIDE DEF p, c, b
<1>5. /\ d \in Seq([key : Key, value : Node]) /\ Len(d) = Len(c) + 1 /\ Len(c) \in Nat
      /\ \A i \in 1..Len(d) : d[i] = IF i = Len(c) + 1 THEN p ELSE c[i]
  BY <1>4
<1> HIDE DEF d, r, V, ly
<1>6. /\ r.chain = [h.chain EXCEPT ![b] = d] /\ r.kvNum = h.kvNum + 1
      /\ r.chainLen = [h.chainLen EXCEPT ![b] = IF c = <<>> THEN 1 ELSE @ + 1]
  BY <1>3
<1>7. /\ r.chain \in [Bucket -> Seq([key : Key, value : Node])]
      /\ \A x \in Bucket : r.chain[x] = IF x = b THEN d ELSE h.chain[x]
  <2> DEFINE Q == Seq([key : Key, value : Node])
  <2>1. h.chain \in [Bucket -> Q] /\ d \in Q /\ r.chain = [h.chain EXCEPT ![b] = d]
    BY <1>4, <1>5, <1>6
  <2> HIDE DEF Q
  <2>2. /\ r.chain \in [Bucket -> Q]
        /\ \A x \in Bucket : r.chain[x] = IF x = b THEN d ELSE h.chain[x]
    BY ONLY <2>1
  <2> QED BY <2>2 DEF Q
<1>8. r.chainLen \in [Bucket -> Nat] /\ \A x \in Bucket : r.chainLen[x] = Len(r.chain[x])
  <2>1. c = <<>> => Len(c) = 0
    OBVIOUS
  <2>2. (IF c = <<>> THEN 1 ELSE h.chainLen[b] + 1) = Len(d)
    BY <1>4, <1>5, <2>1
  <2>3. \A x \in Bucket : h.chainLen[x] = Len(h.chain[x])
    BY DEF MapHas
  <2>4. Len(d) \in Nat
    BY <1>5
  <2>5. r.chainLen = [h.chainLen EXCEPT ![b] = Len(d)]
    BY <1>6, <2>2, Zenon
  <2> QED BY <1>4, <1>7, <2>3, <2>4, <2>5
<1>9. ASSUME NEW x \in Bucket, NEW i \in 1..Len(r.chain[x])
      PROVE  /\ r.chain[x][i].value \in V
             /\ r.chain[x][i].key = ly[r.chain[x][i].value]
             /\ BucketOf(r.chain[x][i].key) = x
  <2>1. CASE x = b /\ i = Len(c) + 1
    <3>1. r.chain[x][i] = p
      BY <1>5, <1>7, <2>1
    <3> QED BY <1>1, <1>4, <2>1, <3>1 DEF V, b
  <2>2. CASE ~(x = b /\ i = Len(c) + 1)
    <3>1. r.chain[x][i] = h.chain[x][i] /\ i \in 1..Len(h.chain[x])
      BY <1>4, <1>5, <1>7, <2>2 DEF c
    <3>2. /\ h.chain[x][i].value \in U /\ h.chain[x][i].key = ky[h.chain[x][i].value]
          /\ BucketOf(h.chain[x][i].key) = x
      BY <3>1 DEF MapHas
    <3> QED BY <1>1, <3>1, <3>2 DEF V
  <2> QED BY <2>1, <2>2
<1>10. ASSUME NEW x \in Bucket, NEW i \in 1..Len(r.chain[x]), NEW j \in 1..Len(r.chain[x]),
              r.chain[x][i].value = r.chain[x][j].value
       PROVE  i = j
  <2>1. \A y \in 1..Len(r.chain[x]) :
           \/ x = b /\ y = Len(c) + 1 /\ r.chain[x][y].value = n
           \/ /\ ~(x = b /\ y = Len(c) + 1) /\ y \in 1..Len(h.chain[x])
              /\ r.chain[x][y].value = h.chain[x][y].value /\ r.chain[x][y].value # n
    <3> SUFFICES ASSUME NEW y \in 1..Len(r.chain[x])
                 PROVE  \/ x = b /\ y = Len(c) + 1 /\ r.chain[x][y].value = n
                        \/ /\ ~(x = b /\ y = Len(c) + 1) /\ y \in 1..Len(h.chain[x])
                           /\ r.chain[x][y].value = h.chain[x][y].value
                           /\ r.chain[x][y].value # n
      OBVIOUS
    <3>1. CASE x = b /\ y = Len(c) + 1
      <4>1. r.chain[x][y] = p
        BY <1>5, <1>7, <3>1
      <4> QED BY <1>4, <3>1, <4>1
    <3>2. CASE ~(x = b /\ y = Len(c) + 1)
      <4>1. r.chain[x][y] = h.chain[x][y] /\ y \in 1..Len(h.chain[x])
        BY <1>4, <1>5, <1>7, <3>2, SMTT(30) DEF c
      <4>2. h.chain[x][y].value \in U
        BY <4>1 DEF MapHas
      <4> QED BY <1>1, <3>2, <4>1, <4>2
    <3> QED BY <3>1, <3>2
  <2>2. \A y, z \in 1..Len(h.chain[x]) : h.chain[x][y].value = h.chain[x][z].value => y = z
    BY DEF MapHas
  <2> QED BY <1>10, <2>1, <2>2
<1>11. ASSUME NEW m \in V
       PROVE  \E i \in 1..Len(r.chain[BucketOf(ly[m])]) : r.chain[BucketOf(ly[m])][i].value = m
  <2>1. CASE m = n
    <3>1. BucketOf(ly[m]) = b /\ r.chain[b] = d /\ Len(c) + 1 \in 1..Len(d)
          /\ d[Len(c) + 1].value = m
      BY <1>1, <1>4, <1>5, <1>7, <2>1 DEF b
    <3> QED BY <3>1
  <2>2. CASE m # n
    <3>1. m \in U /\ ly[m] = ky[m] /\ ky[m] \in Key /\ BucketOf(ky[m]) \in Bucket
      BY <1>1, <2>2, BucketFact DEF V, Keyed
    <3>2. PICK i \in 1..Len(h.chain[BucketOf(ky[m])]) : h.chain[BucketOf(ky[m])][i].value = m
      BY <3>1 DEF MapHas
    <3> DEFINE x == BucketOf(ky[m])
    <3>3. i \in 1..Len(r.chain[x]) /\ r.chain[x][i] = h.chain[x][i]
      <4>1. x \in Bucket /\ i \in 1..Len(h.chain[x])
        BY <3>1, <3>2
      <4> HIDE DEF x
      <4>2. CASE x = b
        <5>1. r.chain[x] = d /\ h.chain[x] = c
          BY <1>7, <4>1, <4>2 DEF c
        <5>2. i \in 1..Len(d) /\ i # Len(c) + 1
          BY <1>5, <4>1, <5>1
        <5>3. d[i] = c[i]
          BY <1>5, <5>2
        <5> QED BY <5>1, <5>2, <5>3
      <4>3. CASE x # b
        BY <1>7, <4>1, <4>3
      <4> QED BY <4>2, <4>3
    <3> QED BY <3>1, <3>2, <3>3
  <2> QED BY <2>1, <2>2
<1>12. MapHas(r, V, ly)
  BY <1>7, <1>8, <1>9, <1>10, <1>11 DEF MapHas
<1> QED BY <1>1, <1>6, <1>12 DEF r, V, ly

\* gnb_hash32_del: the pair at the head of its chain, or another one.
LEMMA DelHas ==
  ASSUME NEW h, NEW U, NEW ky, MapHas(h, U, ky), Keyed(U, ky), NEW n \in U
  PROVE  /\ MapHas(KvDel(h, ky[n]), U \ {n}, ky)
         /\ KvDel(h, ky[n]).kvNum = h.kvNum - 1
         /\ Keyed(U \ {n}, ky)
<1>0. PICK k : k = ky[n]
  OBVIOUS
<1> DEFINE b == BucketOf(k)
           c == h.chain[b]
           r == KvDel(h, k)
           V == U \ {n}
           T == [key : Key, value : Node]
<1>1. Keyed(V, ky) /\ k \in Key /\ b \in Bucket
  BY <1>0, BucketFact DEF Keyed
<1>2. PICK i \in 1..Len(c) : c[i].value = n /\ Places(c, k) = {i} /\ Place(c, k) = i
  BY <1>0, <1>1, PlacesAre
<1>3. /\ h.chain \in [Bucket -> Seq(T)] /\ c \in Seq(T)
      /\ h.chainLen \in [Bucket -> Nat] /\ h.chainLen[b] = Len(c)
      /\ \A x \in Bucket : h.chainLen[x] = Len(h.chain[x])
  BY <1>1 DEF MapHas
<1> DEFINE d == SubSeq(c, 1, i - 1) \o SubSeq(c, i + 1, Len(c))
           e == IF i = 1 /\ h.chainLen[b] = 1 THEN <<>> ELSE d
<1>4. r = [chain |-> [h.chain EXCEPT ![b] = e],
           chainLen |-> [h.chainLen EXCEPT ![b] = @ - 1],
           kvNum |-> h.kvNum - 1]
  <2>1. Places(c, k) # {}
    BY <1>2
  <2> QED BY <1>2, <2>1, Zenon DEF KvDel
<1> HIDE DEF T, b, c
<1>5. /\ d \in Seq(T) /\ Len(d) = Len(c) - 1
      /\ \A j \in 1..Len(d) : d[j] = IF j < i THEN c[j] ELSE c[j + 1]
  <2>1. IsCut(T, c, i, d)
    BY <1>3 DEF IsCut
  <2> HIDE DEF d
  <2> QED BY <2>1, CutSeq
<1> HIDE DEF d
<1>6. e = d
  <2>1. Len(c) = 1 => d = <<>>
    BY <1>5
  <2> QED BY <1>3, <2>1
<1> HIDE DEF r, e, V
<1>7. /\ r.chain = [h.chain EXCEPT ![b] = d] /\ r.kvNum = h.kvNum - 1
      /\ r.chainLen = [h.chainLen EXCEPT ![b] = h.chainLen[b] - 1]
  BY <1>4, <1>6
<1>8. /\ r.chain \in [Bucket -> Seq(T)]
      /\ \A x \in Bucket : r.chain[x] = IF x = b THEN d ELSE h.chain[x]
  BY <1>1, <1>3, <1>5, <1>7
<1>9. Len(c) \in Nat /\ Len(d) \in Nat /\ i \in 1..Len(c)
  BY <1>3, <1>5
<1>10. r.chainLen \in [Bucket -> Nat] /\ \A x \in Bucket : r.chainLen[x] = Len(r.chain[x])
  <2>1. h.chainLen[b] - 1 = Len(d)
    BY <1>3, <1>5, <1>9
  <2>2. r.chainLen = [h.chainLen EXCEPT ![b] = Len(d)]
    BY <1>7, <2>1, Zenon
  <2> QED BY <1>1, <1>3, <1>8, <1>9, <2>2

\* Where what is in r comes from.
<1> DEFINE At(x, j) == IF x = b /\ ~(j < i) THEN j + 1 ELSE j
<1>11. ASSUME NEW x \in Bucket, NEW j \in 1..Len(r.chain[x])
       PROVE  /\ At(x, j) \in 1..Len(h.chain[x]) /\ r.chain[x][j] = h.chain[x][At(x, j)]
              /\ (x = b => At(x, j) # i)
  <2>1. CASE x = b
    <3>1. r.chain[x] = d /\ h.chain[x] = c /\ j \in 1..Len(d)
      BY <1>8, <2>1 DEF c
    <3>2. d[j] = IF j < i THEN c[j] ELSE c[j + 1]
      BY <1>5, <3>1
    <3>3. At(x, j) = (IF j < i THEN j ELSE j + 1)
      BY <2>1
    <3>4. (IF j < i THEN j ELSE j + 1) \in 1..Len(c) /\ (IF j < i THEN j ELSE j + 1) # i
      BY <1>5, <1>9, <3>1
    <3> HIDE DEF At
    <3> QED BY <3>1, <3>2, <3>3, <3>4
  <2>2. CASE x # b
    BY <1>8, <2>2
  <2> QED BY <2>1, <2>2
<1>12. ASSUME NEW x \in Bucket, NEW y \in Bucket, x = b => y = b
       PROVE  \A p, q \in Nat : x = y /\ At(x, p) = At(x, q) => p = q
  BY <1>9
<1> HIDE DEF At
<1>13. ASSUME NEW x \in Bucket, NEW j \in 1..Len(r.chain[x])
       PROVE  /\ r.chain[x][j].value \in V
              /\ r.chain[x][j].key = ky[r.chain[x][j].value]
              /\ BucketOf(r.chain[x][j].key) = x
  <2> DEFINE a == At(x, j)
  <2>1. a \in 1..Len(h.chain[x]) /\ r.chain[x][j] = h.chain[x][a] /\ (x = b => a # i)
    BY <1>11
  <2> HIDE DEF a
  <2>2. /\ h.chain[x][a].value \in U /\ h.chain[x][a].key = ky[h.chain[x][a].value]
        /\ BucketOf(h.chain[x][a].key) = x
    BY <2>1 DEF MapHas
  <2>3. h.chain[x][a].value # n
    <3>1. SUFFICES ASSUME h.chain[x][a].value = n PROVE FALSE
      OBVIOUS
    <3>2. x = b
      BY <1>0, <2>2, <3>1 DEF b
    <3>3. h.chain[b][a].value = h.chain[b][i].value
      BY <1>2, <3>1, <3>2 DEF c
    <3>4. a \in 1..Len(h.chain[b]) /\ i \in 1..Len(h.chain[b])
      BY <1>2, <2>1, <3>2 DEF c
    <3>5. a = i
      BY <1>1, <3>3, <3>4 DEF MapHas
    <3> QED BY <2>1, <3>2, <3>5
  <2> QED BY <2>1, <2>2, <2>3 DEF V
<1>14. ASSUME NEW x \in Bucket, NEW j \in 1..Len(r.chain[x]), NEW m \in 1..Len(r.chain[x]),
              r.chain[x][j].value = r.chain[x][m].value
       PROVE  j = m
  <2>1. /\ At(x, j) \in 1..Len(h.chain[x]) /\ r.chain[x][j] = h.chain[x][At(x, j)]
        /\ At(x, m) \in 1..Len(h.chain[x]) /\ r.chain[x][m] = h.chain[x][At(x, m)]
    BY <1>11
  <2>2. At(x, j) = At(x, m)
    <3>1. \A y, z \in 1..Len(h.chain[x]) : h.chain[x][y].value = h.chain[x][z].value => y = z
      BY DEF MapHas
    <3> QED BY <1>14, <2>1, <3>1
  <2> QED BY <1>12, <2>2
<1>15. ASSUME NEW m \in V
       PROVE  \E j \in 1..Len(r.chain[BucketOf(ky[m])]) : r.chain[BucketOf(ky[m])][j].value = m
  <2> DEFINE x == BucketOf(ky[m])
  <2>1. x \in Bucket /\ m \in U /\ m # n
    BY BucketFact DEF V, Keyed
  <2>2. PICK a \in 1..Len(h.chain[x]) : h.chain[x][a].value = m
    BY <2>1 DEF MapHas
  <2> HIDE DEF x
  <2>3. CASE x # b
    <3>1. r.chain[x] = h.chain[x]
      BY <1>8, <2>1, <2>3
    <3>2. \E j \in 1..Len(r.chain[x]) : r.chain[x][j].value = m
      BY <2>2, <3>1
    <3> QED BY <3>2 DEF x
  <2>4. CASE x = b
    <3>1. r.chain[x] = d /\ h.chain[x] = c
      BY <1>8, <2>1, <2>4 DEF c
    <3>2. a \in 1..Len(c) /\ c[a].value = m /\ a # i
      BY <1>2, <2>1, <2>2, <3>1
    <3>3. CASE a < i
      <4>1. a \in 1..Len(d) /\ d[a] = c[a]
        BY <1>5, <1>9, <3>2, <3>3
      <4>2. \E j \in 1..Len(r.chain[x]) : r.chain[x][j].value = m
        BY <3>1, <3>2, <4>1
      <4> QED BY <4>2 DEF x
    <3>4. CASE a > i
      <4>1. a - 1 \in 1..Len(d) /\ ~(a - 1 < i) /\ (a - 1) + 1 = a
        BY <1>5, <1>9, <3>2, <3>4
      <4>2. d[a - 1] = c[a]
        BY <1>5, <4>1
      <4>3. \E j \in 1..Len(r.chain[x]) : r.chain[x][j].value = m
        BY <3>1, <3>2, <4>1, <4>2
      <4> QED BY <4>3 DEF x
    <3> QED BY <1>9, <3>2, <3>3, <3>4
  <2> QED BY <2>3, <2>4
<1>16. MapHas(r, V, ky)
  BY <1>8, <1>10, <1>13, <1>14, <1>15 DEF MapHas, T
<1> QED BY <1>0, <1>1, <1>7, <1>16 DEF r, V

-----------------------------------------------------------------------------
(***************************************************************************)
(* List, map and pools together.                                           *)
(***************************************************************************)
\* The nodes of the entries in the list.
Held(dD, f, sz) == {dD[f[i]] : i \in 1..sz}

\* The list is in the order f, the pools have what is not in it, each entry's
\* node and list node know each other, and the map has the entries' keys.
InOrder(np, dp, mp, ls, dD, dN, ky, sz, f) ==
  /\ sz \in 0..MaxSize /\ ListHas(ls, f, sz)
  /\ PoolOK(np, MaxSize) /\ PoolOK(dp, MaxSize)
  /\ PoolFree(dp) = Node \ {f[i] : i \in 1..sz}
  /\ PoolFree(np) = Node \ Held(dD, f, sz)
  /\ dD \in [Node -> Node \cup {NULL}] /\ dN \in [Node -> Node \cup {NULL}]
  /\ \A i \in 1..sz : dD[f[i]] \in Node /\ dN[dD[f[i]]] = f[i]
  /\ Keyed(Held(dD, f, sz), ky)
  /\ MapHas(mp, Held(dD, f, sz), ky) /\ mp.kvNum = sz

\* Of n < MaxSize values one node is missing.
LEMMA OneIsMissing ==
  ASSUME NEW g, NEW n \in Nat, n < MaxSize
  PROVE  \E x \in Node : \A i \in 1..n : g[i] # x
<1> SUFFICES ASSUME \A x \in Node : \E i \in 1..n : g[i] = x PROVE FALSE
  OBVIOUS
<1> DEFINE at == [x \in Node |-> CHOOSE i \in 1..n : g[i] = x]
<1>1. \A x \in Node : at[x] \in 1..n /\ g[at[x]] = x
  OBVIOUS
<1>2. at \in [Node -> 1..n]
  BY <1>1
<1>3. IsFiniteSet(1..n) /\ Cardinality(1..n) = n
  BY FS_Interval
<1>4. IsFiniteSet(Node) /\ Cardinality(Node) = MaxSize
  <2>1. MaxSize \in Nat \ {0} /\ Node = 0..(MaxSize - 1) /\ 0 \in Int /\ MaxSize - 1 \in Int
    BY LruFacts
  <2>2. /\ IsFiniteSet(0..(MaxSize - 1))
        /\ Cardinality(0..(MaxSize - 1)) = IF 0 > MaxSize - 1 THEN 0 ELSE (MaxSize - 1) - 0 + 1
    BY <2>1, FS_Interval
  <2> QED BY <2>1, <2>2
<1> HIDE DEF at
<1>5. Cardinality(Node) > Cardinality(1..n)
  BY <1>3, <1>4, LruFacts
<1>6. \E x, y \in Node : x # y /\ at[x] = at[y]
  BY ONLY <1>2, <1>3, <1>4, <1>5, FS_PigeonHole
<1> QED BY <1>1, <1>6

\* Two orders of the same list nodes, and what the nodes hold.
LEMMA SameHeld ==
  ASSUME NEW f, NEW g, NEW n, NEW w,
         \A i \in 1..n : \E j \in 1..n : g[i] = f[j],
         \A i \in 1..n : \E j \in 1..n : f[i] = g[j]
  PROVE  /\ {g[i] : i \in 1..n} = {f[i] : i \in 1..n}
         /\ {w[g[i]] : i \in 1..n} = {w[f[i]] : i \in 1..n}
<1>1. ASSUME NEW i \in 1..n
      PROVE  g[i] \in {f[j] : j \in 1..n} /\ w[g[i]] \in {w[f[j]] : j \in 1..n}
  <2>1. PICK j \in 1..n : g[i] = f[j]
    OBVIOUS
  <2> QED BY <2>1
<1>2. ASSUME NEW i \in 1..n
      PROVE  f[i] \in {g[j] : j \in 1..n} /\ w[f[i]] \in {w[g[j]] : j \in 1..n}
  <2>1. PICK j \in 1..n : f[i] = g[j]
    OBVIOUS
  <2> QED BY <2>1
<1>3. ASSUME NEW x PROVE x \in {g[i] : i \in 1..n} <=> x \in {f[i] : i \in 1..n}
  BY <1>1, <1>2
<1>4. ASSUME NEW x PROVE x \in {w[g[i]] : i \in 1..n} <=> x \in {w[f[i]] : i \in 1..n}
  BY <1>1, <1>2
<1>5. {g[i] : i \in 1..n} = {f[i] : i \in 1..n}
  BY ONLY <1>3
<1>6. {w[g[i]] : i \in 1..n} = {w[f[i]] : i \in 1..n}
  BY ONLY <1>4
<1> QED BY <1>5, <1>6

\* Another order of the same list nodes.
LEMMA ReorderKeeps ==
  ASSUME NEW np, NEW dp, NEW mp, NEW ls, NEW dD, NEW dN, NEW ky, NEW sz, NEW f,
         InOrder(np, dp, mp, ls, dD, dN, ky, sz, f),
         NEW l, NEW g, ListHas(l, g, sz),
         \A i \in 1..sz : \E j \in 1..sz : g[i] = f[j],
         \A i \in 1..sz : \E j \in 1..sz : f[i] = g[j]
  PROVE  InOrder(np, dp, mp, l, dD, dN, ky, sz, g)
<1>1. {g[i] : i \in 1..sz} = {f[i] : i \in 1..sz}
  BY SameHeld
<1>2. Held(dD, g, sz) = Held(dD, f, sz)
  BY SameHeld DEF Held
<1>3. \A i \in 1..sz : dD[g[i]] \in Node /\ dN[dD[g[i]]] = g[i]
  BY DEF InOrder
<1> QED BY <1>1, <1>2, <1>3 DEF InOrder

\* g has the nodes of f but the i-th.
TheOthers(g, f, n, i) ==
  /\ \A j \in 1..(n - 1) : \E k \in 1..n : k # i /\ g[j] = f[k]
  /\ \A k \in 1..n : k # i => \E j \in 1..(n - 1) : g[j] = f[k]

\* Taking one out leaves them.
LEMMA TakenHasTheOthers ==
  ASSUME NEW l, NEW f, NEW n, ListHas(l, f, n), NEW i \in 1..n
  PROVE  TheOthers(Taken(f, n, i), f, n, i)
<1> DEFINE g == Taken(f, n, i)
<1>0. n \in Nat /\ f \in [1..n -> Node]
  BY DEF ListHas
<1>1. ASSUME NEW j \in 1..(n - 1)
      PROVE  \E k \in 1..n : k # i /\ g[j] = f[k]
  <2>1. CASE j < i
    BY <1>0, <2>1 DEF Taken
  <2>2. CASE ~(j < i)
    <3>1. j + 1 \in 1..n /\ j + 1 # i /\ g[j] = f[j + 1]
      BY <1>0, <2>2 DEF Taken
    <3> QED BY <3>1
  <2> QED BY <2>1, <2>2
<1>2. ASSUME NEW k \in 1..n, k # i
      PROVE  \E j \in 1..(n - 1) : g[j] = f[k]
  <2>1. CASE k < i
    BY <1>0, <2>1 DEF Taken
  <2>2. CASE ~(k < i)
    <3>1. k - 1 \in 1..(n - 1) /\ ~(k - 1 < i) /\ (k - 1) + 1 = k
      BY <1>0, <1>2, <2>2
    <3>2. g[k - 1] = f[k]
      BY <3>1 DEF Taken
    <3> QED BY <3>1, <3>2
  <2> QED BY <2>1, <2>2
<1> QED BY <1>1, <1>2 DEF TheOthers

\* An entry is taken out: of the list, of the map, and its nodes go back.
LEMMA RemoveKeeps ==
  ASSUME NEW np, NEW dp, NEW mp, NEW ls, NEW dD, NEW dN, NEW ky, NEW sz, NEW f,
         InOrder(np, dp, mp, ls, dD, dN, ky, sz, f),
         NEW i \in 1..sz, NEW l, ListHas(l, Taken(f, sz, i), sz - 1)
  PROVE  InOrder(PoolPush(np, dD[f[i]]), PoolPush(dp, f[i]), KvDel(mp, ky[dD[f[i]]]), l,
                 dD, dN, ky, sz - 1, Taken(f, sz, i))
<1> DEFINE g == Taken(f, sz, i)
           n == dD[f[i]]
           U == Held(dD, f, sz)
<1>1. /\ sz \in Nat /\ sz \in 0..MaxSize /\ f \in [1..sz -> Node]
      /\ \A j, k \in 1..sz : f[j] = f[k] => j = k
      /\ \A j \in 1..sz : dD[f[j]] \in Node /\ dN[dD[f[j]]] = f[j]
      /\ MaxSize \in Nat
  BY LruFacts DEF InOrder, ListHas
<1>2. /\ \A j \in 1..(sz - 1) : \E k \in 1..sz : k # i /\ g[j] = f[k]
      /\ \A k \in 1..sz : k # i => \E j \in 1..(sz - 1) : g[j] = f[k]
  <2>1. ListHas(ls, f, sz)
    BY DEF InOrder
  <2>2. TheOthers(g, f, sz, i)
    BY <2>1, TakenHasTheOthers
  <2> QED BY <2>2 DEF TheOthers
<1> HIDE DEF g
<1>3. {g[j] : j \in 1..(sz - 1)} = {f[j] : j \in 1..sz} \ {f[i]}
  <2>1. ASSUME NEW x \in {g[j] : j \in 1..(sz - 1)}
        PROVE  x \in {f[j] : j \in 1..sz} \ {f[i]}
    <3>1. PICK j \in 1..(sz - 1) : x = g[j]
      OBVIOUS
    <3>2. PICK k \in 1..sz : k # i /\ x = f[k]
      BY <1>2, <3>1
    <3> QED BY <1>1, <3>2
  <2>2. ASSUME NEW x \in {f[j] : j \in 1..sz}, x # f[i]
        PROVE  x \in {g[j] : j \in 1..(sz - 1)}
    <3>1. PICK k \in 1..sz : x = f[k]
      OBVIOUS
    <3>2. k # i
      BY <2>2, <3>1
    <3> QED BY <1>2, <3>1, <3>2
  <2> QED BY <2>1, <2>2
<1>4. Held(dD, g, sz - 1) = U \ {n}
  <2>1. \A j, k \in 1..sz : dD[f[j]] = dD[f[k]] => j = k
    BY <1>1
  <2> QED BY <1>2, <2>1 DEF Held
<1>5. n \in Node /\ n \in U /\ f[i] \in Node
  BY <1>1 DEF Held
<1> HIDE DEF n, U
<1>6. /\ PoolOK(PoolPush(np, n), MaxSize)
      /\ PoolFree(PoolPush(np, n)) = PoolFree(np) \cup {n}
  <2>1. PoolOK(np, MaxSize) /\ n \in 0..(MaxSize - 1) /\ n \notin PoolFree(np)
    BY <1>5, LruFacts DEF InOrder, U
  <2> QED BY ONLY <2>1, <1>1, PoolPushOK
<1>7. /\ PoolOK(PoolPush(dp, f[i]), MaxSize)
      /\ PoolFree(PoolPush(dp, f[i])) = PoolFree(dp) \cup {f[i]}
  <2>1. PoolOK(dp, MaxSize) /\ f[i] \in 0..(MaxSize - 1) /\ f[i] \notin PoolFree(dp)
    BY <1>5, LruFacts DEF InOrder
  <2> QED BY ONLY <2>1, <1>1, PoolPushOK
<1>8. PoolFree(PoolPush(dp, f[i])) = Node \ {g[j] : j \in 1..(sz - 1)}
  <2>1. PoolFree(dp) = Node \ {f[j] : j \in 1..sz}
    BY DEF InOrder
  <2> QED BY <1>3, <1>5, <1>7, <2>1
<1>9. PoolFree(PoolPush(np, n)) = Node \ Held(dD, g, sz - 1)
  <2>1. PoolFree(np) = Node \ U
    BY DEF InOrder, U
  <2> QED BY <1>4, <1>5, <1>6, <2>1
<1>10. /\ MapHas(KvDel(mp, ky[n]), U \ {n}, ky) /\ Keyed(U \ {n}, ky)
       /\ KvDel(mp, ky[n]).kvNum = mp.kvNum - 1
  <2>1. MapHas(mp, U, ky) /\ Keyed(U, ky)
    BY DEF InOrder, U
  <2> QED BY ONLY <2>1, <1>5, DelHas
<1>11. \A j \in 1..(sz - 1) : dD[g[j]] \in Node /\ dN[dD[g[j]]] = g[j]
  BY <1>1, <1>2
<1>12. sz - 1 \in 0..MaxSize
  BY <1>1
<1>13. ListHas(l, g, sz - 1)
  BY DEF g
<1>14. InOrder(PoolPush(np, n), PoolPush(dp, f[i]), KvDel(mp, ky[n]), l, dD, dN, ky, sz - 1, g)
  BY <1>4, <1>6, <1>7, <1>8, <1>9, <1>10, <1>11, <1>12, <1>13 DEF InOrder
<1> QED BY <1>14 DEF g, n

\* An entry is added: nodes from the pools, the pair in the map, the head of
\* the list.
LEMMA InsertKeeps ==
  ASSUME NEW np, NEW dp, NEW mp, NEW ls, NEW dD, NEW dN, NEW ky, NEW sz, NEW f,
         InOrder(np, dp, mp, ls, dD, dN, ky, sz, f), sz < MaxSize,
         NEW k \in Key, \A i \in 1..sz : ky[dD[f[i]]] # k,
         NEW n, n = PoolTop(np), NEW m, m = PoolTop(dp)
  PROVE  /\ InOrder(PoolPop(np), PoolPop(dp), KvSet(mp, k, n), ListAdd(ls, m),
                    [dD EXCEPT ![m] = n], [dN EXCEPT ![n] = m], [ky EXCEPT ![n] = k],
                    sz + 1, Added(f, sz, m))
         /\ n \in Node /\ m \in Node
         /\ \A i \in 1..sz : f[i] # m /\ dD[f[i]] # n
<1> DEFINE g == Added(f, sz, m)
           U == Held(dD, f, sz)
           eD == [dD EXCEPT ![m] = n]
           eN == [dN EXCEPT ![n] = m]
           ly == [ky EXCEPT ![n] = k]
           s1 == sz + 1
<1>1. /\ sz \in Nat /\ sz \in 0..MaxSize /\ f \in [1..sz -> Node] /\ ListHas(ls, f, sz)
      /\ \A i \in 1..sz : dD[f[i]] \in Node /\ dN[dD[f[i]]] = f[i]
      /\ dD \in [Node -> Node \cup {NULL}] /\ dN \in [Node -> Node \cup {NULL}]
      /\ MaxSize \in Nat /\ Node = 0..(MaxSize - 1)
      /\ PoolFree(dp) = Node \ {f[i] : i \in 1..sz} /\ PoolFree(np) = Node \ U
      /\ PoolOK(np, MaxSize) /\ PoolOK(dp, MaxSize)
      /\ Keyed(U, ky) /\ MapHas(mp, U, ky) /\ mp.kvNum = sz
  BY LruFacts DEF InOrder, ListHas
<1>2. np.num > 0
  <2>1. PICK e : e = [j \in 1..sz |-> dD[f[j]]]
    OBVIOUS
  <2>2. \A i \in 1..sz : e[i] = dD[f[i]]
    BY <2>1
  <2>3. sz \in Nat /\ sz < MaxSize
    BY <1>1
  <2>4. PICK x \in Node : \A i \in 1..sz : e[i] # x
    BY ONLY <2>3, OneIsMissing
  <2>5. x \in PoolFree(np)
    <3>1. x \notin U
      BY <2>2, <2>4 DEF Held
    <3> HIDE DEF U
    <3> QED BY <1>1, <3>1
  <2>6. \E i \in 0..(np.num - 1) : TRUE
    BY <2>5 DEF PoolFree
  <2>7. np.num \in Nat
    BY <1>1 DEF PoolOK
  <2> QED BY <2>6, <2>7
<1>3. dp.num > 0
  <2>1. PICK x \in Node : \A i \in 1..sz : f[i] # x
    BY <1>1, OneIsMissing, ZenonT(60)
  <2>2. x \in PoolFree(dp)
    BY <1>1, <2>1
  <2>3. \E i \in 0..(dp.num - 1) : TRUE
    BY <2>2 DEF PoolFree
  <2>4. dp.num \in Nat
    BY <1>1 DEF PoolOK
  <2> QED BY <2>3, <2>4
<1>4. /\ n \in PoolFree(np) /\ n \in Node /\ PoolOK(PoolPop(np), MaxSize)
      /\ PoolFree(PoolPop(np)) = PoolFree(np) \ {n}
  BY <1>1, <1>2, PoolPopOK
<1>5. /\ m \in PoolFree(dp) /\ m \in Node /\ PoolOK(PoolPop(dp), MaxSize)
      /\ PoolFree(PoolPop(dp)) = PoolFree(dp) \ {m}
  BY <1>1, <1>3, PoolPopOK
<1>6. \A i \in 1..sz : f[i] # m /\ dD[f[i]] # n
  BY <1>1, <1>4, <1>5 DEF Held
<1>7. ListHas(ListAdd(ls, m), g, s1)
  BY <1>1, <1>5, <1>6, AddHas
<1>8. /\ s1 \in 1..MaxSize /\ g[1] = m
      /\ \A i \in 1..sz : i + 1 \in 1..s1 /\ g[i + 1] = f[i]
      /\ \A i \in 1..s1 : i = 1 \/ (i - 1 \in 1..sz /\ g[i] = f[i - 1])
  BY <1>1 DEF Added
<1>9. /\ eD \in [Node -> Node \cup {NULL}] /\ eN \in [Node -> Node \cup {NULL}]
      /\ eD[m] = n /\ eN[n] = m
      /\ \A i \in 1..sz : eD[f[i]] = dD[f[i]] /\ eN[dD[f[i]]] = f[i]
  BY <1>1, <1>4, <1>5, <1>6
<1> HIDE DEF g, eD, eN
<1>10. {g[i] : i \in 1..s1} = {f[i] : i \in 1..sz} \cup {m}
  <2>1. \A i \in 1..s1 : g[i] = m \/ \E j \in 1..sz : g[i] = f[j]
    BY <1>8
  <2>2. \A j \in 1..sz : \E i \in 1..s1 : g[i] = f[j]
    BY <1>8
  <2>3. 1 \in 1..s1
    BY <1>8
  <2> HIDE DEF s1
  <2> QED BY <1>8, <2>1, <2>2, <2>3
<1>11. Held(eD, g, s1) = U \cup {n}
  <2>1. \A i \in 1..s1 : eD[g[i]] = n \/ \E j \in 1..sz : eD[g[i]] = dD[f[j]]
    BY <1>8, <1>9
  <2>2. \A j \in 1..sz : \E i \in 1..s1 : eD[g[i]] = dD[f[j]]
    BY <1>8, <1>9
  <2>3. 1 \in 1..s1 /\ eD[g[1]] = n
    BY <1>8, <1>9
  <2> HIDE DEF s1
  <2> QED BY <2>1, <2>2, <2>3 DEF Held
<1>12. \A i \in 1..s1 : eD[g[i]] \in Node /\ eN[eD[g[i]]] = g[i]
  <2> SUFFICES ASSUME NEW i \in 1..s1 PROVE eD[g[i]] \in Node /\ eN[eD[g[i]]] = g[i]
    OBVIOUS
  <2>1. CASE i = 1
    BY <1>4, <1>8, <1>9, <2>1
  <2>2. ASSUME NEW j \in 1..sz, g[i] = f[j] PROVE eD[g[i]] \in Node /\ eN[eD[g[i]]] = g[i]
    BY <1>1, <1>9, <2>2
  <2> QED BY <1>8, <2>1, <2>2
<1> HIDE DEF U
<1>13. /\ MapHas(KvSet(mp, k, n), U \cup {n}, ly) /\ Keyed(U \cup {n}, ly)
       /\ KvSet(mp, k, n).kvNum = mp.kvNum + 1
  <2>1. n \notin U /\ \A x \in U : ky[x] # k
    BY <1>1, <1>4 DEF U, Held
  <2>2. MapHas(mp, U, ky) /\ Keyed(U, ky) /\ n \in Node
    BY <1>1, <1>4
  <2> QED BY ONLY k \in Key, <2>1, <2>2, SetHas
<1> HIDE DEF ly
<1>14. PoolFree(PoolPop(dp)) = Node \ {g[i] : i \in 1..s1}
  BY <1>1, <1>5, <1>10
<1>15. PoolFree(PoolPop(np)) = Node \ Held(eD, g, s1)
  BY <1>1, <1>4, <1>11
<1>16. KvSet(mp, k, n).kvNum = s1 /\ s1 \in 0..MaxSize
  BY <1>1, <1>8, <1>13
<1> HIDE DEF s1
<1>17. InOrder(PoolPop(np), PoolPop(dp), KvSet(mp, k, n), ListAdd(ls, m), eD, eN, ly, s1, g)
  BY <1>4, <1>5, <1>7, <1>9, <1>11, <1>12, <1>13, <1>14, <1>15, <1>16 DEF InOrder
<1> QED BY <1>4, <1>5, <1>6, <1>17 DEF g, eD, eN, ly, s1

\* g has the same nodes as f.
SameNodes(g, f, n) ==
  /\ \A i \in 1..n : \E j \in 1..n : g[i] = f[j]
  /\ \A i \in 1..n : \E j \in 1..n : f[i] = g[j]

\* Moving one to the head keeps them.
LEMMA MovedHasTheSame ==
  ASSUME NEW l, NEW f, NEW n, ListHas(l, f, n), NEW i \in 1..n
  PROVE  SameNodes(Moved(f, n, i), f, n)
<1> DEFINE g == Moved(f, n, i)
<1>1. n \in Nat /\ f \in [1..n -> Node]
  BY DEF ListHas
<1>2. CASE n = 2
  BY <1>2 DEF SameNodes, Moved
<1>3. CASE n # 2
  <2>1. \A j \in 1..n : g[j] = IF j = 1 THEN f[i] ELSE IF j <= i THEN f[j - 1] ELSE f[j]
    BY <1>1, <1>3 DEF Moved
  <2> HIDE DEF g
  <2>2. ASSUME NEW j \in 1..n PROVE \E k \in 1..n : g[j] = f[k]
    <3>1. j # 1 => j - 1 \in 1..n
      BY <1>1
    <3> QED BY <2>1, <3>1
  <2>3. ASSUME NEW j \in 1..n PROVE \E k \in 1..n : f[j] = g[k]
    <3>1. CASE j = i
      <4>1. 1 \in 1..n
        BY <1>1
      <4> QED BY <2>1, <3>1, <4>1
    <3>2. CASE j < i
      <4>1. j + 1 \in 1..n /\ j + 1 # 1 /\ j + 1 <= i /\ (j + 1) - 1 = j
        BY <1>1, <3>2
      <4>2. g[j + 1] = f[j]
        BY <2>1, <4>1
      <4> QED BY <4>1, <4>2
    <3>3. CASE j > i
      <4>1. j # 1 /\ ~(j <= i)
        BY <1>1, <3>3
      <4>2. g[j] = f[j]
        BY <2>1, <4>1
      <4> QED BY <4>2
    <3> QED BY <1>1, <3>1, <3>2, <3>3
  <2> QED BY <2>2, <2>3 DEF SameNodes, g
<1> QED BY <1>2, <1>3

\* A hit: the entry is first, or the list of two stays.
LEMMA MoveKeeps ==
  ASSUME NEW np, NEW dp, NEW mp, NEW ls, NEW dD, NEW dN, NEW ky, NEW sz, NEW f,
         InOrder(np, dp, mp, ls, dD, dN, ky, sz, f), NEW i \in 1..sz
  PROVE  InOrder(np, dp, mp, ListMoveHead(ls, f[i]), dD, dN, ky, sz, Moved(f, sz, i))
<1>1. ListHas(ls, f, sz)
  BY DEF InOrder
<1>2. ListHas(ListMoveHead(ls, f[i]), Moved(f, sz, i), sz)
  BY <1>1, MoveHeadHas
<1>3. SameNodes(Moved(f, sz, i), f, sz)
  BY <1>1, MovedHasTheSame
<1> DEFINE l == ListMoveHead(ls, f[i])
           g == Moved(f, sz, i)
<1>4. ListHas(l, g, sz) /\ SameNodes(g, f, sz)
  BY <1>2, <1>3
<1> HIDE DEF l, g
<1>5. InOrder(np, dp, mp, l, dD, dN, ky, sz, g)
  BY <1>4, ReorderKeeps DEF SameNodes
<1> QED BY <1>5 DEF l, g

-----------------------------------------------------------------------------
(***************************************************************************)
(* The table's calls.  Each lemma says what a call does to the order f.    *)
(***************************************************************************)
LruOrder(f) == InOrder(nodePool, dlPool, map, list, dlData, dlNode, key, size, f)

LruOrderNext(f) ==
  InOrder(nodePool', dlPool', map', list', dlData', dlNode', key', size', f)

\* A table is in some order, and each entry has room for a pointer.
LruInv == udata \in [Node -> Data \cup {Nothing}] /\ \E f : LruOrder(f)

\* gnb_lru32_create.
LEMMA LruStart == LruInit => LruInv
<1> SUFFICES ASSUME LruInit PROVE LruInv
  OBVIOUS
<1> DEFINE f == [i \in 1..0 |-> 0]
<1>1. size = 0 /\ MaxSize \in Nat /\ Node = 0..(MaxSize - 1)
  BY LruFacts DEF LruInit
<1>2. ListHas(list, f, size)
  BY <1>1, CreateHas DEF LruInit
<1>3. /\ PoolOK(nodePool, MaxSize) /\ PoolFree(nodePool) = Node
      /\ PoolOK(dlPool, MaxSize) /\ PoolFree(dlPool) = Node
  BY <1>1, PoolCreateOK DEF LruInit
<1>4. \A i \in 1..size : FALSE
  BY <1>1
<1> HIDE DEF f
<1>5. {f[i] : i \in 1..size} = {} /\ Held(dlData, f, size) = {}
  BY <1>4 DEF Held
<1>6. Keyed({}, key)
  BY DEF Keyed, LruInit
<1>7. /\ map.chain = [b \in Bucket |-> <<>>] /\ map.chainLen = [b \in Bucket |-> 0]
      /\ map.kvNum = 0
  BY DEF LruInit, KvCreate
<1>8. MapHas(map, {}, key)
  <2>1. /\ map.chain \in [Bucket -> Seq([key : Key, value : Node])]
        /\ map.chainLen \in [Bucket -> Nat]
        /\ \A b \in Bucket : Len(map.chain[b]) = 0 /\ map.chainLen[b] = 0
    BY <1>7
  <2>2. \A b \in Bucket : \A i \in 1..Len(map.chain[b]) : FALSE
    BY <2>1
  <2> QED BY <2>1, <2>2 DEF MapHas
<1>9. /\ dlData \in [Node -> Node \cup {NULL}] /\ dlNode \in [Node -> Node \cup {NULL}]
      /\ udata \in [Node -> Data \cup {Nothing}]
  BY DEF LruInit
<1>10. LruOrder(f)
  <2>1. /\ PoolFree(dlPool) = Node \ {f[i] : i \in 1..size}
        /\ PoolFree(nodePool) = Node \ Held(dlData, f, size)
    BY <1>3, <1>5
  <2>2. MapHas(map, Held(dlData, f, size), key) /\ Keyed(Held(dlData, f, size), key)
    BY <1>5, <1>6, <1>8
  <2>3. size \in 0..MaxSize /\ map.kvNum = size
    BY <1>1, <1>7
  <2> QED BY <1>2, <1>3, <1>4, <1>9, <2>1, <2>2, <2>3 DEF InOrder, LruOrder
<1> QED BY <1>9, <1>10 DEF LruInv

\* The parts of LruOrder that the calls need.
LEMMA OrderFacts ==
  ASSUME NEW f, LruOrder(f)
  PROVE  /\ size \in Nat /\ size <= MaxSize /\ ListHas(list, f, size) /\ f \in [1..size -> Node]
         /\ \A i, j \in 1..size : f[i] = f[j] => i = j
         /\ \A i \in 1..size : dlData[f[i]] \in Node /\ dlNode[dlData[f[i]]] = f[i]
         /\ \A i, j \in 1..size : key[dlData[f[i]]] = key[dlData[f[j]]] => i = j
         /\ \A i \in 1..size : key[dlData[f[i]]] \in Key
         /\ size > 0 => list.head = f[1] /\ list.tail = f[size]
<1>1. /\ size \in 0..MaxSize /\ ListHas(list, f, size) /\ MaxSize \in Nat
      /\ \A i \in 1..size : dlData[f[i]] \in Node /\ dlNode[dlData[f[i]]] = f[i]
      /\ Keyed(Held(dlData, f, size), key)
  BY LruFacts DEF LruOrder, InOrder
<1>2. /\ f \in [1..size -> Node] /\ \A i, j \in 1..size : f[i] = f[j] => i = j
      /\ size > 0 => list.head = f[1] /\ list.tail = f[size]
  BY <1>1 DEF ListHas
<1>3. \A i \in 1..size : dlData[f[i]] \in Held(dlData, f, size)
  BY DEF Held
<1>4. \A i, j \in 1..size : key[dlData[f[i]]] = key[dlData[f[j]]] => dlData[f[i]] = dlData[f[j]]
  BY <1>1, <1>3 DEF Keyed
<1>5. \A i, j \in 1..size : dlData[f[i]] = dlData[f[j]] => i = j
  BY <1>1, <1>2
<1>6. \A i \in 1..size : key[dlData[f[i]]] \in Key
  BY <1>1, <1>3 DEF Keyed
<1> QED BY <1>1, <1>2, <1>4, <1>5, <1>6

\* A lookup finds the entry with the key, and only when there is one.
LEMMA HitFacts ==
  ASSUME NEW f, LruOrder(f), NEW k \in Key
  PROVE  \/ /\ \A i \in 1..size : key[dlData[f[i]]] # k
            /\ ~Hit(k)
         \/ \E i \in 1..size : /\ key[dlData[f[i]]] = k /\ Hit(k)
                               /\ NodeOf(k) = dlData[f[i]] /\ dlNode[NodeOf(k)] = f[i]
<1> DEFINE U == Held(dlData, f, size)
<1>1. MapHas(map, U, key) /\ Keyed(U, key)
  BY DEF LruOrder, InOrder
<1>2. \A i \in 1..size : dlData[f[i]] \in Node /\ dlNode[dlData[f[i]]] = f[i]
  BY OrderFacts
<1> HIDE DEF U
<1>3. /\ \A n \in U : key[n] = k => NodeOf(k) = n
      /\ (\A n \in U : key[n] # k) => NodeOf(k) = NULL
  BY <1>1, GetHas DEF NodeOf
<1>4. \A n \in Node : n # NULL
  BY LruFacts
<1>5. CASE \A i \in 1..size : key[dlData[f[i]]] # k
  <2>1. \A n \in U : key[n] # k
    BY <1>5 DEF U, Held
  <2> QED BY <1>3, <1>5, <2>1 DEF Hit
<1>6. CASE \E i \in 1..size : key[dlData[f[i]]] = k
  <2>1. PICK i \in 1..size : key[dlData[f[i]]] = k
    BY <1>6
  <2>2. dlData[f[i]] \in U
    BY DEF U, Held
  <2>3. NodeOf(k) = dlData[f[i]]
    BY <1>3, <2>1, <2>2
  <2>4. Hit(k)
    BY <1>2, <1>4, <2>3 DEF Hit
  <2> QED BY <1>2, <2>1, <2>3, <2>4
<1> QED BY <1>5, <1>6

\* The calls that move an entry to the head on a hit: gnb_lru32_get,
\* gnb_lru32_movetohead, and gnb_lru32_put of a key that is there.
LEMMA HitOrder ==
  ASSUME NEW f, LruOrder(f), NEW k \in Key, NEW i \in 1..size,
         dlNode[NodeOf(k)] = f[i], list' = ListAfterHit(k),
         UNCHANGED <<nodePool, dlPool, map, dlData, dlNode, key, size>>
  PROVE  LruOrderNext(Moved(f, size, i))
<1>1. InOrder(nodePool, dlPool, map, ListMoveHead(list, f[i]), dlData, dlNode, key, size,
              Moved(f, size, i))
  BY MoveKeeps DEF LruOrder
<1>2. list' = ListMoveHead(list, f[i])
  BY DEF ListAfterHit
<1> QED BY <1>1, <1>2 DEF LruOrderNext

\* An entry taken out and first put to the head is not there.
LEMMA TakenOfMoved ==
  ASSUME NEW l, NEW n, NEW f, ListHas(l, f, n), NEW i \in 1..n
  PROVE  \E j \in 1..n : /\ Moved(f, n, i)[j] = f[i]
                         /\ Taken(Moved(f, n, i), n, j) = Taken(f, n, i)
<1>1. n \in Nat /\ f \in [1..n -> Node] /\ 1 \in 1..n
  BY DEF ListHas
<1>2. CASE n = 2
  <2>1. Moved(f, n, i) = f
    BY <1>2 DEF Moved
  <2> QED BY <2>1
<1>3. CASE n # 2
  <2> DEFINE g == Moved(f, n, i)
  <2>1. \A j \in 1..n : g[j] = IF j = 1 THEN f[i] ELSE IF j <= i THEN f[j - 1] ELSE f[j]
    BY <1>1, <1>3 DEF Moved
  <2> HIDE DEF g
  <2>2. \A j \in 1..(n - 1) : (IF j < 1 THEN g[j] ELSE g[j + 1])
                                = (IF j < i THEN f[j] ELSE f[j + 1])
    <3> SUFFICES ASSUME NEW j \in 1..(n - 1)
                 PROVE  g[j + 1] = (IF j < i THEN f[j] ELSE f[j + 1])
      OBVIOUS
    <3>1. j + 1 \in 1..n /\ j + 1 # 1 /\ (j + 1) - 1 = j /\ (j + 1 <= i <=> j < i)
      BY <1>1
    <3> QED BY <2>1, <3>1
  <2>3. Taken(g, n, 1) = Taken(f, n, i)
    BY <2>2 DEF Taken
  <2>4. g[1] = f[i]
    BY <1>1, <2>1
  <2> QED BY <1>1, <2>3, <2>4 DEF g
<1> QED BY <1>2, <1>3

\* What a call that takes out entry i does.
TakenOut(f, i) ==
  /\ LruOrderNext(Taken(f, size, i)) /\ size' = size - 1
  /\ ret' = udata[dlData[f[i]]]
  /\ UNCHANGED <<dlData, key, udata>>

\* The two steps of such a call, the list and then the pools and the map.
LEMMA RemoveOrder ==
  ASSUME NEW f, LruOrder(f), NEW i \in 1..size, NEW l, ListHas(l, Taken(f, size, i), size - 1),
         NEW n, n = dlData[f[i]], Remove(n, l)
  PROVE  TakenOut(f, i)
<1>1. dlNode[n] = f[i]
  BY OrderFacts
<1>2. InOrder(PoolPush(nodePool, n), PoolPush(dlPool, f[i]), KvDel(map, key[n]), l,
              dlData, dlNode, key, size - 1, Taken(f, size, i))
  BY RemoveKeeps DEF LruOrder
<1>3. /\ nodePool' = PoolPush(nodePool, n) /\ dlPool' = PoolPush(dlPool, f[i])
      /\ map' = KvDel(map, key[n]) /\ list' = l /\ size' = size - 1
      /\ ret' = udata[n] /\ UNCHANGED <<dlData, dlNode, key, udata>>
  BY <1>1 DEF Remove, Unlinked
<1> QED BY <1>2, <1>3 DEF LruOrderNext, TakenOut

\* gnb_lru32_pop_by_key.
LEMMA PopByKeyOrder ==
  ASSUME NEW f, LruOrder(f), NEW k \in Key, PopByKey(k)
  PROVE  \/ /\ \A i \in 1..size : key[dlData[f[i]]] # k
            /\ ret' = Nothing /\ UNCHANGED structure
         \/ \E i \in 1..size : key[dlData[f[i]]] = k /\ TakenOut(f, i)
<1>1. CASE /\ \A i \in 1..size : key[dlData[f[i]]] # k
           /\ ~Hit(k)
  BY <1>1 DEF PopByKey
<1>2. ASSUME NEW i \in 1..size, key[dlData[f[i]]] = k, Hit(k), NodeOf(k) = dlData[f[i]],
             dlNode[NodeOf(k)] = f[i]
      PROVE  TakenOut(f, i)
  <2>1. Remove(dlData[f[i]], ListPop(ListMoveHead(list, f[i]), f[i]))
    BY <1>2 DEF PopByKey, ListAfterHit
  <2> DEFINE g == Moved(f, size, i)
             h == ListMoveHead(list, f[i])
  <2>2. ListHas(list, f, size)
    BY OrderFacts
  <2>3. ListHas(h, g, size)
    BY <2>2, MoveHeadHas
  <2>4. PICK j \in 1..size : g[j] = f[i] /\ Taken(g, size, j) = Taken(f, size, i)
    BY <2>2, TakenOfMoved
  <2> HIDE DEF g, h
  <2>5. ListHas(ListPop(h, f[i]), Taken(f, size, i), size - 1)
    <3>1. ListHas(ListPop(h, g[j]), Taken(g, size, j), size - 1)
      BY <2>3, PopHas
    <3> QED BY <2>4, <3>1
  <2>6. Remove(dlData[f[i]], ListPop(h, f[i]))
    BY <2>1 DEF h
  <2> QED BY <2>5, <2>6, RemoveOrder
<1> QED BY <1>1, <1>2, HitFacts

\* gnb_lru32_pop_head and gnb_lru32_pop_tail.
LEMMA PopHeadOrder ==
  ASSUME NEW f, LruOrder(f), PopHead
  PROVE  \/ size = 0 /\ ret' = Nothing /\ UNCHANGED structure
         \/ size > 0 /\ TakenOut(f, 1)
<1>1. CASE size = 0
  BY <1>1 DEF PopHead
<1>2. CASE size # 0
  <2>1. size > 0 /\ ListHas(list, f, size) /\ 1 \in 1..size /\ list.head = f[1] /\ f[1] \in Node
    BY <1>2, OrderFacts
  <2>2. Remove(dlData[f[1]], ListPopHead(list))
    BY <1>2, <2>1, LruFacts DEF PopHead, HeadNode
  <2>3. ListHas(ListPopHead(list), Taken(f, size, 1), size - 1)
    BY <2>1, PopHeadHas
  <2> QED BY <2>1, <2>2, <2>3, RemoveOrder
<1> QED BY <1>1, <1>2

\* The same at the other end.
LEMMA PopTailOrder ==
  ASSUME NEW f, LruOrder(f), PopTail
  PROVE  \/ size = 0 /\ ret' = Nothing /\ UNCHANGED structure
         \/ size > 0 /\ TakenOut(f, size)
<1>1. CASE size = 0
  BY <1>1 DEF PopTail
<1>2. CASE size # 0
  <2>1. /\ size > 0 /\ ListHas(list, f, size) /\ size \in 1..size
        /\ list.tail = f[size] /\ f[size] \in Node
    BY <1>2, OrderFacts
  <2>2. Remove(dlData[f[size]], ListPopTail(list))
    BY <1>2, <2>1, LruFacts DEF PopTail, TailNode
  <2>3. ListHas(ListPopTail(list), Taken(f, size, size), size - 1)
    BY <2>1, PopTailHas
  <2> QED BY <2>1, <2>2, <2>3, RemoveOrder
<1> QED BY <1>1, <1>2

\* What a call that puts a new entry of k and d before the order f of n does.
PutFirst(f, n, k, d) ==
  \E x, m \in Node :
    /\ \A i \in 1..n : f[i] # m /\ dlData[f[i]] # x
    /\ LruOrderNext(Added(f, n, m)) /\ size' = n + 1
    /\ dlData' = [dlData EXCEPT ![m] = x] /\ key' = [key EXCEPT ![x] = k]
    /\ udata' = [udata EXCEPT ![x] = d]

\* gnb_lru32_put: of a key that is there, with a place left, and in a full
\* table.
LEMMA PutOrder ==
  ASSUME NEW f, LruOrder(f), NEW k \in Key, NEW d \in Data, Put(k, d)
  PROVE  \/ \E i \in 1..size :
              /\ key[dlData[f[i]]] = k
              /\ LruOrderNext(Moved(f, size, i))
              /\ udata' = [udata EXCEPT ![dlData[f[i]]] = d] /\ ret' = Nothing
              /\ UNCHANGED <<dlData, key, size>>
         \/ /\ \A i \in 1..size : key[dlData[f[i]]] # k
            /\ size < MaxSize /\ PutFirst(f, size, k, d) /\ ret' = Nothing
         \/ /\ \A i \in 1..size : key[dlData[f[i]]] # k
            /\ size = MaxSize /\ PutFirst(Taken(f, size, size), size - 1, k, d)
            /\ ret' = udata[dlData[f[size]]]
<1>0. /\ size \in Nat /\ size <= MaxSize /\ MaxSize \in Nat \ {0} /\ ListHas(list, f, size)
      /\ f \in [1..size -> Node]
      /\ \A i \in 1..size : dlData[f[i]] \in Node /\ dlNode[dlData[f[i]]] = f[i]
  BY OrderFacts, LruFacts
<1>1. ASSUME NEW i \in 1..size, key[dlData[f[i]]] = k, Hit(k), NodeOf(k) = dlData[f[i]],
             dlNode[NodeOf(k)] = f[i]
      PROVE  /\ LruOrderNext(Moved(f, size, i))
             /\ udata' = [udata EXCEPT ![dlData[f[i]]] = d] /\ ret' = Nothing
             /\ UNCHANGED <<dlData, key, size>>
  <2>1. /\ list' = ListAfterHit(k) /\ ret' = Nothing
        /\ udata' = [udata EXCEPT ![dlData[f[i]]] = d]
        /\ UNCHANGED <<nodePool, dlPool, map, dlData, dlNode, key, size>>
    BY <1>1 DEF Put
  <2> QED BY <1>1, <2>1, HitOrder
<1>2. ASSUME \A i \in 1..size : key[dlData[f[i]]] # k, ~Hit(k), size < MaxSize
      PROVE  PutFirst(f, size, k, d) /\ ret' = Nothing
  <2> DEFINE n == PoolTop(nodePool)
             m == PoolTop(dlPool)
  <2>1. /\ nodePool' = PoolPop(nodePool) /\ dlPool' = PoolPop(dlPool)
        /\ map' = KvSet(map, k, n) /\ list' = ListAdd(list, m)
        /\ dlNode' = [dlNode EXCEPT ![n] = m] /\ dlData' = [dlData EXCEPT ![m] = n]
        /\ key' = [key EXCEPT ![n] = k] /\ udata' = [udata EXCEPT ![n] = d]
        /\ size' = size + 1 /\ ret' = Nothing
    <3>1. ~(size >= MaxSize)
      BY <1>0, <1>2
    <3> QED BY <1>2, <3>1, Zenon DEF Put
  <2>2. n = PoolTop(nodePool) /\ m = PoolTop(dlPool)
    OBVIOUS
  <2> HIDE DEF n, m
  <2>3. /\ InOrder(PoolPop(nodePool), PoolPop(dlPool), KvSet(map, k, n), ListAdd(list, m),
                   [dlData EXCEPT ![m] = n], [dlNode EXCEPT ![n] = m], [key EXCEPT ![n] = k],
                   size + 1, Added(f, size, m))
        /\ n \in Node /\ m \in Node
        /\ \A i \in 1..size : f[i] # m /\ dlData[f[i]] # n
    BY <1>2, <2>2, InsertKeeps DEF LruOrder
  <2>4. LruOrderNext(Added(f, size, m))
    BY <2>1, <2>3 DEF LruOrderNext
  <2> QED BY <2>1, <2>3, <2>4 DEF PutFirst
<1>3. ASSUME \A i \in 1..size : key[dlData[f[i]]] # k, ~Hit(k), size = MaxSize
      PROVE  PutFirst(Taken(f, size, size), size - 1, k, d) /\ ret' = udata[dlData[f[size]]]
  <2> DEFINE t == dlData[f[size]]
             s == size - 1
             g == Taken(f, size, size)
             np == PoolPush(nodePool, t)
             dp == PoolPush(dlPool, f[size])
             mp == KvDel(map, key[t])
             ls == ListPopTail(list)
             n == PoolTop(np)
             m == PoolTop(dp)
  <2>1. /\ size \in 1..size /\ size > 0 /\ list.tail = f[size] /\ TailNode = t /\ dlNode[t] = f[size]
    <3>1. list.tail = f[size]
      BY <1>0, <1>3, OrderFacts
    <3> QED BY <1>0, <1>3, <3>1 DEF TailNode
  <2>2. ListHas(ls, g, s)
    BY <1>0, <2>1, PopTailHas
  <2>3. InOrder(np, dp, mp, ls, dlData, dlNode, key, s, g)
    BY <2>1, <2>2, RemoveKeeps DEF LruOrder
  <2>4. \A i \in 1..s : key[dlData[g[i]]] # k
    <3>1. TheOthers(g, f, size, size)
      BY <1>0, <2>1, TakenHasTheOthers
    <3> HIDE DEF g
    <3> QED BY <1>3, <3>1 DEF TheOthers
  <2>5. Unlinked(TailNode) = [nodePool |-> np, dlPool |-> dp,
                              udataPool |-> PoolPush(udataPool, udata[t]), map |-> mp]
    BY <2>1, Zenon DEF Unlinked
  <2> HIDE DEF np, dp, mp, ls, g
  <2>6. /\ Unlinked(TailNode).nodePool = np /\ Unlinked(TailNode).dlPool = dp
        /\ Unlinked(TailNode).map = mp
    BY <2>5
  <2>7. /\ nodePool' = PoolPop(np) /\ dlPool' = PoolPop(dp)
        /\ map' = KvSet(mp, k, n) /\ list' = ListAdd(ls, m)
        /\ dlNode' = [dlNode EXCEPT ![n] = m] /\ dlData' = [dlData EXCEPT ![m] = n]
        /\ key' = [key EXCEPT ![n] = k] /\ udata' = [udata EXCEPT ![n] = d]
        /\ size' = size /\ ret' = udata[t]
    <3>1. size >= MaxSize
      BY <1>0, <1>3
    <3>2. ls = ListPopTail(list)
      BY DEF ls
    <3> HIDE DEF t
    <3> QED BY <1>3, <2>1, <2>6, <3>1, <3>2, Zenon DEF Put
  <2>8. n = PoolTop(np) /\ m = PoolTop(dp) /\ s < MaxSize /\ s + 1 = size
    BY <1>0, <1>3
  <2> HIDE DEF n, m, s, t
  <2>9. /\ InOrder(PoolPop(np), PoolPop(dp), KvSet(mp, k, n), ListAdd(ls, m),
                   [dlData EXCEPT ![m] = n], [dlNode EXCEPT ![n] = m], [key EXCEPT ![n] = k],
                   s + 1, Added(g, s, m))
        /\ n \in Node /\ m \in Node
        /\ \A i \in 1..s : g[i] # m /\ dlData[g[i]] # n
    BY <2>3, <2>4, <2>8, InsertKeeps
  <2>10. LruOrderNext(Added(g, s, m))
    BY <2>7, <2>8, <2>9 DEF LruOrderNext
  <2>11. PutFirst(g, s, k, d)
    BY <2>7, <2>8, <2>9, <2>10 DEF PutFirst
  <2> QED BY <2>7, <2>11 DEF g, s, t
<1> QED BY <1>0, <1>1, <1>2, <1>3, HitFacts

-----------------------------------------------------------------------------
(***************************************************************************)
(* The two ways through the list.                                          *)
(***************************************************************************)
\* Follows the links in nx from the node first.
Walks(F, first, nx, n) == F = [i \in 1..n |-> IF i = 1 THEN first ELSE nx[F[i - 1]]]

\* Links of any kind can be followed any number of times: were there a least
\* number for which they cannot, the walk of one step less could be extended.
LEMMA AWalkExists ==
  ASSUME NEW first, NEW nx, NEW n \in Nat
  PROVE  \E F : Walks(F, first, nx, n)
<1> DEFINE Stuck == {m \in Nat : ~ \E F : Walks(F, first, nx, m)}
<1>1. SUFFICES ASSUME Stuck # {} PROVE FALSE
  OBVIOUS
<1>2. \E m \in Stuck : \A j \in Stuck : m <= j
  <2>1. Stuck \in SUBSET Nat
    OBVIOUS
  <2> HIDE DEF Stuck
  <2> QED BY <1>1, <2>1, LeastOfNaturals
<1>3. PICK m \in Stuck : \A j \in Stuck : m <= j
  BY <1>2
<1>4. m \in Nat /\ \A F : ~Walks(F, first, nx, m)
  OBVIOUS
<1>5. CASE m = 0
  <2>1. Walks([i \in 1..0 |-> 0], first, nx, 0)
    BY DEF Walks
  <2> QED BY <1>4, <1>5, <2>1
<1>6. CASE m # 0
  <2>1. m - 1 \in Nat /\ ~(m <= m - 1)
    BY <1>4, <1>6
  <2>2. m - 1 \notin Stuck
    BY <1>3, <2>1
  <2>3. PICK F : Walks(F, first, nx, m - 1)
    BY <2>1, <2>2
  <2> DEFINE G == [i \in 1..m |-> IF i = 1 THEN first ELSE nx[F[i - 1]]]
  <2>4. \A i \in 1..(m - 1) : G[i] = F[i]
    BY <2>3, <1>4 DEF Walks
  <2>5. \A i \in 1..m : i # 1 => i - 1 \in 1..(m - 1) /\ G[i - 1] = F[i - 1]
    BY <1>4, <2>4
  <2>6. \A i \in 1..m : (IF i = 1 THEN first ELSE nx[F[i - 1]])
                          = (IF i = 1 THEN first ELSE nx[G[i - 1]])
    <3> HIDE DEF G
    <3> QED BY <2>5
  <2>7. G = [i \in 1..m |-> IF i = 1 THEN first ELSE nx[G[i - 1]]]
    BY <2>6
  <2> HIDE DEF G
  <2>8. Walks(G, first, nx, m)
    BY <2>7 DEF Walks
  <2> QED BY <1>4, <2>8
<1> QED BY <1>5, <1>6

\* The links in nx lead from the node first through f.
Leads(first, nx, f, n) ==
  /\ n > 0 => first = f[1]
  /\ \A i \in 1..n : i # n => nx[f[i]] = f[i + 1]

\* A walk follows the order that the links make.
LEMMA WalkIsTheOrder ==
  ASSUME NEW F, NEW first, NEW nx, NEW m \in Nat, Walks(F, first, nx, m),
         NEW f, NEW n, n \in Nat, n <= m, Leads(first, nx, f, n)
  PROVE  \A i \in 1..n : F[i] = f[i]
<1> DEFINE Off == {i \in 1..n : F[i] # f[i]}
<1>1. SUFFICES ASSUME Off # {} PROVE FALSE
  OBVIOUS
<1>2. \E i \in Off : \A j \in Off : i <= j
  <2>1. Off \in SUBSET Nat
    OBVIOUS
  <2> HIDE DEF Off
  <2> QED BY <1>1, <2>1, LeastOfNaturals
<1>3. PICK i \in Off : \A j \in Off : i <= j
  BY <1>2
<1>4. i \in 1..n /\ i \in 1..m /\ F[i] # f[i] /\ n > 0
  OBVIOUS
<1>0. /\ n > 0 => first = f[1]
      /\ \A j \in 1..n : j # n => nx[f[j]] = f[j + 1]
  BY DEF Leads
<1>5. F[i] = IF i = 1 THEN first ELSE nx[F[i - 1]]
  BY <1>4 DEF Walks
<1>6. i # 1
  BY <1>0, <1>4, <1>5
<1>7. i - 1 \in 1..n /\ i - 1 # n /\ (i - 1) + 1 = i /\ ~(i <= i - 1)
  BY <1>4, <1>6
<1>8. F[i - 1] = f[i - 1]
  BY <1>3, <1>7
<1>9. nx[f[i - 1]] = f[i]
  BY <1>0, <1>7
<1> QED BY <1>4, <1>5, <1>6, <1>8, <1>9

\* The two ways of the model's invariant are such walks.
LEMMA ForwardWalks == Walks(Forward, list.head, list.nex, MaxSize)
<1>1. \E F : Walks(F, list.head, list.nex, MaxSize)
  BY AWalkExists, LruFacts
<1> QED BY <1>1 DEF Forward, Walks

\* From the tail they go by the other links.
LEMMA BackwardWalks == Walks(Backward, list.tail, list.pre, MaxSize)
<1>1. \E F : Walks(F, list.tail, list.pre, MaxSize)
  BY AWalkExists, LruFacts
<1> QED BY <1>1 DEF Backward, Walks

\* From the head on and from the tail back, the list is in its order.
LEMMA WaysThrough ==
  ASSUME NEW f, LruOrder(f)
  PROVE  \A i \in 1..size : Forward[i] = f[i] /\ Backward[size + 1 - i] = f[i]
<1>1. /\ size \in Nat /\ size <= MaxSize /\ MaxSize \in Nat /\ f \in [1..size -> Node]
      /\ size > 0 => list.head = f[1] /\ list.tail = f[size]
  BY OrderFacts, LruFacts
<1>2. \A i \in 1..size : /\ list.pre[f[i]] = IF i = 1 THEN NoNode ELSE f[i - 1]
                         /\ list.nex[f[i]] = IF i = size THEN NoNode ELSE f[i + 1]
  BY OrderFacts DEF ListHas
<1>3. \A i \in 1..size : Forward[i] = f[i]
  <2>1. Leads(list.head, list.nex, f, size)
    BY <1>1, <1>2 DEF Leads
  <2> QED BY <1>1, <2>1, ForwardWalks, WalkIsTheOrder
<1>4. ASSUME NEW i \in 1..size PROVE Backward[size + 1 - i] = f[i]
  <2>1. PICK g : g = [j \in 1..size |-> f[size + 1 - j]]
    OBVIOUS
  <2>2. \A j \in 1..size : size + 1 - j \in 1..size /\ g[j] = f[size + 1 - j]
    BY <1>1, <2>1
  <2>3. size > 0 => list.tail = g[1]
    BY <1>1, <2>2
  <2>4. \A j \in 1..size : j # size => list.pre[g[j]] = g[j + 1]
    <3> SUFFICES ASSUME NEW j \in 1..size, j # size PROVE list.pre[g[j]] = g[j + 1]
      OBVIOUS
    <3>1. j + 1 \in 1..size /\ size + 1 - j # 1 /\ (size + 1 - j) - 1 = size + 1 - (j + 1)
      BY <1>1
    <3>2. list.pre[f[size + 1 - j]] = f[(size + 1 - j) - 1]
      BY <1>2, <2>2, <3>1
    <3> QED BY <2>2, <3>1, <3>2
  <2>5. \A j \in 1..size : Backward[j] = g[j]
    <3>1. Leads(list.tail, list.pre, g, size)
      BY <2>3, <2>4 DEF Leads
    <3> QED BY <1>1, <3>1, BackwardWalks, WalkIsTheOrder
  <2>6. size + 1 - i \in 1..size /\ size + 1 - (size + 1 - i) = i
    BY <1>1
  <2> QED BY <2>2, <2>5, <2>6
<1> QED BY <1>3, <1>4

\* A table in order is sound: its list,
LEMMA OrderIsSound == LruInv => ListIsSound
<1> SUFFICES ASSUME NEW f, LruOrder(f) PROVE ListIsSound
  BY DEF LruInv
<1>1. /\ size \in Nat /\ size <= MaxSize /\ MaxSize \in Nat /\ ListHas(list, f, size)
      /\ size > 0 => list.head = f[1] /\ list.tail = f[size]
  BY OrderFacts, LruFacts
<1>2. list.num = size /\ size \in 0..MaxSize
  BY <1>1 DEF ListHas
<1>3. size > 0 => list.pre[list.head] = NoNode /\ list.nex[list.tail] = NoNode
  <2> SUFFICES ASSUME size > 0 PROVE list.pre[f[1]] = NoNode /\ list.nex[f[size]] = NoNode
    BY <1>1
  <2>1. 1 \in 1..size /\ size \in 1..size
    BY <1>1
  <2> QED BY <1>1, <2>1 DEF ListHas
<1>4. \A i \in 1..size : Forward[i] = f[i] /\ Backward[size + 1 - i] = f[i]
  BY WaysThrough
<1>5. /\ {Forward[i] : i \in 1..size} = {f[i] : i \in 1..size}
      /\ {dlData[Forward[i]] : i \in 1..size} = {dlData[f[i]] : i \in 1..size}
  BY <1>4
<1>6. /\ PoolOK(nodePool, MaxSize) /\ PoolOK(dlPool, MaxSize)
      /\ PoolFree(dlPool) = Node \ {f[i] : i \in 1..size}
      /\ PoolFree(nodePool) = Node \ {dlData[f[i]] : i \in 1..size}
      /\ \A i \in 1..size : f[i] \in Node /\ dlData[f[i]] \in Node
  BY <1>1 DEF LruOrder, InOrder, Held, ListHas
<1>7. /\ {f[i] : i \in 1..size} = Node \ PoolFree(dlPool)
      /\ {dlData[f[i]] : i \in 1..size} = Node \ PoolFree(nodePool)
  BY <1>6
<1> QED BY <1>2, <1>3, <1>4, <1>5, <1>6, <1>7 DEF ListIsSound

\* and its map, whose pairs are counted by the entries they belong to.
LEMMA OrderMatches == LruInv => MapMatchesList
<1> SUFFICES ASSUME NEW f, LruOrder(f) PROVE MapMatchesList
  BY DEF LruInv
<1>1. /\ size \in Nat /\ f \in [1..size -> Node]
      /\ \A i \in 1..size : dlData[f[i]] \in Node
      /\ \A i, j \in 1..size : key[dlData[f[i]]] = key[dlData[f[j]]] => i = j
      /\ \A i \in 1..size : key[dlData[f[i]]] \in Key
  BY OrderFacts
<1> DEFINE U == Held(dlData, f, size)
<1>2. /\ MapHas(map, U, key) /\ Keyed(U, key) /\ map.kvNum = size
      /\ PoolFree(nodePool) = Node \ U /\ U \subseteq Node
  BY <1>1 DEF LruOrder, InOrder, Held
<1> DEFINE P == {p \in Bucket \X (1..size) : p[2] <= Len(map.chain[p[1]])}
<1>3. \A n \in U : \E i \in 1..size : n = dlData[f[i]]
  BY DEF Held
<1>4. \A i \in 1..size : dlData[f[i]] \in U
  BY DEF Held
<1> HIDE DEF U
<1>5. ASSUME NEW n \in Node, NEW k \in Key
      PROVE  NodeOf(k) = n <=> n \notin PoolFree(nodePool) /\ key[n] = k
  <2>1. /\ \A m \in U : key[m] = k => NodeOf(k) = m
        /\ (\A m \in U : key[m] # k) => NodeOf(k) = NULL
    BY <1>2, GetHas DEF NodeOf
  <2>2. n # NULL
    BY LruFacts
  <2> QED BY <1>2, <2>1, <2>2
<1>6. \A b \in Bucket : map.chainLen[b] = Len(map.chain[b])
  BY <1>2 DEF MapHas
<1> DEFINE B(i) == BucketOf(key[dlData[f[i]]])
<1>7. \A i \in 1..size : B(i) \in Bucket
  BY <1>1, BucketFact
<1>8. \A i \in 1..size : \E j \in 1..Len(map.chain[B(i)]) : map.chain[B(i)][j].value = dlData[f[i]]
  BY <1>2, <1>4 DEF MapHas
<1>9. \A b \in Bucket : Len(map.chain[b]) \in Nat /\ Len(map.chain[b]) <= size
  <2> SUFFICES ASSUME NEW b \in Bucket
               PROVE  Len(map.chain[b]) \in Nat /\ Len(map.chain[b]) <= size
    OBVIOUS
  <2>1. PICK c : c = map.chain[b]
    OBVIOUS
  <2>2. /\ Len(c) \in Nat
        /\ \A i \in 1..Len(c) : c[i].value \in U
        /\ \A i, j \in 1..Len(c) : c[i].value = c[j].value => i = j
    BY <1>2, <2>1 DEF MapHas
  <2>3. \A i \in 1..Len(c) : \E j \in 1..size : c[i].value = dlData[f[j]]
    BY <1>3, <2>2
  <2>4. PICK h : h = [i \in 1..Len(c) |-> CHOOSE j \in 1..size : c[i].value = dlData[f[j]]]
    OBVIOUS
  <2>5. \A i \in 1..Len(c) : h[i] \in 1..size /\ c[i].value = dlData[f[h[i]]]
    BY <2>3, <2>4
  <2>6. h \in [1..Len(c) -> 1..size]
    BY <2>4, <2>5
  <2>7. \A i, j \in 1..Len(c) : h[i] = h[j] => i = j
    BY <2>2, <2>5
  <2>8. h \in Injection(1..Len(c), 1..size)
    BY <2>6, <2>7 DEF Injection, IsInjective
  <2>9. /\ IsFiniteSet(1..size) /\ Cardinality(1..size) = size
        /\ Cardinality(1..Len(c)) = Len(c)
    <3>1. PICK n : n = Len(c)
      OBVIOUS
    <3>2. n \in Nat /\ size \in Nat
      BY <1>1, <2>2, <3>1
    <3>3. IsFiniteSet(1..size) /\ Cardinality(1..size) = size /\ Cardinality(1..n) = n
      BY ONLY <3>2, FS_Interval
    <3> QED BY <3>1, <3>3
  <2>10. Cardinality(1..Len(c)) <= Cardinality(1..size)
    BY ONLY <2>8, <2>9, FS_Injection
  <2> QED BY <2>1, <2>2, <2>9, <2>10
<1> DEFINE at == [i \in 1..size |-> CHOOSE j \in 1..Len(map.chain[B(i)]) :
                                      map.chain[B(i)][j].value = dlData[f[i]]]
           h == [i \in 1..size |-> <<B(i), at[i]>>]
<1>10. \A i \in 1..size : /\ at[i] \in 1..Len(map.chain[B(i)])
                          /\ map.chain[B(i)][at[i]].value = dlData[f[i]]
                          /\ h[i] = <<B(i), at[i]>>
  <2>1. \A i \in 1..size : h[i] = <<B(i), at[i]>>
    OBVIOUS
  <2> HIDE DEF h, B
  <2> QED BY <1>8, <2>1
<1> HIDE DEF at
<1>11. h \in [1..size -> P]
  <2>1. ASSUME NEW i \in 1..size PROVE <<B(i), at[i]>> \in P
    <3> HIDE DEF B, P
    <3>1. B(i) \in Bucket /\ at[i] \in 1..Len(map.chain[B(i)])
      BY <1>7, <1>10
    <3>2. Len(map.chain[B(i)]) \in Nat /\ Len(map.chain[B(i)]) <= size
      BY <1>9, <3>1
    <3>3. at[i] \in 1..size /\ at[i] <= Len(map.chain[B(i)])
      BY <1>1, <3>1, <3>2
    <3> QED BY <3>1, <3>3 DEF P
  <2> HIDE DEF P, B
  <2> QED BY <2>1
<1> HIDE DEF h
<1>12. \A i, j \in 1..size : h[i] = h[j] => i = j
  <2> SUFFICES ASSUME NEW i \in 1..size, NEW j \in 1..size, h[i] = h[j] PROVE i = j
    OBVIOUS
  <2>1. B(i) = B(j) /\ at[i] = at[j]
    <3> HIDE DEF B
    <3> QED BY <1>10
  <2>2. dlData[f[i]] = dlData[f[j]]
    <3> HIDE DEF B
    <3> QED BY <1>10, <2>1
  <2> QED BY <1>1, <2>2
<1>13. \A p \in P : \E i \in 1..size : h[i] = p
  <2> SUFFICES ASSUME NEW p \in P PROVE \E i \in 1..size : h[i] = p
    OBVIOUS
  <2>1. PICK b \in Bucket, j \in 1..size : p = <<b, j>> /\ j <= Len(map.chain[b])
    OBVIOUS
  <2>2. j \in 1..Len(map.chain[b])
    BY <1>9, <2>1
  <2>3. /\ map.chain[b][j].value \in U
        /\ map.chain[b][j].key = key[map.chain[b][j].value]
        /\ BucketOf(map.chain[b][j].key) = b
    BY <1>2, <2>2 DEF MapHas
  <2>4. PICK i \in 1..size : map.chain[b][j].value = dlData[f[i]]
    BY <1>3, <2>3
  <2>5. B(i) = b
    BY <2>3, <2>4
  <2> HIDE DEF B
  <2>6. at[i] \in 1..Len(map.chain[b]) /\ map.chain[b][at[i]].value = map.chain[b][j].value
    BY <1>10, <2>4, <2>5
  <2>7. at[i] = j
    BY <1>2, <2>2, <2>6 DEF MapHas
  <2>8. h[i] = p
    BY <1>10, <2>1, <2>5, <2>7
  <2> QED BY <2>8
<1> HIDE DEF P
<1>14. h \in Bijection(1..size, P)
  BY <1>11, <1>12, <1>13 DEF Bijection, Injection, IsInjective, Surjection
<1>15. Cardinality(P) = size
  <2>1. IsFiniteSet(1..size) /\ Cardinality(1..size) = size
    BY <1>1, FS_Interval
  <2>2. ExistsBijection(1..size, P)
    BY <1>14 DEF ExistsBijection
  <2> QED BY ONLY <2>1, <2>2, FS_Bijection
<1> QED BY <1>2, <1>5, <1>6, <1>15 DEF MapMatchesList, P

\* Every call keeps the table in some order.
LEMMA LruStep == LruInv /\ [LruNext]_lruVars => LruInv'
<1> SUFFICES ASSUME LruInv, [LruNext]_lruVars PROVE LruInv'
  OBVIOUS
<1>1. PICK f : LruOrder(f)
  BY DEF LruInv
<1>2. udata \in [Node -> Data \cup {Nothing}]
  BY DEF LruInv
<1>3. ASSUME NEW g, LruOrderNext(g), udata' \in [Node -> Data \cup {Nothing}]
      PROVE  LruInv'
  BY <1>3 DEF LruInv, LruOrder, LruOrderNext
<1>4. ASSUME UNCHANGED structure PROVE LruInv'
  <2>1. LruOrderNext(f)
    BY <1>1, <1>4 DEF LruOrder, LruOrderNext, structure
  <2>2. udata' = udata
    BY <1>4 DEF structure
  <2> QED BY <1>2, <1>3, <2>1, <2>2
<1>5. ASSUME NEW i \in 1..size, TakenOut(f, i) PROVE LruInv'
  BY <1>2, <1>3, <1>5 DEF TakenOut
<1>6. ASSUME NEW g, NEW n, NEW k, NEW d \in Data, PutFirst(g, n, k, d) PROVE LruInv'
  <2>1. PICK x, m \in Node : /\ LruOrderNext(Added(g, n, m))
                             /\ udata' = [udata EXCEPT ![x] = d]
    BY <1>6 DEF PutFirst
  <2>2. udata' \in [Node -> Data \cup {Nothing}]
    BY <1>2, <2>1
  <2> QED BY <1>3, <2>1, <2>2
<1>7. ASSUME NEW k \in Key, NEW d \in Data, Put(k, d) PROVE LruInv'
  <2>1. ASSUME NEW i \in 1..size, LruOrderNext(Moved(f, size, i)),
               udata' = [udata EXCEPT ![dlData[f[i]]] = d]
        PROVE  LruInv'
    <3>1. udata' \in [Node -> Data \cup {Nothing}]
      BY <1>2, <2>1
    <3> QED BY <1>3, <2>1, <3>1
  <2> QED BY <1>1, <1>6, <1>7, <2>1, PutOrder
<1>8. ASSUME NEW k \in Key, list' = IF Hit(k) THEN ListAfterHit(k) ELSE list,
             UNCHANGED <<nodePool, dlPool, udataPool, map, dlData, dlNode, key, udata, size>>
      PROVE  LruInv'
  <2>1. CASE ~Hit(k)
    BY <1>4, <1>8, <2>1 DEF structure
  <2>2. ASSUME NEW i \in 1..size, Hit(k), dlNode[NodeOf(k)] = f[i] PROVE LruInv'
    <3>1. LruOrderNext(Moved(f, size, i))
      BY <1>1, <1>8, <2>2, HitOrder
    <3> QED BY <1>2, <1>3, <1>8, <3>1
  <2> QED BY <1>1, <2>1, <2>2, HitFacts
<1>9. ASSUME NEW k \in Key, Get(k) \/ MoveToHead(k) PROVE LruInv'
  BY <1>8, <1>9 DEF Get, MoveToHead
<1>10. ASSUME NEW k \in Key, HashGet(k) PROVE LruInv'
  BY <1>4, <1>10 DEF HashGet
<1>11. ASSUME NEW k \in Key, PopByKey(k) PROVE LruInv'
  BY <1>1, <1>4, <1>5, <1>11, PopByKeyOrder
<1>12. CASE PopHead \/ PopTail
  <2>1. size > 0 => 1 \in 1..size /\ size \in 1..size
    BY <1>1, OrderFacts
  <2> QED BY <1>1, <1>4, <1>5, <1>12, <2>1, PopHeadOrder, PopTailOrder
<1>13. CASE GetHead \/ GetTail
  BY <1>4, <1>13 DEF GetHead, GetTail
<1>14. CASE UNCHANGED lruVars
  BY <1>4, <1>14 DEF lruVars
<1> QED BY <1>7, <1>9, <1>10, <1>11, <1>12, <1>13, <1>14 DEF LruNext

\* Whatever calls came before, the links of the table's list agree in both
\* directions, and no entry is both in it and in a pool or lost to both.
THEOREM ListStaysSound == LruSpec => []ListIsSound
<1> QED BY LruStart, LruStep, OrderIsSound, PTL DEF LruSpec

\* The map finds the entries of the list and no other, and counts them.
THEOREM MapStaysMatched == LruSpec => []MapMatchesList
<1> QED BY LruStart, LruStep, OrderMatches, PTL DEF LruSpec

-----------------------------------------------------------------------------
(***************************************************************************)
(* The bounded table that this is.                                         *)
(***************************************************************************)
\* The entries of the list nodes, and their sequence in the order f.
Entries == [m \in Node |-> [key |-> key[dlData[m]], data |-> udata[dlData[m]]]]
Rows(w, f, n) == [i \in 1..n |-> w[f[i]]]
RowSet(w) == {w[m] : m \in Node}
Cut(t, i) == SubSeq(t, 1, i - 1) \o SubSeq(t, i + 1, Len(t))

\* The table shown is the sequence of entries.
TableShowsTheRows == \A f : LruOrder(f) => Table = Rows(Entries, f, size)

\* By the walk from the head.
LEMMA TableIsTheRows == TableShowsTheRows
<1> SUFFICES ASSUME NEW f, LruOrder(f) PROVE Table = Rows(Entries, f, size)
  BY DEF TableShowsTheRows
<1>1. \A i \in 1..size : Forward[i] = f[i] /\ f[i] \in Node
  BY WaysThrough, OrderFacts, ZenonT(60)
<1>2. \A i \in 1..size : Entries[f[i]] = [key |-> key[dlData[Forward[i]]],
                                          data |-> udata[dlData[Forward[i]]]]
  BY <1>1 DEF Entries
<1> HIDE DEF Entries
<1> QED BY <1>2 DEF Table, Rows

\* It is so after a step, too.
LEMMA TableIsTheRowsNext ==
  ASSUME NEW f, LruOrderNext(f)
  PROVE  Table' = Rows(Entries', f, size')
<1>1. TableShowsTheRows'
  BY TableIsTheRows, PTL
<1>2. \A g : LruOrderNext(g) => Table' = Rows(Entries', g, size')
  BY <1>1 DEF TableShowsTheRows, LruOrder, LruOrderNext
<1> QED BY <1>2

\* What a sequence of rows is.
LEMMA RowsAre ==
  ASSUME NEW w, NEW n, NEW f, n \in Nat, f \in [1..n -> Node]
  PROVE  /\ Rows(w, f, n) \in Seq(RowSet(w)) /\ Len(Rows(w, f, n)) = n
         /\ DOMAIN Rows(w, f, n) = 1..n
         /\ \A i \in 1..n : Rows(w, f, n)[i] = w[f[i]]
<1>1. \A i \in 1..n : w[f[i]] \in RowSet(w)
  BY DEF RowSet
<1>2. Rows(w, f, n) \in [1..n -> RowSet(w)]
  BY <1>1 DEF Rows
<1> QED BY <1>2 DEF Rows

\* Two sequences of rows are one if they agree row by row.
LEMMA RowsEqual ==
  ASSUME NEW w, NEW n, NEW f, n \in Nat, f \in [1..n -> Node],
         NEW T, NEW c \in Seq(T), Len(c) = n, \A i \in 1..n : c[i] = w[f[i]]
  PROVE  Rows(w, f, n) = c
<1>1. c = [i \in 1..n |-> c[i]]
  OBVIOUS
<1> QED BY <1>1 DEF Rows

\* The rows without one entry are cut there,
LEMMA RowsTaken ==
  ASSUME NEW w, NEW l, NEW n, NEW f, ListHas(l, f, n), NEW i \in 1..n
  PROVE  Rows(w, Taken(f, n, i), n - 1) = Cut(Rows(w, f, n), i)
<1> DEFINE t == Rows(w, f, n)
           T == RowSet(w)
           g == Taken(f, n, i)
<1>1. n \in Nat /\ f \in [1..n -> Node]
  BY DEF ListHas
<1>2. t \in Seq(T) /\ Len(t) = n /\ \A j \in 1..n : t[j] = w[f[j]]
  BY <1>1, RowsAre
<1>3. g \in [1..(n - 1) -> Node] /\ \A j \in 1..(n - 1) : g[j] = IF j < i THEN f[j] ELSE f[j + 1]
  BY <1>1 DEF Taken
<1> HIDE DEF t, T, g
<1> DEFINE c == Cut(t, i)
<1>4. /\ c \in Seq(T) /\ Len(c) = n - 1
      /\ \A j \in 1..Len(c) : c[j] = IF j < i THEN t[j] ELSE t[j + 1]
  <2>1. PICK s : s = t
    OBVIOUS
  <2>2. IsCut(T, s, i, c)
    BY <1>2, <2>1 DEF Cut, IsCut
  <2> HIDE DEF c
  <2>3. /\ c \in Seq(T) /\ Len(c) = Len(t) - 1
        /\ \A j \in 1..Len(c) : c[j] = IF j < i THEN t[j] ELSE t[j + 1]
    <3>1. /\ c \in Seq(T) /\ Len(c) = Len(s) - 1
          /\ \A j \in 1..Len(c) : c[j] = IF j < i THEN s[j] ELSE s[j + 1]
      BY <2>2, CutSeq
    <3> QED BY <2>1, <3>1
  <2> QED BY <1>2, <2>3
<1> HIDE DEF c
<1>5. \A j \in 1..(n - 1) : c[j] = w[g[j]]
  <2> SUFFICES ASSUME NEW j \in 1..(n - 1) PROVE c[j] = w[g[j]]
    OBVIOUS
  <2>1. j \in 1..n /\ j + 1 \in 1..n
    BY <1>1
  <2>2. c[j] = IF j < i THEN t[j] ELSE t[j + 1]
    BY <1>4
  <2> QED BY <1>2, <1>3, <2>1, <2>2
<1>6. n - 1 \in Nat
  BY <1>1
<1>7. Rows(w, g, n - 1) = c
  <2>1. PICK m : m = n - 1
    OBVIOUS
  <2>2. m \in Nat /\ g \in [1..m -> Node] /\ c \in Seq(T) /\ Len(c) = m
        /\ \A j \in 1..m : c[j] = w[g[j]]
    BY <1>3, <1>4, <1>5, <1>6, <2>1
  <2>3. Rows(w, g, m) = c
    BY ONLY <2>2, RowsEqual
  <2> QED BY <2>1, <2>3
<1> QED BY <1>7 DEF c, t, g

\* A row before the others.
LEMMA ConsRows ==
  ASSUME NEW T, NEW c \in Seq(T), NEW x \in T
  PROVE  /\ <<x>> \o c \in Seq(T) /\ Len(<<x>> \o c) = Len(c) + 1
         /\ (<<x>> \o c)[1] = x
         /\ \A j \in 1..Len(c) : (<<x>> \o c)[j + 1] = c[j]
<1>1. <<x>> \in Seq(T) /\ Len(<<x>>) = 1 /\ <<x>>[1] = x
  OBVIOUS
<1>2. PICK s : s = <<x>>
  OBVIOUS
<1>3. PICK d : d = s \o c
  OBVIOUS
<1>4. /\ d \in Seq(T) /\ Len(d) = Len(s) + Len(c)
      /\ \A j \in 1..(Len(s) + Len(c)) : d[j] = IF j <= Len(s) THEN s[j] ELSE c[j - Len(s)]
  <2>1. s \in Seq(T) /\ c \in Seq(T)
    BY <1>1, <1>2
  <2>2. /\ s \o c \in Seq(T) /\ Len(s \o c) = Len(s) + Len(c)
        /\ \A j \in 1..(Len(s) + Len(c)) :
             (s \o c)[j] = IF j <= Len(s) THEN s[j] ELSE c[j - Len(s)]
    BY ONLY <2>1, ConcatProperties, Zenon
  <2> QED BY ONLY <1>3, <2>2, Zenon
<1>5. Len(s) = 1 /\ s[1] = x /\ Len(c) \in Nat
  BY <1>1, <1>2
<1>6. Len(d) = Len(c) + 1 /\ d[1] = x /\ \A j \in 1..Len(c) : d[j + 1] = c[j]
  BY ONLY <1>4, <1>5
<1> QED BY <1>2, <1>3, <1>4, <1>6

\* with one moved to the head they are as a hit leaves them,
LEMMA RowsMoved ==
  ASSUME NEW w, NEW l, NEW n, NEW f, ListHas(l, f, n), NEW i \in 1..n
  PROVE  Rows(w, Moved(f, n, i), n)
           = IF n = 2 THEN Rows(w, f, n)
             ELSE <<Rows(w, f, n)[i]>> \o Cut(Rows(w, f, n), i)
<1>1. n \in Nat /\ f \in [1..n -> Node] /\ i \in 1..n
  BY DEF ListHas
<1>2. CASE n = 2
  BY <1>2 DEF Moved
<1>3. CASE n # 2
  <2> DEFINE T == RowSet(w)
  <2>1. PICK g : g = Moved(f, n, i)
    OBVIOUS
  <2>2. PICK h : h = Taken(f, n, i)
    OBVIOUS
  <2>3. PICK c : c = Rows(w, h, n - 1)
    OBVIOUS
  <2>4. /\ g \in [1..n -> Node] /\ g[1] = f[i]
        /\ \A j \in 1..(n - 1) : g[j + 1] = h[j]
        /\ h \in [1..(n - 1) -> Node]
    <3>1. \A j \in 1..n : g[j] = IF j = 1 THEN f[i] ELSE IF j <= i THEN f[j - 1] ELSE f[j]
      BY <1>1, <1>3, <2>1 DEF Moved
    <3>2. /\ h \in [1..(n - 1) -> Node]
          /\ \A j \in 1..(n - 1) : h[j] = IF j < i THEN f[j] ELSE f[j + 1]
      BY <1>1, <2>2 DEF Taken
    <3>3. g[1] = f[i]
      BY <1>1, <3>1
    <3>4. ASSUME NEW j \in 1..(n - 1) PROVE g[j + 1] = h[j]
      <4>1. j + 1 \in 1..n /\ j + 1 # 1 /\ (j + 1) - 1 = j /\ (j + 1 <= i <=> j < i)
        BY <1>1
      <4> QED BY <3>1, <3>2, <4>1
    <3>5. \A j \in 1..n : g[j] \in Node
      <4>1. \A j \in 1..n : j # 1 => j - 1 \in 1..n
        BY <1>1
      <4> QED BY <1>1, <3>1, <4>1
    <3>6. g \in [1..n -> Node]
      <4>1. DOMAIN g = 1..n /\ g = [j \in 1..n |-> g[j]]
        BY <1>3, <2>1 DEF Moved
      <4> QED BY <3>5, <4>1
    <3> QED BY <3>2, <3>3, <3>4, <3>6
  <2>5. c \in Seq(T) /\ Len(c) = n - 1 /\ \A j \in 1..(n - 1) : c[j] = w[h[j]]
    <3>1. PICK m : m = n - 1
      OBVIOUS
    <3>2. m \in Nat /\ h \in [1..m -> Node] /\ c = Rows(w, h, m)
      BY <1>1, <2>3, <2>4, <3>1
    <3>3. c \in Seq(T) /\ Len(c) = m /\ \A j \in 1..m : c[j] = w[h[j]]
      BY <3>2, RowsAre
    <3> QED BY <3>1, <3>3
  <2>6. PICK x : x = w[f[i]]
    OBVIOUS
  <2>7. x \in T
    BY <1>1, <2>6 DEF RowSet
  <2> HIDE DEF T
  <2>8. PICK d : d = <<x>> \o c
    OBVIOUS
  <2>9. d \in Seq(T) /\ Len(d) = Len(c) + 1 /\ d[1] = x /\ \A j \in 1..Len(c) : d[j + 1] = c[j]
    BY <2>5, <2>7, <2>8, ConsRows
  <2>10. \A j \in 1..n : d[j] = w[g[j]]
    <3> SUFFICES ASSUME NEW j \in 1..n PROVE d[j] = w[g[j]]
      OBVIOUS
    <3>1. CASE j = 1
      BY <2>4, <2>6, <2>9, <3>1
    <3>2. CASE j # 1
      <4>1. PICK k : k = j - 1
        OBVIOUS
      <4>2. k \in 1..(n - 1) /\ j = k + 1
        BY <1>1, <3>2, <4>1
      <4>3. d[k + 1] = c[k] /\ g[k + 1] = h[k] /\ c[k] = w[h[k]]
        BY <2>4, <2>5, <2>9, <4>2
      <4> QED BY <4>2, <4>3
    <3> QED BY <3>1, <3>2
  <2>11. Len(d) = n
    BY <1>1, <2>5, <2>9
  <2>12. Rows(w, g, n) = d
    BY <1>1, <2>4, <2>9, <2>10, <2>11, RowsEqual, SMTT(30)
  <2>13. c = Cut(Rows(w, f, n), i)
    BY <2>2, <2>3, RowsTaken
  <2>14. x = Rows(w, f, n)[i]
    BY <1>1, <2>6, RowsAre
  <2> QED BY <1>3, <2>1, <2>8, <2>12, <2>13, <2>14
<1> QED BY <1>2, <1>3

\* and with one more they have it first.
LEMMA RowsAdded ==
  ASSUME NEW w, NEW l, NEW n, NEW f, ListHas(l, f, n), NEW m \in Node
  PROVE  Rows(w, Added(f, n, m), n + 1) = <<w[m]>> \o Rows(w, f, n)
<1> DEFINE T == RowSet(w)
<1>1. n \in Nat /\ f \in [1..n -> Node]
  BY DEF ListHas
<1>2. PICK g : g = Added(f, n, m)
  OBVIOUS
<1>3. PICK c : c = Rows(w, f, n)
  OBVIOUS
<1>4. c \in Seq(T) /\ Len(c) = n /\ \A j \in 1..n : c[j] = w[f[j]]
  BY <1>1, <1>3, RowsAre
<1>5. /\ g \in [1..(n + 1) -> Node] /\ g[1] = m
      /\ \A j \in 1..n : g[j + 1] = f[j]
  BY <1>1, <1>2 DEF Added
<1>6. PICK x : x = w[m]
  OBVIOUS
<1>7. x \in T
  BY <1>6 DEF RowSet
<1> HIDE DEF T
<1>8. PICK d : d = <<x>> \o c
  OBVIOUS
<1>9. d \in Seq(T) /\ Len(d) = Len(c) + 1 /\ d[1] = x /\ \A j \in 1..Len(c) : d[j + 1] = c[j]
  BY <1>4, <1>7, <1>8, ConsRows
<1>10. PICK s : s = n + 1
  OBVIOUS
<1>11. \A j \in 1..s : d[j] = w[g[j]]
  <2> SUFFICES ASSUME NEW j \in 1..s PROVE d[j] = w[g[j]]
    OBVIOUS
  <2>1. CASE j = 1
    BY <1>5, <1>6, <1>9, <2>1
  <2>2. CASE j # 1
    <3>1. PICK k : k = j - 1
      OBVIOUS
    <3>2. k \in 1..n /\ j = k + 1
      BY <1>1, <1>10, <2>2, <3>1
    <3>3. d[k + 1] = c[k] /\ g[k + 1] = f[k] /\ c[k] = w[f[k]]
      BY <1>4, <1>5, <1>9, <3>2
    <3> QED BY <3>2, <3>3
  <2> QED BY <2>1, <2>2
<1>12. s \in Nat /\ g \in [1..s -> Node] /\ Len(d) = s
  BY <1>1, <1>4, <1>5, <1>9, <1>10
<1>13. Rows(w, g, s) = d
  BY <1>9, <1>11, <1>12, RowsEqual
<1> QED BY <1>2, <1>3, <1>6, <1>8, <1>10, <1>13

\* What has no part in a change keeps its rows.
LEMMA RowsSame ==
  ASSUME NEW v, NEW w, NEW n, NEW f, \A i \in 1..n : v[f[i]] = w[f[i]]
  PROVE  Rows(v, f, n) = Rows(w, f, n)
BY DEF Rows

\* Without its last element a sequence is its front.
LEMMA CutLast ==
  ASSUME NEW T, NEW t \in Seq(T), Len(t) > 0
  PROVE  Cut(t, Len(t)) = SubSeq(t, 1, Len(t) - 1)
<1>1. PICK n : n = Len(t)
  OBVIOUS
<1>2. n \in Nat /\ n > 0
  BY <1>1
<1>3. PICK front : front = SubSeq(t, 1, n - 1)
  OBVIOUS
<1>4. front \in Seq(T)
  BY <1>1, <1>2, <1>3
<1>5. SubSeq(t, n + 1, n) = <<>>
  BY <1>1, <1>2
<1>6. front \o <<>> = front
  BY <1>4, ConcatEmptySeq
<1> QED BY <1>1, <1>3, <1>5, <1>6 DEF Cut

\* The table shown, row by row.
LEMMA TableFacts ==
  ASSUME NEW f, LruOrder(f)
  PROVE  /\ Table = Rows(Entries, f, size) /\ Table \in Seq(RowSet(Entries))
         /\ Len(Table) = size /\ DOMAIN Table = 1..size
         /\ \A i \in 1..size : /\ Table[i] = Entries[f[i]]
                               /\ Table[i].key = key[dlData[f[i]]]
                               /\ Table[i].data = udata[dlData[f[i]]]
<1>1. size \in Nat /\ f \in [1..size -> Node]
  BY OrderFacts
<1>2. Table = Rows(Entries, f, size)
  BY TableIsTheRows DEF TableShowsTheRows
<1>3. /\ Rows(Entries, f, size) \in Seq(RowSet(Entries)) /\ Len(Rows(Entries, f, size)) = size
      /\ DOMAIN Rows(Entries, f, size) = 1..size
      /\ \A i \in 1..size : Rows(Entries, f, size)[i] = Entries[f[i]]
  BY <1>1, RowsAre
<1>4. \A i \in 1..size : /\ Entries[f[i]].key = key[dlData[f[i]]]
                         /\ Entries[f[i]].data = udata[dlData[f[i]]]
  BY <1>1 DEF Entries
<1> QED BY <1>2, <1>3, <1>4

\* A key is in the table shown where it is in the order.
LEMMA AtFacts ==
  ASSUME NEW f, LruOrder(f), NEW k \in Key
  PROVE  /\ \A i \in 1..size : i \in Abstract!At(k) <=> key[dlData[f[i]]] = k
         /\ (\A i \in 1..size : key[dlData[f[i]]] # k) => Abstract!At(k) = {}
         /\ \A i \in Abstract!At(k) : i \in 1..size
BY TableFacts DEF Abstract!At

\* With the calls that leave the entries alone the rows follow the order.
LEMMA EntriesStay ==
  ASSUME UNCHANGED <<dlData, key, udata>>
  PROVE  Entries' = Entries
BY DEF Entries

\* A call that changes no structure changes no row.
LEMMA NothingMoves ==
  ASSUME LruInv, UNCHANGED structure
  PROVE  Table' = Table
<1>1. PICK f : LruOrder(f)
  BY DEF LruInv
<1>2. LruOrderNext(f) /\ size' = size /\ UNCHANGED <<dlData, key, udata>>
  BY <1>1 DEF structure, LruOrder, LruOrderNext
<1>3. Table' = Rows(Entries', f, size') /\ Entries' = Entries
  BY <1>2, TableIsTheRowsNext, EntriesStay
<1> QED BY <1>1, <1>2, <1>3, TableFacts

\* An entry taken out, with what the call returns for it.
LEMMA TakenOutRows ==
  ASSUME NEW f, LruOrder(f), NEW i \in 1..size, TakenOut(f, i)
  PROVE  Table' = Abstract!Without(i) /\ ret' = Table[i].data
<1>1. /\ LruOrderNext(Taken(f, size, i)) /\ size' = size - 1 /\ ret' = udata[dlData[f[i]]]
      /\ UNCHANGED <<dlData, key, udata>>
  BY DEF TakenOut
<1>2. PICK g : g = Taken(f, size, i)
  OBVIOUS
<1>3. Table' = Rows(Entries', g, size')
  BY <1>1, <1>2, TableIsTheRowsNext
<1>4. Entries' = Entries
  BY <1>1, EntriesStay
<1>5. ListHas(list, f, size)
  BY OrderFacts
<1>6. Rows(Entries, Taken(f, size, i), size - 1) = Cut(Rows(Entries, f, size), i)
  BY <1>5, RowsTaken
<1>7. Table = Rows(Entries, f, size) /\ Table[i].data = udata[dlData[f[i]]]
  BY TableFacts
<1>8. Table' = Cut(Table, i)
  BY <1>1, <1>2, <1>3, <1>4, <1>6, <1>7
<1> QED BY <1>1, <1>7, <1>8 DEF Abstract!Without, Cut

\* A hit, with the entries as they were.
LEMMA TouchedRows ==
  ASSUME NEW f, LruOrder(f), NEW i \in 1..size
  PROVE  Rows(Entries, Moved(f, size, i), size) \in Abstract!Orders(i)
<1>1. ListHas(list, f, size)
  BY OrderFacts
<1>2. Rows(Entries, Moved(f, size, i), size)
        = IF size = 2 THEN Rows(Entries, f, size)
          ELSE <<Rows(Entries, f, size)[i]>> \o Cut(Rows(Entries, f, size), i)
  BY <1>1, RowsMoved
<1>3. Table = Rows(Entries, f, size) /\ Len(Table) = size
  BY TableFacts
<1>4. PICK r : r = Rows(Entries, Moved(f, size, i), size)
  OBVIOUS
<1>5. r = IF size = 2 THEN Table ELSE <<Table[i]>> \o Cut(Table, i)
  BY <1>2, <1>3, <1>4
<1>6. Abstract!Orders(i) = {<<Table[i]>> \o Cut(Table, i)}
                             \cup (IF Len(Table) \in {2} THEN {Table} ELSE {})
  BY Zenon DEF Abstract!Orders, Abstract!Without, Cut
<1> HIDE DEF Table
<1> QED BY <1>3, <1>4, <1>5, <1>6

\* The table after a hit.
LEMMA MovedRows ==
  ASSUME NEW f, LruOrder(f), NEW i \in 1..size, LruOrderNext(Moved(f, size, i)),
         UNCHANGED <<dlData, key, udata, size>>
  PROVE  Table' \in Abstract!Orders(i)
<1>1. PICK g : g = Moved(f, size, i)
  OBVIOUS
<1>2. Table' = Rows(Entries', g, size')
  BY <1>1, TableIsTheRowsNext
<1>3. Entries' = Entries /\ size' = size
  BY EntriesStay
<1> QED BY <1>1, <1>2, <1>3, TouchedRows

\* A hit that replaces the data.
Replaced(t, k, d) ==
  [j \in DOMAIN t |-> IF t[j].key = k THEN [t[j] EXCEPT !.data = d] ELSE t[j]]

AReplacement(t, i, k, d) == \E u \in Abstract!Orders(i) : t = Replaced(u, k, d)

\* The table after a put of a key that is there.
LEMMA ReplacedRows ==
  ASSUME NEW f, LruOrder(f), NEW i \in 1..size, LruOrderNext(Moved(f, size, i)),
         NEW k, key[dlData[f[i]]] = k, NEW d, udata \in [Node -> Data \cup {Nothing}],
         udata' = [udata EXCEPT ![dlData[f[i]]] = d], UNCHANGED <<dlData, key, size>>
  PROVE  AReplacement(Table', i, k, d)
<1>1. PICK g : g = Moved(f, size, i)
  OBVIOUS
<1>2. /\ size \in Nat /\ ListHas(list, f, size) /\ f \in [1..size -> Node]
      /\ \A j \in 1..size : dlData[f[j]] \in Node
      /\ \A j, m \in 1..size : key[dlData[f[j]]] = key[dlData[f[m]]] => j = m
  BY OrderFacts
<1>3. SameNodes(g, f, size)
  BY <1>1, <1>2, MovedHasTheSame
<1>4. Table' = Rows(Entries', g, size)
  BY <1>1, TableIsTheRowsNext
<1>5. Rows(Entries, g, size) \in Abstract!Orders(i)
  BY <1>1, TouchedRows
<1>6. ASSUME NEW j \in 1..size
      PROVE  Entries'[g[j]] = IF Entries[g[j]].key = k THEN [Entries[g[j]] EXCEPT !.data = d]
                              ELSE Entries[g[j]]
  <2>1. PICK m \in 1..size : g[j] = f[m]
    BY <1>3 DEF SameNodes
  <2>2. PICK x : x = dlData[f[m]]
    OBVIOUS
  <2>3. x \in Node /\ f[m] \in Node /\ (x = dlData[f[i]] <=> key[x] = k)
    BY <1>2, <2>2
  <2>4. Entries[f[m]] = [key |-> key[x], data |-> udata[x]]
    BY <2>2, <2>3 DEF Entries
  <2>5. Entries'[f[m]] = [key |-> key[x], data |-> udata'[x]]
    BY <2>2, <2>3 DEF Entries
  <2>6. udata'[x] = IF key[x] = k THEN d ELSE udata[x]
    BY <2>3
  <2> QED BY <2>1, <2>4, <2>5, <2>6
<1>7. PICK r : r = Rows(Entries, g, size)
  OBVIOUS
<1>8. DOMAIN r = 1..size /\ \A j \in 1..size : r[j] = Entries[g[j]]
  BY <1>7 DEF Rows
<1>9. Table' = [j \in 1..size |-> Entries'[g[j]]]
  BY <1>4 DEF Rows
<1>10. \A j \in 1..size : Entries'[g[j]] = IF r[j].key = k THEN [r[j] EXCEPT !.data = d] ELSE r[j]
  BY <1>6, <1>8
<1>11. Table' = [j \in DOMAIN r |-> IF r[j].key = k THEN [r[j] EXCEPT !.data = d] ELSE r[j]]
  BY <1>8, <1>9, <1>10
<1> QED BY <1>5, <1>7, <1>11 DEF Replaced, AReplacement

\* A new entry is the first row.
LEMMA PutFirstRows ==
  ASSUME NEW f, LruOrder(f), udata \in [Node -> Data \cup {Nothing}],
         NEW g, NEW n, NEW l, ListHas(l, g, n), \A i \in 1..n : dlData[g[i]] \in Node,
         NEW k, NEW d, PutFirst(g, n, k, d)
  PROVE  Table' = <<[key |-> k, data |-> d]>> \o Rows(Entries, g, n)
<1>1. PICK x, m \in Node :
        /\ \A i \in 1..n : g[i] # m /\ dlData[g[i]] # x
        /\ LruOrderNext(Added(g, n, m)) /\ size' = n + 1
        /\ dlData' = [dlData EXCEPT ![m] = x] /\ key' = [key EXCEPT ![x] = k]
        /\ udata' = [udata EXCEPT ![x] = d]
  BY DEF PutFirst
<1>2. PICK h : h = Added(g, n, m)
  OBVIOUS
<1>3. Table' = Rows(Entries', h, size')
  BY <1>1, <1>2, TableIsTheRowsNext
<1>4. Rows(Entries', Added(g, n, m), n + 1) = <<Entries'[m]>> \o Rows(Entries', g, n)
  BY RowsAdded
<1>5. /\ dlData \in [Node -> Node \cup {NULL}] /\ key \in [Node -> Key \cup {Nothing}]
      /\ g \in [1..n -> Node]
  BY DEF LruOrder, InOrder, Keyed, ListHas
<1>6. Entries'[m] = [key |-> k, data |-> d]
  <2>1. dlData'[m] = x /\ key'[x] = k /\ udata'[x] = d
    BY <1>1, <1>5
  <2> QED BY <2>1 DEF Entries
<1>7. ASSUME NEW i \in 1..n PROVE Entries'[g[i]] = Entries[g[i]]
  <2>1. PICK y : y = dlData[g[i]]
    OBVIOUS
  <2>2. g[i] \in Node /\ g[i] # m /\ y # x /\ y \in Node
    BY <1>1, <1>5, <2>1
  <2>3. dlData'[g[i]] = y /\ key'[y] = key[y] /\ udata'[y] = udata[y]
    BY <1>1, <1>5, <2>1, <2>2
  <2>4. Entries'[g[i]] = [key |-> key'[y], data |-> udata'[y]]
    BY <2>2, <2>3 DEF Entries
  <2>5. Entries[g[i]] = [key |-> key[y], data |-> udata[y]]
    BY <2>1, <2>2 DEF Entries
  <2> QED BY <2>3, <2>4, <2>5
<1>8. Rows(Entries', g, n) = Rows(Entries, g, n)
  BY <1>7 DEF Rows
<1> QED BY <1>1, <1>2, <1>3, <1>4, <1>6, <1>8

\* gnb_lru32_put is what the bounded table does.
LEMMA PutRefines ==
  ASSUME LruInv, NEW k \in Key, NEW d \in Data, Put(k, d)
  PROVE  Abstract!Put(k, d)
<1>1. PICK f : LruOrder(f)
  BY DEF LruInv
<1>2. udata \in [Node -> Data \cup {Nothing}]
  BY DEF LruInv
<1>3. /\ size \in Nat /\ size <= MaxSize /\ MaxSize \in Nat \ {0} /\ ListHas(list, f, size)
      /\ \A i \in 1..size : dlData[f[i]] \in Node
  BY <1>1, OrderFacts, LruFacts
<1>4. Table = Rows(Entries, f, size) /\ Len(Table) = size /\ Table \in Seq(RowSet(Entries))
  BY <1>1, TableFacts
<1>5. ASSUME NEW i \in 1..size, key[dlData[f[i]]] = k, LruOrderNext(Moved(f, size, i)),
             udata' = [udata EXCEPT ![dlData[f[i]]] = d], ret' = Nothing,
             UNCHANGED <<dlData, key, size>>
      PROVE  Abstract!Put(k, d)
  <2>1. i \in Abstract!At(k)
    BY <1>1, <1>5, AtFacts
  <2>2. PICK t \in Abstract!Orders(i) : Table' = Replaced(t, k, d)
    <3>1. AReplacement(Table', i, k, d)
      BY <1>1, <1>2, <1>5, ReplacedRows
    <3> QED BY <3>1 DEF AReplacement
  <2> QED BY <1>5, <2>1, <2>2, Zenon DEF Abstract!Put, Replaced
<1>6. ASSUME \A i \in 1..size : key[dlData[f[i]]] # k, size < MaxSize,
             PutFirst(f, size, k, d), ret' = Nothing
      PROVE  Abstract!Put(k, d)
  <2>1. Abstract!At(k) = {}
    BY <1>1, <1>6, AtFacts
  <2>2. Table' = <<[key |-> k, data |-> d]>> \o Rows(Entries, f, size)
    BY <1>1, <1>2, <1>3, <1>6, PutFirstRows
  <2>3. Table' = <<[key |-> k, data |-> d]>> \o Table /\ Len(Table) < MaxSize
    BY <1>4, <1>6, <2>2
  <2> QED BY <1>6, <2>1, <2>3, Zenon DEF Abstract!Put
<1>7. ASSUME \A i \in 1..size : key[dlData[f[i]]] # k, size = MaxSize,
             PutFirst(Taken(f, size, size), size - 1, k, d), ret' = udata[dlData[f[size]]]
      PROVE  Abstract!Put(k, d)
  <2>1. Abstract!At(k) = {}
    BY <1>1, <1>7, AtFacts
  <2>2. PICK g : g = Taken(f, size, size)
    OBVIOUS
  <2>3. PICK n : n = size - 1
    OBVIOUS
  <2>4. size > 0 /\ size \in 1..size
    BY <1>3, <1>7
  <2>5. ListHas(ListPopTail(list), g, n)
    BY <1>3, <2>2, <2>3, <2>4, PopTailHas
  <2>6. \A i \in 1..n : dlData[g[i]] \in Node
    <3>1. \A i \in 1..n : g[i] = f[i] /\ i \in 1..size
      BY <1>3, <2>2, <2>3 DEF Taken
    <3> QED BY <1>3, <3>1
  <2>7. Table' = <<[key |-> k, data |-> d]>> \o Rows(Entries, g, n)
    BY <1>1, <1>2, <1>7, <2>2, <2>3, <2>5, <2>6, PutFirstRows
  <2>8. Rows(Entries, Taken(f, size, size), size - 1) = Cut(Rows(Entries, f, size), size)
    BY <1>3, <2>4, RowsTaken
  <2>9. Cut(Table, Len(Table)) = SubSeq(Table, 1, Len(Table) - 1)
    BY <1>4, <2>4, CutLast
  <2>10. Table' = <<[key |-> k, data |-> d]>> \o SubSeq(Table, 1, MaxSize - 1)
    BY <1>4, <1>7, <2>2, <2>3, <2>7, <2>8, <2>9
  <2>11. ret' = Table[MaxSize].data
    BY <1>1, <1>7, <2>4, TableFacts
  <2>12. Len(Table) = MaxSize
    BY <1>4, <1>7
  <2> QED BY <2>1, <2>10, <2>11, <2>12, Zenon DEF Abstract!Put
<1> QED BY <1>1, <1>5, <1>6, <1>7, PutOrder

\* The calls of one key that put nothing: gnb_lru32_get, gnb_lru32_hash_get,
\* gnb_lru32_movetohead, gnb_lru32_pop_by_key.
LEMMA KeyedRefines ==
  ASSUME LruInv, NEW k \in Key
  PROVE  /\ Get(k) => Abstract!Get(k)
         /\ HashGet(k) => Abstract!HashGet(k)
         /\ MoveToHead(k) => Abstract!MoveToHead(k)
         /\ PopByKey(k) => Abstract!PopByKey(k)
<1>1. PICK f : LruOrder(f)
  BY DEF LruInv
<1>2. UNCHANGED structure => Table' = Table
  BY NothingMoves
<1>3. CASE /\ \A i \in 1..size : key[dlData[f[i]]] # k
           /\ ~Hit(k)
  <2>1. Abstract!At(k) = {}
    BY <1>1, <1>3, AtFacts
  <2>2. ASSUME ret' = Nothing, UNCHANGED structure
        PROVE  /\ Abstract!Get(k) /\ Abstract!HashGet(k) /\ Abstract!MoveToHead(k)
               /\ Abstract!PopByKey(k)
    BY <1>2, <2>1, <2>2
    DEF Abstract!Get, Abstract!HashGet, Abstract!MoveToHead, Abstract!PopByKey
  <2>3. Get(k) \/ HashGet(k) \/ MoveToHead(k) \/ PopByKey(k)
          => ret' = Nothing /\ UNCHANGED structure
    BY <1>3 DEF Get, HashGet, MoveToHead, PopByKey, structure
  <2> QED BY <2>2, <2>3
<1>4. ASSUME NEW i \in 1..size, key[dlData[f[i]]] = k, Hit(k), NodeOf(k) = dlData[f[i]],
             dlNode[NodeOf(k)] = f[i]
      PROVE  /\ Get(k) => Abstract!Get(k)
             /\ HashGet(k) => Abstract!HashGet(k)
             /\ MoveToHead(k) => Abstract!MoveToHead(k)
             /\ PopByKey(k) => Abstract!PopByKey(k)
  <2>1. i \in Abstract!At(k) /\ Table[i].data = udata[NodeOf(k)]
    BY <1>1, <1>4, AtFacts, TableFacts
  <2>2. ASSUME list' = ListAfterHit(k),
               UNCHANGED <<nodePool, dlPool, udataPool, map, dlData, dlNode, key, udata, size>>
        PROVE  Table' \in Abstract!Orders(i)
    <3>1. LruOrderNext(Moved(f, size, i))
      BY <1>1, <1>4, <2>2, HitOrder
    <3> QED BY <1>1, <2>2, <3>1, MovedRows
  <2>3. Get(k) => Abstract!Get(k)
    BY <1>4, <2>1, <2>2 DEF Get, Abstract!Get
  <2>4. MoveToHead(k) => Abstract!MoveToHead(k)
    BY <1>4, <2>1, <2>2 DEF MoveToHead, Abstract!MoveToHead
  <2>5. HashGet(k) => Abstract!HashGet(k)
    BY <1>2, <1>4, <2>1 DEF HashGet, Abstract!HashGet
  <2>6. ASSUME PopByKey(k) PROVE Abstract!PopByKey(k)
    <3>1. PICK j \in 1..size : key[dlData[f[j]]] = k /\ TakenOut(f, j)
      BY <1>1, <1>4, <2>6, PopByKeyOrder
    <3>2. j \in Abstract!At(k)
      BY <1>1, <3>1, AtFacts
    <3>3. Table' = Abstract!Without(j) /\ ret' = Table[j].data
      BY <1>1, <3>1, TakenOutRows
    <3> QED BY <3>2, <3>3 DEF Abstract!PopByKey
  <2> QED BY <2>3, <2>4, <2>5, <2>6
<1> QED BY <1>1, <1>3, <1>4, HitFacts

\* The calls at the two ends: gnb_lru32_pop_head, gnb_lru32_pop_tail,
\* gnb_lru32_get_head, gnb_lru32_get_tail.
LEMMA EndsRefine ==
  ASSUME LruInv
  PROVE  /\ PopHead => Abstract!Pop(1)
         /\ PopTail => Abstract!Pop(Len(Table))
         /\ GetHead => Abstract!Peek(1)
         /\ GetTail => Abstract!Peek(Len(Table))
<1>1. PICK f : LruOrder(f)
  BY DEF LruInv
<1>2. UNCHANGED structure => Table' = Table
  BY NothingMoves
<1>3. Len(Table) = size /\ (Table = <<>> <=> size = 0)
  <2>1. Len(Table) = size /\ Table \in Seq(RowSet(Entries))
    BY <1>1, TableFacts
  <2> HIDE DEF Table
  <2> QED BY <2>1
<1>4. size > 0 => /\ 1 \in 1..size /\ size \in 1..size
                  /\ list.head = f[1] /\ list.tail = f[size] /\ f[1] \in Node /\ f[size] \in Node
  BY <1>1, OrderFacts
<1>5. size \in Nat
  BY <1>1, OrderFacts
<1> HIDE DEF Table
<1>6. PopHead => Abstract!Pop(1)
  BY <1>1, <1>2, <1>3, <1>4, PopHeadOrder, TakenOutRows DEF Abstract!Pop
<1>7. PopTail => Abstract!Pop(Len(Table))
  BY <1>1, <1>2, <1>3, <1>4, PopTailOrder, TakenOutRows DEF Abstract!Pop
<1>8. size > 0 => /\ Table[1].data = udata[dlData[f[1]]]
                  /\ Table[size].data = udata[dlData[f[size]]]
  BY <1>1, <1>4, TableFacts
<1>9. \A n \in Node : n # NoNode
  BY LruFacts
<1>10. GetHead => Abstract!Peek(1)
  BY <1>2, <1>3, <1>4, <1>5, <1>8, <1>9 DEF GetHead, HeadNode, Abstract!Peek
<1>11. GetTail => Abstract!Peek(Len(Table))
  BY <1>2, <1>3, <1>4, <1>5, <1>8, <1>9 DEF GetTail, TailNode, Abstract!Peek
<1> QED BY <1>6, <1>7, <1>10, <1>11

\* An empty list shows an empty table,
LEMMA TableStarts == LruInit => Abstract!Init
<1> SUFFICES ASSUME LruInit PROVE Abstract!Init
  OBVIOUS
<1>1. PICK f : LruOrder(f)
  BY LruStart DEF LruInv
<1>2. Len(Table) = size /\ Table \in Seq(RowSet(Entries))
  BY <1>1, TableFacts
<1>3. size = 0 /\ ret = Nothing
  BY DEF LruInit
<1> HIDE DEF Table
<1> QED BY <1>2, <1>3 DEF Abstract!Init

\* and each call does to the table shown what the bounded table promises.
LEMMA TableSteps == LruInv /\ [LruNext]_lruVars => [Abstract!Next]_<<Table, ret>>
<1> SUFFICES ASSUME LruInv, [LruNext]_lruVars PROVE [Abstract!Next]_<<Table, ret>>
  OBVIOUS
<1> HIDE DEF Table
<1>1. CASE UNCHANGED lruVars
  BY <1>1, NothingMoves DEF lruVars
<1>2. ASSUME NEW k \in Key, NEW d \in Data, Put(k, d) PROVE Abstract!Next
  BY <1>2, PutRefines DEF Abstract!Next
<1>3. ASSUME NEW k \in Key, Get(k) \/ HashGet(k) \/ MoveToHead(k) \/ PopByKey(k)
      PROVE  Abstract!Next
  BY <1>3, KeyedRefines DEF Abstract!Next
<1>4. CASE PopHead \/ PopTail \/ GetHead \/ GetTail
  BY <1>4, EndsRefine DEF Abstract!Next
<1> QED BY <1>1, <1>2, <1>3, <1>4 DEF LruNext

\* The list, the map, the pools and the counters together are the bounded
\* table the TCP side takes them for, whatever the number of channels, but for
\* the order a hit leaves in a table of two: that is the new one or the old.
THEOREM TableIsRefined == LruSpec => IsLruTableButForTwo
<1>1. LruInit => Abstract!Init
  BY TableStarts
<1>2. LruInv /\ [LruNext]_lruVars => [Abstract!Next]_<<Table, ret>>
  BY TableSteps
<1> QED BY <1>1, <1>2, LruStart, LruStep, PTL DEF LruSpec, IsLruTableButForTwo, Abstract!Spec
==============================================================================
