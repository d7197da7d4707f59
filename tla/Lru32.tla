-------------------------------- MODULE Lru32 --------------------------------
(***************************************************************************)
(* gnb_lru32.c: the table of channels of the TCP side.  An entry is a node *)
(* from one pool and a list node from another; the map finds the node by   *)
(* its key (Hash32), the list keeps the order (LinkedList).  block_size is *)
(* not 0, as in service_init_cb, so each entry also takes a block from a   *)
(* third pool, which the caller's pointer then replaces.                   *)
(***************************************************************************)
EXTENDS Integers, Sequences, FiniteSets, FixedPool, LinkedList, Hash32

CONSTANTS
  Key,
  Data,     \* the callers' pointers
  MaxSize,  \* max_size
  Nothing   \* NULL, as a result or as an entry's data

ASSUME LruAssumption ==
  /\ MaxSize \in Nat \ {0} /\ BucketNum = MaxSize /\ NoValue = NULL
  /\ Key = DOMAIN HashOf

Node == 0 .. (MaxSize - 1)

VARIABLES
  nodePool, dlPool, udataPool,  \* lru_node_fixed_pool and the two others
  map,    \* lru_node_map: its values are nodes
  list,   \* doubly_linked_list
  dlData, \* list node -> the lru node it carries
  dlNode, \* lru node -> its list node
  key,    \* lru node -> kv->key
  udata,  \* lru node -> udata
  size,
  ret     \* what the last call returned

structure == <<nodePool, dlPool, udataPool, map, list, dlData, dlNode, key, udata, size>>
lruVars == <<structure, ret>>

LruInit ==
  /\ nodePool = PoolCreate(MaxSize) /\ dlPool = PoolCreate(MaxSize)
  /\ udataPool = PoolCreate(MaxSize)
  /\ map = KvCreate
  /\ list = ListCreate(Node)
  /\ dlData = [n \in Node |-> NULL] /\ dlNode = [n \in Node |-> NULL]
  /\ key = [n \in Node |-> Nothing] /\ udata = [n \in Node |-> Nothing]
  /\ size = 0
  /\ ret = Nothing

\* gnb_lru32_get and gnb_lru32_movetohead, on a hit.
NodeOf(k) == KvGet(map, k)
Hit(k) == NodeOf(k) # NULL
ListAfterHit(k) == ListMoveHead(list, dlNode[NodeOf(k)])

\* Mutant: the pair stays in the map.
UnlinkedButMapped(n) ==
  [nodePool |-> PoolPush(nodePool, n), dlPool |-> PoolPush(dlPool, dlNode[n]),
   udataPool |-> PoolPush(udataPool, udata[n]), map |-> map]

\* What the pools and the map are without the entry of node n.
Unlinked(n) ==
  [nodePool |-> PoolPush(nodePool, n), dlPool |-> PoolPush(dlPool, dlNode[n]),
   udataPool |-> PoolPush(udataPool, udata[n]), map |-> KvDel(map, key[n])]

\* Mutant: the head is taken for the tail.
HeadForTail == dlData[list.head]

TailNode == dlData[list.tail]
HeadNode == dlData[list.head]

Put(k, d) ==
  IF Hit(k)
  THEN /\ list' = ListAfterHit(k)
       /\ udata' = [udata EXCEPT ![NodeOf(k)] = d]
       /\ ret' = Nothing
       /\ UNCHANGED <<nodePool, dlPool, udataPool, map, dlData, dlNode, key, size>>
  ELSE LET full == size >= MaxSize
           u == IF full THEN Unlinked(TailNode)
                ELSE [nodePool |-> nodePool, dlPool |-> dlPool,
                      udataPool |-> udataPool, map |-> map]
           n == PoolTop(u.nodePool)
           l == PoolTop(u.dlPool)
       IN /\ ret' = IF full THEN udata[TailNode] ELSE Nothing
          /\ nodePool' = PoolPop(u.nodePool) /\ dlPool' = PoolPop(u.dlPool)
          /\ udataPool' = PoolPop(u.udataPool)
          /\ list' = ListAdd(IF full THEN ListPopTail(list) ELSE list, l)
          /\ map' = KvSet(u.map, k, n)
          /\ dlNode' = [dlNode EXCEPT ![n] = l] /\ dlData' = [dlData EXCEPT ![l] = n]
          /\ key' = [key EXCEPT ![n] = k] /\ udata' = [udata EXCEPT ![n] = d]
          /\ size' = IF full THEN size ELSE size + 1

HashGet(k) ==
  /\ ret' = IF Hit(k) THEN udata[NodeOf(k)] ELSE Nothing
  /\ UNCHANGED structure

Get(k) ==
  /\ ret' = IF Hit(k) THEN udata[NodeOf(k)] ELSE Nothing
  /\ list' = IF Hit(k) THEN ListAfterHit(k) ELSE list
  /\ UNCHANGED <<nodePool, dlPool, udataPool, map, dlData, dlNode, key, udata, size>>

MoveToHead(k) ==
  /\ ret' = Nothing
  /\ list' = IF Hit(k) THEN ListAfterHit(k) ELSE list
  /\ UNCHANGED <<nodePool, dlPool, udataPool, map, dlData, dlNode, key, udata, size>>

\* Node n goes back to the pools; l is the list without it.
Remove(n, l) ==
  /\ ret' = udata[n]
  /\ nodePool' = Unlinked(n).nodePool /\ dlPool' = Unlinked(n).dlPool
  /\ udataPool' = Unlinked(n).udataPool /\ map' = Unlinked(n).map
  /\ list' = l
  /\ size' = size - 1
  /\ UNCHANGED <<dlData, dlNode, key, udata>>

\* gnb_lru32_get comes first and may move the entry before it is taken out.
PopByKey(k) ==
  IF Hit(k) THEN Remove(NodeOf(k), ListPop(ListAfterHit(k), dlNode[NodeOf(k)]))
  ELSE ret' = Nothing /\ UNCHANGED structure

PopHead ==
  IF size = 0 \/ list.head = NoNode THEN ret' = Nothing /\ UNCHANGED structure
  ELSE Remove(HeadNode, ListPopHead(list))

PopTail ==
  IF size = 0 \/ list.tail = NoNode THEN ret' = Nothing /\ UNCHANGED structure
  ELSE Remove(TailNode, ListPopTail(list))

GetHead ==
  /\ ret' = IF size = 0 \/ list.head = NoNode THEN Nothing ELSE udata[HeadNode]
  /\ UNCHANGED structure

GetTail ==
  /\ ret' = IF size = 0 \/ list.tail = NoNode THEN Nothing ELSE udata[TailNode]
  /\ UNCHANGED structure

LruNext ==
  \/ \E k \in Key : \/ \E d \in Data : Put(k, d)
                     \/ Get(k) \/ HashGet(k) \/ MoveToHead(k) \/ PopByKey(k)
  \/ PopHead \/ PopTail \/ GetHead \/ GetTail

LruSpec == LruInit /\ [][LruNext]_lruVars

-----------------------------------------------------------------------------
\* The list nodes from the head on, and from the tail back.
Forward[i \in 1..MaxSize] == IF i = 1 THEN list.head ELSE list.nex[Forward[i - 1]]
Backward[i \in 1..MaxSize] == IF i = 1 THEN list.tail ELSE list.pre[Backward[i - 1]]

\* Whatever sequence of calls came before, the links of the list agree in both
\* directions, end in NULL and reach `size` nodes; no pool hands out a node
\* that is in the list, and none is lost to both.
ListIsSound ==
  /\ list.num = size /\ size \in 0..MaxSize
  /\ size > 0 => list.pre[list.head] = NoNode /\ list.nex[list.tail] = NoNode
  /\ \A i \in 1..size : Forward[i] = Backward[size + 1 - i]
  /\ {Forward[i] : i \in 1..size} = Node \ PoolFree(dlPool)
  /\ {dlData[Forward[i]] : i \in 1..size} = Node \ PoolFree(nodePool)
  /\ PoolOK(dlPool, MaxSize) /\ PoolOK(nodePool, MaxSize)

\* The map finds exactly the entries of the list, with keys that share a bucket
\* too, and has one pair for each; the counters that gnb_hash32_del goes by
\* agree with the chains.
MapMatchesList ==
  /\ \A n \in Node, k \in Key : NodeOf(k) = n <=> n \notin PoolFree(nodePool) /\ key[n] = k
  /\ \A b \in Bucket : map.chainLen[b] = Len(map.chain[b])
  /\ map.kvNum = size
  /\ map.kvNum = Cardinality({p \in Bucket \X (1..size) : p[2] <= Len(map.chain[p[1]])})

Table == [i \in 1..size |-> [key |-> key[dlData[Forward[i]]],
                             data |-> udata[dlData[Forward[i]]]]]

Promised == INSTANCE LruTable WITH table <- Table, Lax <- {}

\* gnb_lru32.h:97: a hit moves the entry to the head of the list.
IsLruTable == Promised!Spec

Abstract == INSTANCE LruTable WITH table <- Table, Lax <- {2}

\* But for the order after a hit in a table of two, gnb_lru32 is the bounded
\* table the TCP side takes it for: eviction takes the entry at the tail, and
\* a lookup never answers with another one's data.
IsLruTableButForTwo == Abstract!Spec
==============================================================================
