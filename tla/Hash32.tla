-------------------------------- MODULE Hash32 --------------------------------
(***************************************************************************)
(* gnb_hash32.c: a map of buckets, each a chain of key-value pairs in the  *)
(* order they came.  Values are pointers, kept as they are (value_len is   *)
(* 0).  Every operator gives the map, or the answer, after the call; a map *)
(* is its chains, their lengths and the number of pairs.                   *)
(***************************************************************************)
EXTENDS Integers, Sequences

CONSTANTS
  BucketNum,  \* bucket_num
  HashOf,     \* murmurhash_hash, of the keys that are used
  NoValue     \* NULL

ASSUME HashAssumption == BucketNum \in Nat \ {0} /\ \A k \in DOMAIN HashOf : HashOf[k] \in Nat

Bucket == 0 .. (BucketNum - 1)
BucketOf(k) == HashOf[k] % BucketNum

KvCreate ==
  [chain |-> [b \in Bucket |-> <<>>], chainLen |-> [b \in Bucket |-> 0], kvNum |-> 0]

\* Where k is in a chain; the first place, as the loops find it.
Places(c, k) == {i \in DOMAIN c : c[i].key = k}
Place(c, k) == CHOOSE i \in Places(c, k) : \A j \in Places(c, k) : i <= j

\* gnb_hash32_set, for a key that is there and for one that is not.
KvSet(h, k, v) ==
  LET b == BucketOf(k)
      c == h.chain[b]
  IN IF Places(c, k) # {} THEN [h EXCEPT !.chain[b][Place(c, k)].value = v]
     ELSE [chain |-> [h.chain EXCEPT ![b] = Append(c, [key |-> k, value |-> v])],
           chainLen |-> [h.chainLen EXCEPT ![b] = IF c = <<>> THEN 1 ELSE @ + 1],
           kvNum |-> h.kvNum + 1]

KvGet(h, k) ==
  LET c == h.chain[BucketOf(k)]
  IN IF Places(c, k) = {} THEN NoValue ELSE c[Place(c, k)].value

\* gnb_hash32_del.  A pair at the head of a chain is taken out by the chain's
\* length: with a length of 1 the chain is dropped.
KvDel(h, k) ==
  LET b == BucketOf(k)
      c == h.chain[b]
      i == Place(c, k)
  IN IF Places(c, k) = {} THEN h
     ELSE [chain |-> [h.chain EXCEPT ![b] =
                        IF i = 1 /\ h.chainLen[b] = 1 THEN <<>>
                        ELSE SubSeq(c, 1, i - 1) \o SubSeq(c, i + 1, Len(c))],
           chainLen |-> [h.chainLen EXCEPT ![b] = @ - 1],
           kvNum |-> h.kvNum - 1]
==============================================================================
