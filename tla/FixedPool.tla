------------------------------ MODULE FixedPool ------------------------------
(***************************************************************************)
(* gnb_fixed_pool.c: a pool of equal blocks carved from one allocation.    *)
(* The free blocks are kept as a stack in `array`: the slots below `num`   *)
(* hold the free blocks, the slots at `num` and above hold NULL.  A block  *)
(* is named by its index in the allocation, and NULL by an integer that is *)
(* no index.                                                               *)
(***************************************************************************)
EXTENDS Integers

NULL == -1

\* gnb_fixed_pool_create: slot i holds block i, every block is free.
PoolCreate(len) == [array |-> [i \in 0..(len - 1) |-> i], num |-> len]

\* The block the next pop returns, NULL when the pool is exhausted.
PoolTop(pool) == IF pool.num = 0 THEN NULL ELSE pool.array[pool.num - 1]

\* What gnb_fixed_pool_pop leaves behind.
PoolPop(pool) ==
  IF pool.num = 0 THEN pool
  ELSE [array |-> [pool.array EXCEPT ![pool.num - 1] = NULL],
        num   |-> pool.num - 1]

\* Mutant: every block is refused.
PoolPushLost(pool, block) == pool

\* What gnb_fixed_pool_push leaves behind: a full pool and an occupied slot
\* refuse the block.
PoolPush(pool, block) ==
  IF pool.num \notin DOMAIN pool.array \/ pool.array[pool.num] # NULL THEN pool
  ELSE [array |-> [pool.array EXCEPT ![pool.num] = block],
        num   |-> pool.num + 1]

\* The blocks that are free.
PoolFree(pool) == {pool.array[i] : i \in 0..(pool.num - 1)}

\* A pool of len blocks is in order: the slots below num hold blocks, none of
\* them twice, and the slots from num on are empty.
PoolOK(pool, len) ==
  /\ pool.num \in 0..len
  /\ pool.array \in [0..(len - 1) -> 0..(len - 1) \cup {NULL}]
  /\ \A i \in 0..(len - 1) : pool.array[i] = NULL <=> i >= pool.num
  /\ \A i, j \in 0..(pool.num - 1) : pool.array[i] = pool.array[j] => i = j
==============================================================================
