--------------------------- MODULE FixedPoolProofs ---------------------------
(***************************************************************************)
(* What the operations of the block pool preserve and return, for pools of *)
(* every size: a block that is popped leaves the pool, a block that is     *)
(* pushed and was not in it enters it, and nothing else changes.           *)
(***************************************************************************)
EXTENDS FixedPool, FiniteSetTheorems, TLAPS

\* gnb_fixed_pool_create: a new pool is in order and every block is free.
THEOREM PoolCreateOK ==
  ASSUME NEW len \in Nat
  PROVE  /\ PoolOK(PoolCreate(len), len)
         /\ PoolFree(PoolCreate(len)) = 0..(len - 1)
BY DEF PoolOK, PoolCreate, PoolFree, NULL

\* gnb_fixed_pool_pop: a pool that is not empty hands out a block that was
\* free, and that block is no longer free.
THEOREM PoolPopOK ==
  ASSUME NEW len \in Nat, NEW pool, PoolOK(pool, len), pool.num > 0
  PROVE  /\ PoolTop(pool) \in PoolFree(pool)
         /\ PoolTop(pool) \in 0..(len - 1)
         /\ PoolOK(PoolPop(pool), len)
         /\ PoolFree(PoolPop(pool)) = PoolFree(pool) \ {PoolTop(pool)}
         /\ PoolPop(pool).num = pool.num - 1
<1> DEFINE n == pool.num
           A == pool.array
           B == [A EXCEPT ![n - 1] = NULL]
<1>1. /\ n \in 1..len /\ A \in [0..(len - 1) -> 0..(len - 1) \cup {NULL}]
      /\ \A i \in 0..(len - 1) : A[i] = NULL <=> i >= n
      /\ \A i, j \in 0..(n - 1) : A[i] = A[j] => i = j
  BY DEF PoolOK
<1>2. /\ PoolTop(pool) = A[n - 1]
      /\ PoolPop(pool).num = n - 1 /\ PoolPop(pool).array = B
  BY <1>1 DEF PoolTop, PoolPop
<1>3. /\ B \in [0..(len - 1) -> 0..(len - 1) \cup {NULL}]
      /\ \A i \in 0..(len - 1) : B[i] = IF i = n - 1 THEN NULL ELSE A[i]
  BY <1>1
<1>4. A[n - 1] \in 0..(len - 1)
  BY <1>1 DEF NULL
<1>5. PoolOK(PoolPop(pool), len)
  <2> HIDE DEF n, A, B
  <2>1. \A i \in 0..(len - 1) : B[i] = NULL <=> i >= n - 1
    BY <1>1, <1>3
  <2>2. \A i, j \in 0..(n - 2) : B[i] = B[j] => i = j
    BY <1>1, <1>3
  <2> DEFINE q == PoolPop(pool)
  <2>3. q.num = n - 1 /\ q.array = B
    BY <1>2
  <2> HIDE DEF q
  <2>4. q.num \in 0..len /\ q.num - 1 = n - 2
    BY <1>1, <2>3
  <2>5. q.array \in [0..(len - 1) -> 0..(len - 1) \cup {NULL}]
    BY <1>3, <2>3
  <2>6. \A i \in 0..(len - 1) : q.array[i] = NULL <=> i >= q.num
    BY <2>1, <2>3
  <2>7. \A i, j \in 0..(q.num - 1) : q.array[i] = q.array[j] => i = j
    BY <2>2, <2>3, <2>4
  <2>8. PoolOK(q, len)
    BY <2>4, <2>5, <2>6, <2>7 DEF PoolOK
  <2> QED BY <2>8 DEF q
<1>6. PoolFree(PoolPop(pool)) = PoolFree(pool) \ {A[n - 1]}
  <2>1. PoolFree(pool) = {A[i] : i \in 0..(n - 1)}
    BY DEF PoolFree
  <2> HIDE DEF n, A, B
  <2>2. PoolFree(PoolPop(pool)) = {B[i] : i \in 0..(n - 2)}
    BY <1>1, <1>2 DEF PoolFree
  <2>3. \A i \in 0..(n - 2) : B[i] = A[i] /\ A[i] # A[n - 1]
    BY <1>1, <1>3
  <2>4. ASSUME NEW x \in {A[i] : i \in 0..(n - 1)}, x # A[n - 1]
        PROVE  x \in {B[i] : i \in 0..(n - 2)}
    <3>1. PICK i \in 0..(n - 1) : x = A[i]
      OBVIOUS
    <3>2. i \in 0..(n - 2)
      BY <1>1, <2>4, <3>1
    <3> QED BY <2>3, <3>1, <3>2
  <2>5. ASSUME NEW x \in {B[i] : i \in 0..(n - 2)}
        PROVE  x \in {A[i] : i \in 0..(n - 1)} /\ x # A[n - 1]
    <3>1. PICK i \in 0..(n - 2) : x = B[i]
      OBVIOUS
    <3>2. i \in 0..(n - 1)
      BY <1>1
    <3> QED BY <2>3, <3>1, <3>2
  <2> QED BY <2>1, <2>2, <2>4, <2>5
<1>7. A[n - 1] \in PoolFree(pool)
  BY <1>1 DEF PoolFree
<1> HIDE DEF n, A, B
<1>8. n = pool.num
  BY DEF n
<1> QED BY <1>2, <1>4, <1>5, <1>6, <1>7, <1>8

\* A pool that misses one of its blocks is not full.
LEMMA PoolNotFull ==
  ASSUME NEW len \in Nat, NEW pool, PoolOK(pool, len),
         NEW b \in 0..(len - 1), b \notin PoolFree(pool)
  PROVE  pool.num < len
<1> SUFFICES ASSUME pool.num = len PROVE FALSE
  BY DEF PoolOK
<1> DEFINE f == [i \in 1..len |-> pool.array[i - 1]]
           T == (0..(len - 1)) \ {b}
<1>1. f \in [1..len -> T]
  BY DEF PoolOK, PoolFree, NULL
<1>2. IsFiniteSet(1..len) /\ Cardinality(1..len) = len
  BY FS_Interval
<1>3. IsFiniteSet(0..(len - 1)) /\ Cardinality(0..(len - 1)) = len
  <2>1. 0 \in Int /\ len - 1 \in Int
    OBVIOUS
  <2>2. /\ IsFiniteSet(0..(len - 1))
        /\ Cardinality(0..(len - 1)) = IF 0 > len - 1 THEN 0 ELSE (len - 1) - 0 + 1
    BY <2>1, FS_Interval
  <2> QED BY <2>2
<1>4. IsFiniteSet(T) /\ Cardinality(T) = len - 1
  <2> DEFINE S == 0..(len - 1)
  <2>1. IsFiniteSet(S) /\ Cardinality(S) = len /\ b \in S /\ T = S \ {b}
    BY <1>3
  <2> HIDE DEF S, T
  <2>2. IsFiniteSet(S \ {b}) /\ Cardinality(S \ {b}) = Cardinality(S) - 1
    BY <2>1, FS_RemoveElement
  <2> QED BY <2>1, <2>2
<1>5. \E x, y \in 1..len : x # y /\ f[x] = f[y]
  <2> HIDE DEF f, T
  <2> QED BY <1>1, <1>2, <1>4, FS_PigeonHole
<1>6. PICK x, y \in 1..len : x # y /\ f[x] = f[y]
  BY <1>5
<1>7. /\ x - 1 \in 0..(len - 1) /\ y - 1 \in 0..(len - 1) /\ x - 1 # y - 1
      /\ pool.array[x - 1] = pool.array[y - 1]
  BY <1>6
<1> HIDE DEF f, T
<1> QED BY <1>7 DEF PoolOK

\* gnb_fixed_pool_push: a block that is returned once is accepted, and is the
\* only block that becomes free.
THEOREM PoolPushOK ==
  ASSUME NEW len \in Nat, NEW pool, PoolOK(pool, len),
         NEW b \in 0..(len - 1), b \notin PoolFree(pool)
  PROVE  /\ PoolOK(PoolPush(pool, b), len)
         /\ PoolFree(PoolPush(pool, b)) = PoolFree(pool) \cup {b}
         /\ PoolPush(pool, b).num = pool.num + 1
<1> DEFINE n == pool.num
           A == pool.array
           B == [A EXCEPT ![n] = b]
<1>1. /\ n \in 0..(len - 1) /\ A \in [0..(len - 1) -> 0..(len - 1) \cup {NULL}]
      /\ \A i \in 0..(len - 1) : A[i] = NULL <=> i >= n
      /\ \A i, j \in 0..(n - 1) : A[i] = A[j] => i = j
  <2>1. pool.num < len
    BY PoolNotFull
  <2>2. /\ pool.num \in 0..len
        /\ pool.array \in [0..(len - 1) -> 0..(len - 1) \cup {NULL}]
        /\ \A i \in 0..(len - 1) : pool.array[i] = NULL <=> i >= pool.num
        /\ \A i, j \in 0..(pool.num - 1) : pool.array[i] = pool.array[j] => i = j
    BY DEF PoolOK
  <2> QED BY <2>1, <2>2
<1>2. PoolPush(pool, b).num = n + 1 /\ PoolPush(pool, b).array = B
  BY <1>1 DEF PoolPush
<1>3. /\ B \in [0..(len - 1) -> 0..(len - 1) \cup {NULL}]
      /\ \A i \in 0..(len - 1) : B[i] = IF i = n THEN b ELSE A[i]
  BY <1>1
<1>4. \A i \in 0..(n - 1) : A[i] # b
  BY DEF PoolFree
<1>5. PoolFree(pool) = {A[i] : i \in 0..(n - 1)}
  BY DEF PoolFree
<1>6. b \in Nat
  OBVIOUS
<1> HIDE DEF n, A, B
<1>7. PoolOK(PoolPush(pool, b), len)
  <2>1. \A i \in 0..(len - 1) : B[i] = NULL <=> i >= n + 1
    BY <1>1, <1>3, <1>6 DEF NULL
  <2>2. \A i, j \in 0..n : B[i] = B[j] => i = j
    BY <1>1, <1>3, <1>4
  <2> DEFINE q == PoolPush(pool, b)
  <2>3. q.num = n + 1 /\ q.array = B
    BY <1>2
  <2> HIDE DEF q
  <2>4. q.num \in 0..len /\ q.num - 1 = n
    BY <1>1, <2>3
  <2>5. q.array \in [0..(len - 1) -> 0..(len - 1) \cup {NULL}]
    BY <1>3, <2>3
  <2>6. \A i \in 0..(len - 1) : q.array[i] = NULL <=> i >= q.num
    BY <2>1, <2>3
  <2>7. \A i, j \in 0..(q.num - 1) : q.array[i] = q.array[j] => i = j
    BY <2>2, <2>3, <2>4
  <2>8. PoolOK(q, len)
    BY <2>4, <2>5, <2>6, <2>7 DEF PoolOK
  <2> QED BY <2>8 DEF q
<1>8. PoolFree(PoolPush(pool, b)) = PoolFree(pool) \cup {b}
  <2>1. PoolFree(PoolPush(pool, b)) = {B[i] : i \in 0..n}
    BY <1>1, <1>2 DEF PoolFree
  <2>2. \A i \in 0..n : B[i] = IF i = n THEN b ELSE A[i]
    BY <1>1, <1>3
  <2>3. ASSUME NEW x \in {B[i] : i \in 0..n}
        PROVE  x \in {A[i] : i \in 0..(n - 1)} \cup {b}
    <3>1. PICK i \in 0..n : x = B[i]
      OBVIOUS
    <3>2. i # n => i \in 0..(n - 1)
      BY <1>1
    <3> QED BY <2>2, <3>1, <3>2
  <2>4. ASSUME NEW x \in {A[i] : i \in 0..(n - 1)} \cup {b}
        PROVE  x \in {B[i] : i \in 0..n}
    <3>1. CASE x = b
      <4>1. n \in 0..n
        BY <1>1
      <4> QED BY <2>2, <3>1, <4>1
    <3>2. CASE x # b
      <4>1. PICK i \in 0..(n - 1) : x = A[i]
        BY <3>2
      <4>2. i \in 0..n /\ i # n
        BY <1>1
      <4> QED BY <2>2, <4>1, <4>2
    <3> QED BY <3>1, <3>2
  <2> QED BY <1>5, <2>1, <2>3, <2>4
<1>9. n = pool.num
  BY DEF n
<1> QED BY <1>2, <1>7, <1>8, <1>9

-----------------------------------------------------------------------------
(* What the proofs of the containers share. *)

\* Of the natural numbers of a set one is the least.
LEMMA LeastOfNaturals ==
  ASSUME NEW S \in SUBSET Nat, S # {}
  PROVE  \E i \in S : \A j \in S : i <= j
<1> DEFINE R == OpToRel(<, Nat)
<1>1. IsWellFoundedOn(R, Nat)
  BY NatLessThanWellFounded
<1>2. \A i, j \in Nat : i < j => <<i, j>> \in R
  BY DEF OpToRel
<1> HIDE DEF R
<1>3. \E i \in S : \A j \in S : ~ (<<j, i>> \in R)
  BY <1>1, WFMin
<1>4. PICK i \in S : \A j \in S : ~ (<<j, i>> \in R)
  BY <1>3
<1>5. \A j \in S : ~ (j < i)
  BY <1>2, <1>4
<1>6. \A j \in S : i <= j
  BY <1>5
<1> QED BY <1>6
==============================================================================
