------------------------------- MODULE LruTable -------------------------------
(***************************************************************************)
(* What gnb_lru32.h promises its users: a bounded table of keys and data,  *)
(* the youngest entry first.  A hit makes an entry the youngest; a table   *)
(* of a length in Lax, which the header does not know of, may keep its     *)
(* order instead.  `ret` is what the last call returned.                   *)
(***************************************************************************)
EXTENDS Naturals, Sequences

CONSTANTS Key, Data, MaxSize, Nothing, Lax

VARIABLES table, ret

At(k) == {i \in DOMAIN table : table[i].key = k}
Without(i) == SubSeq(table, 1, i - 1) \o SubSeq(table, i + 1, Len(table))

\* The orders a hit on entry i may leave.
Orders(i) == {<<table[i]>> \o Without(i)} \cup (IF Len(table) \in Lax THEN {table} ELSE {})

Init == table = <<>> /\ ret = Nothing

\* The data that are no longer in the table because of the call.
Put(k, d) ==
  \/ \E i \in At(k) : \E t \in Orders(i) :
       /\ table' = [j \in DOMAIN t |-> IF t[j].key = k THEN [t[j] EXCEPT !.data = d] ELSE t[j]]
       /\ ret' = Nothing
  \/ /\ At(k) = {} /\ Len(table) < MaxSize
     /\ table' = <<[key |-> k, data |-> d]>> \o table
     /\ ret' = Nothing
  \/ /\ At(k) = {} /\ Len(table) = MaxSize
     /\ table' = <<[key |-> k, data |-> d]>> \o SubSeq(table, 1, MaxSize - 1)
     /\ ret' = table[MaxSize].data

Get(k) ==
  \/ \E i \in At(k) : table' \in Orders(i) /\ ret' = table[i].data
  \/ At(k) = {} /\ ret' = Nothing /\ UNCHANGED table

HashGet(k) ==
  /\ ret' \in IF At(k) = {} THEN {Nothing} ELSE {table[i].data : i \in At(k)}
  /\ UNCHANGED table

MoveToHead(k) ==
  /\ \/ \E i \in At(k) : table' \in Orders(i)
     \/ At(k) = {} /\ UNCHANGED table
  /\ ret' = Nothing

PopByKey(k) ==
  \/ \E i \in At(k) : table' = Without(i) /\ ret' = table[i].data
  \/ At(k) = {} /\ ret' = Nothing /\ UNCHANGED table

Pop(i) ==
  IF table = <<>> THEN ret' = Nothing /\ UNCHANGED table
  ELSE table' = Without(i) /\ ret' = table[i].data

Peek(i) == ret' = (IF table = <<>> THEN Nothing ELSE table[i].data) /\ UNCHANGED table

Next == \/ \E k \in Key : \/ \E d \in Data : Put(k, d)
                          \/ Get(k) \/ HashGet(k) \/ MoveToHead(k) \/ PopByKey(k)
        \/ Pop(1) \/ Pop(Len(table)) \/ Peek(1) \/ Peek(Len(table))

Spec == Init /\ [][Next]_<<table, ret>>
==============================================================================
