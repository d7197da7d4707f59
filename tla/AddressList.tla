----------------------------- MODULE AddressList -----------------------------
(***************************************************************************)
(* The address list of gnb_address.c: a table of fixed size that keeps the *)
(* addresses heard of last.  A place with port 0 is free; the comparison   *)
(* of addresses ignores the port.                                          *)
(***************************************************************************)
EXTENDS Integers, FiniteSets

CONSTANTS
  Address,   \* type and address bytes
  Port,      \* ports that are not 0
  ListSize,  \* size
  MaxTime    \* the last second (bound)

ASSUME AddressListAssumption ==
  ListSize \in Nat \ {0} /\ MaxTime \in Nat /\ 0 \notin Port /\ Address # {}

Spot == 0 .. (ListSize - 1)
Never == -1

\* A zeroed place: any address, port 0.
FreePlace == [addr |-> CHOOSE a \in Address : TRUE, port |-> 0, ts |-> 0]

VARIABLES
  entries, \* array[]: records of an address, its port and ts_sec
  num,     \* num
  now,     \* what the callers take for ts_sec
  heard    \* when each address was given to the list last

addressVars == <<entries, num, now, heard>>

\* gnb_create_address_list: the memory is zeroed.
AddressInit ==
  /\ entries = [i \in Spot |-> FreePlace]
  /\ num = 0
  /\ now = 0
  /\ heard = [a \in Address |-> Never]

\* gnb_address_list_find looks at the first num places only.
Found(a) == {i \in Spot : i < num /\ entries[i].addr = a}
First(S) == CHOOSE i \in S : \A j \in S : i <= j
Last(S) == CHOOSE i \in S : \A j \in S : j <= i

\* Mutant: min_ts_sec stays that of the first place.
FreeIdxOfFirst ==
  IF \E i \in Spot : entries[i].port = 0 THEN First({i \in Spot : entries[i].port = 0})
  ELSE Last({i \in Spot : entries[i].ts <= entries[0].ts})

\* The first free place, or else the oldest entry, the last one of several.
FreeIdx ==
  IF \E i \in Spot : entries[i].port = 0 THEN First({i \in Spot : entries[i].port = 0})
  ELSE Last({i \in Spot : \A j \in Spot : entries[i].ts <= entries[j].ts})

AddressUpdate(a, p) ==
  LET i == IF Found(a) # {} THEN First(Found(a)) ELSE FreeIdx
  IN /\ entries' = [entries EXCEPT ![i] = [addr |-> a, port |-> p, ts |-> now]]
     /\ num' = IF entries[i].port = 0 /\ num < ListSize THEN num + 1 ELSE num
     /\ heard' = [heard EXCEPT ![a] = now]
     /\ UNCHANGED now

Later == now < MaxTime /\ now' = now + 1 /\ UNCHANGED <<entries, num, heard>>

AddressNext == Later \/ \E a \in Address, p \in Port : AddressUpdate(a, p)

AddressSpec == AddressInit /\ [][AddressNext]_addressVars

-----------------------------------------------------------------------------
\* Whatever the order of updates, no address has two places, the places in use
\* are the first num ones, each says when its address was heard of last, and an
\* address that had to go was heard of no later than any that stayed.
KeepsTheLatest ==
  LET used == {i \in Spot : entries[i].port # 0}
      kept == {entries[i].addr : i \in used}
  IN /\ used = 0 .. (num - 1) /\ Cardinality(kept) = num
     /\ \A i \in used : entries[i].ts = heard[entries[i].addr]
     /\ \A a \in Address \ kept, b \in kept : heard[a] <= heard[b]
==============================================================================
