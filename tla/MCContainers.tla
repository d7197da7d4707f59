---------------------------- MODULE MCContainers ----------------------------
(***************************************************************************)
(* The containers for TLC, one of them at a time: `container` says which.  *)
(* In the table three of the four keys share a bucket; the heap has one    *)
(* fragment more, and the address list one address more, than fit in.      *)
(***************************************************************************)
EXTENDS Lru32, Heap, AddressList, TLC

VARIABLE container

MCKeys == 1..4
MCNoValue == NULL
MCHash == [k \in MCKeys |-> IF k < 4 THEN 3 * k ELSE 1]

\* Data are only handed through.
Symmetry == Permutations(Data)

Init == LruInit /\ HeapInit /\ AddressInit /\ container \in {"table", "heap", "addresses"}

Next ==
  /\ \/ container = "table" /\ LruNext /\ UNCHANGED <<heapVars, addressVars>>
     \/ container = "heap" /\ HeapNext /\ UNCHANGED <<lruVars, addressVars>>
     \/ container = "addresses" /\ AddressNext /\ UNCHANGED <<lruVars, heapVars>>
  /\ UNCHANGED container

Spec == Init /\ [][Next]_<<lruVars, heapVars, addressVars, container>>
==============================================================================
