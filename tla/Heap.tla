--------------------------------- MODULE Heap ---------------------------------
(***************************************************************************)
(* gnb_alloc.c: every allocation of the program is a fragment of one heap, *)
(* listed so that the heap can be cleaned as a whole.  A fragment knows    *)
(* its place in the list; free() fills the place with the last fragment.   *)
(* The byte counters are left out: nothing reads them.                     *)
(***************************************************************************)
EXTENDS Integers, FiniteSets

CONSTANTS
  Fragment,     \* what malloc() can return (bound)
  MaxFragment,  \* max_fragment
  None          \* no fragment

ASSUME HeapAssumption == MaxFragment \in Nat \ {0} /\ None \notin Fragment

VARIABLES
  fragmentList,  \* fragment_list; entries from fragmentNums on are left over
  fragmentNums,  \* fragment_nums
  idx,           \* fragment->idx
  live,          \* fragments malloc() has given and free() not had back
  exited         \* exit(0) was called

heapVars == <<fragmentList, fragmentNums, idx, live, exited>>

Slot == 0 .. (MaxFragment - 1)

HeapInit ==
  /\ fragmentList = [i \in Slot |-> None]
  /\ fragmentNums = 0
  /\ idx = [f \in Fragment |-> 0]
  /\ live = {}
  /\ exited = FALSE

\* gnb_heap_alloc of a size it accepts; a full heap ends the process.
Alloc ==
  /\ ~exited
  /\ IF fragmentNums = MaxFragment
     THEN exited' = TRUE /\ UNCHANGED <<fragmentList, fragmentNums, idx, live>>
     ELSE \E f \in Fragment \ live :
            /\ fragmentList' = [fragmentList EXCEPT ![fragmentNums] = f]
            /\ idx' = [idx EXCEPT ![f] = fragmentNums]
            /\ fragmentNums' = fragmentNums + 1
            /\ live' = live \cup {f}
            /\ UNCHANGED exited

\* gnb_heap_free of a block that is in use.  The heap refuses it when the
\* counts say that something went wrong.
Refused(f) ==
  \/ fragmentNums = 0
  \/ idx[f] \notin Slot \/ idx[fragmentList[fragmentNums - 1]] \notin Slot
  \/ fragmentNums = 1 /\ idx[f] # idx[fragmentList[0]]

\* Mutant: the block that fills the gap keeps its old idx.
FreeForgetsIdx(f) ==
  /\ ~exited /\ f \in live
  /\ IF Refused(f) THEN UNCHANGED <<fragmentList, fragmentNums, live>>
     ELSE LET last == fragmentList[fragmentNums - 1]
          IN /\ fragmentList' = [fragmentList EXCEPT ![idx[f]] = last]
             /\ fragmentNums' = fragmentNums - 1
             /\ live' = live \ {f}
  /\ UNCHANGED <<idx, exited>>

Free(f) ==
  /\ ~exited /\ f \in live
  /\ IF Refused(f) THEN UNCHANGED <<fragmentList, fragmentNums, idx, live>>
     ELSE LET last == fragmentList[fragmentNums - 1]
          IN /\ IF idx[last] = idx[f] THEN UNCHANGED <<fragmentList, idx>>
                ELSE /\ idx' = [idx EXCEPT ![last] = idx[f]]
                     /\ fragmentList' = [fragmentList EXCEPT ![idx[f]] = last]
             /\ fragmentNums' = fragmentNums - 1
             /\ live' = live \ {f}
  /\ UNCHANGED exited

\* gnb_heap_clean: free() for every fragment of the list.
Clean ==
  /\ ~exited /\ fragmentNums # 0
  /\ live' = live \ {fragmentList[i] : i \in 0..(fragmentNums - 1)}
  /\ fragmentNums' = 0
  /\ UNCHANGED <<fragmentList, idx, exited>>

HeapNext == Alloc \/ (\E f \in Fragment : Free(f)) \/ Clean

HeapSpec == HeapInit /\ [][HeapNext]_heapVars

-----------------------------------------------------------------------------
\* Whatever order blocks are freed in, the list holds each block in use once
\* and at the place the block knows, so gnb_heap_clean frees every block
\* once; no gnb_heap_free of a block in use is refused.
ListHoldsTheLive ==
  /\ {fragmentList[i] : i \in 0..(fragmentNums - 1)} = live
  /\ Cardinality(live) = fragmentNums
  /\ \A f \in live : /\ idx[f] \in 0..(fragmentNums - 1) /\ fragmentList[idx[f]] = f
                     /\ ~Refused(f)
==============================================================================
