------------------------------ MODULE LinkedList ------------------------------
(***************************************************************************)
(* gnb_doubly_linked_list.c.  A list is its head, its tail and the number  *)
(* of its nodes; the nodes' own fields are functions of the node.  Every   *)
(* operator gives the list after the call.                                 *)
(***************************************************************************)
EXTENDS Integers

NoNode == -1

ListCreate(nodes) ==
  [head |-> NoNode, tail |-> NoNode, num |-> 0,
   pre |-> [n \in nodes |-> NoNode], nex |-> [n \in nodes |-> NoNode]]

ListEmptied(l) == [l EXCEPT !.head = NoNode, !.tail = NoNode, !.num = 0]

\* gnb_doubly_linked_list_add, at the head.
ListAdd(l, n) ==
  IF l.num = 0
  THEN [l EXCEPT !.head = n, !.tail = n, !.num = 1, !.pre[n] = NoNode, !.nex[n] = NoNode]
  ELSE [l EXCEPT !.head = n, !.num = @ + 1,
                 !.tail = IF l.num = 1 THEN l.head ELSE @,
                 !.pre = [@ EXCEPT ![n] = NoNode, ![l.head] = n],
                 !.nex[n] = l.head]

\* Mutant: the new head keeps its link to the old one.
ListPopHeadStale(l) ==
  IF l.num = 0 THEN l
  ELSE IF l.num = 1 THEN ListEmptied(l)
  ELSE [l EXCEPT !.head = l.nex[l.head], !.num = @ - 1]

\* gnb_doubly_linked_list_pop_head and gnb_doubly_linked_list_pop_tail; a
\* list whose head and tail do not fit its length is left alone.
ListPopHead(l) ==
  IF l.num = 0 \/ (l.num = 1 <=> l.head # l.tail) THEN l
  ELSE IF l.num = 1 THEN ListEmptied(l)
  ELSE [l EXCEPT !.head = l.nex[l.head], !.pre[l.nex[l.head]] = NoNode, !.num = @ - 1]

ListPopTail(l) ==
  IF l.num = 0 \/ (l.num = 1 <=> l.head # l.tail) THEN l
  ELSE IF l.num = 1 THEN ListEmptied(l)
  ELSE [l EXCEPT !.tail = l.pre[l.tail], !.nex[l.pre[l.tail]] = NoNode, !.num = @ - 1]

\* gnb_doubly_linked_list_move_head: a list of one or two nodes stays as it is.
ListMoveHead(l, n) ==
  LET p == l.pre[n]
      x == l.nex[n]
  IN IF l.num \in {1, 2} \/ p = NoNode THEN l
     ELSE [l EXCEPT !.head = n,
                    !.tail = IF x = NoNode THEN p ELSE @,
                    !.pre = [m \in DOMAIN @ |-> IF m = n THEN NoNode
                                                ELSE IF m = l.head THEN n
                                                ELSE IF m = x THEN p ELSE @[m]],
                    !.nex = [@ EXCEPT ![p] = x, ![n] = l.head]]

\* gnb_doubly_linked_list_pop, of any node of the list; a node that does not
\* fit the list is refused.
ListPop(l, n) ==
  LET p == l.pre[n]
      x == l.nex[n]
  IN IF l.num = 0 THEN l
     ELSE IF p = NoNode /\ x = NoNode
     THEN IF l.head = n /\ l.tail = n /\ l.num = 1 THEN ListEmptied(l) ELSE l
     ELSE IF p = NoNode
     THEN IF l.head # n \/ l.num = 1 THEN l
          ELSE [l EXCEPT !.head = x, !.pre[x] = NoNode, !.num = @ - 1]
     ELSE IF x = NoNode
     THEN IF l.tail # n \/ l.num = 1 THEN l
          ELSE [l EXCEPT !.tail = p, !.nex[p] = NoNode, !.num = @ - 1]
     ELSE [l EXCEPT !.nex[p] = x, !.pre[x] = p, !.num = @ - 1]
==============================================================================
