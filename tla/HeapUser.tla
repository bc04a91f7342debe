------------------------------ MODULE HeapUser ------------------------------
(***************************************************************************)
(* Any user of the heap of GpHeap: nodes are inserted, removed and popped  *)
(* in any order, from the heaps that these operations build.               *)
(***************************************************************************)
EXTENDS GpHeap, FiniteSets

CONSTANT MaxKey

VARIABLES
  tree,       \* the heap
  root,       \* its root pointer, as the user keeps it
  prio,       \* what the nodes are sorted by
  used        \* the nodes the user has in the heap

userVars == <<tree, root, prio, used>>

UserInit ==
  /\ tree = EmptyLinks
  /\ root = NULL
  /\ prio = [n \in Nodes |-> 0]
  /\ used = {}

Insert(n, k) ==
  /\ n \notin used
  /\ prio' = [prio EXCEPT ![n] = k]
  /\ LET r == gp_heap_ins(tree, prio', root, n) IN tree' = r.h /\ root' = r.top
  /\ used' = used \cup {n}

(* Nodes that leave are wiped, which keeps the states few: every insertion *)
(* starts with a memset() of the node.                                     *)
Forget(h, n) ==
  [h EXCEPT !.left[n] = NULL, !.right[n] = NULL, !.up[n] = NULL, !.children[n] = 0]

Remove(n) ==
  /\ n \in used
  /\ LET r == gp_heap_rem(tree, prio, root, n) IN tree' = Forget(r.h, n) /\ root' = r.top
  /\ used' = used \ {n}
  /\ prio' = [prio EXCEPT ![n] = 0]

Pop ==
  /\ root # NULL
  /\ LET r == gp_heap_pop(tree, prio, root) IN tree' = Forget(r.h, root) /\ root' = r.top
  /\ used' = used \ {root}
  /\ prio' = [prio EXCEPT ![root] = 0]

UserNext ==
  \/ \E n \in Nodes, k \in 0 .. MaxKey : Insert(n, k)
  \/ \E n \in Nodes : Remove(n)
  \/ Pop

UserSpec == UserInit /\ [][UserNext]_userVars

-----------------------------------------------------------------------------
(* The node at each position, counting level by level from 1 at the root.  *)
Positions(h, top, n) ==
  LET at[i \in 1 .. n] ==
        IF i = 1 THEN top
        ELSE IF at[i \div 2] = NULL THEN NULL
        ELSE IF i % 2 = 0 THEN h.left[at[i \div 2]] ELSE h.right[at[i \div 2]]
  IN at

(* No node is lost or kept by mistake, and every pointer and count agrees  *)
(* with the tree, whatever order nodes come and go in (gp_heap_rem() of    *)
(* include/utils/gp_heap.h once crashed on removing the last node, see     *)
(* rem_regression() in tests/utils/timer.c), and the counts alone keep the *)
(* tree complete: its levels are filled from the left without a hole.      *)
HeapIsIntact ==
  LET n == Cardinality(used)
      at == Positions(tree, root, 2 * n + 1) IN
  /\ {at[i] : i \in 1 .. n} = used
  /\ \A i \in n + 1 .. 2 * n + 1 : at[i] = NULL
  /\ \A i \in 1 .. n :
       /\ tree.up[at[i]] = IF i = 1 THEN NULL ELSE at[i \div 2]
       /\ tree.children[at[i]] =
            gp_heap_size(tree, at[2 * i]) + gp_heap_size(tree, at[2 * i + 1])
  /\ ~ tree.bug

(* No node is smaller than the one above it, so that the root is the       *)
(* smallest of all and the timer that fires is the next one due.           *)
HeapIsOrdered == HeapOrdered(tree, prio, root)

=============================================================================
