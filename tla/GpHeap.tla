------------------------------- MODULE GpHeap -------------------------------
(***************************************************************************)
(* The intrusive binary heap of include/utils/gp_heap.h: every node keeps  *)
(* pointers to its children and its parent and the number of nodes below   *)
(* it, and the shape is kept complete from those counts alone.             *)
(*                                                                         *)
(* A heap is a record of functions over the nodes, one for each field of   *)
(* gp_heap_head; "bug" records that GP_BUG("Invalid heap state") was       *)
(* reached.  key[n] is what the comparison callback looks at.  The         *)
(* operators below take a heap and return what the function returns and    *)
(* the heap as the function leaves it.                                     *)
(*                                                                         *)
(* A recursive function of the code is here the operator of its body, with *)
(* rec for its calls of itself, and a function of how deep these may go,   *)
(* for which the number of nodes is enough.                                *)
(***************************************************************************)
EXTENDS Integers

CONSTANTS
  Nodes,       \* the structures a gp_heap_head is embedded in
  NULL         \* the null pointer

ASSUME NullAssumption == NULL \notin Nodes

Ptr == Nodes \cup {NULL}
Heaps == [left : [Nodes -> Ptr], right : [Nodes -> Ptr], up : [Nodes -> Ptr],
          children : [Nodes -> Int], bug : BOOLEAN]

EmptyLinks == [left |-> [n \in Nodes |-> NULL], right |-> [n \in Nodes |-> NULL],
               up |-> [n \in Nodes |-> NULL], children |-> [n \in Nodes |-> 0],
               bug |-> FALSE]

(* timer_cmp(): a node no smaller than the other one compares as true.     *)
cmp(key, a, b) == key[a] >= key[b]

Other(side) == IF side = "left" THEN "right" ELSE "left"

-----------------------------------------------------------------------------
(* Mutated forms.                                                          *)

(* The parent above the swapped pair keeps pointing at the old child.      *)
SwapForgetsUp(h, x, side) ==
  LET c == h[side][x]  o == Other(side) IN
  [h EXCEPT
    !.up = [n \in Nodes |-> IF n = c THEN h.up[x] ELSE IF n \in {x, h[o][x]} THEN c
              ELSE IF n \in {h.left[c], h.right[c]} THEN x ELSE @[n]],
    ![side] = [n \in Nodes |-> IF n = x THEN h[side][c] ELSE IF n = c THEN x ELSE @[n]],
    ![o] = [n \in Nodes |-> IF n = x THEN h[o][c] ELSE IF n = c THEN h[o][x] ELSE @[n]],
    !.children = [@ EXCEPT ![x] = h.children[c], ![c] = h.children[x]]]

(* The node that replaces a removed one is only ever moved down.           *)
NeverBubbleUp(h, key, x, depth) == [top |-> x, h |-> h]

-----------------------------------------------------------------------------
gp_heap_size(h, heap) == IF heap = NULL THEN 0 ELSE h.children[heap] + 1

(* gp_heap_fix_up(): x's parent gets rep in x's place.                     *)
gp_heap_fix_up(h, up, x, rep) ==
  IF up = NULL THEN h
  ELSE IF h.left[up] = x THEN [h EXCEPT !.left[up] = rep]
  ELSE IF h.right[up] = x THEN [h EXCEPT !.right[up] = rep]
  ELSE [h EXCEPT !.bug = TRUE]

gp_heap_fix_up_lr(h, x, up) ==
  [h EXCEPT !.up = [n \in Nodes |-> IF n \in {h.left[x], h.right[x]} THEN up ELSE @[n]]]

(* gp_heap_swap_left() and gp_heap_swap_right(): x trades places with its  *)
(* child on that side, which is returned by the code.                      *)
gp_heap_swap(h, x, side) ==
  LET c == h[side][x]  o == Other(side)
      f == gp_heap_fix_up(h, h.up[x], x, c) IN
  [f EXCEPT
    !.up = [n \in Nodes |-> IF n = c THEN h.up[x] ELSE IF n \in {x, h[o][x]} THEN c
              ELSE IF n \in {h.left[c], h.right[c]} THEN x ELSE @[n]],
    ![side] = [n \in Nodes |-> IF n = x THEN h[side][c] ELSE IF n = c THEN x ELSE @[n]],
    ![o] = [n \in Nodes |-> IF n = x THEN h[o][c] ELSE IF n = c THEN h[o][x] ELSE @[n]],
    !.children = [@ EXCEPT ![x] = h.children[c], ![c] = h.children[x]]]

Pow2(n) == LET pow[i \in 0 .. n] == IF i = 0 THEN 1 ELSE 2 * pow[i - 1] IN pow[n]

(* 2^n - 2 children: the subtree below is full.                            *)
gp_heap_well_balanced(children) == \E n \in 1 .. children + 1 : children + 2 = Pow2(n)

(* The side gp_heap_ins_() descends to.                                    *)
InsertSide(h, x) ==
  LET l == h.left[x]  r == h.right[x] IN
  IF \/ l = NULL
     \/ ~ gp_heap_well_balanced(h.children[l])
     \/ r # NULL /\ h.children[l] = h.children[r]
  THEN "left" ELSE "right"

Leaf(h, elem, parent) ==
  [h EXCEPT !.left[elem] = NULL, !.right[elem] = NULL, !.up[elem] = parent,
            !.children[elem] = 0]

InsBody(key, elem, rec) ==
  [h \in Heaps |-> [x \in Ptr |-> [parent \in Ptr |->
     IF x = NULL THEN [top |-> elem, h |-> Leaf(h, elem, parent)]
     ELSE LET side == InsertSide(h, x)
              sub == rec[[h EXCEPT !.children[x] = @ + 1]][h[side][x]][x]
              g == [sub.h EXCEPT ![side][x] = sub.top] IN
          IF cmp(key, x, sub.top) THEN [top |-> sub.top, h |-> gp_heap_swap(g, x, side)]
                                  ELSE [top |-> x, h |-> g]]]]

InsLeaf(elem) ==
  [h \in Heaps |-> [x \in Ptr |-> [parent \in Ptr |-> [top |-> elem, h |-> Leaf(h, elem, parent)]]]]

gp_heap_ins_(key, elem, depth) ==
  LET ins[d \in 0 .. depth] ==
        IF d = 0 THEN InsLeaf(elem) ELSE InsBody(key, elem, ins[d - 1])
  IN ins

gp_heap_ins(h, key, heap, elem) ==
  LET depth == gp_heap_size(h, heap) IN gp_heap_ins_(key, elem, depth)[depth][h][heap][NULL]

(* The side the last node of the last level is on.                         *)
LastSide(h, x) ==
  LET l == h.left[x]  r == h.right[x] IN
  IF \/ ~ gp_heap_well_balanced(h.children[l])
     \/ r = NULL
     \/ h.children[r] < h.children[l] \div 2
  THEN "left" ELSE "right"

RemLastBody(h, rec) ==
  [x \in Nodes |->
     IF h.left[x] = NULL THEN [top |-> NULL, last |-> x, h |-> h]
     ELSE LET side == LastSide(h, x)
              sub == rec[h[side][x]] IN
          [top |-> x, last |-> sub.last,
           h |-> [sub.h EXCEPT ![side][x] = sub.top, !.children[x] = @ - 1]]]

RemLeaf(h) == [x \in Nodes |-> [top |-> NULL, last |-> x, h |-> h]]

RemLast(h, depth) ==
  LET rem[d \in 0 .. depth] == IF d = 0 THEN RemLeaf(h) ELSE RemLastBody(h, rem[d - 1])
  IN rem

gp_heap_rem_last(h, heap) ==
  LET depth == gp_heap_size(h, heap) IN RemLast(h, depth)[depth][heap]

(* The smaller child, the left one if they are equal, if x is not below it.*)
BubbleDownBody(key, x, rec) ==
  [h \in Heaps |->
     LET l == h.left[x]
         r == IF h.right[x] # NULL /\ l # NULL /\ cmp(key, h.right[x], l)
              THEN NULL ELSE h.right[x]
         Down(side, c) ==
           LET sub == rec[gp_heap_swap(h, x, side)] IN
           [top |-> c, h |-> [sub.h EXCEPT ![side][c] = sub.top]] IN
     IF r # NULL /\ cmp(key, x, r) THEN Down("right", r)
     ELSE IF l # NULL /\ cmp(key, x, l) THEN Down("left", l)
     ELSE [top |-> x, h |-> h]]

Stays(x) == [h \in Heaps |-> [top |-> x, h |-> h]]

BubbleDown(key, x, depth) ==
  LET down[d \in 0 .. depth] ==
        IF d = 0 THEN Stays(x) ELSE BubbleDownBody(key, x, down[d - 1])
  IN down

gp_heap_bubble_down(h, key, x) ==
  LET depth == gp_heap_size(h, x) IN BubbleDown(key, x, depth)[depth][h]

(* elem is replaced by the last node, which inherits its links.            *)
Replace(h, elem, last, up) ==
  LET g == [h EXCEPT !.left[last] = h.left[elem], !.right[last] = h.right[elem],
                     !.children[last] = h.children[elem], !.up[last] = up] IN
  gp_heap_fix_up_lr(gp_heap_fix_up(g, up, elem, last), last, last)

gp_heap_pop(h, key, heap) ==
  LET cut == gp_heap_rem_last(h, heap) IN
  IF cut.top = NULL THEN [top |-> NULL, h |-> cut.h]
  ELSE gp_heap_bubble_down(Replace(cut.h, heap, cut.last, NULL), key, cut.last)

BubbleUpBody(key, x, rec) ==
  [h \in Heaps |->
     LET up == h.up[x] IN
     IF up = NULL \/ cmp(key, x, up) THEN [top |-> x, h |-> h]
     ELSE IF h.left[up] = x THEN rec[gp_heap_swap(h, up, "left")]
     ELSE IF h.right[up] = x THEN rec[gp_heap_swap(h, up, "right")]
     ELSE [top |-> x, h |-> [h EXCEPT !.bug = TRUE]]]

BubbleUp(key, x, depth) ==
  LET bubble[d \in 0 .. depth] ==
        IF d = 0 THEN Stays(x) ELSE BubbleUpBody(key, x, bubble[d - 1])
  IN bubble

gp_heap_bubble_up(h, key, x, depth) == BubbleUp(key, x, depth)[depth][h]

Ancestor(h, depth) ==
  LET up[d \in 0 .. depth] ==
        [x \in Nodes |-> IF d = 0 \/ h.up[x] = NULL THEN x ELSE up[d - 1][h.up[x]]]
  IN up

Root(h, x, depth) == Ancestor(h, depth)[depth][x]

gp_heap_rem(h, key, heap, elem) ==
  LET cut == gp_heap_rem_last(h, heap)
      depth == gp_heap_size(h, heap) IN
  IF elem = cut.last THEN [top |-> cut.top, h |-> cut.h]
  ELSE LET up == gp_heap_bubble_up(Replace(cut.h, elem, cut.last, cut.h.up[elem]),
                                   key, cut.last, depth)
           down == gp_heap_bubble_down(up.h, key, up.top) IN
       [top |-> Root(down.h, down.top, depth), h |-> down.h]

-----------------------------------------------------------------------------
(* What a heap has to look like.                                           *)

(* The nodes reached from x: those in every set that has x and, with a     *)
(* node, its children.                                                     *)
Closed(h, C) == \A c \in C : {h.left[c], h.right[c]} \subseteq C \cup {NULL}

Below(h, x) ==
  {n \in Nodes : \A C \in SUBSET Nodes : (x \in C \cup {NULL} /\ Closed(h, C)) => n \in C}

HeapOrdered(h, key, top) ==
  \A n \in Below(h, top) : \A c \in {h.left[n], h.right[n]} \ {NULL} : key[n] <= key[c]

=============================================================================
