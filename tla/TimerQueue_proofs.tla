-------------------------- MODULE TimerQueue_proofs --------------------------
(***************************************************************************)
(* Proofs about the heap of GpHeap and the timer queue on top of it, for   *)
(* any number of nodes and timers.                                         *)
(*                                                                         *)
(* What the pointers of a heap mean is said by the position of each node,  *)
(* counting level by level from 1 at the root, as if the heap were in an   *)
(* array: the children of position i are at 2 i and 2 i + 1. An operation  *)
(* on the pointers is then one on positions: a swap exchanges two of them. *)
(***************************************************************************)
EXTENDS TimerQueue, HeapUser, TLAPS, WellFoundedInduction, NaturalsInduction, FiniteSetTheorems

-----------------------------------------------------------------------------
(* Recursion.                                                              *)

(* A set of numbers that is not empty has a smallest one.                  *)
LEMMA SmallestExists ==
  ASSUME NEW T, T \subseteq Nat, T # {}
  PROVE  \E x \in T : \A y \in T : x =< y
<1>1. PICK x \in T : \A y \in T : ~ (<<y, x>> \in OpToRel(<, Nat))
  BY NatLessThanWellFounded, WFMin
<1>2. \A y \in T : ~ (y < x)
  BY <1>1 DEF OpToRel
<1> QED  BY <1>2

(* A function that is applied again and again.                             *)
Iteration(f, start, F, k) == f[0] = start /\ \A i \in 1 .. k : f[i] = F[f[i - 1]]

LEMMA IterationExists ==
  ASSUME NEW S, NEW start \in S, NEW k \in Nat, NEW F \in [S -> S]
  PROVE  \E f \in [0 .. k -> S] : Iteration(f, start, F, k)
<1> DEFINE Good(i) == \E f \in [0 .. i -> S] : Iteration(f, start, F, i)
           Bad == {i \in 0 .. k : ~ Good(i)}
<1>1. Good(0)
  <2>1. [i \in 0 .. 0 |-> start] \in [0 .. 0 -> S]
    OBVIOUS
  <2>2. Iteration([i \in 0 .. 0 |-> start], start, F, 0)
    BY DEF Iteration
  <2> QED  BY <2>1, <2>2
<1>2. ASSUME NEW m \in 1 .. k, Good(m - 1) PROVE Good(m)
  <2>1. PICK f \in [0 .. m - 1 -> S] : Iteration(f, start, F, m - 1)
    BY <1>2
  <2> DEFINE g == [i \in 0 .. m |-> IF i = m THEN F[f[m - 1]] ELSE f[i]]
  <2>2. m - 1 \in 0 .. m - 1 /\ m \in 0 .. m /\ 0 \in 0 .. m - 1
    OBVIOUS
  <2>3. F[f[m - 1]] \in S
    BY <2>2
  <2>4. g \in [0 .. m -> S]
    BY <2>3
  <2>5. \A i \in 0 .. m - 1 : g[i] = f[i]
    OBVIOUS
  <2>6. g[m] = F[g[m - 1]]
    <3>1. g[m] = F[f[m - 1]]
      BY <2>2
    <3> QED  BY <2>2, <2>5, <3>1
  <2> HIDE DEF g
  <2>7. ASSUME NEW i \in 1 .. m PROVE g[i] = F[g[i - 1]]
    <3>1. CASE i = m
      BY <3>1, <2>6
    <3>2. CASE i # m
      <4>1. i \in 1 .. m - 1 /\ i \in 0 .. m - 1 /\ i - 1 \in 0 .. m - 1
        BY <3>2
      <4>2. f[i] = F[f[i - 1]]
        BY <2>1, <4>1 DEF Iteration
      <4> QED  BY <2>5, <4>1, <4>2
    <3> QED  BY <3>1, <3>2
  <2>8. g[0] = start
    BY <2>1, <2>2, <2>5 DEF Iteration
  <2>9. Iteration(g, start, F, m)
    BY <2>7, <2>8 DEF Iteration
  <2> QED  BY <2>4, <2>9
<1> HIDE DEF Good
<1>3. Bad = {}
  <2> SUFFICES ASSUME Bad # {} PROVE FALSE
    OBVIOUS
  <2>1. Bad \subseteq Nat
    OBVIOUS
  <2>2. PICK m \in Bad : \A y \in Bad : m =< y
    BY <2>1, SmallestExists
  <2>3. m \in 1 .. k /\ ~ Good(m)
    BY <1>1, <2>2
  <2>4. m - 1 \in 0 .. k /\ m - 1 \notin Bad
    BY <2>2, <2>3
  <2>5. Good(m - 1)
    BY <2>4
  <2> QED  BY <1>2, <2>3, <2>5
<1>4. k \in 0 .. k
  OBVIOUS
<1>5. Good(k)
  BY <1>3, <1>4
<1> QED  BY <1>5 DEF Good

-----------------------------------------------------------------------------
(* Heaps and positions.                                                    *)

(* A tree has no hole above a node, and no right child without a left one. *)
Tree(at) ==
  /\ at \in [Nat -> Ptr] /\ at[0] = NULL
  /\ \A i \in Nat : \A j \in Nat : at[i] = at[j] /\ at[i] # NULL => i = j
  /\ \A i \in Nat : i # 0 /\ at[i] = NULL => at[2 * i] = NULL /\ at[2 * i + 1] = NULL
  /\ \A i \in Nat : i # 0 /\ at[2 * i] = NULL => at[2 * i + 1] = NULL

On(at) == {n \in Nodes : \E i \in Nat : at[i] = n}

Up(i) == i \div 2

(* The pointers are those of the tree.                                     *)
Linked(h, at) ==
  /\ h \in Heaps /\ Tree(at)
  /\ \A i \in Nat : at[i] # NULL => /\ h.left[at[i]] = at[2 * i]
                                    /\ h.right[at[i]] = at[2 * i + 1]
                                    /\ h.up[at[i]] = at[Up(i)]

(* So are the counts, but for a node that is counted below "over" in the   *)
(* middle of an operation.                                                 *)
Counted(h, at, over) ==
  \A i \in Nat : at[i] # NULL =>
    /\ h.children[at[i]] \in Nat
    /\ h.children[at[i]] = gp_heap_size(h, at[2 * i]) + gp_heap_size(h, at[2 * i + 1])
                             + (IF at[i] = over THEN 1 ELSE 0)

(* Nodes that are in no tree are left alone.                               *)
SameElsewhere(h, g, S) ==
  /\ \A n \in Nodes \ S : g.left[n] = h.left[n]
  /\ g.bug = h.bug

Exchange(at, i, j) == [at EXCEPT ![i] = at[j], ![j] = at[i]]

LEMMA HeapFields ==
  ASSUME NEW h \in Heaps
  PROVE  /\ h.left \in [Nodes -> Ptr] /\ h.right \in [Nodes -> Ptr] /\ h.up \in [Nodes -> Ptr]
         /\ h.children \in [Nodes -> Int] /\ h.bug \in BOOLEAN
BY DEF Heaps

LEMMA HeapMade ==
  ASSUME NEW l \in [Nodes -> Ptr], NEW r \in [Nodes -> Ptr], NEW u \in [Nodes -> Ptr],
         NEW c \in [Nodes -> Int], NEW b \in BOOLEAN
  PROVE  [left |-> l, right |-> r, up |-> u, children |-> c, bug |-> b] \in Heaps
BY DEF Heaps

(* Positions are halved, and doubled.                                      *)
LEMMA UpFacts ==
  ASSUME NEW i \in Nat
  PROVE  /\ Up(i) \in Nat /\ Up(2 * i) = i /\ Up(2 * i + 1) = i
         /\ i = 2 * Up(i) \/ i = 2 * Up(i) + 1
         /\ i # 0 => Up(i) < i
         /\ 2 * i \in Nat /\ 2 * i + 1 \in Nat
BY DEF Up

(* What gp_heap_fix_up() leaves.                                           *)
FixedUp(h, g, up, x, rep) ==
  /\ g \in Heaps /\ g.up = h.up /\ g.children = h.children /\ g.bug = h.bug
  /\ \A n \in Nodes : g.left[n] = IF n = up /\ h.left[n] = x THEN rep ELSE h.left[n]
  /\ \A n \in Nodes : g.right[n] = IF n = up /\ h.left[n] # x THEN rep ELSE h.right[n]

LEMMA FixUpFields ==
  ASSUME NEW h \in Heaps, NEW up \in Ptr, NEW x \in Nodes, NEW rep \in Ptr,
         up # NULL => h.left[up] = x \/ h.right[up] = x
  PROVE  FixedUp(h, gp_heap_fix_up(h, up, x, rep), up, x, rep)
<1> USE NullAssumption DEF Ptr, FixedUp
<1>1. CASE up = NULL
  BY <1>1 DEF gp_heap_fix_up, Heaps
<1>2. CASE up # NULL /\ h.left[up] = x
  BY <1>2 DEF gp_heap_fix_up, Heaps
<1>3. CASE up # NULL /\ h.left[up] # x
  BY <1>3 DEF gp_heap_fix_up, Heaps
<1> QED  BY <1>1, <1>2, <1>3

(* What a swap of x with its left child c leaves, and with its right one.  *)
SwappedUp(h, g, x, c, other) ==
  \A n \in Nodes :
    g.up[n] = IF n = c THEN h.up[x]
              ELSE IF n = x \/ n = other THEN c
              ELSE IF n = h.left[c] \/ n = h.right[c] THEN x
              ELSE h.up[n]

SwappedLeft(h, g, x, c) ==
  /\ g \in Heaps /\ g.bug = h.bug
  /\ SwappedUp(h, g, x, c, h.right[x])
  /\ \A n \in Nodes :
       g.left[n] = IF n = x THEN h.left[c] ELSE IF n = c THEN x
                   ELSE IF n = h.up[x] /\ h.left[n] = x THEN c ELSE h.left[n]
  /\ \A n \in Nodes :
       g.right[n] = IF n = x THEN h.right[c] ELSE IF n = c THEN h.right[x]
                    ELSE IF n = h.up[x] /\ h.left[n] # x THEN c ELSE h.right[n]
  /\ g.children = [h.children EXCEPT ![x] = h.children[c], ![c] = h.children[x]]

SwappedRight(h, g, x, c) ==
  /\ g \in Heaps /\ g.bug = h.bug
  /\ SwappedUp(h, g, x, c, h.left[x])
  /\ \A n \in Nodes :
       g.left[n] = IF n = x THEN h.left[c] ELSE IF n = c THEN h.left[x]
                   ELSE IF n = h.up[x] /\ h.left[n] = x THEN c ELSE h.left[n]
  /\ \A n \in Nodes :
       g.right[n] = IF n = x THEN h.right[c] ELSE IF n = c THEN x
                    ELSE IF n = h.up[x] /\ h.left[n] # x THEN c ELSE h.right[n]
  /\ g.children = [h.children EXCEPT ![x] = h.children[c], ![c] = h.children[x]]

LEMMA SwapLeftFields ==
  ASSUME NEW h \in Heaps, NEW x \in Nodes, NEW c \in Nodes, h.left[x] = c,
         h.up[x] # NULL => h.left[h.up[x]] = x \/ h.right[h.up[x]] = x
  PROVE  SwappedLeft(h, gp_heap_swap(h, x, "left"), x, c)
<1> DEFINE f == gp_heap_fix_up(h, h.up[x], x, c)
           g == gp_heap_swap(h, x, "left")
<1>1. h.up[x] \in Ptr /\ c \in Ptr
  BY DEF Heaps, Ptr
<1>2. FixedUp(h, f, h.up[x], x, c)
  BY <1>1, FixUpFields
<1>3. g = [f EXCEPT
            !.up = [n \in Nodes |-> IF n = c THEN h.up[x] ELSE IF n \in {x, h.right[x]} THEN c
                      ELSE IF n \in {h.left[c], h.right[c]} THEN x ELSE @[n]],
            !.left = [n \in Nodes |-> IF n = x THEN h.left[c] ELSE IF n = c THEN x ELSE @[n]],
            !.right = [n \in Nodes |-> IF n = x THEN h.right[c] ELSE IF n = c THEN h.right[x] ELSE @[n]],
            !.children = [@ EXCEPT ![x] = h.children[c], ![c] = h.children[x]]]
  BY DEF gp_heap_swap, Other
<1> HIDE DEF f, g
<1>4. f \in Heaps
  BY <1>2 DEF FixedUp
<1>5. /\ g.bug = f.bug
      /\ g.up = [n \in Nodes |-> IF n = c THEN h.up[x] ELSE IF n \in {x, h.right[x]} THEN c
                      ELSE IF n \in {h.left[c], h.right[c]} THEN x ELSE f.up[n]]
      /\ g.left = [n \in Nodes |-> IF n = x THEN h.left[c] ELSE IF n = c THEN x ELSE f.left[n]]
      /\ g.right = [n \in Nodes |-> IF n = x THEN h.right[c] ELSE IF n = c THEN h.right[x] ELSE f.right[n]]
      /\ g.children = [f.children EXCEPT ![x] = h.children[c], ![c] = h.children[x]]
      /\ g = [left |-> g.left, right |-> g.right, up |-> g.up, children |-> g.children, bug |-> g.bug]
  BY <1>3, <1>4 DEF Heaps
<1>6. /\ g.left \in [Nodes -> Ptr] /\ g.right \in [Nodes -> Ptr] /\ g.up \in [Nodes -> Ptr]
  BY <1>1, <1>4, <1>5, HeapFields DEF Ptr
<1>7. g.children \in [Nodes -> Int] /\ g.bug \in BOOLEAN
  BY <1>4, <1>5, HeapFields
<1>8. g \in Heaps
  BY <1>5, <1>6, <1>7 DEF Heaps
<1>9. \A n \in Nodes :
       /\ g.left[n] = IF n = x THEN h.left[c] ELSE IF n = c THEN x ELSE f.left[n]
       /\ g.right[n] = IF n = x THEN h.right[c] ELSE IF n = c THEN h.right[x] ELSE f.right[n]
  BY <1>5
<1>10. SwappedUp(h, g, x, c, h.right[x])
  <2> DEFINE other == h.right[x]
  <2>1. f.up = h.up
    BY <1>2 DEF FixedUp
  <2>2. g.up = [n \in Nodes |-> IF n = c THEN h.up[x] ELSE IF n \in {x, other} THEN c
                  ELSE IF n \in {h.left[c], h.right[c]} THEN x ELSE h.up[n]]
    BY <1>5, <2>1, Zenon
  <2> HIDE DEF other
  <2>3. SwappedUp(h, g, x, c, other)
    BY <2>2 DEF SwappedUp
  <2> QED  BY <2>3 DEF other
<1> HIDE DEF SwappedUp
<1>11. SwappedLeft(h, g, x, c)
  BY <1>2, <1>5, <1>8, <1>9, <1>10 DEF SwappedLeft, FixedUp
<1> QED  BY <1>11 DEF g

LEMMA SwapRightFields ==
  ASSUME NEW h \in Heaps, NEW x \in Nodes, NEW c \in Nodes, h.right[x] = c,
         h.up[x] # NULL => h.left[h.up[x]] = x \/ h.right[h.up[x]] = x
  PROVE  SwappedRight(h, gp_heap_swap(h, x, "right"), x, c)
<1> DEFINE f == gp_heap_fix_up(h, h.up[x], x, c)
           g == gp_heap_swap(h, x, "right")
<1>1. h.up[x] \in Ptr /\ c \in Ptr
  BY DEF Heaps, Ptr
<1>2. FixedUp(h, f, h.up[x], x, c)
  BY <1>1, FixUpFields
<1>3. g = [f EXCEPT
            !.up = [n \in Nodes |-> IF n = c THEN h.up[x] ELSE IF n \in {x, h.left[x]} THEN c
                      ELSE IF n \in {h.left[c], h.right[c]} THEN x ELSE @[n]],
            !.right = [n \in Nodes |-> IF n = x THEN h.right[c] ELSE IF n = c THEN x ELSE @[n]],
            !.left = [n \in Nodes |-> IF n = x THEN h.left[c] ELSE IF n = c THEN h.left[x] ELSE @[n]],
            !.children = [@ EXCEPT ![x] = h.children[c], ![c] = h.children[x]]]
  BY DEF gp_heap_swap, Other
<1> HIDE DEF f, g
<1>4. f \in Heaps
  BY <1>2 DEF FixedUp
<1>5. /\ g.bug = f.bug
      /\ g.up = [n \in Nodes |-> IF n = c THEN h.up[x] ELSE IF n \in {x, h.left[x]} THEN c
                      ELSE IF n \in {h.left[c], h.right[c]} THEN x ELSE f.up[n]]
      /\ g.left = [n \in Nodes |-> IF n = x THEN h.left[c] ELSE IF n = c THEN h.left[x] ELSE f.left[n]]
      /\ g.right = [n \in Nodes |-> IF n = x THEN h.right[c] ELSE IF n = c THEN x ELSE f.right[n]]
      /\ g.children = [f.children EXCEPT ![x] = h.children[c], ![c] = h.children[x]]
      /\ g = [left |-> g.left, right |-> g.right, up |-> g.up, children |-> g.children, bug |-> g.bug]
  BY <1>3, <1>4 DEF Heaps
<1>6. /\ g.left \in [Nodes -> Ptr] /\ g.right \in [Nodes -> Ptr] /\ g.up \in [Nodes -> Ptr]
  BY <1>1, <1>4, <1>5, HeapFields DEF Ptr
<1>7. g.children \in [Nodes -> Int] /\ g.bug \in BOOLEAN
  BY <1>4, <1>5, HeapFields
<1>8. g \in Heaps
  BY <1>5, <1>6, <1>7 DEF Heaps
<1>9. \A n \in Nodes :
       /\ g.left[n] = IF n = x THEN h.left[c] ELSE IF n = c THEN h.left[x] ELSE f.left[n]
       /\ g.right[n] = IF n = x THEN h.right[c] ELSE IF n = c THEN x ELSE f.right[n]
  BY <1>5
<1>10. SwappedUp(h, g, x, c, h.left[x])
  <2> DEFINE other == h.left[x]
  <2>1. f.up = h.up
    BY <1>2 DEF FixedUp
  <2>2. g.up = [n \in Nodes |-> IF n = c THEN h.up[x] ELSE IF n \in {x, other} THEN c
                  ELSE IF n \in {h.left[c], h.right[c]} THEN x ELSE h.up[n]]
    BY <1>5, <2>1, Zenon
  <2> HIDE DEF other
  <2>3. SwappedUp(h, g, x, c, other)
    BY <2>2 DEF SwappedUp
  <2> QED  BY <2>3 DEF other
<1> HIDE DEF SwappedUp
<1>11. SwappedRight(h, g, x, c)
  BY <1>2, <1>5, <1>8, <1>9, <1>10 DEF SwappedRight, FixedUp
<1> QED  BY <1>11 DEF g
-----------------------------------------------------------------------------
(* A swap.                                                                 *)

(* Both sides at once: cl and cr become the children of c.                 *)
Swapped(h, g, x, c, cl, cr, other) ==
  /\ g \in Heaps /\ g.bug = h.bug
  /\ SwappedUp(h, g, x, c, other)
  /\ \A n \in Nodes :
       g.left[n] = IF n = x THEN h.left[c] ELSE IF n = c THEN cl
                   ELSE IF n = h.up[x] /\ h.left[n] = x THEN c ELSE h.left[n]
  /\ \A n \in Nodes :
       g.right[n] = IF n = x THEN h.right[c] ELSE IF n = c THEN cr
                    ELSE IF n = h.up[x] /\ h.left[n] # x THEN c ELSE h.right[n]
  /\ g.children = [h.children EXCEPT ![x] = h.children[c], ![c] = h.children[x]]

(* The child of i that is not j.                                           *)
Sibling(i, j) == IF j = 2 * i THEN 2 * i + 1 ELSE 2 * i

SideOf(i, j) == IF j = 2 * i THEN "left" ELSE "right"

(* What is at most one position.                                           *)
LEMMA TreeFacts ==
  ASSUME NEW at, Tree(at)
  PROVE  /\ \A k \in Nat : at[k] \in Ptr /\ (at[k] # NULL => at[k] \in Nodes)
         /\ \A k, l \in Nat : at[k] = at[l] /\ at[k] # NULL => k = l
         /\ \A k \in Nat : at[k] # NULL => k # 0
         /\ \A k \in Nat : at[k] # NULL => at[k] \in On(at)
         /\ \A n \in On(at) : n \in Nodes /\ \E k \in Nat : k # 0 /\ at[k] = n
BY NullAssumption DEF Tree, On, Ptr

(* The node above one in the tree is in it.                                *)
LEMMA UpInTree ==
  ASSUME NEW at, Tree(at), NEW i \in Nat, at[i] # NULL, Up(i) # 0
  PROVE  at[Up(i)] # NULL
BY UpFacts DEF Tree

LEMMA ExchangeFacts ==
  ASSUME NEW at, Tree(at), NEW i \in Nat, NEW j \in Nat, i # j, at[i] # NULL, at[j] # NULL
  PROVE  /\ Exchange(at, i, j)[i] = at[j] /\ Exchange(at, i, j)[j] = at[i]
         /\ \A k \in Nat : k # i /\ k # j => Exchange(at, i, j)[k] = at[k]
         /\ \A k \in Nat : Exchange(at, i, j)[k] = NULL <=> at[k] = NULL
         /\ Tree(Exchange(at, i, j))
         /\ On(Exchange(at, i, j)) = On(at)
<1> DEFINE a2 == Exchange(at, i, j)
<1>1. /\ a2[i] = at[j] /\ a2[j] = at[i]
      /\ \A k \in Nat : k # i /\ k # j => a2[k] = at[k]
  BY DEF Exchange, Tree
<1>2. a2 \in [Nat -> Ptr]
  BY DEF Exchange, Tree
<1> HIDE DEF a2
<1>3. \A k \in Nat : a2[k] = NULL <=> at[k] = NULL
  BY <1>1
<1>4. \A k, l \in Nat : at[k] = at[l] /\ at[k] # NULL => k = l
  BY DEF Tree
<1>5. a2[0] = NULL
  BY <1>3 DEF Tree
<1>6. \A k, l \in Nat : a2[k] = a2[l] /\ a2[k] # NULL => k = l
  BY <1>1, <1>3, <1>4
<1>7. Tree(a2)
  <2>1. \A k \in Nat : 2 * k \in Nat /\ 2 * k + 1 \in Nat
    OBVIOUS
  <2> QED  BY <1>2, <1>3, <1>5, <1>6, <2>1 DEF Tree
<1>8. On(a2) = On(at)
  <2>1. ASSUME NEW n \in On(a2) PROVE n \in On(at)
    BY <1>1 DEF On
  <2>2. ASSUME NEW n \in On(at) PROVE n \in On(a2)
    BY <1>1 DEF On
  <2> QED  BY <2>1, <2>2
<1> QED  BY <1>1, <1>3, <1>7, <1>8 DEF a2

LEMMA LinkedFacts ==
  ASSUME NEW h, NEW at, Linked(h, at), NEW i \in Nat, at[i] # NULL
  PROVE  /\ h.left[at[i]] = at[2 * i] /\ h.right[at[i]] = at[2 * i + 1]
         /\ h.up[at[i]] = at[Up(i)]
         /\ i # 0
BY DEF Linked, Tree

(* gp_heap_swap_left() and gp_heap_swap_right() on a child that is there.  *)
LEMMA SwapFields ==
  ASSUME NEW h, NEW at, Linked(h, at), NEW i \in Nat, NEW j \in {2 * i, 2 * i + 1},
         at[i] # NULL, at[j] # NULL
  PROVE  Swapped(h, gp_heap_swap(h, at[i], SideOf(i, j)), at[i], at[j],
                 Exchange(at, i, j)[2 * i], Exchange(at, i, j)[2 * i + 1], at[Sibling(i, j)])
<1> DEFINE x == at[i]
           c == at[j]
<1>1. i # 0 /\ i # j /\ j \in Nat /\ 2 * i \in Nat /\ 2 * i + 1 \in Nat /\ Up(i) \in Nat
  <2>1. i # 0
    BY LinkedFacts
  <2>2. Up(i) \in Nat
    BY UpFacts
  <2> QED  BY <2>1, <2>2
<1>2. Tree(at) /\ h \in Heaps
  BY DEF Linked
<1>3. x \in Nodes /\ c \in Nodes
  BY <1>1, <1>2, TreeFacts
<1>4. h.left[x] = at[2 * i] /\ h.right[x] = at[2 * i + 1] /\ h.up[x] = at[Up(i)]
  BY LinkedFacts
<1>5. h.up[x] # NULL => h.left[h.up[x]] = x \/ h.right[h.up[x]] = x
  <2>1. ASSUME h.up[x] # NULL PROVE h.left[h.up[x]] = x \/ h.right[h.up[x]] = x
    <3>1. h.left[at[Up(i)]] = at[2 * Up(i)] /\ h.right[at[Up(i)]] = at[2 * Up(i) + 1]
      BY <1>1, <1>4, <2>1, LinkedFacts
    <3> QED  BY <1>4, <3>1, UpFacts
  <2> QED  BY <2>1
<1>6. /\ Exchange(at, i, j)[j] = x
      /\ \A k \in Nat : k # i /\ k # j => Exchange(at, i, j)[k] = at[k]
  BY <1>1, <1>2, ExchangeFacts
<1>7. CASE j = 2 * i
  <2>1. h.left[x] = c
    BY <1>4, <1>7
  <2>2. SwappedLeft(h, gp_heap_swap(h, x, "left"), x, c)
    BY <1>2, <1>3, <1>5, <2>1, SwapLeftFields
  <2>3. Exchange(at, i, j)[2 * i] = x /\ Exchange(at, i, j)[2 * i + 1] = h.right[x]
    BY <1>1, <1>4, <1>6, <1>7
  <2>4. Sibling(i, j) = 2 * i + 1 /\ SideOf(i, j) = "left"
    BY <1>7 DEF Sibling, SideOf
  <2> HIDE DEF c, x
  <2>5. Swapped(h, gp_heap_swap(h, x, "left"), x, c, x, h.right[x], h.right[x])
    BY <2>2 DEF Swapped, SwappedLeft
  <2> QED  BY <1>4, <2>3, <2>4, <2>5 DEF x, c
<1>8. CASE j = 2 * i + 1
  <2>1. h.right[x] = c
    BY <1>4, <1>8
  <2>2. SwappedRight(h, gp_heap_swap(h, x, "right"), x, c)
    BY <1>2, <1>3, <1>5, <2>1, SwapRightFields
  <2>3. Exchange(at, i, j)[2 * i + 1] = x /\ Exchange(at, i, j)[2 * i] = h.left[x]
    BY <1>1, <1>4, <1>6, <1>8
  <2>4. Sibling(i, j) = 2 * i /\ SideOf(i, j) = "right"
    BY <1>8 DEF Sibling, SideOf
  <2> HIDE DEF c, x
  <2>5. Swapped(h, gp_heap_swap(h, x, "right"), x, c, h.left[x], x, h.left[x])
    BY <2>2 DEF Swapped, SwappedRight
  <2> QED  BY <1>4, <2>3, <2>4, <2>5 DEF x, c
<1> QED  BY <1>7, <1>8
(* Exchanged positions and their neighbours.                               *)
LEMMA SwapPositions ==
  ASSUME NEW at, Tree(at), NEW i \in Nat \ {0}, NEW j \in {2 * i, 2 * i + 1},
         at[i] # NULL, at[j] # NULL, NEW h, NEW g, Linked(h, at),
         Swapped(h, g, at[i], at[j], Exchange(at, i, j)[2 * i], Exchange(at, i, j)[2 * i + 1],
                 at[Sibling(i, j)])
  PROVE  Linked(g, Exchange(at, i, j))
<1> DEFINE a2 == Exchange(at, i, j)
           x == at[i]
           c == at[j]
           Good(k) == /\ g.left[a2[k]] = a2[2 * k]
                      /\ g.right[a2[k]] = a2[2 * k + 1]
                      /\ g.up[a2[k]] = a2[Up(k)]
<1>1. j \in Nat /\ i # j /\ Up(j) = i /\ Up(i) \in Nat /\ Up(i) # i /\ Up(i) # j
  <2>1. Up(2 * i) = i /\ Up(2 * i + 1) = i /\ Up(i) \in Nat /\ Up(i) < i
    BY UpFacts
  <2> QED  BY <2>1
<1>2. /\ a2[i] = c /\ a2[j] = x
      /\ \A k \in Nat : k # i /\ k # j => a2[k] = at[k]
      /\ \A k \in Nat : a2[k] = NULL <=> at[k] = NULL
      /\ Tree(a2)
  BY <1>1, ExchangeFacts
<1>3. x \in Nodes /\ c \in Nodes /\ x # c /\ x # NULL /\ c # NULL
  BY <1>1, TreeFacts
<1>4. \A k \in Nat : at[k] # NULL =>
         /\ h.left[at[k]] = at[2 * k] /\ h.right[at[k]] = at[2 * k + 1]
         /\ h.up[at[k]] = at[Up(k)]
  BY LinkedFacts
<1>5. \A k, l \in Nat : at[k] = at[l] /\ at[k] # NULL => k = l
  BY TreeFacts
<1>6. Swapped(h, g, x, c, a2[2 * i], a2[2 * i + 1], at[Sibling(i, j)])
  OBVIOUS
<1> HIDE DEF a2, x, c
<1>7. Good(i)
  <2>1. g.left[c] = a2[2 * i] /\ g.right[c] = a2[2 * i + 1] /\ g.up[c] = h.up[x]
    BY <1>3, <1>6 DEF Swapped, SwappedUp
  <2>2. h.up[x] = at[Up(i)] /\ a2[Up(i)] = at[Up(i)]
    BY <1>1, <1>2, <1>3, <1>4 DEF x
  <2> QED  BY <1>2, <2>1, <2>2
<1>8. Good(j)
  <2>1. g.left[x] = h.left[c] /\ g.right[x] = h.right[c] /\ g.up[x] = c
    BY <1>3, <1>6 DEF Swapped, SwappedUp
  <2>2. h.left[c] = at[2 * j] /\ h.right[c] = at[2 * j + 1]
    BY <1>1, <1>3, <1>4 DEF c
  <2>3. a2[2 * j] = at[2 * j] /\ a2[2 * j + 1] = at[2 * j + 1]
    BY <1>1, <1>2
  <2> QED  BY <1>1, <1>2, <2>1, <2>2, <2>3
<1>9. ASSUME NEW k \in Nat, k # i, k # j, a2[k] # NULL PROVE Good(k)
  <2> DEFINE n == at[k]
  <2>1. a2[k] = n /\ n # NULL /\ n \in Nodes /\ n # x /\ n # c
    BY <1>1, <1>2, <1>5, <1>9, TreeFacts DEF x, c
  <2>2. h.left[n] = at[2 * k] /\ h.right[n] = at[2 * k + 1] /\ h.up[n] = at[Up(k)]
    BY <1>4, <2>1
  <2>3. /\ g.left[n] = IF n = h.up[x] /\ h.left[n] = x THEN c ELSE h.left[n]
        /\ g.right[n] = IF n = h.up[x] /\ h.left[n] # x THEN c ELSE h.right[n]
        /\ g.up[n] = IF n = at[Sibling(i, j)] THEN c
                     ELSE IF n = h.left[c] \/ n = h.right[c] THEN x ELSE h.up[n]
    BY <1>6, <2>1 DEF Swapped, SwappedUp
  <2>4. n = h.up[x] <=> k = Up(i)
    <3>1. h.up[x] = at[Up(i)]
      BY <1>3, <1>4 DEF x
    <3> QED  BY <1>1, <1>5, <2>1, <3>1
  <2>5. \A l \in Nat : at[l] = x <=> l = i
    BY <1>3, <1>5 DEF x
  <2>6. 2 * k \in Nat /\ 2 * k + 1 \in Nat /\ Up(k) \in Nat /\ 2 * k # j /\ 2 * k + 1 # j
    <3>1. Up(k) \in Nat
      BY UpFacts
    <3>2. 2 * k # j /\ 2 * k + 1 # j
      BY ONLY k \in Nat, i \in Nat, k # i, j \in {2 * i, 2 * i + 1}
    <3> QED  BY <3>1, <3>2
  <2>7. g.left[n] = a2[2 * k]
    <3>1. h.left[n] = x <=> 2 * k = i
      BY <2>2, <2>5, <2>6
    <3>2. 2 * k = i => k = Up(i)
      BY UpFacts
    <3> HIDE DEF n
    <3>3. CASE 2 * k = i
      BY <1>2, <2>3, <2>4, <3>1, <3>2, <3>3
    <3>4. CASE 2 * k # i
      <4>1. g.left[n] = h.left[n]
        BY <2>3, <3>1, <3>4
      <4> QED  BY <1>2, <2>2, <2>6, <3>4, <4>1
    <3> QED  BY <3>3, <3>4
  <2>8. g.right[n] = a2[2 * k + 1]
    <3>1. h.left[n] = x <=> 2 * k = i
      BY <2>2, <2>5, <2>6
    <3>2. 2 * k + 1 = i <=> k = Up(i) /\ 2 * k # i
      <4>1. Up(2 * k + 1) = k /\ (i = 2 * Up(i) \/ i = 2 * Up(i) + 1)
        BY UpFacts
      <4> QED  BY <4>1
    <3> HIDE DEF n
    <3>3. CASE 2 * k + 1 = i
      BY <1>2, <2>3, <2>4, <3>1, <3>2, <3>3
    <3>4. CASE 2 * k + 1 # i
      <4>1. g.right[n] = h.right[n]
        BY <2>3, <2>4, <3>1, <3>2, <3>4
      <4> QED  BY <1>2, <2>2, <2>6, <3>4, <4>1
    <3> QED  BY <3>3, <3>4
  <2>9. g.up[n] = a2[Up(k)]
    <3>1. Sibling(i, j) \in Nat /\ Up(Sibling(i, j)) = i
      BY UpFacts DEF Sibling
    <3>2. n = at[Sibling(i, j)] <=> k = Sibling(i, j)
      BY <1>5, <2>1, <3>1
    <3>3. Up(k) = i <=> k = Sibling(i, j)
      <4>1. k = 2 * Up(k) \/ k = 2 * Up(k) + 1
        BY UpFacts
      <4> QED  BY <1>9, <3>1, <4>1 DEF Sibling
    <3>4. h.left[c] = at[2 * j] /\ h.right[c] = at[2 * j + 1] /\ 2 * j \in Nat /\ 2 * j + 1 \in Nat
      BY <1>1, <1>3, <1>4 DEF c
    <3>5. n = h.left[c] \/ n = h.right[c] <=> k = 2 * j \/ k = 2 * j + 1
      BY <1>5, <2>1, <3>4
    <3>6. Up(k) = j <=> k = 2 * j \/ k = 2 * j + 1
      BY <1>1, UpFacts
    <3> HIDE DEF n
    <3>7. CASE Up(k) = i
      BY <1>2, <2>3, <3>2, <3>3, <3>7
    <3>8. CASE Up(k) = j
      BY <1>1, <1>2, <2>3, <3>2, <3>3, <3>5, <3>6, <3>8
    <3>9. CASE Up(k) # i /\ Up(k) # j
      BY <1>2, <2>2, <2>3, <2>6, <3>2, <3>3, <3>5, <3>6, <3>9
    <3> QED  BY <3>7, <3>8, <3>9
  <2> QED  BY <2>1, <2>7, <2>8, <2>9
<1>10. \A k \in Nat : a2[k] # NULL => Good(k)
  BY <1>7, <1>8, <1>9
<1>11. g \in Heaps
  BY <1>6 DEF Swapped
<1>12. Linked(g, a2)
  BY <1>2, <1>10, <1>11 DEF Linked
<1> QED  BY <1>12 DEF a2

(* A swap exchanges two positions, and the counts stay with the positions. *)
SwapDone(h, g, at, a2) ==
  /\ Linked(g, a2) /\ On(a2) = On(at) /\ SameElsewhere(h, g, On(at))
  /\ \A k \in Nat : at[k] # NULL => g.children[a2[k]] = h.children[at[k]]

LEMMA SwapLinked ==
  ASSUME NEW h, NEW at, Linked(h, at), NEW i \in Nat, NEW j \in {2 * i, 2 * i + 1},
         at[i] # NULL, at[j] # NULL
  PROVE  SwapDone(h, gp_heap_swap(h, at[i], SideOf(i, j)), at, Exchange(at, i, j))
<1> DEFINE g == gp_heap_swap(h, at[i], SideOf(i, j))
           a2 == Exchange(at, i, j)
<1>1. Tree(at) /\ i \in Nat \ {0} /\ j \in Nat /\ i # j
  BY LinkedFacts DEF Linked
<1>2. Swapped(h, g, at[i], at[j], a2[2 * i], a2[2 * i + 1], at[Sibling(i, j)])
  BY SwapFields
<1>3. Linked(g, a2)
  BY <1>1, <1>2, SwapPositions
<1>4. /\ On(a2) = On(at) /\ a2[i] = at[j] /\ a2[j] = at[i]
      /\ \A k \in Nat : k # i /\ k # j => a2[k] = at[k]
  BY <1>1, ExchangeFacts
<1> HIDE DEF g, a2
<1>5. SameElsewhere(h, g, On(at))
  <2>1. at[i] \in On(at) /\ at[j] \in On(at)
    BY <1>1, TreeFacts
  <2>2. h.up[at[i]] \in On(at) \cup {NULL}
    <3>1. h.up[at[i]] = at[Up(i)] /\ Up(i) \in Nat
      BY LinkedFacts, UpFacts
    <3> QED  BY <1>1, <3>1, TreeFacts
  <2>3. \A n \in Nodes \ On(at) : n # at[i] /\ n # at[j] /\ n # h.up[at[i]]
    BY <2>1, <2>2, NullAssumption
  <2> QED  BY <1>2, <2>3 DEF Swapped, SameElsewhere
<1>6. ASSUME NEW k \in Nat, at[k] # NULL PROVE g.children[a2[k]] = h.children[at[k]]
  <2>1. /\ g.children = [h.children EXCEPT ![at[i]] = h.children[at[j]], ![at[j]] = h.children[at[i]]]
        /\ h.children \in [Nodes -> Int]
    BY <1>2, HeapFields DEF Swapped, Linked
  <2>2. at[i] \in Nodes /\ at[j] \in Nodes /\ at[i] # at[j] /\ at[k] \in Nodes
    BY <1>1, <1>6, TreeFacts
  <2>3. k # i /\ k # j => at[k] # at[i] /\ at[k] # at[j]
    BY <1>1, <1>6, TreeFacts
  <2>4. /\ g.children[at[j]] = h.children[at[i]] /\ g.children[at[i]] = h.children[at[j]]
        /\ \A n \in Nodes : n # at[i] /\ n # at[j] => g.children[n] = h.children[n]
    BY <2>1, <2>2
  <2> QED  BY <1>4, <2>2, <2>3, <2>4
<1> QED  BY <1>3, <1>4, <1>5, <1>6 DEF g, a2, SwapDone
(* The counts stay true if those of each position do.                      *)
LEMMA CountedAcross ==
  ASSUME NEW h, NEW g, NEW at, NEW a2, Counted(h, at, NULL),
         \A k \in Nat : at[k] # NULL => g.children[a2[k]] = h.children[at[k]],
         \A k \in Nat : a2[k] = NULL <=> at[k] = NULL
  PROVE  Counted(g, a2, NULL) /\ gp_heap_size(g, a2[1]) = gp_heap_size(h, at[1])
<1>1. ASSUME NEW k \in Nat PROVE gp_heap_size(g, a2[k]) = gp_heap_size(h, at[k])
  BY DEF gp_heap_size
<1>2. ASSUME NEW k \in Nat, a2[k] # NULL
      PROVE /\ g.children[a2[k]] \in Nat
            /\ g.children[a2[k]] = gp_heap_size(g, a2[2 * k]) + gp_heap_size(g, a2[2 * k + 1])
                                     + (IF a2[k] = NULL THEN 1 ELSE 0)
  <2>1. at[k] # NULL /\ 2 * k \in Nat /\ 2 * k + 1 \in Nat
    BY <1>2
  <2>2. /\ h.children[at[k]] \in Nat
        /\ h.children[at[k]] = gp_heap_size(h, at[2 * k]) + gp_heap_size(h, at[2 * k + 1])
                                 + (IF at[k] = NULL THEN 1 ELSE 0)
    BY <2>1 DEF Counted
  <2> QED  BY <1>1, <1>2, <2>1, <2>2
<1> QED  BY <1>1, <1>2 DEF Counted

LEMMA SwapCounted ==
  ASSUME NEW h, NEW g, NEW at, NEW a2, Tree(at), SwapDone(h, g, at, a2), Counted(h, at, NULL),
         \A k \in Nat : a2[k] = NULL <=> at[k] = NULL
  PROVE  Counted(g, a2, NULL)
<1>1. \A k \in Nat : at[k] # NULL => g.children[a2[k]] = h.children[at[k]]
  BY DEF SwapDone
<1> QED  BY <1>1, CountedAcross

(* A node counts more than its child does, and the root more than any.     *)
LEMMA SizeIsNat ==
  ASSUME NEW h, NEW at, NEW over, Tree(at), Counted(h, at, over), NEW k \in Nat
  PROVE  gp_heap_size(h, at[k]) \in Nat
BY DEF Counted, gp_heap_size

LEMMA ChildCountsLess ==
  ASSUME NEW h, NEW at, NEW over, Tree(at), Counted(h, at, over), NEW i \in Nat,
         NEW j \in {2 * i, 2 * i + 1}, at[i] # NULL, at[j] # NULL
  PROVE  /\ h.children[at[i]] \in Nat /\ h.children[at[j]] \in Nat
         /\ h.children[at[j]] < h.children[at[i]]
<1>1. 2 * i \in Nat /\ 2 * i + 1 \in Nat
  OBVIOUS
<1>2. gp_heap_size(h, at[2 * i]) \in Nat /\ gp_heap_size(h, at[2 * i + 1]) \in Nat
  BY <1>1, SizeIsNat
<1>3. gp_heap_size(h, at[j]) = h.children[at[j]] + 1 /\ h.children[at[j]] \in Nat
  BY <1>1 DEF gp_heap_size, Counted
<1>4. /\ h.children[at[i]] \in Nat
      /\ h.children[at[i]] = gp_heap_size(h, at[2 * i]) + gp_heap_size(h, at[2 * i + 1])
                               + (IF at[i] = over THEN 1 ELSE 0)
  BY DEF Counted
<1>5. CASE j = 2 * i
  BY <1>2, <1>3, <1>4, <1>5
<1>6. CASE j = 2 * i + 1
  BY <1>2, <1>3, <1>4, <1>6
<1> QED  BY <1>5, <1>6

LEMMA RootCountsMost ==
  ASSUME NEW h, NEW at, Tree(at), Counted(h, at, NULL), NEW i \in Nat, at[i] # NULL
  PROVE  /\ at[1] # NULL
         /\ h.children[at[i]] \in Nat /\ h.children[at[1]] \in Nat
         /\ i # 1 => h.children[at[i]] < h.children[at[1]]
<1> DEFINE Good(k) == /\ at[1] # NULL
                      /\ h.children[at[k]] \in Nat /\ h.children[at[1]] \in Nat
                      /\ k # 1 => h.children[at[k]] < h.children[at[1]]
           Bad == {k \in Nat : at[k] # NULL /\ ~ Good(k)}
<1>1. Bad = {}
  <2> SUFFICES ASSUME Bad # {} PROVE FALSE
    OBVIOUS
  <2>1. PICK k \in Bad : \A y \in Bad : k =< y
    <3>1. Bad \subseteq Nat
      OBVIOUS
    <3> QED  BY <3>1, SmallestExists
  <2>2. k \in Nat /\ at[k] # NULL /\ k # 0 /\ ~ Good(k)
    BY <2>1, TreeFacts
  <2>3. k # 1
    <3>1. at[1] # NULL => h.children[at[1]] \in Nat
      BY DEF Counted
    <3> QED  BY <2>2, <3>1
  <2>4. Up(k) \in Nat /\ Up(k) # 0 /\ Up(k) < k /\ k \in {2 * Up(k), 2 * Up(k) + 1}
    <3>1. Up(k) \in Nat /\ Up(k) < k /\ (k = 2 * Up(k) \/ k = 2 * Up(k) + 1)
      BY <2>2, UpFacts
    <3> QED  BY <2>2, <2>3, <3>1
  <2>5. at[Up(k)] # NULL
    BY <2>2, <2>4, UpInTree
  <2>6. Good(Up(k))
    BY <2>1, <2>4, <2>5
  <2>7. /\ h.children[at[Up(k)]] \in Nat /\ h.children[at[k]] \in Nat
        /\ h.children[at[k]] < h.children[at[Up(k)]]
    BY <2>2, <2>4, <2>5, ChildCountsLess
  <2>8. h.children[at[Up(k)]] <= h.children[at[1]]
    BY <2>6, <2>7
  <2> QED  BY <2>2, <2>6, <2>7, <2>8
<1> QED  BY <1>1

-----------------------------------------------------------------------------
(* The order.                                                              *)

Edge(at, key, k) == at[k] # NULL /\ at[Up(k)] # NULL => key[at[Up(k)]] <= key[at[k]]

Ordered(at, key) == \A k \in Nat : Edge(at, key, k)

(* All that is wrong may be between the node of i and those below it.      *)
OrderedAbove(at, key, i) ==
  /\ \A k \in Nat : Up(k) # i => Edge(at, key, k)
  /\ \A k \in Nat : Up(k) = i /\ at[k] # NULL /\ at[Up(i)] # NULL => key[at[Up(i)]] <= key[at[k]]

(* And between it and the one above it.                                    *)
OrderedAround(at, key, i) ==
  /\ \A k \in Nat : Up(k) # i /\ k # i => Edge(at, key, k)
  /\ \A k \in Nat : Up(k) = i /\ at[k] # NULL /\ at[Up(i)] # NULL => key[at[Up(i)]] <= key[at[k]]

(* gp_heap_bubble_down() swaps with the smaller child.                     *)
LEMMA SwapDownOrder ==
  ASSUME NEW at, Tree(at), NEW key \in [Nodes -> Int], NEW i \in Nat \ {0},
         NEW j \in {2 * i, 2 * i + 1}, at[i] # NULL, at[j] # NULL,
         key[at[j]] <= key[at[i]],
         at[Sibling(i, j)] # NULL => key[at[j]] <= key[at[Sibling(i, j)]],
         OrderedAbove(at, key, i)
  PROVE  OrderedAbove(Exchange(at, i, j), key, j)
<1> DEFINE a2 == Exchange(at, i, j)
           x == at[i]
           c == at[j]
           s == Sibling(i, j)
<1>1. j \in Nat /\ i # j /\ Up(j) = i /\ Up(i) \in Nat /\ Up(i) # i /\ Up(i) # j /\ s \in Nat
  <2>1. Up(2 * i) = i /\ Up(2 * i + 1) = i /\ Up(i) \in Nat /\ Up(i) < i
    BY UpFacts
  <2> QED  BY <2>1 DEF Sibling
<1>2. /\ a2[i] = c /\ a2[j] = x
      /\ \A k \in Nat : k # i /\ k # j => a2[k] = at[k]
      /\ \A k \in Nat : a2[k] = NULL <=> at[k] = NULL
  BY <1>1, ExchangeFacts
<1>3. \A k \in Nat : at[k] # NULL => key[at[k]] \in Int
  BY TreeFacts
<1>4. \A k \in Nat : Up(k) = i => k = j \/ k = s
  <2>1. \A k \in Nat : k = 2 * Up(k) \/ k = 2 * Up(k) + 1
    BY UpFacts
  <2> QED  BY <2>1 DEF Sibling
<1>5. /\ \A k \in Nat : Up(k) # i => Edge(at, key, k)
      /\ \A k \in Nat : Up(k) = i /\ at[k] # NULL /\ at[Up(i)] # NULL => key[at[Up(i)]] <= key[at[k]]
  BY DEF OrderedAbove
<1>6. /\ x # NULL /\ c # NULL /\ key[c] <= key[x]
      /\ at[s] # NULL => key[c] <= key[at[s]]
  OBVIOUS
<1> HIDE DEF a2, x, c, s
<1>7. ASSUME NEW k \in Nat, Up(k) # j PROVE Edge(a2, key, k)
  <2>1. Up(k) \in Nat
    BY UpFacts
  <2>2. CASE k = i
    BY <1>1, <1>2, <1>5, <2>2 DEF Edge, c
  <2>3. CASE Up(k) = i /\ k = j
    BY <1>2, <1>6, <2>3 DEF Edge
  <2>4. CASE Up(k) = i /\ k = s /\ k # j
    BY <1>1, <1>2, <1>6, <2>4 DEF Edge
  <2>5. CASE Up(k) # i /\ k # i
    <3>1. a2[Up(k)] = at[Up(k)] /\ a2[k] = at[k]
      BY <1>1, <1>2, <1>7, <2>1, <2>5
    <3> QED  BY <1>5, <2>5, <3>1 DEF Edge
  <2> QED  BY <1>4, <2>2, <2>3, <2>4, <2>5
<1>8. ASSUME NEW k \in Nat, Up(k) = j, a2[k] # NULL, a2[Up(j)] # NULL
      PROVE  key[a2[Up(j)]] <= key[a2[k]]
  <2>1. a2[Up(j)] = at[j]
    BY <1>1, <1>2 DEF c
  <2>2. k # i /\ k # j
    BY <1>1, <1>8
  <2>3. a2[k] = at[k]
    BY <1>2, <2>2
  <2>4. Edge(at, key, k)
    BY <1>1, <1>5, <1>8
  <2> QED  BY <1>8, <2>1, <2>3, <2>4 DEF Edge
<1>9. OrderedAbove(a2, key, j)
  BY <1>7, <1>8 DEF OrderedAbove
<1> QED  BY <1>9 DEF a2

(* gp_heap_bubble_up() swaps with the one above if that is larger.         *)
LEMMA SwapUpOrder ==
  ASSUME NEW at, Tree(at), NEW key \in [Nodes -> Int], NEW i \in Nat \ {0},
         NEW j \in {2 * i, 2 * i + 1}, at[i] # NULL, at[j] # NULL,
         key[at[j]] <= key[at[i]], OrderedAround(at, key, j)
  PROVE  OrderedAround(Exchange(at, i, j), key, i)
<1> DEFINE a2 == Exchange(at, i, j)
           x == at[i]
           c == at[j]
<1>1. j \in Nat /\ i # j /\ Up(j) = i /\ Up(i) \in Nat /\ Up(i) # i /\ Up(i) # j
  <2>1. Up(2 * i) = i /\ Up(2 * i + 1) = i /\ Up(i) \in Nat /\ Up(i) < i
    BY UpFacts
  <2> QED  BY <2>1
<1>2. /\ a2[i] = c /\ a2[j] = x
      /\ \A k \in Nat : k # i /\ k # j => a2[k] = at[k]
      /\ \A k \in Nat : a2[k] = NULL <=> at[k] = NULL
  BY <1>1, ExchangeFacts
<1>3. \A k \in Nat : at[k] # NULL => key[at[k]] \in Int
  BY TreeFacts
<1>5. /\ \A k \in Nat : Up(k) # j /\ k # j => Edge(at, key, k)
      /\ \A k \in Nat : Up(k) = j /\ at[k] # NULL /\ at[Up(j)] # NULL => key[at[Up(j)]] <= key[at[k]]
  BY DEF OrderedAround
<1>6. x # NULL /\ c # NULL /\ key[c] <= key[x] /\ at[i] = x /\ at[j] = c
  OBVIOUS
<1> HIDE DEF a2, x, c
<1>7. ASSUME NEW k \in Nat, Up(k) # i, k # i PROVE Edge(a2, key, k)
  <2>1. Up(k) \in Nat
    BY UpFacts
  <2>2. k # j
    BY <1>1, <1>7
  <2>3. a2[k] = at[k]
    BY <1>2, <1>7, <2>2
  <2>4. CASE Up(k) = j
    BY <1>1, <1>2, <1>5, <1>6, <2>3, <2>4 DEF Edge
  <2>5. CASE Up(k) # j
    <3>1. a2[Up(k)] = at[Up(k)]
      BY <1>2, <1>7, <2>1, <2>5
    <3> QED  BY <1>5, <2>2, <2>3, <2>5, <3>1 DEF Edge
  <2> QED  BY <2>4, <2>5
<1>8. ASSUME NEW k \in Nat, Up(k) = i, a2[k] # NULL, a2[Up(i)] # NULL
      PROVE  key[a2[Up(i)]] <= key[a2[k]]
  <2>1. a2[Up(i)] = at[Up(i)]
    BY <1>1, <1>2
  <2>2. Edge(at, key, i)
    BY <1>1, <1>5
  <2>3. key[at[Up(i)]] <= key[x]
    BY <1>6, <1>8, <2>1, <2>2 DEF Edge
  <2>4. CASE k = j
    BY <1>2, <2>1, <2>3, <2>4
  <2>5. CASE k # j
    <3>1. a2[k] = at[k] /\ Up(k) # j /\ k # i
      BY <1>1, <1>2, <1>8, <2>5
    <3>2. key[x] <= key[at[k]]
      BY <1>5, <1>6, <1>8, <2>5, <3>1 DEF Edge
    <3>3. key[at[Up(i)]] \in Int /\ key[x] \in Int /\ key[at[k]] \in Int
      BY <1>1, <1>3, <1>6, <1>8, <2>1, <3>1
    <3> QED  BY <2>1, <2>3, <3>1, <3>2, <3>3
  <2> QED  BY <2>4, <2>5
<1>9. OrderedAround(a2, key, i)
  BY <1>7, <1>8 DEF OrderedAround
<1> QED  BY <1>9 DEF a2
-----------------------------------------------------------------------------
(* The recursive functions are defined for every heap, well linked or not. *)

(* Recursion by depth: f[d] is got from f[d - 1].                          *)
Recursion(f, S, start, F, k) ==
  /\ f \in [0 .. k -> S]
  /\ \A d \in 0 .. k : f[d] = IF d = 0 THEN start ELSE F[f[d - 1]]
  /\ \A d \in 0 .. k : d # 0 => f[d - 1] \in S

LEMMA ByDepth ==
  ASSUME NEW S, NEW start \in S, NEW k \in Nat, NEW F \in [S -> S]
  PROVE  \E f : Recursion(f, S, start, F, k)
<1>1. PICK f \in [0 .. k -> S] : Iteration(f, start, F, k)
  BY IterationExists
<1>2. \A d \in 0 .. k : d # 0 => d \in 1 .. k /\ d - 1 \in 0 .. k
  OBVIOUS
<1>3. Recursion(f, S, start, F, k)
  BY <1>1, <1>2 DEF Iteration, Recursion
<1> QED  BY <1>3

(* What holds at depth 0 and from one depth to the next holds at all.      *)
LEMMA DepthInduction ==
  ASSUME NEW k \in Nat, NEW G, 0 \in G, \A d \in 1 .. k : d - 1 \in G => d \in G
  PROVE  \A d \in 0 .. k : d \in G
<1> DEFINE Bad == {d \in 0 .. k : d \notin G}
<1>1. Bad = {}
  <2> SUFFICES ASSUME Bad # {} PROVE FALSE
    OBVIOUS
  <2>1. PICK d \in Bad : \A y \in Bad : d =< y
    <3>1. Bad \subseteq Nat
      OBVIOUS
    <3> QED  BY <3>1, SmallestExists
  <2>2. d \in 1 .. k /\ d - 1 \in 0 .. k
    BY <2>1
  <2>3. d - 1 \in G
    BY <2>1, <2>2
  <2> QED  BY <2>1, <2>2, <2>3
<1> QED  BY <1>1

LEMMA FixUpTyped ==
  ASSUME NEW h \in Heaps, NEW up \in Ptr, NEW x \in Nodes, NEW rep \in Ptr
  PROVE  gp_heap_fix_up(h, up, x, rep) \in Heaps
<1>1. CASE up # NULL => h.left[up] = x \/ h.right[up] = x
  <2>1. FixedUp(h, gp_heap_fix_up(h, up, x, rep), up, x, rep)
    BY <1>1, FixUpFields
  <2> QED  BY <2>1 DEF FixedUp
<1>2. CASE ~ (up # NULL => h.left[up] = x \/ h.right[up] = x)
  <2>1. gp_heap_fix_up(h, up, x, rep) = [h EXCEPT !.bug = TRUE]
    BY <1>2 DEF gp_heap_fix_up
  <2>2. [h EXCEPT !.bug = TRUE] \in Heaps
    BY DEF Heaps
  <2> QED  BY <2>1, <2>2
<1> QED  BY <1>1, <1>2

Sides == {"left", "right"}

LEMMA SwapTyped ==
  ASSUME NEW h \in Heaps, NEW x \in Nodes, NEW side \in Sides, h[side][x] \in Nodes
  PROVE  gp_heap_swap(h, x, side) \in Heaps
<1> DEFINE c == h[side][x]
           o == Other(side)
           f == gp_heap_fix_up(h, h.up[x], x, c)
           up == [n \in Nodes |-> IF n = c THEN h.up[x] ELSE IF n \in {x, h[o][x]} THEN c
              ELSE IF n \in {h.left[c], h.right[c]} THEN x ELSE f.up[n]]
           mine == [n \in Nodes |-> IF n = x THEN h[side][c] ELSE IF n = c THEN x ELSE f[side][n]]
           his == [n \in Nodes |-> IF n = x THEN h[o][c] ELSE IF n = c THEN h[o][x] ELSE f[o][n]]
           count == [f.children EXCEPT ![x] = h.children[c], ![c] = h.children[x]]
<1>1. h.up[x] \in Ptr /\ c \in Ptr /\ x \in Ptr
  BY HeapFields DEF Ptr
<1>2. f \in Heaps
  BY <1>1, FixUpTyped
<1>3. o \in Sides /\ (side = "left" => o = "right") /\ (side = "right" => o = "left")
  BY DEF Other, Sides
<1>4. gp_heap_swap(h, x, side) =
        [f EXCEPT !.up = up, ![side] = mine, ![o] = his, !.children = count]
  BY DEF gp_heap_swap
<1>5. h[side] \in [Nodes -> Ptr] /\ h[o] \in [Nodes -> Ptr]
      /\ f[side] \in [Nodes -> Ptr] /\ f[o] \in [Nodes -> Ptr]
  BY <1>2, <1>3, HeapFields DEF Sides
<1>6. up \in [Nodes -> Ptr] /\ mine \in [Nodes -> Ptr] /\ his \in [Nodes -> Ptr]
  BY <1>1, <1>2, <1>5, HeapFields
<1>7. count \in [Nodes -> Int]
  BY <1>2, HeapFields
<1> HIDE DEF c, o, f, up, mine, his, count
<1>8. CASE side = "left"
  BY <1>2, <1>3, <1>4, <1>6, <1>7, <1>8 DEF Heaps
<1>9. CASE side = "right"
  BY <1>2, <1>3, <1>4, <1>6, <1>7, <1>9 DEF Heaps
<1> QED  BY <1>8, <1>9 DEF Sides

(* A pointer to a child, written.                                          *)
LEMMA LinkSet ==
  ASSUME NEW h \in Heaps, NEW side \in Sides, NEW n \in Nodes, NEW v \in Ptr
  PROVE  /\ [h EXCEPT ![side][n] = v] \in Heaps
         /\ h[side][n] = v => [h EXCEPT ![side][n] = v] = h
<1>1. CASE side = "left"
  <2>1. h.left[n] = v => [h.left EXCEPT ![n] = v] = h.left
    BY HeapFields
  <2>2. [h EXCEPT !.left[n] = v] = [h EXCEPT !.left = [h.left EXCEPT ![n] = v]]
    BY DEF Heaps
  <2>3. [h.left EXCEPT ![n] = v] \in [Nodes -> Ptr]
    BY HeapFields
  <2> QED  BY <1>1, <2>1, <2>2, <2>3 DEF Heaps
<1>2. CASE side = "right"
  <2>1. h.right[n] = v => [h.right EXCEPT ![n] = v] = h.right
    BY HeapFields
  <2>2. [h EXCEPT !.right[n] = v] = [h EXCEPT !.right = [h.right EXCEPT ![n] = v]]
    BY DEF Heaps
  <2>3. [h.right EXCEPT ![n] = v] \in [Nodes -> Ptr]
    BY HeapFields
  <2> QED  BY <1>2, <2>1, <2>2, <2>3 DEF Heaps
<1> QED  BY <1>1, <1>2 DEF Sides

Results == [Heaps -> [top : Ptr, h : Heaps]]

LEMMA BubbleDownTyped ==
  ASSUME NEW key, NEW x \in Nodes, NEW rec \in Results
  PROVE  BubbleDownBody(key, x, rec) \in Results
<1> DEFINE Down(h, side, c) ==
             LET sub == rec[gp_heap_swap(h, x, side)] IN
             [top |-> c, h |-> [sub.h EXCEPT ![side][c] = sub.top]]
<1>1. ASSUME NEW h \in Heaps, NEW side \in Sides, h[side][x] # NULL
      PROVE  Down(h, side, h[side][x]) \in [top : Ptr, h : Heaps]
  <2>1. h[side][x] \in Ptr
    BY HeapFields DEF Sides
  <2>2. h[side][x] \in Nodes
    BY <1>1, <2>1 DEF Ptr
  <2>3. gp_heap_swap(h, x, side) \in Heaps
    BY <2>2, SwapTyped
  <2> DEFINE sub == rec[gp_heap_swap(h, x, side)]
  <2>4. sub.top \in Ptr /\ sub.h \in Heaps
    BY <2>3 DEF Results
  <2> HIDE DEF sub
  <2>5. [sub.h EXCEPT ![side][h[side][x]] = sub.top] \in Heaps
    BY <2>2, <2>4, LinkSet
  <2> QED  BY <2>1, <2>5 DEF sub
<1>2. ASSUME NEW h \in Heaps
      PROVE  /\ h.right[x] # NULL => Down(h, "right", h.right[x]) \in [top : Ptr, h : Heaps]
             /\ h.left[x] # NULL => Down(h, "left", h.left[x]) \in [top : Ptr, h : Heaps]
  BY <1>1 DEF Sides
<1>3. x \in Ptr
  BY DEF Ptr
<1>4. BubbleDownBody(key, x, rec) =
        [h \in Heaps |->
           LET l == h.left[x]
               r == IF h.right[x] # NULL /\ l # NULL /\ cmp(key, h.right[x], l)
                    THEN NULL ELSE h.right[x] IN
           IF r # NULL /\ cmp(key, x, r) THEN Down(h, "right", r)
           ELSE IF l # NULL /\ cmp(key, x, l) THEN Down(h, "left", l)
           ELSE [top |-> x, h |-> h]]
  BY DEF BubbleDownBody
<1> HIDE DEF Down
<1> QED  BY <1>2, <1>3, <1>4 DEF Results

LEMMA BubbleDownUnfolds ==
  ASSUME NEW key, NEW x \in Nodes, NEW depth \in Nat
  PROVE  /\ BubbleDown(key, x, depth)[0] = Stays(x)
         /\ \A d \in 1 .. depth :
              BubbleDown(key, x, depth)[d] = BubbleDownBody(key, x, BubbleDown(key, x, depth)[d - 1])
<1> DEFINE F == [g \in Results |-> BubbleDownBody(key, x, g)]
           down == BubbleDown(key, x, depth)
<1>1. F \in [Results -> Results]
  BY BubbleDownTyped
<1>2. Stays(x) \in Results
  BY DEF Stays, Results, Ptr
<1>3. \A g \in Results : F[g] = BubbleDownBody(key, x, g)
  OBVIOUS
<1> HIDE DEF F
<1>4. PICK f : Recursion(f, Results, Stays(x), F, depth)
  BY <1>1, <1>2, ByDepth
<1>5. f = [d \in 0 .. depth |-> IF d = 0 THEN Stays(x) ELSE BubbleDownBody(key, x, f[d - 1])]
  BY <1>3, <1>4 DEF Recursion
<1>6. down = [d \in 0 .. depth |-> IF d = 0 THEN Stays(x) ELSE BubbleDownBody(key, x, down[d - 1])]
  BY <1>5 DEF BubbleDown
<1> HIDE DEF down
<1>7. down[0] = Stays(x) /\ \A d \in 1 .. depth : down[d] = BubbleDownBody(key, x, down[d - 1])
  BY <1>6
<1> QED  BY <1>7 DEF down
-----------------------------------------------------------------------------
(* Powers of two.                                                          *)

(* Pow2() as the recursion that it is.                                     *)
LEMMA Pow2Unfolds ==
  /\ Pow2(0) = 1
  /\ \A d \in Nat : Pow2(d) \in Nat /\ Pow2(d + 1) = 2 * Pow2(d)
<1> DEFINE Is(f, n) == f = [i \in 0 .. n |-> IF i = 0 THEN 1 ELSE 2 * f[i - 1]]
           pow(n) == CHOOSE f : Is(f, n)
           F == [x \in Nat |-> 2 * x]
<1>1. \A n \in Nat : Pow2(n) = pow(n)[n]
  BY DEF Pow2
<1>2. ASSUME NEW n \in Nat
      PROVE  /\ pow(n)[0] = 1
             /\ \A i \in 1 .. n : pow(n)[i] = 2 * pow(n)[i - 1]
  <2>1. F \in [Nat -> Nat] /\ \A x \in Nat : F[x] = 2 * x
    OBVIOUS
  <2> HIDE DEF F
  <2>2. PICK f \in [0 .. n -> Nat] : Iteration(f, 1, F, n)
    BY <2>1, IterationExists
  <2>3. f[0] = 1 /\ \A i \in 1 .. n : f[i] = 2 * f[i - 1]
    <3>1. f[0] = 1 /\ \A i \in 1 .. n : f[i] = F[f[i - 1]]
      BY <2>2 DEF Iteration
    <3>2. \A i \in 1 .. n : f[i - 1] \in Nat
      OBVIOUS
    <3> QED  BY <2>1, <3>1, <3>2
  <2>4. Is(f, n)
    <3>1. \A i \in 0 .. n : f[i] = IF i = 0 THEN 1 ELSE 2 * f[i - 1]
      <4> SUFFICES ASSUME NEW i \in 0 .. n PROVE f[i] = IF i = 0 THEN 1 ELSE 2 * f[i - 1]
        OBVIOUS
      <4>1. i # 0 => i \in 1 .. n
        OBVIOUS
      <4> QED  BY <2>3, <4>1
    <3> QED  BY <3>1
  <2>5. Is(pow(n), n)
    BY <2>4
  <2> DEFINE p == pow(n)
  <2> HIDE DEF p, pow
  <2>6. p = [i \in 0 .. n |-> IF i = 0 THEN 1 ELSE 2 * p[i - 1]]
    BY <2>5 DEF p
  <2>7. 0 \in 0 .. n /\ \A i \in 1 .. n : i \in 0 .. n /\ i # 0
    OBVIOUS
  <2>8. p[0] = 1 /\ \A i \in 1 .. n : p[i] = 2 * p[i - 1]
    BY <2>6, <2>7
  <2> QED  BY <2>8 DEF p
<1> HIDE DEF pow, F
<1>3. ASSUME NEW m \in Nat, NEW n \in Nat, m <= n
      PROVE  pow(n)[m] \in Nat /\ pow(n)[m] = pow(m)[m]
  <2> DEFINE G == {i \in 0 .. m : pow(n)[i] \in Nat /\ pow(n)[i] = pow(m)[i]}
  <2>1. 0 \in G
    BY <1>2
  <2>2. ASSUME NEW i \in 1 .. m, i - 1 \in G PROVE i \in G
    <3>1. i \in 1 .. n
      BY <1>3
    <3>2. pow(n)[i] = 2 * pow(n)[i - 1] /\ pow(m)[i] = 2 * pow(m)[i - 1]
      BY <1>2, <3>1
    <3> QED  BY <2>2, <3>2
  <2> HIDE DEF G
  <2>3. m \in G
    BY <2>1, <2>2, DepthInduction
  <2> QED  BY <2>3 DEF G
<1>4. ASSUME NEW d \in Nat PROVE Pow2(d) \in Nat /\ Pow2(d + 1) = 2 * Pow2(d)
  <2>1. d + 1 \in Nat /\ d + 1 \in 1 .. d + 1 /\ (d + 1) - 1 = d /\ d <= d + 1 /\ d <= d
    OBVIOUS
  <2>2. pow(d + 1)[d + 1] = 2 * pow(d + 1)[d]
    BY <1>2, <2>1
  <2>3. pow(d + 1)[d] = pow(d)[d] /\ pow(d)[d] \in Nat
    BY <1>3, <2>1
  <2> QED  BY <1>1, <2>1, <2>2, <2>3
<1>5. Pow2(0) = 1
  BY <1>1, <1>2
<1> QED  BY <1>4, <1>5

(* Powers of two grow, and there is none between one and the next.         *)
LEMMA Pow2Grows ==
  /\ \A d \in Nat : Pow2(d) \in Nat /\ Pow2(d) >= d + 1
  /\ \A d, e \in Nat : e <= d => Pow2(e) <= Pow2(d)
<1>1. ASSUME NEW d \in Nat PROVE Pow2(d) >= d + 1
  <2> DEFINE G == {i \in 0 .. d : Pow2(i) >= i + 1}
  <2>1. 0 \in G
    BY Pow2Unfolds
  <2>2. ASSUME NEW i \in 1 .. d, i - 1 \in G PROVE i \in G
    <3>1. Pow2(i - 1) >= i /\ i - 1 \in Nat /\ (i - 1) + 1 = i
      BY <2>2
    <3>2. Pow2(i) = 2 * Pow2(i - 1) /\ Pow2(i - 1) \in Nat
      BY <3>1, Pow2Unfolds
    <3>3. Pow2(i) >= i + 1
      BY <3>1, <3>2
    <3> QED  BY <3>3
  <2> HIDE DEF G
  <2>3. d \in G
    BY <2>1, <2>2, DepthInduction
  <2> QED  BY <2>3 DEF G
<1>2. ASSUME NEW d \in Nat, NEW e \in Nat, e <= d PROVE Pow2(e) <= Pow2(d)
  <2> DEFINE k == d - e
             G == {i \in 0 .. k : Pow2(e) <= Pow2(e + i)}
  <2>1. k \in Nat
    BY <1>2
  <2>2. 0 \in G
    <3>1. e + 0 = e /\ Pow2(e) \in Nat
      BY Pow2Unfolds
    <3> QED  BY <2>1, <3>1
  <2>3. ASSUME NEW i \in 1 .. k, i - 1 \in G PROVE i \in G
    <3>1. Pow2(e) <= Pow2(e + (i - 1)) /\ e + (i - 1) \in Nat /\ (e + (i - 1)) + 1 = e + i
      BY <2>1, <2>3
    <3>2. Pow2(e + i) = 2 * Pow2(e + (i - 1)) /\ Pow2(e + (i - 1)) \in Nat /\ Pow2(e) \in Nat
      BY <3>1, Pow2Unfolds
    <3>3. Pow2(e) <= Pow2(e + i)
      BY <3>1, <3>2
    <3> QED  BY <3>3
  <2> HIDE DEF G, k
  <2>4. k \in G
    BY <2>1, <2>2, <2>3, DepthInduction
  <2>5. e + k = d
    BY DEF k
  <2> QED  BY <2>4, <2>5 DEF G
<1> QED  BY <1>1, <1>2, Pow2Unfolds

(* A full subtree has one node less than a power of two.                   *)
LEMMA BalancedIsFull ==
  ASSUME NEW size \in Nat, NEW d \in Nat
  PROVE  /\ size = 2 * Pow2(d) - 1 => gp_heap_well_balanced(size - 1)
         /\ Pow2(d) - 1 < size /\ size < 2 * Pow2(d) - 1 => ~ gp_heap_well_balanced(size - 1)
<1>1. Pow2(d) \in Nat /\ Pow2(d + 1) = 2 * Pow2(d) /\ Pow2(d + 1) >= d + 2
  <2>1. d + 1 \in Nat /\ (d + 1) + 1 = d + 2
    OBVIOUS
  <2> QED  BY <2>1, Pow2Unfolds, Pow2Grows
<1>2. (size - 1) + 1 = size /\ (size - 1) + 2 = size + 1
  OBVIOUS
<1>3. gp_heap_well_balanced(size - 1) <=> \E n \in 1 .. size : size + 1 = Pow2(n)
  BY <1>2 DEF gp_heap_well_balanced
<1>4. ASSUME size = 2 * Pow2(d) - 1 PROVE gp_heap_well_balanced(size - 1)
  <2>1. d + 1 \in 1 .. size /\ size + 1 = Pow2(d + 1)
    BY <1>1, <1>4
  <2> QED  BY <1>3, <2>1
<1>5. ASSUME Pow2(d) - 1 < size, size < 2 * Pow2(d) - 1, NEW n \in 1 .. size, size + 1 = Pow2(n)
      PROVE  FALSE
  <2>1. CASE n <= d
    <3>1. Pow2(n) <= Pow2(d)
      BY <2>1, Pow2Grows
    <3> QED  BY <1>1, <1>5, <3>1
  <2>2. CASE d + 1 <= n
    <3>1. Pow2(d + 1) <= Pow2(n) /\ Pow2(n) \in Nat
      BY <2>2, Pow2Grows
    <3> QED  BY <1>1, <1>5, <3>1
  <2> QED  BY <2>1, <2>2
<1> QED  BY <1>3, <1>4, <1>5

-----------------------------------------------------------------------------
(* Complete trees.                                                         *)

(* The levels are filled from the left: the nodes are at 1 to n.           *)
Filled(at, n) == \A k \in Nat : at[k] # NULL <=> k \in 1 .. n

(* The leftmost of the Pow2(d) positions d levels below i.                 *)
First(i, d) == i * Pow2(d)

(* Position m is i or below it.                                            *)
Above(i, m) == \E d \in Nat : First(i, d) <= m /\ m < First(i, d) + Pow2(d)

LEMMA Multiples ==
  ASSUME NEW i \in Nat, NEW p \in Nat
  PROVE  /\ i * p \in Nat /\ i * (2 * p) = 2 * (i * p)
         /\ (2 * i) * p = 2 * (i * p) /\ (2 * i + 1) * p = 2 * (i * p) + p
         /\ i # 0 => i * p >= p
         /\ p # 0 => i * p >= i
OBVIOUS

LEMMA FirstFacts ==
  ASSUME NEW i \in Nat, NEW d \in Nat
  PROVE  /\ First(i, d) \in Nat /\ Pow2(d) \in Nat \ {0} /\ First(i, 0) = i /\ Pow2(0) = 1
         /\ First(i, d + 1) = 2 * First(i, d) /\ Pow2(d + 1) = 2 * Pow2(d)
         /\ First(2 * i, d) = 2 * First(i, d) /\ First(2 * i + 1, d) = 2 * First(i, d) + Pow2(d)
         /\ i # 0 => First(i, d) >= Pow2(d)
         /\ First(i, d) >= i
<1> DEFINE p == Pow2(d)
<1>1. p \in Nat /\ p >= d + 1 /\ Pow2(d + 1) = 2 * p /\ Pow2(0) = 1
  BY Pow2Unfolds, Pow2Grows
<1>2. First(i, d) = i * p /\ First(2 * i, d) = (2 * i) * p /\ First(2 * i + 1, d) = (2 * i + 1) * p
  BY DEF First
<1>3. First(i, d + 1) = i * (2 * p) /\ First(i, 0) = i
  BY <1>1 DEF First
<1> HIDE DEF p
<1>4. p # 0 /\ p \in Nat
  BY <1>1
<1> QED  BY <1>1, <1>2, <1>3, <1>4, Multiples DEF p

(* What is below a node whose subtree has d levels that are full and       *)
(* perhaps one that is not, that begins at lo and has w places.            *)
LevelSize(n, lo, w) ==
  w - 1 + (IF n + 1 <= lo THEN 0 ELSE IF lo + w <= n + 1 THEN w ELSE n + 1 - lo)

(* The node that is counted wrong is not at or behind a position.          *)
OverBefore(at, low, over) == \A k \in Nat : low <= k /\ at[k] # NULL => at[k] # over

LEMMA LevelSizes ==
  ASSUME NEW h, NEW at, NEW n \in Nat, Filled(at, n), NEW over, Counted(h, at, over),
         NEW low \in Nat \ {0}, OverBefore(at, low, over),
         NEW d \in Nat, NEW i \in Nat, low <= i,
         First(i, d) + Pow2(d) <= 2 * n + 2, n < 2 * First(i, d)
  PROVE  gp_heap_size(h, at[i]) = LevelSize(n, First(i, d), Pow2(d))
<1> DEFINE Right(j, e) == First(j, e) + Pow2(e) <= 2 * n + 2 /\ n < 2 * First(j, e)
                            => gp_heap_size(h, at[j]) = LevelSize(n, First(j, e), Pow2(e))
           G == {e \in 0 .. d : \A j \in Nat : low <= j => Right(j, e)}
<1>1. ASSUME NEW j \in Nat, low <= j
      PROVE  gp_heap_size(h, at[j]) =
               IF j <= n THEN 1 + gp_heap_size(h, at[2 * j]) + gp_heap_size(h, at[2 * j + 1]) ELSE 0
  <2>1. at[j] # NULL <=> j <= n
    BY <1>1 DEF Filled
  <2>2. CASE j <= n
    <3>1. /\ h.children[at[j]] \in Nat
          /\ h.children[at[j]] = gp_heap_size(h, at[2 * j]) + gp_heap_size(h, at[2 * j + 1]) + 0
      BY <1>1, <2>1, <2>2 DEF Counted, OverBefore
    <3>2. gp_heap_size(h, at[2 * j]) \in Nat /\ gp_heap_size(h, at[2 * j + 1]) \in Nat
      <4>1. \A k \in Nat : gp_heap_size(h, at[k]) \in Nat
        BY DEF Counted, gp_heap_size
      <4> QED  BY <4>1
    <3> QED  BY <2>1, <2>2, <3>1, <3>2 DEF gp_heap_size
  <2> QED  BY <2>1, <2>2 DEF gp_heap_size
<1>2. 0 \in G
  <2> SUFFICES ASSUME NEW j \in Nat, low <= j, First(j, 0) + Pow2(0) <= 2 * n + 2, n < 2 * First(j, 0)
               PROVE  gp_heap_size(h, at[j]) = LevelSize(n, First(j, 0), Pow2(0))
    OBVIOUS
  <2>1. First(j, 0) = j /\ Pow2(0) = 1 /\ n < 2 * j /\ j # 0
    <3>1. First(j, 0) = j /\ Pow2(0) = 1
      BY FirstFacts
    <3> QED  BY <3>1
  <2>2. gp_heap_size(h, at[2 * j]) = 0 /\ gp_heap_size(h, at[2 * j + 1]) = 0
    BY <1>1, <2>1
  <2>3. gp_heap_size(h, at[j]) = IF j <= n THEN 1 ELSE 0
    BY <1>1, <2>2
  <2> QED  BY <2>1, <2>3 DEF LevelSize
<1>3. ASSUME NEW e \in 1 .. d, e - 1 \in G PROVE e \in G
  <2> SUFFICES ASSUME NEW j \in Nat, low <= j, First(j, e) + Pow2(e) <= 2 * n + 2, n < 2 * First(j, e)
               PROVE  gp_heap_size(h, at[j]) = LevelSize(n, First(j, e), Pow2(e))
    OBVIOUS
  <2> DEFINE L == First(j, e)
             w == Pow2(e - 1)
  <2>1. e - 1 \in Nat /\ (e - 1) + 1 = e
    OBVIOUS
  <2>2. L = 2 * First(j, e - 1) /\ Pow2(e) = 2 * w /\ w \in Nat \ {0} /\ L \in Nat /\ j <= L
    <3>1. /\ First(j, e) = 2 * First(j, e - 1) /\ Pow2(e) = 2 * w /\ w \in Nat \ {0}
          /\ First(j, e - 1) \in Nat /\ First(j, e - 1) >= j
      <4> DEFINE k == e - 1
      <4>1. k \in Nat /\ k + 1 = e
        BY <2>1
      <4> HIDE DEF k
      <4>2. /\ First(j, k + 1) = 2 * First(j, k) /\ Pow2(k + 1) = 2 * Pow2(k) /\ Pow2(k) \in Nat \ {0}
            /\ First(j, k) \in Nat /\ First(j, k) >= j
        BY <4>1, FirstFacts
      <4>3. Pow2(k) = w
        BY DEF k
      <4> HIDE DEF w
      <4> QED  BY <4>1, <4>2, <4>3 DEF k
    <3> QED  BY <3>1
  <2>3. First(2 * j, e - 1) = L /\ First(2 * j + 1, e - 1) = L + w
    BY <2>1, <2>2, FirstFacts
  <2> HIDE DEF L, w
  <2>4. L + 2 * w <= 2 * n + 2 /\ n < 2 * L
    BY <2>2 DEF L
  <2>5. gp_heap_size(h, at[2 * j]) = LevelSize(n, L, w)
    <3>1. Right(2 * j, e - 1)
      BY <1>3
    <3>2. L + w <= 2 * n + 2 /\ n < 2 * L
      BY <2>2, <2>4
    <3> QED  BY <2>3, <3>1, <3>2 DEF w
  <2>6. gp_heap_size(h, at[2 * j + 1]) = LevelSize(n, L + w, w)
    <3>1. Right(2 * j + 1, e - 1)
      BY <1>3
    <3>2. (L + w) + w <= 2 * n + 2 /\ n < 2 * (L + w)
      BY <2>2, <2>4
    <3> QED  BY <2>3, <3>1, <3>2 DEF w
  <2>7. j <= n
    <3>1. L = 2 * First(j, e - 1) /\ First(j, e - 1) >= j /\ First(j, e - 1) \in Nat
      BY <2>1, <2>2, FirstFacts
    <3> QED  BY <2>2, <2>4, <3>1
  <2>8. gp_heap_size(h, at[j]) = 1 + LevelSize(n, L, w) + LevelSize(n, L + w, w)
    BY <1>1, <2>5, <2>6, <2>7
  <2>9. 1 + LevelSize(n, L, w) + LevelSize(n, L + w, w) = LevelSize(n, L, 2 * w)
    BY <2>2 DEF LevelSize
  <2> QED  BY <2>2, <2>8, <2>9 DEF L
<1> HIDE DEF G
<1>4. d \in G
  BY <1>2, <1>3, DepthInduction
<1> QED  BY <1>4 DEF G

(* A position below i is below its left child or its right one.            *)
LEMMA AboveSides ==
  ASSUME NEW i \in Nat \ {0}, NEW m \in Nat, Above(i, m)
  PROVE  \/ m = i
         \/ \E d \in Nat : \E lo \in Nat : \E w \in Nat \ {0} :
              /\ w = Pow2(d) /\ lo = First(2 * i, d) /\ lo + w = First(2 * i + 1, d)
              /\ lo <= m /\ m < lo + 2 * w /\ 2 * w <= lo /\ 2 * i <= lo
<1>1. PICK e \in Nat : First(i, e) <= m /\ m < First(i, e) + Pow2(e)
  BY DEF Above
<1>2. CASE e = 0
  <2>1. First(i, 0) = i /\ Pow2(0) = 1
    BY FirstFacts
  <2> QED  BY <1>1, <1>2, <2>1
<1>3. CASE e # 0
  <2> DEFINE d == e - 1
             lo == 2 * First(i, d)
             w == Pow2(d)
  <2>1. d \in Nat /\ d + 1 = e
    BY <1>3
  <2> HIDE DEF d
  <2>2. /\ First(i, d + 1) = lo /\ Pow2(d + 1) = 2 * w /\ w \in Nat \ {0} /\ First(i, d) \in Nat
        /\ First(2 * i, d) = lo /\ First(2 * i + 1, d) = lo + w
        /\ First(i, d) >= w /\ First(i, d) >= i
    BY <2>1, FirstFacts
  <2>3. lo <= m /\ m < lo + 2 * w
    BY <1>1, <2>1, <2>2
  <2> HIDE DEF w
  <2>4. lo \in Nat /\ 2 * w <= lo /\ 2 * i <= lo
    BY <2>2
  <2> HIDE DEF lo
  <2> QED  BY <2>1, <2>2, <2>3, <2>4 DEF w
<1> QED  BY <1>2, <1>3

LEMMA AboveLeaf ==
  ASSUME NEW i \in Nat \ {0}, NEW m \in Nat, Above(i, m), m < 2 * i
  PROVE  m = i
BY AboveSides

(* The root is above all.                                                  *)
LEMMA AboveAll ==
  ASSUME NEW m \in Nat \ {0}
  PROVE  Above(1, m)
<1> DEFINE S == {d \in Nat : m < 2 * Pow2(d)}
<1>1. m \in S
  BY Pow2Grows
<1>2. PICK d \in S : \A e \in S : d =< e
  <2>1. S \subseteq Nat /\ S # {}
    BY <1>1
  <2> QED  BY <2>1, SmallestExists
<1>3. First(1, d) = Pow2(d) /\ Pow2(d) \in Nat /\ d \in Nat
  BY Pow2Unfolds DEF First
<1>4. Pow2(d) <= m
  <2>1. CASE d = 0
    BY <2>1, Pow2Unfolds
  <2>2. CASE d # 0
    <3>1. d - 1 \in Nat /\ (d - 1) + 1 = d /\ d - 1 \notin S
      BY <1>2, <2>2
    <3>2. Pow2(d) = 2 * Pow2(d - 1)
      BY <3>1, Pow2Unfolds
    <3> QED  BY <1>3, <3>1, <3>2
  <2> QED  BY <2>1, <2>2
<1>5. m < Pow2(d) + Pow2(d)
  BY <1>2, <1>3
<1> QED  BY <1>3, <1>4, <1>5 DEF Above

(* Both children of a node, as the choices of side see them.               *)
LEMMA SideSizes ==
  ASSUME NEW h, NEW at, Linked(h, at), NEW n \in Nat, Filled(at, n), NEW over, Counted(h, at, over),
         NEW i \in Nat \ {0}, OverBefore(at, 2 * i, over),
         NEW d \in Nat, NEW lo \in Nat, NEW w \in Nat \ {0},
         w = Pow2(d), lo = First(2 * i, d), lo + w = First(2 * i + 1, d),
         lo <= n + 1, n + 1 <= lo + 2 * w, 2 * w <= lo, 2 * i <= lo
  PROVE  /\ gp_heap_size(h, at[2 * i]) = LevelSize(n, lo, w)
         /\ gp_heap_size(h, at[2 * i + 1]) = LevelSize(n, lo + w, w)
<1> DEFINE low == 2 * i
<1>1. low \in Nat \ {0} /\ low <= 2 * i /\ low <= 2 * i + 1 /\ 2 * i \in Nat /\ 2 * i + 1 \in Nat
      /\ OverBefore(at, low, over)
  OBVIOUS
<1> HIDE DEF low
<1>2. lo + w <= 2 * n + 2 /\ n < 2 * lo /\ (lo + w) + w <= 2 * n + 2 /\ n < 2 * (lo + w)
  OBVIOUS
<1>3. /\ First(2 * i, d) + Pow2(d) <= 2 * n + 2 /\ n < 2 * First(2 * i, d)
      /\ First(2 * i + 1, d) + Pow2(d) <= 2 * n + 2 /\ n < 2 * First(2 * i + 1, d)
  BY <1>2
<1>4. ASSUME NEW c \in Nat, low <= c, First(c, d) + Pow2(d) <= 2 * n + 2, n < 2 * First(c, d)
      PROVE  gp_heap_size(h, at[c]) = LevelSize(n, First(c, d), Pow2(d))
  BY ONLY <1>1, <1>4, n \in Nat, d \in Nat, Filled(at, n), Counted(h, at, over), LevelSizes
<1>5. gp_heap_size(h, at[2 * i]) = LevelSize(n, First(2 * i, d), Pow2(d))
  BY <1>1, <1>3, <1>4
<1>6. gp_heap_size(h, at[2 * i + 1]) = LevelSize(n, First(2 * i + 1, d), Pow2(d))
  BY <1>1, <1>3, <1>4
<1> QED  BY <1>5, <1>6

(* A child that is there, by its size.                                     *)
LEMMA SizeOfNode ==
  ASSUME NEW h, NEW at, NEW over, Counted(h, at, over), NEW k \in Nat, NEW s \in Nat,
         gp_heap_size(h, at[k]) = s
  PROVE  /\ at[k] = NULL <=> s = 0
         /\ at[k] # NULL => h.children[at[k]] = s - 1 /\ h.children[at[k]] \in Nat
BY DEF Counted, gp_heap_size

SidePosition(i, side) == IF side = "left" THEN 2 * i ELSE 2 * i + 1

(* The path that gp_heap_ins_() takes from the counts ends behind the last *)
(* node.                                                                   *)
LEMMA InsertSideIs ==
  ASSUME NEW h, NEW at, Linked(h, at), NEW n \in Nat, Filled(at, n), NEW i \in Nat, at[i] # NULL,
         Counted(h, at, at[Up(i)]), Above(i, n + 1)
  PROVE  Above(SidePosition(i, InsertSide(h, at[i])), n + 1)
<1> DEFINE x == at[i]
           l == h.left[x]
           r == h.right[x]
<1>1. Tree(at) /\ i # 0 /\ l = at[2 * i] /\ r = at[2 * i + 1] /\ 2 * i \in Nat /\ 2 * i + 1 \in Nat
  <2>1. l = at[2 * i] /\ r = at[2 * i + 1] /\ i # 0
    BY LinkedFacts
  <2> QED  BY <2>1 DEF Linked
<1> HIDE DEF l, r
<1>2. OverBefore(at, 2 * i, at[Up(i)])
  <2> SUFFICES ASSUME NEW k \in Nat, 2 * i <= k, at[k] # NULL, at[k] = at[Up(i)] PROVE FALSE
    BY DEF OverBefore
  <2>1. Up(i) \in Nat /\ Up(i) < i
    BY <1>1, UpFacts
  <2>2. k = Up(i)
    BY <1>1, <2>1, TreeFacts
  <2> QED  BY <2>1, <2>2
<1>3. n + 1 # i
  BY DEF Filled
<1>4. PICK d \in Nat, lo \in Nat, w \in Nat \ {0} :
        /\ w = Pow2(d) /\ lo = First(2 * i, d) /\ lo + w = First(2 * i + 1, d)
        /\ lo <= n + 1 /\ n + 1 < lo + 2 * w /\ 2 * w <= lo /\ 2 * i <= lo
  BY <1>1, <1>3, AboveSides
<1>5. /\ gp_heap_size(h, at[2 * i]) = LevelSize(n, lo, w)
      /\ gp_heap_size(h, at[2 * i + 1]) = LevelSize(n, lo + w, w)
  <2>1. n + 1 <= lo + 2 * w /\ i \in Nat \ {0}
    BY <1>1, <1>4
  <2> QED  BY <1>2, <1>4, <2>1, SideSizes
<1> DEFINE sl == LevelSize(n, lo, w)
           sr == LevelSize(n, lo + w, w)
<1>6. /\ n + 1 < lo + w => sl = n + w - lo /\ sr = w - 1
      /\ n + 1 >= lo + w => sl = 2 * w - 1 /\ sr = n - lo
  BY <1>4 DEF LevelSize
<1> HIDE DEF sl, sr
<1>7. sl \in Nat /\ sr \in Nat
  BY <1>4, <1>6
<1>8. /\ (l = NULL <=> sl = 0) /\ (r = NULL <=> sr = 0)
      /\ (l # NULL => h.children[l] = sl - 1)
      /\ (r # NULL => h.children[r] = sr - 1)
  <2>1. gp_heap_size(h, at[2 * i]) = sl /\ gp_heap_size(h, at[2 * i + 1]) = sr
    BY <1>5 DEF sl, sr
  <2> QED  BY <1>1, <1>7, <2>1, SizeOfNode
<1>9. CASE n + 1 < lo + w
  <2>1. InsertSide(h, x) = "left"
    <3>1. CASE n + 1 = lo
      BY <1>6, <1>8, <1>9, <3>1, <1>4 DEF InsertSide, l, r
    <3>2. CASE n + 1 # lo
      <4>1. w - 1 < sl /\ sl < 2 * w - 1
        BY <1>4, <1>6, <1>9, <3>2
      <4>2. ~ gp_heap_well_balanced(sl - 1)
        BY <1>4, <1>7, <4>1, BalancedIsFull
      <4> QED  BY <1>8, <4>2 DEF InsertSide, l
    <3> QED  BY <3>1, <3>2
  <2>2. Above(2 * i, n + 1)
    BY <1>4, <1>9 DEF Above
  <2> QED  BY <2>1, <2>2 DEF SidePosition
<1>10. CASE n + 1 >= lo + w
  <2>1. InsertSide(h, x) = "right"
    <3>1. sl = 2 * w - 1 /\ sr < sl /\ sl # 0
      BY <1>4, <1>6, <1>10
    <3>2. gp_heap_well_balanced(sl - 1)
      BY <1>4, <1>7, <3>1, BalancedIsFull
    <3>3. l # NULL /\ h.children[l] = sl - 1 /\ (r # NULL => h.children[r] = sr - 1 /\ sr - 1 # sl - 1)
      BY <1>7, <1>8, <3>1
    <3> QED  BY <3>2, <3>3 DEF InsertSide, l, r
  <2>2. Above(2 * i + 1, n + 1)
    <3>1. First(2 * i + 1, d) <= n + 1 /\ n + 1 < First(2 * i + 1, d) + Pow2(d)
      BY <1>4, <1>10
    <3> QED  BY <3>1 DEF Above
  <2> QED  BY <2>1, <2>2 DEF SidePosition
<1> QED  BY <1>4, <1>9, <1>10

(* The path that gp_heap_rem_last() takes ends at the last node.           *)
LEMMA LastSideIs ==
  ASSUME NEW h, NEW at, Linked(h, at), NEW n \in Nat, Filled(at, n), NEW i \in Nat, at[i] # NULL,
         at[2 * i] # NULL, Counted(h, at, NULL), Above(i, n)
  PROVE  Above(SidePosition(i, LastSide(h, at[i])), n)
<1> DEFINE x == at[i]
           l == h.left[x]
           r == h.right[x]
<1>1. Tree(at) /\ i # 0 /\ l = at[2 * i] /\ r = at[2 * i + 1] /\ 2 * i \in Nat /\ 2 * i + 1 \in Nat
  <2>1. l = at[2 * i] /\ r = at[2 * i + 1] /\ i # 0
    BY LinkedFacts
  <2> QED  BY <2>1 DEF Linked
<1>2. l # NULL
  BY <1>1
<1> HIDE DEF l, r
<1>3. OverBefore(at, 2 * i, NULL)
  BY DEF OverBefore
<1>4. PICK d \in Nat, lo \in Nat, w \in Nat \ {0} :
        /\ w = Pow2(d) /\ lo = First(2 * i, d) /\ lo + w = First(2 * i + 1, d)
        /\ lo <= n /\ n < lo + 2 * w /\ 2 * w <= lo /\ 2 * i <= lo
  <2>1. 2 * i <= n
    BY <1>1 DEF Filled
  <2>2. n # i
    BY <1>1, <2>1
  <2> QED  BY <1>1, <2>2, AboveSides
<1>5. /\ gp_heap_size(h, at[2 * i]) = LevelSize(n, lo, w)
      /\ gp_heap_size(h, at[2 * i + 1]) = LevelSize(n, lo + w, w)
  <2>1. lo <= n + 1 /\ n + 1 <= lo + 2 * w /\ i \in Nat \ {0}
    BY <1>1, <1>4
  <2> QED  BY <1>3, <1>4, <2>1, SideSizes
<1> DEFINE sl == LevelSize(n, lo, w)
           sr == LevelSize(n, lo + w, w)
<1>6. /\ n + 1 < lo + w => sl = n + w - lo /\ sr = w - 1
      /\ n + 1 >= lo + w => sl = 2 * w - 1 /\ sr = n - lo
  BY <1>4 DEF LevelSize
<1> HIDE DEF sl, sr
<1>7. sl \in Nat /\ sr \in Nat
  BY <1>4, <1>6
<1>8. /\ (r = NULL <=> sr = 0) /\ h.children[l] = sl - 1
      /\ (r # NULL => h.children[r] = sr - 1)
  <2>1. gp_heap_size(h, at[2 * i]) = sl /\ gp_heap_size(h, at[2 * i + 1]) = sr
    BY <1>5 DEF sl, sr
  <2> QED  BY <1>1, <1>2, <1>7, <2>1, SizeOfNode
<1>9. CASE n < lo + w
  <2>1. LastSide(h, x) = "left"
    <3>1. CASE n + 1 < lo + w
      <4>1. w - 1 < sl /\ sl < 2 * w - 1
        BY <1>4, <1>6, <3>1
      <4>2. ~ gp_heap_well_balanced(sl - 1)
        BY <1>4, <1>7, <4>1, BalancedIsFull
      <4> QED  BY <1>8, <4>2 DEF LastSide, l
    <3>2. CASE n + 1 = lo + w
      <4>1. sl = 2 * w - 1 /\ sr = w - 1
        BY <1>4, <1>6, <3>2
      <4>2. r = NULL \/ h.children[r] < h.children[l] \div 2
        BY <1>4, <1>8, <4>1
      <4> QED  BY <4>2 DEF LastSide, l, r
    <3> QED  BY <1>4, <1>9, <3>1, <3>2
  <2>2. Above(2 * i, n)
    BY <1>4, <1>9 DEF Above
  <2> QED  BY <2>1, <2>2 DEF SidePosition
<1>10. CASE n >= lo + w
  <2>1. LastSide(h, x) = "right"
    <3>1. sl = 2 * w - 1 /\ sr = n - lo /\ sr >= w
      BY <1>4, <1>6, <1>10
    <3>2. gp_heap_well_balanced(sl - 1)
      BY <1>4, <1>7, <3>1, BalancedIsFull
    <3>3. r # NULL /\ h.children[l] = 2 * w - 2 /\ h.children[r] = sr - 1
      BY <1>4, <1>7, <1>8, <3>1
    <3>4. (2 * w - 2) \div 2 = w - 1
      BY <1>4
    <3>5. ~ (h.children[r] < h.children[l] \div 2)
      BY <1>4, <1>7, <3>1, <3>3, <3>4
    <3>6. h.children[l] = sl - 1
      BY <1>8
    <3> QED  BY <3>2, <3>3, <3>5, <3>6 DEF LastSide, l, r
  <2>2. Above(2 * i + 1, n)
    <3>1. First(2 * i + 1, d) <= n /\ n < First(2 * i + 1, d) + Pow2(d)
      BY <1>4, <1>10
    <3> QED  BY <3>1 DEF Above
  <2> QED  BY <2>1, <2>2 DEF SidePosition
<1> QED  BY <1>4, <1>9, <1>10

(* The same positions have a node.                                         *)
SamePlaces(at, a2) == \A k \in Nat : a2[k] = NULL <=> at[k] = NULL

(* j is where the last node is, if that is i or below it.                  *)
IsLast(at, i, j) == \A n \in Nat : Filled(at, n) /\ Above(i, n) => j = n

(* The next place to fill is at c or below it, if it is for i.             *)
AlsoAbove(at, i, c) == \A n \in Nat : Filled(at, n) /\ Above(i, n + 1) => Above(c, n + 1)

(* One node more, and one node less.                                       *)
FilledMore(at, a2, i) == \A n \in Nat : Filled(at, n) /\ Above(i, n + 1) => Filled(a2, n + 1)
FilledLess(at, a2) == \A n \in Nat : Filled(at, n + 1) => Filled(a2, n)

LEMMA FilledSame ==
  ASSUME NEW at, NEW a1, NEW a2, SamePlaces(a1, a2)
  PROVE  /\ \A i : FilledMore(at, a1, i) => FilledMore(at, a2, i)
         /\ FilledLess(at, a1) => FilledLess(at, a2)
BY DEF SamePlaces, FilledMore, FilledLess, Filled

-----------------------------------------------------------------------------
(* gp_heap_bubble_down().                                                  *)

(* The tree was rebuilt with the nodes it had.                             *)
Moved(h, g, at, a2) ==
  /\ Linked(g, a2) /\ Counted(g, a2, NULL)
  /\ On(a2) = On(at) /\ SameElsewhere(h, g, On(at))
  /\ gp_heap_size(g, a2[1]) = gp_heap_size(h, at[1])
  /\ SamePlaces(at, a2)

BubbledDown(h, r, key, at, a2, i) ==
  /\ Moved(h, r.h, at, a2)
  /\ r.top = a2[i] /\ r.top # NULL /\ \A k \in Nat : k < i => a2[k] = at[k]
  /\ OrderedAbove(at, key, i) => Ordered(a2, key)

BubblesDown(h, r, key, at, i) == \E a2 : BubbledDown(h, r, key, at, a2, i)

DownSound(rec, key, x, d) ==
  \A h, at : \A i \in Nat :
    Linked(h, at) /\ Counted(h, at, NULL) /\ at[i] = x /\ h.children[x] <= d
      => BubblesDown(h, rec[h], key, at, i)

LEMMA SwapMoved ==
  ASSUME NEW h, NEW g, NEW at, NEW a2, Tree(at), SwapDone(h, g, at, a2), Counted(g, a2, NULL),
         \A k \in Nat : a2[k] = NULL <=> at[k] = NULL
  PROVE  Moved(h, g, at, a2)
<1>1. gp_heap_size(g, a2[1]) = gp_heap_size(h, at[1])
  BY DEF SwapDone, gp_heap_size
<1> QED  BY <1>1 DEF Moved, SwapDone, SamePlaces

LEMMA MovedTwice ==
  ASSUME NEW h, NEW g, NEW f, NEW at, NEW a1, NEW a2, Moved(h, g, at, a1), Moved(g, f, a1, a2)
  PROVE  Moved(h, f, at, a2)
BY DEF Moved, SameElsewhere, SamePlaces

LEMMA StaysDown ==
  ASSUME NEW h, NEW at, NEW i \in Nat, NEW key, NEW x \in Nodes,
         Linked(h, at), Counted(h, at, NULL), at[i] = x,
         OrderedAbove(at, key, i) => \A k \in Nat : Up(k) = i => Edge(at, key, k)
  PROVE  BubblesDown(h, [top |-> x, h |-> h], key, at, i)
<1>1. OrderedAbove(at, key, i) => Ordered(at, key)
  BY DEF OrderedAbove, Ordered
<1>2. Moved(h, h, at, at)
  BY DEF Moved, SameElsewhere, SamePlaces
<1>3. BubbledDown(h, [top |-> x, h |-> h], key, at, at, i)
  BY <1>1, <1>2, NullAssumption DEF BubbledDown
<1> QED  BY <1>3 DEF BubblesDown

(* A leaf stays.                                                           *)
LEMMA LeafHasNoChildren ==
  ASSUME NEW h, NEW at, NEW over, Tree(at), Counted(h, at, over), NEW i \in Nat, at[i] # NULL,
         h.children[at[i]] <= 0
  PROVE  at[2 * i] = NULL /\ at[2 * i + 1] = NULL
<1>1. 2 * i \in Nat /\ 2 * i + 1 \in Nat
  OBVIOUS
<1>2. gp_heap_size(h, at[2 * i]) \in Nat /\ gp_heap_size(h, at[2 * i + 1]) \in Nat
  BY <1>1, SizeIsNat
<1>3. gp_heap_size(h, at[2 * i]) = 0 /\ gp_heap_size(h, at[2 * i + 1]) = 0
  BY <1>2 DEF Counted
<1>4. ASSUME NEW k \in Nat, at[k] # NULL PROVE gp_heap_size(h, at[k]) # 0
  BY <1>4 DEF Counted, gp_heap_size
<1> QED  BY <1>1, <1>3, <1>4

LEMMA DownAtLeaf ==
  ASSUME NEW key, NEW x \in Nodes
  PROVE  DownSound(Stays(x), key, x, 0)
<1> SUFFICES ASSUME NEW h, NEW at, NEW i \in Nat,
                    Linked(h, at), Counted(h, at, NULL), at[i] = x, h.children[x] <= 0
             PROVE  BubblesDown(h, Stays(x)[h], key, at, i)
  BY DEF DownSound
<1>1. h \in Heaps /\ Tree(at) /\ x # NULL
  BY NullAssumption DEF Linked
<1>2. Stays(x)[h] = [top |-> x, h |-> h]
  BY <1>1 DEF Stays
<1>3. at[2 * i] = NULL /\ at[2 * i + 1] = NULL
  BY <1>1, LeafHasNoChildren
<1>4. \A k \in Nat : Up(k) = i => Edge(at, key, k)
  <2>1. ASSUME NEW k \in Nat, Up(k) = i PROVE at[k] = NULL
    <3>1. k = 2 * i \/ k = 2 * i + 1
      BY <2>1, UpFacts
    <3> QED  BY <1>3, <3>1
  <2> QED  BY <2>1 DEF Edge
<1> QED  BY <1>2, <1>4, StaysDown

(* The step down to position j.                                            *)
LEMMA GoesDown ==
  ASSUME NEW h, NEW at, NEW i \in Nat, NEW j \in {2 * i, 2 * i + 1}, NEW key \in [Nodes -> Int],
         NEW x \in Nodes, NEW d \in Nat, NEW rec, DownSound(rec, key, x, d - 1),
         Linked(h, at), Counted(h, at, NULL), at[i] = x, at[j] # NULL, h.children[x] <= d,
         key[at[j]] <= key[x],
         at[Sibling(i, j)] # NULL => key[at[j]] <= key[at[Sibling(i, j)]],
         NEW sub, sub = rec[gp_heap_swap(h, x, SideOf(i, j))]
  PROVE  BubblesDown(h, [top |-> at[j], h |-> [sub.h EXCEPT ![SideOf(i, j)][at[j]] = sub.top]],
                     key, at, i)
<1> DEFINE g == gp_heap_swap(h, x, SideOf(i, j))
           a1 == Exchange(at, i, j)
           c == at[j]
           r == [top |-> c, h |-> [sub.h EXCEPT ![SideOf(i, j)][c] = sub.top]]
<1>1. Tree(at) /\ at[i] # NULL
  BY NullAssumption DEF Linked
<1>2. i \in Nat \ {0} /\ j \in Nat /\ i # j /\ i < j
  BY <1>1, LinkedFacts
<1>3. /\ a1[i] = c /\ a1[j] = x
      /\ \A k \in Nat : k # i /\ k # j => a1[k] = at[k]
      /\ \A k \in Nat : a1[k] = NULL <=> at[k] = NULL
  BY <1>1, <1>2, ExchangeFacts
<1>4. SwapDone(h, g, at, a1)
  BY <1>1, SwapLinked
<1>5. Counted(g, a1, NULL)
  BY <1>1, <1>3, <1>4, SwapCounted
<1>6. g.children[x] <= d - 1
  <2>1. g.children[a1[j]] = h.children[c]
    BY <1>2, <1>4 DEF SwapDone
  <2>2. h.children[at[i]] \in Nat /\ h.children[c] \in Nat /\ h.children[c] < h.children[at[i]]
    BY <1>1, ChildCountsLess
  <2> QED  BY <1>3, <2>1, <2>2
<1>7. Linked(g, a1)
  BY <1>4 DEF SwapDone
<1>8. Moved(h, g, at, a1)
  BY <1>1, <1>3, <1>4, <1>5, SwapMoved
<1>9. OrderedAbove(at, key, i) => OrderedAbove(a1, key, j)
  BY <1>1, <1>2, SwapDownOrder
<1>10. c \in Nodes
  BY <1>1, <1>2, TreeFacts
<1> HIDE DEF a1, c
<1>11. BubblesDown(g, rec[g], key, a1, j)
  BY <1>2, <1>3, <1>5, <1>6, <1>7 DEF DownSound
<1>12. sub = rec[g]
  OBVIOUS
<1> HIDE DEF g
<1>13. PICK a2 : BubbledDown(g, sub, key, a1, a2, j)
  BY <1>11, <1>12 DEF BubblesDown
<1>14. /\ Moved(g, sub.h, a1, a2) /\ sub.top = a2[j] /\ a2[i] = c
       /\ OrderedAbove(a1, key, j) => Ordered(a2, key)
       /\ \A k \in Nat : k < i => a2[k] = at[k]
  BY <1>2, <1>3, <1>13 DEF BubbledDown
<1>15. Moved(h, sub.h, at, a2)
  BY <1>8, <1>14, MovedTwice
<1>16. [sub.h EXCEPT ![SideOf(i, j)][c] = sub.top] = sub.h
  <2>1. Linked(sub.h, a2) /\ sub.h \in Heaps /\ a2[i] # NULL /\ sub.top \in Ptr
    <3>1. Linked(sub.h, a2) /\ sub.h \in Heaps /\ Tree(a2)
      BY <1>14 DEF Moved, Linked
    <3>2. a2[j] \in Ptr /\ a2[i] # NULL
      BY <1>2, <1>10, <1>14, <3>1, TreeFacts, NullAssumption
    <3> QED  BY <1>14, <3>1, <3>2
  <2>2. sub.h.left[c] = a2[2 * i] /\ sub.h.right[c] = a2[2 * i + 1]
    BY <1>14, <2>1, LinkedFacts
  <2>3. SideOf(i, j) \in Sides /\ sub.h[SideOf(i, j)][c] = sub.top
    BY <1>14, <2>2 DEF SideOf, Sides
  <2> QED  BY ONLY <1>10, <2>1, <2>3, LinkSet
<1>17. r.top = c /\ r.h = sub.h
  BY <1>16
<1> HIDE DEF r
<1>18. BubbledDown(h, r, key, at, a2, i)
  BY <1>9, <1>10, <1>14, <1>15, <1>17, NullAssumption DEF BubbledDown
<1>19. BubblesDown(h, r, key, at, i)
  BY <1>18 DEF BubblesDown
<1> QED  BY <1>19 DEF r, c

LEMMA DownStep ==
  ASSUME NEW key \in [Nodes -> Int], NEW x \in Nodes, NEW d \in Nat, NEW rec,
         DownSound(rec, key, x, d - 1)
  PROVE  DownSound(BubbleDownBody(key, x, rec), key, x, d)
<1> SUFFICES ASSUME NEW h, NEW at, NEW i \in Nat,
                    Linked(h, at), Counted(h, at, NULL), at[i] = x, h.children[x] <= d
             PROVE  BubblesDown(h, BubbleDownBody(key, x, rec)[h], key, at, i)
  BY DEF DownSound
<1> DEFINE l == at[2 * i]
           r == at[2 * i + 1]
           Down(side, c) ==
             LET sub == rec[gp_heap_swap(h, x, side)] IN
             [top |-> c, h |-> [sub.h EXCEPT ![side][c] = sub.top]]
<1>1. h \in Heaps /\ Tree(at) /\ at[i] # NULL /\ i # 0
  BY NullAssumption, LinkedFacts DEF Linked
<1>2. h.left[x] = l /\ h.right[x] = r
  BY <1>1, LinkedFacts
<1>3. l = NULL => r = NULL
  BY <1>1 DEF Tree
<1>4. 2 * i \in Nat /\ 2 * i + 1 \in Nat /\ Sibling(i, 2 * i) = 2 * i + 1
      /\ Sibling(i, 2 * i + 1) = 2 * i /\ SideOf(i, 2 * i) = "left"
      /\ SideOf(i, 2 * i + 1) = "right"
  BY DEF Sibling, SideOf
<1>5. (l # NULL => l \in Nodes) /\ (r # NULL => r \in Nodes)
  BY <1>1, <1>4, TreeFacts
<1>6. BubbleDownBody(key, x, rec)[h] =
        (LET right == IF r # NULL /\ l # NULL /\ cmp(key, r, l) THEN NULL ELSE r IN
         IF right # NULL /\ cmp(key, x, right) THEN Down("right", right)
         ELSE IF l # NULL /\ cmp(key, x, l) THEN Down("left", l)
         ELSE [top |-> x, h |-> h])
  BY <1>1, <1>2 DEF BubbleDownBody
<1>7. ASSUME r # NULL, key[r] <= key[x], key[r] <= key[l]
      PROVE  BubblesDown(h, Down("right", r), key, at, i)
  <2> DEFINE j == 2 * i + 1
  <2>1. j \in {2 * i, 2 * i + 1} /\ at[j] # NULL /\ key[at[j]] <= key[x]
    BY <1>7
  <2>2. at[Sibling(i, j)] # NULL => key[at[j]] <= key[at[Sibling(i, j)]]
    BY <1>4, <1>7
  <2>3. SideOf(i, j) = "right" /\ at[j] = r
    BY <1>4
  <2> HIDE DEF j
  <2>4. BubblesDown(h, Down(SideOf(i, j), at[j]), key, at, i)
    BY <2>1, <2>2, GoesDown
  <2> QED  BY <2>3, <2>4
<1>8. ASSUME l # NULL, key[l] <= key[x], r # NULL => key[l] <= key[r]
      PROVE  BubblesDown(h, Down("left", l), key, at, i)
  <2> DEFINE j == 2 * i
  <2>1. j \in {2 * i, 2 * i + 1} /\ at[j] # NULL /\ key[at[j]] <= key[x]
    BY <1>8
  <2>2. at[Sibling(i, j)] # NULL => key[at[j]] <= key[at[Sibling(i, j)]]
    BY <1>4, <1>8
  <2>3. SideOf(i, j) = "left" /\ at[j] = l
    BY <1>4
  <2> HIDE DEF j
  <2>4. BubblesDown(h, Down(SideOf(i, j), at[j]), key, at, i)
    BY <2>1, <2>2, GoesDown
  <2> QED  BY <2>3, <2>4
<1>9. ASSUME l # NULL => key[x] <= key[l], r # NULL => key[x] <= key[r]
      PROVE  BubblesDown(h, [top |-> x, h |-> h], key, at, i)
  <2>1. ASSUME NEW k \in Nat, Up(k) = i PROVE Edge(at, key, k)
    <3>1. k = 2 * i \/ k = 2 * i + 1
      BY <2>1, UpFacts
    <3> QED  BY <1>9, <2>1, <3>1 DEF Edge
  <2> QED  BY <2>1, StaysDown
<1>10. (l # NULL => key[l] \in Int) /\ (r # NULL => key[r] \in Int) /\ key[x] \in Int
  BY <1>5
<1> HIDE DEF l, r, Down
<1>11. CASE r # NULL /\ ~ (key[r] >= key[l])
  BY <1>3, <1>6, <1>7, <1>8, <1>9, <1>10, <1>11 DEF cmp
<1>12. CASE r # NULL /\ key[r] >= key[l]
  BY <1>3, <1>6, <1>7, <1>8, <1>9, <1>10, <1>12 DEF cmp
<1>13. CASE r = NULL
  BY <1>3, <1>6, <1>7, <1>8, <1>9, <1>10, <1>13 DEF cmp
<1> QED  BY <1>11, <1>12, <1>13

(* The smallest node comes to the position the search started from.        *)
LEMMA BubbleDownSound ==
  ASSUME NEW key \in [Nodes -> Int], NEW x \in Nodes, NEW h, NEW at, NEW i \in Nat,
         Linked(h, at), Counted(h, at, NULL), at[i] = x
  PROVE  BubblesDown(h, gp_heap_bubble_down(h, key, x), key, at, i)
<1> DEFINE depth == gp_heap_size(h, x)
           down == BubbleDown(key, x, depth)
           G == {d \in 0 .. depth : DownSound(down[d], key, x, d)}
<1>1. Tree(at) /\ at[i] # NULL
  BY NullAssumption DEF Linked
<1>2. depth \in Nat /\ h.children[x] <= depth
  BY <1>1, SizeIsNat DEF gp_heap_size, Counted
<1> HIDE DEF depth
<1>3. down[0] = Stays(x) /\ \A d \in 1 .. depth : down[d] = BubbleDownBody(key, x, down[d - 1])
  BY <1>2, BubbleDownUnfolds
<1> HIDE DEF down
<1>4. 0 \in G
  BY <1>2, <1>3, DownAtLeaf
<1>5. ASSUME NEW d \in 1 .. depth, d - 1 \in G PROVE d \in G
  <2>1. DownSound(BubbleDownBody(key, x, down[d - 1]), key, x, d)
    BY <1>5, DownStep
  <2> QED  BY <1>3, <2>1
<1> HIDE DEF G
<1>6. depth \in G
  BY <1>2, <1>4, <1>5, DepthInduction
<1>7. DownSound(down[depth], key, x, depth)
  BY <1>6 DEF G
<1>8. BubblesDown(h, down[depth][h], key, at, i)
  BY <1>2, <1>7 DEF DownSound
<1> QED  BY <1>8 DEF gp_heap_bubble_down, depth, down
-----------------------------------------------------------------------------
(* gp_heap_bubble_up(), and the way back to the root.                      *)

BubbledUp(h, r, key, x, at, a2, i, k) ==
  /\ Moved(h, r.h, at, a2)
  /\ r.top = x /\ k \in Nat /\ a2[k] = x
  /\ OrderedAround(at, key, i) => OrderedAbove(a2, key, k)

BubblesUp(h, r, key, x, at, i) == \E a2, k : BubbledUp(h, r, key, x, at, a2, i, k)

UpSound(rec, key, x, d) ==
  \A h, at : \A i \in Nat :
    /\ Linked(h, at) /\ Counted(h, at, NULL) /\ at[i] = x
    /\ h.children[at[1]] <= h.children[x] + d
    => BubblesUp(h, rec[h], key, x, at, i)

LEMMA BubbleUpTyped ==
  ASSUME NEW key, NEW x \in Nodes, NEW rec \in Results
  PROVE  BubbleUpBody(key, x, rec) \in Results
<1>1. ASSUME NEW h \in Heaps PROVE h.up[x] # NULL => h.up[x] \in Nodes
  <2>1. h.up[x] \in Ptr
    BY HeapFields
  <2> QED  BY <2>1 DEF Ptr
<1>2. ASSUME NEW h \in Heaps, h.up[x] # NULL, h.left[h.up[x]] = x
      PROVE  rec[gp_heap_swap(h, h.up[x], "left")] \in [top : Ptr, h : Heaps]
  <2>1. h["left"][h.up[x]] \in Nodes /\ "left" \in Sides
    BY <1>2 DEF Sides
  <2>2. gp_heap_swap(h, h.up[x], "left") \in Heaps
    BY <1>1, <1>2, <2>1, SwapTyped
  <2> QED  BY <2>2 DEF Results
<1>3. ASSUME NEW h \in Heaps, h.up[x] # NULL, h.right[h.up[x]] = x
      PROVE  rec[gp_heap_swap(h, h.up[x], "right")] \in [top : Ptr, h : Heaps]
  <2>1. h["right"][h.up[x]] \in Nodes /\ "right" \in Sides
    BY <1>3 DEF Sides
  <2>2. gp_heap_swap(h, h.up[x], "right") \in Heaps
    BY <1>1, <1>3, <2>1, SwapTyped
  <2> QED  BY <2>2 DEF Results
<1>4. \A h \in Heaps : [h EXCEPT !.bug = TRUE] \in Heaps
  BY DEF Heaps
<1>5. x \in Ptr
  BY DEF Ptr
<1>6. ASSUME NEW h \in Heaps
      PROVE  (LET up == h.up[x] IN
              IF up = NULL \/ cmp(key, x, up) THEN [top |-> x, h |-> h]
              ELSE IF h.left[up] = x THEN rec[gp_heap_swap(h, up, "left")]
              ELSE IF h.right[up] = x THEN rec[gp_heap_swap(h, up, "right")]
              ELSE [top |-> x, h |-> [h EXCEPT !.bug = TRUE]]) \in [top : Ptr, h : Heaps]
  BY <1>2, <1>3, <1>4, <1>5
<1> QED  BY <1>6 DEF BubbleUpBody, Results

LEMMA BubbleUpUnfolds ==
  ASSUME NEW key, NEW x \in Nodes, NEW depth \in Nat
  PROVE  /\ BubbleUp(key, x, depth)[0] = Stays(x)
         /\ \A d \in 1 .. depth :
              BubbleUp(key, x, depth)[d] = BubbleUpBody(key, x, BubbleUp(key, x, depth)[d - 1])
<1> DEFINE F == [g \in Results |-> BubbleUpBody(key, x, g)]
           bubble == BubbleUp(key, x, depth)
<1>1. F \in [Results -> Results]
  BY BubbleUpTyped
<1>2. Stays(x) \in Results
  BY DEF Stays, Results, Ptr
<1>3. \A g \in Results : F[g] = BubbleUpBody(key, x, g)
  OBVIOUS
<1> HIDE DEF F
<1>4. PICK f : Recursion(f, Results, Stays(x), F, depth)
  BY <1>1, <1>2, ByDepth
<1>5. f = [d \in 0 .. depth |-> IF d = 0 THEN Stays(x) ELSE BubbleUpBody(key, x, f[d - 1])]
  BY <1>3, <1>4 DEF Recursion
<1>6. bubble = [d \in 0 .. depth |-> IF d = 0 THEN Stays(x) ELSE BubbleUpBody(key, x, bubble[d - 1])]
  BY <1>5 DEF BubbleUp
<1> HIDE DEF bubble
<1>7. bubble[0] = Stays(x) /\ \A d \in 1 .. depth : bubble[d] = BubbleUpBody(key, x, bubble[d - 1])
  BY <1>6
<1> QED  BY <1>7 DEF bubble

LEMMA StaysUp ==
  ASSUME NEW h, NEW at, NEW i \in Nat, NEW key, NEW x \in Nodes,
         Linked(h, at), Counted(h, at, NULL), at[i] = x, Edge(at, key, i)
  PROVE  BubblesUp(h, [top |-> x, h |-> h], key, x, at, i)
<1>1. OrderedAround(at, key, i) => OrderedAbove(at, key, i)
  BY DEF OrderedAround, OrderedAbove
<1>2. Moved(h, h, at, at)
  BY DEF Moved, SameElsewhere, SamePlaces
<1>3. BubbledUp(h, [top |-> x, h |-> h], key, x, at, at, i, i)
  BY <1>1, <1>2 DEF BubbledUp
<1> QED  BY <1>3 DEF BubblesUp

(* The root stays.                                                         *)
LEMMA UpAtRoot ==
  ASSUME NEW key, NEW x \in Nodes
  PROVE  UpSound(Stays(x), key, x, 0)
<1> SUFFICES ASSUME NEW h, NEW at, NEW i \in Nat,
                    Linked(h, at), Counted(h, at, NULL), at[i] = x,
                    h.children[at[1]] <= h.children[x] + 0
             PROVE  BubblesUp(h, Stays(x)[h], key, x, at, i)
  BY DEF UpSound
<1>1. h \in Heaps /\ Tree(at) /\ at[i] # NULL
  BY NullAssumption DEF Linked
<1>2. Stays(x)[h] = [top |-> x, h |-> h]
  BY <1>1 DEF Stays
<1>3. i = 1
  BY <1>1, RootCountsMost
<1>4. Up(1) = 0 /\ at[0] = NULL
  BY <1>1 DEF Up, Tree
<1>5. Edge(at, key, i)
  BY <1>3, <1>4 DEF Edge
<1> QED  BY <1>2, <1>5, StaysUp

(* The step up to position i.                                              *)
LEMMA GoesUp ==
  ASSUME NEW h, NEW at, NEW i \in Nat, NEW j \in {2 * i, 2 * i + 1}, NEW key \in [Nodes -> Int],
         NEW x \in Nodes, NEW d \in Nat, NEW rec, UpSound(rec, key, x, d - 1),
         Linked(h, at), Counted(h, at, NULL), at[j] = x, at[i] # NULL,
         h.children[at[1]] <= h.children[x] + d, key[x] <= key[at[i]]
  PROVE  BubblesUp(h, rec[gp_heap_swap(h, at[i], SideOf(i, j))], key, x, at, j)
<1> DEFINE g == gp_heap_swap(h, at[i], SideOf(i, j))
           a1 == Exchange(at, i, j)
           p == at[i]
<1>1. Tree(at) /\ at[j] # NULL
  BY NullAssumption DEF Linked
<1>2. i \in Nat \ {0} /\ j \in Nat /\ i # j /\ i < j
  BY <1>1, LinkedFacts
<1>3. /\ a1[i] = x /\ a1[j] = p
      /\ \A k \in Nat : k # i /\ k # j => a1[k] = at[k]
      /\ \A k \in Nat : a1[k] = NULL <=> at[k] = NULL
  BY <1>1, <1>2, ExchangeFacts
<1>4. SwapDone(h, g, at, a1)
  BY <1>1, SwapLinked
<1>5. Counted(g, a1, NULL)
  BY <1>1, <1>3, <1>4, SwapCounted
<1>6. g.children[a1[1]] <= g.children[x] + (d - 1)
  <2>1. at[1] # NULL /\ h.children[at[1]] \in Nat
    BY <1>1, RootCountsMost
  <2>2. g.children[a1[1]] = h.children[at[1]]
    BY <1>4, <2>1 DEF SwapDone
  <2>3. g.children[x] = h.children[p]
    BY <1>3, <1>4 DEF SwapDone
  <2>4. h.children[p] \in Nat /\ h.children[x] \in Nat /\ h.children[x] < h.children[p]
    BY <1>1, ChildCountsLess
  <2> QED  BY <2>1, <2>2, <2>3, <2>4
<1>7. Linked(g, a1)
  BY <1>4 DEF SwapDone
<1>8. Moved(h, g, at, a1)
  BY <1>1, <1>3, <1>4, <1>5, SwapMoved
<1>9. OrderedAround(at, key, j) => OrderedAround(a1, key, i)
  BY <1>1, <1>2, SwapUpOrder
<1> HIDE DEF a1, p
<1>11. BubblesUp(g, rec[g], key, x, a1, i)
  BY <1>2, <1>3, <1>5, <1>6, <1>7 DEF UpSound
<1> HIDE DEF g
<1>13. PICK a2, k : BubbledUp(g, rec[g], key, x, a1, a2, i, k)
  BY <1>11 DEF BubblesUp
<1>14. /\ Moved(g, rec[g].h, a1, a2) /\ rec[g].top = x /\ k \in Nat /\ a2[k] = x
       /\ OrderedAround(a1, key, i) => OrderedAbove(a2, key, k)
  BY <1>13 DEF BubbledUp
<1>15. Moved(h, rec[g].h, at, a2)
  BY <1>8, <1>14, MovedTwice
<1>16. BubbledUp(h, rec[g], key, x, at, a2, j, k)
  BY <1>9, <1>14, <1>15 DEF BubbledUp
<1>17. BubblesUp(h, rec[g], key, x, at, j)
  BY <1>16 DEF BubblesUp
<1> QED  BY <1>17 DEF g

LEMMA UpStep ==
  ASSUME NEW key \in [Nodes -> Int], NEW x \in Nodes, NEW d \in Nat, NEW rec,
         UpSound(rec, key, x, d - 1)
  PROVE  UpSound(BubbleUpBody(key, x, rec), key, x, d)
<1> SUFFICES ASSUME NEW h, NEW at, NEW j \in Nat,
                    Linked(h, at), Counted(h, at, NULL), at[j] = x,
                    h.children[at[1]] <= h.children[x] + d
             PROVE  BubblesUp(h, BubbleUpBody(key, x, rec)[h], key, x, at, j)
  BY DEF UpSound
<1> DEFINE i == Up(j)
           p == at[i]
<1>1. h \in Heaps /\ Tree(at) /\ at[j] # NULL /\ j # 0
  BY NullAssumption, LinkedFacts DEF Linked
<1>2. i \in Nat /\ j \in {2 * i, 2 * i + 1}
  BY UpFacts
<1>3. h.up[x] = p
  BY <1>1, LinkedFacts
<1>4. p # NULL => p \in Nodes /\ h.left[p] = at[2 * i] /\ h.right[p] = at[2 * i + 1]
  <2>1. ASSUME p # NULL PROVE h.left[p] = at[2 * i] /\ h.right[p] = at[2 * i + 1]
    BY <1>2, <2>1, LinkedFacts
  <2>2. p # NULL => p \in Nodes
    BY <1>1, <1>2, TreeFacts
  <2> QED  BY <2>1, <2>2
<1>5. BubbleUpBody(key, x, rec)[h] =
        IF p = NULL \/ cmp(key, x, p) THEN [top |-> x, h |-> h]
        ELSE IF h.left[p] = x THEN rec[gp_heap_swap(h, p, "left")]
        ELSE IF h.right[p] = x THEN rec[gp_heap_swap(h, p, "right")]
        ELSE [top |-> x, h |-> [h EXCEPT !.bug = TRUE]]
  BY <1>1, <1>3 DEF BubbleUpBody
<1>6. ASSUME p = NULL \/ key[x] >= key[p]
      PROVE  BubblesUp(h, [top |-> x, h |-> h], key, x, at, j)
  <2>1. Edge(at, key, j)
    BY <1>4, <1>6 DEF Edge
  <2> QED  BY <2>1, StaysUp
<1>7. ASSUME p # NULL, key[x] <= key[p]
      PROVE  BubblesUp(h, rec[gp_heap_swap(h, p, SideOf(i, j))], key, x, at, j)
  BY <1>2, <1>7, GoesUp
<1>8. CASE p = NULL \/ key[x] >= key[p]
  BY <1>5, <1>6, <1>8 DEF cmp
<1>9. CASE p # NULL /\ ~ (key[x] >= key[p])
  <2>1. key[x] \in Int /\ key[p] \in Int
    BY <1>4, <1>9
  <2>2. BubblesUp(h, rec[gp_heap_swap(h, p, SideOf(i, j))], key, x, at, j)
    BY <1>7, <1>9, <2>1
  <2>3. 2 * i \in Nat /\ 2 * i + 1 \in Nat
    BY <1>2
  <2>4. CASE j = 2 * i
    <3>1. h.left[p] = x /\ SideOf(i, j) = "left"
      BY <1>4, <1>9, <2>4 DEF SideOf
    <3> QED  BY <1>5, <1>9, <2>2, <3>1 DEF cmp
  <2>5. CASE j = 2 * i + 1 /\ j # 2 * i
    <3>1. h.right[p] = x /\ SideOf(i, j) = "right"
      BY <1>4, <1>9, <2>5 DEF SideOf
    <3>2. h.left[p] # x
      BY <1>1, <1>4, <1>9, <2>3, <2>5, TreeFacts
    <3> QED  BY <1>5, <1>9, <2>2, <3>1, <3>2 DEF cmp
  <2> QED  BY <1>2, <2>4, <2>5
<1> QED  BY <1>8, <1>9

(* As many steps as the root has nodes below it are enough.                *)
LEMMA BubbleUpSound ==
  ASSUME NEW key \in [Nodes -> Int], NEW x \in Nodes, NEW h, NEW at, NEW i \in Nat,
         Linked(h, at), Counted(h, at, NULL), at[i] = x,
         NEW depth \in Nat, h.children[at[1]] <= depth
  PROVE  BubblesUp(h, gp_heap_bubble_up(h, key, x, depth), key, x, at, i)
<1> DEFINE bubble == BubbleUp(key, x, depth)
           G == {d \in 0 .. depth : UpSound(bubble[d], key, x, d)}
<1>1. Tree(at) /\ at[i] # NULL
  BY NullAssumption DEF Linked
<1>2. h.children[at[1]] <= h.children[x] + depth
  BY <1>1, RootCountsMost
<1>3. bubble[0] = Stays(x) /\ \A d \in 1 .. depth : bubble[d] = BubbleUpBody(key, x, bubble[d - 1])
  BY BubbleUpUnfolds
<1> HIDE DEF bubble
<1>4. 0 \in G
  BY <1>3, UpAtRoot
<1>5. ASSUME NEW d \in 1 .. depth, d - 1 \in G PROVE d \in G
  <2>1. UpSound(BubbleUpBody(key, x, bubble[d - 1]), key, x, d)
    BY <1>5, UpStep
  <2> QED  BY <1>3, <2>1
<1> HIDE DEF G
<1>6. depth \in G
  BY <1>4, <1>5, DepthInduction
<1>7. UpSound(bubble[depth], key, x, depth)
  BY <1>6 DEF G
<1>8. BubblesUp(h, bubble[depth][h], key, x, at, i)
  BY <1>2, <1>7 DEF UpSound
<1> QED  BY <1>8 DEF gp_heap_bubble_up, bubble
(* The loop of gp_heap_rem() that ends it finds the root.                  *)
LEMMA AncestorUnfolds ==
  ASSUME NEW h \in Heaps, NEW depth \in Nat
  PROVE  \A d \in 0 .. depth, x \in Nodes :
           Ancestor(h, depth)[d][x] = IF d = 0 \/ h.up[x] = NULL THEN x
                                      ELSE Ancestor(h, depth)[d - 1][h.up[x]]
<1> DEFINE S == [Nodes -> Nodes]
           start == [x \in Nodes |-> x]
           F == [g \in S |-> [x \in Nodes |-> IF h.up[x] = NULL THEN x ELSE g[h.up[x]]]]
           up == Ancestor(h, depth)
<1>1. \A x \in Nodes : h.up[x] # NULL => h.up[x] \in Nodes
  <2>1. \A x \in Nodes : h.up[x] \in Nodes \cup {NULL}
    BY HeapFields DEF Ptr
  <2> QED  BY <2>1
<1>2. F \in [S -> S]
  BY <1>1
<1>3. start \in S
  OBVIOUS
<1>4. \A g \in S : F[g] = [x \in Nodes |-> IF h.up[x] = NULL THEN x ELSE g[h.up[x]]]
  OBVIOUS
<1> HIDE DEF F, S
<1>5. PICK f : Recursion(f, S, start, F, depth)
  BY <1>2, <1>3, ByDepth
<1>6. \A d \in 0 .. depth :
        f[d] = [x \in Nodes |-> IF d = 0 \/ h.up[x] = NULL THEN x ELSE f[d - 1][h.up[x]]]
  <2> SUFFICES ASSUME NEW d \in 0 .. depth
               PROVE  f[d] = [x \in Nodes |-> IF d = 0 \/ h.up[x] = NULL THEN x ELSE f[d - 1][h.up[x]]]
    OBVIOUS
  <2>1. CASE d = 0
    <3>1. f[d] = start
      BY <1>5, <2>1 DEF Recursion
    <3> QED  BY <2>1, <3>1
  <2>2. CASE d # 0
    <3>1. f[d] = F[f[d - 1]] /\ f[d - 1] \in S
      BY <1>5, <2>2 DEF Recursion
    <3> QED  BY <1>4, <2>2, <3>1
  <2> QED  BY <2>1, <2>2
<1>7. f = [d \in 0 .. depth |->
             [x \in Nodes |-> IF d = 0 \/ h.up[x] = NULL THEN x ELSE f[d - 1][h.up[x]]]]
  BY <1>5, <1>6 DEF Recursion
<1>8. up = [d \in 0 .. depth |->
             [x \in Nodes |-> IF d = 0 \/ h.up[x] = NULL THEN x ELSE up[d - 1][h.up[x]]]]
  BY <1>7 DEF Ancestor
<1> HIDE DEF up
<1>9. ASSUME NEW d \in 0 .. depth, NEW x \in Nodes
      PROVE  up[d][x] = IF d = 0 \/ h.up[x] = NULL THEN x ELSE up[d - 1][h.up[x]]
  <2>1. up[d] = [y \in Nodes |-> IF d = 0 \/ h.up[y] = NULL THEN y ELSE up[d - 1][h.up[y]]]
    BY <1>8, Zenon
  <2> QED  BY <2>1
<1> QED  BY <1>9 DEF up

ClimbSound(h, at, up, d) ==
  \A i \in Nat : at[i] # NULL /\ h.children[at[1]] <= h.children[at[i]] + d => up[d][at[i]] = at[1]

LEMMA RootSound ==
  ASSUME NEW h, NEW at, NEW i \in Nat, Linked(h, at), Counted(h, at, NULL), at[i] # NULL,
         NEW depth \in Nat, h.children[at[1]] <= depth
  PROVE  Root(h, at[i], depth) = at[1]
<1> DEFINE up == Ancestor(h, depth)
           G == {d \in 0 .. depth : ClimbSound(h, at, up, d)}
<1>1. Tree(at) /\ h \in Heaps
  BY DEF Linked
<1>2. \A d \in 0 .. depth, x \in Nodes :
        up[d][x] = IF d = 0 \/ h.up[x] = NULL THEN x ELSE up[d - 1][h.up[x]]
  BY <1>1, AncestorUnfolds
<1> HIDE DEF up
<1>3. ClimbSound(h, at, up, 0)
  <2> SUFFICES ASSUME NEW k \in Nat, at[k] # NULL, h.children[at[1]] <= h.children[at[k]] + 0
               PROVE  up[0][at[k]] = at[1]
    BY DEF ClimbSound
  <2>1. k = 1 /\ at[k] \in Nodes
    BY <1>1, RootCountsMost, TreeFacts
  <2> QED  BY <1>2, <2>1
<1>4. ASSUME NEW d \in 1 .. depth, ClimbSound(h, at, up, d - 1) PROVE ClimbSound(h, at, up, d)
  <2> SUFFICES ASSUME NEW k \in Nat, at[k] # NULL, h.children[at[1]] <= h.children[at[k]] + d
               PROVE  up[d][at[k]] = at[1]
    BY DEF ClimbSound
  <2>1. h.up[at[k]] = at[Up(k)] /\ k # 0 /\ at[k] \in Nodes
    BY <1>1, LinkedFacts, TreeFacts
  <2>2. CASE k = 1
    <3>1. Up(1) = 0 /\ at[0] = NULL
      BY <1>1 DEF Up, Tree
    <3> QED  BY <1>2, <2>1, <2>2, <3>1
  <2>3. CASE k # 1
    <3>1. Up(k) \in Nat /\ (k = 2 * Up(k) \/ k = 2 * Up(k) + 1)
      BY UpFacts
    <3>2. at[Up(k)] # NULL /\ k \in {2 * Up(k), 2 * Up(k) + 1}
      BY <1>1, <2>1, <2>3, <3>1, UpInTree
    <3>3. /\ h.children[at[Up(k)]] \in Nat /\ h.children[at[k]] \in Nat
          /\ h.children[at[k]] < h.children[at[Up(k)]]
      BY <1>1, <3>1, <3>2, ChildCountsLess
    <3>4. h.children[at[1]] \in Nat
      BY <1>1, RootCountsMost
    <3>5. h.children[at[1]] <= h.children[at[Up(k)]] + (d - 1)
      BY <3>3, <3>4
    <3>6. up[d - 1][at[Up(k)]] = at[1]
      BY <1>4, <3>1, <3>2, <3>5 DEF ClimbSound
    <3> QED  BY <1>2, <2>1, <3>2, <3>6
  <2> QED  BY <2>2, <2>3
<1>5. 0 \in G /\ \A d \in 1 .. depth : d - 1 \in G => d \in G
  BY <1>3, <1>4
<1> HIDE DEF G
<1>6. depth \in G
  BY <1>5, DepthInduction
<1>7. ClimbSound(h, at, up, depth)
  BY <1>6 DEF G
<1>8. h.children[at[1]] <= h.children[at[i]] + depth
  BY <1>1, RootCountsMost
<1>9. up[depth][at[i]] = at[1]
  BY <1>7, <1>8 DEF ClimbSound
<1> QED  BY <1>9 DEF Root, up
-----------------------------------------------------------------------------
(* Pointers and counts on the way down and back.                           *)

SideWritten(h, g, side, x, v) ==
  /\ g \in Heaps /\ g.up = h.up /\ g.children = h.children /\ g.bug = h.bug
  /\ side = "left" => /\ \A n \in Nodes : g.left[n] = IF n = x THEN v ELSE h.left[n]
                      /\ g.right = h.right
  /\ side = "right" => /\ \A n \in Nodes : g.right[n] = IF n = x THEN v ELSE h.right[n]
                       /\ g.left = h.left

LEMMA SideSet ==
  ASSUME NEW h \in Heaps, NEW side \in Sides, NEW x \in Nodes, NEW v \in Ptr
  PROVE  SideWritten(h, [h EXCEPT ![side][x] = v], side, x, v)
<1> DEFINE g == [h EXCEPT ![side][x] = v]
<1>1. g \in Heaps
  BY LinkSet
<1>2. CASE side = "left"
  <2>1. g = [h EXCEPT !.left = [h.left EXCEPT ![x] = v]]
    BY <1>2 DEF Heaps
  <2> HIDE DEF g
  <2>2. g.up = h.up /\ g.children = h.children /\ g.bug = h.bug /\ g.right = h.right
        /\ g.left = [h.left EXCEPT ![x] = v]
    BY <2>1 DEF Heaps
  <2>3. \A n \in Nodes : g.left[n] = IF n = x THEN v ELSE h.left[n]
    BY <2>2, HeapFields
  <2>4. SideWritten(h, g, side, x, v)
    BY <1>1, <1>2, <2>2, <2>3 DEF SideWritten
  <2> QED  BY <2>4 DEF g
<1>3. CASE side = "right"
  <2>1. g = [h EXCEPT !.right = [h.right EXCEPT ![x] = v]]
    BY <1>3 DEF Heaps
  <2> HIDE DEF g
  <2>2. g.up = h.up /\ g.children = h.children /\ g.bug = h.bug /\ g.left = h.left
        /\ g.right = [h.right EXCEPT ![x] = v]
    BY <2>1 DEF Heaps
  <2>3. \A n \in Nodes : g.right[n] = IF n = x THEN v ELSE h.right[n]
    BY <2>2, HeapFields
  <2>4. SideWritten(h, g, side, x, v)
    BY <1>1, <1>3, <2>2, <2>3 DEF SideWritten
  <2> QED  BY <2>4 DEF g
<1> QED  BY <1>2, <1>3 DEF Sides

(* Only a count is written.                                                *)
Recounted(h, g, x, by) ==
  /\ g \in Heaps /\ g.left = h.left /\ g.right = h.right /\ g.up = h.up /\ g.bug = h.bug
  /\ \A n \in Nodes : g.children[n] = IF n = x THEN h.children[n] + by ELSE h.children[n]

LEMMA RecountSet ==
  ASSUME NEW h \in Heaps, NEW x \in Nodes
  PROVE  /\ Recounted(h, [h EXCEPT !.children[x] = @ + 1], x, 1)
         /\ Recounted(h, [h EXCEPT !.children[x] = @ - 1], x, -1)
<1>1. h.children \in [Nodes -> Int]
  BY HeapFields
<1>2. Recounted(h, [h EXCEPT !.children[x] = @ + 1], x, 1)
  BY <1>1 DEF Recounted, Heaps
<1>3. Recounted(h, [h EXCEPT !.children[x] = @ - 1], x, -1)
  BY <1>1 DEF Recounted, Heaps
<1> QED  BY <1>2, <1>3

LEMMA RecountLinked ==
  ASSUME NEW h, NEW g, NEW at, NEW x, NEW by, Linked(h, at), Recounted(h, g, x, by)
  PROVE  Linked(g, at)
BY DEF Linked, Recounted

LEMMA RecountCounted ==
  ASSUME NEW h, NEW g, NEW at, NEW i \in Nat, Tree(at), at[i] # NULL, NEW by \in {-1, 1},
         Recounted(h, g, at[i], by),
         by = 1 => Counted(h, at, at[Up(i)]),
         by = -1 => Counted(h, at, at[i])
  PROVE  Counted(g, at, IF by = 1 THEN at[i] ELSE at[Up(i)])
<1> DEFINE x == at[i]
           before == IF by = 1 THEN at[Up(i)] ELSE x
           after == IF by = 1 THEN x ELSE at[Up(i)]
           One(n, over) == IF n = over THEN 1 ELSE 0
<1>1. \A k, l \in Nat : at[k] = at[l] /\ at[k] # NULL => k = l
  BY TreeFacts
<1>2. i # 0 /\ Up(i) \in Nat /\ Up(i) # i /\ (i = 2 * Up(i) \/ i = 2 * Up(i) + 1)
  <2>1. i # 0
    BY TreeFacts
  <2> QED  BY <2>1, UpFacts
<1>3. Counted(h, at, before)
  OBVIOUS
<1>4. ASSUME NEW k \in Nat
      PROVE gp_heap_size(g, at[k]) = gp_heap_size(h, at[k]) + (IF k = i THEN by ELSE 0)
  <2>1. CASE at[k] = NULL
    BY <2>1 DEF gp_heap_size
  <2>2. CASE at[k] # NULL
    <3>1. at[k] \in Nodes /\ (at[k] = x <=> k = i)
      BY <1>1, <2>2, TreeFacts
    <3>2. h.children[at[k]] \in Nat
      BY <1>3, <2>2 DEF Counted
    <3>3. g.children[at[k]] = IF at[k] = x THEN h.children[at[k]] + by ELSE h.children[at[k]]
      BY <3>1 DEF Recounted
    <3>4. gp_heap_size(g, at[k]) = g.children[at[k]] + 1 /\ gp_heap_size(h, at[k]) = h.children[at[k]] + 1
      BY <2>2 DEF gp_heap_size
    <3> QED  BY <3>1, <3>2, <3>3, <3>4
  <2> QED  BY <2>1, <2>2
<1>5. ASSUME NEW k \in Nat, at[k] # NULL
      PROVE /\ g.children[at[k]] \in Nat
            /\ g.children[at[k]] = gp_heap_size(g, at[2 * k]) + gp_heap_size(g, at[2 * k + 1])
                                     + One(at[k], after)
  <2> DEFINE sl == gp_heap_size(h, at[2 * k])
             sr == gp_heap_size(h, at[2 * k + 1])
             gl == gp_heap_size(g, at[2 * k])
             gr == gp_heap_size(g, at[2 * k + 1])
             ck == h.children[at[k]]
  <2>1. 2 * k \in Nat /\ 2 * k + 1 \in Nat /\ at[k] \in Nodes
    BY <1>5, TreeFacts
  <2>2. sl \in Nat /\ sr \in Nat
    BY <1>3, <2>1, SizeIsNat
  <2>3. ck = sl + sr + One(at[k], before) /\ ck \in Nat
    BY <1>3, <1>5 DEF Counted
  <2>4. g.children[at[k]] = IF k = i THEN ck + by ELSE ck
    BY <1>1, <1>5, <2>1 DEF Recounted
  <2>5. at[k] = x <=> k = i
    BY <1>1, <1>5
  <2>6. at[k] = at[Up(i)] <=> k = Up(i)
    BY <1>1, <1>2, <1>5
  <2>7. /\ gl = sl + (IF 2 * k = i THEN by ELSE 0)
        /\ gr = sr + (IF 2 * k + 1 = i THEN by ELSE 0)
    BY <1>4, <2>1
  <2> HIDE DEF x, sl, sr, gl, gr, ck
  <2>8. by = 1 \/ by = -1
    OBVIOUS
  <2>9. CASE k = i
    <3>1. 2 * k # i /\ 2 * k + 1 # i /\ k # Up(i)
      BY <1>2, <2>9
    <3>2. gl = sl /\ gr = sr /\ at[k] = x /\ at[k] # at[Up(i)] /\ g.children[at[k]] = ck + by
      BY <2>2, <2>4, <2>5, <2>6, <2>7, <2>9, <3>1
    <3>3. CASE by = 1
      BY <2>2, <2>3, <3>2, <3>3 DEF gl, gr
    <3>4. CASE by = -1
      BY <2>2, <2>3, <3>2, <3>4 DEF gl, gr
    <3> QED  BY <2>8, <3>3, <3>4 DEF gl, gr
  <2>10. CASE k = Up(i)
    <3>1. (2 * k = i /\ 2 * k + 1 # i) \/ (2 * k # i /\ 2 * k + 1 = i)
      BY <1>2, <2>10
    <3>2. gl + gr = sl + sr + by
      BY <2>2, <2>7, <3>1
    <3>3. at[k] # x /\ at[k] = at[Up(i)] /\ g.children[at[k]] = ck
      BY <1>2, <2>4, <2>5, <2>6, <2>10
    <3>4. CASE by = 1
      BY <2>2, <2>3, <3>2, <3>3, <3>4 DEF gl, gr
    <3>5. CASE by = -1
      BY <2>2, <2>3, <3>2, <3>3, <3>5 DEF gl, gr
    <3> QED  BY <2>8, <3>4, <3>5 DEF gl, gr
  <2>11. CASE k # i /\ k # Up(i)
    <3>1. 2 * k # i /\ 2 * k + 1 # i
      <4>1. Up(2 * k) = k /\ Up(2 * k + 1) = k
        BY UpFacts
      <4> QED  BY <2>11, <4>1
    <3>2. gl = sl /\ gr = sr /\ at[k] # x /\ at[k] # at[Up(i)] /\ g.children[at[k]] = ck
      BY <2>2, <2>4, <2>5, <2>6, <2>7, <2>11, <3>1
    <3> QED  BY <2>2, <2>3, <3>2 DEF gl, gr
  <2> QED  BY <2>9, <2>10, <2>11
<1>6. Counted(g, at, after)
  BY <1>5 DEF Counted
<1> QED  BY <1>6
-----------------------------------------------------------------------------
(* gp_heap_rem_last().                                                     *)

LastResults == [Nodes -> [top : Ptr, last : Nodes, h : Heaps]]

(* A pointer and a count are written, one after the other.                 *)
SetSide(s, side, x, v) == [s EXCEPT ![side][x] = v]
CountDown(s, x) == [s EXCEPT !.children[x] = @ - 1]
WriteBoth(s, side, x, v) == [s EXCEPT ![side][x] = v, !.children[x] = @ - 1]

LEMMA BothWritten ==
  ASSUME NEW s \in Heaps, NEW side \in Sides, NEW x \in Nodes, NEW v
  PROVE  WriteBoth(s, side, x, v) = CountDown(SetSide(s, side, x, v), x)
<1>1. CASE side = "left"
  BY <1>1 DEF Heaps, WriteBoth, CountDown, SetSide
<1>2. CASE side = "right"
  BY <1>2 DEF Heaps, WriteBoth, CountDown, SetSide
<1> QED  BY <1>1, <1>2 DEF Sides

LEMMA LastSideFacts ==
  ASSUME NEW h, NEW x
  PROVE  /\ LastSide(h, x) \in Sides
         /\ LastSide(h, x) = "right" => h.right[x] # NULL
         /\ LastSide(h, x) = "left" /\ h.children[h.left[x]] = 0 =>
              h.right[x] = NULL \/ h.children[h.right[x]] < 0
<1>1. h.children[h.left[x]] = 0 => gp_heap_well_balanced(h.children[h.left[x]])
  <2>1. 0 \in Nat /\ 1 \in Nat /\ 1 = 2 * Pow2(0) - 1 /\ 1 - 1 = 0
    BY Pow2Unfolds
  <2> QED  BY <2>1, BalancedIsFull
<1> QED  BY <1>1 DEF LastSide, Sides

LEMMA RemLastTyped ==
  ASSUME NEW h \in Heaps, NEW rec \in LastResults
  PROVE  RemLastBody(h, rec) \in LastResults
<1> DEFINE Sub(x) == rec[h[LastSide(h, x)][x]]
           Rest(x) == [Sub(x).h EXCEPT ![LastSide(h, x)][x] = Sub(x).top, !.children[x] = @ - 1]
<1>1. ASSUME NEW x \in Nodes, h.left[x] # NULL
      PROVE  Sub(x).last \in Nodes /\ Rest(x) \in Heaps
  <2> DEFINE side == LastSide(h, x)
             sub == Sub(x)
  <2>1. side \in Sides /\ h[side][x] \in Nodes
    <3>1. side \in Sides /\ (side = "right" => h.right[x] # NULL)
      BY LastSideFacts
    <3>2. h.left[x] \in Ptr /\ h.right[x] \in Ptr
      BY HeapFields
    <3> QED  BY <1>1, <3>1, <3>2 DEF Sides, Ptr
  <2>2. sub.top \in Ptr /\ sub.last \in Nodes /\ sub.h \in Heaps
    BY <2>1 DEF LastResults
  <2> HIDE DEF side, Sub
  <2>3. SetSide(sub.h, side, x, sub.top) \in Heaps
    BY <2>1, <2>2, LinkSet DEF SetSide
  <2>4. CountDown(SetSide(sub.h, side, x, sub.top), x) \in Heaps
    BY <2>3, RecountSet DEF Recounted, CountDown
  <2>5. WriteBoth(sub.h, side, x, sub.top) = CountDown(SetSide(sub.h, side, x, sub.top), x)
    BY <2>1, <2>2, BothWritten
  <2>6. WriteBoth(sub.h, side, x, sub.top) \in Heaps
    BY <2>4, <2>5
  <2> QED  BY <2>2, <2>6 DEF side, WriteBoth
<1>2. RemLastBody(h, rec) =
        [x \in Nodes |-> IF h.left[x] = NULL THEN [top |-> NULL, last |-> x, h |-> h]
                         ELSE [top |-> x, last |-> Sub(x).last, h |-> Rest(x)]]
  BY DEF RemLastBody
<1> HIDE DEF Sub, Rest
<1>3. ASSUME NEW x \in Nodes
      PROVE  (IF h.left[x] = NULL THEN [top |-> NULL, last |-> x, h |-> h]
              ELSE [top |-> x, last |-> Sub(x).last, h |-> Rest(x)])
               \in [top : Ptr, last : Nodes, h : Heaps]
  BY <1>1 DEF Ptr
<1> QED  BY <1>2, <1>3 DEF LastResults

LEMMA RemLastUnfolds ==
  ASSUME NEW h \in Heaps, NEW depth \in Nat
  PROVE  /\ RemLast(h, depth)[0] = RemLeaf(h)
         /\ \A d \in 1 .. depth :
              RemLast(h, depth)[d] = RemLastBody(h, RemLast(h, depth)[d - 1])
<1> DEFINE F == [g \in LastResults |-> RemLastBody(h, g)]
           rem == RemLast(h, depth)
<1>1. F \in [LastResults -> LastResults]
  BY RemLastTyped
<1>2. RemLeaf(h) \in LastResults
  BY DEF RemLeaf, LastResults, Ptr
<1>3. \A g \in LastResults : F[g] = RemLastBody(h, g)
  OBVIOUS
<1> HIDE DEF F
<1>4. PICK f : Recursion(f, LastResults, RemLeaf(h), F, depth)
  BY <1>1, <1>2, ByDepth
<1>5. f = [d \in 0 .. depth |-> IF d = 0 THEN RemLeaf(h) ELSE RemLastBody(h, f[d - 1])]
  BY <1>3, <1>4 DEF Recursion
<1>6. rem = [d \in 0 .. depth |-> IF d = 0 THEN RemLeaf(h) ELSE RemLastBody(h, rem[d - 1])]
  BY <1>5 DEF RemLast
<1> HIDE DEF rem
<1>7. rem[0] = RemLeaf(h) /\ \A d \in 1 .. depth : rem[d] = RemLastBody(h, rem[d - 1])
  BY <1>6
<1> QED  BY <1>7 DEF rem

(* A leaf that no hole is left by is cut off.                              *)
Cut(at, j) == [at EXCEPT ![j] = NULL]

LastLeaf(at, j) ==
  /\ j \in Nat /\ at[j] # NULL /\ at[2 * j] = NULL
  /\ j = 2 * Up(j) => at[j + 1] = NULL

LEMMA CutFacts ==
  ASSUME NEW at, Tree(at), NEW j, LastLeaf(at, j)
  PROVE  /\ Tree(Cut(at, j)) /\ On(Cut(at, j)) = On(at) \ {at[j]}
         /\ Cut(at, j)[j] = NULL /\ \A k \in Nat : k # j => Cut(at, j)[k] = at[k]
<1> DEFINE a2 == Cut(at, j)
<1>1. j \in Nat /\ at[j] # NULL /\ j # 0
  BY TreeFacts DEF LastLeaf
<1>2. a2[j] = NULL /\ \A k \in Nat : k # j => a2[k] = at[k]
  BY <1>1 DEF Cut, Tree
<1>3. a2 \in [Nat -> Ptr] /\ a2[0] = NULL
  BY <1>1, <1>2 DEF Cut, Tree, Ptr
<1> HIDE DEF a2
<1>4. \A k, l \in Nat : a2[k] = a2[l] /\ a2[k] # NULL => k = l
  BY <1>2, TreeFacts
<1>5. ASSUME NEW k \in Nat, k # 0, a2[k] = NULL PROVE a2[2 * k] = NULL /\ a2[2 * k + 1] = NULL
  <2>1. 2 * k \in Nat /\ 2 * k + 1 \in Nat
    OBVIOUS
  <2>2. at[2 * k] = NULL /\ at[2 * k + 1] = NULL
    BY <1>2, <1>5 DEF Tree, LastLeaf
  <2> QED  BY <1>2, <2>1, <2>2
<1>6. ASSUME NEW k \in Nat, k # 0, a2[2 * k] = NULL PROVE a2[2 * k + 1] = NULL
  <2>1. 2 * k \in Nat /\ 2 * k + 1 \in Nat /\ Up(2 * k) = k
    BY UpFacts
  <2>2. at[2 * k + 1] = NULL
    <3>1. CASE 2 * k = j
      BY <2>1, <3>1 DEF LastLeaf
    <3>2. CASE 2 * k # j
      BY <1>2, <1>6, <2>1, <3>2 DEF Tree
    <3> QED  BY <3>1, <3>2
  <2> QED  BY <1>2, <2>1, <2>2
<1>7. Tree(a2)
  BY <1>3, <1>4, <1>5, <1>6 DEF Tree
<1>8. On(a2) = On(at) \ {at[j]}
  <2>1. ASSUME NEW n \in On(a2) PROVE n \in On(at) /\ n # at[j]
    <3>1. PICK k \in Nat : a2[k] = n /\ n \in Nodes
      BY DEF On
    <3>2. k # j /\ at[k] = n
      BY <1>2, <3>1, NullAssumption
    <3>3. n # at[j]
      BY <1>1, <3>1, <3>2, TreeFacts
    <3> QED  BY <3>1, <3>2, <3>3 DEF On
  <2>2. ASSUME NEW n \in On(at), n # at[j] PROVE n \in On(a2)
    BY <1>2, <2>2 DEF On
  <2> QED  BY <2>1, <2>2
<1> QED  BY <1>2, <1>7, <1>8 DEF a2

LEMMA CutFilled ==
  ASSUME NEW at, Tree(at), NEW j, LastLeaf(at, j), IsLast(at, 1, j)
  PROVE  FilledLess(at, Cut(at, j))
<1> SUFFICES ASSUME NEW n \in Nat, Filled(at, n + 1) PROVE Filled(Cut(at, j), n)
  BY DEF FilledLess
<1>1. n + 1 \in Nat \ {0}
  OBVIOUS
<1>2. j = n + 1
  BY <1>1, AboveAll DEF IsLast
<1>3. Cut(at, j)[j] = NULL /\ \A k \in Nat : k # j => Cut(at, j)[k] = at[k]
  BY CutFacts
<1> QED  BY <1>2, <1>3 DEF Filled

(* The pointer to a child that is a leaf is dropped, and no count yet.     *)
LEMMA CutLink ==
  ASSUME NEW h, NEW at, Linked(h, at), Counted(h, at, NULL), NEW i \in Nat,
         NEW j \in {2 * i, 2 * i + 1}, at[i] # NULL, LastLeaf(at, j)
  PROVE  /\ Linked(SetSide(h, SideOf(i, j), at[i], NULL), Cut(at, j))
         /\ Counted(SetSide(h, SideOf(i, j), at[i], NULL), Cut(at, j), at[i])
<1> DEFINE side == SideOf(i, j)
           x == at[i]
           g == SetSide(h, side, x, NULL)
           a2 == Cut(at, j)
<1>1. h \in Heaps /\ Tree(at) /\ i # 0 /\ i # j /\ j \in Nat /\ at[j] # NULL /\ at[2 * j] = NULL
  BY LinkedFacts DEF Linked, LastLeaf
<1>2. x \in Nodes /\ side \in Sides /\ NULL \in Ptr
  BY <1>1, TreeFacts DEF SideOf, Sides, Ptr
<1>3. SideWritten(h, g, side, x, NULL)
  BY <1>1, <1>2, SideSet DEF SetSide
<1>4. Tree(a2) /\ a2[j] = NULL /\ \A k \in Nat : k # j => a2[k] = at[k]
  BY <1>1, CutFacts
<1>5. \A k, l \in Nat : at[k] = at[l] /\ at[k] # NULL => k = l
  BY <1>1, TreeFacts
<1>6. Up(j) = i
  BY UpFacts
<1> HIDE DEF g, a2
<1>7. ASSUME NEW k \in Nat, a2[k] # NULL
      PROVE  g.left[a2[k]] = a2[2 * k] /\ g.right[a2[k]] = a2[2 * k + 1] /\ g.up[a2[k]] = a2[Up(k)]
  <2>1. k # j /\ at[k] # NULL /\ a2[k] = at[k]
    BY <1>4, <1>7
  <2>2. at[k] \in Nodes /\ 2 * k \in Nat /\ 2 * k + 1 \in Nat /\ Up(k) \in Nat
    BY <1>1, <2>1, TreeFacts, UpFacts
  <2>3. h.left[at[k]] = at[2 * k] /\ h.right[at[k]] = at[2 * k + 1] /\ h.up[at[k]] = at[Up(k)]
    BY <2>1, LinkedFacts
  <2>4. at[k] = x <=> k = i
    BY <1>1, <1>5, <2>1
  <2>5. g.up[at[k]] = a2[Up(k)]
    <3>1. Up(k) # j
      <4>1. ASSUME Up(k) = j PROVE FALSE
        <5>1. k = 2 * j \/ k = 2 * j + 1
          BY <4>1, UpFacts
        <5>2. at[2 * j + 1] = NULL
          BY <1>1 DEF Tree
        <5> QED  BY <1>1, <2>1, <5>1, <5>2
      <4> QED  BY <4>1
    <3> QED  BY <1>3, <1>4, <2>2, <2>3, <3>1 DEF SideWritten
  <2>6. CASE j = 2 * i
    <3>1. side = "left" /\ 2 * k + 1 # j /\ (2 * k = j <=> k = i)
      BY <2>6 DEF SideOf
    <3>2. g.left[at[k]] = IF at[k] = x THEN NULL ELSE h.left[at[k]]
      BY <1>3, <2>2, <3>1 DEF SideWritten
    <3>3. g.right[at[k]] = a2[2 * k + 1]
      BY <1>3, <1>4, <2>2, <2>3, <3>1 DEF SideWritten
    <3>4. g.left[at[k]] = a2[2 * k]
      BY <1>4, <2>2, <2>3, <2>4, <3>1, <3>2
    <3> QED  BY <2>1, <2>5, <3>3, <3>4
  <2>7. CASE j = 2 * i + 1
    <3>1. side = "right" /\ 2 * k # j /\ (2 * k + 1 = j <=> k = i)
      BY <2>7 DEF SideOf
    <3>2. g.right[at[k]] = IF at[k] = x THEN NULL ELSE h.right[at[k]]
      BY <1>3, <2>2, <3>1 DEF SideWritten
    <3>3. g.left[at[k]] = a2[2 * k]
      BY <1>3, <1>4, <2>2, <2>3, <3>1 DEF SideWritten
    <3>4. g.right[at[k]] = a2[2 * k + 1]
      BY <1>4, <2>2, <2>3, <2>4, <3>1, <3>2
    <3> QED  BY <2>1, <2>5, <3>3, <3>4
  <2> QED  BY <2>6, <2>7
<1>8. Linked(g, a2)
  BY <1>3, <1>4, <1>7 DEF Linked, SideWritten
<1>9. ASSUME NEW k \in Nat, k # j PROVE gp_heap_size(g, a2[k]) = gp_heap_size(h, at[k])
  BY <1>3, <1>4, <1>9 DEF SideWritten, gp_heap_size
<1>10. gp_heap_size(g, a2[j]) = 0 /\ gp_heap_size(h, at[j]) = 1
  <2>1. gp_heap_size(g, a2[j]) = 0
    BY <1>4 DEF gp_heap_size
  <2>2. at[2 * j + 1] = NULL
    BY <1>1 DEF Tree
  <2>3. h.children[at[j]] = gp_heap_size(h, at[2 * j]) + gp_heap_size(h, at[2 * j + 1])
                              + (IF at[j] = NULL THEN 1 ELSE 0)
    BY <1>1 DEF Counted
  <2>4. h.children[at[j]] = 0
    BY <1>1, <2>2, <2>3 DEF gp_heap_size
  <2> QED  BY <1>1, <2>1, <2>4 DEF gp_heap_size
<1>11. ASSUME NEW k \in Nat, a2[k] # NULL
       PROVE /\ g.children[a2[k]] \in Nat
             /\ g.children[a2[k]] = gp_heap_size(g, a2[2 * k]) + gp_heap_size(g, a2[2 * k + 1])
                                      + (IF a2[k] = x THEN 1 ELSE 0)
  <2>1. k # j /\ at[k] # NULL /\ a2[k] = at[k] /\ 2 * k \in Nat /\ 2 * k + 1 \in Nat
    BY <1>4, <1>11
  <2>2. g.children[a2[k]] = h.children[at[k]]
    BY <1>3, <2>1 DEF SideWritten
  <2>3. /\ h.children[at[k]] \in Nat
        /\ h.children[at[k]] = gp_heap_size(h, at[2 * k]) + gp_heap_size(h, at[2 * k + 1])
                                 + (IF at[k] = NULL THEN 1 ELSE 0)
    BY <2>1 DEF Counted
  <2>4. gp_heap_size(h, at[2 * k]) \in Nat /\ gp_heap_size(h, at[2 * k + 1]) \in Nat
    BY <1>1, <2>1, SizeIsNat
  <2>5. a2[k] = x <=> k = i
    BY <1>1, <1>5, <2>1
  <2>6. CASE k = i
    <3>1. CASE j = 2 * i
      <4>1. 2 * i + 1 # j
        BY <3>1
      <4>2. gp_heap_size(g, a2[2 * k + 1]) = gp_heap_size(h, at[2 * k + 1])
        BY <1>9, <2>1, <2>6, <4>1
      <4>3. gp_heap_size(g, a2[2 * k]) = 0 /\ gp_heap_size(h, at[2 * k]) = 1
        BY <1>10, <2>6, <3>1
      <4> QED  BY <2>1, <2>2, <2>3, <2>4, <2>5, <2>6, <4>2, <4>3
    <3>2. CASE j = 2 * i + 1
      <4>1. 2 * i # j
        BY <3>2
      <4>2. gp_heap_size(g, a2[2 * k]) = gp_heap_size(h, at[2 * k])
        BY <1>9, <2>1, <2>6, <4>1
      <4>3. gp_heap_size(g, a2[2 * k + 1]) = 0 /\ gp_heap_size(h, at[2 * k + 1]) = 1
        BY <1>10, <2>6, <3>2
      <4> QED  BY <2>1, <2>2, <2>3, <2>4, <2>5, <2>6, <4>2, <4>3
    <3> QED  BY <3>1, <3>2
  <2>7. CASE k # i
    <3>1. 2 * k # j /\ 2 * k + 1 # j
      <4>1. Up(2 * k) = k /\ Up(2 * k + 1) = k
        BY UpFacts
      <4> QED  BY <1>6, <2>7, <4>1
    <3>2. gp_heap_size(g, a2[2 * k]) = gp_heap_size(h, at[2 * k])
          /\ gp_heap_size(g, a2[2 * k + 1]) = gp_heap_size(h, at[2 * k + 1])
      BY <1>9, <2>1, <3>1
    <3> QED  BY <2>1, <2>2, <2>3, <2>4, <2>5, <2>7, <3>2
  <2> QED  BY <2>6, <2>7
<1>12. Counted(g, a2, x)
  BY <1>11 DEF Counted
<1> QED  BY <1>8, <1>12 DEF g, a2

(* What gp_heap_rem_last() returns for the node of i: the last node below  *)
(* it is at j, and the counts are right but for the one above i.           *)
FoundLast(h, r, at, i, j) ==
  /\ LastLeaf(at, j) /\ i < j
  /\ r.top = at[i] /\ r.last = at[j]
  /\ Linked(r.h, Cut(at, j)) /\ Counted(r.h, Cut(at, j), at[Up(i)])
  /\ SameElsewhere(h, r.h, On(at))
  /\ \A k \in Nat : k < i /\ at[k] # NULL => r.h.children[at[k]] = h.children[at[k]]
  /\ r.h.children[at[i]] = h.children[at[i]] - 1
  /\ IsLast(at, i, j)

RemovesLast(h, r, at, i) ==
  IF at[2 * i] = NULL THEN r = [top |-> NULL, last |-> at[i], h |-> h]
  ELSE \E j : FoundLast(h, r, at, i, j)

RemLastSound(h, rec, at, d) ==
  \A i \in Nat : at[i] # NULL /\ h.children[at[i]] <= d => RemovesLast(h, rec[at[i]], at, i)

(* What is left to do once the last node below the child at c is out.      *)
LEMMA CountsDown ==
  ASSUME NEW h, NEW s, NEW at, NEW i \in Nat, NEW c \in {2 * i, 2 * i + 1}, NEW j,
         Linked(h, at), at[i] # NULL, at[c] # NULL, LastLeaf(at, j), i < j,
         Linked(s, Cut(at, j)), Counted(s, Cut(at, j), at[i]), SameElsewhere(h, s, On(at)),
         \A k \in Nat : k < c /\ at[k] # NULL => s.children[at[k]] = h.children[at[k]],
         IsLast(at, i, j)
  PROVE  FoundLast(h, [top |-> at[i], last |-> at[j], h |-> CountDown(s, at[i])], at, i, j)
<1> DEFINE g == CountDown(s, at[i])
           a2 == Cut(at, j)
           r == [top |-> at[i], last |-> at[j], h |-> g]
<1>1. Tree(at) /\ Tree(a2) /\ s \in Heaps /\ h \in Heaps
  BY DEF Linked
<1>2. j \in Nat /\ i # j /\ i # 0 /\ i < c /\ Up(i) \in Nat /\ Up(i) < i
  <2>1. j \in Nat /\ i # 0
    BY LinkedFacts DEF LastLeaf
  <2> QED  BY <2>1, UpFacts
<1>3. a2[i] = at[i] /\ a2[Up(i)] = at[Up(i)]
  BY <1>1, <1>2, CutFacts
<1>4. at[i] \in Nodes
  BY <1>1, TreeFacts
<1>5. Recounted(s, g, at[i], -1)
  BY <1>1, <1>4, RecountSet DEF CountDown
<1> HIDE DEF a2, g
<1>6. Linked(g, a2)
  BY <1>5, RecountLinked DEF a2
<1>7. Counted(g, a2, at[Up(i)])
  <2>1. Counted(s, a2, a2[i]) /\ a2[i] # NULL /\ Recounted(s, g, a2[i], -1)
    BY <1>3, <1>5 DEF a2
  <2>2. Counted(g, a2, IF -1 = 1 THEN a2[i] ELSE a2[Up(i)])
    BY <1>1, <2>1, RecountCounted
  <2> QED  BY <1>3, <2>2
<1>8. SameElsewhere(h, g, On(at))
  BY <1>5 DEF SameElsewhere, Recounted
<1>9. ASSUME NEW k \in Nat, k < i, at[k] # NULL PROVE g.children[at[k]] = h.children[at[k]]
  <2>1. at[k] # at[i] /\ at[k] \in Nodes
    BY <1>1, <1>9, TreeFacts
  <2>2. g.children[at[k]] = s.children[at[k]]
    BY <1>5, <2>1 DEF Recounted
  <2>3. k < c
    BY <1>2, <1>9
  <2> QED  BY <1>9, <2>2, <2>3
<1>10. g.children[at[i]] = h.children[at[i]] - 1
  <2>1. s.children[at[i]] = h.children[at[i]] /\ h.children[at[i]] \in Int
    BY <1>1, <1>2, <1>4, HeapFields
  <2> QED  BY <1>4, <1>5, <2>1 DEF Recounted
<1>11. r.top = at[i] /\ r.last = at[j] /\ r.h = g
  OBVIOUS
<1> HIDE DEF r
<1>12. FoundLast(h, r, at, i, j)
  BY <1>6, <1>7, <1>8, <1>9, <1>10, <1>11 DEF FoundLast, a2
<1> QED  BY <1>12 DEF r, g
LEMMA LastAtLeaf ==
  ASSUME NEW h, NEW at, Linked(h, at), Counted(h, at, NULL)
  PROVE  RemLastSound(h, RemLeaf(h), at, 0)
<1>1. Tree(at)
  BY DEF Linked
<1>2. ASSUME NEW i \in Nat, at[i] # NULL, h.children[at[i]] <= 0
      PROVE  RemovesLast(h, RemLeaf(h)[at[i]], at, i)
  <2>1. at[2 * i] = NULL
    BY <1>1, <1>2, LeafHasNoChildren
  <2>2. RemLeaf(h)[at[i]] = [top |-> NULL, last |-> at[i], h |-> h]
    BY <1>1, <1>2, TreeFacts DEF RemLeaf
  <2> QED  BY <2>1, <2>2 DEF RemovesLast
<1> QED  BY <1>2 DEF RemLastSound

LEMMA LastStep ==
  ASSUME NEW h, NEW at, Linked(h, at), Counted(h, at, NULL), NEW d \in Nat, NEW rec,
         RemLastSound(h, rec, at, d - 1)
  PROVE  RemLastSound(h, RemLastBody(h, rec), at, d)
<1> SUFFICES ASSUME NEW i \in Nat, at[i] # NULL, h.children[at[i]] <= d
             PROVE  RemovesLast(h, RemLastBody(h, rec)[at[i]], at, i)
  BY DEF RemLastSound
<1> DEFINE x == at[i]
           side == LastSide(h, x)
           c == IF side = "left" THEN 2 * i ELSE 2 * i + 1
           sub == rec[at[c]]
           g == WriteBoth(sub.h, side, x, sub.top)
<1>1. Tree(at) /\ h \in Heaps /\ i # 0 /\ x \in Nodes
  <2>1. Tree(at) /\ h \in Heaps
    BY DEF Linked
  <2> QED  BY <2>1, TreeFacts
<1>2. h.left[x] = at[2 * i] /\ h.right[x] = at[2 * i + 1]
  BY LinkedFacts
<1>3. CASE at[2 * i] = NULL
  <2>1. RemLastBody(h, rec)[x] = [top |-> NULL, last |-> x, h |-> h]
    BY <1>1, <1>2, <1>3 DEF RemLastBody
  <2> QED  BY <1>3, <2>1 DEF RemovesLast
<1>4. CASE at[2 * i] # NULL
  <2>1. /\ side \in Sides /\ (side = "right" => at[2 * i + 1] # NULL)
        /\ side = "left" /\ h.children[at[2 * i]] = 0 =>
             at[2 * i + 1] = NULL \/ h.children[at[2 * i + 1]] < 0
    BY <1>2, LastSideFacts
  <2>2. c \in {2 * i, 2 * i + 1} /\ c \in Nat /\ i < c /\ Up(c) = i
    BY <1>1, UpFacts
  <2>3. at[c] # NULL /\ SideOf(i, c) = side /\ h[side][x] = at[c]
    BY <1>2, <1>4, <2>1 DEF SideOf, Sides
  <2>4. h.children[at[c]] <= d - 1 /\ at[c] \in Nodes
    <3>1. h.children[x] \in Nat /\ h.children[at[c]] \in Nat /\ h.children[at[c]] < h.children[x]
      BY <1>1, <2>2, <2>3, ChildCountsLess
    <3> QED  BY <1>1, <2>2, <2>3, <3>1, TreeFacts
  <2>5. RemovesLast(h, sub, at, c)
    BY <2>2, <2>3, <2>4 DEF RemLastSound
  <2>6. \A n \in Nat : Filled(at, n) /\ Above(i, n) => Above(c, n)
    BY <1>4, LastSideIs DEF SidePosition
  <2>7. RemLastBody(h, rec)[x] = [top |-> x, last |-> sub.last, h |-> g]
    BY <1>1, <1>2, <1>4, <2>3 DEF RemLastBody, WriteBoth
  <2> HIDE DEF c, sub, side, g
  <2>8. ASSUME at[2 * c] = NULL PROVE \E j : FoundLast(h, [top |-> x, last |-> sub.last, h |-> g], at, i, j)
    <3>1. sub = [top |-> NULL, last |-> at[c], h |-> h]
      BY <2>5, <2>8 DEF RemovesLast
    <3>2. c = 2 * i => at[2 * i + 1] = NULL
      <4>1. ASSUME c = 2 * i PROVE at[2 * i + 1] = NULL
        <5>1. side = "left"
          BY <2>3, <4>1 DEF SideOf, c
        <5>2. h.children[at[c]] = 0
          <6>1. at[2 * c + 1] = NULL
            BY <1>1, <2>2, <2>8 DEF Tree
          <6>2. h.children[at[c]] = gp_heap_size(h, at[2 * c]) + gp_heap_size(h, at[2 * c + 1])
                                      + (IF at[c] = NULL THEN 1 ELSE 0)
            BY <2>2, <2>3 DEF Counted
          <6> QED  BY <2>3, <2>8, <6>1, <6>2 DEF gp_heap_size
        <5>3. 2 * i + 1 \in Nat
          OBVIOUS
        <5>4. at[2 * i + 1] # NULL => h.children[at[2 * i + 1]] \in Nat
          BY <5>3 DEF Counted
        <5> QED  BY <2>1, <4>1, <5>1, <5>2, <5>4
      <4> QED  BY <4>1
    <3>3. LastLeaf(at, c)
      BY <2>2, <2>3, <2>8, <3>2 DEF LastLeaf
    <3> DEFINE s == SetSide(h, side, x, NULL)
    <3>4. Linked(s, Cut(at, c)) /\ Counted(s, Cut(at, c), x)
      BY <2>2, <2>3, <3>3, CutLink
    <3>5. SideWritten(h, s, side, x, NULL)
      BY <1>1, <2>1, SideSet DEF SetSide, Ptr
    <3>6. SameElsewhere(h, s, On(at))
      <4>1. x \in On(at)
        BY <1>1, TreeFacts
      <4> QED  BY <2>1, <3>5, <4>1 DEF SideWritten, SameElsewhere, Sides
    <3>7. g = CountDown(s, x)
      <4>1. WriteBoth(h, side, x, NULL) = CountDown(SetSide(h, side, x, NULL), x)
        BY <1>1, <2>1, BothWritten
      <4> QED  BY <3>1, <4>1 DEF g
    <3> HIDE DEF s
    <3>8. \A k \in Nat : k < c /\ at[k] # NULL => s.children[at[k]] = h.children[at[k]]
      BY <3>5 DEF SideWritten
    <3>9. sub.last = at[c]
      BY <3>1
    <3>10. IsLast(at, i, c)
      <4> SUFFICES ASSUME NEW n \in Nat, Filled(at, n), Above(c, n) PROVE c = n
        BY <2>6 DEF IsLast
      <4>1. n < 2 * c
        BY <2>2, <2>8 DEF Filled
      <4> QED  BY <2>2, <4>1, AboveLeaf
    <3>11. FoundLast(h, [top |-> x, last |-> at[c], h |-> CountDown(s, x)], at, i, c)
      BY <2>2, <2>3, <3>3, <3>4, <3>6, <3>8, <3>10, CountsDown
    <3> QED  BY <3>7, <3>9, <3>11
  <2>9. ASSUME at[2 * c] # NULL PROVE \E j : FoundLast(h, [top |-> x, last |-> sub.last, h |-> g], at, i, j)
    <3>1. PICK j : FoundLast(h, sub, at, c, j)
      BY <2>5, <2>9 DEF RemovesLast
    <3> DEFINE s == sub.h
               a2 == Cut(at, j)
    <3>2. /\ LastLeaf(at, j) /\ c < j /\ sub.top = at[c] /\ sub.last = at[j]
          /\ Linked(s, a2) /\ Counted(s, a2, x) /\ SameElsewhere(h, s, On(at))
          /\ \A k \in Nat : k < c /\ at[k] # NULL => s.children[at[k]] = h.children[at[k]]
          /\ IsLast(at, c, j)
      BY <2>2, <3>1 DEF FoundLast
    <3>3. a2[i] = x /\ a2[c] = at[c] /\ i < j /\ j \in Nat
      <4>1. j \in Nat /\ i # j /\ c # j /\ i < j
        BY <2>2, <3>2 DEF LastLeaf
      <4> QED  BY <1>1, <2>2, <3>2, <4>1, CutFacts
    <3> HIDE DEF a2
    <3>4. s.left[x] = a2[2 * i] /\ s.right[x] = a2[2 * i + 1] /\ s \in Heaps
      <4>1. a2[i] # NULL /\ Linked(s, a2)
        BY <3>2, <3>3
      <4>2. s.left[a2[i]] = a2[2 * i] /\ s.right[a2[i]] = a2[2 * i + 1]
        BY <4>1, LinkedFacts
      <4> QED  BY <3>3, <4>1, <4>2 DEF Linked
    <3>5. s[side][x] = sub.top
      <4>1. c = 2 * i \/ c = 2 * i + 1
        BY <2>2
      <4> QED  BY <2>1, <2>3, <3>2, <3>3, <3>4, <4>1 DEF SideOf, Sides
    <3>6. SetSide(s, side, x, sub.top) = s
      <4>1. sub.top \in Ptr
        BY <2>4, <3>2 DEF Ptr
      <4> QED  BY <1>1, <2>1, <3>4, <3>5, <4>1, LinkSet DEF SetSide
    <3>7. g = CountDown(s, x)
      <4>1. WriteBoth(s, side, x, sub.top) = CountDown(SetSide(s, side, x, sub.top), x)
        BY <1>1, <2>1, <3>4, BothWritten
      <4> QED  BY <3>6, <4>1 DEF g
    <3> HIDE DEF s
    <3>8. IsLast(at, i, j)
      BY <2>6, <3>2 DEF IsLast
    <3>9. FoundLast(h, [top |-> x, last |-> at[j], h |-> CountDown(s, x)], at, i, j)
      BY <2>2, <2>3, <3>2, <3>3, <3>8, CountsDown DEF a2
    <3> QED  BY <3>2, <3>7, <3>9
  <2>10. \E j : FoundLast(h, [top |-> x, last |-> sub.last, h |-> g], at, i, j)
    BY <2>8, <2>9
  <2>11. \E j : FoundLast(h, RemLastBody(h, rec)[x], at, i, j)
    BY <2>7, <2>10
  <2> QED  BY <1>4, <2>11 DEF RemovesLast
<1> QED  BY <1>3, <1>4

(* The last node of the last level is taken off, whatever the counts say.  *)
LEMMA RemLastFinds ==
  ASSUME NEW h, NEW at, Linked(h, at), Counted(h, at, NULL), at[1] # NULL
  PROVE  RemovesLast(h, gp_heap_rem_last(h, at[1]), at, 1)
<1> DEFINE depth == gp_heap_size(h, at[1])
           rem == RemLast(h, depth)
           G == {d \in 0 .. depth : RemLastSound(h, rem[d], at, d)}
<1>1. Tree(at) /\ h \in Heaps
  BY DEF Linked
<1>2. depth \in Nat /\ h.children[at[1]] <= depth
  <2>1. depth = h.children[at[1]] + 1 /\ h.children[at[1]] \in Nat
    BY DEF gp_heap_size, Counted
  <2> QED  BY <2>1
<1> HIDE DEF depth
<1>3. rem[0] = RemLeaf(h) /\ \A d \in 1 .. depth : rem[d] = RemLastBody(h, rem[d - 1])
  BY <1>1, <1>2, RemLastUnfolds
<1> HIDE DEF rem
<1>4. 0 \in G
  BY <1>2, <1>3, LastAtLeaf
<1>5. ASSUME NEW d \in 1 .. depth, d - 1 \in G PROVE d \in G
  <2>1. RemLastSound(h, RemLastBody(h, rem[d - 1]), at, d)
    BY <1>5, LastStep
  <2> QED  BY <1>3, <2>1
<1> HIDE DEF G
<1>6. depth \in G
  BY <1>2, <1>4, <1>5, DepthInduction
<1>7. RemLastSound(h, rem[depth], at, depth)
  BY <1>6 DEF G
<1>8. RemovesLast(h, rem[depth][at[1]], at, 1)
  BY <1>2, <1>7 DEF RemLastSound
<1> QED  BY <1>8 DEF gp_heap_rem_last, depth, rem
-----------------------------------------------------------------------------
(* A node is put at a position.                                            *)

PutAt(at, k, n) == [at EXCEPT ![k] = n]

MayPut(at, k) ==
  /\ k \in Nat \ {0}
  /\ k # 1 => at[Up(k)] # NULL
  /\ k # 1 /\ k = 2 * Up(k) + 1 => at[2 * Up(k)] # NULL

LEMMA PutFacts ==
  ASSUME NEW at, Tree(at), NEW k, MayPut(at, k), NEW n \in Nodes, n \notin On(at)
  PROVE  /\ Tree(PutAt(at, k, n)) /\ On(PutAt(at, k, n)) = (On(at) \ {at[k]}) \cup {n}
         /\ PutAt(at, k, n)[k] = n /\ \A m \in Nat : m # k => PutAt(at, k, n)[m] = at[m]
<1> DEFINE a3 == PutAt(at, k, n)
<1>1. k \in Nat /\ k # 0 /\ n # NULL
  BY NullAssumption DEF MayPut
<1>2. a3[k] = n /\ \A m \in Nat : m # k => a3[m] = at[m]
  BY <1>1 DEF PutAt, Tree
<1>3. a3 \in [Nat -> Ptr] /\ a3[0] = NULL
  BY <1>1, <1>2 DEF PutAt, Tree, Ptr
<1> HIDE DEF a3
<1>4. \A m \in Nat : at[m] # n
  BY DEF On
<1>5. \A m, l \in Nat : a3[m] = a3[l] /\ a3[m] # NULL => m = l
  BY <1>2, <1>4, TreeFacts
<1>6. ASSUME NEW i \in Nat, i # 0, a3[i] = NULL PROVE a3[2 * i] = NULL /\ a3[2 * i + 1] = NULL
  <2>1. 2 * i \in Nat /\ 2 * i + 1 \in Nat /\ Up(2 * i) = i /\ Up(2 * i + 1) = i
    BY UpFacts
  <2>2. i # k /\ at[i] = NULL
    BY <1>1, <1>2, <1>6
  <2>3. 2 * i # k /\ 2 * i + 1 # k
    BY <1>6, <2>1, <2>2 DEF MayPut
  <2>4. at[2 * i] = NULL /\ at[2 * i + 1] = NULL
    BY <1>6, <2>2 DEF Tree
  <2> QED  BY <1>2, <2>1, <2>3, <2>4
<1>7. ASSUME NEW i \in Nat, i # 0, a3[2 * i] = NULL PROVE a3[2 * i + 1] = NULL
  <2>1. 2 * i \in Nat /\ 2 * i + 1 \in Nat /\ Up(2 * i) = i /\ Up(2 * i + 1) = i
    BY UpFacts
  <2>2. 2 * i # k /\ at[2 * i] = NULL
    BY <1>1, <1>2, <1>7, <2>1
  <2>3. 2 * i + 1 # k
    BY <1>7, <2>1, <2>2 DEF MayPut
  <2>4. at[2 * i + 1] = NULL
    BY <1>7, <2>2 DEF Tree
  <2> QED  BY <1>2, <2>1, <2>3, <2>4
<1>8. Tree(a3)
  BY <1>3, <1>5, <1>6, <1>7 DEF Tree
<1>9. On(a3) = (On(at) \ {at[k]}) \cup {n}
  <2>1. ASSUME NEW m \in On(a3) PROVE m \in (On(at) \ {at[k]}) \cup {n}
    <3>1. PICK l \in Nat : a3[l] = m /\ m \in Nodes
      BY DEF On
    <3>2. CASE l = k
      BY <1>2, <3>1, <3>2
    <3>3. CASE l # k
      <4>1. at[l] = m /\ m # NULL
        BY <1>2, <3>1, <3>3, NullAssumption
      <4>2. at[k] # m
        BY <1>1, <3>1, <3>3, <4>1, TreeFacts
      <4> QED  BY <3>1, <4>1, <4>2 DEF On
    <3> QED  BY <3>2, <3>3
  <2>2. ASSUME NEW m \in On(at), m # at[k] PROVE m \in On(a3)
    BY <1>2, <2>2 DEF On
  <2>3. n \in On(a3)
    BY <1>1, <1>2 DEF On
  <2> QED  BY <2>1, <2>2, <2>3
<1> QED  BY <1>2, <1>8, <1>9 DEF a3

LEMMA MayReplace ==
  ASSUME NEW at, Tree(at), NEW k \in Nat, at[k] # NULL
  PROVE  MayPut(at, k)
<1>1. k # 0
  BY TreeFacts
<1>2. Up(k) \in Nat /\ (k = 2 * Up(k) \/ k = 2 * Up(k) + 1)
  BY UpFacts
<1>3. k # 1 => Up(k) # 0
  BY <1>1, <1>2
<1>4. k # 1 => at[Up(k)] # NULL
  BY <1>3, UpInTree
<1>5. k # 1 /\ k = 2 * Up(k) + 1 => at[2 * Up(k)] # NULL
  BY <1>2, <1>3 DEF Tree
<1> QED  BY <1>1, <1>4, <1>5 DEF MayPut

-----------------------------------------------------------------------------
(* The node that is removed is replaced by the last one.                   *)

Replaced(h, g, elem, last, up) ==
  /\ g \in Heaps /\ g.bug = h.bug
  /\ \A n \in Nodes :
       g.left[n] = IF n = last THEN h.left[elem]
                   ELSE IF n = up /\ h.left[n] = elem THEN last ELSE h.left[n]
  /\ \A n \in Nodes :
       g.right[n] = IF n = last THEN h.right[elem]
                    ELSE IF n = up /\ h.left[n] # elem THEN last ELSE h.right[n]
  /\ \A n \in Nodes :
       g.up[n] = IF n = h.left[elem] \/ n = h.right[elem] THEN last
                 ELSE IF n = last THEN up ELSE h.up[n]
  /\ \A n \in Nodes : g.children[n] = IF n = last THEN h.children[elem] ELSE h.children[n]

LEMMA ReplaceFields ==
  ASSUME NEW h \in Heaps, NEW elem \in Nodes, NEW last \in Nodes, NEW up \in Ptr,
         up # last, last # elem,
         up # NULL => h.left[up] = elem \/ h.right[up] = elem
  PROVE  Replaced(h, Replace(h, elem, last, up), elem, last, up)
<1> DEFINE g0 == [h EXCEPT !.left[last] = h.left[elem], !.right[last] = h.right[elem],
                           !.children[last] = h.children[elem], !.up[last] = up]
           g1 == gp_heap_fix_up(g0, up, elem, last)
           g2 == gp_heap_fix_up_lr(g1, last, last)
<1>0. g0 = [h EXCEPT !.left[last] = h.left[elem], !.right[last] = h.right[elem],
                      !.children[last] = h.children[elem], !.up[last] = up]
  OBVIOUS
<1> HIDE DEF g0
<1>1. /\ g0.left = [h.left EXCEPT ![last] = h.left[elem]]
      /\ g0.right = [h.right EXCEPT ![last] = h.right[elem]]
      /\ g0.children = [h.children EXCEPT ![last] = h.children[elem]]
      /\ g0.up = [h.up EXCEPT ![last] = up]
      /\ g0.bug = h.bug
      /\ g0 = [left |-> g0.left, right |-> g0.right, up |-> g0.up, children |-> g0.children,
               bug |-> g0.bug]
  BY <1>0 DEF Heaps
<1>2. /\ h.left \in [Nodes -> Ptr] /\ h.right \in [Nodes -> Ptr] /\ h.up \in [Nodes -> Ptr]
      /\ h.children \in [Nodes -> Int] /\ h.bug \in BOOLEAN
  BY HeapFields
<1>3. g0 \in Heaps
  BY <1>1, <1>2 DEF Heaps
<1>4. \A n \in Nodes : /\ g0.left[n] = IF n = last THEN h.left[elem] ELSE h.left[n]
                       /\ g0.right[n] = IF n = last THEN h.right[elem] ELSE h.right[n]
                       /\ g0.up[n] = IF n = last THEN up ELSE h.up[n]
                       /\ g0.children[n] = IF n = last THEN h.children[elem] ELSE h.children[n]
  BY <1>1, <1>2
<1>5. up # NULL => g0.left[up] = elem \/ g0.right[up] = elem
  BY <1>4 DEF Ptr
<1>6. last \in Ptr
  BY DEF Ptr
<1>7. FixedUp(g0, g1, up, elem, last)
  BY <1>3, <1>5, <1>6, FixUpFields
<1> HIDE DEF g1
<1>8. g2 = [g1 EXCEPT !.up = [n \in Nodes |-> IF n \in {g1.left[last], g1.right[last]} THEN last
                                               ELSE g1.up[n]]]
  BY DEF gp_heap_fix_up_lr
<1>9. g1 \in Heaps
  BY <1>7 DEF FixedUp
<1> HIDE DEF g2
<1>10. /\ g2.left = g1.left /\ g2.right = g1.right /\ g2.children = g1.children /\ g2.bug = g1.bug
       /\ g2.up = [n \in Nodes |-> IF n \in {g1.left[last], g1.right[last]} THEN last ELSE g1.up[n]]
       /\ g2 = [left |-> g2.left, right |-> g2.right, up |-> g2.up, children |-> g2.children,
                bug |-> g2.bug]
  BY <1>8, <1>9 DEF Heaps
<1>11. g2.up \in [Nodes -> Ptr]
  BY <1>6, <1>9, <1>10, HeapFields
<1>12. g2 \in Heaps
  BY <1>9, <1>10, <1>11 DEF Heaps
<1>13. g1.left[last] = h.left[elem] /\ g1.right[last] = h.right[elem]
  BY <1>4, <1>7 DEF FixedUp
<1>14. \A n \in Nodes :
         g2.up[n] = IF n = h.left[elem] \/ n = h.right[elem] THEN last
                    ELSE IF n = last THEN up ELSE h.up[n]
  <2>1. \A n \in Nodes : g1.up[n] = IF n = last THEN up ELSE h.up[n]
    BY <1>4, <1>7 DEF FixedUp
  <2>2. g2.up = [n \in Nodes |-> IF n \in {h.left[elem], h.right[elem]} THEN last ELSE g1.up[n]]
    BY <1>10, <1>13, Zenon
  <2>3. \A n \in Nodes :
          g2.up[n] = IF n = h.left[elem] \/ n = h.right[elem] THEN last ELSE g1.up[n]
    BY <2>2
  <2> QED  BY <2>1, <2>3
<1>15. \A n \in Nodes :
         /\ g2.left[n] = IF n = last THEN h.left[elem]
                         ELSE IF n = up /\ h.left[n] = elem THEN last ELSE h.left[n]
         /\ g2.right[n] = IF n = last THEN h.right[elem]
                          ELSE IF n = up /\ h.left[n] # elem THEN last ELSE h.right[n]
         /\ g2.children[n] = IF n = last THEN h.children[elem] ELSE h.children[n]
  <2> SUFFICES ASSUME NEW n \in Nodes
               PROVE  /\ g1.left[n] = IF n = last THEN h.left[elem]
                                      ELSE IF n = up /\ h.left[n] = elem THEN last ELSE h.left[n]
                      /\ g1.right[n] = IF n = last THEN h.right[elem]
                                       ELSE IF n = up /\ h.left[n] # elem THEN last ELSE h.right[n]
                      /\ g1.children[n] = IF n = last THEN h.children[elem] ELSE h.children[n]
    BY <1>10
  <2>1. /\ g1.left[n] = IF n = up /\ g0.left[n] = elem THEN last ELSE g0.left[n]
        /\ g1.right[n] = IF n = up /\ g0.left[n] # elem THEN last ELSE g0.right[n]
        /\ g1.children = g0.children
    BY <1>7 DEF FixedUp
  <2>2. CASE n = last
    BY <1>4, <2>1, <2>2
  <2>3. CASE n # last
    BY <1>4, <2>1, <2>3
  <2> QED  BY <2>2, <2>3
<1>16. g2.bug = h.bug
  BY <1>1, <1>7, <1>10 DEF FixedUp
<1>17. Replaced(h, g2, elem, last, up)
  BY <1>12, <1>14, <1>15, <1>16 DEF Replaced
<1>18. Replace(h, elem, last, up) = g2
  BY DEF Replace, g2, g1, g0
<1> QED  BY <1>17, <1>18
ReplaceDone(h, g, at, k, last) ==
  /\ Linked(g, PutAt(at, k, last)) /\ Counted(g, PutAt(at, k, last), NULL)
  /\ On(PutAt(at, k, last)) = (On(at) \ {at[k]}) \cup {last}
  /\ SameElsewhere(h, g, On(at) \cup {last})
  /\ gp_heap_size(g, PutAt(at, k, last)[1]) = gp_heap_size(h, at[1])

LEMMA ReplaceSound ==
  ASSUME NEW h, NEW at, Linked(h, at), Counted(h, at, NULL), NEW k \in Nat, at[k] # NULL,
         NEW last \in Nodes, last \notin On(at)
  PROVE  ReplaceDone(h, Replace(h, at[k], last, h.up[at[k]]), at, k, last)
<1> DEFINE x == at[k]
           up == h.up[x]
           g == Replace(h, x, last, up)
           a3 == PutAt(at, k, last)
<1>1. h \in Heaps /\ Tree(at)
  BY DEF Linked
<1>2. /\ k # 0 /\ x \in Nodes /\ x # last /\ up = at[Up(k)] /\ up \in Ptr /\ up # last
      /\ Up(k) \in Nat /\ Up(k) # k /\ last # NULL
      /\ h.left[x] = at[2 * k] /\ h.right[x] = at[2 * k + 1]
  <2>1. k # 0 /\ x \in Nodes /\ x \in On(at) /\ last # NULL
    BY <1>1, TreeFacts, NullAssumption
  <2>2. up = at[Up(k)] /\ h.left[x] = at[2 * k] /\ h.right[x] = at[2 * k + 1]
    BY LinkedFacts
  <2>3. Up(k) \in Nat /\ Up(k) < k
    BY <2>1, UpFacts
  <2>4. at[Up(k)] \in Ptr /\ (at[Up(k)] # NULL => at[Up(k)] \in On(at))
    BY <1>1, <2>3, TreeFacts
  <2> QED  BY <2>1, <2>2, <2>3, <2>4
<1>3. up # NULL => h.left[up] = x \/ h.right[up] = x
  <2>1. ASSUME up # NULL PROVE h.left[up] = x \/ h.right[up] = x
    <3>1. h.left[up] = at[2 * Up(k)] /\ h.right[up] = at[2 * Up(k) + 1]
      BY <1>2, <2>1, LinkedFacts
    <3>2. k = 2 * Up(k) \/ k = 2 * Up(k) + 1
      BY UpFacts
    <3> QED  BY <3>1, <3>2
  <2> QED  BY <2>1
<1>4. Replaced(h, g, x, last, up)
  BY <1>1, <1>2, <1>3, ReplaceFields
<1>5. MayPut(at, k)
  BY <1>1, MayReplace
<1>6. /\ Tree(a3) /\ On(a3) = (On(at) \ {x}) \cup {last}
      /\ a3[k] = last /\ \A m \in Nat : m # k => a3[m] = at[m]
  BY <1>1, <1>5, PutFacts
<1>7. \A m, l \in Nat : at[m] = at[l] /\ at[m] # NULL => m = l
  BY <1>1, TreeFacts
<1>8. \A m \in Nat : at[m] # last
  BY DEF On
<1>9. \A m \in Nat : a3[m] = NULL <=> at[m] = NULL
  BY <1>2, <1>6
<1> HIDE DEF g, a3, up
<1>10. ASSUME NEW m \in Nat, a3[m] # NULL
       PROVE  g.left[a3[m]] = a3[2 * m] /\ g.right[a3[m]] = a3[2 * m + 1] /\ g.up[a3[m]] = a3[Up(m)]
  <2>1. 2 * m \in Nat /\ 2 * m + 1 \in Nat /\ Up(m) \in Nat
        /\ 2 * k \in Nat /\ 2 * k + 1 \in Nat /\ 2 * k # k /\ 2 * k + 1 # k
    BY <1>2, UpFacts
  <2>2. CASE m = k
    <3>1. g.left[last] = at[2 * k] /\ g.right[last] = at[2 * k + 1]
      BY <1>2, <1>4 DEF Replaced
    <3>2. g.up[last] = up
      BY <1>2, <1>4, <1>8, <2>1 DEF Replaced
    <3> QED  BY <1>2, <1>6, <2>1, <2>2, <3>1, <3>2
  <2>3. CASE m # k
    <3> DEFINE n == at[m]
    <3>1. a3[m] = n /\ n # NULL /\ n \in Nodes /\ n # last /\ n # x
      BY <1>1, <1>6, <1>7, <1>8, <1>10, <2>3, TreeFacts
    <3>2. h.left[n] = at[2 * m] /\ h.right[n] = at[2 * m + 1] /\ h.up[n] = at[Up(m)]
      BY <3>1, LinkedFacts
    <3>3. /\ g.left[n] = IF n = up /\ h.left[n] = x THEN last ELSE h.left[n]
          /\ g.right[n] = IF n = up /\ h.left[n] # x THEN last ELSE h.right[n]
          /\ g.up[n] = IF n = h.left[x] \/ n = h.right[x] THEN last ELSE h.up[n]
      BY <1>4, <3>1 DEF Replaced
    <3>4. n = up <=> m = Up(k)
      BY <1>2, <1>7, <3>1
    <3>5. \A l \in Nat : at[l] = x <=> l = k
      BY <1>2, <1>7
    <3>6. g.left[n] = a3[2 * m]
      <4>1. h.left[n] = x <=> 2 * m = k
        BY <2>1, <3>2, <3>5
      <4>2. 2 * m = k => m = Up(k)
        BY UpFacts
      <4> HIDE DEF n
      <4>3. CASE 2 * m = k
        BY <1>6, <3>3, <3>4, <4>1, <4>2, <4>3
      <4>4. CASE 2 * m # k
        <5>1. g.left[n] = h.left[n]
          BY <3>3, <4>1, <4>4
        <5> QED  BY <1>6, <2>1, <3>2, <4>4, <5>1
      <4> QED  BY <4>3, <4>4
    <3>7. g.right[n] = a3[2 * m + 1]
      <4>1. h.left[n] = x <=> 2 * m = k
        BY <2>1, <3>2, <3>5
      <4>2. 2 * m + 1 = k <=> m = Up(k) /\ 2 * m # k
        <5>1. Up(2 * m + 1) = m /\ (k = 2 * Up(k) \/ k = 2 * Up(k) + 1)
          BY UpFacts
        <5> QED  BY <5>1
      <4> HIDE DEF n
      <4>3. CASE 2 * m + 1 = k
        BY <1>6, <3>3, <3>4, <4>1, <4>2, <4>3
      <4>4. CASE 2 * m + 1 # k
        <5>1. g.right[n] = h.right[n]
          BY <3>3, <3>4, <4>1, <4>2, <4>4
        <5> QED  BY <1>6, <2>1, <3>2, <4>4, <5>1
      <4> QED  BY <4>3, <4>4
    <3>8. g.up[n] = a3[Up(m)]
      <4>1. n = h.left[x] \/ n = h.right[x] <=> m = 2 * k \/ m = 2 * k + 1
        BY <1>2, <1>7, <2>1, <3>1
      <4>2. Up(m) = k <=> m = 2 * k \/ m = 2 * k + 1
        <5>1. Up(2 * k) = k /\ Up(2 * k + 1) = k /\ (m = 2 * Up(m) \/ m = 2 * Up(m) + 1)
          BY UpFacts
        <5> QED  BY <5>1
      <4> HIDE DEF n
      <4>3. CASE Up(m) = k
        BY <1>6, <3>3, <4>1, <4>2, <4>3
      <4>4. CASE Up(m) # k
        BY <1>6, <2>1, <3>2, <3>3, <4>1, <4>2, <4>4
      <4> QED  BY <4>3, <4>4
    <3> QED  BY <3>1, <3>6, <3>7, <3>8
  <2> QED  BY <2>2, <2>3
<1>11. Linked(g, a3)
  BY <1>4, <1>6, <1>10 DEF Linked, Replaced
<1>12. ASSUME NEW m \in Nat, at[m] # NULL PROVE g.children[a3[m]] = h.children[at[m]]
  <2>1. CASE m = k
    BY <1>2, <1>4, <1>6, <2>1 DEF Replaced
  <2>2. CASE m # k
    <3>1. a3[m] = at[m] /\ at[m] # last /\ at[m] \in Nodes
      BY <1>1, <1>6, <1>8, <1>12, <2>2, TreeFacts
    <3> QED  BY <1>4, <3>1 DEF Replaced
  <2> QED  BY <2>1, <2>2
<1>13. Counted(g, a3, NULL) /\ gp_heap_size(g, a3[1]) = gp_heap_size(h, at[1])
  BY <1>9, <1>12, CountedAcross
<1>14. SameElsewhere(h, g, On(at) \cup {last})
  <2>1. \A n \in Nodes \ (On(at) \cup {last}) : n # last /\ n # up
    <3>1. up # NULL => up \in On(at)
      BY <1>1, <1>2, TreeFacts
    <3> QED  BY <3>1, NullAssumption
  <2> QED  BY <1>4, <2>1 DEF Replaced, SameElsewhere
<1>15. ReplaceDone(h, g, at, k, last)
  BY <1>6, <1>11, <1>13, <1>14 DEF ReplaceDone, a3
<1> QED  BY <1>15 DEF g, up
-----------------------------------------------------------------------------
(* gp_heap_pop() and gp_heap_rem().                                        *)

HeapOf(h, top, at) == Linked(h, at) /\ Counted(h, at, NULL) /\ top = at[1]

(* Without a root there is nothing.                                        *)
LEMMA EmptyTree ==
  ASSUME NEW at, Tree(at), at[1] = NULL
  PROVE  \A k \in Nat : at[k] = NULL
<1> DEFINE Bad == {k \in Nat : at[k] # NULL}
<1>1. Bad = {}
  <2> SUFFICES ASSUME Bad # {} PROVE FALSE
    OBVIOUS
  <2>1. PICK k \in Bad : \A y \in Bad : k =< y
    <3>1. Bad \subseteq Nat
      OBVIOUS
    <3> QED  BY <3>1, SmallestExists
  <2>2. k \in Nat /\ at[k] # NULL /\ k # 0 /\ k # 1
    BY <2>1, TreeFacts
  <2>3. Up(k) \in Nat /\ Up(k) < k /\ (k = 2 * Up(k) \/ k = 2 * Up(k) + 1)
    BY <2>2, UpFacts
  <2>4. Up(k) # 0
    BY <2>2, <2>3
  <2>5. at[Up(k)] # NULL
    BY <2>2, <2>4, UpInTree
  <2> QED  BY <2>1, <2>3, <2>5
<1> QED  BY <1>1

LEMMA EmptyHeap ==
  ASSUME NEW h \in Heaps, NEW at, Tree(at), at[1] = NULL, NEW key
  PROVE  HeapOf(h, NULL, at) /\ On(at) = {} /\ Ordered(at, key)
<1>1. \A k \in Nat : at[k] = NULL
  BY EmptyTree
<1> QED  BY <1>1, NullAssumption DEF HeapOf, Linked, Counted, On, Ordered, Edge

LEMMA SameTwice ==
  ASSUME NEW h, NEW g, NEW f, NEW S, NEW T, SameElsewhere(h, g, S), SameElsewhere(g, f, T),
         T \subseteq S
  PROVE  SameElsewhere(h, f, S)
BY DEF SameElsewhere

(* The keys that count are those of the nodes that stay.                   *)
SameKeys(key0, key, n) == \A m \in Nodes : m # n => key0[m] = key[m]

Removed(h, r, at, a2, n, key0, key) ==
  /\ HeapOf(r.h, r.top, a2) /\ On(a2) = On(at) \ {n}
  /\ SameElsewhere(h, r.h, On(at)) /\ FilledLess(at, a2)
  /\ Ordered(at, key0) => Ordered(a2, key)

LEMMA CutOrder ==
  ASSUME NEW at, Tree(at), NEW j, LastLeaf(at, j), NEW key0, NEW key, SameKeys(key0, key, at[j]),
         Ordered(at, key0)
  PROVE  Ordered(Cut(at, j), key)
<1>1. Cut(at, j)[j] = NULL /\ \A k \in Nat : k # j => Cut(at, j)[k] = at[k]
  BY CutFacts
<1>2. j \in Nat /\ at[j] # NULL
  BY DEF LastLeaf
<1>3. ASSUME NEW k \in Nat, Cut(at, j)[k] # NULL, Cut(at, j)[Up(k)] # NULL
      PROVE  key[Cut(at, j)[Up(k)]] <= key[Cut(at, j)[k]]
  <2>1. k # j /\ Up(k) # j /\ Up(k) \in Nat
    BY <1>1, <1>3, UpFacts
  <2>2. Cut(at, j)[k] = at[k] /\ Cut(at, j)[Up(k)] = at[Up(k)]
    BY <1>1, <2>1
  <2>3. /\ at[k] # at[j] /\ at[Up(k)] # at[j] /\ at[k] \in Nodes /\ at[Up(k)] \in Nodes
    BY <1>2, <1>3, <2>1, <2>2, TreeFacts
  <2>4. key0[at[Up(k)]] <= key0[at[k]]
    BY <1>3, <2>2 DEF Ordered, Edge
  <2> QED  BY <2>2, <2>3, <2>4 DEF SameKeys
<1> QED  BY <1>3 DEF Ordered, Edge

LEMMA ReplaceOrder ==
  ASSUME NEW at, Tree(at), NEW j, LastLeaf(at, j), NEW k \in Nat, k # j, at[k] # NULL,
         NEW key0 \in [Nodes -> Int], NEW key, SameKeys(key0, key, at[k]), Ordered(at, key0)
  PROVE  OrderedAround(PutAt(Cut(at, j), k, at[j]), key, k)
<1> DEFINE a1 == Cut(at, j)
           a3 == PutAt(a1, k, at[j])
<1>1. Tree(a1) /\ On(a1) = On(at) \ {at[j]} /\ a1[j] = NULL /\ \A m \in Nat : m # j => a1[m] = at[m]
  BY CutFacts
<1>2. j \in Nat /\ at[j] # NULL /\ at[j] \in Nodes
  BY TreeFacts DEF LastLeaf
<1>3. at[j] \notin On(a1) /\ MayPut(a1, k)
  BY <1>1, MayReplace
<1>4. a3[k] = at[j] /\ \A m \in Nat : m # k => a3[m] = a1[m]
  BY <1>1, <1>2, <1>3, PutFacts
<1> HIDE DEF a1, a3
<1>5. ASSUME NEW m \in Nat, m # k, a3[m] # NULL
      PROVE  a3[m] = at[m] /\ at[m] # at[k] /\ at[m] \in Nodes
  <2>1. m # j
    BY <1>1, <1>4, <1>5
  <2>2. a3[m] = at[m]
    BY <1>1, <1>4, <1>5, <2>1
  <2> QED  BY <1>5, <2>2, TreeFacts
<1>6. ASSUME NEW m \in Nat, Up(m) # k, m # k PROVE Edge(a3, key, m)
  <2> SUFFICES ASSUME a3[m] # NULL, a3[Up(m)] # NULL PROVE key[a3[Up(m)]] <= key[a3[m]]
    BY DEF Edge
  <2>1. Up(m) \in Nat
    BY UpFacts
  <2>2. /\ a3[m] = at[m] /\ at[m] # at[k] /\ at[m] \in Nodes
        /\ a3[Up(m)] = at[Up(m)] /\ at[Up(m)] # at[k] /\ at[Up(m)] \in Nodes
    BY <1>5, <1>6, <2>1
  <2>3. key0[at[Up(m)]] <= key0[at[m]]
    BY <2>2 DEF Ordered, Edge
  <2> QED  BY <2>2, <2>3 DEF SameKeys
<1>7. ASSUME NEW m \in Nat, Up(m) = k, a3[m] # NULL, a3[Up(k)] # NULL
      PROVE  key[a3[Up(k)]] <= key[a3[m]]
  <2>1. k # 0
    BY TreeFacts
  <2>2. m # k /\ Up(k) # k /\ Up(k) \in Nat
    BY <1>7, <2>1, UpFacts
  <2>3. /\ a3[m] = at[m] /\ at[m] # at[k] /\ at[m] \in Nodes
        /\ a3[Up(k)] = at[Up(k)] /\ at[Up(k)] # at[k] /\ at[Up(k)] \in Nodes
    BY <1>5, <1>7, <2>2
  <2>4. key0[at[Up(k)]] <= key0[at[k]] /\ key0[at[k]] <= key0[at[m]]
    BY <1>7, <2>3 DEF Ordered, Edge
  <2>5. at[k] \in Nodes /\ key0[at[k]] \in Int /\ key0[at[m]] \in Int /\ key0[at[Up(k)]] \in Int
    BY <2>3, TreeFacts
  <2>6. key0[at[Up(k)]] <= key0[at[m]]
    BY <2>4, <2>5
  <2> QED  BY <2>3, <2>6 DEF SameKeys
<1>8. OrderedAround(a3, key, k)
  BY <1>6, <1>7 DEF OrderedAround
<1> QED  BY <1>8 DEF a1, a3

(* The single node goes.                                                   *)
LEMMA SingleNode ==
  ASSUME NEW h, NEW at, Linked(h, at), at[1] # NULL, at[2] = NULL, NEW key0, NEW key
  PROVE  /\ Removed(h, [top |-> NULL, h |-> h], at, Cut(at, 1), at[1], key0, key)
         /\ On(at) = {at[1]}
<1>1. h \in Heaps /\ Tree(at) /\ Up(1) = 0
  BY DEF Linked, Up
<1>2. LastLeaf(at, 1)
  BY <1>1 DEF LastLeaf
<1>3. /\ Tree(Cut(at, 1)) /\ On(Cut(at, 1)) = On(at) \ {at[1]} /\ Cut(at, 1)[1] = NULL
  BY <1>1, <1>2, CutFacts
<1>4. HeapOf(h, NULL, Cut(at, 1)) /\ On(Cut(at, 1)) = {} /\ Ordered(Cut(at, 1), key)
  BY <1>1, <1>3, EmptyHeap
<1>5. at[1] \in On(at)
  BY <1>1, TreeFacts
<1>6. SameElsewhere(h, h, On(at))
  BY DEF SameElsewhere
<1>7. IsLast(at, 1, 1)
  <2> SUFFICES ASSUME NEW n \in Nat, Filled(at, n) PROVE 1 = n
    BY DEF IsLast
  <2> QED  BY DEF Filled
<1>8. FilledLess(at, Cut(at, 1))
  BY <1>1, <1>2, <1>7, CutFilled
<1> QED  BY <1>3, <1>4, <1>5, <1>6, <1>8 DEF Removed
(* After the last node was found, what it replaces is any other node.      *)
LEMMA LastReplaces ==
  ASSUME NEW h, NEW at, Linked(h, at), Counted(h, at, NULL), at[1] # NULL,
         NEW cut, NEW j, FoundLast(h, cut, at, 1, j), NEW k \in Nat, at[k] # NULL, k # j
  PROVE  /\ ReplaceDone(cut.h, Replace(cut.h, at[k], at[j], cut.h.up[at[k]]), Cut(at, j), k, at[j])
         /\ On(PutAt(Cut(at, j), k, at[j])) = On(at) \ {at[k]}
         /\ SameElsewhere(h, Replace(cut.h, at[k], at[j], cut.h.up[at[k]]), On(at))
         /\ gp_heap_size(Replace(cut.h, at[k], at[j], cut.h.up[at[k]]), PutAt(Cut(at, j), k, at[j])[1])
              = h.children[at[1]]
         /\ PutAt(Cut(at, j), k, at[j])[k] = at[j]
         /\ FilledLess(at, PutAt(Cut(at, j), k, at[j]))
<1> DEFINE a1 == Cut(at, j)
           a3 == PutAt(a1, k, at[j])
           g == Replace(cut.h, at[k], at[j], cut.h.up[at[k]])
<1>1. Tree(at) /\ h \in Heaps
  BY DEF Linked
<1>2. /\ LastLeaf(at, j) /\ 1 < j /\ Linked(cut.h, a1) /\ SameElsewhere(h, cut.h, On(at))
      /\ cut.h.children[at[1]] = h.children[at[1]] - 1
  BY DEF FoundLast
<1>3. j \in Nat /\ at[j] # NULL /\ at[j] \in Nodes /\ at[j] \in On(at)
  BY <1>1, <1>2, TreeFacts DEF LastLeaf
<1>4. Counted(cut.h, a1, NULL)
  <2>1. Up(1) = 0 /\ at[0] = NULL
    BY <1>1 DEF Up, Tree
  <2> QED  BY <2>1 DEF FoundLast
<1>5. Tree(a1) /\ On(a1) = On(at) \ {at[j]} /\ a1[j] = NULL /\ \A m \in Nat : m # j => a1[m] = at[m]
  BY <1>1, <1>2, CutFacts
<1>6. a1[k] = at[k] /\ at[j] \notin On(a1) /\ a1[1] = at[1]
  BY <1>2, <1>3, <1>5
<1> HIDE DEF a1
<1>7. ReplaceDone(cut.h, g, a1, k, at[j])
  BY <1>2, <1>3, <1>4, <1>6, ReplaceSound
<1> HIDE DEF g
<1>8. On(a3) = On(at) \ {at[k]}
  <2>1. at[j] # at[k]
    BY <1>1, <1>3, TreeFacts
  <2> QED  BY <1>3, <1>5, <1>6, <1>7, <2>1 DEF ReplaceDone
<1>9. SameElsewhere(h, g, On(at))
  <2>1. On(a1) \cup {at[j]} \subseteq On(at)
    BY <1>3, <1>5
  <2> QED  BY <1>2, <1>7, <2>1, SameTwice DEF ReplaceDone
<1>10. gp_heap_size(g, a3[1]) = h.children[at[1]]
  <2>1. h.children[at[1]] \in Nat
    BY DEF Counted
  <2>2. gp_heap_size(cut.h, a1[1]) = h.children[at[1]]
    BY <1>2, <1>6, <2>1 DEF gp_heap_size
  <2> QED  BY <1>7, <2>2 DEF ReplaceDone
<1>11. a3[k] = at[j] /\ \A m \in Nat : m # k => a3[m] = a1[m]
  BY <1>3, <1>5, <1>6, MayReplace, PutFacts
<1>12. FilledLess(at, a3)
  <2>1. IsLast(at, 1, j)
    BY DEF FoundLast
  <2>2. FilledLess(at, a1)
    BY <1>1, <1>2, <2>1, CutFilled DEF a1
  <2>3. SamePlaces(a1, a3)
    BY <1>3, <1>6, <1>11 DEF SamePlaces
  <2> HIDE DEF a3
  <2> QED  BY <2>2, <2>3, FilledSame
<1> QED  BY <1>7, <1>8, <1>9, <1>10, <1>11, <1>12 DEF a1, g

(* gp_heap_pop() takes the root off.                                       *)
LEMMA PopSound ==
  ASSUME NEW h, NEW top, NEW at, HeapOf(h, top, at), top # NULL, NEW key \in [Nodes -> Int]
  PROVE  \E a2 : Removed(h, gp_heap_pop(h, key, top), at, a2, top, key, key)
<1> DEFINE cut == gp_heap_rem_last(h, top)
<1>1. Linked(h, at) /\ Counted(h, at, NULL) /\ top = at[1] /\ Tree(at) /\ h \in Heaps
  BY DEF HeapOf, Linked
<1>2. RemovesLast(h, cut, at, 1)
  BY <1>1, RemLastFinds
<1>3. gp_heap_pop(h, key, top) =
        IF cut.top = NULL THEN [top |-> NULL, h |-> cut.h]
        ELSE gp_heap_bubble_down(Replace(cut.h, top, cut.last, NULL), key, cut.last)
  BY DEF gp_heap_pop
<1> HIDE DEF cut
<1>4. CASE at[2 * 1] = NULL
  <2>1. cut = [top |-> NULL, last |-> at[1], h |-> h]
    BY <1>2, <1>4 DEF RemovesLast
  <2>2. gp_heap_pop(h, key, top) = [top |-> NULL, h |-> h]
    BY <1>3, <2>1
  <2>3. at[2] = NULL
    BY <1>4
  <2>4. Removed(h, [top |-> NULL, h |-> h], at, Cut(at, 1), at[1], key, key)
    BY <1>1, <2>3, SingleNode
  <2>5. Removed(h, gp_heap_pop(h, key, top), at, Cut(at, 1), top, key, key)
    BY <1>1, <2>2, <2>4
  <2> QED  BY <2>5
<1>5. CASE at[2 * 1] # NULL
  <2>1. PICK j : FoundLast(h, cut, at, 1, j)
    BY <1>2, <1>5 DEF RemovesLast
  <2> DEFINE a1 == Cut(at, j)
             a3 == PutAt(a1, 1, at[j])
             g == Replace(cut.h, at[1], at[j], cut.h.up[at[1]])
             r == gp_heap_bubble_down(g, key, at[j])
  <2>2. cut.top = at[1] /\ cut.last = at[j] /\ LastLeaf(at, j) /\ 1 < j /\ Linked(cut.h, a1)
    BY <2>1 DEF FoundLast
  <2>3. j \in Nat /\ at[j] \in Nodes /\ at[j] # NULL
    BY <1>1, <2>2, TreeFacts DEF LastLeaf
  <2>4. cut.h.up[at[1]] = NULL
    <3>1. a1[1] = at[1]
      BY <1>1, <2>2, CutFacts
    <3>2. cut.h.up[a1[1]] = a1[Up(1)]
      BY <1>1, <2>2, <3>1, LinkedFacts
    <3>3. Up(1) = 0 /\ Tree(a1)
      BY <2>2 DEF Up, Linked
    <3> QED  BY <3>1, <3>2, <3>3 DEF Tree
  <2>5. gp_heap_pop(h, key, top) = r
    BY <1>1, <1>3, <2>2, <2>4
  <2>6. /\ ReplaceDone(cut.h, g, a1, 1, at[j]) /\ On(a3) = On(at) \ {at[1]}
        /\ SameElsewhere(h, g, On(at)) /\ a3[1] = at[j] /\ FilledLess(at, a3)
    BY <1>1, <2>1, <2>2, LastReplaces
  <2>7. Linked(g, a3) /\ Counted(g, a3, NULL)
    BY <2>6 DEF ReplaceDone
  <2>8. Ordered(at, key) => OrderedAbove(a3, key, 1)
    <3>1. ASSUME Ordered(at, key) PROVE OrderedAbove(a3, key, 1)
      <4>1. SameKeys(key, key, at[1])
        BY DEF SameKeys
      <4>2. OrderedAround(a3, key, 1)
        BY <1>1, <2>2, <3>1, <4>1, ReplaceOrder
      <4>3. Up(1) = 0 /\ a3[0] = NULL
        BY <2>7 DEF Up, Linked, Tree
      <4> HIDE DEF a3
      <4>4. Edge(a3, key, 1)
        BY <4>3 DEF Edge
      <4> QED  BY <4>2, <4>4 DEF OrderedAround, OrderedAbove
    <3> QED  BY <3>1
  <2> HIDE DEF a3, a1, g
  <2>9. BubblesDown(g, r, key, a3, 1)
    BY <2>3, <2>6, <2>7, BubbleDownSound
  <2> HIDE DEF r
  <2>10. PICK a4 : BubbledDown(g, r, key, a3, a4, 1)
    BY <2>9 DEF BubblesDown
  <2>11. /\ Moved(g, r.h, a3, a4) /\ r.top = a4[1] /\ (Ordered(at, key) => Ordered(a4, key))
    BY <2>8, <2>10 DEF BubbledDown
  <2>12. HeapOf(r.h, r.top, a4) /\ On(a4) = On(at) \ {top}
    BY <1>1, <2>6, <2>11 DEF Moved, HeapOf
  <2>13. SameElsewhere(h, r.h, On(at))
    <3>1. SameElsewhere(g, r.h, On(a3)) /\ On(a3) \subseteq On(at)
      BY <2>6, <2>11 DEF Moved
    <3> QED  BY <2>6, <3>1, SameTwice
  <2>14. FilledLess(at, a4)
    BY <2>6, <2>11, FilledSame DEF Moved
  <2>15. Removed(h, r, at, a4, top, key, key)
    BY <2>11, <2>12, <2>13, <2>14 DEF Removed
  <2> QED  BY <2>5, <2>15
<1> QED  BY <1>4, <1>5

(* gp_heap_rem() takes the node off that it is asked to, whose key does    *)
(* not matter any more: a timer that is stopped gets another one first.    *)
LEMMA RemSound ==
  ASSUME NEW h, NEW top, NEW at, HeapOf(h, top, at), NEW elem \in On(at),
         NEW key0 \in [Nodes -> Int], NEW key \in [Nodes -> Int], SameKeys(key0, key, elem)
  PROVE  \E a2 : Removed(h, gp_heap_rem(h, key, top, elem), at, a2, elem, key0, key)
<1> DEFINE cut == gp_heap_rem_last(h, top)
           depth == gp_heap_size(h, top)
           g == Replace(cut.h, elem, cut.last, cut.h.up[elem])
           up == gp_heap_bubble_up(g, key, cut.last, depth)
           down == gp_heap_bubble_down(up.h, key, up.top)
           rest == [top |-> Root(down.h, down.top, depth), h |-> down.h]
<1>1. Linked(h, at) /\ Counted(h, at, NULL) /\ top = at[1] /\ Tree(at) /\ h \in Heaps
  BY DEF HeapOf, Linked
<1>2. PICK k \in Nat : at[k] = elem /\ elem \in Nodes /\ elem # NULL
  BY NullAssumption DEF On
<1>3. top # NULL
  BY <1>1, <1>2, EmptyTree
<1>4. RemovesLast(h, cut, at, 1)
  BY <1>1, <1>3, RemLastFinds
<1>5. gp_heap_rem(h, key, top, elem) =
        IF elem = cut.last THEN [top |-> cut.top, h |-> cut.h] ELSE rest
  BY DEF gp_heap_rem
<1>6. CASE at[2 * 1] = NULL
  <2>1. cut = [top |-> NULL, last |-> at[1], h |-> h]
    BY <1>4, <1>6 DEF RemovesLast
  <2>2. at[2] = NULL
    BY <1>6
  <2>3. On(at) = {at[1]} /\ Removed(h, [top |-> NULL, h |-> h], at, Cut(at, 1), at[1], key0, key)
    BY <1>1, <1>3, <2>2, SingleNode
  <2>4. elem = at[1]
    BY <2>3
  <2> HIDE DEF cut, rest
  <2>5. gp_heap_rem(h, key, top, elem) = [top |-> NULL, h |-> h]
    BY <1>5, <2>1, <2>4
  <2> QED  BY <2>3, <2>4, <2>5
<1>7. CASE at[2 * 1] # NULL
  <2> HIDE DEF cut
  <2>1. PICK j : FoundLast(h, cut, at, 1, j)
    BY <1>4, <1>7 DEF RemovesLast
  <2> DEFINE a1 == Cut(at, j)
             a3 == PutAt(a1, k, at[j])
  <2>2. /\ cut.top = at[1] /\ cut.last = at[j] /\ LastLeaf(at, j) /\ 1 < j
        /\ Linked(cut.h, a1) /\ Counted(cut.h, a1, at[Up(1)]) /\ SameElsewhere(h, cut.h, On(at))
    BY <2>1 DEF FoundLast
  <2>3. j \in Nat /\ at[j] \in Nodes /\ at[j] # NULL
    BY <1>1, <2>2, TreeFacts DEF LastLeaf
  <2>4. CASE k = j
    <3>1. gp_heap_rem(h, key, top, elem) = [top |-> at[1], h |-> cut.h]
      BY <1>2, <1>5, <2>2, <2>4
    <3>2. On(a1) = On(at) \ {elem} /\ a1[1] = at[1]
      BY <1>1, <1>2, <2>2, <2>4, CutFacts
    <3>3. Counted(cut.h, a1, NULL)
      <4>1. Up(1) = 0 /\ at[0] = NULL
        BY <1>1 DEF Up, Tree
      <4> QED  BY <2>2, <4>1
    <3>4. Ordered(at, key0) => Ordered(a1, key)
      BY <1>1, <1>2, <2>2, <2>4, CutOrder
    <3>5. FilledLess(at, a1)
      BY <1>1, <2>1, <2>2, CutFilled DEF FoundLast
    <3>6. Removed(h, [top |-> at[1], h |-> cut.h], at, a1, elem, key0, key)
      BY <2>2, <3>2, <3>3, <3>4, <3>5 DEF Removed, HeapOf
    <3> QED  BY <3>1, <3>6
  <2>5. CASE k # j
    <3>1. elem # cut.last
      BY <1>1, <1>2, <2>2, <2>3, <2>5, TreeFacts
    <3>2. gp_heap_rem(h, key, top, elem) = rest
      BY <1>5, <3>1
    <3>3. g = Replace(cut.h, at[k], at[j], cut.h.up[at[k]])
      BY <1>2, <2>2
    <3>4. /\ ReplaceDone(cut.h, g, a1, k, at[j]) /\ On(a3) = On(at) \ {elem}
          /\ SameElsewhere(h, g, On(at)) /\ gp_heap_size(g, a3[1]) = h.children[at[1]]
          /\ a3[k] = at[j] /\ FilledLess(at, a3)
      BY <1>1, <1>2, <1>3, <2>1, <2>5, <3>3, LastReplaces
    <3>5. Linked(g, a3) /\ Counted(g, a3, NULL)
      BY <3>4 DEF ReplaceDone
    <3>6. Ordered(at, key0) => OrderedAround(a3, key, k)
      BY <1>1, <1>2, <2>2, <2>5, ReplaceOrder
    <3> HIDE DEF a3, a1, g
    <3>7. depth \in Nat /\ h.children[at[1]] <= depth /\ h.children[at[1]] \in Nat
      <4>1. depth = h.children[at[1]] + 1 /\ h.children[at[1]] \in Nat
        BY <1>1, <1>3 DEF gp_heap_size, Counted
      <4> QED  BY <4>1
    <3> HIDE DEF depth
    <3>8. ASSUME NEW f, NEW a, Tree(a), Counted(f, a, NULL), a[1] # NULL,
                 gp_heap_size(f, a[1]) = h.children[at[1]]
          PROVE  f.children[a[1]] <= depth
      <4>1. gp_heap_size(f, a[1]) = f.children[a[1]] + 1 /\ f.children[a[1]] \in Nat
        BY <3>8 DEF gp_heap_size, Counted
      <4> QED  BY <3>7, <3>8, <4>1
    <3>9. BubblesUp(g, up, key, cut.last, a3, k)
      <4>1. Tree(a3) /\ a3[1] # NULL
        <5>1. Tree(a3)
          BY <3>5 DEF Linked
        <5> QED  BY <2>3, <3>4, <5>1, EmptyTree
      <4>2. g.children[a3[1]] <= depth
        BY <3>4, <3>5, <3>8, <4>1
      <4> QED  BY <2>2, <2>3, <3>4, <3>5, <3>7, <4>2, BubbleUpSound
    <3> HIDE DEF up
    <3>10. PICK a4, k4 : BubbledUp(g, up, key, cut.last, a3, a4, k, k4)
      BY <3>9 DEF BubblesUp
    <3>11. /\ Moved(g, up.h, a3, a4) /\ up.top = at[j] /\ k4 \in Nat /\ a4[k4] = up.top
           /\ (Ordered(at, key0) => OrderedAbove(a4, key, k4))
      BY <2>2, <3>6, <3>10 DEF BubbledUp
    <3>12. BubblesDown(up.h, down, key, a4, k4)
      BY <2>3, <3>11, BubbleDownSound DEF Moved
    <3> HIDE DEF down
    <3>13. PICK a5 : BubbledDown(up.h, down, key, a4, a5, k4)
      BY <3>12 DEF BubblesDown
    <3>14. /\ Moved(up.h, down.h, a4, a5) /\ down.top = a5[k4] /\ down.top # NULL
           /\ (Ordered(at, key0) => Ordered(a5, key))
      BY <3>11, <3>13 DEF BubbledDown
    <3>15. Moved(g, down.h, a3, a5)
      BY <3>11, <3>14, MovedTwice
    <3>16. Root(down.h, down.top, depth) = a5[1]
      <4>1. Linked(down.h, a5) /\ Counted(down.h, a5, NULL) /\ Tree(a5)
        BY <3>15 DEF Moved, Linked
      <4>2. a5[1] # NULL
        BY <3>11, <3>14, <4>1, EmptyTree
      <4>3. gp_heap_size(down.h, a5[1]) = h.children[at[1]]
        BY <3>4, <3>15 DEF Moved
      <4>4. down.h.children[a5[1]] <= depth
        BY <3>8, <4>1, <4>2, <4>3
      <4>5. Root(down.h, a5[k4], depth) = a5[1]
        BY <3>7, <3>11, <3>14, <4>1, <4>4, RootSound
      <4> QED  BY <3>14, <4>5
    <3>17. HeapOf(rest.h, rest.top, a5)
      BY <3>15, <3>16 DEF HeapOf, Moved
    <3>18. SameElsewhere(h, rest.h, On(at)) /\ On(a5) = On(at) \ {elem}
      <4>1. SameElsewhere(g, rest.h, On(a3)) /\ On(a5) = On(a3) /\ On(a3) \subseteq On(at)
        BY <3>4, <3>15 DEF Moved
      <4> QED  BY <3>4, <4>1, SameTwice
    <3>19. FilledLess(at, a5)
      BY <3>4, <3>15, FilledSame DEF Moved
    <3>20. Removed(h, rest, at, a5, elem, key0, key)
      BY <3>14, <3>17, <3>18, <3>19 DEF Removed
    <3> QED  BY <3>2, <3>20
  <2> QED  BY <2>4, <2>5
<1> QED  BY <1>6, <1>7
-----------------------------------------------------------------------------
(* gp_heap_ins_().                                                         *)

InsResults == [Heaps -> [Ptr -> [Ptr -> [top : Nodes, h : Heaps]]]]

CountUp(s, x) == [s EXCEPT !.children[x] = @ + 1]

LEMMA InsertSideFacts ==
  ASSUME NEW h, NEW x
  PROVE  /\ InsertSide(h, x) \in Sides
         /\ InsertSide(h, x) = "right" => h.left[x] # NULL
BY DEF InsertSide, Sides

LeafMade(h, g, elem, parent) ==
  /\ g \in Heaps /\ g.bug = h.bug
  /\ \A n \in Nodes : /\ g.left[n] = IF n = elem THEN NULL ELSE h.left[n]
                      /\ g.right[n] = IF n = elem THEN NULL ELSE h.right[n]
                      /\ g.up[n] = IF n = elem THEN parent ELSE h.up[n]
                      /\ g.children[n] = IF n = elem THEN 0 ELSE h.children[n]

LEMMA LeafFields ==
  ASSUME NEW h \in Heaps, NEW elem \in Nodes, NEW parent \in Ptr
  PROVE  LeafMade(h, Leaf(h, elem, parent), elem, parent)
<1> DEFINE g == Leaf(h, elem, parent)
<1>1. g = [h EXCEPT !.left[elem] = NULL, !.right[elem] = NULL, !.up[elem] = parent,
                    !.children[elem] = 0]
  BY DEF Leaf
<1> HIDE DEF g
<1>2. /\ g.left = [h.left EXCEPT ![elem] = NULL] /\ g.right = [h.right EXCEPT ![elem] = NULL]
      /\ g.up = [h.up EXCEPT ![elem] = parent] /\ g.children = [h.children EXCEPT ![elem] = 0]
      /\ g.bug = h.bug
      /\ g = [left |-> g.left, right |-> g.right, up |-> g.up, children |-> g.children, bug |-> g.bug]
  BY <1>1 DEF Heaps
<1>3. /\ h.left \in [Nodes -> Ptr] /\ h.right \in [Nodes -> Ptr] /\ h.up \in [Nodes -> Ptr]
      /\ h.children \in [Nodes -> Int] /\ h.bug \in BOOLEAN
  BY HeapFields
<1>4. NULL \in Ptr
  BY DEF Ptr
<1>5. /\ g.left \in [Nodes -> Ptr] /\ g.right \in [Nodes -> Ptr] /\ g.up \in [Nodes -> Ptr]
      /\ g.children \in [Nodes -> Int] /\ g.bug \in BOOLEAN
  BY <1>2, <1>3, <1>4
<1>6. g \in Heaps
  BY <1>2, <1>5 DEF Heaps
<1>7. \A n \in Nodes : /\ g.left[n] = IF n = elem THEN NULL ELSE h.left[n]
                       /\ g.right[n] = IF n = elem THEN NULL ELSE h.right[n]
                       /\ g.up[n] = IF n = elem THEN parent ELSE h.up[n]
                       /\ g.children[n] = IF n = elem THEN 0 ELSE h.children[n]
  BY <1>2, <1>3
<1>8. LeafMade(h, g, elem, parent)
  BY <1>2, <1>6, <1>7 DEF LeafMade
<1> QED  BY <1>8 DEF g

LEMMA InsTyped ==
  ASSUME NEW key, NEW elem \in Nodes, NEW rec \in InsResults
  PROVE  InsBody(key, elem, rec) \in InsResults
<1> DEFINE Sub(h, x) == rec[CountUp(h, x)][h[InsertSide(h, x)][x]][x]
           G(h, x) == SetSide(Sub(h, x).h, InsertSide(h, x), x, Sub(h, x).top)
           Up2(h, x) == IF cmp(key, x, Sub(h, x).top)
                        THEN [top |-> Sub(h, x).top, h |-> gp_heap_swap(G(h, x), x, InsertSide(h, x))]
                        ELSE [top |-> x, h |-> G(h, x)]
           End(h, p) == [top |-> elem, h |-> Leaf(h, elem, p)]
<1>1. InsBody(key, elem, rec) =
        [h \in Heaps |-> [x \in Ptr |-> [parent \in Ptr |->
           IF x = NULL THEN End(h, parent) ELSE Up2(h, x)]]]
  BY DEF InsBody, CountUp, SetSide
<1>2. ASSUME NEW h \in Heaps, NEW x \in Nodes PROVE Up2(h, x) \in [top : Nodes, h : Heaps]
  <2> DEFINE side == InsertSide(h, x)
             sub == Sub(h, x)
             g == G(h, x)
  <2>1. side \in Sides /\ x \in Ptr
    BY InsertSideFacts DEF Ptr
  <2>2. CountUp(h, x) \in Heaps
    BY RecountSet DEF CountUp, Recounted
  <2>3. h[side][x] \in Ptr
    BY <2>1, HeapFields DEF Sides
  <2> HIDE DEF side
  <2>4. rec[CountUp(h, x)][h[side][x]][x] \in [top : Nodes, h : Heaps]
    <3>1. rec[CountUp(h, x)] \in [Ptr -> [Ptr -> [top : Nodes, h : Heaps]]]
      BY <2>2, Zenon DEF InsResults
    <3>2. rec[CountUp(h, x)][h[side][x]] \in [Ptr -> [top : Nodes, h : Heaps]]
      BY <2>3, <3>1, Zenon
    <3> QED  BY <2>1, <3>2, Zenon
  <2>5. sub.top \in Nodes /\ sub.h \in Heaps
    BY <2>4 DEF side
  <2> HIDE DEF Sub
  <2>6. SideWritten(sub.h, SetSide(sub.h, side, x, sub.top), side, x, sub.top)
    BY <2>1, <2>5, SideSet DEF SetSide, Ptr
  <2>7. SetSide(sub.h, side, x, sub.top) = g
    BY DEF side
  <2> HIDE DEF G
  <2>8. g \in Heaps /\ g[side][x] = sub.top
    BY <2>1, <2>6, <2>7 DEF SideWritten, Sides
  <2>9. gp_heap_swap(g, x, side) \in Heaps
    BY <2>1, <2>5, <2>8, SwapTyped
  <2> QED  BY <2>5, <2>8, <2>9 DEF side
<1>3. ASSUME NEW h \in Heaps, NEW p \in Ptr PROVE End(h, p) \in [top : Nodes, h : Heaps]
  BY LeafFields DEF LeafMade
<1> HIDE DEF Up2, End
<1>4. ASSUME NEW h \in Heaps, NEW x \in Ptr, NEW p \in Ptr
      PROVE  (IF x = NULL THEN End(h, p) ELSE Up2(h, x)) \in [top : Nodes, h : Heaps]
  BY <1>2, <1>3 DEF Ptr
<1> QED  BY <1>1, <1>4 DEF InsResults

LEMMA InsUnfolds ==
  ASSUME NEW key, NEW elem \in Nodes, NEW depth \in Nat
  PROVE  /\ gp_heap_ins_(key, elem, depth)[0] = InsLeaf(elem)
         /\ \A d \in 1 .. depth :
              gp_heap_ins_(key, elem, depth)[d]
                = InsBody(key, elem, gp_heap_ins_(key, elem, depth)[d - 1])
<1> DEFINE F == [g \in InsResults |-> InsBody(key, elem, g)]
           ins == gp_heap_ins_(key, elem, depth)
<1>1. F \in [InsResults -> InsResults]
  BY InsTyped
<1>2. InsLeaf(elem) \in InsResults
  <2>1. \A h \in Heaps, p \in Ptr : Leaf(h, elem, p) \in Heaps
    BY LeafFields DEF LeafMade
  <2> QED  BY <2>1 DEF InsLeaf, InsResults
<1>3. \A g \in InsResults : F[g] = InsBody(key, elem, g)
  OBVIOUS
<1> HIDE DEF F
<1>4. PICK f : Recursion(f, InsResults, InsLeaf(elem), F, depth)
  BY <1>1, <1>2, ByDepth
<1>5. f = [d \in 0 .. depth |-> IF d = 0 THEN InsLeaf(elem) ELSE InsBody(key, elem, f[d - 1])]
  BY <1>3, <1>4 DEF Recursion
<1>6. ins = [d \in 0 .. depth |-> IF d = 0 THEN InsLeaf(elem) ELSE InsBody(key, elem, ins[d - 1])]
  BY <1>5 DEF gp_heap_ins_
<1> HIDE DEF ins
<1>7. ins[0] = InsLeaf(elem) /\ \A d \in 1 .. depth : ins[d] = InsBody(key, elem, ins[d - 1])
  BY <1>6
<1> QED  BY <1>7 DEF ins
(* The new leaf, and the pointer its parent gets to it.                    *)
LEMMA LeafLinked ==
  ASSUME NEW h, NEW at, Linked(h, at), NEW i \in Nat, at[i] # NULL, Counted(h, at, at[i]),
         NEW c \in {2 * i, 2 * i + 1}, at[c] = NULL, MayPut(at, c),
         NEW elem \in Nodes, elem \notin On(at)
  PROVE  /\ Linked(SetSide(Leaf(h, elem, at[i]), SideOf(i, c), at[i], elem), PutAt(at, c, elem))
         /\ Counted(SetSide(Leaf(h, elem, at[i]), SideOf(i, c), at[i], elem), PutAt(at, c, elem), NULL)
         /\ SameElsewhere(h, SetSide(Leaf(h, elem, at[i]), SideOf(i, c), at[i], elem), On(at) \cup {elem})
<1> DEFINE x == at[i]
           side == SideOf(i, c)
           e == Leaf(h, elem, x)
           g == SetSide(e, side, x, elem)
           a2 == PutAt(at, c, elem)
<1>1. h \in Heaps /\ Tree(at) /\ i # 0 /\ c \in Nat /\ c # 0 /\ c # i /\ Up(c) = i
  <2>1. h \in Heaps /\ Tree(at)
    BY DEF Linked
  <2>2. i # 0
    BY <2>1, TreeFacts
  <2>3. Up(2 * i) = i /\ Up(2 * i + 1) = i
    BY UpFacts
  <2> QED  BY <2>1, <2>2, <2>3
<1>2. x \in Nodes /\ x # elem /\ x \in On(at) /\ elem # NULL /\ side \in Sides
  BY <1>1, TreeFacts, NullAssumption DEF SideOf, Sides
<1>3. LeafMade(h, e, elem, x)
  BY <1>1, <1>2, LeafFields DEF Ptr
<1>4. SideWritten(e, g, side, x, elem)
  BY <1>2, <1>3, SideSet DEF SetSide, LeafMade, Ptr
<1>5. /\ Tree(a2) /\ a2[c] = elem /\ \A m \in Nat : m # c => a2[m] = at[m]
  BY <1>1, PutFacts
<1>6. \A m, l \in Nat : at[m] = at[l] /\ at[m] # NULL => m = l
  BY <1>1, TreeFacts
<1>7. \A m \in Nat : at[m] # elem
  BY DEF On
<1>8. at[2 * c] = NULL /\ at[2 * c + 1] = NULL /\ 2 * c \in Nat /\ 2 * c + 1 \in Nat
      /\ 2 * c # c /\ 2 * c + 1 # c
  BY <1>1 DEF Tree
<1>9. \A n \in Nodes : g.up[n] = IF n = elem THEN x ELSE h.up[n]
  <2>1. g.up = e.up
    BY <1>4 DEF SideWritten
  <2>2. \A n \in Nodes : e.up[n] = IF n = elem THEN x ELSE h.up[n]
    BY <1>3 DEF LeafMade
  <2> QED  BY ONLY <2>1, <2>2
<1>10. \A n \in Nodes : g.children[n] = IF n = elem THEN 0 ELSE h.children[n]
  <2>1. g.children = e.children
    BY <1>4 DEF SideWritten
  <2>2. \A n \in Nodes : e.children[n] = IF n = elem THEN 0 ELSE h.children[n]
    BY <1>3 DEF LeafMade
  <2> QED  BY ONLY <2>1, <2>2
<1>11. side = "left" =>
         \A n \in Nodes : /\ g.left[n] = IF n = x THEN elem ELSE IF n = elem THEN NULL ELSE h.left[n]
                          /\ g.right[n] = IF n = elem THEN NULL ELSE h.right[n]
  <2> SUFFICES ASSUME side = "left", NEW n \in Nodes
               PROVE  /\ g.left[n] = IF n = x THEN elem ELSE IF n = elem THEN NULL ELSE h.left[n]
                      /\ g.right[n] = IF n = elem THEN NULL ELSE h.right[n]
    OBVIOUS
  <2>1. e.left[n] = IF n = elem THEN NULL ELSE h.left[n]
    BY <1>3 DEF LeafMade
  <2>2. e.right[n] = IF n = elem THEN NULL ELSE h.right[n]
    BY <1>3 DEF LeafMade
  <2> HIDE DEF e, x, side
  <2>3. g.left[n] = (IF n = x THEN elem ELSE e.left[n]) /\ g.right = e.right
    BY <1>4 DEF SideWritten
  <2> QED  BY <2>1, <2>2, <2>3
<1>12. side = "right" =>
         \A n \in Nodes : /\ g.right[n] = IF n = x THEN elem ELSE IF n = elem THEN NULL ELSE h.right[n]
                          /\ g.left[n] = IF n = elem THEN NULL ELSE h.left[n]
  <2> SUFFICES ASSUME side = "right", NEW n \in Nodes
               PROVE  /\ g.right[n] = IF n = x THEN elem ELSE IF n = elem THEN NULL ELSE h.right[n]
                      /\ g.left[n] = IF n = elem THEN NULL ELSE h.left[n]
    OBVIOUS
  <2>1. e.right[n] = IF n = elem THEN NULL ELSE h.right[n]
    BY <1>3 DEF LeafMade
  <2>2. e.left[n] = IF n = elem THEN NULL ELSE h.left[n]
    BY <1>3 DEF LeafMade
  <2> HIDE DEF e, x, side
  <2>3. g.right[n] = (IF n = x THEN elem ELSE e.right[n]) /\ g.left = e.left
    BY <1>4 DEF SideWritten
  <2> QED  BY <2>1, <2>2, <2>3
<1>13. (side = "left" <=> c = 2 * i) /\ (side = "right" <=> c = 2 * i + 1)
  BY <1>1 DEF SideOf
<1> HIDE DEF e, g, a2
<1>14. ASSUME NEW m \in Nat, a2[m] # NULL
       PROVE  g.left[a2[m]] = a2[2 * m] /\ g.right[a2[m]] = a2[2 * m + 1] /\ g.up[a2[m]] = a2[Up(m)]
  <2>1. CASE m = c
    <3>1. g.left[elem] = NULL /\ g.right[elem] = NULL /\ g.up[elem] = x
      BY <1>2, <1>9, <1>11, <1>12 DEF Sides
    <3>2. a2[2 * c] = NULL /\ a2[2 * c + 1] = NULL /\ a2[Up(c)] = x
      BY <1>1, <1>5, <1>8
    <3> QED  BY <1>5, <2>1, <3>1, <3>2
  <2>2. CASE m # c
    <3> DEFINE n == at[m]
    <3>1. a2[m] = n /\ n # NULL /\ n \in Nodes /\ n # elem
      BY <1>1, <1>5, <1>7, <1>14, <2>2, TreeFacts
    <3>2. h.left[n] = at[2 * m] /\ h.right[n] = at[2 * m + 1] /\ h.up[n] = at[Up(m)]
      BY <3>1, LinkedFacts
    <3>3. n = x <=> m = i
      BY <1>6, <3>1
    <3>4. 2 * m \in Nat /\ 2 * m + 1 \in Nat /\ Up(m) \in Nat
      BY UpFacts
    <3>5. g.up[n] = a2[Up(m)]
      <4>1. Up(m) # c
        <5>1. ASSUME Up(m) = c PROVE FALSE
          <6>1. m = 2 * c \/ m = 2 * c + 1
            BY <5>1, UpFacts
          <6> QED  BY <1>8, <3>1, <6>1
        <5> QED  BY <5>1
      <4> QED  BY <1>5, <1>9, <3>1, <3>2, <3>4, <4>1
    <3> HIDE DEF n
    <3>6. CASE c = 2 * i
      <4>1. 2 * m + 1 # c /\ (2 * m = c <=> m = i)
        BY <3>6
      <4>2. g.left[n] = IF n = x THEN elem ELSE h.left[n]
        BY <1>11, <1>13, <3>1, <3>6
      <4>3. g.right[n] = h.right[n]
        BY <1>11, <1>13, <3>1, <3>6
      <4>4. g.left[n] = a2[2 * m]
        BY <1>5, <3>2, <3>3, <3>4, <4>1, <4>2
      <4>5. g.right[n] = a2[2 * m + 1]
        BY <1>5, <3>2, <3>4, <4>1, <4>3
      <4> QED  BY <3>1, <3>5, <4>4, <4>5
    <3>7. CASE c = 2 * i + 1
      <4>1. 2 * m # c /\ (2 * m + 1 = c <=> m = i)
        BY <3>7
      <4>2. g.right[n] = IF n = x THEN elem ELSE h.right[n]
        BY <1>12, <1>13, <3>1, <3>7
      <4>3. g.left[n] = h.left[n]
        BY <1>12, <1>13, <3>1, <3>7
      <4>4. g.right[n] = a2[2 * m + 1]
        BY <1>5, <3>2, <3>3, <3>4, <4>1, <4>2
      <4>5. g.left[n] = a2[2 * m]
        BY <1>5, <3>2, <3>4, <4>1, <4>3
      <4> QED  BY <3>1, <3>5, <4>4, <4>5
    <3> QED  BY <3>6, <3>7
  <2> QED  BY <2>1, <2>2
<1>15. g \in Heaps /\ g.bug = h.bug
  BY <1>3, <1>4 DEF LeafMade, SideWritten
<1>16. Linked(g, a2)
  BY <1>5, <1>14, <1>15 DEF Linked
<1>17. ASSUME NEW m \in Nat, m # c PROVE gp_heap_size(g, a2[m]) = gp_heap_size(h, at[m])
  <2>1. at[m] # NULL => at[m] \in Nodes
    BY <1>1, TreeFacts
  <2> QED  BY <1>5, <1>7, <1>10, <1>17, <2>1 DEF gp_heap_size
<1>18. gp_heap_size(g, a2[c]) = 1 /\ gp_heap_size(h, at[c]) = 0
  BY <1>2, <1>5, <1>10 DEF gp_heap_size
<1>19. ASSUME NEW m \in Nat, a2[m] # NULL
       PROVE /\ g.children[a2[m]] \in Nat
             /\ g.children[a2[m]] = gp_heap_size(g, a2[2 * m]) + gp_heap_size(g, a2[2 * m + 1])
                                      + (IF a2[m] = NULL THEN 1 ELSE 0)
  <2>1. CASE m = c
    <3>1. a2[2 * m] = NULL /\ a2[2 * m + 1] = NULL
      BY <1>5, <1>8, <2>1
    <3>2. g.children[a2[m]] = 0
      BY <1>5, <1>10, <2>1
    <3> QED  BY <1>19, <3>1, <3>2 DEF gp_heap_size
  <2>2. CASE m # c
    <3>1. at[m] # NULL /\ a2[m] = at[m] /\ 2 * m \in Nat /\ 2 * m + 1 \in Nat /\ at[m] \in Nodes
          /\ at[m] # elem
      BY <1>1, <1>5, <1>7, <1>19, <2>2, TreeFacts
    <3>2. g.children[a2[m]] = h.children[at[m]]
      BY <1>10, <3>1
    <3>3. /\ h.children[at[m]] \in Nat
          /\ h.children[at[m]] = gp_heap_size(h, at[2 * m]) + gp_heap_size(h, at[2 * m + 1])
                                   + (IF at[m] = x THEN 1 ELSE 0)
      BY <3>1 DEF Counted
    <3>4. gp_heap_size(h, at[2 * m]) \in Nat /\ gp_heap_size(h, at[2 * m + 1]) \in Nat
      BY <1>1, <3>1, SizeIsNat
    <3>5. at[m] = x <=> m = i
      BY <1>6, <3>1
    <3>6. CASE m = i
      <4>1. CASE c = 2 * i
        <5>1. 2 * i + 1 # c
          BY <4>1
        <5>2. gp_heap_size(g, a2[2 * m + 1]) = gp_heap_size(h, at[2 * m + 1])
          BY <1>17, <3>1, <3>6, <5>1
        <5>3. gp_heap_size(g, a2[2 * m]) = 1 /\ gp_heap_size(h, at[2 * m]) = 0
          BY <1>18, <3>6, <4>1
        <5> QED  BY <1>19, <3>2, <3>3, <3>4, <3>5, <3>6, <5>2, <5>3
      <4>2. CASE c = 2 * i + 1
        <5>1. 2 * i # c
          BY <4>2
        <5>2. gp_heap_size(g, a2[2 * m]) = gp_heap_size(h, at[2 * m])
          BY <1>17, <3>1, <3>6, <5>1
        <5>3. gp_heap_size(g, a2[2 * m + 1]) = 1 /\ gp_heap_size(h, at[2 * m + 1]) = 0
          BY <1>18, <3>6, <4>2
        <5> QED  BY <1>19, <3>2, <3>3, <3>4, <3>5, <3>6, <5>2, <5>3
      <4> QED  BY <4>1, <4>2
    <3>7. CASE m # i
      <4>1. 2 * m # c /\ 2 * m + 1 # c
        <5>1. Up(2 * m) = m /\ Up(2 * m + 1) = m
          BY UpFacts
        <5> QED  BY <1>1, <3>7, <5>1
      <4>2. gp_heap_size(g, a2[2 * m]) = gp_heap_size(h, at[2 * m])
            /\ gp_heap_size(g, a2[2 * m + 1]) = gp_heap_size(h, at[2 * m + 1])
        BY <1>17, <3>1, <4>1
      <4> QED  BY <1>19, <3>2, <3>3, <3>4, <3>5, <3>7, <4>2
    <3> QED  BY <3>6, <3>7
  <2> QED  BY <2>1, <2>2
<1>20. Counted(g, a2, NULL)
  BY <1>19 DEF Counted
<1>21. SameElsewhere(h, g, On(at) \cup {elem})
  BY <1>2, <1>11, <1>12, <1>15 DEF SameElsewhere, Sides
<1> QED  BY <1>16, <1>20, <1>21 DEF e, g, a2
(* The node of i may have been replaced by one that belongs above it; what *)
(* is below is no smaller than the one that was there.                     *)
OrderedBelow(at, key, i, low) ==
  /\ \A k \in Nat : k # i => Edge(at, key, k)
  /\ \A k \in Nat : Up(k) = i /\ at[k] # NULL => low <= key[at[k]]

Inserted(h, r, key, elem, at, a2, i) ==
  /\ Linked(r.h, a2) /\ Counted(r.h, a2, NULL)
  /\ On(a2) = On(at) \cup {elem} /\ SameElsewhere(h, r.h, On(at) \cup {elem})
  /\ r.top = a2[i] /\ r.top # NULL /\ \A k \in Nat : k < i => a2[k] = at[k]
  /\ FilledMore(at, a2, i)
  /\ Ordered(at, key) => OrderedBelow(a2, key, i, key[at[i]])

Inserts(h, r, key, elem, at, i) == \E a2 : Inserted(h, r, key, elem, at, a2, i)

InsAtNull(rec, elem) ==
  \A h \in Heaps : \A p \in Ptr : rec[h][NULL][p] = [top |-> elem, h |-> Leaf(h, elem, p)]

InsBelow(rec, key, elem, d) ==
  \A h, at : \A i \in Nat :
    /\ Linked(h, at) /\ Counted(h, at, at[Up(i)]) /\ at[i] # NULL /\ elem \notin On(at)
    /\ h.children[at[i]] < d
    => Inserts(h, rec[h][at[i]][at[Up(i)]], key, elem, at, i)

InsSound(rec, key, elem, d) == InsAtNull(rec, elem) /\ InsBelow(rec, key, elem, d)

(* The node below x, at c, is in its place: x is compared to it.           *)
LEMMA InsSwapOrder ==
  ASSUME NEW at, Tree(at), NEW key \in [Nodes -> Int], NEW i \in Nat \ {0},
         NEW c \in {2 * i, 2 * i + 1}, at[i] # NULL, at[c] # NULL,
         key[at[c]] <= key[at[i]], OrderedBelow(at, key, c, key[at[i]])
  PROVE  OrderedBelow(Exchange(at, i, c), key, i, key[at[i]])
<1> DEFINE a2 == Exchange(at, i, c)
           x == at[i]
           t == at[c]
<1>1. c \in Nat /\ i # c /\ Up(c) = i /\ Up(i) \in Nat /\ Up(i) # i /\ Up(i) # c
  <2>1. Up(2 * i) = i /\ Up(2 * i + 1) = i /\ Up(i) \in Nat /\ Up(i) < i
    BY UpFacts
  <2> QED  BY <2>1
<1>2. /\ a2[i] = t /\ a2[c] = x
      /\ \A k \in Nat : k # i /\ k # c => a2[k] = at[k]
      /\ \A k \in Nat : a2[k] = NULL <=> at[k] = NULL
  BY <1>1, ExchangeFacts
<1>3. \A k \in Nat : at[k] # NULL => key[at[k]] \in Int
  BY TreeFacts
<1>4. /\ \A k \in Nat : k # c => Edge(at, key, k)
      /\ \A k \in Nat : Up(k) = c /\ at[k] # NULL => key[x] <= key[at[k]]
  BY DEF OrderedBelow
<1>5. x # NULL /\ t # NULL /\ key[t] <= key[x] /\ at[i] = x /\ at[c] = t
      /\ key[x] \in Int /\ key[t] \in Int
  BY <1>1, <1>3
<1> HIDE DEF a2, x, t
<1>6. ASSUME NEW k \in Nat, Up(k) = i, a2[k] # NULL PROVE key[x] <= key[a2[k]]
  <2>1. CASE k = c
    BY <1>2, <1>5, <2>1
  <2>2. CASE k # c
    <3>1. k # i
      BY <1>1, <1>6
    <3>2. a2[k] = at[k]
      BY <1>2, <2>2, <3>1
    <3> QED  BY <1>4, <1>5, <1>6, <2>2, <3>2 DEF Edge
  <2> QED  BY <2>1, <2>2
<1>7. ASSUME NEW k \in Nat, k # i PROVE Edge(a2, key, k)
  <2> SUFFICES ASSUME a2[k] # NULL, a2[Up(k)] # NULL PROVE key[a2[Up(k)]] <= key[a2[k]]
    BY DEF Edge
  <2>1. Up(k) \in Nat
    BY UpFacts
  <2>2. CASE Up(k) = i
    <3>1. key[x] <= key[a2[k]]
      BY <1>6, <2>2
    <3>2. key[a2[k]] \in Int
      BY <1>2, <1>3, <1>5
    <3> QED  BY <1>2, <1>5, <2>2, <3>1, <3>2
  <2>3. CASE Up(k) = c
    <3>1. k # c /\ k # i
      BY <1>1, <2>3
    <3>2. a2[k] = at[k]
      BY <1>2, <3>1
    <3> QED  BY <1>2, <1>4, <2>3, <3>2
  <2>4. CASE Up(k) # i /\ Up(k) # c
    <3>1. k # c
      BY <1>1, <2>4
    <3>2. a2[k] = at[k] /\ a2[Up(k)] = at[Up(k)]
      BY <1>2, <1>7, <2>1, <2>4, <3>1
    <3> QED  BY <1>4, <3>1, <3>2 DEF Edge
  <2> QED  BY <2>2, <2>3, <2>4
<1>8. OrderedBelow(a2, key, i, key[x])
  BY <1>6, <1>7 DEF OrderedBelow
<1> QED  BY <1>8 DEF a2, x

(* After the pointer to the child is set.                                  *)
Middle(h, g, key, elem, at, a2, i, c) ==
  /\ Linked(g, a2) /\ Counted(g, a2, NULL)
  /\ On(a2) = On(at) \cup {elem} /\ SameElsewhere(h, g, On(at) \cup {elem})
  /\ a2[i] = at[i] /\ a2[c] # NULL /\ \A k \in Nat : k < i => a2[k] = at[k]
  /\ FilledMore(at, a2, c)
  /\ Ordered(at, key) => OrderedBelow(a2, key, c, key[at[i]])

InMiddle(h, g, top, key, elem, at, i, c) ==
  \E a2 : Middle(h, g, key, elem, at, a2, i, c) /\ top = a2[c]

LEMMA InsFinish ==
  ASSUME NEW h, NEW g, NEW key \in [Nodes -> Int], NEW elem \in Nodes, NEW at, NEW a2, NEW i \in Nat,
         NEW c \in {2 * i, 2 * i + 1}, at[i] # NULL, Tree(at), Middle(h, g, key, elem, at, a2, i, c),
         AlsoAbove(at, i, c)
  PROVE  Inserts(h, IF cmp(key, at[i], a2[c])
                    THEN [top |-> a2[c], h |-> gp_heap_swap(g, at[i], SideOf(i, c))]
                    ELSE [top |-> at[i], h |-> g], key, elem, at, i)
<1> DEFINE x == at[i]
           t == a2[c]
           f == gp_heap_swap(g, x, SideOf(i, c))
           a3 == Exchange(a2, i, c)
<1>1. i # 0 /\ x \in Nodes /\ c \in Nat /\ c # i /\ i < c
  <2>1. i # 0 /\ x \in Nodes
    BY TreeFacts
  <2> QED  BY <2>1
<1>2. /\ Linked(g, a2) /\ Counted(g, a2, NULL) /\ Tree(a2)
      /\ On(a2) = On(at) \cup {elem} /\ SameElsewhere(h, g, On(at) \cup {elem})
      /\ a2[i] = x /\ t # NULL /\ \A k \in Nat : k < i => a2[k] = at[k]
      /\ (Ordered(at, key) => OrderedBelow(a2, key, c, key[x]))
  BY DEF Middle, Linked
<1>3. t \in Nodes
  BY <1>1, <1>2, TreeFacts
<1>4. key[x] \in Int /\ key[t] \in Int
  BY <1>1, <1>3
<1>5. FilledMore(at, a2, i)
  BY DEF Middle, FilledMore, AlsoAbove
<1>6. CASE cmp(key, x, t)
  <2>1. SwapDone(g, f, a2, a3)
    BY <1>2, SwapLinked
  <2>2. /\ a3[i] = t /\ a3[c] = x /\ \A k \in Nat : k # i /\ k # c => a3[k] = a2[k]
        /\ \A k \in Nat : a3[k] = NULL <=> a2[k] = NULL
    BY <1>1, <1>2, ExchangeFacts
  <2>3. Counted(f, a3, NULL)
    BY <1>2, <2>1, <2>2, SwapCounted
  <2>4. key[t] <= key[x]
    BY <1>4, <1>6 DEF cmp
  <2>5. Ordered(at, key) => OrderedBelow(a3, key, i, key[x])
    BY <1>1, <1>2, <2>4, InsSwapOrder
  <2> DEFINE r == [top |-> t, h |-> f]
  <2>6. Linked(f, a3) /\ On(a3) = On(at) \cup {elem}
    BY <1>2, <2>1 DEF SwapDone
  <2>7. SameElsewhere(h, f, On(at) \cup {elem})
    BY <1>2, <2>1, SameTwice DEF SwapDone
  <2>8. \A k \in Nat : k < i => a3[k] = at[k]
    BY <1>1, <1>2, <2>2
  <2> HIDE DEF f, a3
  <2>9. FilledMore(at, a3, i)
    <3>1. SamePlaces(a2, a3)
      BY <2>2 DEF SamePlaces
    <3> QED  BY <1>5, <3>1, FilledSame
  <2>10. Inserted(h, r, key, elem, at, a3, i)
    BY <1>2, <2>2, <2>3, <2>5, <2>6, <2>7, <2>8, <2>9 DEF Inserted
  <2>11. Inserts(h, r, key, elem, at, i)
    BY <2>10 DEF Inserts
  <2> QED  BY <1>6, <2>11 DEF f
<1>7. CASE ~ cmp(key, x, t)
  <2>1. key[x] <= key[t]
    BY <1>4, <1>7 DEF cmp
  <2>2. ASSUME Ordered(at, key) PROVE OrderedBelow(a2, key, i, key[x])
    <3>1. /\ \A k \in Nat : k # c => Edge(a2, key, k)
          /\ Edge(a2, key, c)
      <4>1. Up(c) = i
        <5>1. Up(2 * i) = i /\ Up(2 * i + 1) = i
          BY UpFacts
        <5> QED  BY <5>1
      <4> QED  BY <1>2, <2>1, <2>2, <4>1 DEF OrderedBelow, Edge
    <3>2. ASSUME NEW k \in Nat, Up(k) = i, a2[k] # NULL PROVE key[x] <= key[a2[k]]
      <4>1. Edge(a2, key, k)
        BY <1>1, <3>1
      <4> QED  BY <1>1, <1>2, <3>2, <4>1, NullAssumption DEF Edge
    <3> QED  BY <3>1, <3>2 DEF OrderedBelow
  <2> DEFINE r == [top |-> x, h |-> g]
  <2>3. Inserted(h, r, key, elem, at, a2, i)
    BY <1>2, <1>5, <2>2 DEF Inserted
  <2>4. Inserts(h, r, key, elem, at, i)
    BY <2>3 DEF Inserts
  <2> QED  BY <1>7, <2>4
<1> QED  BY <1>6, <1>7
(* One level of gp_heap_ins_().                                            *)
InsDown(h, x, rec) == rec[CountUp(h, x)][h[InsertSide(h, x)][x]][x]

InsUp(h, x, key, rec) ==
  LET side == InsertSide(h, x)
      sub == InsDown(h, x, rec)
      g == SetSide(sub.h, side, x, sub.top) IN
  IF cmp(key, x, sub.top) THEN [top |-> sub.top, h |-> gp_heap_swap(g, x, side)]
                          ELSE [top |-> x, h |-> g]

(* A call: the node x, below p.                                            *)
InsCall(body, h, x, p) == body[h][x][p]

LEMMA InsBodyIs ==
  ASSUME NEW key, NEW elem, NEW rec, NEW h \in Heaps, NEW n \in Ptr, NEW p \in Ptr
  PROVE  /\ n = NULL => InsCall(InsBody(key, elem, rec), h, n, p) = [top |-> elem, h |-> Leaf(h, elem, p)]
         /\ n # NULL => InsCall(InsBody(key, elem, rec), h, n, p) = InsUp(h, n, key, rec)
<1> DEFINE End(s, q) == [top |-> elem, h |-> Leaf(s, elem, q)]
           Row(s) == [x \in Ptr |-> [q \in Ptr |-> IF x = NULL THEN End(s, q) ELSE InsUp(s, x, key, rec)]]
           Cell(s, x) == [q \in Ptr |-> IF x = NULL THEN End(s, q) ELSE InsUp(s, x, key, rec)]
<1>1. InsBody(key, elem, rec) = [s \in Heaps |-> Row(s)]
  BY DEF InsBody, CountUp, SetSide, InsUp, InsDown
<1>3. \A x \in Ptr : Row(h)[x] = Cell(h, x)
  OBVIOUS
<1>4. \A x \in Ptr : Cell(h, x)[p] = IF x = NULL THEN End(h, p) ELSE InsUp(h, x, key, rec)
  OBVIOUS
<1> HIDE DEF Row, Cell, End
<1>5. InsBody(key, elem, rec)[h] = Row(h)
  BY <1>1
<1>6. \A x \in Ptr : InsBody(key, elem, rec)[h][x][p] = IF x = NULL THEN End(h, p) ELSE InsUp(h, x, key, rec)
  BY <1>3, <1>4, <1>5
<1> QED  BY <1>6 DEF End, InsCall

LEMMA SideSame ==
  ASSUME NEW h \in Heaps, NEW side \in Sides, NEW x \in Nodes, NEW v \in Ptr, h[side][x] = v
  PROVE  SetSide(h, side, x, v) = h
<1>1. CASE side = "left"
  <2>1. [h.left EXCEPT ![x] = v] = h.left
    BY <1>1, HeapFields
  <2>2. SetSide(h, side, x, v) = [h EXCEPT !.left = [h.left EXCEPT ![x] = v]]
    BY <1>1 DEF Heaps, SetSide
  <2> QED  BY <2>1, <2>2 DEF Heaps
<1>2. CASE side = "right"
  <2>1. [h.right EXCEPT ![x] = v] = h.right
    BY <1>2, HeapFields
  <2>2. SetSide(h, side, x, v) = [h EXCEPT !.right = [h.right EXCEPT ![x] = v]]
    BY <1>2 DEF Heaps, SetSide
  <2> QED  BY <2>1, <2>2 DEF Heaps
<1> QED  BY <1>1, <1>2 DEF Sides

(* The child is there: it takes the node in.                               *)
LEMMA InsThrough ==
  ASSUME NEW key \in [Nodes -> Int], NEW elem \in Nodes, NEW h, NEW s, NEW at, NEW i \in Nat,
         NEW c \in {2 * i, 2 * i + 1}, at[i] # NULL, at[c] # NULL, Tree(at), s \in Heaps,
         SameElsewhere(h, s, On(at)), NEW r, Inserts(s, r, key, elem, at, c)
  PROVE  InMiddle(h, SetSide(r.h, SideOf(i, c), at[i], r.top), r.top, key, elem, at, i, c)
<1>1. PICK a2 : Inserted(s, r, key, elem, at, a2, c)
  BY DEF Inserts
<1>2. i # 0 /\ c \in Nat /\ i < c /\ Up(c) = i /\ at[i] \in Nodes
  <2>1. i # 0 /\ at[i] \in Nodes
    BY TreeFacts
  <2>2. Up(2 * i) = i /\ Up(2 * i + 1) = i
    BY UpFacts
  <2> QED  BY <2>1, <2>2
<1>3. /\ Linked(r.h, a2) /\ Counted(r.h, a2, NULL) /\ r.h \in Heaps /\ Tree(a2)
      /\ On(a2) = On(at) \cup {elem} /\ SameElsewhere(s, r.h, On(at) \cup {elem})
      /\ r.top = a2[c] /\ r.top # NULL /\ \A k \in Nat : k < c => a2[k] = at[k]
      /\ Ordered(at, key) => OrderedBelow(a2, key, c, key[at[c]])
  BY <1>1 DEF Inserted, Linked
<1>4. a2[i] = at[i] /\ \A k \in Nat : k < i => a2[k] = at[k]
  BY <1>2, <1>3
<1>5. SideOf(i, c) \in Sides /\ r.h[SideOf(i, c)][at[i]] = r.top
  <2>1. r.h.left[at[i]] = a2[2 * i] /\ r.h.right[at[i]] = a2[2 * i + 1]
    BY <1>3, <1>4, LinkedFacts
  <2>2. c = 2 * i \/ (c = 2 * i + 1 /\ c # 2 * i)
    OBVIOUS
  <2> QED  BY <1>3, <2>1, <2>2 DEF SideOf, Sides
<1>6. SetSide(r.h, SideOf(i, c), at[i], r.top) = r.h
  <2>1. r.top \in Ptr
    BY <1>2, <1>3, TreeFacts
  <2> DEFINE side == SideOf(i, c)
             x == at[i]
             t == r.top
             g == r.h
  <2>2. side \in Sides /\ x \in Nodes /\ t \in Ptr /\ g \in Heaps /\ g[side][x] = t
    BY <1>2, <1>3, <1>5, <2>1
  <2> HIDE DEF side, x, t, g
  <2>3. SetSide(g, side, x, t) = g
    BY <2>2, SideSame
  <2> QED  BY <2>3 DEF side, x, t, g
<1>7. SameElsewhere(h, r.h, On(at) \cup {elem})
  BY <1>3 DEF SameElsewhere
<1>8. ASSUME Ordered(at, key) PROVE OrderedBelow(a2, key, c, key[at[i]])
  <2>1. OrderedBelow(a2, key, c, key[at[c]])
    BY <1>3, <1>8
  <2>2. key[at[i]] <= key[at[c]]
    BY <1>2, <1>8 DEF Ordered, Edge
  <2>3. key[at[i]] \in Int /\ key[at[c]] \in Int
    BY <1>2, TreeFacts
  <2>4. \A k \in Nat : a2[k] # NULL => key[a2[k]] \in Int
    BY <1>3, TreeFacts
  <2> QED  BY <2>1, <2>2, <2>3, <2>4 DEF OrderedBelow
<1>9. FilledMore(at, a2, c)
  BY <1>1 DEF Inserted
<1>10. Middle(h, r.h, key, elem, at, a2, i, c)
  BY <1>3, <1>4, <1>7, <1>8, <1>9 DEF Middle
<1> QED  BY <1>3, <1>6, <1>10 DEF InMiddle

(* It is not: the node becomes the child.                                  *)
LEMMA InsAsChild ==
  ASSUME NEW key \in [Nodes -> Int], NEW elem \in Nodes, NEW h, NEW s, NEW at, NEW i \in Nat,
         NEW c \in {2 * i, 2 * i + 1}, at[i] # NULL, at[c] = NULL, MayPut(at, c),
         Linked(s, at), Counted(s, at, at[i]), elem \notin On(at), SameElsewhere(h, s, On(at))
  PROVE  InMiddle(h, SetSide(Leaf(s, elem, at[i]), SideOf(i, c), at[i], elem), elem,
                  key, elem, at, i, c)
<1> DEFINE a2 == PutAt(at, c, elem)
           g == SetSide(Leaf(s, elem, at[i]), SideOf(i, c), at[i], elem)
<1>1. Tree(at) /\ elem # NULL
  BY NullAssumption DEF Linked
<1>2. i # 0 /\ c \in Nat /\ i < c /\ Up(c) = i /\ c # 0
  <2>1. i # 0
    BY <1>1, TreeFacts
  <2>2. Up(2 * i) = i /\ Up(2 * i + 1) = i
    BY UpFacts
  <2> QED  BY <2>1, <2>2
<1>3. Linked(g, a2) /\ Counted(g, a2, NULL) /\ SameElsewhere(s, g, On(at) \cup {elem})
  BY LeafLinked
<1>4. On(a2) = (On(at) \ {at[c]}) \cup {elem} /\ a2[c] = elem /\ \A k \in Nat : k # c => a2[k] = at[k]
  BY <1>1, PutFacts
<1> HIDE DEF g, a2
<1>5. On(a2) = On(at) \cup {elem}
  BY <1>1, <1>2, <1>4, TreeFacts, NullAssumption
<1>6. SameElsewhere(h, g, On(at) \cup {elem})
  BY <1>3 DEF SameElsewhere
<1>7. ASSUME Ordered(at, key) PROVE OrderedBelow(a2, key, c, key[at[i]])
  <2>1. ASSUME NEW k \in Nat, Up(k) = c PROVE a2[k] = NULL
    <3>1. k = 2 * c \/ k = 2 * c + 1
      BY <2>1, UpFacts
    <3>2. at[2 * c] = NULL /\ at[2 * c + 1] = NULL
      BY <1>1, <1>2 DEF Tree
    <3> QED  BY <1>2, <1>4, <3>1, <3>2
  <2>2. ASSUME NEW k \in Nat, k # c PROVE Edge(a2, key, k)
    <3>1. CASE Up(k) = c
      BY <2>1, <3>1 DEF Edge
    <3>2. CASE Up(k) # c
      <4>1. Up(k) \in Nat
        BY UpFacts
      <4>2. a2[k] = at[k] /\ a2[Up(k)] = at[Up(k)]
        BY <1>4, <2>2, <3>2, <4>1
      <4> QED  BY <1>7, <4>2 DEF Ordered, Edge
    <3> QED  BY <3>1, <3>2
  <2> QED  BY <2>1, <2>2 DEF OrderedBelow
<1>8. \A k \in Nat : k < i => a2[k] = at[k]
  BY <1>2, <1>4
<1>9. a2[i] = at[i]
  BY <1>2, <1>4
<1>10. FilledMore(at, a2, c)
  <2> SUFFICES ASSUME NEW n \in Nat, Filled(at, n), Above(c, n + 1) PROVE Filled(a2, n + 1)
    BY DEF FilledMore
  <2>1. n < c
    BY <1>2 DEF Filled
  <2>2. n + 1 = c
    <3>1. n + 1 \in Nat /\ n + 1 < 2 * c /\ c \in Nat \ {0}
      BY <1>2, <2>1
    <3> QED  BY <3>1, AboveLeaf
  <2> QED  BY <1>1, <1>4, <2>2 DEF Filled
<1>11. Middle(h, g, key, elem, at, a2, i, c)
  BY <1>1, <1>3, <1>4, <1>5, <1>6, <1>7, <1>8, <1>9, <1>10 DEF Middle
<1> QED  BY <1>4, <1>11 DEF g, InMiddle

LEMMA InsAtLeaf ==
  ASSUME NEW key \in [Nodes -> Int], NEW elem \in Nodes
  PROVE  InsSound(InsLeaf(elem), key, elem, 0)
<1>1. ASSUME NEW h \in Heaps, NEW p \in Ptr
      PROVE  InsLeaf(elem)[h][NULL][p] = [top |-> elem, h |-> Leaf(h, elem, p)]
  <2>1. NULL \in Ptr
    BY DEF Ptr
  <2>2. InsLeaf(elem)[h] = [x \in Ptr |-> [q \in Ptr |-> [top |-> elem, h |-> Leaf(h, elem, q)]]]
    BY DEF InsLeaf
  <2>3. InsLeaf(elem)[h][NULL] = [q \in Ptr |-> [top |-> elem, h |-> Leaf(h, elem, q)]]
    BY <2>1, <2>2
  <2> QED  BY <2>3
<1>2. InsBelow(InsLeaf(elem), key, elem, 0)
  <2> SUFFICES ASSUME NEW h, NEW at, NEW i \in Nat, Counted(h, at, at[Up(i)]), at[i] # NULL,
                      h.children[at[i]] < 0
               PROVE  FALSE
    BY DEF InsBelow
  <2>1. h.children[at[i]] \in Nat
    BY DEF Counted
  <2> QED  BY <2>1
<1> QED  BY <1>1, <1>2 DEF InsSound, InsAtNull

LEMMA InsStep ==
  ASSUME NEW key \in [Nodes -> Int], NEW elem \in Nodes, NEW d \in Nat, NEW rec,
         InsSound(rec, key, elem, d - 1)
  PROVE  InsSound(InsBody(key, elem, rec), key, elem, d)
<1>1. InsAtNull(InsBody(key, elem, rec), elem)
  <2>1. NULL \in Ptr
    BY DEF Ptr
  <2>2. ASSUME NEW h \in Heaps, NEW p \in Ptr
        PROVE  InsBody(key, elem, rec)[h][NULL][p] = [top |-> elem, h |-> Leaf(h, elem, p)]
    <3>1. InsCall(InsBody(key, elem, rec), h, NULL, p) = [top |-> elem, h |-> Leaf(h, elem, p)]
      BY <2>1, InsBodyIs
    <3> QED  BY <3>1 DEF InsCall
  <2> QED  BY <2>2 DEF InsAtNull
<1>2. InsBelow(InsBody(key, elem, rec), key, elem, d)
  <2> SUFFICES ASSUME NEW h, NEW at, NEW i \in Nat, Linked(h, at), Counted(h, at, at[Up(i)]),
                      at[i] # NULL, elem \notin On(at), h.children[at[i]] < d
               PROVE  Inserts(h, InsBody(key, elem, rec)[h][at[i]][at[Up(i)]], key, elem, at, i)
    BY DEF InsBelow
  <2> DEFINE x == at[i]
             side == InsertSide(h, x)
             c == IF side = "left" THEN 2 * i ELSE 2 * i + 1
             s == CountUp(h, x)
             sub == rec[s][at[c]][x]
             g == SetSide(sub.h, side, x, sub.top)
  <2>1. h \in Heaps /\ Tree(at) /\ x \in Nodes /\ i # 0 /\ Up(i) \in Nat /\ at[Up(i)] \in Ptr
    <3>1. h \in Heaps /\ Tree(at) /\ Up(i) \in Nat
      BY UpFacts DEF Linked
    <3> QED  BY <3>1, TreeFacts
  <2>2. InsBody(key, elem, rec)[h][x][at[Up(i)]] = InsUp(h, x, key, rec)
    <3> DEFINE p == at[Up(i)]
    <3>1. p \in Ptr /\ x \in Ptr /\ x # NULL /\ h \in Heaps
      BY <2>1 DEF Ptr
    <3> HIDE DEF p, x
    <3>2. InsCall(InsBody(key, elem, rec), h, x, p) = InsUp(h, x, key, rec)
      BY ONLY <3>1, InsBodyIs
    <3> QED  BY <3>2 DEF p, InsCall
  <2>3. side \in Sides /\ (side = "right" => h.left[x] # NULL)
    BY InsertSideFacts
  <2>4. c \in {2 * i, 2 * i + 1} /\ side = SideOf(i, c) /\ c \in Nat
    BY <2>3 DEF Sides, SideOf
  <2>5. h[side][x] = at[c]
    <3>1. h.left[x] = at[2 * i] /\ h.right[x] = at[2 * i + 1]
      BY <2>1, LinkedFacts
    <3> QED  BY <2>3, <3>1 DEF Sides
  <2>6. Recounted(h, s, x, 1)
    BY <2>1, RecountSet DEF CountUp
  <2> HIDE DEF s
  <2>7. Linked(s, at) /\ s \in Heaps
    <3>1. Linked(s, at)
      BY <2>6, RecountLinked
    <3> QED  BY <3>1 DEF Linked
  <2>8. Counted(s, at, x)
    <3>1. 1 \in {-1, 1}
      OBVIOUS
    <3>2. Counted(s, at, IF 1 = 1 THEN at[i] ELSE at[Up(i)])
      BY <2>1, <2>6, <3>1, RecountCounted
    <3> QED  BY <3>2
  <2>9. SameElsewhere(h, s, On(at))
    BY <2>6 DEF Recounted, SameElsewhere
  <2>10. Up(c) = i /\ MayPut(at, c)
    <3>1. Up(2 * i) = i /\ Up(2 * i + 1) = i
      BY UpFacts
    <3>2. Up(c) = i /\ c # 0 /\ c # 1
      BY <2>1, <2>4, <3>1
    <3>3. c = 2 * i + 1 => at[2 * i] # NULL
      <4>1. h.left[x] = at[2 * i]
        BY LinkedFacts
      <4>2. c = 2 * i + 1 => side = "right"
        BY <2>3 DEF Sides
      <4> QED  BY <2>3, <4>1, <4>2
    <3> QED  BY <2>4, <3>2, <3>3 DEF MayPut
  <2>11. InsUp(h, x, key, rec) =
          IF cmp(key, x, sub.top) THEN [top |-> sub.top, h |-> gp_heap_swap(g, x, side)]
                                  ELSE [top |-> x, h |-> g]
    BY <2>5 DEF InsUp, InsDown, s
  <2>12. AlsoAbove(at, i, c)
    BY InsertSideIs DEF AlsoAbove, SidePosition
  <2> HIDE DEF side, c
  <2>13. InMiddle(h, g, sub.top, key, elem, at, i, c)
    <3>1. CASE at[c] = NULL
      <4>1. sub = [top |-> elem, h |-> Leaf(s, elem, x)]
        <5>1. x \in Ptr
          BY <2>1 DEF Ptr
        <5>2. InsAtNull(rec, elem)
          BY DEF InsSound
        <5>3. rec[s][NULL][x] = [top |-> elem, h |-> Leaf(s, elem, x)]
          BY <2>7, <5>1, <5>2 DEF InsAtNull
        <5> QED  BY <3>1, <5>3
      <4>2. InMiddle(h, SetSide(Leaf(s, elem, x), SideOf(i, c), x, elem), elem, key, elem, at, i, c)
        <5>1. /\ c \in {2 * i, 2 * i + 1} /\ at[i] # NULL /\ at[c] = NULL /\ MayPut(at, c)
              /\ Linked(s, at) /\ Counted(s, at, at[i]) /\ elem \notin On(at)
              /\ SameElsewhere(h, s, On(at))
          BY <2>4, <2>7, <2>8, <2>9, <2>10, <3>1
        <5>2. i \in Nat /\ elem \in Nodes /\ key \in [Nodes -> Int]
          OBVIOUS
        <5> HIDE DEF g, sub, x
        <5>3. InMiddle(h, SetSide(Leaf(s, elem, at[i]), SideOf(i, c), at[i], elem), elem, key, elem, at, i, c)
          BY ONLY <5>1, <5>2, InsAsChild
        <5> QED  BY <5>3 DEF x
      <4> QED  BY <2>4, <4>1, <4>2
    <3>2. CASE at[c] # NULL
      <4>1. s.children[at[c]] < d - 1
        <5>1. h.children[x] \in Nat /\ h.children[at[c]] \in Nat /\ h.children[at[c]] < h.children[x]
          BY <2>1, <2>4, <3>2, ChildCountsLess
        <5>2. at[c] \in Nodes /\ at[c] # x
          BY <2>1, <2>4, <3>2, <5>1, TreeFacts
        <5>3. s.children[at[c]] = h.children[at[c]]
          BY <2>6, <5>2 DEF Recounted
        <5> QED  BY <5>1, <5>3
      <4>2. InsBelow(rec, key, elem, d - 1)
        BY DEF InsSound
      <4>3. Inserts(s, rec[s][at[c]][at[Up(c)]], key, elem, at, c)
        BY <2>4, <2>7, <2>8, <2>10, <3>2, <4>1, <4>2 DEF InsBelow
      <4>4. Inserts(s, sub, key, elem, at, c)
        BY <2>10, <4>3
      <4> HIDE DEF sub
      <4>5. InMiddle(h, SetSide(sub.h, SideOf(i, c), x, sub.top), sub.top, key, elem, at, i, c)
        <5>1. /\ i \in Nat /\ c \in {2 * i, 2 * i + 1} /\ at[i] # NULL /\ at[c] # NULL /\ Tree(at)
              /\ s \in Heaps /\ SameElsewhere(h, s, On(at)) /\ Inserts(s, sub, key, elem, at, c)
          BY <2>1, <2>4, <2>7, <2>9, <3>2, <4>4
        <5>2. elem \in Nodes /\ key \in [Nodes -> Int]
          OBVIOUS
        <5> HIDE DEF g, x
        <5>3. InMiddle(h, SetSide(sub.h, SideOf(i, c), at[i], sub.top), sub.top, key, elem, at, i, c)
          BY ONLY <5>1, <5>2, InsThrough
        <5> QED  BY <5>3 DEF x
      <4> QED  BY <2>4, <4>5
    <3> QED  BY <3>1, <3>2
  <2> HIDE DEF g, sub
  <2>14. PICK a2 : Middle(h, g, key, elem, at, a2, i, c) /\ sub.top = a2[c]
    BY <2>13 DEF InMiddle
  <2>15. Inserts(h, IF cmp(key, x, a2[c])
                    THEN [top |-> a2[c], h |-> gp_heap_swap(g, x, SideOf(i, c))]
                    ELSE [top |-> x, h |-> g], key, elem, at, i)
    BY <2>1, <2>4, <2>14, <2>12, InsFinish
  <2> QED  BY <2>2, <2>4, <2>11, <2>14, <2>15
<1> QED  BY <1>1, <1>2 DEF InsSound

-----------------------------------------------------------------------------
(* gp_heap_ins() adds its node and nothing else, and keeps the order.      *)
Added(h, r, at, a2, elem, key) ==
  /\ HeapOf(r.h, r.top, a2) /\ On(a2) = On(at) \cup {elem}
  /\ SameElsewhere(h, r.h, On(at) \cup {elem}) /\ FilledMore(at, a2, 1)
  /\ Ordered(at, key) => Ordered(a2, key)

LEMMA FirstNode ==
  ASSUME NEW h, NEW at, Linked(h, at), at[1] = NULL, NEW elem \in Nodes, NEW key
  PROVE  Added(h, [top |-> elem, h |-> Leaf(h, elem, NULL)], at, PutAt(at, 1, elem), elem, key)
<1> DEFINE a2 == PutAt(at, 1, elem)
           g == Leaf(h, elem, NULL)
<1>1. h \in Heaps /\ Tree(at) /\ elem # NULL
  BY NullAssumption DEF Linked
<1>2. On(at) = {} /\ \A k \in Nat : at[k] = NULL
  BY <1>1, EmptyTree, EmptyHeap
<1>3. MayPut(at, 1)
  BY DEF MayPut
<1>4. Tree(a2) /\ On(a2) = (On(at) \ {at[1]}) \cup {elem} /\ a2[1] = elem
      /\ \A k \in Nat : k # 1 => a2[k] = at[k]
  BY <1>1, <1>2, <1>3, PutFacts
<1>5. LeafMade(h, g, elem, NULL)
  BY <1>1, LeafFields DEF Ptr
<1> HIDE DEF a2, g
<1>6. \A k \in Nat : k # 1 => a2[k] = NULL
  BY <1>2, <1>4
<1>7. a2[2 * 1] = NULL /\ a2[2 * 1 + 1] = NULL /\ a2[Up(1)] = NULL
  <2>1. Up(1) = 0
    BY DEF Up
  <2> QED  BY <1>6, <2>1
<1>8. Linked(g, a2)
  BY <1>1, <1>4, <1>5, <1>6, <1>7 DEF Linked, LeafMade
<1>9. Counted(g, a2, NULL)
  <2>1. g.children[elem] = 0
    BY <1>5 DEF LeafMade
  <2> QED  BY <1>1, <1>4, <1>6, <1>7, <2>1 DEF Counted, gp_heap_size
<1>10. Ordered(a2, key)
  <2> SUFFICES ASSUME NEW k \in Nat, a2[k] # NULL, a2[Up(k)] # NULL PROVE FALSE
    BY DEF Ordered, Edge
  <2>1. Up(k) \in Nat
    BY UpFacts
  <2> QED  BY <1>6, <1>7, <2>1
<1>11. On(a2) = On(at) \cup {elem} /\ SameElsewhere(h, g, On(at) \cup {elem})
  BY <1>2, <1>4, <1>5 DEF SameElsewhere, LeafMade
<1>12. FilledMore(at, a2, 1)
  <2> SUFFICES ASSUME NEW n \in Nat, Filled(at, n) PROVE Filled(a2, n + 1)
    BY DEF FilledMore
  <2>1. n = 0
    BY <1>2 DEF Filled
  <2> QED  BY <1>1, <1>4, <1>6, <2>1 DEF Filled
<1> QED  BY <1>4, <1>8, <1>9, <1>10, <1>11, <1>12 DEF Added, HeapOf, g, a2

LEMMA InsertSound ==
  ASSUME NEW h, NEW top, NEW at, HeapOf(h, top, at), NEW elem \in Nodes, elem \notin On(at),
         NEW key \in [Nodes -> Int]
  PROVE  \E a2 : Added(h, gp_heap_ins(h, key, top, elem), at, a2, elem, key)
<1> DEFINE depth == gp_heap_size(h, top)
           ins == gp_heap_ins_(key, elem, depth)
           r == ins[depth][h][top][NULL]
           G == {d \in 0 .. depth : InsSound(ins[d], key, elem, d)}
<1>1. Linked(h, at) /\ Counted(h, at, NULL) /\ top = at[1] /\ Tree(at) /\ h \in Heaps
      /\ at[0] = NULL
  BY DEF HeapOf, Linked, Tree
<1>2. depth \in Nat /\ (top # NULL => h.children[top] < depth)
  <2>1. gp_heap_size(h, at[1]) \in Nat
    BY <1>1, SizeIsNat
  <2>2. top # NULL => h.children[top] \in Nat
    BY <1>1 DEF Counted
  <2> QED  BY <1>1, <2>1, <2>2 DEF gp_heap_size
<1> HIDE DEF depth
<1>3. ins[0] = InsLeaf(elem) /\ \A d \in 1 .. depth : ins[d] = InsBody(key, elem, ins[d - 1])
  BY <1>2, InsUnfolds
<1> HIDE DEF ins
<1>4. 0 \in G
  BY <1>2, <1>3, InsAtLeaf
<1>5. ASSUME NEW d \in 1 .. depth, d - 1 \in G PROVE d \in G
  <2>1. InsSound(InsBody(key, elem, ins[d - 1]), key, elem, d)
    BY <1>5, InsStep
  <2> QED  BY <1>3, <2>1
<1> HIDE DEF G
<1>6. depth \in G
  BY <1>2, <1>4, <1>5, DepthInduction
<1>7. InsAtNull(ins[depth], elem) /\ InsBelow(ins[depth], key, elem, depth)
  BY <1>6 DEF G, InsSound
<1>8. gp_heap_ins(h, key, top, elem) = r
  BY DEF gp_heap_ins, ins, depth
<1>9. CASE top = NULL
  <2>1. r = [top |-> elem, h |-> Leaf(h, elem, NULL)]
    BY <1>1, <1>7, <1>9 DEF InsAtNull, Ptr
  <2>2. Linked(h, at) /\ at[1] = NULL
    BY <1>1, <1>9
  <2> HIDE DEF r
  <2>3. Added(h, [top |-> elem, h |-> Leaf(h, elem, NULL)], at, PutAt(at, 1, elem), elem, key)
    BY <2>2, FirstNode
  <2>4. Added(h, r, at, PutAt(at, 1, elem), elem, key)
    BY <2>1, <2>3
  <2> QED  BY <1>8, <2>4
<1>10. CASE top # NULL
  <2>1. Up(1) = 0
    BY DEF Up
  <2>2. Inserts(h, ins[depth][h][at[1]][at[Up(1)]], key, elem, at, 1)
    BY <1>1, <1>2, <1>7, <1>10, <2>1 DEF InsBelow
  <2>3. Inserts(h, r, key, elem, at, 1)
    BY <1>1, <2>1, <2>2
  <2> HIDE DEF r
  <2>4. PICK a2 : Inserted(h, r, key, elem, at, a2, 1)
    BY <2>3 DEF Inserts
  <2>5. ASSUME Ordered(at, key) PROVE Ordered(a2, key)
    <3>1. OrderedBelow(a2, key, 1, key[at[1]])
      BY <2>4, <2>5 DEF Inserted
    <3>2. a2[Up(1)] = NULL
      BY <2>1, <2>4 DEF Inserted, Linked, Tree
    <3> QED  BY <3>1, <3>2 DEF OrderedBelow, Ordered, Edge
  <2>6. Added(h, r, at, a2, elem, key)
    BY <2>4, <2>5 DEF Inserted, Added, HeapOf
  <2> QED  BY <1>8, <2>6
<1> QED  BY <1>9, <1>10
-----------------------------------------------------------------------------
(* What is reached from the root is what is in the tree.                   *)
LEMMA BelowIsOn ==
  ASSUME NEW h, NEW at, Linked(h, at)
  PROVE  Below(h, at[1]) = On(at)
<1>1. Tree(at)
  BY DEF Linked
<1>2. On(at) \in SUBSET Nodes /\ at[1] \in On(at) \cup {NULL}
  BY <1>1, TreeFacts
<1>3. Closed(h, On(at))
  <2>1. ASSUME NEW n \in On(at) PROVE {h.left[n], h.right[n]} \subseteq On(at) \cup {NULL}
    <3>1. PICK i \in Nat : i # 0 /\ at[i] = n
      BY <1>1, TreeFacts
    <3>2. n # NULL
      BY <1>1, TreeFacts, NullAssumption
    <3>3. h.left[n] = at[2 * i] /\ h.right[n] = at[2 * i + 1]
      BY <3>1, <3>2, LinkedFacts
    <3>4. 2 * i \in Nat /\ 2 * i + 1 \in Nat
      OBVIOUS
    <3>5. at[2 * i] \in On(at) \cup {NULL} /\ at[2 * i + 1] \in On(at) \cup {NULL}
      BY <1>1, <3>4, TreeFacts
    <3> QED  BY <3>3, <3>5
  <2> QED  BY <2>1 DEF Closed
<1>4. Below(h, at[1]) \subseteq On(at)
  BY <1>2, <1>3 DEF Below
<1>5. ASSUME NEW n \in On(at), NEW C \in SUBSET Nodes, at[1] \in C \cup {NULL}, Closed(h, C)
      PROVE  n \in C
  <2> DEFINE Bad == {k \in Nat : at[k] # NULL /\ at[k] \notin C}
  <2>1. Bad = {}
    <3> SUFFICES ASSUME Bad # {} PROVE FALSE
      OBVIOUS
    <3>1. PICK k \in Bad : \A y \in Bad : k =< y
      <4>1. Bad \subseteq Nat
        OBVIOUS
      <4> QED  BY <4>1, SmallestExists
    <3>2. k \in Nat /\ at[k] # NULL /\ at[k] \notin C /\ k # 0
      BY <1>1, <3>1, TreeFacts
    <3>3. k # 1
      BY <1>5, <3>2
    <3>4. Up(k) \in Nat /\ Up(k) < k /\ (k = 2 * Up(k) \/ k = 2 * Up(k) + 1)
      BY <3>2, UpFacts
    <3>5. Up(k) # 0
      BY <3>2, <3>3, <3>4
    <3>6. at[Up(k)] # NULL
      BY <1>1, <3>2, <3>5, UpInTree
    <3>7. at[Up(k)] \in C
      BY <3>1, <3>4, <3>6
    <3>8. h.left[at[Up(k)]] = at[2 * Up(k)] /\ h.right[at[Up(k)]] = at[2 * Up(k) + 1]
      BY <3>4, <3>6, LinkedFacts
    <3>9. h.left[at[Up(k)]] \in C \cup {NULL} /\ h.right[at[Up(k)]] \in C \cup {NULL}
      BY <1>5, <3>7 DEF Closed
    <3> QED  BY <3>2, <3>4, <3>8, <3>9
  <2>2. PICK i \in Nat : at[i] = n /\ n # NULL
    BY <1>1, TreeFacts, NullAssumption
  <2> QED  BY <2>1, <2>2
<1>6. On(at) \subseteq Below(h, at[1])
  BY <1>2, <1>5 DEF Below
<1> QED  BY <1>4, <1>6

LEMMA OrderedIsHeapOrdered ==
  ASSUME NEW h, NEW at, NEW key, Linked(h, at), Ordered(at, key)
  PROVE  HeapOrdered(h, key, at[1])
<1> SUFFICES ASSUME NEW n \in On(at), NEW c \in {h.left[n], h.right[n]} \ {NULL}
             PROVE  key[n] <= key[c]
  BY BelowIsOn DEF HeapOrdered
<1>1. Tree(at)
  BY DEF Linked
<1>2. PICK i \in Nat : at[i] = n /\ n # NULL
  BY <1>1, TreeFacts, NullAssumption
<1>3. h.left[n] = at[2 * i] /\ h.right[n] = at[2 * i + 1]
  BY <1>2, LinkedFacts
<1>4. Up(2 * i) = i /\ Up(2 * i + 1) = i /\ 2 * i \in Nat /\ 2 * i + 1 \in Nat
  BY UpFacts
<1>5. Edge(at, key, 2 * i) /\ Edge(at, key, 2 * i + 1)
  BY <1>4 DEF Ordered
<1> QED  BY <1>2, <1>3, <1>4, <1>5 DEF Edge

(* Keys of nodes that are not in the tree do not matter.                   *)
LEMMA OrderedByTheSame ==
  ASSUME NEW at, Tree(at), NEW key, NEW key2, \A n \in On(at) : key2[n] = key[n],
         Ordered(at, key)
  PROVE  Ordered(at, key2)
<1> SUFFICES ASSUME NEW k \in Nat, at[k] # NULL, at[Up(k)] # NULL PROVE key2[at[Up(k)]] <= key2[at[k]]
  BY DEF Ordered, Edge
<1>1. Up(k) \in Nat
  BY UpFacts
<1>2. at[k] \in On(at) /\ at[Up(k)] \in On(at)
  BY <1>1, TreeFacts
<1>3. key[at[Up(k)]] <= key[at[k]]
  BY DEF Ordered, Edge
<1> QED  BY <1>2, <1>3

-----------------------------------------------------------------------------
(* Any user of the heap: the nodes it has are those of a complete tree.    *)
Complete(at) == \E n \in Nat : Filled(at, n)

UserTree ==
  \E at : HeapOf(tree, root, at) /\ On(at) = used /\ Ordered(at, prio) /\ Complete(at)

UserInv ==
  /\ prio \in [Nodes -> Int]
  /\ used \subseteq Nodes
  /\ ~ tree.bug
  /\ UserTree

LEMMA CompleteWithMore ==
  ASSUME NEW at, NEW a2, FilledMore(at, a2, 1), Complete(at)
  PROVE  Complete(a2)
<1>1. PICK n \in Nat : Filled(at, n)
  BY DEF Complete
<1>2. n + 1 \in Nat \ {0}
  OBVIOUS
<1>3. Above(1, n + 1)
  BY <1>2, AboveAll
<1> QED  BY <1>1, <1>2, <1>3 DEF FilledMore, Complete

LEMMA CompleteWithLess ==
  ASSUME NEW at, NEW a2, FilledLess(at, a2), Complete(at), at[1] # NULL
  PROVE  Complete(a2)
<1>1. PICK n \in Nat : Filled(at, n)
  BY DEF Complete
<1>2. n - 1 \in Nat /\ (n - 1) + 1 = n
  BY <1>1 DEF Filled
<1> QED  BY <1>1, <1>2 DEF FilledLess, Complete

(* A node that is not in the tree may be wiped.                            *)
LEMMA ForgetElsewhere ==
  ASSUME NEW h, NEW top, NEW at, HeapOf(h, top, at), NEW n \in Nodes, n \notin On(at)
  PROVE  HeapOf(Forget(h, n), top, at) /\ Forget(h, n).bug = h.bug
<1> DEFINE g == Forget(h, n)
<1>1. Linked(h, at) /\ Counted(h, at, NULL) /\ top = at[1] /\ h \in Heaps /\ Tree(at)
  BY DEF HeapOf, Linked
<1>2. LeafMade(h, Leaf(h, n, NULL), n, NULL)
  BY <1>1, LeafFields DEF Ptr
<1>3. LeafMade(h, g, n, NULL)
  BY <1>2 DEF Leaf, Forget
<1> HIDE DEF g
<1>4. \A k \in Nat : at[k] # NULL => /\ at[k] \in Nodes /\ at[k] # n
  BY <1>1, TreeFacts
<1>5. \A k \in Nat : at[k] # NULL =>
        /\ g.left[at[k]] = h.left[at[k]] /\ g.right[at[k]] = h.right[at[k]]
        /\ g.up[at[k]] = h.up[at[k]] /\ g.children[at[k]] = h.children[at[k]]
  BY <1>3, <1>4 DEF LeafMade
<1>6. Linked(g, at)
  BY <1>1, <1>3, <1>5 DEF Linked, LeafMade
<1>7. \A k \in Nat : at[k] # NULL => g.children[at[k]] = h.children[at[k]]
  BY <1>5
<1>8. Counted(g, at, NULL)
  BY <1>1, <1>7, CountedAcross
<1>9. g.bug = h.bug
  BY <1>3 DEF LeafMade
<1> QED  BY <1>1, <1>6, <1>8, <1>9 DEF HeapOf, g

LEMMA UserStarts == UserInit => UserInv
<1> SUFFICES ASSUME UserInit PROVE UserInv
  OBVIOUS
<1> DEFINE at == [i \in Nat |-> NULL]
<1>1. tree = EmptyLinks /\ root = NULL /\ prio = [n \in Nodes |-> 0] /\ used = {}
  BY DEF UserInit
<1>2. tree \in Heaps
  BY <1>1 DEF EmptyLinks, Heaps, Ptr
<1>3. \A i \in Nat : at[i] = NULL
  OBVIOUS
<1>4. at \in [Nat -> Ptr]
  BY DEF Ptr
<1> HIDE DEF at
<1>5. Tree(at) /\ at[1] = NULL
  BY <1>3, <1>4 DEF Tree
<1>6. HeapOf(tree, root, at) /\ On(at) = used /\ Ordered(at, prio)
  BY <1>1, <1>2, <1>5, EmptyHeap
<1>7. prio \in [Nodes -> Int] /\ ~ tree.bug
  BY <1>1 DEF EmptyLinks
<1>8. Complete(at)
  BY <1>3 DEF Complete, Filled
<1> QED  BY <1>1, <1>6, <1>7, <1>8 DEF UserInv, UserTree

LEMMA InsertKeepsTree ==
  ASSUME UserInv, NEW n \in Nodes, NEW k \in 0 .. MaxKey, Insert(n, k)
  PROVE  UserInv'
<1> DEFINE r == gp_heap_ins(tree, prio', root, n)
<1>1. PICK at : HeapOf(tree, root, at) /\ On(at) = used /\ Ordered(at, prio) /\ Complete(at)
  BY DEF UserInv, UserTree
<1>2. n \notin used /\ prio' = [prio EXCEPT ![n] = k] /\ tree' = r.h /\ root' = r.top
      /\ used' = used \cup {n} /\ prio \in [Nodes -> Int] /\ used \subseteq Nodes
  BY DEF Insert, UserInv
<1>3. prio' \in [Nodes -> Int] /\ \A m \in On(at) : prio'[m] = prio[m]
  BY <1>1, <1>2
<1>4. Ordered(at, prio')
  <2>1. Tree(at)
    BY <1>1 DEF HeapOf, Linked
  <2> QED  BY <1>1, <1>3, <2>1, OrderedByTheSame
<1>5. PICK a2 : Added(tree, r, at, a2, n, prio')
  BY <1>1, <1>2, <1>3, InsertSound
<1> HIDE DEF r
<1>6. HeapOf(tree', root', a2) /\ On(a2) = used' /\ Ordered(a2, prio')
  BY <1>1, <1>2, <1>4, <1>5 DEF Added
<1>7. Complete(a2)
  BY <1>1, <1>5, CompleteWithMore DEF Added
<1>8. UserTree'
  BY <1>6, <1>7 DEF UserTree
<1>9. ~ tree'.bug
  BY <1>2, <1>5 DEF Added, SameElsewhere, UserInv
<1> QED  BY <1>2, <1>3, <1>8, <1>9 DEF UserInv

(* A node is off the tree: it is wiped, with its key.                      *)
LEMMA RemovedIsForgotten ==
  ASSUME UserInv, NEW n \in Nodes, NEW r, NEW at, NEW a2,
         On(at) = used, Ordered(at, prio), Complete(at), at[1] # NULL,
         Removed(tree, r, at, a2, n, prio, prio),
         tree' = Forget(r.h, n), root' = r.top,
         used' = used \ {n}, prio' = [prio EXCEPT ![n] = 0]
  PROVE  UserInv'
<1>1. HeapOf(r.h, r.top, a2) /\ On(a2) = used' /\ Ordered(a2, prio) /\ Tree(a2)
  BY DEF Removed, HeapOf, Linked
<1>2. HeapOf(tree', root', a2) /\ ~ tree'.bug
  <2>1. r.h.bug = tree.bug
    BY DEF Removed, SameElsewhere
  <2> QED  BY <1>1, <2>1, ForgetElsewhere DEF UserInv
<1>3. prio' \in [Nodes -> Int] /\ \A m \in On(a2) : prio'[m] = prio[m]
  BY <1>1 DEF UserInv
<1>4. Ordered(a2, prio')
  BY <1>1, <1>3, OrderedByTheSame
<1>5. Complete(a2)
  BY CompleteWithLess DEF Removed
<1>6. UserTree'
  BY <1>1, <1>2, <1>4, <1>5 DEF UserTree
<1> QED  BY <1>2, <1>3, <1>6 DEF UserInv

LEMMA RemoveKeepsTree ==
  ASSUME UserInv, NEW n \in Nodes, Remove(n)
  PROVE  UserInv'
<1> DEFINE r == gp_heap_rem(tree, prio, root, n)
<1>1. PICK at : HeapOf(tree, root, at) /\ On(at) = used /\ Ordered(at, prio) /\ Complete(at)
  BY DEF UserInv, UserTree
<1>2. n \in used /\ tree' = Forget(r.h, n) /\ root' = r.top /\ used' = used \ {n}
      /\ prio' = [prio EXCEPT ![n] = 0] /\ prio \in [Nodes -> Int]
  BY DEF Remove, UserInv
<1>3. SameKeys(prio, prio, n)
  BY DEF SameKeys
<1>4. PICK a2 : Removed(tree, r, at, a2, n, prio, prio)
  BY <1>1, <1>2, <1>3, RemSound
<1> HIDE DEF r
<1>5. at[1] # NULL
  <2>1. Tree(at) /\ n \in On(at) /\ n # NULL
    BY <1>1, <1>2, NullAssumption DEF HeapOf, Linked
  <2> QED  BY <2>1, EmptyTree DEF On
<1> QED  BY <1>1, <1>2, <1>4, <1>5, RemovedIsForgotten

LEMMA PopKeepsTree ==
  ASSUME UserInv, Pop
  PROVE  UserInv'
<1> DEFINE r == gp_heap_pop(tree, prio, root)
<1>1. PICK at : HeapOf(tree, root, at) /\ On(at) = used /\ Ordered(at, prio) /\ Complete(at)
  BY DEF UserInv, UserTree
<1>2. root # NULL /\ tree' = Forget(r.h, root) /\ root' = r.top /\ used' = used \ {root}
      /\ prio' = [prio EXCEPT ![root] = 0] /\ prio \in [Nodes -> Int]
  BY DEF Pop, UserInv
<1>3. root \in Nodes
  <2>1. Tree(at) /\ root = at[1]
    BY <1>1 DEF HeapOf, Linked
  <2> QED  BY <1>2, <2>1, TreeFacts
<1>4. PICK a2 : Removed(tree, r, at, a2, root, prio, prio)
  BY <1>1, <1>2, PopSound
<1> HIDE DEF r
<1>5. at[1] # NULL
  BY <1>1, <1>2 DEF HeapOf
<1> QED  BY <1>1, <1>2, <1>3, <1>4, <1>5, RemovedIsForgotten

LEMMA UserSteps == UserInv /\ [UserNext]_userVars => UserInv'
<1> SUFFICES ASSUME UserInv, [UserNext]_userVars PROVE UserInv'
  OBVIOUS
<1>1. CASE \E n \in Nodes, k \in 0 .. MaxKey : Insert(n, k)
  BY <1>1, InsertKeepsTree
<1>2. CASE \E n \in Nodes : Remove(n)
  BY <1>2, RemoveKeepsTree
<1>3. CASE Pop
  BY <1>3, PopKeepsTree
<1>4. CASE UNCHANGED userVars
  BY <1>4 DEF UserInv, UserTree, userVars
<1> QED  BY <1>1, <1>2, <1>3, <1>4 DEF UserNext

(* Whatever order nodes come and go in, no node is smaller than the one    *)
(* above it, so that the root is the smallest of all: gp_heap_ins(),       *)
(* gp_heap_rem() and gp_heap_pop() keep the order, of any number of nodes. *)
THEOREM HeapStaysOrdered == UserSpec => []HeapIsOrdered
<1>1. UserInv => HeapIsOrdered
  <2> SUFFICES ASSUME UserInv PROVE HeapIsOrdered
    OBVIOUS
  <2>1. PICK at : Linked(tree, at) /\ root = at[1] /\ Ordered(at, prio)
    BY DEF UserInv, UserTree, HeapOf
  <2> QED  BY <2>1, OrderedIsHeapOrdered DEF HeapIsOrdered
<1> QED  BY <1>1, UserStarts, UserSteps, PTL DEF UserSpec

(* As many nodes as positions are filled.                                  *)
LEMMA FilledCount ==
  ASSUME NEW at, Tree(at), NEW n \in Nat, Filled(at, n)
  PROVE  Cardinality(On(at)) = n /\ {at[i] : i \in 1 .. n} = On(at)
<1> DEFINE f == [i \in 1 .. n |-> at[i]]
<1>1. \A i \in 1 .. n : f[i] = at[i] /\ at[i] # NULL /\ at[i] \in On(at)
  BY TreeFacts DEF Filled
<1>2. \A m \in On(at) : \E i \in 1 .. n : at[i] = m
  <2> SUFFICES ASSUME NEW m \in On(at) PROVE \E i \in 1 .. n : at[i] = m
    OBVIOUS
  <2>1. PICK i \in Nat : at[i] = m /\ m \in Nodes
    BY TreeFacts
  <2>2. at[i] # NULL
    BY <2>1, NullAssumption
  <2> QED  BY <2>1, <2>2 DEF Filled
<1>3. \A i, k \in 1 .. n : at[i] = at[k] => i = k
  BY <1>1, TreeFacts
<1>4. f \in Bijection(1 .. n, On(at))
  BY <1>1, <1>2, <1>3 DEF Bijection, Injection, Surjection, IsInjective
<1>5. Cardinality(On(at)) = n
  BY <1>4, FS_CountingElements DEF ExistsBijection
<1> QED  BY <1>1, <1>2, <1>5

(* Positions() is the recursion over the pointers of the tree.             *)
LEMMA PositionsAre ==
  ASSUME NEW h, NEW at, Linked(h, at), NEW n \in Nat
  PROVE  \A i \in 1 .. n : Positions(h, at[1], n)[i] = at[i]
<1> DEFINE Place(f, i) == IF i = 1 THEN at[1]
                         ELSE IF f[i \div 2] = NULL THEN NULL
                         ELSE IF i % 2 = 0 THEN h.left[f[i \div 2]] ELSE h.right[f[i \div 2]]
           Is(f) == f = [i \in 1 .. n |-> Place(f, i)]
           g == [i \in 1 .. n |-> at[i]]
           p == Positions(h, at[1], n)
<1>1. Tree(at)
  BY DEF Linked
<1>2. ASSUME NEW i \in 1 .. n, i # 1
      PROVE  /\ i \div 2 \in 1 .. n /\ i \div 2 < i
             /\ at[i] = IF at[i \div 2] = NULL THEN NULL
                        ELSE IF i % 2 = 0 THEN h.left[at[i \div 2]] ELSE h.right[at[i \div 2]]
  <2> DEFINE u == i \div 2
  <2>1. u \in 1 .. n /\ u < i /\ u \in Nat /\ u # 0
    BY <1>2
  <2>2. (i % 2 = 0 => i = 2 * u) /\ (i % 2 # 0 => i = 2 * u + 1)
    OBVIOUS
  <2> HIDE DEF u
  <2>3. at[u] = NULL => at[2 * u] = NULL /\ at[2 * u + 1] = NULL
    BY <1>1, <2>1 DEF Tree
  <2>4. at[u] # NULL => h.left[at[u]] = at[2 * u] /\ h.right[at[u]] = at[2 * u + 1]
    BY <2>1, LinkedFacts
  <2>5. at[i] = IF at[u] = NULL THEN NULL ELSE IF i % 2 = 0 THEN h.left[at[u]] ELSE h.right[at[u]]
    BY <2>2, <2>3, <2>4
  <2> QED  BY <2>1, <2>5 DEF u
<1>3. \A i \in 1 .. n : g[i] = at[i]
  OBVIOUS
<1>4. \A i \in 1 .. n : at[i] = Place(g, i)
  BY <1>2, <1>3
<1>5. Is(g)
  BY <1>4
<1> HIDE DEF g
<1>6. Is(p)
  BY <1>5 DEF Positions
<1> HIDE DEF p
<1>7. \A i \in 1 .. n : p[i] = Place(p, i)
  BY <1>6
<1> DEFINE Bad == {i \in 1 .. n : p[i] # at[i]}
<1>8. Bad = {}
  <2> SUFFICES ASSUME Bad # {} PROVE FALSE
    OBVIOUS
  <2>1. PICK i \in Bad : \A k \in Bad : i =< k
    <3>1. Bad \subseteq Nat
      OBVIOUS
    <3> QED  BY <3>1, SmallestExists
  <2>2. i \in 1 .. n /\ i # 1
    BY <1>7
  <2>3. i \div 2 \in 1 .. n /\ p[i \div 2] = at[i \div 2]
    BY <1>2, <2>1, <2>2
  <2> QED  BY <1>2, <1>7, <2>1, <2>2, <2>3
<1> QED  BY <1>8 DEF p

(* No node is lost or kept by mistake, whatever order nodes come and go    *)
(* in: every pointer and count agrees with the tree, no operation meets an *)
(* invalid state (GP_BUG in gp_heap_fix_up() and gp_heap_bubble_up()), and *)
(* the counts alone lead gp_heap_ins() behind the last node and            *)
(* gp_heap_rem_last() to it, so that the levels of the tree are filled     *)
(* from the left, for any number of nodes.                                 *)
THEOREM HeapStaysIntact == UserSpec => []HeapIsIntact
<1>1. UserInv => HeapIsIntact
  <2> SUFFICES ASSUME UserInv PROVE HeapIsIntact
    OBVIOUS
  <2>1. PICK at : HeapOf(tree, root, at) /\ On(at) = used /\ Complete(at)
    BY DEF UserInv, UserTree
  <2>2. Linked(tree, at) /\ Counted(tree, at, NULL) /\ root = at[1] /\ Tree(at)
    BY <2>1 DEF HeapOf, Linked
  <2>3. PICK n \in Nat : Filled(at, n)
    BY <2>1 DEF Complete
  <2>4. Cardinality(used) = n /\ {at[i] : i \in 1 .. n} = used
    BY <2>1, <2>2, <2>3, FilledCount
  <2> DEFINE p == Positions(tree, root, 2 * n + 1)
  <2>5. \A i \in 1 .. 2 * n + 1 : p[i] = at[i]
    <3>1. 2 * n + 1 \in Nat
      OBVIOUS
    <3> QED  BY <2>2, <3>1, PositionsAre
  <2> HIDE DEF p
  <2>6. {p[i] : i \in 1 .. n} = used
    <3>1. \A i \in 1 .. n : p[i] = at[i]
      BY <2>5
    <3>2. {p[i] : i \in 1 .. n} = {at[i] : i \in 1 .. n}
      BY <3>1
    <3> QED  BY <2>4, <3>2
  <2>7. \A i \in n + 1 .. 2 * n + 1 : p[i] = NULL
    BY <2>3, <2>5 DEF Filled
  <2>8. ASSUME NEW i \in 1 .. n
        PROVE  /\ tree.up[p[i]] = IF i = 1 THEN NULL ELSE p[i \div 2]
               /\ tree.children[p[i]] = gp_heap_size(tree, p[2 * i]) + gp_heap_size(tree, p[2 * i + 1])
    <3>1. p[i] = at[i] /\ at[i] # NULL /\ p[2 * i] = at[2 * i] /\ p[2 * i + 1] = at[2 * i + 1]
      BY <2>3, <2>5 DEF Filled
    <3>2. tree.up[at[i]] = at[Up(i)]
      BY <2>2, <3>1, LinkedFacts
    <3>3. i = 1 => at[Up(i)] = NULL
      <4>1. i = 1 => Up(i) = 0
        BY DEF Up
      <4> QED  BY <2>2, <4>1 DEF Tree
    <3>4. i # 1 => p[i \div 2] = at[Up(i)]
      <4>1. i # 1 => i \div 2 \in 1 .. 2 * n + 1
        OBVIOUS
      <4> QED  BY <2>5, <4>1 DEF Up
    <3>5. tree.children[at[i]] = gp_heap_size(tree, at[2 * i]) + gp_heap_size(tree, at[2 * i + 1])
      <4>1. /\ tree.children[at[i]] \in Nat
            /\ tree.children[at[i]] = gp_heap_size(tree, at[2 * i]) + gp_heap_size(tree, at[2 * i + 1]) + 0
        BY <2>2, <3>1 DEF Counted
      <4>2. gp_heap_size(tree, at[2 * i]) \in Nat /\ gp_heap_size(tree, at[2 * i + 1]) \in Nat
        <5>1. \A k \in Nat : gp_heap_size(tree, at[k]) \in Nat
          BY <2>2, SizeIsNat
        <5> QED  BY <5>1
      <4> QED  BY <4>1, <4>2
    <3> QED  BY <3>1, <3>2, <3>3, <3>4, <3>5
  <2>9. ~ tree.bug
    BY DEF UserInv
  <2> QED  BY <2>4, <2>6, <2>7, <2>8, <2>9 DEF HeapIsIntact, p
<1> QED  BY <1>1, UserStarts, UserSteps, PTL DEF UserSpec
-----------------------------------------------------------------------------
(* The list of timers to put back, from the first one.                     *)

List(h, lst, m) ==
  /\ h \in Heaps /\ m \in Nat /\ lst \in [Nat -> Ptr]
  /\ \A k \in Nat : lst[k] # NULL <=> k < m
  /\ \A k, l \in Nat : lst[k] = lst[l] /\ lst[k] # NULL => k = l
  /\ \A k \in Nat : lst[k] # NULL => h.left[lst[k]] = lst[k + 1]

OnList(lst) == {n \in Nodes : \E k \in Nat : lst[k] = n}

LEMMA ListFacts ==
  ASSUME NEW h, NEW lst, NEW m, List(h, lst, m)
  PROVE  /\ \A k \in Nat : lst[k] \in Ptr /\ (lst[k] # NULL => lst[k] \in Nodes)
         /\ \A k \in Nat : lst[k] # NULL => lst[k] \in OnList(lst)
         /\ \A n \in OnList(lst) : n \in Nodes /\ n # NULL /\ \E k \in Nat : lst[k] = n
BY NullAssumption DEF List, OnList, Ptr

(* The pointers of the timers on it are all that matters.                  *)
LEMMA ListElsewhere ==
  ASSUME NEW h, NEW g, NEW lst, NEW m, List(h, lst, m), g \in Heaps,
         \A n \in OnList(lst) : g.left[n] = h.left[n]
  PROVE  List(g, lst, m)
<1>1. \A k \in Nat : lst[k] # NULL => lst[k] \in OnList(lst)
  BY ListFacts
<1> QED  BY <1>1 DEF List

(* What is reached from its head is what is on it.                         *)
LEMMA ListedIsOnList ==
  ASSUME NEW h, NEW lst, NEW m, List(h, lst, m)
  PROVE  Listed(h, lst[0]) = OnList(lst)
<1>1. OnList(lst) \in SUBSET Nodes /\ lst[0] \in OnList(lst) \cup {NULL}
  BY ListFacts
<1>2. \A n \in OnList(lst) : h.left[n] \in OnList(lst) \cup {NULL}
  <2> SUFFICES ASSUME NEW n \in OnList(lst) PROVE h.left[n] \in OnList(lst) \cup {NULL}
    OBVIOUS
  <2>1. PICK k \in Nat : lst[k] = n /\ n # NULL
    BY ListFacts
  <2>2. h.left[n] = lst[k + 1] /\ k + 1 \in Nat
    BY <2>1 DEF List
  <2> QED  BY <2>2, ListFacts
<1>3. Listed(h, lst[0]) \subseteq OnList(lst)
  BY <1>1, <1>2 DEF Listed, Timers
<1>4. ASSUME NEW n \in OnList(lst), NEW C \in SUBSET Nodes, lst[0] \in C \cup {NULL},
             \A c \in C : h.left[c] \in C \cup {NULL}
      PROVE  n \in C
  <2> DEFINE Bad == {k \in Nat : lst[k] # NULL /\ lst[k] \notin C}
  <2>1. Bad = {}
    <3> SUFFICES ASSUME Bad # {} PROVE FALSE
      OBVIOUS
    <3>1. PICK k \in Bad : \A y \in Bad : k =< y
      <4>1. Bad \subseteq Nat
        OBVIOUS
      <4> QED  BY <4>1, SmallestExists
    <3>2. k \in Nat /\ lst[k] # NULL /\ lst[k] \notin C /\ k # 0
      BY <1>4, <3>1
    <3>3. k - 1 \in Nat /\ k - 1 < k /\ k = (k - 1) + 1
      BY <3>2
    <3>4. lst[k - 1] # NULL
      BY <3>2, <3>3 DEF List
    <3>5. lst[k - 1] \in C
      BY <3>1, <3>3, <3>4
    <3>6. h.left[lst[k - 1]] = lst[k]
      BY <3>3, <3>4 DEF List
    <3> QED  BY <1>4, <3>2, <3>5, <3>6
  <2>2. PICK k \in Nat : lst[k] = n /\ n # NULL
    BY ListFacts
  <2> QED  BY <2>1, <2>2
<1>5. OnList(lst) \subseteq Listed(h, lst[0])
  BY <1>1, <1>4 DEF Listed, Timers
<1> QED  BY <1>3, <1>5

(* And its length is their number.                                         *)
LEMMA ListLength ==
  ASSUME NEW h, NEW lst, NEW m, List(h, lst, m)
  PROVE  Cardinality(OnList(lst)) = m
<1> DEFINE f == [k \in 1 .. m |-> lst[k - 1]]
<1>1. m \in Nat
  BY DEF List
<1>2. \A k \in 1 .. m : k - 1 \in Nat /\ k - 1 < m /\ lst[k - 1] # NULL
  BY <1>1 DEF List
<1>3. f \in [1 .. m -> OnList(lst)]
  BY <1>2, ListFacts
<1>4. \A k, l \in 1 .. m : f[k] = f[l] => k = l
  <2> SUFFICES ASSUME NEW k \in 1 .. m, NEW l \in 1 .. m, f[k] = f[l] PROVE k = l
    OBVIOUS
  <2>1. k - 1 = l - 1
    BY <1>2 DEF List
  <2> QED  BY <1>1, <2>1
<1>5. \A n \in OnList(lst) : \E k \in 1 .. m : f[k] = n
  <2> SUFFICES ASSUME NEW n \in OnList(lst) PROVE \E k \in 1 .. m : f[k] = n
    OBVIOUS
  <2>1. PICK k \in Nat : lst[k] = n /\ n # NULL
    BY ListFacts
  <2>2. k < m
    BY <2>1 DEF List
  <2>3. k + 1 \in 1 .. m /\ (k + 1) - 1 = k
    BY <1>1, <2>2
  <2> QED  BY <2>1, <2>3
<1>6. f \in Bijection(1 .. m, OnList(lst))
  BY <1>3, <1>4, <1>5 DEF Bijection, Injection, Surjection, IsInjective
<1> QED  BY <1>1, <1>6, FS_CountingElements, FS_NatBijection DEF ExistsBijection

(* A timer is put in front, and taken off.                                 *)
Front(lst, n) == [k \in Nat |-> IF k = 0 THEN n ELSE lst[k - 1]]
Rest(lst) == [k \in Nat |-> lst[k + 1]]

LEMMA FrontFacts ==
  ASSUME NEW h, NEW lst, NEW m, List(h, lst, m), NEW n \in Nodes, n \notin OnList(lst),
         NEW g \in Heaps, g.left[n] = lst[0], \A t \in OnList(lst) : g.left[t] = h.left[t]
  PROVE  /\ List(g, Front(lst, n), m + 1) /\ Front(lst, n)[0] = n
         /\ OnList(Front(lst, n)) = OnList(lst) \cup {n}
<1> DEFINE f == Front(lst, n)
<1>1. m \in Nat /\ lst \in [Nat -> Ptr] /\ n # NULL /\ n \in Ptr
  BY NullAssumption DEF List, Ptr
<1>2. f \in [Nat -> Ptr]
  BY <1>1 DEF Front
<1>3. f[0] = n /\ \A k \in Nat : k # 0 => k - 1 \in Nat /\ f[k] = lst[k - 1]
  BY DEF Front
<1>4. \A k \in Nat : k + 1 \in Nat /\ f[k + 1] = lst[k]
  <2> SUFFICES ASSUME NEW k \in Nat PROVE k + 1 \in Nat /\ f[k + 1] = lst[k]
    OBVIOUS
  <2>1. k + 1 \in Nat /\ k + 1 # 0 /\ (k + 1) - 1 = k
    OBVIOUS
  <2> QED  BY <1>3, <2>1
<1> HIDE DEF f
<1>5. \A k \in Nat : f[k] # NULL <=> k < m + 1
  <2> SUFFICES ASSUME NEW k \in Nat PROVE f[k] # NULL <=> k < m + 1
    OBVIOUS
  <2>1. CASE k = 0
    BY <1>1, <1>3, <2>1
  <2>2. CASE k # 0
    <3>1. lst[k - 1] # NULL <=> k - 1 < m
      BY <1>3, <2>2 DEF List
    <3> QED  BY <1>1, <1>3, <2>2, <3>1
  <2> QED  BY <2>1, <2>2
<1>6. \A k \in Nat : lst[k] # n
  <2>1. \A k \in Nat : lst[k] # NULL => lst[k] \in OnList(lst)
    BY ListFacts
  <2> QED  BY <1>1, <2>1
<1>7. \A k, l \in Nat : f[k] = f[l] /\ f[k] # NULL => k = l
  <2> SUFFICES ASSUME NEW k \in Nat, NEW l \in Nat, f[k] = f[l], f[k] # NULL PROVE k = l
    OBVIOUS
  <2>1. k = 0 <=> l = 0
    BY <1>3, <1>6
  <2>2. CASE k # 0
    <3>1. k - 1 = l - 1
      BY <1>3, <2>1, <2>2 DEF List
    <3> QED  BY <3>1
  <2> QED  BY <2>1, <2>2
<1>8. \A k \in Nat : f[k] # NULL => g.left[f[k]] = f[k + 1]
  <2> SUFFICES ASSUME NEW k \in Nat, f[k] # NULL PROVE g.left[f[k]] = f[k + 1]
    OBVIOUS
  <2>1. CASE k = 0
    BY <1>3, <1>4, <2>1
  <2>2. CASE k # 0
    <3>1. f[k] = lst[k - 1] /\ k - 1 \in Nat /\ (k - 1) + 1 = k
      BY <1>3, <2>2
    <3>2. lst[k - 1] # NULL
      BY <3>1
    <3>3. lst[k - 1] \in OnList(lst)
      BY <3>1, <3>2, ListFacts
    <3>4. h.left[lst[k - 1]] = lst[(k - 1) + 1]
      BY <3>1, <3>2 DEF List
    <3>5. g.left[lst[k - 1]] = h.left[lst[k - 1]]
      BY <3>3
    <3> QED  BY <1>4, <3>1, <3>4, <3>5
  <2> QED  BY <2>1, <2>2
<1>9. List(g, f, m + 1)
  <2>1. m + 1 \in Nat
    BY <1>1
  <2> QED  BY <1>2, <1>5, <1>7, <1>8, <2>1 DEF List
<1>10. OnList(f) = OnList(lst) \cup {n}
  <2>1. ASSUME NEW t \in OnList(f) PROVE t \in OnList(lst) \cup {n}
    <3>1. PICK k \in Nat : f[k] = t
      BY DEF OnList
    <3> QED  BY <1>3, <2>1, <3>1 DEF OnList
  <2>2. ASSUME NEW t \in OnList(lst) \cup {n} PROVE t \in OnList(f)
    BY <1>3, <1>4, <2>2 DEF OnList
  <2> QED  BY <2>1, <2>2
<1> QED  BY <1>3, <1>9, <1>10 DEF f

LEMMA RestFacts ==
  ASSUME NEW h, NEW lst, NEW m, List(h, lst, m), lst[0] # NULL
  PROVE  /\ m # 0 /\ List(h, Rest(lst), m - 1) /\ Rest(lst)[0] = h.left[lst[0]]
         /\ lst[0] \in Nodes /\ lst[0] \notin OnList(Rest(lst))
         /\ OnList(lst) = OnList(Rest(lst)) \cup {lst[0]}
<1> DEFINE f == Rest(lst)
<1>1. m \in Nat /\ lst \in [Nat -> Ptr] /\ lst[0] \in Nodes /\ h \in Heaps
  BY ListFacts DEF List
<1>2. m # 0
  BY DEF List
<1>3. \A k \in Nat : k + 1 \in Nat /\ f[k] = lst[k + 1]
  BY DEF Rest
<1>4. f \in [Nat -> Ptr]
  BY <1>1 DEF Rest
<1> HIDE DEF f
<1>5. \A k \in Nat : f[k] # NULL <=> k < m - 1
  <2> SUFFICES ASSUME NEW k \in Nat PROVE f[k] # NULL <=> k < m - 1
    OBVIOUS
  <2>1. lst[k + 1] # NULL <=> k + 1 < m
    BY DEF List
  <2> QED  BY <1>1, <1>3, <2>1
<1>6. \A k, l \in Nat : f[k] = f[l] /\ f[k] # NULL => k = l
  <2> SUFFICES ASSUME NEW k \in Nat, NEW l \in Nat, f[k] = f[l], f[k] # NULL PROVE k = l
    OBVIOUS
  <2>1. k + 1 = l + 1
    BY <1>3 DEF List
  <2> QED  BY <2>1
<1>7. \A k \in Nat : f[k] # NULL => h.left[f[k]] = f[k + 1]
  BY <1>3 DEF List
<1>8. List(h, f, m - 1)
  <2>1. m - 1 \in Nat
    BY <1>1, <1>2
  <2> QED  BY <1>1, <1>4, <1>5, <1>6, <1>7, <2>1 DEF List
<1>9. f[0] = h.left[lst[0]]
  <2>1. h.left[lst[0]] = lst[0 + 1]
    BY DEF List
  <2> QED  BY <1>3, <2>1
<1>10. lst[0] \notin OnList(f)
  <2> SUFFICES ASSUME NEW k \in Nat, f[k] = lst[0] PROVE FALSE
    BY DEF OnList
  <2>1. k + 1 = 0
    BY <1>3 DEF List
  <2> QED  BY <2>1
<1>11. OnList(lst) = OnList(f) \cup {lst[0]}
  <2>1. ASSUME NEW n \in OnList(lst), n # lst[0] PROVE n \in OnList(f)
    <3>1. PICK k \in Nat : lst[k] = n
      BY DEF OnList
    <3>2. k # 0 /\ k - 1 \in Nat /\ (k - 1) + 1 = k
      BY <2>1, <3>1
    <3>3. f[k - 1] = n
      BY <1>3, <3>1, <3>2
    <3> QED  BY <3>2, <3>3 DEF OnList
  <2>2. ASSUME NEW n \in OnList(f) \cup {lst[0]} PROVE n \in OnList(lst)
    BY <1>1, <1>3, <2>2 DEF OnList
  <2> QED  BY <2>1, <2>2
<1> QED  BY <1>1, <1>2, <1>8, <1>9, <1>10, <1>11 DEF f

LEMMA EmptyList ==
  ASSUME NEW h, NEW lst, NEW m, List(h, lst, m), lst[0] = NULL
  PROVE  m = 0 /\ OnList(lst) = {} /\ \A g \in Heaps : List(g, lst, m)
<1>1. m \in Nat /\ ~ (0 < m)
  BY DEF List
<1>2. m = 0 /\ \A k \in Nat : lst[k] = NULL
  BY <1>1 DEF List
<1>3. OnList(lst) = {}
  BY <1>2, NullAssumption DEF OnList
<1> QED  BY <1>2, <1>3 DEF List
-----------------------------------------------------------------------------
(* The loop of gp_timer_queue_process() that puts the timers back.         *)

BackBy(f, key, k) == f = [d \in 0 .. k |-> IF d = 0 THEN NothingBack ELSE PutBackBody(key, f[d - 1])]

LEMMA BackExists ==
  ASSUME NEW key, NEW depth \in Nat
  PROVE  \E f : BackBy(f, key, depth)
<1> DEFINE G == {k \in 0 .. depth : \E f : BackBy(f, key, k)}
<1>1. 0 \in G
  <2> DEFINE f == [d \in 0 .. 0 |-> NothingBack]
  <2>1. f = [d \in 0 .. 0 |-> IF d = 0 THEN NothingBack ELSE PutBackBody(key, f[d - 1])]
    OBVIOUS
  <2> HIDE DEF f
  <2>2. BackBy(f, key, 0)
    BY <2>1 DEF BackBy
  <2> QED  BY <2>2
<1>2. ASSUME NEW k \in 1 .. depth, k - 1 \in G PROVE k \in G
  <2>1. PICK f : BackBy(f, key, k - 1)
    BY <1>2
  <2> DEFINE last == PutBackBody(key, f[k - 1])
             g == [d \in 0 .. k |-> IF d = k THEN last ELSE f[d]]
             F(d) == IF d = 0 THEN NothingBack ELSE PutBackBody(key, g[d - 1])
  <2> HIDE DEF last
  <2>2. \A d \in 0 .. k - 1 : f[d] = IF d = 0 THEN NothingBack ELSE PutBackBody(key, f[d - 1])
    <3>1. f = [d \in 0 .. k - 1 |-> IF d = 0 THEN NothingBack ELSE PutBackBody(key, f[d - 1])]
      BY <2>1 DEF BackBy
    <3> DEFINE H(d) == IF d = 0 THEN NothingBack ELSE PutBackBody(key, f[d - 1])
    <3>2. f = [d \in 0 .. k - 1 |-> H(d)]
      BY <3>1
    <3> HIDE DEF H
    <3>3. \A d \in 0 .. k - 1 : f[d] = H(d)
      BY <3>2
    <3> QED  BY <3>3 DEF H
  <2>3. \A d \in 0 .. k - 1 : d # k /\ d \in 0 .. k /\ g[d] = f[d]
    OBVIOUS
  <2>4. g[k] = last
    OBVIOUS
  <2> HIDE DEF g
  <2>5. ASSUME NEW d \in 0 .. k PROVE g[d] = F(d)
    <3>1. CASE d = 0
      <4>1. 0 \in 0 .. k - 1
        OBVIOUS
      <4> QED  BY <2>2, <2>3, <3>1, <4>1
    <3>2. CASE d # 0 /\ d # k
      <4>1. d \in 0 .. k - 1 /\ d - 1 \in 0 .. k - 1
        BY <3>2
      <4>2. g[d] = f[d] /\ g[d - 1] = f[d - 1]
        BY <2>3, <4>1
      <4>3. f[d] = PutBackBody(key, f[d - 1])
        BY <2>2, <3>2, <4>1
      <4> QED  BY <3>2, <4>2, <4>3
    <3>3. CASE d = k
      <4>1. k - 1 \in 0 .. k - 1 /\ k # 0
        OBVIOUS
      <4>2. g[k - 1] = f[k - 1]
        BY <2>3, <4>1
      <4> QED  BY <2>4, <3>3, <4>1, <4>2 DEF last
    <3> QED  BY <3>1, <3>2, <3>3
  <2> HIDE DEF F
  <2>6. g = [d \in 0 .. k |-> F(d)]
    BY <2>5 DEF g
  <2>7. BackBy(g, key, k)
    BY <2>6 DEF BackBy, F
  <2> QED  BY <2>7
<1> HIDE DEF G
<1>3. depth \in G
  BY <1>1, <1>2, DepthInduction
<1> QED  BY <1>3 DEF G

LEMMA PutBackUnfolds ==
  ASSUME NEW key, NEW depth \in Nat
  PROVE  /\ PutBack(key, depth)[0] = NothingBack
         /\ \A d \in 1 .. depth : PutBack(key, depth)[d] = PutBackBody(key, PutBack(key, depth)[d - 1])
<1> DEFINE back == PutBack(key, depth)
           H(d) == IF d = 0 THEN NothingBack ELSE PutBackBody(key, back[d - 1])
<1>1. PICK f : f = [d \in 0 .. depth |-> IF d = 0 THEN NothingBack ELSE PutBackBody(key, f[d - 1])]
  BY BackExists DEF BackBy
<1>2. back = [d \in 0 .. depth |-> IF d = 0 THEN NothingBack ELSE PutBackBody(key, back[d - 1])]
  BY <1>1 DEF PutBack
<1>3. back = [d \in 0 .. depth |-> H(d)]
  BY <1>2
<1> HIDE DEF back, H
<1>4. \A d \in 0 .. depth : back[d] = H(d)
  BY <1>3
<1>5. back[0] = H(0) /\ \A d \in 1 .. depth : back[d] = H(d) /\ d # 0
  BY <1>4
<1> QED  BY <1>5 DEF H, back

PutsBack(h, r, key, at, lst) ==
  \E a2 : /\ HeapOf(r.h, r.top, a2) /\ On(a2) = On(at) \cup OnList(lst)
          /\ Ordered(at, key) => Ordered(a2, key)

BackSound(rec, key, d) ==
  \A h, top, at, lst, m :
    HeapOf(h, top, at) /\ List(h, lst, m) /\ On(at) \cap OnList(lst) = {} /\ m <= d
      => PutsBack(h, rec[h][top][lst[0]], key, at, lst)

LEMMA NothingToPut ==
  ASSUME NEW h, NEW top, NEW key, NEW at, NEW lst, NEW m, HeapOf(h, top, at), List(h, lst, m),
         lst[0] = NULL
  PROVE  PutsBack(h, [top |-> top, h |-> h], key, at, lst)
<1>1. OnList(lst) = {}
  BY EmptyList
<1> QED  BY <1>1 DEF PutsBack

LEMMA BackCall ==
  ASSUME NEW h, NEW top, NEW at, NEW lst, NEW m, HeapOf(h, top, at), List(h, lst, m)
  PROVE  h \in Heaps /\ top \in Ptr /\ lst[0] \in Ptr
<1>1. h \in Heaps /\ Tree(at) /\ top = at[1]
  BY DEF HeapOf, Linked
<1> QED  BY <1>1, TreeFacts, ListFacts

LEMMA BackAtEnd ==
  ASSUME NEW key
  PROVE  BackSound(NothingBack, key, 0)
<1> SUFFICES ASSUME NEW h, NEW top, NEW at, NEW lst, NEW m, HeapOf(h, top, at), List(h, lst, m),
                    m <= 0
             PROVE  PutsBack(h, NothingBack[h][top][lst[0]], key, at, lst)
  BY DEF BackSound
<1>1. lst[0] = NULL
  BY DEF List
<1>2. h \in Heaps /\ top \in Ptr /\ lst[0] \in Ptr
  BY BackCall
<1>3. NothingBack[h] = [t \in Ptr |-> [l \in Ptr |-> [top |-> t, h |-> h]]]
  BY <1>2 DEF NothingBack
<1>4. NothingBack[h][top] = [l \in Ptr |-> [top |-> top, h |-> h]]
  BY <1>2, <1>3
<1>5. NothingBack[h][top][lst[0]] = [top |-> top, h |-> h]
  BY <1>2, <1>4
<1> QED  BY <1>1, <1>5, NothingToPut

LEMMA BackStep ==
  ASSUME NEW key \in [Nodes -> Int], NEW d \in Nat, NEW rec, BackSound(rec, key, d - 1)
  PROVE  BackSound(PutBackBody(key, rec), key, d)
<1> SUFFICES ASSUME NEW h, NEW top, NEW at, NEW lst, NEW m, HeapOf(h, top, at), List(h, lst, m),
                    On(at) \cap OnList(lst) = {}, m <= d
             PROVE  PutsBack(h, PutBackBody(key, rec)[h][top][lst[0]], key, at, lst)
  BY DEF BackSound
<1> DEFINE list == lst[0]
           r == gp_heap_ins(h, key, top, list)
           Next1(s, t, l) == LET i == gp_heap_ins(s, key, t, l) IN rec[i.h][i.top][s.left[l]]
           Cell(s, t, l) == IF l = NULL THEN [top |-> t, h |-> s] ELSE Next1(s, t, l)
<1>1. h \in Heaps /\ top \in Ptr /\ list \in Ptr
  BY BackCall
<1>2. PutBackBody(key, rec)[h][top][list] = Cell(h, top, list)
  <2>1. PutBackBody(key, rec) = [s \in Heaps |-> [t \in Ptr |-> [l \in Ptr |-> Cell(s, t, l)]]]
    BY DEF PutBackBody
  <2> HIDE DEF Cell, list
  <2>2. PutBackBody(key, rec)[h] = [t \in Ptr |-> [l \in Ptr |-> Cell(h, t, l)]]
    BY <1>1, <2>1
  <2>3. PutBackBody(key, rec)[h][top] = [l \in Ptr |-> Cell(h, top, l)]
    BY <1>1, <2>2
  <2> QED  BY <1>1, <2>3
<1>3. CASE list = NULL
  BY <1>2, <1>3, NothingToPut
<1>4. CASE list # NULL
  <2>1. /\ m # 0 /\ List(h, Rest(lst), m - 1) /\ Rest(lst)[0] = h.left[list]
        /\ list \in Nodes /\ list \notin OnList(Rest(lst))
        /\ OnList(lst) = OnList(Rest(lst)) \cup {list}
    BY <1>4, RestFacts
  <2>2. list \notin On(at)
    BY <2>1
  <2>3. PICK a1 : Added(h, r, at, a1, list, key)
    BY <2>1, <2>2, InsertSound
  <2> HIDE DEF r
  <2>4. /\ HeapOf(r.h, r.top, a1) /\ On(a1) = On(at) \cup {list}
        /\ SameElsewhere(h, r.h, On(at) \cup {list}) /\ r.h \in Heaps
        /\ Ordered(at, key) => Ordered(a1, key)
    BY <2>3 DEF Added, HeapOf, Linked
  <2>5. On(a1) \cap OnList(Rest(lst)) = {}
    BY <2>1, <2>4
  <2>6. \A n \in OnList(Rest(lst)) : r.h.left[n] = h.left[n]
    <3>1. \A n \in OnList(Rest(lst)) : n \in Nodes \ (On(at) \cup {list})
      BY <2>1, <2>4, <2>5 DEF OnList
    <3> QED  BY <2>4, <3>1 DEF SameElsewhere
  <2>7. List(r.h, Rest(lst), m - 1)
    BY <2>1, <2>4, <2>6, ListElsewhere
  <2>8. m - 1 <= d - 1
    BY DEF List
  <2>9. PutsBack(r.h, rec[r.h][r.top][Rest(lst)[0]], key, a1, Rest(lst))
    BY <2>4, <2>5, <2>7, <2>8 DEF BackSound
  <2> DEFINE q == rec[r.h][r.top][h.left[list]]
  <2>10. PutsBack(r.h, q, key, a1, Rest(lst))
    BY <2>1, <2>9
  <2>11. Cell(h, top, list) = q
    BY <1>4 DEF r
  <2> HIDE DEF q
  <2>12. PutsBack(h, q, key, at, lst)
    BY <2>1, <2>4, <2>10 DEF PutsBack
  <2> QED  BY <1>2, <2>11, <2>12
<1> QED  BY <1>3, <1>4

LEMMA PutBackSound ==
  ASSUME NEW key \in [Nodes -> Int], NEW h, NEW top, NEW at, NEW lst, NEW m,
         HeapOf(h, top, at), List(h, lst, m), On(at) \cap OnList(lst) = {}
  PROVE  PutsBack(h, PutBack(key, m)[m][h][top][lst[0]], key, at, lst)
<1> DEFINE back == PutBack(key, m)
           G == {d \in 0 .. m : BackSound(back[d], key, d)}
<1>1. m \in Nat
  BY DEF List
<1>2. back[0] = NothingBack /\ \A d \in 1 .. m : back[d] = PutBackBody(key, back[d - 1])
  BY <1>1, PutBackUnfolds
<1> HIDE DEF back
<1>3. 0 \in G
  BY <1>1, <1>2, BackAtEnd
<1>4. ASSUME NEW d \in 1 .. m, d - 1 \in G PROVE d \in G
  <2>1. BackSound(PutBackBody(key, back[d - 1]), key, d)
    BY <1>4, BackStep
  <2> QED  BY <1>2, <2>1
<1> HIDE DEF G
<1>5. m \in G
  BY <1>1, <1>3, <1>4, DepthInduction
<1>6. BackSound(back[m], key, m)
  BY <1>5 DEF G
<1>7. m <= m
  BY <1>1
<1> QED  BY <1>6, <1>7 DEF BackSound, back
-----------------------------------------------------------------------------
(* The timer queue.                                                        *)

(* The list gp_timer_queue_process() builds.                               *)
ListHead == IF pc = "idle" THEN NULL ELSE reschedule

(* Where each timer is: at a position of the heap, on the list, or in its  *)
(* callback.                                                               *)
Placed(at, lst, m) ==
  /\ HeapOf(links, Top, at) /\ Ordered(at, expires)
  /\ List(links, lst, m) /\ lst[0] = ListHead
  /\ On(at) \cap OnList(lst) = {}
  /\ cb \notin On(at) /\ cb \notin OnList(lst)
  /\ \A t \in Timers : running[t] <=> t \in On(at) \/ t \in OnList(lst) \/ t = cb

(* What the flags and the locals say of each other.                        *)
Frames ==
  /\ \A t \in Timers : in_callback[t] <=> t = cb
  /\ pc = "callback" <=> cb # NULL
  /\ pc = "callback" => queue = cb
  /\ \A t \in Timers : res_in_callback[t] => t = cb

(* Memory is only given back when the queue is done with it.               *)
Memory == ~ uaf /\ \A t \in freed : ~ running[t]

QueuePlaced == \E at, lst, m : Placed(at, lst, m)

QueueInv == TypeOK /\ Frames /\ Memory /\ QueuePlaced

-----------------------------------------------------------------------------
LEMMA QueueInvGivesAll ==
  QueueInv => /\ RunningTimersAreQueued /\ NoUseAfterFree
              /\ HeapOrdered(links, expires, Top)
<1> SUFFICES ASSUME QueueInv
             PROVE  /\ RunningTimersAreQueued /\ NoUseAfterFree
                    /\ HeapOrdered(links, expires, Top)
  OBVIOUS
<1>1. PICK at, lst, m : Placed(at, lst, m)
  BY DEF QueueInv, QueuePlaced
<1>2. Linked(links, at) /\ Top = at[1] /\ Ordered(at, expires)
  BY <1>1 DEF Placed, HeapOf
<1>3. InHeap = On(at)
  BY <1>2, BelowIsOn DEF InHeap
<1>4. ToPutBack = OnList(lst)
  <2>1. List(links, lst, m) /\ lst[0] = ListHead
    BY <1>1 DEF Placed
  <2>2. CASE pc = "idle"
    BY <2>1, <2>2, EmptyList DEF ToPutBack, ListHead
  <2>3. CASE pc # "idle"
    BY <2>1, <2>3, ListedIsOnList DEF ToPutBack, ListHead
  <2> QED  BY <2>2, <2>3
<1>5. RunningTimersAreQueued
  BY <1>1, <1>3, <1>4 DEF RunningTimersAreQueued, Placed
<1>6. NoUseAfterFree
  <2>1. ~ uaf /\ \A t \in freed : ~ running[t]
    BY DEF QueueInv, Memory
  <2>2. \A t \in Timers : t \in On(at) \/ t \in OnList(lst) => running[t]
    BY <1>1 DEF Placed
  <2>3. On(at) \subseteq Timers /\ OnList(lst) \subseteq Timers
    BY DEF On, OnList, Timers
  <2> QED  BY <1>3, <1>4, <2>1, <2>2, <2>3 DEF NoUseAfterFree
<1>7. HeapOrdered(links, expires, Top)
  BY <1>2, OrderedIsHeapOrdered
<1> QED  BY <1>5, <1>6, <1>7

LEMMA QueueStarts == Init => QueueInv
<1> SUFFICES ASSUME Init PROVE QueueInv
  OBVIOUS
<1> USE DEF Init
<1> DEFINE at == [i \in Nat |-> NULL]
<1>1. links \in Heaps
  BY DEF EmptyLinks, Heaps, Ptr
<1>2. \A i \in Nat : at[i] = NULL
  OBVIOUS
<1>3. at \in [Nat -> Ptr]
  BY DEF Ptr
<1> HIDE DEF at
<1>4. Tree(at) /\ at[1] = NULL
  BY <1>2, <1>3 DEF Tree
<1>5. HeapOf(links, Top, at) /\ On(at) = {} /\ Ordered(at, expires)
  BY <1>1, <1>4, EmptyHeap DEF Top
<1>6. List(links, at, 0) /\ at[0] = NULL
  BY <1>1, <1>2, <1>3 DEF List
<1>7. OnList(at) = {}
  BY <1>6, EmptyList
<1>8. ListHead = NULL
  BY DEF ListHead
<1>9. Placed(at, at, 0)
  BY <1>5, <1>6, <1>7, <1>8, NullAssumption DEF Placed, Timers
<1>10. QueuePlaced
  BY <1>9 DEF QueuePlaced
<1>11. TypeOK
  BY TimersAssumption DEF TypeOK, Timers
<1>12. Frames /\ Memory
  BY NullAssumption DEF Frames, Memory, Timers
<1> QED  BY <1>10, <1>11, <1>12 DEF QueueInv
(* The tree, the list and the timer in its callback, after a step that     *)
(* leaves the pointers alone.                                              *)
LEMMA PointersStay ==
  ASSUME NEW at, NEW lst, NEW m, Placed(at, lst, m),
         links' = links, Top' = Top, ListHead' = ListHead, cb' = cb, running' = running,
         \A t \in Timers : t # cb => expires'[t] = expires[t]
  PROVE  QueuePlaced'
<1>1. Tree(at) /\ cb \notin On(at) /\ Ordered(at, expires)
  BY DEF Placed, HeapOf, Linked
<1>2. \A t \in On(at) : expires'[t] = expires[t]
  BY <1>1 DEF On, Timers
<1>3. Ordered(at, expires')
  BY <1>1, <1>2, OrderedByTheSame
<1>4. Placed(at, lst, m)'
  BY <1>3 DEF Placed
<1> QED  BY <1>4 DEF QueuePlaced

LEMMA TickStep ==
  ASSUME QueueInv, Tick
  PROVE  QueueInv'
<1>1. PICK at, lst, m : Placed(at, lst, m)
  BY DEF QueueInv, QueuePlaced
<1>2. TypeOK' /\ Frames' /\ Memory'
  BY TimersAssumption DEF Tick, QueueInv, TypeOK, Frames, Memory, flags, frame
<1>3. QueuePlaced'
  <2>1. links' = links /\ Top' = Top /\ ListHead' = ListHead /\ cb' = cb /\ running' = running
        /\ expires' = expires
    BY DEF Tick, Top, ListHead, flags, frame
  <2> QED  BY <1>1, <2>1, PointersStay
<1> QED  BY <1>2, <1>3 DEF QueueInv

LEMMA OwnStep ==
  ASSUME QueueInv, NEW t \in Timers,
         (\E d \in Delays : InsFromCallback(t, d)) \/ RemFromCallback(t)
  PROVE  QueueInv'
<1>1. PICK at, lst, m : Placed(at, lst, m)
  BY DEF QueueInv, QueuePlaced
<1>2. PICK x \in Nat : expires' = [expires EXCEPT ![t] = x]
  BY TimersAssumption DEF QueueInv, TypeOK, InsFromCallback, RemFromCallback, GP_TIMER_STOP
<1>3. /\ in_callback[t] /\ res_in_callback' = [res_in_callback EXCEPT ![t] = TRUE]
      /\ UNCHANGED <<links, running, in_callback, free_on_stop, queue, now, frame, freed, uaf>>
  BY DEF InsFromCallback, RemFromCallback
<1>4. t = cb
  BY <1>3 DEF QueueInv, Frames
<1>5. TypeOK'
  BY <1>2, <1>3 DEF QueueInv, TypeOK, frame
<1>6. Frames' /\ Memory'
  BY <1>3, <1>4 DEF QueueInv, TypeOK, Frames, Memory, frame
<1>7. QueuePlaced'
  <2>1. links' = links /\ Top' = Top /\ ListHead' = ListHead /\ cb' = cb /\ running' = running
    BY <1>3 DEF Top, ListHead, frame
  <2>2. \A u \in Timers : u # cb => expires'[u] = expires[u]
    BY <1>2, <1>4 DEF QueueInv, TypeOK
  <2> QED  BY <1>1, <2>1, <2>2, PointersStay
<1> QED  BY <1>5, <1>6, <1>7 DEF QueueInv

LEMMA FreeStep ==
  ASSUME QueueInv, NEW t \in Timers, gp_timer_free(t)
  PROVE  QueueInv'
<1>1. PICK at, lst, m : Placed(at, lst, m)
  BY DEF QueueInv, QueuePlaced
<1>2. UNCHANGED <<links, expires, running, in_callback, res_in_callback, queue, now, frame, uaf>>
  BY DEF gp_timer_free
<1>3. \/ ~ running[t] /\ freed' = freed \cup {t} /\ free_on_stop' = free_on_stop
      \/ free_on_stop' = [free_on_stop EXCEPT ![t] = TRUE] /\ freed' = freed
  BY DEF gp_timer_free, FreeNow
<1>4. TypeOK'
  BY <1>2, <1>3 DEF QueueInv, TypeOK, frame
<1>5. Frames' /\ Memory'
  BY <1>2, <1>3 DEF QueueInv, Frames, Memory, frame
<1>6. QueuePlaced'
  <2>1. links' = links /\ Top' = Top /\ ListHead' = ListHead /\ cb' = cb /\ running' = running
        /\ expires' = expires
    BY <1>2 DEF Top, ListHead, frame
  <2> QED  BY <1>1, <2>1, PointersStay
<1> QED  BY <1>4, <1>5, <1>6 DEF QueueInv

LEMMA ProcessStartStep ==
  ASSUME QueueInv, ProcessStart
  PROVE  QueueInv'
<1>1. PICK at, lst, m : Placed(at, lst, m)
  BY DEF QueueInv, QueuePlaced
<1>2. /\ pc = "idle" /\ pc' = "loop" /\ pnow' = now /\ reschedule' = NULL
      /\ UNCHANGED <<links, expires, running, in_callback, res_in_callback, free_on_stop,
                     queue, now, cb, head, freed, uaf>>
  BY DEF ProcessStart, flags
<1>3. TypeOK' /\ Frames' /\ Memory'
  BY <1>2 DEF QueueInv, TypeOK, Frames, Memory
<1>4. QueuePlaced'
  <2>1. links' = links /\ Top' = Top /\ ListHead' = ListHead /\ cb' = cb /\ running' = running
        /\ expires' = expires
    BY <1>2 DEF Top, ListHead
  <2> QED  BY <1>1, <2>1, PointersStay
<1> QED  BY <1>3, <1>4 DEF QueueInv

(* A timer that is started comes into the tree.                            *)
LEMMA InsStarts ==
  ASSUME QueueInv, NEW t \in Timers, NEW d \in Delays, pc = "idle", Owned(t),
         gp_timer_queue_ins(t, d)
  PROVE  QueueInv'
<1> DEFINE r == gp_heap_ins(links, expires', queue, t)
<1>1. PICK at, lst, m : Placed(at, lst, m)
  BY DEF QueueInv, QueuePlaced
<1>2. /\ ~ running[t] /\ expires' = [expires EXCEPT ![t] = now + d]
      /\ running' = [running EXCEPT ![t] = TRUE] /\ links' = r.h /\ queue' = r.top
      /\ UNCHANGED <<in_callback, res_in_callback, free_on_stop, now, pc, pnow, reschedule, cb,
                     head, freed, uaf>>
  BY DEF gp_timer_queue_ins, frame
<1>3. now + d \in Nat /\ t \notin freed
  BY TimersAssumption DEF QueueInv, TypeOK, Owned
<1>4. expires' \in [Timers -> Nat]
  BY <1>2, <1>3 DEF QueueInv, TypeOK
<1>5. expires' \in [Nodes -> Int] /\ \A u \in Timers : u # t => expires'[u] = expires[u]
  BY <1>2, <1>4 DEF Timers, QueueInv, TypeOK
<1>6. /\ HeapOf(links, Top, at) /\ Ordered(at, expires) /\ Tree(at)
      /\ List(links, lst, m) /\ lst[0] = ListHead
      /\ \A u \in Timers : running[u] <=> u \in On(at) \/ u \in OnList(lst) \/ u = cb
  BY <1>1 DEF Placed, HeapOf, Linked
<1>7. cb = NULL /\ Top = queue /\ OnList(lst) = {} /\ lst[0] = NULL
  <2>1. ListHead = NULL
    BY DEF ListHead
  <2> QED  BY <1>6, <2>1, EmptyList DEF QueueInv, Frames, Top
<1>8. t \notin On(at) /\ t # NULL
  BY <1>2, <1>6, NullAssumption DEF Timers
<1>9. Ordered(at, expires')
  <2>1. \A u \in On(at) : expires'[u] = expires[u]
    BY <1>5, <1>8 DEF On, Timers
  <2> QED  BY <1>6, <2>1, OrderedByTheSame
<1>10. PICK a2 : Added(links, r, at, a2, t, expires')
  BY <1>5, <1>6, <1>7, <1>8, InsertSound DEF Timers
<1> HIDE DEF r
<1>11. HeapOf(r.h, r.top, a2) /\ On(a2) = On(at) \cup {t} /\ Ordered(a2, expires')
       /\ r.h \in Heaps /\ Tree(a2) /\ r.top = a2[1]
  BY <1>9, <1>10 DEF Added, HeapOf, Linked
<1>12. QueuePlaced'
  <2>1. List(links', lst, m)
    BY <1>2, <1>6, <1>7, <1>11, EmptyList
  <2>2. Top' = queue' /\ ListHead' = NULL
    BY <1>2 DEF Top, ListHead
  <2>3. \A u \in Timers : running'[u] <=> u \in On(a2) \/ u \in OnList(lst) \/ u = cb'
    BY <1>2, <1>6, <1>7, <1>11 DEF QueueInv, TypeOK
  <2>4. cb' \notin On(a2) /\ cb' \notin OnList(lst)
    BY <1>2, <1>7, NullAssumption DEF On
  <2>5. Placed(a2, lst, m)'
    BY <1>2, <1>7, <1>11, <2>1, <2>2, <2>3, <2>4 DEF Placed
  <2> QED  BY <2>5 DEF QueuePlaced
<1>13. queue' \in Timers \cup {NULL}
  BY <1>2, <1>11, TreeFacts DEF Ptr, Timers
<1>14. TypeOK'
  BY <1>2, <1>4, <1>13 DEF QueueInv, TypeOK
<1>15. Frames' /\ Memory'
  BY <1>2, <1>3 DEF QueueInv, TypeOK, Frames, Memory
<1> QED  BY <1>12, <1>14, <1>15 DEF QueueInv

(* A timer that is stopped leaves it.                                      *)
LEMMA RemStops ==
  ASSUME QueueInv, NEW t \in Timers, pc = "idle", gp_timer_queue_rem(t)
  PROVE  QueueInv'
<1> DEFINE r == gp_heap_rem(links, expires', queue, t)
<1>1. PICK at, lst, m : Placed(at, lst, m)
  BY DEF QueueInv, QueuePlaced
<1>2. /\ running[t] /\ expires' = [expires EXCEPT ![t] = 0]
      /\ running' = [running EXCEPT ![t] = FALSE]
      /\ queue # NULL => links' = r.h /\ queue' = r.top
      /\ UNCHANGED <<in_callback, res_in_callback, free_on_stop, now, pc, pnow, reschedule, cb,
                     head, freed, uaf>>
  BY DEF gp_timer_queue_rem, StopTimer, frame
<1>3. expires' \in [Timers -> Nat]
  BY <1>2 DEF QueueInv, TypeOK
<1>4. expires \in [Nodes -> Int] /\ expires' \in [Nodes -> Int] /\ SameKeys(expires, expires', t)
  BY <1>2, <1>3 DEF Timers, QueueInv, TypeOK, SameKeys
<1>5. /\ HeapOf(links, Top, at) /\ Ordered(at, expires) /\ Tree(at) /\ Top = at[1]
      /\ List(links, lst, m) /\ lst[0] = ListHead
      /\ \A u \in Timers : running[u] <=> u \in On(at) \/ u \in OnList(lst) \/ u = cb
  BY <1>1 DEF Placed, HeapOf, Linked
<1>6. cb = NULL /\ Top = queue /\ OnList(lst) = {} /\ lst[0] = NULL
  <2>1. ListHead = NULL
    BY DEF ListHead
  <2> QED  BY <1>5, <2>1, EmptyList DEF QueueInv, Frames, Top
<1>7. t \in On(at) /\ t # NULL
  BY <1>2, <1>5, <1>6, NullAssumption DEF Timers
<1>8. queue # NULL
  <2>1. \E k \in Nat : at[k] = t
    BY <1>7 DEF On
  <2> QED  BY <1>5, <1>6, <1>7, <2>1, EmptyTree
<1>9. PICK a2 : Removed(links, r, at, a2, t, expires, expires')
  BY <1>4, <1>5, <1>6, <1>7, RemSound
<1>10. links' = r.h /\ queue' = r.top
  BY <1>2, <1>8
<1> HIDE DEF r
<1>11. HeapOf(r.h, r.top, a2) /\ On(a2) = On(at) \ {t} /\ Ordered(a2, expires')
       /\ r.h \in Heaps /\ Tree(a2) /\ r.top = a2[1]
  BY <1>5, <1>9 DEF Removed, HeapOf, Linked
<1>12. QueuePlaced'
  <2>1. List(links', lst, m)
    BY <1>5, <1>6, <1>10, <1>11, EmptyList
  <2>2. Top' = queue' /\ ListHead' = NULL
    BY <1>2 DEF Top, ListHead
  <2>3. \A u \in Timers : running'[u] <=> u \in On(a2) \/ u \in OnList(lst) \/ u = cb'
    BY <1>2, <1>5, <1>6, <1>7, <1>11 DEF QueueInv, TypeOK
  <2>4. cb' \notin On(a2) /\ cb' \notin OnList(lst)
    BY <1>2, <1>6, NullAssumption DEF On
  <2>5. Placed(a2, lst, m)'
    BY <1>2, <1>6, <1>10, <1>11, <2>1, <2>2, <2>3, <2>4 DEF Placed
  <2> QED  BY <2>5 DEF QueuePlaced
<1>13. queue' \in Timers \cup {NULL}
  BY <1>10, <1>11, TreeFacts DEF Ptr, Timers
<1>14. TypeOK'
  BY <1>2, <1>3, <1>13 DEF QueueInv, TypeOK
<1>15. Frames' /\ Memory'
  BY <1>2 DEF QueueInv, TypeOK, Frames, Memory
<1> QED  BY <1>12, <1>14, <1>15 DEF QueueInv
-----------------------------------------------------------------------------
(* gp_timer_queue_process().                                               *)

LEMMA WhereTheyAre ==
  ASSUME NEW at, NEW lst, NEW m, Placed(at, lst, m)
  PROVE  InHeap = On(at) /\ ToPutBack = OnList(lst)
<1>1. Linked(links, at) /\ Top = at[1] /\ List(links, lst, m) /\ lst[0] = ListHead
  BY DEF Placed, HeapOf
<1>2. InHeap = On(at)
  BY <1>1, BelowIsOn DEF InHeap
<1>3. CASE pc = "idle"
  BY <1>1, <1>2, <1>3, EmptyList DEF ToPutBack, ListHead
<1>4. CASE pc # "idle"
  BY <1>1, <1>2, <1>4, ListedIsOnList DEF ToPutBack, ListHead
<1> QED  BY <1>3, <1>4

(* The same after a step.                                                  *)
LEMMA WhereTheyCome ==
  ASSUME NEW at, NEW lst, NEW m, Placed(at, lst, m)'
  PROVE  InHeap' = On(at) /\ ToPutBack' = OnList(lst)
<1>1. Linked(links', at) /\ Top' = at[1] /\ List(links', lst, m) /\ lst[0] = ListHead'
  BY DEF Placed, HeapOf
<1>2. InHeap' = On(at)
  BY <1>1, BelowIsOn DEF InHeap
<1>3. CASE pc' = "idle"
  BY <1>1, <1>2, <1>3, EmptyList DEF ToPutBack, ListHead
<1>4. CASE pc' # "idle"
  BY <1>1, <1>2, <1>4, ListedIsOnList DEF ToPutBack, ListHead
<1> QED  BY <1>3, <1>4

(* The first timer is taken off the heap for its callback.                 *)
LEMMA ProcessTopStep ==
  ASSUME QueueInv, ProcessTop
  PROVE  QueueInv' /\ queue \in InHeap /\ InHeap' = InHeap \ {queue} /\ ToPutBack' = ToPutBack
<1> DEFINE r == gp_heap_pop(links, expires, queue)
<1>1. PICK at, lst, m : Placed(at, lst, m)
  BY DEF QueueInv, QueuePlaced
<1>2. /\ pc = "loop" /\ pc' = "callback" /\ queue # NULL /\ links' = r.h /\ head' = r.top
      /\ cb' = queue /\ in_callback' = [in_callback EXCEPT ![queue] = TRUE]
      /\ uaf' = (uaf \/ queue \in freed)
      /\ UNCHANGED <<expires, running, res_in_callback, free_on_stop, queue, now, pnow,
                     reschedule, freed>>
  BY DEF ProcessTop
<1>3. /\ HeapOf(links, Top, at) /\ Ordered(at, expires) /\ Tree(at) /\ Top = at[1]
      /\ List(links, lst, m) /\ lst[0] = ListHead
      /\ On(at) \cap OnList(lst) = {}
      /\ \A u \in Timers : running[u] <=> u \in On(at) \/ u \in OnList(lst) \/ u = cb
  BY <1>1 DEF Placed, HeapOf, Linked
<1>4. cb = NULL /\ Top = queue /\ ListHead' = ListHead
  BY <1>2 DEF QueueInv, Frames, Top, ListHead
<1>5. queue \in On(at) /\ queue \in Timers /\ queue \notin OnList(lst)
  <2>1. queue \in On(at)
    <3>1. at[1] # NULL /\ queue = at[1]
      BY <1>2, <1>3, <1>4
    <3> QED  BY <1>3, <3>1, TreeFacts
  <2> QED  BY <1>3, <2>1 DEF On, Timers
<1>6. expires \in [Nodes -> Int]
  BY DEF Timers, QueueInv, TypeOK
<1>7. PICK a2 : Removed(links, r, at, a2, queue, expires, expires)
  BY <1>2, <1>3, <1>4, <1>6, PopSound
<1> HIDE DEF r
<1>8. HeapOf(r.h, r.top, a2) /\ On(a2) = On(at) \ {queue} /\ Ordered(a2, expires)
      /\ r.h \in Heaps /\ Tree(a2) /\ r.top = a2[1] /\ SameElsewhere(links, r.h, On(at))
  BY <1>3, <1>7 DEF Removed, HeapOf, Linked
<1>9. List(links', lst, m)
  <2>1. \A n \in OnList(lst) : n \in Nodes \ On(at)
    BY <1>3 DEF OnList
  <2>2. \A n \in OnList(lst) : r.h.left[n] = links.left[n]
    BY <1>8, <2>1 DEF SameElsewhere
  <2> QED  BY <1>2, <1>3, <1>8, <2>2, ListElsewhere
<1>10. Placed(a2, lst, m)'
  <2>1. Top' = head'
    BY <1>2 DEF Top
  <2>2. \A u \in Timers : running'[u] <=> u \in On(a2) \/ u \in OnList(lst) \/ u = cb'
    BY <1>2, <1>3, <1>4, <1>5, <1>8, NullAssumption DEF Timers
  <2>3. cb' \notin On(a2) /\ cb' \notin OnList(lst) /\ On(a2) \cap OnList(lst) = {}
    BY <1>2, <1>3, <1>5, <1>8
  <2> QED  BY <1>2, <1>3, <1>4, <1>8, <1>9, <2>1, <2>2, <2>3 DEF Placed
<1>11. QueuePlaced'
  BY <1>10 DEF QueuePlaced
<1>12. head' \in Timers \cup {NULL}
  BY <1>2, <1>8, TreeFacts DEF Ptr, Timers
<1>13. TypeOK'
  BY <1>2, <1>12 DEF QueueInv, TypeOK
<1>14. Frames'
  BY <1>2, <1>4, <1>5, NullAssumption DEF QueueInv, TypeOK, Frames, Timers
<1>15. Memory'
  <2>1. running[queue]
    BY <1>3, <1>5
  <2> QED  BY <1>2, <2>1 DEF QueueInv, Memory
<1>16. QueueInv'
  BY <1>11, <1>13, <1>14, <1>15 DEF QueueInv
<1>17. InHeap = On(at) /\ ToPutBack = OnList(lst)
  BY <1>1, WhereTheyAre
<1>18. InHeap' = On(a2) /\ ToPutBack' = OnList(lst)
  BY <1>10, WhereTheyCome
<1> QED  BY <1>5, <1>8, <1>16, <1>17, <1>18

(* A callback that returned: its timer is stopped or goes on the list.     *)
LEMMA RetIsNat ==
  ASSUME QueueInv, pc = "callback", NEW r \in Delays \cup {GP_TIMER_STOP}
  PROVE  Ret(r) \in Nat /\ Base \in Nat /\ Ret(r) + Base \in Nat
<1>1. cb \in Timers /\ expires[cb] \in Nat /\ pnow \in Nat
  BY DEF QueueInv, TypeOK, Frames
<1>2. UINT32_MAX \in Nat /\ UINT32_MAX + 1 > 0 /\ r \in Nat
  BY TimersAssumption DEF GP_TIMER_STOP
<1>3. uint32_t(expires[cb]) \in Nat
  BY <1>1, <1>2 DEF uint32_t
<1>4. Ret(r) \in Nat
  BY <1>2, <1>3 DEF Ret
<1>5. Base \in Nat
  BY <1>1 DEF Base
<1> QED  BY <1>4, <1>5

LEMMA CallbackStep ==
  ASSUME QueueInv, NEW r \in Delays \cup {GP_TIMER_STOP}, CallbackReturns(r)
  PROVE  /\ QueueInv' /\ InHeap' = InHeap /\ cb \in Timers
         /\ CallbackStops(r) => ToPutBack' = ToPutBack
         /\ CallbackReschedules(r) => ToPutBack' = ToPutBack \cup {cb}
<1>1. PICK at, lst, m : Placed(at, lst, m)
  BY DEF QueueInv, QueuePlaced
<1>2. /\ pc = "callback" /\ pc' = "loop" /\ cb' = NULL /\ queue' = head /\ head' = NULL
      /\ in_callback' = [in_callback EXCEPT ![cb] = FALSE]
      /\ res_in_callback' = [res_in_callback EXCEPT ![cb] = FALSE]
      /\ UNCHANGED <<free_on_stop, now, pnow>>
  BY DEF CallbackReturns
<1>3. /\ HeapOf(links, Top, at) /\ Ordered(at, expires) /\ Linked(links, at) /\ Tree(at) /\ Top = at[1]
      /\ Counted(links, at, NULL) /\ links \in Heaps
      /\ List(links, lst, m) /\ lst[0] = ListHead
      /\ On(at) \cap OnList(lst) = {} /\ cb \notin On(at) /\ cb \notin OnList(lst)
      /\ \A u \in Timers : running[u] <=> u \in On(at) \/ u \in OnList(lst) \/ u = cb
  BY <1>1 DEF Placed, HeapOf, Linked
<1>4. cb \in Timers /\ cb # NULL /\ Top = head /\ Top' = head /\ ListHead = reschedule
      /\ ListHead' = reschedule'
  BY <1>2 DEF QueueInv, TypeOK, Frames, Top, ListHead
<1>5. InHeap = On(at) /\ ToPutBack = OnList(lst)
  BY <1>1, WhereTheyAre
<1>6. Frames'
  BY <1>2, <1>4, NullAssumption DEF QueueInv, TypeOK, Frames, Timers
<1>7. ASSUME CallbackStops(r)
      PROVE  QueueInv' /\ InHeap' = InHeap /\ ToPutBack' = ToPutBack
  <2>1. /\ running' = [running EXCEPT ![cb] = FALSE] /\ expires' = [expires EXCEPT ![cb] = 0]
        /\ freed' = IF free_on_stop[cb] THEN freed \cup {cb} ELSE freed
        /\ UNCHANGED <<links, reschedule, uaf>>
    BY <1>7 DEF CallbackStops, StopTimer
  <2>2. Ordered(at, expires')
    <3>1. \A u \in On(at) : expires'[u] = expires[u]
      BY <1>3, <2>1 DEF QueueInv, TypeOK, On, Timers
    <3> QED  BY <1>3, <3>1, OrderedByTheSame
  <2>3. \A u \in Timers : running'[u] <=> u \in On(at) \/ u \in OnList(lst) \/ u = cb'
    BY <1>2, <1>3, <1>4, <2>1, NullAssumption DEF QueueInv, TypeOK, Timers
  <2>4. cb' \notin On(at) /\ cb' \notin OnList(lst)
    BY <1>2, NullAssumption DEF On, OnList
  <2>5. Placed(at, lst, m)'
    BY <1>2, <1>3, <1>4, <2>1, <2>2, <2>3, <2>4 DEF Placed
  <2>6. QueuePlaced'
    BY <2>5 DEF QueuePlaced
  <2>7. TypeOK'
    BY <1>2, <1>4, <2>1 DEF QueueInv, TypeOK
  <2>8. Memory'
    BY <1>4, <2>1 DEF QueueInv, TypeOK, Memory
  <2>9. InHeap' = On(at) /\ ToPutBack' = OnList(lst)
    BY <2>5, WhereTheyCome
  <2> QED  BY <1>5, <1>6, <2>6, <2>7, <2>8, <2>9 DEF QueueInv
<1>8. ASSUME CallbackReschedules(r)
      PROVE  QueueInv' /\ InHeap' = InHeap /\ ToPutBack' = ToPutBack \cup {cb}
  <2>0. PICK f : f = Front(lst, cb)
    OBVIOUS
  <2>1. /\ expires' = [expires EXCEPT ![cb] = Ret(r) + Base]
        /\ links' = [links EXCEPT !.left[cb] = reschedule] /\ reschedule' = cb
        /\ UNCHANGED <<running, freed, uaf>>
    BY <1>8 DEF CallbackReschedules
  <2>2. Ret(r) + Base \in Nat
    BY <1>2, RetIsNat
  <2>3. Ordered(at, expires')
    <3>1. \A u \in On(at) : expires'[u] = expires[u]
      BY <1>3, <2>1 DEF QueueInv, TypeOK, On, Timers
    <3> QED  BY <1>3, <3>1, OrderedByTheSame
  <2>4. SideWritten(links, links', "left", cb, reschedule)
    <3>1. "left" \in Sides /\ cb \in Nodes /\ reschedule \in Ptr
      BY <1>4 DEF Sides, Timers, Ptr, QueueInv, TypeOK
    <3>2. SideWritten(links, [links EXCEPT !["left"][cb] = reschedule], "left", cb, reschedule)
      BY <1>3, <3>1, SideSet
    <3> QED  BY <2>1, <3>2
  <2>5. /\ links' \in Heaps /\ links'.left[cb] = lst[0]
        /\ \A n \in Nodes : n # cb => links'.left[n] = links.left[n]
        /\ links'.right = links.right /\ links'.up = links.up /\ links'.children = links.children
    BY <1>3, <1>4, <2>4 DEF SideWritten, Timers
  <2>6. \A k \in Nat : at[k] # NULL => at[k] \in Nodes /\ at[k] # cb
    BY <1>3, TreeFacts
  <2>7. Linked(links', at)
    BY <1>3, <2>5, <2>6 DEF Linked
  <2>8. Counted(links', at, NULL)
    BY <1>3, <2>5 DEF Counted, gp_heap_size
  <2>9. /\ List(links', f, m + 1) /\ f[0] = cb /\ OnList(f) = OnList(lst) \cup {cb}
    <3>1. \A t \in OnList(lst) : links'.left[t] = links.left[t]
      BY <1>3, <2>5 DEF OnList
    <3>2. List(links', Front(lst, cb), m + 1) /\ Front(lst, cb)[0] = cb
          /\ OnList(Front(lst, cb)) = OnList(lst) \cup {cb}
      BY <1>3, <1>4, <2>5, <3>1, FrontFacts DEF Timers
    <3> QED  BY <2>0, <3>2
  <2>10. cb' \notin On(at) /\ cb' \notin OnList(f)
    BY <1>2, NullAssumption DEF On, OnList
  <2>11. \A u \in Timers : running'[u] <=> u \in On(at) \/ u \in OnList(f) \/ u = cb'
    BY <1>2, <1>3, <1>4, <2>1, <2>9, NullAssumption DEF Timers
  <2>12. HeapOf(links', Top', at) /\ On(at) \cap OnList(f) = {}
    BY <1>3, <1>4, <2>7, <2>8, <2>9 DEF HeapOf
  <2>13. Placed(at, f, m + 1)'
    BY <1>4, <2>1, <2>3, <2>9, <2>10, <2>11, <2>12 DEF Placed
  <2>14. QueuePlaced'
    BY <2>13 DEF QueuePlaced
  <2>15. TypeOK'
    BY <1>2, <1>4, <2>1, <2>2 DEF QueueInv, TypeOK
  <2>16. Memory'
    BY <2>1 DEF QueueInv, Memory
  <2>17. InHeap' = On(at) /\ ToPutBack' = OnList(f)
    BY <2>13, WhereTheyCome
  <2> QED  BY <1>5, <1>6, <2>9, <2>14, <2>15, <2>16, <2>17 DEF QueueInv
<1>9. CallbackStops(r) \/ CallbackReschedules(r)
  BY DEF CallbackReturns
<1> QED  BY <1>4, <1>7, <1>8, <1>9

(* The timers that ran go back into the heap.                              *)
LEMMA ProcessEndStep ==
  ASSUME QueueInv, ProcessEnd
  PROVE  QueueInv' /\ InHeap' = InHeap \cup ToPutBack /\ ToPutBack' = {}
<1> DEFINE length == Cardinality(Listed(links, reschedule))
           r == PutBack(expires, length)[length][links][queue][reschedule]
           none == [k \in Nat |-> NULL]
<1>1. PICK at, lst, m : Placed(at, lst, m)
  BY DEF QueueInv, QueuePlaced
<1>2. /\ pc = "loop" /\ pc' = "idle" /\ links' = r.h /\ queue' = r.top /\ reschedule' = NULL
      /\ pnow' = 0
      /\ UNCHANGED <<expires, running, in_callback, res_in_callback, free_on_stop, now, cb,
                     head, freed, uaf>>
  BY DEF ProcessEnd, flags
<1>3. /\ HeapOf(links, Top, at) /\ Ordered(at, expires)
      /\ List(links, lst, m) /\ lst[0] = ListHead
      /\ On(at) \cap OnList(lst) = {}
      /\ \A u \in Timers : running[u] <=> u \in On(at) \/ u \in OnList(lst) \/ u = cb
  BY <1>1 DEF Placed
<1>4. cb = NULL /\ Top = queue /\ ListHead = reschedule
  BY <1>2 DEF QueueInv, Frames, Top, ListHead
<1>5. length = m
  BY <1>3, <1>4, ListedIsOnList, ListLength
<1>6. expires \in [Nodes -> Int]
  BY DEF Timers, QueueInv, TypeOK
<1>7. r = PutBack(expires, m)[m][links][queue][lst[0]]
  BY <1>3, <1>4, <1>5
<1> HIDE DEF length, r
<1>8. PutsBack(links, r, expires, at, lst)
  BY <1>3, <1>4, <1>6, <1>7, PutBackSound
<1>9. PICK a2 : HeapOf(r.h, r.top, a2) /\ On(a2) = On(at) \cup OnList(lst) /\ Ordered(a2, expires)
  BY <1>3, <1>8 DEF PutsBack
<1>10. links' \in Heaps /\ Tree(a2) /\ queue' = a2[1]
  BY <1>2, <1>9 DEF HeapOf, Linked
<1>11. List(links', none, 0) /\ none[0] = NULL
  BY <1>10 DEF List, Ptr
<1> HIDE DEF none
<1>12. OnList(none) = {}
  BY <1>11, EmptyList
<1>13. Placed(a2, none, 0)'
  <2>1. Top' = queue' /\ ListHead' = NULL
    BY <1>2 DEF Top, ListHead
  <2>2. \A u \in Timers : running'[u] <=> u \in On(a2) \/ u \in OnList(none) \/ u = cb'
    BY <1>2, <1>3, <1>9, <1>12
  <2>3. cb' \notin On(a2)
    BY <1>2, <1>4, NullAssumption DEF On
  <2> QED  BY <1>2, <1>9, <1>11, <1>12, <2>1, <2>2, <2>3 DEF Placed
<1>14. QueuePlaced'
  BY <1>13 DEF QueuePlaced
<1>15. queue' \in Timers \cup {NULL}
  BY <1>10, TreeFacts DEF Ptr, Timers
<1>16. TypeOK'
  BY <1>2, <1>15, TimersAssumption DEF QueueInv, TypeOK
<1>17. Frames' /\ Memory'
  BY <1>2, <1>4 DEF QueueInv, Frames, Memory
<1>18. InHeap = On(at) /\ ToPutBack = OnList(lst)
  BY <1>1, WhereTheyAre
<1>19. InHeap' = On(a2) /\ ToPutBack' = OnList(none)
  BY <1>13, WhereTheyCome
<1> QED  BY <1>9, <1>12, <1>14, <1>16, <1>17, <1>18, <1>19 DEF QueueInv

-----------------------------------------------------------------------------
LEMMA QueueSteps == QueueInv /\ [Next]_vars => QueueInv'
<1> SUFFICES ASSUME QueueInv, [Next]_vars PROVE QueueInv'
  OBVIOUS
<1>1. CASE Tick
  BY <1>1, TickStep
<1>2. CASE Program
  <2>1. PICK t \in Timers :
          \/ (\E d \in Delays : InsFromCallback(t, d)) \/ RemFromCallback(t)
          \/ pc = "idle" /\ Owned(t) /\ \E d \in Delays : gp_timer_queue_ins(t, d)
          \/ pc = "idle" /\ gp_timer_queue_rem(t)
          \/ gp_timer_free(t)
    BY <1>2 DEF Program
  <2> QED  BY <2>1, OwnStep, InsStarts, RemStops, FreeStep
<1>3. CASE Queue
  BY <1>3, ProcessStartStep, ProcessTopStep, CallbackStep, ProcessEndStep DEF Queue
<1>4. CASE UNCHANGED vars
  <2>1. UNCHANGED <<links, expires, running, in_callback, res_in_callback, free_on_stop, queue,
                    now, pc, pnow, reschedule, cb, head, freed, uaf>>
    BY <1>4 DEF vars, flags, frame
  <2>2. TypeOK' /\ Frames' /\ Memory'
    BY <2>1 DEF QueueInv, TypeOK, Frames, Memory
  <2>3. PICK at, lst, m : Placed(at, lst, m)
    BY DEF QueueInv, QueuePlaced
  <2>4. Top' = Top /\ ListHead' = ListHead
    BY <2>1 DEF Top, ListHead
  <2>5. QueuePlaced'
    BY <2>1, <2>3, <2>4, PointersStay
  <2> QED  BY <2>2, <2>5 DEF QueueInv
<1> QED  BY <1>1, <1>2, <1>3, <1>4 DEF Next

LEMMA QueueAlwaysPlaced == Spec => []QueueInv
BY QueueStarts, QueueSteps, PTL DEF Spec

(* The fields and locals of gp_timer.c stay what they are meant to hold.   *)
THEOREM TimerTypes == Spec => []TypeOK
<1>1. QueueInv => TypeOK
  BY DEF QueueInv
<1> QED  BY <1>1, QueueAlwaysPlaced, PTL

(* A timer that is marked running is in the heap, on the list of           *)
(* gp_timer_queue_process() or in its callback, and in one of them only.   *)
THEOREM RunningTimersStayQueued == Spec => []RunningTimersAreQueued
BY QueueInvGivesAll, QueueAlwaysPlaced, PTL

(* Whenever gp_timer_free() is called, the memory of a timer goes when the *)
(* queue has no pointer to it left.                                        *)
THEOREM FreedTimersAreLeft == Spec => []NoUseAfterFree
BY QueueInvGivesAll, QueueAlwaysPlaced, PTL

(* No timer is in the heap above one that is due before it, so that        *)
(* process_top() takes the next one due, whatever was started, stopped and *)
(* put back.                                                               *)
THEOREM TimersStayOrdered == Spec => []HeapOrdered(links, expires, Top)
BY QueueInvGivesAll, QueueAlwaysPlaced, PTL
-----------------------------------------------------------------------------
(* What the queue promises.                                                *)

(* No node is smaller than the root.                                       *)
LEMMA RootIsLeast ==
  ASSUME NEW at, Tree(at), NEW key \in [Nodes -> Int], Ordered(at, key), NEW n \in On(at)
  PROVE  at[1] # NULL /\ key[at[1]] <= key[n]
<1> DEFINE Bad == {k \in Nat : at[k] # NULL /\ ~ (key[at[1]] <= key[at[k]])}
<1>1. PICK i \in Nat : at[i] = n /\ n # NULL
  BY TreeFacts, NullAssumption
<1>2. at[1] # NULL
  BY <1>1, EmptyTree
<1>3. \A k \in Nat : at[k] # NULL => key[at[k]] \in Int
  BY TreeFacts
<1>4. Bad = {}
  <2> SUFFICES ASSUME Bad # {} PROVE FALSE
    OBVIOUS
  <2>1. PICK k \in Bad : \A y \in Bad : k =< y
    <3>1. Bad \subseteq Nat
      OBVIOUS
    <3> QED  BY <3>1, SmallestExists
  <2>2. k \in Nat /\ at[k] # NULL /\ k # 0 /\ ~ (key[at[1]] <= key[at[k]])
    BY <2>1, TreeFacts
  <2>3. k # 1
    BY <1>2, <1>3, <2>2
  <2>4. Up(k) \in Nat /\ Up(k) < k /\ (k = 2 * Up(k) \/ k = 2 * Up(k) + 1)
    BY <2>2, UpFacts
  <2>5. Up(k) # 0
    BY <2>2, <2>3, <2>4
  <2>6. at[Up(k)] # NULL
    BY <2>2, <2>5, UpInTree
  <2>7. Up(k) \notin Bad
    BY <2>1, <2>4
  <2>8. key[at[1]] <= key[at[Up(k)]]
    BY <2>4, <2>6, <2>7
  <2>9. key[at[Up(k)]] <= key[at[k]]
    BY <2>2, <2>6 DEF Ordered, Edge
  <2>10. key[at[1]] \in Int /\ key[at[Up(k)]] \in Int /\ key[at[k]] \in Int
    BY <1>2, <1>3, <2>2, <2>4, <2>6
  <2> QED  BY <2>2, <2>8, <2>9, <2>10
<1> QED  BY <1>1, <1>2, <1>4

(* Times fit in what a callback returns, and the null pointer is no time.  *)
TimesFit ==
  /\ MaxNow < UINT32_MAX /\ \A d \in Delays : MaxNow + d < UINT32_MAX
  /\ NULL \notin Int

(* What a callback asked of its own timer is not cut to 32 bits.           *)
OwnFits == \A t \in Timers : res_in_callback[t] => expires[t] <= UINT32_MAX

SchedInv == QueueInv /\ TimesFit /\ OwnFits

(* The timer the queue points to is the next one due.                      *)
LEMMA FirstIsNext ==
  ASSUME QueueInv, pc = "loop"
  PROVE  /\ queue = NULL => InHeap = {}
         /\ queue # NULL => /\ queue \in InHeap
                            /\ \A t \in InHeap : expires[queue] <= expires[t]
<1>1. PICK at, lst, m : Placed(at, lst, m)
  BY DEF QueueInv, QueuePlaced
<1>2. Linked(links, at) /\ Tree(at) /\ Top = at[1] /\ Ordered(at, expires) /\ links \in Heaps
  BY <1>1 DEF Placed, HeapOf, Linked
<1>3. Top = queue /\ expires \in [Nodes -> Int]
  BY DEF Top, QueueInv, TypeOK, Timers
<1>4. InHeap = On(at)
  BY <1>1, WhereTheyAre
<1>5. CASE queue = NULL
  BY <1>2, <1>3, <1>4, <1>5, EmptyHeap
<1>6. CASE queue # NULL
  <2>1. at[1] # NULL /\ queue = at[1]
    BY <1>2, <1>3, <1>6
  <2>2. queue \in On(at)
    BY <1>2, <2>1, TreeFacts
  <2>3. \A t \in On(at) : expires[at[1]] <= expires[t]
    BY <1>2, <1>3, RootIsLeast
  <2> QED  BY <1>4, <1>6, <2>1, <2>2, <2>3
<1> QED  BY <1>5, <1>6

(* Between two calls the running timers are those of the heap.             *)
LEMMA IdleHeap ==
  QueueInv /\ pc = "idle" => /\ InHeap = {t \in Timers : running[t]} /\ ToPutBack = {}
                             /\ cb = NULL
<1> SUFFICES ASSUME QueueInv, pc = "idle"
             PROVE  InHeap = {t \in Timers : running[t]} /\ ToPutBack = {} /\ cb = NULL
  OBVIOUS
<1>1. ToPutBack = {} /\ cb = NULL
  BY DEF ToPutBack, QueueInv, Frames
<1>2. RunningTimersAreQueued
  BY QueueInvGivesAll
<1>3. InHeap \subseteq Timers
  BY DEF InHeap, Below, Timers
<1> QED  BY <1>1, <1>2, <1>3, NullAssumption DEF RunningTimersAreQueued, Timers

LEMMA PlacesAreTimers == InHeap \subseteq Timers /\ ToPutBack \subseteq Timers
BY DEF InHeap, ToPutBack, Below, Listed, Timers

LEMMA IdleHeapAfter ==
  ASSUME QueueInv', pc' = "idle"
  PROVE  InHeap' = {t \in Timers : running'[t]} /\ ToPutBack' = {}
<1>1. ToPutBack' = {} /\ cb' = NULL
  BY DEF ToPutBack, QueueInv, Frames
<1>2. RunningTimersAreQueued'
  BY QueueInvGivesAll, PTL
<1>3. (InHeap \subseteq Timers /\ ToPutBack \subseteq Timers)'
  BY PlacesAreTimers, PTL
<1>4. InHeap' \subseteq Timers
  BY <1>3
<1> QED  BY <1>1, <1>2, <1>4, NullAssumption DEF RunningTimersAreQueued, Timers

(* The state of the schedule.                                              *)
Armed == ExpiresOf(InHeap)
Later == ExpiresOf(ToPutBack)
Call == IF pc = "idle" THEN -1 ELSE pnow
Asked == IF cb = NULL \/ ~ res_in_callback[cb] THEN -1
         ELSE IF expires[cb] = GP_TIMER_STOP THEN NULL ELSE expires[cb]
SchedVars == <<now, Armed, Later, Call, cb, Asked>>

LEMMA SchedState ==
  /\ Armed = [t \in Timers |-> IF t \in InHeap THEN expires[t] ELSE -1]
  /\ Later = [t \in Timers |-> IF t \in ToPutBack THEN expires[t] ELSE -1]
BY DEF Armed, Later, ExpiresOf

LEMMA SchedStateAfter ==
  /\ Armed' = [t \in Timers |-> IF t \in InHeap' THEN expires'[t] ELSE -1]
  /\ Later' = [t \in Timers |-> IF t \in ToPutBack' THEN expires'[t] ELSE -1]
BY DEF Armed, Later, ExpiresOf
LEMMA SameArmed ==
  ASSUME InHeap' = InHeap, \A t \in InHeap : expires'[t] = expires[t]
  PROVE  Armed' = Armed
BY SchedState, SchedStateAfter

LEMMA SameLater ==
  ASSUME ToPutBack' = ToPutBack, \A t \in ToPutBack : expires'[t] = expires[t]
  PROVE  Later' = Later
BY SchedState, SchedStateAfter

(* The steps, as those of the schedule.                                    *)
LEMMA TickAdvances ==
  ASSUME SchedInv, Tick
  PROVE  Sched!Advance
<1>1. /\ now' = now + 1 /\ now < MaxNow
      /\ UNCHANGED <<links, expires, running, in_callback, res_in_callback, free_on_stop, queue,
                     pc, pnow, reschedule, cb, head, freed, uaf>>
  BY DEF Tick, flags, frame
<1>2. InHeap' = InHeap /\ ToPutBack' = ToPutBack
  BY <1>1 DEF InHeap, ToPutBack, Top
<1>3. Armed' = Armed /\ Later' = Later
  BY <1>1, <1>2, SameArmed, SameLater
<1>4. Call' = Call /\ Asked' = Asked
  BY <1>1 DEF Call, Asked
<1>5. now' \in 0 .. UINT32_MAX - 1 /\ now' > now
  BY <1>1, TimersAssumption DEF SchedInv, QueueInv, TypeOK, TimesFit
<1> QED  BY <1>1, <1>3, <1>4, <1>5 DEF Sched!Advance, Armed, Later, Call, Asked

LEMMA CallbackAsks ==
  ASSUME SchedInv, NEW t \in Timers,
         (\E d \in Delays : InsFromCallback(t, d)) \/ RemFromCallback(t)
  PROVE  Sched!Own
<1>1. PICK x \in Nat : /\ expires' = [expires EXCEPT ![t] = x]
                       /\ x = UINT32_MAX \/ (x < UINT32_MAX /\ x >= now)
  BY TimersAssumption DEF SchedInv, QueueInv, TypeOK, TimesFit, InsFromCallback, RemFromCallback,
                          GP_TIMER_STOP
<1>2. /\ in_callback[t] /\ res_in_callback' = [res_in_callback EXCEPT ![t] = TRUE]
      /\ UNCHANGED <<links, queue, now, pc, pnow, reschedule, cb, head>>
  BY DEF InsFromCallback, RemFromCallback, frame
<1>3. t = cb /\ cb # NULL
  BY <1>2, NullAssumption DEF SchedInv, QueueInv, Frames, Timers
<1>4. InHeap' = InHeap /\ ToPutBack' = ToPutBack
  BY <1>2 DEF InHeap, ToPutBack, Top
<1>5. cb \notin InHeap /\ cb \notin ToPutBack
  <2>1. RunningTimersAreQueued
    BY QueueInvGivesAll DEF SchedInv
  <2> QED  BY <1>3, <2>1 DEF RunningTimersAreQueued
<1>6. \A u \in Timers : u # cb => expires'[u] = expires[u]
  BY <1>1, <1>3 DEF SchedInv, QueueInv, TypeOK
<1>7. Armed' = Armed /\ Later' = Later
  BY <1>4, <1>5, <1>6, PlacesAreTimers, SameArmed, SameLater
<1>8. Call' = Call
  BY <1>2 DEF Call
<1>9. Asked' \in {NULL} \cup {y \in 0 .. UINT32_MAX - 1 : y >= now}
  <2>1. res_in_callback'[cb] /\ expires'[cb] = x
    BY <1>1, <1>2, <1>3 DEF SchedInv, QueueInv, TypeOK
  <2>2. Asked' = IF x = UINT32_MAX THEN NULL ELSE x
    BY <1>2, <1>3, <2>1 DEF Asked, GP_TIMER_STOP
  <2> QED  BY <1>1, <2>2, TimersAssumption
<1> QED  BY <1>2, <1>3, <1>7, <1>8, <1>9 DEF Sched!Own, Armed, Later, Call, Asked

LEMMA FreeIsNoStep ==
  ASSUME NEW t, gp_timer_free(t)
  PROVE  UNCHANGED SchedVars
<1>1. UNCHANGED <<links, expires, running, in_callback, res_in_callback, queue, now, pc, pnow,
                  reschedule, cb, head, uaf>>
  BY DEF gp_timer_free, frame
<1>2. InHeap' = InHeap /\ ToPutBack' = ToPutBack
  BY <1>1 DEF InHeap, ToPutBack, Top
<1>3. Armed' = Armed /\ Later' = Later
  BY <1>1, <1>2, SameArmed, SameLater
<1>4. Call' = Call /\ Asked' = Asked
  BY <1>1 DEF Call, Asked
<1> QED  BY <1>1, <1>3, <1>4 DEF SchedVars

LEMMA InsArms ==
  ASSUME SchedInv, QueueInv', NEW t \in Timers, NEW d \in Delays, pc = "idle",
         gp_timer_queue_ins(t, d)
  PROVE  Sched!Start(t)
<1>1. /\ ~ running[t] /\ expires' = [expires EXCEPT ![t] = now + d]
      /\ running' = [running EXCEPT ![t] = TRUE]
      /\ UNCHANGED <<res_in_callback, now, pc, pnow, cb>>
  BY DEF gp_timer_queue_ins, frame
<1>2. /\ InHeap = {u \in Timers : running[u]} /\ ToPutBack = {} /\ cb = NULL
  BY IdleHeap DEF SchedInv
<1>3. InHeap' = {u \in Timers : running'[u]} /\ ToPutBack' = {}
  BY <1>1, IdleHeapAfter
<1>4. InHeap' = InHeap \cup {t}
  BY <1>1, <1>2, <1>3 DEF SchedInv, QueueInv, TypeOK
<1>5. Armed' = [Armed EXCEPT ![t] = now + d] /\ Armed[t] = -1
  <2>1. \A u \in Timers : expires'[u] = IF u = t THEN now + d ELSE expires[u]
    BY <1>1 DEF SchedInv, QueueInv, TypeOK
  <2> QED  BY <1>1, <1>2, <1>4, <2>1, SchedState, SchedStateAfter
<1>6. Later' = Later
  BY <1>2, <1>3, SameLater
<1>7. Call' = Call /\ Call = -1 /\ Asked' = Asked
  BY <1>1, <1>2 DEF Call, Asked
<1>8. now + d \in 0 .. UINT32_MAX - 1 /\ now + d >= now
  BY TimersAssumption DEF SchedInv, QueueInv, TypeOK, TimesFit
<1> QED  BY <1>1, <1>5, <1>6, <1>7, <1>8 DEF Sched!Start, Armed, Later, Call, Asked

LEMMA RemDisarms ==
  ASSUME SchedInv, QueueInv', NEW t \in Timers, pc = "idle", gp_timer_queue_rem(t)
  PROVE  Sched!Stop(t)
<1>1. /\ expires' = [expires EXCEPT ![t] = 0]
      /\ running' = [running EXCEPT ![t] = FALSE]
      /\ UNCHANGED <<res_in_callback, now, pc, pnow, cb>>
  BY DEF gp_timer_queue_rem, StopTimer, frame
<1>2. /\ InHeap = {u \in Timers : running[u]} /\ ToPutBack = {} /\ cb = NULL
  BY IdleHeap DEF SchedInv
<1>3. InHeap' = {u \in Timers : running'[u]} /\ ToPutBack' = {}
  BY <1>1, IdleHeapAfter
<1>4. InHeap' = InHeap \ {t}
  BY <1>1, <1>2, <1>3 DEF SchedInv, QueueInv, TypeOK
<1>5. Armed' = [Armed EXCEPT ![t] = -1]
  <2>1. \A u \in Timers : u # t => expires'[u] = expires[u]
    BY <1>1 DEF SchedInv, QueueInv, TypeOK
  <2> QED  BY <1>1, <1>2, <1>4, <2>1, SchedState, SchedStateAfter
<1>6. Later' = Later
  BY <1>2, <1>3, SameLater
<1>7. Call' = Call /\ Call = -1 /\ Asked' = Asked
  BY <1>1, <1>2 DEF Call, Asked
<1> QED  BY <1>1, <1>5, <1>6, <1>7 DEF Sched!Stop, Armed, Later, Call, Asked

LEMMA StartBegins ==
  ASSUME SchedInv, QueueInv', ProcessStart
  PROVE  Sched!Begin
<1>1. /\ pc = "idle" /\ pc' = "loop" /\ pnow' = now /\ reschedule' = NULL
      /\ UNCHANGED <<links, expires, running, in_callback, res_in_callback, free_on_stop,
                     queue, now, cb, head, freed, uaf>>
  BY DEF ProcessStart, flags
<1>2. InHeap' = InHeap
  BY <1>1 DEF InHeap, Top
<1>3. InHeap = {u \in Timers : running[u]} /\ ToPutBack = {} /\ cb = NULL
  BY <1>1, IdleHeap DEF SchedInv
<1>4. ToPutBack' = {}
  <2>1. RunningTimersAreQueued'
    BY QueueInvGivesAll, PTL
  <2>2. \A u \in Timers : (running'[u] <=> u \in InHeap' \cup ToPutBack' \/ u = cb')
                          /\ ~ (u \in InHeap' /\ u \in ToPutBack')
    BY <2>1 DEF RunningTimersAreQueued
  <2>3. (InHeap \subseteq Timers /\ ToPutBack \subseteq Timers)'
    BY PlacesAreTimers, PTL
  <2>4. ASSUME NEW u \in ToPutBack' PROVE FALSE
    BY <1>1, <1>2, <1>3, <2>2, <2>3, <2>4
  <2> QED  BY <2>4
<1>5. Armed' = Armed /\ Later' = Later
  BY <1>1, <1>2, <1>3, <1>4, SameArmed, SameLater
<1>6. Call = -1 /\ Call' = now /\ Asked' = Asked
  BY <1>1 DEF Call, Asked
<1> QED  BY <1>1, <1>5, <1>6 DEF Sched!Begin, Armed, Later, Call, Asked

LEMMA TopFires ==
  ASSUME SchedInv, ProcessTop
  PROVE  queue \in Timers /\ Sched!Fire(queue)
<1>1. /\ pc = "loop" /\ pc' = "callback" /\ queue # NULL /\ expires[queue] <= pnow
      /\ cb' = queue /\ UNCHANGED <<expires, res_in_callback, now, pnow>>
  BY DEF ProcessTop, Due
<1>2. queue \in InHeap /\ InHeap' = InHeap \ {queue} /\ ToPutBack' = ToPutBack
  BY ProcessTopStep DEF SchedInv
<1>3. queue \in Timers /\ \A t \in InHeap : expires[queue] <= expires[t]
  BY <1>1, <1>2, FirstIsNext, PlacesAreTimers DEF SchedInv
<1>4. \A t \in Timers : expires[t] \in Nat
  BY DEF SchedInv, QueueInv, TypeOK
<1>5. Armed[queue] = expires[queue] /\ Armed[queue] # -1
      /\ \A u \in Timers : Armed[u] # -1 => Armed[queue] <= Armed[u]
  BY <1>2, <1>3, <1>4, SchedState
<1>6. Armed' = [Armed EXCEPT ![queue] = -1]
  BY <1>1, <1>2, <1>3, SchedState, SchedStateAfter
<1>7. Later' = Later
  BY <1>1, <1>2, SameLater
<1>8. Call = pnow /\ Call # -1 /\ Call' = Call
  BY <1>1, TimersAssumption DEF Call, SchedInv, QueueInv, TypeOK
<1>9. cb = NULL /\ Asked' = Asked
  <2>1. cb = NULL /\ ~ res_in_callback[queue]
    BY <1>1, <1>3, NullAssumption DEF SchedInv, QueueInv, Frames, Timers
  <2> QED  BY <1>1, <2>1 DEF Asked
<1>10. Sched!Fire(queue)
  BY <1>1, <1>5, <1>6, <1>7, <1>8, <1>9 DEF Sched!Fire, Armed, Later, Call, Asked
<1> QED  BY <1>3, <1>10

LEMMA EndEnds ==
  ASSUME SchedInv, ProcessEnd
  PROVE  Sched!End
<1>1. /\ pc = "loop" /\ pc' = "idle" /\ (queue # NULL => ~ (expires[queue] <= pnow))
      /\ UNCHANGED <<expires, res_in_callback, now, cb>>
  BY DEF ProcessEnd, Due, flags
<1>2. InHeap' = InHeap \cup ToPutBack /\ ToPutBack' = {}
  BY ProcessEndStep DEF SchedInv
<1>3. pnow \in Nat /\ \A t \in Timers : expires[t] \in Nat
  BY TimersAssumption DEF SchedInv, QueueInv, TypeOK
<1>4. \A t \in Timers : Armed[t] = -1 \/ Armed[t] > pnow
  <2> SUFFICES ASSUME NEW t \in Timers, t \in InHeap PROVE expires[t] > pnow
    BY SchedState
  <2>1. queue # NULL /\ queue \in Timers /\ expires[queue] <= expires[t]
    BY <1>1, FirstIsNext, PlacesAreTimers DEF SchedInv
  <2> QED  BY <1>1, <1>3, <2>1
<1>5. Armed' = [t \in Timers |-> IF Later[t] = -1 THEN Armed[t] ELSE Later[t]]
  BY <1>1, <1>2, <1>3, SchedState, SchedStateAfter
<1>6. Later' = [t \in Timers |-> -1]
  BY <1>2, SchedStateAfter
<1>7. Call = pnow /\ Call # -1 /\ Call' = -1
  BY <1>1, <1>3 DEF Call
<1>8. cb = NULL /\ Asked' = Asked
  <2>1. cb = NULL
    BY <1>1 DEF SchedInv, QueueInv, Frames
  <2> QED  BY <1>1, <2>1 DEF Asked
<1> QED  BY <1>1, <1>4, <1>5, <1>6, <1>7, <1>8 DEF Sched!End, Armed, Later, Call, Asked
LEMMA NotCut ==
  ASSUME SchedInv, NEW t \in Timers, res_in_callback[t]
  PROVE  uint32_t(expires[t]) = expires[t] /\ expires[t] \in Nat
<1>1. expires[t] \in Nat /\ expires[t] <= UINT32_MAX /\ UINT32_MAX \in Nat
  BY TimersAssumption DEF SchedInv, QueueInv, TypeOK, OwnFits
<1> QED  BY <1>1 DEF uint32_t

LEMMA CallbackIsReturn ==
  ASSUME SchedInv, NEW r \in Delays \cup {GP_TIMER_STOP}, CallbackReturns(r)
  PROVE  Sched!Return
<1>1. /\ pc = "callback" /\ pc' = "loop" /\ cb' = NULL /\ UNCHANGED <<now, pnow>>
      /\ CallbackStops(r) \/ CallbackReschedules(r)
  BY DEF CallbackReturns
<1>2. /\ InHeap' = InHeap /\ cb \in Timers /\ cb # NULL
      /\ CallbackStops(r) => ToPutBack' = ToPutBack
      /\ CallbackReschedules(r) => ToPutBack' = ToPutBack \cup {cb}
  BY CallbackStep, NullAssumption DEF SchedInv, Timers
<1>3. cb \notin InHeap /\ cb \notin ToPutBack
  <2>1. RunningTimersAreQueued
    BY QueueInvGivesAll DEF SchedInv
  <2> QED  BY <1>2, <2>1 DEF RunningTimersAreQueued
<1>4. \A t \in Timers : expires[t] \in Nat
  BY DEF SchedInv, QueueInv, TypeOK
<1>5. \A t \in Timers : t # cb => expires'[t] = expires[t]
  BY <1>1, <1>4 DEF CallbackStops, StopTimer, CallbackReschedules, SchedInv, QueueInv, TypeOK
<1>6. Armed' = Armed
  BY <1>2, <1>3, <1>5, PlacesAreTimers, SameArmed
<1>7. Call = pnow /\ Call' = Call /\ Asked' = -1
  BY <1>1 DEF Call, Asked
<1>8. Later[cb] = -1 /\ Later = [Later EXCEPT ![cb] = -1]
  BY <1>2, <1>3, SchedState
<1>9. CallbackStops(r) => Later' = Later
  BY <1>2, <1>3, <1>5, PlacesAreTimers, SameLater
<1>10. CallbackReschedules(r) => Later' = [Later EXCEPT ![cb] = Ret(r) + Base]
  <2> SUFFICES ASSUME CallbackReschedules(r) PROVE Later' = [Later EXCEPT ![cb] = Ret(r) + Base]
    OBVIOUS
  <2>1. expires'[cb] = Ret(r) + Base
    BY <1>2 DEF CallbackReschedules, SchedInv, QueueInv, TypeOK
  <2>2. ToPutBack' = ToPutBack \cup {cb}
    BY <1>2
  <2> DEFINE e == Ret(r) + Base
  <2>3. expires'[cb] = e
    BY <2>1
  <2> HIDE DEF e
  <2>4. Later' = [Later EXCEPT ![cb] = e]
    BY <1>2, <1>3, <1>5, <2>2, <2>3, SchedState, SchedStateAfter
  <2> QED  BY <2>4 DEF e
<1>11. res_in_callback[cb] => Ret(r) = expires[cb] /\ Base = 0
  BY <1>2, NotCut DEF Ret, Base
<1>12. ~ res_in_callback[cb] => Ret(r) = r /\ Base = pnow /\ Asked = -1
  BY DEF Ret, Base, Asked
<1>13. res_in_callback[cb] => Asked = IF expires[cb] = GP_TIMER_STOP THEN NULL ELSE expires[cb]
  BY <1>2 DEF Asked
<1>14. \/ Asked = -1 /\ \E x \in {-1} \cup {y \in 0 .. UINT32_MAX - 1 : y >= Call} :
                          Later' = [Later EXCEPT ![cb] = x]
       \/ Asked = NULL /\ Later' = Later
       \/ Asked \notin {-1, NULL} /\ Later' = [Later EXCEPT ![cb] = Asked]
  <2>1. CASE CallbackStops(r) /\ ~ res_in_callback[cb]
    BY <1>8, <1>9, <1>12, <2>1
  <2>2. CASE CallbackStops(r) /\ res_in_callback[cb]
    BY <1>9, <1>11, <1>13, <2>2 DEF CallbackStops
  <2>3. CASE CallbackReschedules(r) /\ ~ res_in_callback[cb]
    <3>1. r \in Delays /\ r # GP_TIMER_STOP
      BY <1>12, <2>3 DEF CallbackReschedules
    <3>2. r + pnow \in 0 .. UINT32_MAX - 1 /\ r + pnow >= pnow
      BY <3>1, TimersAssumption DEF SchedInv, QueueInv, TypeOK, TimesFit
    <3>3. Later' = [Later EXCEPT ![cb] = r + pnow]
      BY <1>10, <1>12, <2>3
    <3> QED  BY <1>7, <1>12, <2>3, <3>2, <3>3
  <2>4. CASE CallbackReschedules(r) /\ res_in_callback[cb]
    <3>1. expires[cb] # GP_TIMER_STOP /\ expires[cb] \in Nat /\ expires[cb] + 0 = expires[cb]
      BY <1>2, <1>4, <1>11, <2>4 DEF CallbackReschedules
    <3>2. Asked = expires[cb] /\ Asked \notin {-1, NULL}
      BY <1>13, <2>4, <3>1 DEF SchedInv, TimesFit
    <3>3. Ret(r) + Base = Asked
      BY <1>11, <2>4, <3>1, <3>2
    <3> QED  BY <1>10, <2>4, <3>2, <3>3
  <2> QED  BY <1>1, <2>1, <2>2, <2>3, <2>4
<1> QED  BY <1>1, <1>2, <1>6, <1>7, <1>14 DEF Sched!Return, Armed, Later, Call, Asked

LEMMA SchedSteps ==
  ASSUME SchedInv, QueueInv', [Next]_vars
  PROVE  Sched!Next \/ UNCHANGED SchedVars
<1>1. CASE Tick
  BY <1>1, TickAdvances DEF Sched!Next
<1>2. CASE Program
  <2>1. PICK t \in Timers :
          \/ (\E d \in Delays : InsFromCallback(t, d)) \/ RemFromCallback(t)
          \/ pc = "idle" /\ \E d \in Delays : gp_timer_queue_ins(t, d)
          \/ pc = "idle" /\ gp_timer_queue_rem(t)
          \/ gp_timer_free(t)
    BY <1>2 DEF Program
  <2>2. CASE (\E d \in Delays : InsFromCallback(t, d)) \/ RemFromCallback(t)
    BY <2>2, CallbackAsks DEF Sched!Next
  <2>3. CASE pc = "idle" /\ \E d \in Delays : gp_timer_queue_ins(t, d)
    <3>1. Sched!Start(t)
      BY <2>3, InsArms
    <3> QED  BY <3>1 DEF Sched!Next
  <2>4. CASE pc = "idle" /\ gp_timer_queue_rem(t)
    <3>1. Sched!Stop(t)
      BY <2>4, RemDisarms
    <3> QED  BY <3>1 DEF Sched!Next
  <2>5. CASE gp_timer_free(t)
    BY <2>5, FreeIsNoStep
  <2> QED  BY <2>1, <2>2, <2>3, <2>4, <2>5
<1>3. CASE ProcessStart
  BY <1>3, StartBegins DEF Sched!Next
<1>4. CASE ProcessTop
  <2>1. queue \in Timers /\ Sched!Fire(queue)
    BY <1>4, TopFires
  <2> QED  BY <2>1 DEF Sched!Next
<1>5. CASE \E r \in Delays \cup {GP_TIMER_STOP} : CallbackReturns(r)
  BY <1>5, CallbackIsReturn DEF Sched!Next
<1>6. CASE ProcessEnd
  BY <1>6, EndEnds DEF Sched!Next
<1>7. CASE UNCHANGED vars
  <2>1. UNCHANGED <<links, expires, running, in_callback, res_in_callback, free_on_stop, queue,
                    now, pc, pnow, reschedule, cb, head, freed, uaf>>
    BY <1>7 DEF vars, flags, frame
  <2>2. InHeap' = InHeap /\ ToPutBack' = ToPutBack
    BY <2>1 DEF InHeap, ToPutBack, Top
  <2>3. Armed' = Armed /\ Later' = Later
    BY <2>1, <2>2, SameArmed, SameLater
  <2>4. Call' = Call /\ Asked' = Asked
    BY <2>1 DEF Call, Asked
  <2> QED  BY <2>1, <2>3, <2>4 DEF SchedVars
<1> QED  BY <1>1, <1>2, <1>3, <1>4, <1>5, <1>6, <1>7 DEF Next, Queue

(* What a callback asked for stays within 32 bits.                         *)
LEMMA OwnStaysFit ==
  ASSUME SchedInv, QueueInv', [Next]_vars
  PROVE  OwnFits'
<1>1. \A t \in Timers : res_in_callback'[t] => t = cb'
  BY DEF QueueInv, Frames
<1>2. OwnFits /\ \A t \in Timers : res_in_callback[t] => t = cb
  BY DEF SchedInv, QueueInv, Frames
<1>3. CASE cb' \notin Timers
  BY <1>1, <1>3 DEF OwnFits
<1>4. CASE expires' = expires /\ res_in_callback' = res_in_callback
  BY <1>2, <1>4 DEF OwnFits
<1>5. ASSUME NEW t \in Timers, (\E d \in Delays : InsFromCallback(t, d)) \/ RemFromCallback(t)
      PROVE  OwnFits'
  <2>1. PICK x \in Nat : expires' = [expires EXCEPT ![t] = x] /\ x <= UINT32_MAX
    BY <1>5, TimersAssumption DEF SchedInv, QueueInv, TypeOK, TimesFit, InsFromCallback,
                                  RemFromCallback, GP_TIMER_STOP
  <2>2. t = cb /\ cb' = cb
    BY <1>5 DEF InsFromCallback, RemFromCallback, frame, SchedInv, QueueInv, Frames
  <2>3. expires'[t] <= UINT32_MAX
    BY <2>1 DEF SchedInv, QueueInv, TypeOK
  <2> QED  BY <1>1, <2>2, <2>3 DEF OwnFits
<1>6. ASSUME NEW t \in Timers, pc = "idle",
             (\E d \in Delays : gp_timer_queue_ins(t, d)) \/ gp_timer_queue_rem(t)
      PROVE  cb' \notin Timers
  <2>1. cb' = cb /\ cb = NULL
    BY <1>6 DEF gp_timer_queue_ins, gp_timer_queue_rem, frame, SchedInv, QueueInv, Frames
  <2> QED  BY <2>1, NullAssumption DEF Timers
<1>7. ASSUME NEW r, CallbackReturns(r) PROVE cb' \notin Timers
  BY <1>7, NullAssumption DEF CallbackReturns, Timers
<1>8. Tick \/ ProcessStart \/ ProcessTop \/ ProcessEnd \/ (\E t : gp_timer_free(t)) \/ UNCHANGED vars
      => expires' = expires /\ res_in_callback' = res_in_callback
  BY DEF Tick, ProcessStart, ProcessTop, ProcessEnd, gp_timer_free, vars, flags
<1> QED  BY <1>3, <1>4, <1>5, <1>6, <1>7, <1>8 DEF Next, Program, Queue

LEMMA SchedStarts == Init /\ TimesFit => SchedInv /\ Sched!Init
<1> SUFFICES ASSUME Init, TimesFit PROVE SchedInv /\ Sched!Init
  OBVIOUS
<1>1. QueueInv
  BY QueueStarts
<1>2. OwnFits
  BY DEF Init, OwnFits
<1>3. InHeap = {} /\ ToPutBack = {} /\ cb = NULL
  BY <1>1, IdleHeap DEF Init
<1>4. Armed = [t \in Timers |-> -1] /\ Later = [t \in Timers |-> -1]
  BY <1>3, SchedState
<1>5. Call = -1 /\ Asked = -1
  BY <1>3 DEF Call, Asked, Init
<1>6. now \in 0 .. UINT32_MAX - 1
  BY TimersAssumption DEF Init
<1>7. Sched!Init
  BY <1>3, <1>4, <1>5, <1>6 DEF Sched!Init, Armed, Later, Call, Asked
<1> QED  BY <1>1, <1>2, <1>7 DEF SchedInv

(* The heap, the list and the flags of gp_timer.c implement the schedule   *)
(* that gp_timer.h promises, for as long as times fit in the 32 bits a     *)
(* callback's request is cut to: each call runs what is due, earliest      *)
(* first and each timer once, and what a callback asks of its own timer    *)
(* overrides what it returns.                                              *)
THEOREM QueueImplementsSched == TimesFit /\ Spec => ImplementsSched
<1>1. TimesFit => TimesFit'
  BY DEF TimesFit
<1>2. SchedInv /\ [Next]_vars => SchedInv' /\ [Sched!Next]_(Sched!vars)
  <2> SUFFICES ASSUME SchedInv, [Next]_vars PROVE SchedInv' /\ [Sched!Next]_(Sched!vars)
    OBVIOUS
  <2>1. QueueInv'
    BY QueueSteps DEF SchedInv
  <2>2. OwnFits'
    BY <2>1, OwnStaysFit
  <2>3. TimesFit'
    BY <1>1 DEF SchedInv
  <2>4. Sched!Next \/ UNCHANGED SchedVars
    BY <2>1, SchedSteps
  <2>5. UNCHANGED SchedVars => UNCHANGED Sched!vars
    BY DEF SchedVars, Sched!vars, Armed, Later, Call, Asked
  <2> QED  BY <2>1, <2>2, <2>3, <2>4, <2>5 DEF SchedInv
<1> QED  BY <1>2, SchedStarts, PTL DEF Spec, ImplementsSched, Sched!Spec
=============================================================================
