--------------------------- MODULE TaskQueue_proofs ---------------------------
(***************************************************************************)
(* What holds of the task queue for any number of tasks and any priorities *)
(* they are set up with, as long as no task is removed.                    *)
(***************************************************************************)
EXTENDS TaskQueue, TLAPS

IInv ==
  /\ TypeOK
  /\ ListsAreLinked
  /\ QueuedIsAccurate
  /\ MinPrioIsMinimal
  /\ TaskCountIsExact

-----------------------------------------------------------------------------
(* Sequences.                                                              *)

(* Appending keeps what a sequence holds and adds one entry at its end.    *)
LEMMA AppendFacts ==
  ASSUME NEW S, NEW s \in Seq(S), NEW e \in S
  PROVE  /\ Append(s, e) \in Seq(S)
         /\ Len(Append(s, e)) = Len(s) + 1
         /\ \A i \in 1 .. Len(s) : Append(s, e)[i] = s[i]
         /\ Append(s, e)[Len(s) + 1] = e
OBVIOUS

(* Taking the first entry away shifts the others to the front.             *)
LEMMA TailFacts ==
  ASSUME NEW S, NEW s \in Seq(S), s # <<>>
  PROVE  /\ Tail(s) \in Seq(S)
         /\ Len(s) \in Nat /\ Len(s) >= 1
         /\ Len(Tail(s)) = Len(s) - 1
         /\ \A i \in 1 .. Len(s) - 1 : Tail(s)[i] = s[i + 1]
         /\ Head(s) = s[1]
         /\ s[1] \in S
OBVIOUS

(* A sequence is empty exactly when its length is zero.                    *)
LEMMA EmptyFacts ==
  ASSUME NEW S, NEW s \in Seq(S)
  PROVE  Len(s) \in Nat /\ (s = <<>> <=> Len(s) = 0)
OBVIOUS

(* A positive number is one or more than one.                              *)
LEMMA OneOrMore == \A k \in Nat : k >= 1 => k = 1 \/ k > 1
OBVIOUS

-----------------------------------------------------------------------------
(* The two list operations the queue uses keep every list linked.          *)

(* A list none of whose fields and tasks is written stays linked.          *)
LEMMA OtherListStaysLinked ==
  ASSUME TypeOK, NEW q \in Prios, ListIsLinked(q),
         order'[q] = order[q],
         cnt'[q] = cnt[q], head'[q] = head[q], tail'[q] = tail[q],
         \A i \in 1 .. Len(order[q]) :
           next'[order[q][i]] = next[order[q][i]] /\ prev'[order[q][i]] = prev[order[q][i]]
  PROVE  ListIsLinked(q)'
<1>1. Len(order[q]) \in Nat
  BY DEF TypeOK
<1>2. /\ cnt'[q] = Len(order'[q])
      /\ Len(order'[q]) = 0 => head'[q] = NULL /\ tail'[q] = NULL
      /\ Len(order'[q]) > 0 => head'[q] = order'[q][1] /\ tail'[q] = order'[q][Len(order'[q])]
  BY <1>1 DEF ListIsLinked
<1>3. ASSUME NEW i \in 1 .. Len(order[q])
      PROVE  /\ next'[order[q][i]] = IF i = Len(order[q]) THEN NULL ELSE order[q][i + 1]
             /\ prev'[order[q][i]] = IF i = 1 THEN NULL ELSE order[q][i - 1]
  BY DEF ListIsLinked
<1>4. ASSUME NEW i \in 1 .. Len(order'[q])
      PROVE  /\ next'[order'[q][i]] = IF i = Len(order'[q]) THEN NULL ELSE order'[q][i + 1]
             /\ prev'[order'[q][i]] = IF i = 1 THEN NULL ELSE order'[q][i - 1]
  BY <1>3
<1>5. QED
  BY <1>2, <1>4 DEF ListIsLinked

(* gp_dlist_push_tail() of a task that is in no list keeps all lists linked. *)
LEMMA PushKeepsLinked ==
  ASSUME TypeOK, ListsAreLinked, QueuedIsAccurate,
         NEW t \in Tasks, NEW p \in Prios, TaskPrio[t] = p,
         \A q \in Prios : \A i \in 1 .. Len(order[q]) : order[q][i] # t,
         gp_dlist_push_tail(p, t),
         order' = [order EXCEPT ![p] = Append(@, t)]
  PROVE  ListsAreLinked'
<1> DEFINE w == order[p]
           n == Len(w)
<1>1. w \in Seq(Tasks) /\ n \in Nat
  BY DEF TypeOK
<1>2. order'[p] = Append(w, t) /\ \A q \in Prios \ {p} : order'[q] = order[q]
  BY DEF TypeOK
<1>3. /\ Len(order'[p]) = n + 1
      /\ \A i \in 1 .. n : order'[p][i] = w[i]
      /\ order'[p][n + 1] = t
  BY <1>1, <1>2, AppendFacts
<1>4. NULL \notin Tasks
  BY TaskAssumption
<1>5. \A q \in Prios : \A i \in 1 .. Len(order[q]) : order[q][i] \in Tasks
  BY DEF TypeOK
<1>6. head[p] = NULL <=> n = 0
  BY <1>1, <1>4, <1>5 DEF ListsAreLinked, ListIsLinked
<1>7. n > 0 => tail[p] = w[n]
  BY <1>1 DEF ListsAreLinked, ListIsLinked
<1>8. SUFFICES ASSUME NEW q \in Prios
               PROVE  ListIsLinked(q)'
  BY DEF ListsAreLinked
<1>9. CASE q # p
  <2>1. order'[q] = order[q]
    BY <1>2, <1>9
  <2>2. cnt'[q] = cnt[q] /\ head'[q] = head[q] /\ tail'[q] = tail[q]
    BY <1>9 DEF gp_dlist_push_tail, TypeOK, Lists
  <2>3. ASSUME NEW i \in 1 .. Len(order[q])
        PROVE  next'[order[q][i]] = next[order[q][i]] /\ prev'[order[q][i]] = prev[order[q][i]]
    <3>1. order[q][i] \in Tasks /\ order[q][i] # t
      BY <1>5
    <3>2. n > 0 => order[q][i] # tail[p]
      BY <1>1, <1>7, <1>9 DEF QueuedIsAccurate
    <3>3. QED
      BY <3>1, <3>2, <1>1, <1>6 DEF gp_dlist_push_tail, TypeOK
  <2>4. ListIsLinked(q)
    BY DEF ListsAreLinked
  <2>5. QED
    BY <2>1, <2>2, <2>3, <2>4, OtherListStaysLinked
<1>10. CASE q = p
  <2>1. cnt'[p] = n + 1
    BY <1>1 DEF gp_dlist_push_tail, TypeOK, Lists, ListsAreLinked, ListIsLinked
  <2>2. head'[p] = order'[p][1] /\ tail'[p] = t
    <3>1. CASE n = 0
      BY <3>1, <1>3, <1>6 DEF gp_dlist_push_tail, TypeOK, Lists
    <3>2. CASE n > 0
      BY <3>2, <1>1, <1>3, <1>6 DEF gp_dlist_push_tail, TypeOK, Lists, ListsAreLinked, ListIsLinked
    <3>3. QED
      BY <3>1, <3>2, <1>1
  <2>3. next'[t] = NULL /\ prev'[t] = IF n = 0 THEN NULL ELSE w[n]
    <3>1. n > 0 => w[n] # t
      BY <1>1
    <3>2. prev'[t] = tail[p] /\ tail[p] = IF n = 0 THEN NULL ELSE w[n]
      BY <1>1 DEF gp_dlist_push_tail, TypeOK, ListsAreLinked, ListIsLinked
    <3>3. QED
      BY <3>1, <3>2, <1>1, <1>6, <1>7 DEF gp_dlist_push_tail, TypeOK
  <2>4. ASSUME NEW i \in 1 .. n
        PROVE  /\ next'[w[i]] = IF i = n THEN t ELSE w[i + 1]
               /\ prev'[w[i]] = IF i = 1 THEN NULL ELSE w[i - 1]
    <3>1. w[i] \in Tasks /\ w[i] # t
      BY <1>5
    <3>2. prev'[w[i]] = prev[w[i]]
      BY <3>1 DEF gp_dlist_push_tail, TypeOK
    <3>3. next'[w[i]] = IF w[i] = w[n] THEN t ELSE next[w[i]]
      BY <3>1, <1>1, <1>5, <1>6, <1>7 DEF gp_dlist_push_tail, TypeOK
    <3>4. w[i] = w[n] <=> i = n
      BY <1>1 DEF QueuedIsAccurate
    <3>5. QED
      BY <3>2, <3>3, <3>4 DEF ListsAreLinked, ListIsLinked
  <2>5. QED
    BY <2>1, <2>2, <2>3, <2>4, <1>1, <1>3, <1>10 DEF ListIsLinked
<1>11. QED
  BY <1>9, <1>10

(* gp_dlist_pop_head() of a list with tasks keeps all lists linked.        *)
LEMMA PopKeepsLinked ==
  ASSUME TypeOK, ListsAreLinked, QueuedIsAccurate,
         NEW p \in Prios, order[p] # <<>>,
         gp_dlist_pop_head(p),
         order' = [order EXCEPT ![p] = Tail(@)]
  PROVE  ListsAreLinked'
<1> DEFINE w == order[p]
           n == Len(w)
<1>1. w \in Seq(Tasks) /\ w # <<>> /\ n \in Nat /\ n >= 1 /\ 1 \in 1 .. n /\ NULL \notin Tasks
  BY TaskAssumption DEF TypeOK
<1>2. order'[p] = Tail(w) /\ \A q \in Prios \ {p} : order'[q] = order[q]
  BY DEF TypeOK
<1>3. /\ Len(order'[p]) = n - 1
      /\ \A i \in 1 .. n - 1 : order'[p][i] = w[i + 1]
  <2>1. Len(Tail(w)) = n - 1 /\ \A i \in 1 .. n - 1 : Tail(w)[i] = w[i + 1]
    BY <1>1, TailFacts
  <2>2. QED
    BY <2>1, <1>2
<1>4. \A q \in Prios : \A i \in 1 .. Len(order[q]) : order[q][i] \in Tasks
  BY DEF TypeOK
<1>5. head[p] = w[1] /\ tail[p] = w[n] /\ cnt[p] = n
  BY <1>1 DEF ListsAreLinked, ListIsLinked
<1>6. next[w[1]] = IF n = 1 THEN NULL ELSE w[2]
  <2>1. ListIsLinked(p)
    BY DEF ListsAreLinked
  <2>2. next[w[1]] = IF 1 = n THEN NULL ELSE w[1 + 1]
    BY <2>1, <1>1 DEF ListIsLinked
  <2>3. QED
    BY <2>2
<1>7. n > 1 => 2 \in 1 .. n /\ w[2] \in Tasks
  <2>1. n > 1 => 2 \in 1 .. n
    BY <1>1
  <2>2. QED
    BY <2>1, <1>4
<1>8. ASSUME NEW u \in Tasks
      PROVE  prev'[u] = IF n > 1 /\ u = w[2] THEN NULL ELSE prev[u]
  <2>1. CASE n = 1
    BY <2>1, <1>5, <1>6 DEF gp_dlist_pop_head
  <2>2. CASE n > 1
    <3>1. next[head[p]] = w[2] /\ w[2] # NULL
      BY <2>2, <1>1, <1>5, <1>6, <1>7
    <3>2. prev' = [prev EXCEPT ![next[head[p]]] = NULL]
      BY <3>1 DEF gp_dlist_pop_head
    <3>3. prev \in [Tasks -> Tasks \cup {NULL}]
      BY DEF TypeOK
    <3>4. QED
      BY <3>1, <3>2, <3>3, <2>2
  <2>3. QED
    BY <2>1, <2>2, <1>1, OneOrMore
<1> SUFFICES ASSUME NEW q \in Prios
             PROVE  ListIsLinked(q)'
  BY DEF ListsAreLinked
<1>9. CASE q # p
  <2>1. order'[q] = order[q]
    BY <1>2, <1>9
  <2>2. cnt'[q] = cnt[q] /\ head'[q] = head[q] /\ tail'[q] = tail[q]
    BY <1>9 DEF gp_dlist_pop_head, TypeOK, Lists
  <2>3. ASSUME NEW i \in 1 .. Len(order[q])
        PROVE  next'[order[q][i]] = next[order[q][i]] /\ prev'[order[q][i]] = prev[order[q][i]]
    <3>1. order[q][i] \in Tasks
      BY <1>4
    <3>2. n > 1 => order[q][i] # w[2]
      BY <1>7, <1>9 DEF QueuedIsAccurate
    <3>3. prev'[order[q][i]] = prev[order[q][i]]
      BY <3>1, <3>2, <1>8
    <3>4. QED
      BY <3>3 DEF gp_dlist_pop_head
  <2>4. ListIsLinked(q)
    BY DEF ListsAreLinked
  <2>5. QED
    BY <2>1, <2>2, <2>3, <2>4, OtherListStaysLinked
<1>10. CASE q = p
  <2>1. cnt'[p] = n - 1
    BY <1>1, <1>5 DEF gp_dlist_pop_head, TypeOK, Lists
  <2>2. /\ head'[p] = IF n = 1 THEN NULL ELSE w[2]
        /\ tail'[p] = IF n = 1 THEN NULL ELSE w[n]
    BY <1>1, <1>5, <1>6, <1>7 DEF gp_dlist_pop_head, TypeOK, Lists
  <2>3. ASSUME NEW i \in 1 .. n - 1
        PROVE  /\ next'[w[i + 1]] = IF i = n - 1 THEN NULL ELSE w[i + 2]
               /\ prev'[w[i + 1]] = IF i = 1 THEN NULL ELSE w[i]
    <3>1. i + 1 \in 1 .. n /\ w[i + 1] \in Tasks /\ 2 \in 1 .. n
      BY <1>1, <1>4
    <3>2. w[i + 1] = w[2] <=> i = 1
      BY <3>1, <1>1 DEF QueuedIsAccurate
    <3>3. /\ next[w[i + 1]] = IF i + 1 = n THEN NULL ELSE w[i + 2]
          /\ prev[w[i + 1]] = w[i]
      BY <3>1, <1>1 DEF ListsAreLinked, ListIsLinked
    <3>4. prev'[w[i + 1]] = IF w[i + 1] = w[2] THEN NULL ELSE prev[w[i + 1]]
      BY <3>1, <1>1, <1>8 DEF TypeOK
    <3>5. next' = next
      BY DEF gp_dlist_pop_head
    <3>6. QED
      BY <3>2, <3>3, <3>4, <3>5, <1>1
  <2>4. ASSUME NEW i \in 1 .. n - 1
        PROVE  /\ next'[order'[p][i]] = IF i = n - 1 THEN NULL ELSE order'[p][i + 1]
               /\ prev'[order'[p][i]] = IF i = 1 THEN NULL ELSE order'[p][i - 1]
    BY <2>3, <1>1, <1>3
  <2>5. ASSUME NEW i \in 1 .. Len(order'[p])
        PROVE  /\ next'[order'[p][i]] = IF i = Len(order'[p]) THEN NULL ELSE order'[p][i + 1]
               /\ prev'[order'[p][i]] = IF i = 1 THEN NULL ELSE order'[p][i - 1]
    BY <2>4, <1>3
  <2>6. /\ cnt'[p] = Len(order'[p])
        /\ Len(order'[p]) = 0 => head'[p] = NULL /\ tail'[p] = NULL
        /\ Len(order'[p]) > 0 => head'[p] = order'[p][1] /\ tail'[p] = order'[p][Len(order'[p])]
    <3>1. n > 1 => order'[p][1] = w[1 + 1] /\ order'[p][n - 1] = w[n - 1 + 1]
      BY <1>1, <1>3
    <3>2. QED
      BY <2>1, <2>2, <3>1, <1>1, <1>3
  <2>7. ListIsLinked(p)'
    BY <2>5, <2>6 DEF ListIsLinked
  <2>8. QED
    BY <2>7, <1>10
<1>11. QED
  BY <1>9, <1>10

-----------------------------------------------------------------------------
(* The auxiliary sequences.                                                *)

Total == Len(order[1]) + Len(order[2]) + Len(order[3])

(* The number of listed tasks is a natural number.                         *)
LEMMA TotalIsNat ==
  ASSUME order \in [Prios -> Seq(Tasks)]
  PROVE  Total \in Nat
<1>1. \A p \in Prios : Len(order[p]) \in Nat
  OBVIOUS
<1>2. Len(order[1]) \in Nat /\ Len(order[2]) \in Nat /\ Len(order[3]) \in Nat
  BY <1>1 DEF Prios, GP_TASK_MIN_PRIO, GP_TASK_MAX_PRIO
<1>3. \A a, b, c \in Nat : a + b + c \in Nat
  OBVIOUS
<1>4. QED
  BY <1>2, <1>3 DEF Total

(* What a push does to the order of each list and to the total.            *)
LEMMA OrderAppend ==
  ASSUME order \in [Prios -> Seq(Tasks)], NEW p \in Prios, NEW t \in Tasks,
         order' = [order EXCEPT ![p] = Append(@, t)]
  PROVE  /\ order' \in [Prios -> Seq(Tasks)]
         /\ \A q \in Prios \ {p} : order'[q] = order[q]
         /\ Len(order[p]) \in Nat
         /\ Len(order'[p]) = Len(order[p]) + 1
         /\ order'[p] # <<>>
         /\ \A i \in 1 .. Len(order[p]) : order'[p][i] = order[p][i]
         /\ order'[p][Len(order[p]) + 1] = t
         /\ Total \in Nat /\ Total' = Total + 1
<1>1. order[p] \in Seq(Tasks)
  OBVIOUS
<1>2. order'[p] = Append(order[p], t) /\ \A q \in Prios \ {p} : order'[q] = order[q]
  OBVIOUS
<1>3. order' \in [Prios -> Seq(Tasks)]
  BY <1>1, AppendFacts
<1>4. /\ Len(order'[p]) = Len(order[p]) + 1
      /\ \A i \in 1 .. Len(order[p]) : order'[p][i] = order[p][i]
      /\ order'[p][Len(order[p]) + 1] = t
  BY <1>1, <1>2, AppendFacts
<1>5. Len(order[1]) \in Nat /\ Len(order[2]) \in Nat /\ Len(order[3]) \in Nat
  BY DEF Prios, GP_TASK_MIN_PRIO, GP_TASK_MAX_PRIO
<1>6. p = 1 \/ p = 2 \/ p = 3
  BY DEF Prios, GP_TASK_MIN_PRIO, GP_TASK_MAX_PRIO
<1>7. Total \in Nat /\ Total' = Total + 1
  <2>1. CASE p = 1
    BY <2>1, <1>2, <1>4, <1>5 DEF Total, Prios, GP_TASK_MIN_PRIO, GP_TASK_MAX_PRIO
  <2>2. CASE p = 2
    BY <2>2, <1>2, <1>4, <1>5 DEF Total, Prios, GP_TASK_MIN_PRIO, GP_TASK_MAX_PRIO
  <2>3. CASE p = 3
    BY <2>3, <1>2, <1>4, <1>5 DEF Total, Prios, GP_TASK_MIN_PRIO, GP_TASK_MAX_PRIO
  <2>4. QED
    BY <2>1, <2>2, <2>3, <1>6
<1>8. Len(order[p]) \in Nat
  BY <1>1
<1>9. order'[p] # <<>>
  BY <1>3, <1>4, <1>8, EmptyFacts
<1>10. QED
  BY <1>2, <1>3, <1>4, <1>7, <1>8, <1>9

(* What a pop does to the order of each list and to the total.             *)
LEMMA OrderTail ==
  ASSUME order \in [Prios -> Seq(Tasks)], NEW p \in Prios, order[p] # <<>>,
         order' = [order EXCEPT ![p] = Tail(@)]
  PROVE  /\ order' \in [Prios -> Seq(Tasks)]
         /\ \A q \in Prios \ {p} : order'[q] = order[q]
         /\ Len(order[p]) \in Nat /\ Len(order[p]) >= 1
         /\ Len(order'[p]) = Len(order[p]) - 1
         /\ \A i \in 1 .. Len(order[p]) - 1 : order'[p][i] = order[p][i + 1]
         /\ order[p][1] \in Tasks
         /\ Total' \in Nat /\ Total = Total' + 1
<1>1. order[p] \in Seq(Tasks)
  OBVIOUS
<1>2. order'[p] = Tail(order[p]) /\ \A q \in Prios \ {p} : order'[q] = order[q]
  OBVIOUS
<1>3. order' \in [Prios -> Seq(Tasks)]
  BY <1>1, TailFacts
<1>4. /\ Len(order[p]) \in Nat /\ Len(order[p]) >= 1
      /\ Len(Tail(order[p])) = Len(order[p]) - 1
      /\ \A i \in 1 .. Len(order[p]) - 1 : Tail(order[p])[i] = order[p][i + 1]
      /\ order[p][1] \in Tasks
  BY <1>1, TailFacts
<1>5. Len(order[1]) \in Nat /\ Len(order[2]) \in Nat /\ Len(order[3]) \in Nat
  BY DEF Prios, GP_TASK_MIN_PRIO, GP_TASK_MAX_PRIO
<1>6. p = 1 \/ p = 2 \/ p = 3
  BY DEF Prios, GP_TASK_MIN_PRIO, GP_TASK_MAX_PRIO
<1>7. Total' \in Nat /\ Total = Total' + 1
  <2>1. CASE p = 1
    BY <2>1, <1>2, <1>4, <1>5 DEF Total, Prios, GP_TASK_MIN_PRIO, GP_TASK_MAX_PRIO
  <2>2. CASE p = 2
    BY <2>2, <1>2, <1>4, <1>5 DEF Total, Prios, GP_TASK_MIN_PRIO, GP_TASK_MAX_PRIO
  <2>3. CASE p = 3
    BY <2>3, <1>2, <1>4, <1>5 DEF Total, Prios, GP_TASK_MIN_PRIO, GP_TASK_MAX_PRIO
  <2>4. QED
    BY <2>1, <2>2, <2>3, <1>6
<1>8. QED
  BY <1>2, <1>3, <1>4, <1>7

(* The scan finds the least priority that has tasks.                       *)
LEMMA FindMinPrio ==
  ASSUME NEW c \in [Lists -> Nat], NEW min \in Prios
  PROVE  LET r == find_queue_min_prio(min, c) IN
         /\ r \in Prios \cup {GP_TASK_NONE_PRIO}
         /\ r # GP_TASK_NONE_PRIO => c[r] # 0
         /\ r # min => c[min] = 0
         /\ r # min => \A p \in Prios : c[p] # 0 => r # GP_TASK_NONE_PRIO /\ r <= p
<1> DEFINE nonempty == {p \in Prios : c[p] # 0}
           least == CHOOSE p \in nonempty : \A q \in nonempty : p <= q
<1>1. min # GP_TASK_NONE_PRIO
  BY DEF Prios, GP_TASK_MIN_PRIO, GP_TASK_MAX_PRIO, GP_TASK_NONE_PRIO
<1>2. CASE c[min] # 0
  BY <1>2 DEF find_queue_min_prio
<1>3. CASE c[min] = 0 /\ nonempty = {}
  BY <1>1, <1>3 DEF find_queue_min_prio
<1>4. CASE c[min] = 0 /\ nonempty # {}
  <2>1. \E p \in nonempty : \A q \in nonempty : p <= q
    <3>1. CASE 1 \in nonempty
      BY <3>1 DEF Prios, GP_TASK_MIN_PRIO, GP_TASK_MAX_PRIO
    <3>2. CASE 1 \notin nonempty /\ 2 \in nonempty
      BY <3>2 DEF Prios, GP_TASK_MIN_PRIO, GP_TASK_MAX_PRIO
    <3>3. CASE 1 \notin nonempty /\ 2 \notin nonempty
      BY <3>3, <1>4 DEF Prios, GP_TASK_MIN_PRIO, GP_TASK_MAX_PRIO
    <3>4. QED
      BY <3>1, <3>2, <3>3
  <2>2. least \in nonempty /\ \A q \in nonempty : least <= q
    BY <2>1
  <2>3. find_queue_min_prio(min, c) = least
    BY <1>1, <1>4 DEF find_queue_min_prio
  <2>4. least \in Prios /\ c[least] # 0 /\ \A q \in Prios : c[q] # 0 => least <= q
    BY <2>2
  <2> HIDE DEF least
  <2>5. least # GP_TASK_NONE_PRIO
    BY <2>4 DEF Prios, GP_TASK_MIN_PRIO, GP_TASK_MAX_PRIO, GP_TASK_NONE_PRIO
  <2>6. QED
    BY <2>3, <2>4, <2>5, <1>4
<1>5. QED
  BY <1>2, <1>3, <1>4

-----------------------------------------------------------------------------
(* Each operation keeps the inductive invariant.                           *)

(* The invariant holds of the empty queue.                                 *)
LEMMA InitInv == Init => IInv
<1> SUFFICES ASSUME Init PROVE IInv
  OBVIOUS
<1>1. order \in [Prios -> Seq(Tasks)] /\ \A p \in Prios : order[p] = <<>> /\ Len(order[p]) = 0
  BY DEF Init
<1>2. TypeOK
  BY <1>1 DEF Init, TypeOK, Lists, Behind, GP_TASK_NONE_PRIO
<1>3. ListsAreLinked
  BY <1>1 DEF Init, ListsAreLinked, ListIsLinked, Lists
<1>4. QueuedIsAccurate
  BY <1>1 DEF Init, QueuedIsAccurate
<1>5. MinPrioIsMinimal
  BY <1>1 DEF Init, MinPrioIsMinimal
<1>6. TaskCountIsExact
  BY <1>1 DEF Init, TaskCountIsExact, Prios, GP_TASK_MIN_PRIO, GP_TASK_MAX_PRIO
<1>7. QED
  BY <1>2, <1>3, <1>4, <1>5, <1>6 DEF IInv

(* gp_dlist_push_tail() keeps the types of the pointers.                   *)
LEMMA PushType ==
  ASSUME TypeOK, NEW p \in Prios, NEW t \in Tasks, gp_dlist_push_tail(p, t)
  PROVE  /\ head' \in [Lists -> Tasks \cup {NULL}]
         /\ tail' \in [Lists -> Tasks \cup {NULL}]
         /\ cnt' \in [Lists -> Nat]
         /\ next' \in [Tasks -> Tasks \cup {NULL}]
         /\ prev' \in [Tasks -> Tasks \cup {NULL}]
<1>1. p \in Lists
  BY DEF Lists
<1>2. next' \in [Tasks -> Tasks \cup {NULL}]
  BY DEF TypeOK, gp_dlist_push_tail
<1>3. cnt' \in [Lists -> Nat]
  BY <1>1 DEF TypeOK, gp_dlist_push_tail
<1>4. head' \in [Lists -> Tasks \cup {NULL}] /\ tail' \in [Lists -> Tasks \cup {NULL}]
  BY <1>1 DEF TypeOK, gp_dlist_push_tail
<1>5. prev' \in [Tasks -> Tasks \cup {NULL}]
  <2>1. tail[p] \in Tasks \cup {NULL}
    BY <1>1 DEF TypeOK
  <2>2. QED
    BY <2>1 DEF TypeOK, gp_dlist_push_tail
<1>6. QED
  BY <1>2, <1>3, <1>4, <1>5

(* gp_task_queue_ins() keeps the invariant, inside a callback or not.      *)
LEMMA InsStep ==
  ASSUME IInv, NEW t \in Tasks, gp_task_queue_ins(t)
  PROVE  IInv'
<1> DEFINE p == TaskPrio[t]
           n == Len(order[p])
<1>1. p \in Prios /\ ~ queued[t] /\ t # running
  BY TaskAssumption DEF IInv, QueuedIsAccurate, gp_task_queue_ins
<1>2. \A q \in Prios : \A i \in 1 .. Len(order[q]) : order[q][i] # t /\ order[q][i] \in Tasks
  <2>1. \A q \in Prios : \A i \in 1 .. Len(order[q]) : order[q][i] \in Tasks
    BY DEF IInv, TypeOK
  <2>2. \A q \in Prios : \A i \in 1 .. Len(order[q]) : queued[order[q][i]]
    BY DEF IInv, QueuedIsAccurate
  <2>3. QED
    BY <2>1, <2>2, <1>1
<1>3. order' = [order EXCEPT ![p] = Append(@, t)] /\ order \in [Prios -> Seq(Tasks)]
  BY DEF gp_task_queue_ins, IInv, TypeOK
<1>4. /\ order' \in [Prios -> Seq(Tasks)]
      /\ \A q \in Prios \ {p} : order'[q] = order[q]
      /\ n \in Nat
      /\ Len(order'[p]) = n + 1
      /\ order'[p] # <<>>
      /\ \A i \in 1 .. n : order'[p][i] = order[p][i]
      /\ order'[p][n + 1] = t
      /\ Total \in Nat /\ Total' = Total + 1
  BY <1>1, <1>3, OrderAppend
<1>5. running' = running /\ task_list' = task_list
  BY DEF gp_task_queue_ins
<1>6. min_prio' \in Prios /\ min_prio' <= p
      /\ (min_prio # GP_TASK_NONE_PRIO => min_prio' <= min_prio)
      /\ (min_prio' = p \/ (min_prio' = min_prio /\ min_prio # GP_TASK_NONE_PRIO))
  BY <1>1 DEF gp_task_queue_ins, InsertMinPrio, IInv, TypeOK, Prios,
              GP_TASK_MIN_PRIO, GP_TASK_MAX_PRIO, GP_TASK_NONE_PRIO
<1>7. TypeOK'
  <2>1. task_cnt' \in Nat /\ queued' \in [Tasks -> BOOLEAN]
    BY DEF gp_task_queue_ins, IInv, TypeOK
  <2>2. gp_dlist_push_tail(p, t)
    BY DEF gp_task_queue_ins
  <2>3. QED
    BY <2>1, <2>2, <1>1, <1>4, <1>5, <1>6, PushType DEF IInv, TypeOK
<1>8. ListsAreLinked'
  BY <1>1, <1>2, <1>3, PushKeepsLinked DEF IInv, gp_task_queue_ins
<1>9. QueuedIsAccurate'
  <2>1. queued'[t] /\ \A u \in Tasks : u # t => queued'[u] = queued[u]
    BY DEF gp_task_queue_ins, IInv, TypeOK
  <2>2. ASSUME NEW q \in Prios, NEW i \in 1 .. Len(order'[q])
        PROVE  /\ TaskPrio[order'[q][i]] = q
               /\ queued'[order'[q][i]]
               /\ order'[q][i] # running'
               /\ \A j \in 1 .. Len(order'[q]) : order'[q][i] = order'[q][j] => i = j
    <3>1. CASE q # p
      <4>1. order'[q] = order[q]
        BY <3>1, <1>4
      <4>2. QED
        BY <4>1, <2>1, <1>2, <1>5 DEF IInv, QueuedIsAccurate
    <3>2. CASE q = p /\ i \in 1 .. n
      <4>1. order'[q][i] = order[p][i] /\ order[p][i] \in Tasks \ {t}
        BY <3>2, <1>1, <1>2, <1>4
      <4>2. \A j \in 1 .. n + 1 : order[p][i] = order'[p][j] => i = j
        <5>1. \A j \in 1 .. n : order[p][i] = order[p][j] => i = j
          BY <3>2, <1>1 DEF IInv, QueuedIsAccurate
        <5>2. order'[p][n + 1] # order[p][i]
          BY <4>1, <1>4
        <5>3. QED
          BY <5>1, <5>2, <1>4
      <4>3. TaskPrio[order[p][i]] = p /\ queued[order[p][i]] /\ order[p][i] # running
        BY <3>2, <1>1 DEF IInv, QueuedIsAccurate
      <4>4. QED
        BY <4>1, <4>2, <4>3, <3>2, <2>1, <1>4, <1>5
    <3>3. CASE q = p /\ i = n + 1
      <4>1. order'[q][i] = t /\ TaskPrio[t] = p /\ queued'[t] /\ t # running'
        BY <3>3, <2>1, <1>1, <1>2, <1>4, <1>5
      <4>2. \A j \in 1 .. n : order'[p][j] # t
        <5>1. \A j \in 1 .. n : order[p][j] # t
          BY <1>1, <1>2
        <5>2. \A j \in 1 .. n : order'[p][j] = order[p][j]
          BY <1>4
        <5>3. QED
          BY <5>1, <5>2
      <4>3. \A j \in 1 .. n + 1 : order'[p][j] = t => j = i
        <5>1. \A j \in 1 .. n + 1 : j \in 1 .. n \/ j = n + 1
          BY <1>4
        <5>2. QED
          BY <3>3, <4>2, <5>1
      <4>4. QED
        BY <3>3, <4>1, <4>3, <1>4
    <3>4. QED
      BY <3>1, <3>2, <3>3, <1>4
  <2>3. ASSUME NEW u \in Tasks, queued'[u]
        PROVE  u = running' \/ \E q \in Prios : \E i \in 1 .. Len(order'[q]) : order'[q][i] = u
    <3>1. CASE u = t
      BY <3>1, <1>1, <1>4
    <3>2. CASE u # t
      <4>1. u = running \/ \E q \in Prios : \E i \in 1 .. Len(order[q]) : order[q][i] = u
        BY <3>2, <2>1, <2>3 DEF IInv, QueuedIsAccurate
      <4>2. CASE u = running
        BY <4>2, <1>5
      <4>3. ASSUME NEW q \in Prios, NEW i \in 1 .. Len(order[q]), order[q][i] = u
            PROVE  \E j \in 1 .. Len(order'[q]) : order'[q][j] = u
        <5>1. i \in 1 .. Len(order'[q]) /\ order'[q][i] = order[q][i]
          BY <1>4
        <5>2. QED
          BY <5>1, <4>3
      <4>4. QED
        BY <4>1, <4>2, <4>3
    <3>3. QED
      BY <3>1, <3>2
  <2>4. running' # NULL =>
          queued'[running'] /\ TaskPrio[running'] = task_list' /\ task_list' \in Prios
    BY <2>1, <1>1, <1>5 DEF IInv, QueuedIsAccurate, TypeOK
  <2>5. QED
    BY <2>2, <2>3, <2>4 DEF QueuedIsAccurate
<1>10. MinPrioIsMinimal'
  <2>1. min_prio' # GP_TASK_NONE_PRIO
    BY <1>6 DEF Prios, GP_TASK_MIN_PRIO, GP_TASK_MAX_PRIO, GP_TASK_NONE_PRIO
  <2>2. \A q \in Prios : order'[q] # <<>> => min_prio' <= q
    BY <1>1, <1>4, <1>6 DEF IInv, MinPrioIsMinimal, TypeOK, Prios,
          GP_TASK_MIN_PRIO, GP_TASK_MAX_PRIO, GP_TASK_NONE_PRIO
  <2>3. running' # NULL => min_prio' <= task_list'
    <3>1. running # NULL => task_list \in Prios
      BY DEF IInv, QueuedIsAccurate
    <3>2. QED
      BY <3>1, <1>5, <1>6 DEF IInv, MinPrioIsMinimal, TypeOK, Prios,
          GP_TASK_MIN_PRIO, GP_TASK_MAX_PRIO, GP_TASK_NONE_PRIO
  <2>4. order'[min_prio'] # <<>> \/ (running' # NULL /\ task_list' = min_prio')
    BY <1>1, <1>4, <1>5, <1>6 DEF IInv, MinPrioIsMinimal
  <2>5. QED
    BY <2>1, <2>2, <2>3, <2>4 DEF MinPrioIsMinimal
<1>11. TaskCountIsExact'
  <2>1. task_cnt = Total + IF running = NULL THEN 0 ELSE 1
    BY DEF IInv, TaskCountIsExact, Total
  <2>2. task_cnt' = Total' + IF running' = NULL THEN 0 ELSE 1
    BY <2>1, <1>4, <1>5 DEF gp_task_queue_ins
  <2>3. QED
    BY <2>2 DEF TaskCountIsExact, Total
<1>12. QED
  BY <1>7, <1>8, <1>9, <1>10, <1>11 DEF IInv

(* The first half of gp_task_queue_process() keeps the invariant.          *)
LEMMA BeginStep ==
  ASSUME IInv, ProcessBegin
  PROVE  IInv'
<1> DEFINE p == min_prio
           n == Len(order[p])
           t == order[p][1]
<1>1. p \in Prios /\ p # GP_TASK_NONE_PRIO
  BY DEF ProcessBegin, IInv, TypeOK
<1>2. order[p] # <<>>
  BY <1>1 DEF ProcessBegin, IInv, MinPrioIsMinimal
<1>3. /\ order' \in [Prios -> Seq(Tasks)]
      /\ \A q \in Prios \ {p} : order'[q] = order[q]
      /\ n \in Nat /\ n >= 1
      /\ Len(order'[p]) = n - 1
      /\ \A i \in 1 .. n - 1 : order'[p][i] = order[p][i + 1]
      /\ t \in Tasks
      /\ Total' \in Nat /\ Total = Total' + 1
  BY <1>1, <1>2, OrderTail DEF ProcessBegin, IInv, TypeOK
<1>4. head[p] = t
  BY <1>1, <1>3 DEF IInv, ListsAreLinked, ListIsLinked
<1>5. /\ running = NULL /\ running' = t /\ t # NULL
      /\ task_list' = p
      /\ UNCHANGED <<queued, task_cnt, min_prio>>
  BY <1>3, <1>4, TaskAssumption DEF ProcessBegin
<1>6. /\ TaskPrio[t] = p /\ queued[t]
      /\ \A j \in 1 .. n : t = order[p][j] => j = 1
  BY <1>1, <1>3 DEF IInv, QueuedIsAccurate
<1>7. TypeOK'
  <2>1. p \in Lists /\ cnt[p] = n
    BY <1>1 DEF Lists, IInv, ListsAreLinked, ListIsLinked
  <2>2. cnt' \in [Lists -> Nat]
    BY <2>1, <1>3 DEF ProcessBegin, gp_dlist_pop_head, IInv, TypeOK
  <2>3. next[t] \in Tasks \cup {NULL}
    BY <1>3 DEF IInv, TypeOK
  <2>4. /\ head' \in [Lists -> Tasks \cup {NULL}]
        /\ tail' \in [Lists -> Tasks \cup {NULL}]
        /\ prev' \in [Tasks -> Tasks \cup {NULL}]
        /\ next' \in [Tasks -> Tasks \cup {NULL}]
    BY <2>1, <2>3, <1>4 DEF ProcessBegin, gp_dlist_pop_head, IInv, TypeOK
  <2>5. QED
    BY <2>2, <2>4, <1>1, <1>3, <1>5 DEF IInv, TypeOK
<1>8. ListsAreLinked'
  BY <1>1, <1>2, PopKeepsLinked DEF IInv, ProcessBegin
<1>9. QueuedIsAccurate'
  <2>1. ASSUME NEW q \in Prios, NEW i \in 1 .. Len(order'[q])
        PROVE  /\ TaskPrio[order'[q][i]] = q
               /\ queued'[order'[q][i]]
               /\ order'[q][i] # running'
               /\ \A j \in 1 .. Len(order'[q]) : order'[q][i] = order'[q][j] => i = j
    <3>1. CASE q # p
      <4>1. order'[q] = order[q]
        BY <3>1, <1>3
      <4>2. /\ TaskPrio[order[q][i]] = q
            /\ queued[order[q][i]]
            /\ \A j \in 1 .. Len(order[q]) : order[q][i] = order[q][j] => i = j
        BY <4>1 DEF IInv, QueuedIsAccurate
      <4>3. QED
        BY <4>1, <4>2, <3>1, <1>5, <1>6
    <3>2. CASE q = p
      <4>1. /\ i + 1 \in 1 .. n /\ i + 1 # 1
            /\ order'[p][i] = order[p][i + 1]
        BY <3>2, <1>3
      <4>2. /\ TaskPrio[order[p][i + 1]] = p
            /\ queued[order[p][i + 1]]
            /\ \A j \in 1 .. n : order[p][i + 1] = order[p][j] => i + 1 = j
        BY <4>1, <1>1 DEF IInv, QueuedIsAccurate
      <4>3. ASSUME NEW j \in 1 .. Len(order'[p]), order'[p][i] = order'[p][j]
            PROVE  i = j
        <5>0. j \in 1 .. n - 1
          BY <1>3
        <5>1. j + 1 \in 1 .. n
          BY <5>0, <1>3
        <5>2. i + 1 = j + 1
          <6>1. order'[p][j] = order[p][j + 1]
            BY <5>0, <1>3
          <6>2. order[p][i + 1] = order[p][j + 1]
            BY <6>1, <4>1, <4>3
          <6>3. QED
            BY <6>2, <5>1, <4>2
        <5>3. QED
          BY <5>0, <5>2, <3>2, <1>3
      <4>4. order[p][i + 1] # t
        BY <4>1, <1>6
      <4>5. QED
        BY <4>1, <4>2, <4>3, <4>4, <3>2, <1>5
    <3>3. QED
      BY <3>1, <3>2
  <2>2. ASSUME NEW u \in Tasks, queued'[u], u # t
        PROVE  \E q \in Prios : \E i \in 1 .. Len(order'[q]) : order'[q][i] = u
    <3>0. PICK q \in Prios : \E i \in 1 .. Len(order[q]) : order[q][i] = u
      BY <2>2, <1>5, TaskAssumption DEF IInv, QueuedIsAccurate
    <3>1. PICK i \in 1 .. Len(order[q]) : order[q][i] = u
      BY <3>0
    <3>2. CASE q # p
      BY <3>1, <3>2, <1>3
    <3>3. CASE q = p
      <4>1. i # 1
        BY <3>1, <3>3, <2>2
      <4>2. i - 1 \in 1 .. n - 1 /\ (i - 1) + 1 = i
        BY <4>1, <3>3, <1>3
      <4>3. order'[p][i - 1] = u
        BY <4>2, <3>1, <3>3, <1>3
      <4>4. QED
        BY <4>2, <4>3, <1>1, <1>3
    <3>4. QED
      BY <3>2, <3>3
  <2>3. QED
    BY <2>1, <2>2, <1>1, <1>5, <1>6 DEF QueuedIsAccurate
<1>10. MinPrioIsMinimal'
  <2>1. \A q \in Prios : order'[q] # <<>> => p <= q
    <3>1. \A q \in Prios : order'[q] # <<>> => order[q] # <<>>
      BY <1>2, <1>3
    <3>2. QED
      BY <3>1 DEF IInv, MinPrioIsMinimal
  <2>2. p <= p
    BY <1>1 DEF Prios, GP_TASK_MIN_PRIO, GP_TASK_MAX_PRIO
  <2>3. QED
    BY <2>1, <2>2, <1>1, <1>5 DEF MinPrioIsMinimal
<1>11. TaskCountIsExact'
  <2>1. task_cnt = Total
    BY <1>3, <1>5 DEF IInv, TaskCountIsExact, Total
  <2>2. task_cnt' = Total' + IF running' = NULL THEN 0 ELSE 1
    BY <2>1, <1>3, <1>5
  <2>3. QED
    BY <2>2 DEF TaskCountIsExact, Total
<1>12. QED
  BY <1>7, <1>8, <1>9, <1>10, <1>11 DEF IInv

(* A callback that returns zero keeps the invariant.                       *)
LEMMA DoneStep ==
  ASSUME IInv, ProcessDone
  PROVE  IInv'
<1>1. /\ running \in Tasks /\ running # NULL /\ queued[running]
      /\ task_list \in Prios /\ min_prio \in Prios
      /\ min_prio # GP_TASK_NONE_PRIO
  BY DEF ProcessDone, IInv, TypeOK, QueuedIsAccurate, MinPrioIsMinimal
<1>2. /\ UNCHANGED <<dlist, order>> /\ running' = NULL /\ task_list' = NULL
      /\ queued' = [queued EXCEPT ![running] = FALSE]
      /\ task_cnt' = task_cnt - 1
      /\ min_prio' = find_queue_min_prio(min_prio, cnt)
  BY DEF ProcessDone, FinishTask
<1>3. \A q \in Prios : Len(order[q]) \in Nat /\ (order[q] # <<>> <=> cnt[q] # 0)
  BY EmptyFacts DEF IInv, TypeOK, ListsAreLinked, ListIsLinked
<1>4. /\ min_prio' \in Prios \cup {GP_TASK_NONE_PRIO}
      /\ min_prio' # GP_TASK_NONE_PRIO => cnt[min_prio'] # 0
      /\ min_prio' # min_prio =>
           \A q \in Prios : cnt[q] # 0 => min_prio' # GP_TASK_NONE_PRIO /\ min_prio' <= q
  <2>1. cnt \in [Lists -> Nat]
    BY DEF IInv, TypeOK
  <2>2. QED
    BY <2>1, <1>1, <1>2, FindMinPrio
<1>5. Total \in Nat /\ task_cnt = Total + 1
  <2>1. Total \in Nat
    BY TotalIsNat DEF IInv, TypeOK
  <2>2. task_cnt = Total + IF running = NULL THEN 0 ELSE 1
    BY DEF IInv, TaskCountIsExact, Total
  <2>3. QED
    BY <2>1, <2>2, <1>1
<1>6. TypeOK'
  BY <1>1, <1>2, <1>4, <1>5 DEF IInv, TypeOK, dlist
<1>7. ListsAreLinked'
  BY <1>2 DEF IInv, ListsAreLinked, ListIsLinked, dlist
<1>8. QueuedIsAccurate'
  <2>1. \A u \in Tasks : u # running => queued'[u] = queued[u]
    BY <1>1, <1>2 DEF IInv, TypeOK
  <2>2. ~ queued'[running]
    BY <1>1, <1>2 DEF IInv, TypeOK
  <2>3. \A q \in Prios : \A i \in 1 .. Len(order[q]) : order[q][i] \in Tasks \ {NULL}
    BY TaskAssumption DEF IInv, TypeOK
  <2>4. ASSUME NEW q \in Prios, NEW i \in 1 .. Len(order[q])
        PROVE  /\ TaskPrio[order[q][i]] = q
               /\ queued'[order[q][i]]
               /\ order[q][i] # NULL
               /\ \A j \in 1 .. Len(order[q]) : order[q][i] = order[q][j] => i = j
    BY <2>1, <2>3 DEF IInv, QueuedIsAccurate
  <2>5. \A u \in Tasks : queued'[u] =>
          \E q \in Prios : \E i \in 1 .. Len(order[q]) : order[q][i] = u
    BY <2>1, <2>2 DEF IInv, QueuedIsAccurate
  <2>6. QED
    BY <2>4, <2>5, <1>2 DEF QueuedIsAccurate
<1>9. MinPrioIsMinimal'
  <2>1. min_prio' # GP_TASK_NONE_PRIO => order[min_prio'] # <<>>
    BY <1>3, <1>4
  <2>2. \A q \in Prios : order[q] # <<>> => min_prio' # GP_TASK_NONE_PRIO /\ min_prio' <= q
    BY <1>1, <1>3, <1>4 DEF IInv, MinPrioIsMinimal
  <2>3. QED
    BY <2>1, <2>2, <1>2 DEF MinPrioIsMinimal
<1>10. TaskCountIsExact'
  <2>1. task_cnt' = Total + 0
    BY <1>2, <1>5
  <2>2. QED
    BY <2>1, <1>2 DEF TaskCountIsExact, Total
<1>11. QED
  BY <1>6, <1>7, <1>8, <1>9, <1>10 DEF IInv

(* A callback that asks to be run again keeps the invariant.               *)
LEMMA YieldStep ==
  ASSUME IInv, ProcessYield
  PROVE  IInv'
<1> DEFINE t == running
           p == task_list
           n == Len(order[p])
<1>1. t \in Tasks /\ t # NULL /\ queued[t] /\ p \in Prios /\ TaskPrio[t] = p
  BY DEF ProcessYield, IInv, TypeOK, QueuedIsAccurate
<1>2. \A q \in Prios : \A i \in 1 .. Len(order[q]) : order[q][i] # t /\ order[q][i] \in Tasks \ {NULL}
  <2>1. \A q \in Prios : \A i \in 1 .. Len(order[q]) : order[q][i] \in Tasks
    BY DEF IInv, TypeOK
  <2>2. \A q \in Prios : \A i \in 1 .. Len(order[q]) : order[q][i] # running
    BY DEF IInv, QueuedIsAccurate
  <2>3. QED
    BY <2>1, <2>2, TaskAssumption
<1>3. /\ order' = [order EXCEPT ![p] = Append(@, t)]
      /\ gp_dlist_push_tail(p, t)
      /\ running' = NULL /\ task_list' = NULL
      /\ UNCHANGED <<queued, task_cnt, min_prio>>
  BY DEF ProcessYield
<1>4. /\ order' \in [Prios -> Seq(Tasks)]
      /\ \A q \in Prios \ {p} : order'[q] = order[q]
      /\ n \in Nat
      /\ Len(order'[p]) = n + 1
      /\ order'[p] # <<>>
      /\ \A i \in 1 .. n : order'[p][i] = order[p][i]
      /\ order'[p][n + 1] = t
      /\ Total \in Nat /\ Total' = Total + 1
  BY <1>1, <1>3, OrderAppend DEF IInv, TypeOK
<1>5. TypeOK'
  BY <1>1, <1>3, <1>4, PushType DEF IInv, TypeOK
<1>6. ListsAreLinked'
  BY <1>1, <1>2, <1>3, PushKeepsLinked DEF IInv
<1>7. QueuedIsAccurate'
  <2>1. ASSUME NEW q \in Prios, NEW i \in 1 .. Len(order'[q])
        PROVE  /\ TaskPrio[order'[q][i]] = q
               /\ queued[order'[q][i]]
               /\ order'[q][i] # NULL
               /\ \A j \in 1 .. Len(order'[q]) : order'[q][i] = order'[q][j] => i = j
    <3>1. CASE q # p
      <4>1. order'[q] = order[q]
        BY <3>1, <1>4
      <4>2. /\ TaskPrio[order[q][i]] = q
            /\ queued[order[q][i]]
            /\ \A j \in 1 .. Len(order[q]) : order[q][i] = order[q][j] => i = j
        BY <4>1 DEF IInv, QueuedIsAccurate
      <4>3. QED
        BY <4>1, <4>2, <1>2
    <3>2. CASE q = p /\ i \in 1 .. n
      <4>1. order'[q][i] = order[p][i] /\ order[p][i] \in Tasks \ {t, NULL}
        BY <3>2, <1>1, <1>2, <1>4
      <4>2. \A j \in 1 .. n + 1 : order[p][i] = order'[p][j] => i = j
        <5>1. \A j \in 1 .. n : order[p][i] = order[p][j] => i = j
          BY <3>2, <1>1 DEF IInv, QueuedIsAccurate
        <5>2. order'[p][n + 1] # order[p][i]
          BY <4>1, <1>4
        <5>3. QED
          BY <5>1, <5>2, <1>4
      <4>3. TaskPrio[order[p][i]] = p /\ queued[order[p][i]]
        BY <3>2, <1>1 DEF IInv, QueuedIsAccurate
      <4>4. QED
        BY <4>1, <4>2, <4>3, <3>2, <1>4
    <3>3. CASE q = p /\ i = n + 1
      BY <3>3, <1>1, <1>2, <1>4
    <3>4. QED
      BY <3>1, <3>2, <3>3, <1>4
  <2>2. ASSUME NEW u \in Tasks, queued[u]
        PROVE  \E q \in Prios : \E i \in 1 .. Len(order'[q]) : order'[q][i] = u
    <3>1. CASE u = t
      BY <3>1, <1>1, <1>4
    <3>2. CASE u # t
      <4>1. \E q \in Prios : \E i \in 1 .. Len(order[q]) : order[q][i] = u
        BY <3>2, <2>2 DEF IInv, QueuedIsAccurate
      <4>2. ASSUME NEW q \in Prios, NEW i \in 1 .. Len(order[q]), order[q][i] = u
            PROVE  \E j \in 1 .. Len(order'[q]) : order'[q][j] = u
        <5>1. i \in 1 .. Len(order'[q]) /\ order'[q][i] = order[q][i]
          BY <1>4
        <5>2. QED
          BY <5>1, <4>2
      <4>3. QED
        BY <4>1, <4>2
    <3>3. QED
      BY <3>1, <3>2
  <2>3. QED
    BY <2>1, <2>2, <1>3 DEF QueuedIsAccurate
<1>8. MinPrioIsMinimal'
  <2>1. min_prio # GP_TASK_NONE_PRIO /\ min_prio <= p
    BY <1>1 DEF IInv, MinPrioIsMinimal
  <2>2. \A q \in Prios : order'[q] # <<>> => min_prio <= q
    BY <2>1, <1>1, <1>4 DEF IInv, MinPrioIsMinimal
  <2>3. order'[min_prio] # <<>>
    BY <2>1, <1>4 DEF IInv, MinPrioIsMinimal, TypeOK
  <2>4. QED
    BY <2>1, <2>2, <2>3, <1>3 DEF MinPrioIsMinimal
<1>9. TaskCountIsExact'
  <2>1. task_cnt = Total + IF running = NULL THEN 0 ELSE 1
    BY DEF IInv, TaskCountIsExact, Total
  <2>2. task_cnt' = Total' + IF running' = NULL THEN 0 ELSE 1
    BY <2>1, <1>1, <1>3, <1>4
  <2>3. QED
    BY <2>2 DEF TaskCountIsExact, Total
<1>10. QED
  BY <1>5, <1>6, <1>7, <1>8, <1>9 DEF IInv

(* Every step keeps the invariant.                                         *)
LEMMA NextStep == IInv /\ [Next]_vars => IInv'
<1> SUFFICES ASSUME IInv, [Next]_vars PROVE IInv'
  OBVIOUS
<1>1. ASSUME NEW t \in Tasks, gp_task_queue_ins(t) PROVE IInv'
  BY <1>1, InsStep
<1>2. CASE ProcessBegin
  BY <1>2, BeginStep
<1>3. CASE ProcessDone
  BY <1>3, DoneStep
<1>4. CASE ProcessYield
  BY <1>4, YieldStep
<1>5. CASE UNCHANGED vars
  <2>1. /\ head' = head /\ tail' = tail /\ cnt' = cnt /\ next' = next /\ prev' = prev
        /\ queued' = queued /\ task_cnt' = task_cnt /\ min_prio' = min_prio
        /\ running' = running /\ task_list' = task_list /\ order' = order
    BY <1>5 DEF vars, dlist
  <2>2. TypeOK'
    BY <2>1 DEF IInv, TypeOK
  <2>3. ListsAreLinked'
    BY <2>1 DEF IInv, ListsAreLinked, ListIsLinked
  <2>4. QueuedIsAccurate'
    BY <2>1 DEF IInv, QueuedIsAccurate
  <2>5. MinPrioIsMinimal'
    BY <2>1 DEF IInv, MinPrioIsMinimal
  <2>6. TaskCountIsExact'
    BY <2>1 DEF IInv, TaskCountIsExact
  <2>7. QED
    BY <2>2, <2>3, <2>4, <2>5, <2>6 DEF IInv
<1>6. QED
  BY <1>1, <1>2, <1>3, <1>4, <1>5 DEF Next

-----------------------------------------------------------------------------
(* The theorems.                                                           *)

(* The conjunction of the invariants below is inductive: however callbacks *)
(* and the main program interleave their insertions with the processing of *)
(* gp_task_queue_process(), the queue's fields stay consistent.            *)
THEOREM InductiveInvariant == Spec => []IInv
<1>1. Init => IInv
  BY InitInv
<1>2. IInv /\ [Next]_vars => IInv'
  BY NextStep
<1>3. QED
  BY <1>1, <1>2, PTL DEF Spec

(* Every field keeps its type: no list loses its count below zero.         *)
THEOREM TypeCorrect == Spec => []TypeOK
BY InductiveInvariant, PTL DEF IInv

(* Both directions of pointers of every list spell the tasks in it.        *)
THEOREM ListsStayLinked == Spec => []ListsAreLinked
BY InductiveInvariant, PTL DEF IInv

(* task->queued is set exactly for the tasks in a list or running, and no  *)
(* task is in two places.                                                  *)
THEOREM QueuedStaysAccurate == Spec => []QueuedIsAccurate
BY InductiveInvariant, PTL DEF IInv

(* The cached min_prio is never stale, although a callback's insertions    *)
(* change it while gp_task_queue_process() holds on to its own list.       *)
THEOREM MinPrioStaysMinimal == Spec => []MinPrioIsMinimal
BY InductiveInvariant, PTL DEF IInv

(* The count the backend's task timer is started and stopped on is exact.  *)
THEOREM TaskCountStaysExact == Spec => []TaskCountIsExact
BY InductiveInvariant, PTL DEF IInv

(* gp_task_queue_process() never takes a null pointer for a task, and runs *)
(* one whenever any is counted: min_prio is not stale when it is called.   *)
THEOREM DispatchAlwaysFindsATask == Spec => []DispatchFindsATask
<1>1. IInv => DispatchFindsATask
  <2> SUFFICES ASSUME IInv, running = NULL
               PROVE  /\ task_cnt > 0 => min_prio # GP_TASK_NONE_PRIO
                      /\ min_prio # GP_TASK_NONE_PRIO => head[min_prio] # NULL
    BY DEF DispatchFindsATask
  <2>1. ASSUME task_cnt > 0 PROVE min_prio # GP_TASK_NONE_PRIO
    <3>1. \A p \in Prios : Len(order[p]) \in Nat /\ (order[p] = <<>> <=> Len(order[p]) = 0)
      BY EmptyFacts DEF IInv, TypeOK
    <3>2. PICK p \in Prios : order[p] # <<>>
      <4> SUFFICES ASSUME \A p \in Prios : Len(order[p]) = 0 PROVE FALSE
        BY <3>1
      <4>1. {1, 2, 3} \subseteq Prios
        BY DEF Prios, GP_TASK_MIN_PRIO, GP_TASK_MAX_PRIO
      <4>2. Len(order[1]) = 0 /\ Len(order[2]) = 0 /\ Len(order[3]) = 0
        BY <4>1
      <4>3. task_cnt = 0
        BY <4>2 DEF IInv, TaskCountIsExact
      <4>4. QED
        BY <2>1, <4>3
    <3>3. QED
      BY <3>2 DEF IInv, MinPrioIsMinimal
  <2>2. ASSUME min_prio # GP_TASK_NONE_PRIO PROVE head[min_prio] # NULL
    <3>1. min_prio \in Prios /\ order[min_prio] # <<>>
      BY <2>2 DEF IInv, TypeOK, MinPrioIsMinimal
    <3>2. order[min_prio] \in Seq(Tasks)
      BY <3>1 DEF IInv, TypeOK
    <3>3. Len(order[min_prio]) >= 1 /\ order[min_prio][1] \in Tasks
      BY <3>1, <3>2, TailFacts
    <3>4. head[min_prio] = order[min_prio][1]
      BY <3>1, <3>3 DEF IInv, ListsAreLinked, ListIsLinked
    <3>5. QED
      BY <3>3, <3>4, TaskAssumption
  <2>3. QED
    BY <2>1, <2>2
<1>2. QED
  BY <1>1, InductiveInvariant, PTL

-----------------------------------------------------------------------------
(* The pointers implement the abstract queue.                              *)

(* A task not marked queued does not wait in the abstract queue.           *)
LEMMA SchedWaiting ==
  ASSUME IInv, NEW t \in Tasks, ~ queued[t]
  PROVE  ~ Sched!Waiting(t)
BY DEF IInv, QueuedIsAccurate, Sched!Waiting

(* Each step is a step of the abstract queue or none.                      *)
LEMMA SchedStep == IInv /\ [Next]_vars => [Sched!Next]_(Sched!vars)
<1> SUFFICES ASSUME IInv, [Next]_vars PROVE Sched!Next \/ UNCHANGED <<order, running>>
  BY DEF Sched!vars
<1>1. ASSUME NEW t \in Tasks, gp_task_queue_ins(t) PROVE Sched!Insert(t)
  <2>1. ~ queued[t] /\ t # running
    BY <1>1, TaskAssumption DEF IInv, QueuedIsAccurate, gp_task_queue_ins
  <2>2. ~ Sched!Waiting(t)
    BY <2>1, SchedWaiting
  <2>3. QED
    BY <1>1, <2>1, <2>2 DEF Sched!Insert, gp_task_queue_ins
<1>2. ASSUME ProcessBegin PROVE Sched!Run(min_prio) /\ min_prio \in Prios
  <2>1. min_prio \in Prios /\ running = NULL /\ order[min_prio] # <<>>
    BY <1>2 DEF ProcessBegin, IInv, TypeOK, MinPrioIsMinimal
  <2>2. head[min_prio] = Head(order[min_prio])
    <3>1. order[min_prio] \in Seq(Tasks)
      BY <2>1 DEF IInv, TypeOK
    <3>2. Len(order[min_prio]) >= 1 /\ Head(order[min_prio]) = order[min_prio][1]
      BY <2>1, <3>1, TailFacts
    <3>3. QED
      BY <2>1, <3>2 DEF IInv, ListsAreLinked, ListIsLinked
  <2>3. \A q \in Prios : order[q] # <<>> => min_prio <= q
    BY DEF IInv, MinPrioIsMinimal
  <2>4. QED
    BY <1>2, <2>1, <2>2, <2>3 DEF ProcessBegin, Sched!Run
<1>3. ASSUME ProcessDone PROVE Sched!Done
  BY <1>3 DEF ProcessDone, Sched!Done
<1>4. ASSUME ProcessYield PROVE Sched!Yield
  BY <1>4 DEF ProcessYield, Sched!Yield, IInv, QueuedIsAccurate
<1>5. CASE UNCHANGED vars
  BY <1>5 DEF vars
<1>6. QED
  BY <1>1, <1>2, <1>3, <1>4, <1>5 DEF Next, Sched!Next

(* The queue of linked lists, counters and a cached minimum implements one *)
(* FIFO per priority: the task gp_task_queue_process() runs is always the  *)
(* one inserted first among those of the lowest numbered priority.         *)
THEOREM Refinement == Spec => ImplementsSched
<1>1. Init => Sched!Init
  BY DEF Init, Sched!Init
<1>2. IInv /\ [Next]_vars => [Sched!Next]_(Sched!vars)
  BY SchedStep
<1>3. QED
  BY <1>1, <1>2, InductiveInvariant, PTL DEF Spec, ImplementsSched, Sched!Spec

=============================================================================
