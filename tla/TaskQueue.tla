------------------------------ MODULE TaskQueue ------------------------------
(***************************************************************************)
(* The task queue of libs/input/gp_task.c, on the pointers of the doubly   *)
(* linked lists of include/utils/gp_list.h it is made of.  The program is  *)
(* single threaded: what interleaves is a task callback with the calls it  *)
(* makes back into the queue, so gp_task_queue_process() is two actions,   *)
(* one up to the call of task->callback() and one after it returned, and   *)
(* any other operation may happen in between.                              *)
(*                                                                         *)
(* cnt is an unsigned int: the value it wraps to below zero is modelled    *)
(* as -1, which the code, too, only tells from zero.                       *)
(***************************************************************************)
EXTENDS Integers, Sequences

CONSTANTS
  Tasks,       \* the gp_task structures, allocated and set up by the user
  TaskPrio,    \* TaskPrio[t]: the value of the three bit field t->prio
  NULL         \* the null pointer

GP_TASK_NONE_PRIO == 0
GP_TASK_MIN_PRIO == 1
GP_TASK_MAX_PRIO == 3
Prios == GP_TASK_MIN_PRIO .. GP_TASK_MAX_PRIO

ASSUME TaskAssumption ==
  /\ NULL \notin Tasks
  /\ TaskPrio \in [Tasks -> 0 .. 7]

(* queues[p - GP_TASK_MIN_PRIO] is called list p here.  List Behind is the *)
(* memory right after the array, where a wrong index ends up.              *)
Behind == GP_TASK_MAX_PRIO + 1
Lists == Prios \cup {Behind}

VARIABLES
  head, tail, cnt,      \* the gp_dlist of each list
  next, prev,           \* the gp_dlist_head embedded in each task
  queued,               \* task->queued
  task_cnt, min_prio,   \* self->task_cnt, self->min_prio
  running,              \* the task whose callback is on the stack, or NULL
  task_list,            \* the local of gp_task_queue_process() while it is
  order                 \* auxiliary: the tasks in list p, oldest first

dlist == <<head, tail, cnt, next, prev>>
vars == <<dlist, queued, task_cnt, min_prio, running, task_list, order>>

Init ==
  /\ head = [l \in Lists |-> NULL]
  /\ tail = [l \in Lists |-> NULL]
  /\ cnt = [l \in Lists |-> 0]
  /\ next = [t \in Tasks |-> NULL]
  /\ prev = [t \in Tasks |-> NULL]
  /\ queued = [t \in Tasks |-> FALSE]
  /\ task_cnt = 0
  /\ min_prio = GP_TASK_NONE_PRIO
  /\ running = NULL
  /\ task_list = NULL
  /\ order = [p \in Prios |-> <<>>]

-----------------------------------------------------------------------------
(* Mutated forms of the definitions below: bugs the properties rule out.   *)

(* The old tail is not linked to the new entry.                            *)
PushForgetsNext(l, t) ==
  /\ next' = [next EXCEPT ![t] = NULL]
  /\ head' = [head EXCEPT ![l] = IF @ = NULL THEN t ELSE @]
  /\ prev' = [prev EXCEPT ![t] = tail[l]]
  /\ tail' = [tail EXCEPT ![l] = t]
  /\ cnt' = [cnt EXCEPT ![l] = @ + 1]

(* The new head keeps pointing back to the entry that was popped.          *)
PopForgetsPrev(l) ==
  LET ret == head[l] IN
  /\ tail' = IF next[ret] = NULL THEN [tail EXCEPT ![l] = NULL] ELSE tail
  /\ head' = [head EXCEPT ![l] = next[ret]]
  /\ prev' = prev
  /\ cnt' = [cnt EXCEPT ![l] = @ - 1]
  /\ UNCHANGED next

(* The scan stops one queue early.                                         *)
ScanStopsEarly(min, c) ==
  LET nonempty == {p \in GP_TASK_MIN_PRIO .. GP_TASK_MAX_PRIO - 1 : c[p] # 0} IN
  IF min = GP_TASK_NONE_PRIO \/ c[min] # 0 THEN min
  ELSE IF nonempty = {} THEN GP_TASK_NONE_PRIO
  ELSE CHOOSE p \in nonempty : \A q \in nonempty : p <= q

(* Insertion trusts the cached minimum once there is one.                  *)
LowerMinIgnored(p) == IF min_prio = GP_TASK_NONE_PRIO THEN p ELSE min_prio

(* A task that finished is left marked as queued.                          *)
FinishKeepsQueued(t) ==
  /\ task_cnt' = task_cnt - 1
  /\ UNCHANGED queued

(* A task that finished stays counted.                                     *)
FinishStaysCounted(t) ==
  /\ queued' = [queued EXCEPT ![t] = FALSE]
  /\ UNCHANGED task_cnt

-----------------------------------------------------------------------------
(* gp_dlist_push_tail(): entry->next = NULL comes before tail->next = t.   *)
gp_dlist_push_tail(l, t) ==
  /\ next' = IF head[l] = NULL THEN [next EXCEPT ![t] = NULL]
                               ELSE [next EXCEPT ![t] = NULL, ![tail[l]] = t]
  /\ head' = [head EXCEPT ![l] = IF @ = NULL THEN t ELSE @]
  /\ prev' = [prev EXCEPT ![t] = tail[l]]
  /\ tail' = [tail EXCEPT ![l] = t]
  /\ cnt' = [cnt EXCEPT ![l] = @ + 1]

(* gp_dlist_pop_head() of a list that is not empty.                        *)
gp_dlist_pop_head(l) ==
  LET ret == head[l] IN
  /\ tail' = IF next[ret] = NULL THEN [tail EXCEPT ![l] = NULL] ELSE tail
  /\ head' = [head EXCEPT ![l] = next[ret]]
  /\ prev' = IF next[ret] = NULL THEN prev ELSE [prev EXCEPT ![next[ret]] = NULL]
  /\ cnt' = [cnt EXCEPT ![l] = @ - 1]
  /\ UNCHANGED next

(* gp_dlist_rem() believes the caller about the list.                      *)
gp_dlist_rem(l, t) ==
  /\ next' = IF prev[t] = NULL THEN next ELSE [next EXCEPT ![prev[t]] = next[t]]
  /\ head' = IF prev[t] = NULL THEN [head EXCEPT ![l] = next[t]] ELSE head
  /\ prev' = IF next[t] = NULL THEN prev ELSE [prev EXCEPT ![next[t]] = prev[t]]
  /\ tail' = IF next[t] = NULL THEN [tail EXCEPT ![l] = prev[t]] ELSE tail
  /\ cnt' = [cnt EXCEPT ![l] = IF @ = 0 THEN -1 ELSE @ - 1]

(* The cached minimum while its queue has tasks, a scan otherwise.         *)
find_queue_min_prio(min, c) ==
  LET nonempty == {p \in Prios : c[p] # 0} IN
  IF min = GP_TASK_NONE_PRIO \/ c[min] # 0 THEN min
  ELSE IF nonempty = {} THEN GP_TASK_NONE_PRIO
  ELSE CHOOSE p \in nonempty : \A q \in nonempty : p <= q

InsertMinPrio(p) ==
  IF min_prio = GP_TASK_NONE_PRIO \/ p < min_prio THEN p ELSE min_prio

gp_task_queue_ins(t) ==
  /\ ~ queued[t]
  /\ TaskPrio[t] \in Prios
  /\ gp_dlist_push_tail(TaskPrio[t], t)
  /\ task_cnt' = task_cnt + 1
  /\ min_prio' = InsertMinPrio(TaskPrio[t])
  /\ queued' = [queued EXCEPT ![t] = TRUE]
  /\ order' = [order EXCEPT ![TaskPrio[t]] = Append(@, t)]
  /\ UNCHANGED <<running, task_list>>

(* The list handed to gp_dlist_rem() is indexed by the priority itself,    *)
(* where every other operation subtracts GP_TASK_MIN_PRIO.                 *)
gp_task_queue_rem(t) ==
  /\ queued[t]
  /\ gp_dlist_rem(TaskPrio[t] + 1, t)
  /\ task_cnt' = task_cnt - 1
  /\ min_prio' = find_queue_min_prio(min_prio, cnt')
  /\ queued' = [queued EXCEPT ![t] = FALSE]
  /\ order' = [order EXCEPT ![TaskPrio[t]] = SelectSeq(@, LAMBDA u : u # t)]
  /\ UNCHANGED <<running, task_list>>

(* gp_task_queue_process() up to the call of the callback.                 *)
ProcessBegin ==
  /\ running = NULL
  /\ min_prio # GP_TASK_NONE_PRIO
  /\ head[min_prio] # NULL
  /\ gp_dlist_pop_head(min_prio)
  /\ running' = head[min_prio]
  /\ task_list' = min_prio
  /\ order' = [order EXCEPT ![min_prio] = Tail(@)]
  /\ UNCHANGED <<queued, task_cnt, min_prio>>

FinishTask(t) ==
  /\ task_cnt' = task_cnt - 1
  /\ queued' = [queued EXCEPT ![t] = FALSE]

(* The callback returned zero.                                             *)
ProcessDone ==
  /\ running # NULL
  /\ FinishTask(running)
  /\ min_prio' = find_queue_min_prio(min_prio, cnt)
  /\ running' = NULL
  /\ task_list' = NULL
  /\ UNCHANGED <<dlist, order>>

(* The callback returned non-zero.                                         *)
ProcessYield ==
  /\ running # NULL
  /\ gp_dlist_push_tail(task_list, running)
  /\ order' = [order EXCEPT ![task_list] = Append(@, running)]
  /\ running' = NULL
  /\ task_list' = NULL
  /\ UNCHANGED <<queued, task_cnt, min_prio>>

(* A program that inserts, from anywhere, and lets tasks finish.           *)
Next ==
  \/ \E t \in Tasks : gp_task_queue_ins(t)
  \/ ProcessBegin
  \/ ProcessDone
  \/ ProcessYield

(* A program that also removes tasks, from outside of callbacks only.      *)
NextRem ==
  \/ Next
  \/ \E t \in Tasks : running = NULL /\ gp_task_queue_rem(t)

(* The main loop dispatches while there are tasks (backend_task_timer in   *)
(* libs/backends/gp_backend.c) and a callback is a short amount of work    *)
(* that returns; whether it yields, and who inserts, is up to the program. *)
Fairness ==
  /\ WF_vars(ProcessBegin)
  /\ WF_vars(ProcessDone \/ ProcessYield)

Spec == Init /\ [][Next]_vars
FairSpec == Spec /\ Fairness
SpecRem == Init /\ [][NextRem]_vars

-----------------------------------------------------------------------------
TypeOK ==
  /\ head \in [Lists -> Tasks \cup {NULL}]
  /\ tail \in [Lists -> Tasks \cup {NULL}]
  /\ cnt \in [Lists -> Nat]
  /\ next \in [Tasks -> Tasks \cup {NULL}]
  /\ prev \in [Tasks -> Tasks \cup {NULL}]
  /\ queued \in [Tasks -> BOOLEAN]
  /\ task_cnt \in Nat
  /\ min_prio \in Prios \cup {GP_TASK_NONE_PRIO}
  /\ running \in Tasks \cup {NULL}
  /\ task_list \in Prios \cup {NULL}
  /\ order \in [Prios -> Seq(Tasks)]

(* The pointers of each list, followed forward from head or backward from  *)
(* tail, spell the tasks in it, oldest first, and cnt is how many they are *)
(* -- whatever calls callbacks made.                                       *)
ListIsLinked(p) ==
  LET w == order[p]  n == Len(w) IN
  /\ cnt[p] = n
  /\ n = 0 => head[p] = NULL /\ tail[p] = NULL
  /\ n > 0 => head[p] = w[1] /\ tail[p] = w[n]
  /\ \A i \in 1 .. n :
       /\ next[w[i]] = IF i = n THEN NULL ELSE w[i + 1]
       /\ prev[w[i]] = IF i = 1 THEN NULL ELSE w[i - 1]

ListsAreLinked == \A p \in Prios : ListIsLinked(p)

(* A task is marked queued exactly while it is in the list of its own      *)
(* priority or its callback runs, and is never in two places.              *)
QueuedIsAccurate ==
  /\ \A p \in Prios : \A i \in 1 .. Len(order[p]) :
       /\ TaskPrio[order[p][i]] = p
       /\ queued[order[p][i]]
       /\ order[p][i] # running
       /\ \A j \in 1 .. Len(order[p]) : order[p][i] = order[p][j] => i = j
  /\ \A t \in Tasks : queued[t] =>
       \/ t = running
       \/ \E p \in Prios : \E i \in 1 .. Len(order[p]) : order[p][i] = t
  /\ running # NULL =>
       queued[running] /\ TaskPrio[running] = task_list /\ task_list \in Prios

(* gp_task_queue_head_prio() is the priority to run next, NONE exactly     *)
(* when there is no task; the task that runs keeps its priority in it.     *)
MinPrioIsMinimal ==
  /\ \A p \in Prios : order[p] # <<>> => min_prio # GP_TASK_NONE_PRIO /\ min_prio <= p
  /\ running # NULL => min_prio # GP_TASK_NONE_PRIO /\ min_prio <= task_list
  /\ min_prio # GP_TASK_NONE_PRIO =>
       order[min_prio] # <<>> \/ (running # NULL /\ task_list = min_prio)

(* task_cnt, on which the backend starts and stops its task timer, counts  *)
(* the tasks of every list and the one that runs.                          *)
TaskCountIsExact ==
  task_cnt = Len(order[1]) + Len(order[2]) + Len(order[3])
             + IF running = NULL THEN 0 ELSE 1

(* gp_task_queue_process() takes the head of list min_prio for a task      *)
(* without a look whether there is one: there always is, and while tasks   *)
(* are counted a call to it runs one.                                      *)
DispatchFindsATask ==
  running = NULL =>
    /\ task_cnt > 0 => min_prio # GP_TASK_NONE_PRIO
    /\ min_prio # GP_TASK_NONE_PRIO => head[min_prio] # NULL

(* The queue implements one FIFO per priority, lowest number first.        *)
Sched == INSTANCE TaskSched WITH waiting <- order
ImplementsSched == Sched!Spec

(* Round robin: a queued task runs unless some task of a lower numbered    *)
(* priority gets in over and over again.                                   *)
Urgent(t) == \E u \in Tasks : queued[u] /\ TaskPrio[u] < TaskPrio[t]
QueuedTaskRuns ==
  \A t \in Tasks : queued[t] ~> (running = t \/ Urgent(t))

-----------------------------------------------------------------------------
(* What doc/tasks.txt says of gp_task_queue_rem().                         *)
Linked(t) ==
  \/ \E l \in Prios : t \in {head[l], tail[l]}
  \/ \E u \in Tasks \ {t} : queued[u] /\ t \in {next[u], prev[u]}

(* "Removes a task from a queue": a task that is neither queued nor        *)
(* running cannot be reached from any list.                                *)
RemovedTaskIsUnlinked == \A t \in Tasks : ~ queued[t] => ~ Linked(t)

=============================================================================
