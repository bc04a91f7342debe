------------------------------ MODULE TaskSched ------------------------------
(***************************************************************************)
(* What the task queue of libs/input/gp_task.c promises its users          *)
(* (include/input/gp_task.h, doc/tasks.txt), without any of its pointers,  *)
(* counters or cached minima: one FIFO per priority, the head of the       *)
(* lowest numbered non-empty FIFO runs, a task that asks for more time     *)
(* goes back to the end of the FIFO it was taken from, and a task is in    *)
(* one place at a time.                                                    *)
(***************************************************************************)
EXTENDS Integers, Sequences

CONSTANTS
  Tasks,      \* the task structures the program owns
  TaskPrio,   \* the prio field each of them was set up with
  Prios,      \* the priorities the queue accepts
  NULL        \* no task

VARIABLES
  waiting,    \* waiting[p]: the tasks of priority p, in the order they run
  running     \* the task whose callback is on the stack, or NULL

vars == <<waiting, running>>

Waiting(t) == \E p \in Prios : \E i \in 1 .. Len(waiting[p]) : waiting[p][i] = t

Init ==
  /\ waiting = [p \in Prios |-> <<>>]
  /\ running = NULL

(* Anybody, callbacks included, may insert; a task that is waiting or      *)
(* running stays where it is.                                              *)
Insert(t) ==
  /\ TaskPrio[t] \in Prios
  /\ ~ Waiting(t)
  /\ t # running
  /\ waiting' = [waiting EXCEPT ![TaskPrio[t]] = Append(@, t)]
  /\ UNCHANGED running

(* The head of the lowest numbered non-empty queue is taken to run.        *)
Run(p) ==
  /\ running = NULL
  /\ waiting[p] # <<>>
  /\ \A q \in Prios : waiting[q] # <<>> => p <= q
  /\ running' = Head(waiting[p])
  /\ waiting' = [waiting EXCEPT ![p] = Tail(@)]

Done ==
  /\ running # NULL
  /\ running' = NULL
  /\ UNCHANGED waiting

Yield ==
  /\ running # NULL
  /\ waiting' = [waiting EXCEPT ![TaskPrio[running]] = Append(@, running)]
  /\ running' = NULL

Next ==
  \/ \E t \in Tasks : Insert(t)
  \/ \E p \in Prios : Run(p)
  \/ Done
  \/ Yield

Spec == Init /\ [][Next]_vars

=============================================================================
