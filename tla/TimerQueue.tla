------------------------------ MODULE TimerQueue ------------------------------
(***************************************************************************)
(* The timer queue of libs/utils/gp_timer.c on top of the heap of GpHeap.  *)
(* The program is single threaded; a call to gp_timer_queue_process() is   *)
(* cut where it calls back into the program: its start, each timer it pops *)
(* (process_top() up to timer->callback()), each callback that returns,    *)
(* and its end, where the timers that ran go back into the heap.           *)
(*                                                                         *)
(* Times are milliseconds.  expires is 64 bits wide and never wraps, the   *)
(* value a callback returns is uint32_t.                                   *)
(***************************************************************************)
EXTENDS GpHeap, FiniteSets

CONSTANTS
  Delays,          \* the delays timers are started or rescheduled with
  MaxNow,          \* bound on the clock, which stops there
  UINT32_MAX       \* the largest uint32_t

Timers == Nodes    \* what timer->heap is embedded in

ASSUME TimersAssumption ==
  /\ IsFiniteSet(Nodes)
  /\ UINT32_MAX \in Nat \ {0} /\ MaxNow \in Nat
  /\ Delays \subseteq 0 .. UINT32_MAX - 1

GP_TIMER_STOP == UINT32_MAX

VARIABLES
  links,             \* timer->heap of every timer; links.left is also
                     \* timer->next, the two share their memory
  expires,           \* timer->expires
  running, in_callback, res_in_callback, free_on_stop,
  queue,             \* the user's pointer to the root
  now,               \* gp_time_stamp()
  pc,                \* where gp_timer_queue_process() is
  pnow,              \* its argument
  reschedule,        \* its list of timers to put back
  cb, head,          \* the locals timer and head of process_top()
  freed,             \* the timers whose memory was given back
  uaf                \* such memory was read or written

flags == <<running, in_callback, res_in_callback, free_on_stop>>
frame == <<pc, pnow, reschedule, cb, head>>
vars == <<links, expires, flags, queue, now, frame, freed, uaf>>

Init ==
  /\ links = EmptyLinks
  /\ expires = [t \in Timers |-> 0]
  /\ running = [t \in Timers |-> FALSE]
  /\ in_callback = [t \in Timers |-> FALSE]
  /\ res_in_callback = [t \in Timers |-> FALSE]
  /\ free_on_stop = [t \in Timers |-> FALSE]
  /\ queue = NULL
  /\ now = 0
  /\ pc = "idle"
  /\ pnow = 0
  /\ reschedule = NULL
  /\ cb = NULL
  /\ head = NULL
  /\ freed = {}
  /\ uaf = FALSE

Tick ==
  /\ now < MaxNow
  /\ now' = now + 1
  /\ UNCHANGED <<links, expires, flags, queue, frame, freed, uaf>>

-----------------------------------------------------------------------------
(* Mutated forms.                                                          *)

(* A timer that is stopped stays marked running.                           *)
StopKeepsRunning(t) ==
  /\ running' = running
  /\ expires' = [expires EXCEPT ![t] = 0]

(* A timer rescheduled by its callback goes by the callback's value.       *)
ReturnWins(r) == r

(* The memory goes as soon as the timer is not queued for now.             *)
FreeIgnoresQueue(t) == ~ in_callback[t]

-----------------------------------------------------------------------------
uint32_t(x) == x % (UINT32_MAX + 1)

(* gp_timer_queue_ins() by a program that has just set t->expires to d.    *)
(* From the timer's own callback it only leaves a note for process_top().  *)
InsFromCallback(t, d) ==
  /\ in_callback[t]
  /\ expires' = [expires EXCEPT ![t] = now + d]
  /\ res_in_callback' = [res_in_callback EXCEPT ![t] = TRUE]
  /\ UNCHANGED <<links, running, in_callback, free_on_stop, queue, now, frame, freed, uaf>>

gp_timer_queue_ins(t, d) ==
  /\ ~ in_callback[t]
  /\ ~ running[t]
  /\ expires' = [expires EXCEPT ![t] = now + d]
  /\ running' = [running EXCEPT ![t] = TRUE]
  /\ LET r == gp_heap_ins(links, expires', queue, t) IN
     links' = r.h /\ queue' = r.top
  /\ UNCHANGED <<in_callback, res_in_callback, free_on_stop, now, frame, freed, uaf>>

StopTimer(t) ==
  /\ running' = [running EXCEPT ![t] = FALSE]
  /\ expires' = [expires EXCEPT ![t] = 0]

RemFromCallback(t) ==
  /\ in_callback[t]
  /\ expires' = [expires EXCEPT ![t] = GP_TIMER_STOP]
  /\ res_in_callback' = [res_in_callback EXCEPT ![t] = TRUE]
  /\ UNCHANGED <<links, running, in_callback, free_on_stop, queue, now, frame, freed, uaf>>

gp_timer_queue_rem(t) ==
  /\ running[t]
  /\ ~ in_callback[t]
  /\ StopTimer(t)
  /\ IF queue = NULL THEN UNCHANGED <<links, queue>>
     ELSE LET r == gp_heap_rem(links, expires', queue, t) IN
          links' = r.h /\ queue' = r.top
  /\ UNCHANGED <<in_callback, res_in_callback, free_on_stop, now, frame, freed, uaf>>

FreeNow(t) == ~ running[t]

(* The queue owns the memory of a timer that is freed while it runs.       *)
gp_timer_free(t) ==
  /\ IF FreeNow(t) THEN freed' = freed \cup {t} /\ UNCHANGED free_on_stop
     ELSE free_on_stop' = [free_on_stop EXCEPT ![t] = TRUE] /\ UNCHANGED freed
  /\ UNCHANGED <<links, expires, running, in_callback, res_in_callback, queue, now,
                 frame, uaf>>

-----------------------------------------------------------------------------
(* gp_timer_queue_process().                                               *)

ProcessStart ==
  /\ pc = "idle"
  /\ pc' = "loop"
  /\ pnow' = now
  /\ reschedule' = NULL
  /\ UNCHANGED <<links, expires, flags, queue, now, cb, head, freed, uaf>>

Due(t) == expires[t] <= pnow

(* process_top() up to the callback.  *queue still points to the timer     *)
(* that was popped until process_top() returned.                           *)
ProcessTop ==
  /\ pc = "loop"
  /\ queue # NULL
  /\ Due(queue)
  /\ LET r == gp_heap_pop(links, expires, queue) IN
     links' = r.h /\ head' = r.top
  /\ cb' = queue
  /\ in_callback' = [in_callback EXCEPT ![queue] = TRUE]
  /\ pc' = "callback"
  /\ uaf' = (uaf \/ queue \in freed)
  /\ UNCHANGED <<expires, running, res_in_callback, free_on_stop, queue, now, pnow,
                 reschedule, freed>>

(* What process_top() goes by once the callback returned r: a request the  *)
(* callback made for its own timer, cut to 32 bits, or r itself.           *)
Ret(r) == IF res_in_callback[cb] THEN uint32_t(expires[cb]) ELSE r
Base == IF res_in_callback[cb] THEN 0 ELSE pnow

(* stopped() comes first, then free_on_stop is looked at: a stopped() that *)
(* frees the timer would make that a use after free, and is left out.      *)
CallbackStops(r) ==
  /\ Ret(r) = GP_TIMER_STOP
  /\ StopTimer(cb)
  /\ freed' = IF free_on_stop[cb] THEN freed \cup {cb} ELSE freed
  /\ UNCHANGED <<links, reschedule, uaf>>

CallbackReschedules(r) ==
  /\ Ret(r) # GP_TIMER_STOP
  /\ expires' = [expires EXCEPT ![cb] = Ret(r) + Base]
  /\ links' = [links EXCEPT !.left[cb] = reschedule]
  /\ reschedule' = cb
  /\ UNCHANGED <<running, freed, uaf>>

(* Mutated form: a timer goes back into the heap before the others ran.    *)
ReschedulesAtOnce(r) ==
  /\ pc = "callback"
  /\ \/ CallbackStops(r) /\ queue' = head
     \/ /\ Ret(r) # GP_TIMER_STOP
        /\ expires' = [expires EXCEPT ![cb] = Ret(r) + Base]
        /\ LET i == gp_heap_ins(links, expires', head, cb) IN
           links' = i.h /\ queue' = i.top
        /\ UNCHANGED <<running, freed, uaf, reschedule>>
  /\ in_callback' = [in_callback EXCEPT ![cb] = FALSE]
  /\ res_in_callback' = [res_in_callback EXCEPT ![cb] = FALSE]
  /\ cb' = NULL
  /\ head' = NULL
  /\ pc' = "loop"
  /\ UNCHANGED <<free_on_stop, now, pnow>>

CallbackReturns(r) ==
  /\ pc = "callback"
  /\ CallbackStops(r) \/ CallbackReschedules(r)
  /\ in_callback' = [in_callback EXCEPT ![cb] = FALSE]
  /\ res_in_callback' = [res_in_callback EXCEPT ![cb] = FALSE]
  /\ queue' = head
  /\ cb' = NULL
  /\ head' = NULL
  /\ pc' = "loop"
  /\ UNCHANGED <<free_on_stop, now, pnow>>

(* The timers of a list: those in every set that has its head and, with a  *)
(* timer, the next one.                                                    *)
Listed(h, list) ==
  {t \in Timers : \A C \in SUBSET Timers :
     (list \in C \cup {NULL} /\ \A c \in C : h.left[c] \in C \cup {NULL}) => t \in C}

PutBackBody(key, rec) ==
  [h \in Heaps |-> [top \in Ptr |-> [list \in Ptr |->
     IF list = NULL THEN [top |-> top, h |-> h]
     ELSE LET tmp == h.left[list]
              r == gp_heap_ins(h, key, top, list) IN
          rec[r.h][r.top][tmp]]]]

NothingBack == [h \in Heaps |-> [top \in Ptr |-> [list \in Ptr |-> [top |-> top, h |-> h]]]]

PutBack(key, depth) ==
  LET back[d \in 0 .. depth] ==
        IF d = 0 THEN NothingBack ELSE PutBackBody(key, back[d - 1])
  IN back

ProcessEnd ==
  /\ pc = "loop"
  /\ queue # NULL => ~ Due(queue)
  /\ LET length == Cardinality(Listed(links, reschedule))
         r == PutBack(expires, length)[length][links][queue][reschedule] IN
     links' = r.h /\ queue' = r.top
  /\ reschedule' = NULL
  /\ pc' = "idle"
  /\ pnow' = 0
  /\ UNCHANGED <<expires, flags, now, cb, head, freed, uaf>>

-----------------------------------------------------------------------------
(* What programs do.  Nobody touches a timer that was handed to            *)
(* gp_timer_free(), except the timer's own callback.                       *)
Owned(t) == t \notin freed /\ ~ free_on_stop[t]

Program ==
  \E t \in Timers :
    \/ \E d \in Delays : InsFromCallback(t, d)
    \/ RemFromCallback(t)
    \/ pc = "idle" /\ Owned(t) /\ \E d \in Delays : gp_timer_queue_ins(t, d)
    \/ pc = "idle" /\ Owned(t) /\ gp_timer_queue_rem(t)
    \/ pc # "loop" /\ Owned(t) /\ gp_timer_free(t)

Queue ==
  \/ ProcessStart
  \/ ProcessTop
  \/ \E r \in Delays \cup {GP_TIMER_STOP} : CallbackReturns(r)
  \/ ProcessEnd

Next == Tick \/ Program \/ Queue

(* A program that, from a callback, starts timers other than the one the   *)
(* callback was called for.                                                *)
NextOthers ==
  \/ Next
  \/ \E t \in Timers, d \in Delays :
       pc = "callback" /\ Owned(t) /\ gp_timer_queue_ins(t, d)

(* The main loop keeps processing the queue (gp_backend_poll() and         *)
(* gp_backend_wait() in libs/backends/gp_backend.c) and callbacks return;  *)
(* what they return, and what the program starts or stops, is open.  Some  *)
(* step of Queue is always enabled and its steps are those that change pc, *)
(* so this is WF_vars(Queue).                                              *)
Fairness == []<><<pc' # pc>>_vars

Spec == Init /\ [][Next]_vars
FairSpec == Spec /\ Fairness
SpecOthers == Init /\ [][NextOthers]_vars

-----------------------------------------------------------------------------
(* The tree as gp_timer_queue_process() sees it: while a callback runs the *)
(* new root is still in a local of process_top().                          *)
Top == IF pc = "callback" THEN head ELSE queue
InHeap == Below(links, Top)

ToPutBack == IF pc = "idle" THEN {} ELSE Listed(links, reschedule)

TypeOK ==
  /\ expires \in [Timers -> Nat]
  /\ running \in [Timers -> BOOLEAN]
  /\ in_callback \in [Timers -> BOOLEAN]
  /\ res_in_callback \in [Timers -> BOOLEAN]
  /\ free_on_stop \in [Timers -> BOOLEAN]
  /\ {queue, reschedule, cb, head} \subseteq Timers \cup {NULL}
  /\ now \in 0 .. MaxNow /\ pnow \in 0 .. MaxNow
  /\ pc \in {"idle", "loop", "callback"}
  /\ freed \subseteq Timers

(* A timer that is running is in the heap, on the list to be put back, or  *)
(* in its callback: in one of the three, and otherwise in none.  A timer   *)
(* that is marked running and is nowhere can never be started again.       *)
RunningTimersAreQueued ==
  LET inHeap == InHeap
      toPutBack == ToPutBack IN
  \A t \in Timers :
    /\ running[t] <=> t \in inHeap \cup toPutBack \/ t = cb
    /\ ~ (t \in inHeap /\ t \in toPutBack)
    /\ t = cb => t \notin inHeap \cup toPutBack

(* The queue is done with a timer before its memory goes, although the     *)
(* program may free a timer at any moment, from its callback included.     *)
NoUseAfterFree == ~ uaf /\ freed \cap (InHeap \cup ToPutBack) = {}

ExpiresOf(set) == LET s == set IN [t \in Timers |-> IF t \in s THEN expires[t] ELSE -1]

(* Each call runs what is due, earliest first, each timer once.            *)
Sched == INSTANCE TimerSched WITH
  Times <- 0 .. UINT32_MAX - 1,
  Off <- -1,
  armed <- ExpiresOf(InHeap),
  later <- ExpiresOf(ToPutBack),
  call <- IF pc = "idle" THEN -1 ELSE pnow,
  own <- IF cb = NULL \/ ~ res_in_callback[cb] THEN -1
         ELSE IF expires[cb] = GP_TIMER_STOP THEN NULL ELSE expires[cb]

ImplementsSched == Sched!Spec

(* A timer that is due runs, unless the program removes it: a timer that   *)
(* is rescheduled for now over and over does not hold the others back.     *)
DueTimerRuns ==
  \A t \in Timers :
    (t \in InHeap /\ expires[t] <= now) ~> (cb = t \/ ~ running[t])

-----------------------------------------------------------------------------
(* "It's safe to call insert from the timer callback."                     *)
(* (include/utils/gp_timer.h)                                              *)
InsertedTimerIsQueued ==
  pc = "idle" => \A t \in Timers : running[t] => t \in InHeap

=============================================================================
