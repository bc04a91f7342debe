-------------------------------- MODULE Backend --------------------------------
(***************************************************************************)
(* The main loop of libs/backends/gp_backend.c.  It composes the timer     *)
(* queue, the task queue and the event queue, each by what it promises     *)
(* (TimerSched, TaskSched, EventFifo): tasks are dispatched by a timer,    *)
(* timers and file descriptors push events, events are what the program    *)
(* waits for.  Everything runs in one thread; data arrives at any time.    *)
(*                                                                         *)
(* A backend either has its file descriptor polled or, SDL and aalib, has  *)
(* a poll() of its own.  Times are milliseconds.                           *)
(***************************************************************************)
EXTENDS Integers, Sequences

CONSTANTS
  Tasks, TaskPrio,
  Timers,         \* the program's timers, without a callback: they push events
  Periods,        \* timer->period, which the program may change; Off is
                  \* GP_TIMER_STOP
  backend_task_timer,
  Fds,            \* file descriptors the program or the backend may add
  LIB,            \* what the poll() of a backend reads from
  NULL,
  Delays, Timeouts,
  MaxNow,         \* bound on the clock, which stops there
  MaxTime,        \* bound on the times timers expire at
  QueueSize       \* of the event queue

Off == -1
AllTimers == Timers \cup {backend_task_timer}

ASSUME BackendAssumption ==
  /\ backend_task_timer \notin Timers /\ NULL \notin Tasks \cup AllTimers
  /\ Delays \subseteq Nat /\ Periods \subseteq Nat \cup {Off} /\ Timeouts \subseteq Nat \cup {Off}
  /\ MaxNow \in Nat /\ MaxTime \in Nat /\ QueueSize \in Nat

Event == {"input", "brightness", "backlight", "timer"}

VARIABLES
  now, armed, later, call, cb,    \* the timer queue
  own,                            \* of it, too: no callback here uses it
  waiting, running,               \* the task queue
  events,                         \* the event queue
  has_poll, fds,                  \* set up once: self->poll, the fds in self->fds
  ready,                          \* what there is data to be read from
  pc,                             \* where the program is in the loop
  caller,                         \* the function of gp_backend.h it called
  timeout,                        \* timeout_ms as the program passed it
  left,                           \* timeout_ms of wait_timers_poll()
  wake,                           \* when the sleep times out, or Off
  fired,                          \* gp_timer_queue_process() ran a timer
  batch                           \* what the poll returned, not handled yet

T == INSTANCE TimerSched WITH Timers <- AllTimers, Times <- 0 .. MaxTime
Q == INSTANCE TaskSched WITH Prios <- 1 .. 3
E == INSTANCE EventFifo WITH Capacity <- QueueSize, waiting <- events

timers == <<now, armed, later, call, cb, own>>
tasks == <<waiting, running>>
setup == <<has_poll, fds>>
frame == <<caller, timeout, left, wake, fired, batch>>
vars == <<timers, tasks, events, setup, ready, pc, frame>>

Sources == fds \cup IF has_poll THEN {LIB} ELSE {}

Init ==
  /\ now = 0
  /\ armed = [t \in AllTimers |-> Off]
  /\ later = [t \in AllTimers |-> Off]
  /\ call = Off
  /\ cb = NULL
  /\ own = Off
  /\ Q!Init
  /\ E!Init
  /\ \/ has_poll = TRUE /\ fds \in {{}, Fds}
     \/ has_poll = FALSE /\ fds = Fds
  /\ ready = {}
  /\ pc = "app"
  /\ caller = "none"
  /\ timeout = Off /\ left = Off /\ wake = Off
  /\ fired = FALSE
  /\ batch = {}

Tick ==
  /\ now < MaxNow
  /\ now' = now + 1
  /\ T!Advance
  /\ UNCHANGED <<tasks, events, setup, ready, pc, frame>>

Arrive ==
  /\ \E f \in Sources \ ready : ready' = ready \cup {f}
  /\ UNCHANGED <<timers, tasks, events, setup, pc, frame>>

-----------------------------------------------------------------------------
(* Mutated forms of the definitions below.                                 *)

(* The timer dispatches one task each time it is started.                  *)
DispatchOnce == Off

(* It goes on when there are no tasks left.                                *)
DispatchForever == call

(* The sleep is as long as the timeout, timers or not.                     *)
TimeoutOnly == IF timeout >= 0 THEN now + timeout ELSE Off

-----------------------------------------------------------------------------
TasksQueued == running # NULL \/ \E p \in 1 .. 3 : waiting[p] # <<>>
Running(t) == armed[t] # Off \/ later[t] # Off \/ cb = t
Waits == caller \in {"wait", "ev_wait"}

(* When the clock has stopped, time passes without being counted.          *)
Elapsed == wake # Off /\ (now >= wake \/ now = MaxNow)

Least(S) == CHOOSE x \in S : \A y \in S : x <= y
Expirations == {armed[t] : t \in {u \in AllTimers : armed[u] # Off}}

(* Operations of the program.  They are called between its calls of the    *)
(* loop and by the handlers of file descriptors, which gp_poll_wait()      *)
(* calls; tasks insert tasks as well.                                      *)

gp_timer_queue_ins(t, d) ==
  /\ armed' = IF Running(t) THEN armed ELSE [armed EXCEPT ![t] = now + d]
  /\ IF Running(t) THEN UNCHANGED timers ELSE T!Start(t)

gp_backend_timer_start(t, d) == gp_timer_queue_ins(t, d) /\ UNCHANGED <<tasks, events>>

gp_backend_timer_stop(t) == T!Stop(t) /\ UNCHANGED <<tasks, events>>

gp_backend_timer_reschedule(t, d) ==
  /\ armed' = [armed EXCEPT ![t] = now + d]
  /\ UNCHANGED <<now, later, call, cb, own, tasks, events>>

start_task_timer == gp_timer_queue_ins(backend_task_timer, 0)

(* A task that is queued already, or whose priority is none, is refused;   *)
(* that does not keep the timer from being started.                        *)
gp_backend_task_ins(t) ==
  /\ IF TaskPrio[t] \notin 1 .. 3 \/ Q!Waiting(t) \/ t = running
     THEN UNCHANGED tasks
     ELSE Q!Insert(t)
  /\ IF TasksQueued THEN UNCHANGED timers ELSE start_task_timer
  /\ UNCHANGED events

Operation ==
  \/ \E t \in Timers, d \in Delays : gp_backend_timer_start(t, d) \/ gp_backend_timer_reschedule(t, d)
  \/ \E t \in Timers : gp_backend_timer_stop(t)
  \/ \E t \in Tasks : gp_backend_task_ins(t)

Program ==
  /\ pc = "app"
  /\ Operation
  /\ UNCHANGED <<setup, ready, pc, frame>>

-----------------------------------------------------------------------------
(* The program calls one of the functions that get, poll or wait for       *)
(* events.                                                                 *)
Call ==
  /\ pc = "app"
  /\ \/ \E t0 \in Timeouts, f \in {"wait", "ev_wait"} : caller' = f /\ timeout' = t0
     \/ caller' \in {"poll", "ev_poll"} /\ timeout' = Off
  /\ pc' = IF caller' \in {"ev_wait", "ev_poll"} THEN "get" ELSE "enter"
  /\ UNCHANGED <<timers, tasks, events, setup, ready, left, wake, fired, batch>>

(* How gp_backend_wait() and gp_backend_poll() return.  The programs that  *)
(* call them get all the events then.                                      *)
Back ==
  /\ pc' = CASE caller = "ev_wait" -> "get"
             [] caller = "ev_poll" -> "last_get"
             [] OTHER -> "drain"
  /\ left' = Off /\ wake' = Off

(* A brightness key pushes another event, if there is a backlight.         *)
gp_backend_ev_get ==
  /\ events # <<>>
  /\ \/ events' = Tail(events)
     \/ Head(events) = "brightness" /\ events' = Append(Tail(events), "backlight")
  /\ UNCHANGED <<timers, tasks, setup, ready, frame>>

GetEvent ==
  \/ pc \in {"get", "last_get"} /\ gp_backend_ev_get /\ pc' = "app"
  \/ pc = "drain" /\ gp_backend_ev_get /\ UNCHANGED pc

gp_backend_timer_timeout ==
  IF Expirations = {} THEN Off
  ELSE IF now > Least(Expirations) THEN 0 ELSE Least(Expirations) - now

(* A program that got nothing from gp_backend_ev_poll() may go to sleep in *)
(* a poll() of its own, on gp_backend_fd().                                *)
NoEvent ==
  /\ events = <<>>
  /\ \/ pc = "get" /\ pc' = "enter" /\ UNCHANGED wake
     \/ pc \in {"last_get", "drain"} /\ pc' = "app" /\ UNCHANGED wake
     \/ /\ pc = "last_get" /\ ~ has_poll
        /\ pc' = "program_sleep"
        /\ wake' = IF gp_backend_timer_timeout = Off THEN Off ELSE now + gp_backend_timer_timeout
  /\ UNCHANGED <<timers, tasks, events, setup, ready, caller, timeout, left, fired, batch>>

ProgramWakes ==
  /\ pc = "program_sleep"
  /\ ready # {} \/ Elapsed
  /\ pc' = "get"
  /\ wake' = Off
  /\ UNCHANGED <<timers, tasks, events, setup, ready, caller, timeout, left, fired, batch>>

-----------------------------------------------------------------------------
(* gp_backend_poll() and gp_backend_wait_timeout() start with the timers.  *)
Enter ==
  /\ pc = "enter"
  /\ \/ Waits /\ events # <<>> /\ Back /\ UNCHANGED <<timers, fired>>
     \/ /\ ~ Waits \/ events = <<>>
        /\ T!Begin /\ pc' = "timers" /\ fired' = FALSE
  /\ UNCHANGED <<tasks, events, setup, ready, caller, timeout, left, wake, batch>>

InProcess == pc \in {"timers", "loop_timers"}
InTimers == /\ InProcess
            /\ UNCHANGED <<setup, ready, pc, caller, timeout, left, wake, batch>>

ProcessTop ==
  /\ InTimers
  /\ \E t \in AllTimers : T!Fire(t)
  /\ fired' = TRUE
  /\ UNCHANGED <<tasks, events>>

timer_pushevent_callback ==
  /\ InTimers
  /\ cb \in Timers
  /\ E!Put("timer")
  /\ \E p \in Periods : later' = [later EXCEPT ![cb] = IF p = Off THEN Off ELSE call + p]
  /\ T!Return
  /\ UNCHANGED <<tasks, fired>>

(* backend_task_dispatch() runs one task, which may insert others.         *)
TaskStarts ==
  /\ InTimers
  /\ cb = backend_task_timer
  /\ \E p \in 1 .. 3 : Q!Run(p)
  /\ UNCHANGED <<timers, events, fired>>

TaskInserts ==
  /\ InTimers
  /\ running # NULL
  /\ \E t \in Tasks : gp_backend_task_ins(t)
  /\ UNCHANGED fired

DispatchReturns == IF TasksQueued' THEN call ELSE Off

backend_task_dispatch ==
  /\ InTimers
  /\ cb = backend_task_timer
  /\ IF TasksQueued THEN Q!Done \/ Q!Yield ELSE UNCHANGED tasks
  /\ later' = [later EXCEPT ![cb] = DispatchReturns]
  /\ T!Return
  /\ UNCHANGED <<events, fired>>

(* The timeout gp_poll_wait(), or self->wait(), gets.                      *)
SleepUntil ==
  LET untilTimer == {x - call : x \in Expirations}
      untilTimeout == IF timeout >= 0 THEN {timeout} ELSE {}
      all == untilTimer \cup untilTimeout IN
  IF all = {} THEN Off ELSE now + Least(all)

(* Backends that have to be polled wait in wait_timers_poll(), if there is *)
(* anything else to wait for.                                              *)
PollsTimers == Waits /\ has_poll /\ (Expirations # {} \/ fds # {})

TimersDone ==
  /\ pc = "timers"
  /\ T!End
  /\ \/ fired /\ Back /\ UNCHANGED <<left, wake>>
     \/ ~ fired /\ ~ Waits /\ pc' = "poll" /\ UNCHANGED <<left, wake>>
     \/ /\ ~ fired /\ PollsTimers
        /\ pc' = "loop" /\ left' = timeout /\ UNCHANGED wake
     \/ /\ ~ fired /\ Waits /\ ~ PollsTimers
        /\ pc' = "sleep" /\ wake' = SleepUntil /\ UNCHANGED left
  /\ fired' = FALSE
  /\ UNCHANGED <<tasks, events, setup, ready, caller, timeout, batch>>

(* The sleep of a program that waits: epoll_wait(), or self->wait().       *)
WakeUp ==
  /\ pc = "sleep"
  /\ ready # {} \/ Elapsed
  /\ batch' = ready
  /\ pc' = "fds"
  /\ UNCHANGED <<timers, tasks, events, setup, ready, caller, timeout, left, wake, fired>>

-----------------------------------------------------------------------------
(* wait_timers_poll() polls every millisecond.                             *)
LoopStarts ==
  /\ pc = "loop"
  /\ T!Begin
  /\ pc' = "loop_timers"
  /\ UNCHANGED <<tasks, events, setup, ready, frame>>

LoopTimersDone ==
  /\ pc = "loop_timers"
  /\ T!End
  /\ \/ fired /\ Back
     \/ ~ fired /\ pc' = "poll" /\ UNCHANGED <<left, wake>>
  /\ fired' = FALSE
  /\ UNCHANGED <<tasks, events, setup, ready, caller, timeout, batch>>

Poll ==
  /\ pc = "poll"
  /\ batch' = ready
  /\ pc' = IF Waits THEN "loop_fds" ELSE "fds"
  /\ UNCHANGED <<timers, tasks, events, setup, ready, caller, timeout, left, wake, fired>>

(* The handler of a source reads it and pushes an event, or does something *)
(* else about it.                                                          *)
Handle(f) ==
  /\ pc \in {"fds", "loop_fds"}
  /\ f \in batch /\ (LIB \in batch => f = LIB)
  /\ batch' = batch \ {f}
  /\ ready' = ready \ {f}
  /\ \/ \E e \in {"input", "brightness"} : E!Put(e) /\ UNCHANGED <<timers, tasks>>
     \/ Operation
     \/ UNCHANGED <<timers, tasks, events>>
  /\ UNCHANGED <<setup, pc, caller, timeout, left, wake, fired>>

Handled ==
  /\ batch = {}
  /\ \/ pc = "fds" /\ Back
     \/ pc = "loop_fds" /\ (events # <<>> \/ left = 0) /\ Back
     \/ /\ pc = "loop_fds" /\ events = <<>> /\ left # 0
        /\ pc' = "usleep"
        /\ left' = IF left > 0 THEN left - 1 ELSE left
        /\ wake' = now + 1
  /\ UNCHANGED <<timers, tasks, events, setup, ready, caller, timeout, fired, batch>>

USleepEnds ==
  /\ pc = "usleep"
  /\ Elapsed
  /\ pc' = "loop"
  /\ UNCHANGED <<timers, tasks, events, setup, ready, frame>>

Loop ==
  \/ Call \/ GetEvent \/ NoEvent \/ ProgramWakes
  \/ Enter \/ ProcessTop \/ timer_pushevent_callback
  \/ TaskStarts \/ backend_task_dispatch
  \/ TimersDone \/ WakeUp
  \/ LoopStarts \/ LoopTimersDone \/ Poll \/ (\E f \in Sources : Handle(f)) \/ Handled
  \/ USleepEnds

Next == Tick \/ Arrive \/ Program \/ TaskInserts \/ Loop

(* Time passes, callbacks return, and the program goes back into the loop. *)
Fairness == WF_vars(Tick) /\ WF_vars(Loop)

Spec == Init /\ [][Next]_vars
FairSpec == Spec /\ Fairness

-----------------------------------------------------------------------------
TypeOK ==
  /\ armed \in [AllTimers -> Nat \cup {Off}]
  /\ later \in [AllTimers -> Nat \cup {Off}]
  /\ cb \in AllTimers \cup {NULL}
  /\ running \in Tasks \cup {NULL}
  /\ events \in Seq(Event) /\ Len(events) <= QueueSize
  /\ ready \subseteq Sources /\ batch \subseteq ready
  /\ wake \in Nat \cup {Off}
  /\ own = Off

(* While there are tasks the timer that dispatches them runs, however the  *)
(* tasks were inserted and whatever they insert themselves: otherwise no   *)
(* task would run ever again.                                              *)
TaskTimerRuns == TasksQueued => Running(backend_task_timer)

(* The program does not sleep on work: events that were pushed by timers   *)
(* and handlers before it went to sleep, a queued task, or a timer that    *)
(* would not wake it.                                                      *)
NoSleepOnWork ==
  /\ pc \in {"sleep", "usleep", "program_sleep"} => events = <<>>
  /\ pc = "sleep" => ~ TasksQueued
  /\ pc \in {"sleep", "program_sleep"} /\ Expirations # {} => wake # Off
  /\ pc = "program_sleep" => \A x \in Expirations : wake <= now \/ wake <= x

(* The last pass over the timers before the loop would poll, in which none *)
(* of the program's timers runs.                                           *)
NoTimerIsDue ==
  /\ pc = "loop_timers" \/ (pc = "timers" /\ ~ PollsTimers)
  /\ ~ fired
  /\ \A t \in Timers : armed[t] = Off \/ armed[t] > call

(* What arrives is read, once the program is through with its tasks, if    *)
(* again and again the loop finds none of the program's timers due.  Both  *)
(* are needed: a call of the loop that runs a timer returns before it      *)
(* polls, the task timer is due while there are tasks, and a timer may be  *)
(* due at each turn, with a period of zero or shorter than the turn.       *)
InputIsRead ==
  (<>[](~ TasksQueued) /\ []<> NoTimerIsDue)
    => \A f \in Fds \cup {LIB} : f \in ready ~> f \notin ready

(* The loop gets to the tasks, whichever functions the program calls and   *)
(* however many events there are.                                          *)
TasksRun == TasksQueued ~> running # NULL

(* A timer that is due fires, or the program stops or reschedules it.      *)
DueTimersFire ==
  \A t \in AllTimers : (armed[t] # Off /\ armed[t] <= now) ~> (armed[t] = Off \/ armed[t] > now)

=============================================================================
