---------------------------- MODULE Backend_proofs ----------------------------
(***************************************************************************)
(* Proofs about the main loop, for any tasks, timers, file descriptors,    *)
(* timeouts and periods: the timer that dispatches tasks runs as long as   *)
(* there are tasks, and the program never goes to sleep on work.           *)
(***************************************************************************)
EXTENDS Backend, FunctionTheorems, WellFoundedInduction, NaturalsInduction, TLAPS

Time == Nat \cup {Off}

Typed ==
  /\ now \in Nat /\ call \in Time /\ wake \in Time /\ timeout \in Time
  /\ armed \in [AllTimers -> Time]
  /\ later \in [AllTimers -> Time]
  /\ cb \in AllTimers \cup {NULL}
  /\ fired \in BOOLEAN

(* There is a call of gp_timer_queue_process() exactly while the loop is   *)
(* in it, callbacks run and timers are put back only in one that ran a     *)
(* timer, and tasks run in the callback of the task timer.                 *)
CallIsOpen ==
  /\ InProcess <=> call # Off
  /\ call # Off => call <= now
  /\ fired => InProcess
  /\ ~ fired => cb = NULL /\ \A t \in AllTimers : later[t] = Off
  /\ running # NULL => cb = backend_task_timer

(* The task timer never waits for a time to come: when the loop looks for  *)
(* timers that are due and finds none, it was not armed.                   *)
TaskTimerIsDue ==
  /\ armed[backend_task_timer] # Off => armed[backend_task_timer] <= now
  /\ later[backend_task_timer] # Off => later[backend_task_timer] <= now
  /\ InProcess /\ ~ fired /\ armed[backend_task_timer] # Off => armed[backend_task_timer] <= call

(* A program that waits got past the check for events, and only callbacks  *)
(* push some since.                                                        *)
NoEventsYet == pc = "timers" /\ Waits /\ ~ fired => events = <<>>

IInv ==
  /\ Typed
  /\ CallIsOpen
  /\ TaskTimerIsDue
  /\ TaskTimerRuns
  /\ NoEventsYet
  /\ NoSleepOnWork

-----------------------------------------------------------------------------
(* A set of times that is not empty has a first one.                       *)
LEMMA LeastFacts ==
  ASSUME NEW S, S \subseteq Nat, S # {}
  PROVE  Least(S) \in S /\ \A y \in S : Least(S) <= y
<1>1. PICK x \in S : \A y \in S : ~ (<<y, x>> \in OpToRel(<, Nat))
  BY NatLessThanWellFounded, WFMin
<1>2. \A y \in S : ~ (y < x)
  BY <1>1 DEF OpToRel
<1>3. \A y \in S : x <= y
  BY <1>2
<1> QED  BY <1>3 DEF Least

(* An insertion into an empty task queue starts the task timer, for now;   *)
(* any other one finds it running.                                         *)
LEMMA InsertFacts ==
  ASSUME Typed, TaskTimerRuns, NEW t, gp_backend_task_ins(t)
  PROVE  /\ armed' \in [AllTimers -> Time]
         /\ UNCHANGED <<now, later, call, cb, own, events, running>>
         /\ armed'[backend_task_timer] \in {armed[backend_task_timer], now}
         /\ call # Off => UNCHANGED armed
         /\ TaskTimerRuns'
<1>1. UNCHANGED <<events, running>>
  BY DEF gp_backend_task_ins, Q!Insert, tasks
<1>2. CASE TasksQueued
  <2>1. UNCHANGED timers
    BY <1>2 DEF gp_backend_task_ins
  <2> QED  BY <1>1, <1>2, <2>1 DEF timers, Typed, TaskTimerRuns, Running
<1>3. CASE ~ TasksQueued /\ Running(backend_task_timer)
  <2>1. UNCHANGED timers
    BY <1>3 DEF gp_backend_task_ins, start_task_timer, gp_timer_queue_ins
  <2> QED  BY <1>1, <1>3, <2>1 DEF timers, Typed, TaskTimerRuns, Running
<1>4. CASE ~ TasksQueued /\ ~ Running(backend_task_timer)
  <2>1. /\ armed' = [armed EXCEPT ![backend_task_timer] = now + 0]
        /\ T!Start(backend_task_timer)
    BY <1>4 DEF gp_backend_task_ins, start_task_timer, gp_timer_queue_ins
  <2>2. /\ UNCHANGED <<now, later, call, cb, own>>
        /\ call = Off
    BY <2>1 DEF T!Start
  <2>3. /\ armed' \in [AllTimers -> Time]
        /\ armed'[backend_task_timer] = now
    BY <2>1 DEF Typed, AllTimers, Time
  <2>4. now # Off
    BY DEF Typed, Off
  <2> QED  BY <1>1, <2>2, <2>3, <2>4 DEF TaskTimerRuns, Running
<1> QED  BY <1>2, <1>3, <1>4

(* Nothing the program does between calls of the loop takes the task timer *)
(* away from the tasks.                                                    *)
LEMMA OperationFacts ==
  ASSUME Typed, TaskTimerRuns, Operation
  PROVE  /\ armed' \in [AllTimers -> Time]
         /\ UNCHANGED <<now, later, call, cb, own, events, running>>
         /\ armed'[backend_task_timer] \in {armed[backend_task_timer], now}
         /\ TaskTimerRuns'
<1> DEFINE Kept == /\ armed' \in [AllTimers -> Time]
                   /\ armed'[backend_task_timer] = armed[backend_task_timer]
                   /\ UNCHANGED <<now, later, call, cb, own, tasks, events>>
<1>1. Kept => /\ UNCHANGED running
              /\ TaskTimerRuns'
  BY DEF TaskTimerRuns, TasksQueued, Running, tasks
<1>2. ASSUME NEW t \in Timers, NEW d \in Delays, gp_backend_timer_start(t, d)
      PROVE  Kept
  <2>1. CASE Running(t)
    BY <1>2, <2>1 DEF gp_backend_timer_start, gp_timer_queue_ins, timers, Typed
  <2>2. CASE ~ Running(t)
    <3>1. armed' = [armed EXCEPT ![t] = now + d] /\ T!Start(t) /\ UNCHANGED <<tasks, events>>
      BY <1>2, <2>2 DEF gp_backend_timer_start, gp_timer_queue_ins
    <3>2. UNCHANGED <<now, later, call, cb, own>>
      BY <3>1 DEF T!Start
    <3> QED  BY <3>1, <3>2, BackendAssumption DEF Typed, AllTimers, Time
  <2> QED  BY <2>1, <2>2
<1>3. ASSUME NEW t \in Timers, NEW d \in Delays, gp_backend_timer_reschedule(t, d)
      PROVE  Kept
  BY <1>3, BackendAssumption DEF gp_backend_timer_reschedule, Typed, AllTimers, Time
<1>4. ASSUME NEW t \in Timers, gp_backend_timer_stop(t)
      PROVE  Kept
  BY <1>4, BackendAssumption DEF gp_backend_timer_stop, T!Stop, Typed, AllTimers, Time
<1>5. ASSUME NEW t \in Tasks, gp_backend_task_ins(t)
      PROVE  /\ armed' \in [AllTimers -> Time]
             /\ UNCHANGED <<now, later, call, cb, own, events, running>>
             /\ armed'[backend_task_timer] \in {armed[backend_task_timer], now}
             /\ TaskTimerRuns'
  BY <1>5, InsertFacts
<1> HIDE DEF Kept
<1>6. Kept => /\ armed' \in [AllTimers -> Time]
              /\ armed'[backend_task_timer] = armed[backend_task_timer]
              /\ UNCHANGED <<now, later, call, cb, own, events>>
  BY DEF Kept
<1> QED  BY <1>1, <1>2, <1>3, <1>4, <1>5, <1>6 DEF Operation

-----------------------------------------------------------------------------
(* The steps, one lemma for each part of the loop.                         *)

Asleep == pc \in {"sleep", "usleep", "program_sleep"}

(* Outside of gp_timer_queue_process() a step that leaves the timers and   *)
(* the tasks alone has only the sleeps to care about.                      *)
LEMMA OutsideStep ==
  ASSUME IInv, ~ InProcess, ~ InProcess', UNCHANGED <<timers, tasks, fired>>,
         wake' \in Time, timeout' \in Time, NoSleepOnWork'
  PROVE  IInv'
<1>1. UNCHANGED <<now, armed, later, call, cb, running, waiting, fired>>
  BY DEF timers, tasks
<1>2. Typed'
  BY <1>1 DEF IInv, Typed
<1>3. CallIsOpen' /\ TaskTimerIsDue'
  BY <1>1 DEF IInv, CallIsOpen, TaskTimerIsDue
<1>4. TaskTimerRuns'
  BY <1>1 DEF IInv, TaskTimerRuns, TasksQueued, Running
<1>5. NoEventsYet'
  BY DEF NoEventsYet, InProcess
<1> QED  BY <1>2, <1>3, <1>4, <1>5 DEF IInv

(* Operations of the program and of handlers.                              *)
LEMMA OperationStep ==
  ASSUME IInv, Operation, ~ InProcess, ~ Asleep, UNCHANGED <<pc, timeout, wake, fired>>
  PROVE  IInv'
<1>1. /\ armed' \in [AllTimers -> Time]
      /\ UNCHANGED <<now, later, call, cb, own, events, running>>
      /\ armed'[backend_task_timer] \in {armed[backend_task_timer], now}
      /\ TaskTimerRuns'
  BY OperationFacts DEF IInv
<1>2. Typed'
  BY <1>1 DEF IInv, Typed
<1>3. ~ InProcess'
  BY DEF InProcess
<1>4. CallIsOpen'
  BY <1>1, <1>3 DEF IInv, CallIsOpen
<1>5. TaskTimerIsDue'
  BY <1>1, <1>3 DEF IInv, TaskTimerIsDue, Typed
<1>6. NoEventsYet' /\ NoSleepOnWork'
  BY DEF NoEventsYet, NoSleepOnWork, InProcess, Asleep
<1> QED  BY <1>1, <1>2, <1>4, <1>5, <1>6 DEF IInv

LEMMA TickStep ==
  ASSUME IInv, Tick
  PROVE  IInv'
<1>1. /\ now' = now + 1
      /\ UNCHANGED <<armed, later, call, cb, tasks, events, pc, caller, timeout, wake, fired>>
  BY DEF Tick, T!Advance, frame
<1>2. Typed'
  BY <1>1 DEF IInv, Typed
<1>3. now <= now' /\ now \in Nat /\ now' \in Nat
  BY <1>1 DEF IInv, Typed
<1>4. InProcess' = InProcess
  BY <1>1 DEF InProcess
<1>5. CallIsOpen'
  BY <1>1, <1>3, <1>4 DEF IInv, CallIsOpen, tasks, Typed, Time, Off
<1>6. TaskTimerIsDue'
  <2>1. armed[backend_task_timer] \in Time /\ later[backend_task_timer] \in Time
    BY DEF IInv, Typed, AllTimers
  <2> QED  BY <1>1, <1>3, <1>4, <2>1 DEF IInv, TaskTimerIsDue, Time, Off
<1>7. TaskTimerRuns'
  BY <1>1 DEF IInv, TaskTimerRuns, TasksQueued, Running, tasks
<1>8. NoEventsYet'
  BY <1>1 DEF IInv, NoEventsYet, Waits
<1>9. NoSleepOnWork'
  <2>1. TasksQueued' = TasksQueued /\ Expirations' = Expirations
    BY <1>1 DEF TasksQueued, Expirations, tasks
  <2> QED  BY <1>1, <1>3, <2>1 DEF IInv, NoSleepOnWork, Typed, Time, Off
<1> QED  BY <1>2, <1>5, <1>6, <1>7, <1>8, <1>9 DEF IInv

(* The program gets events and calls the loop.                             *)
LEMMA CallSteps ==
  ASSUME IInv, Arrive \/ Call \/ GetEvent \/ ProgramWakes
  PROVE  IInv'
<1> USE DEF IInv
<1>1. CASE Arrive
  <2>1. UNCHANGED <<now, armed, later, call, cb, running, waiting, events, pc, caller, timeout, wake, fired>>
    BY <1>1 DEF Arrive, timers, tasks, frame
  <2>2. Typed' /\ CallIsOpen' /\ TaskTimerIsDue'
    BY <2>1 DEF Typed, CallIsOpen, TaskTimerIsDue, InProcess
  <2>3. TaskTimerRuns' /\ NoEventsYet' /\ NoSleepOnWork'
    BY <2>1 DEF TaskTimerRuns, NoEventsYet, NoSleepOnWork, TasksQueued, Running, Waits, Expirations
  <2> QED  BY <2>2, <2>3
<1>2. CASE Call
  <2>1. pc = "app" /\ pc' \in {"get", "enter"} /\ timeout' \in Time /\ UNCHANGED <<timers, tasks, fired, wake>>
    BY <1>2, BackendAssumption DEF Call, Time
  <2>2. NoSleepOnWork' /\ ~ InProcess /\ ~ InProcess'
    BY <2>1 DEF NoSleepOnWork, InProcess
  <2> QED  BY <2>1, <2>2, OutsideStep DEF Typed
<1>3. CASE GetEvent
  <2>1. /\ pc \in {"get", "last_get", "drain"} /\ pc' \in {"app", "drain"}
        /\ UNCHANGED <<timers, tasks, timeout, wake, fired>>
    BY <1>3 DEF GetEvent, gp_backend_ev_get, frame
  <2>2. NoSleepOnWork' /\ ~ InProcess /\ ~ InProcess'
    BY <2>1 DEF NoSleepOnWork, InProcess
  <2> QED  BY <2>1, <2>2, OutsideStep DEF Typed
<1>4. CASE ProgramWakes
  <2>1. pc = "program_sleep" /\ pc' = "get" /\ wake' \in Time /\ UNCHANGED <<timers, tasks, timeout, fired>>
    BY <1>4 DEF ProgramWakes, Time
  <2>2. NoSleepOnWork' /\ ~ InProcess /\ ~ InProcess'
    BY <2>1 DEF NoSleepOnWork, InProcess
  <2> QED  BY <2>1, <2>2, OutsideStep DEF Typed
<1> QED  BY <1>1, <1>2, <1>3, <1>4

(* The timeout ends with the first timer, or is over when it was due.      *)
LEMMA TimeoutFacts ==
  ASSUME now \in Nat, Expirations \subseteq Nat, Expirations # {}
  PROVE  /\ gp_backend_timer_timeout \in Nat
         /\ \A x \in Expirations : now + gp_backend_timer_timeout <= now \/ now + gp_backend_timer_timeout <= x
<1>1. PICK first \in Nat : first = Least(Expirations) /\ \A x \in Expirations : first <= x
  BY LeastFacts
<1>2. gp_backend_timer_timeout = IF now > first THEN 0 ELSE first - now
  BY <1>1 DEF gp_backend_timer_timeout
<1>3. CASE now > first
  BY <1>2, <1>3
<1>4. CASE ~ (now > first)
  <2>1. gp_backend_timer_timeout = first - now /\ first - now \in Nat /\ now + (first - now) = first
    BY <1>2, <1>4
  <2> QED  BY <1>1, <2>1
<1> QED  BY <1>3, <1>4

(* A program that goes to sleep on its own asks for the timeout.           *)
LEMMA NoEventStep ==
  ASSUME IInv, NoEvent
  PROVE  IInv'
<1>1. /\ pc \in {"get", "last_get", "drain"} /\ events = <<>>
      /\ UNCHANGED <<timers, tasks, events, timeout, fired>>
  BY DEF NoEvent
<1>2. Expirations \subseteq Nat /\ now \in Nat
  BY DEF IInv, Typed, Expirations, Time, Off
<1>3. CASE pc' \in {"enter", "app"} /\ UNCHANGED wake
  <2>1. NoSleepOnWork' /\ ~ InProcess /\ ~ InProcess'
    BY <1>1, <1>3 DEF NoSleepOnWork, InProcess
  <2> QED  BY <1>1, <1>3, <2>1, OutsideStep DEF IInv, Typed
<1>4. CASE /\ pc' = "program_sleep"
           /\ wake' = IF gp_backend_timer_timeout = Off THEN Off ELSE now + gp_backend_timer_timeout
  <2>1. UNCHANGED <<now, Expirations>>
    BY <1>1 DEF timers, Expirations
  <2>2. /\ wake' \in Time
        /\ Expirations # {} => wake' # Off
        /\ \A x \in Expirations : wake' <= now \/ wake' <= x
    <3>1. CASE Expirations = {}
      BY <1>4, <3>1 DEF gp_backend_timer_timeout, Time
    <3>2. CASE Expirations # {}
      <4>1. /\ gp_backend_timer_timeout \in Nat
            /\ \A x \in Expirations : now + gp_backend_timer_timeout <= now \/ now + gp_backend_timer_timeout <= x
        BY <1>2, <3>2, TimeoutFacts
      <4>2. wake' = now + gp_backend_timer_timeout
        BY <1>4, <4>1 DEF Off
      <4> QED  BY <1>2, <4>1, <4>2 DEF Time, Off
    <3> QED  BY <3>1, <3>2
  <2>3. NoSleepOnWork'
    BY <1>1, <1>4, <2>1, <2>2 DEF NoSleepOnWork
  <2>4. ~ InProcess /\ ~ InProcess'
    BY <1>1, <1>4 DEF InProcess
  <2> QED  BY <1>1, <2>2, <2>3, <2>4, OutsideStep DEF IInv, Typed
<1> QED  BY <1>3, <1>4 DEF NoEvent

(* A call of gp_timer_queue_process() starts: what is due at its start is  *)
(* armed for now or before.                                                *)
LEMMA BeginStep ==
  ASSUME IInv, ~ InProcess, T!Begin, InProcess', fired' = FALSE,
         UNCHANGED <<tasks, events, caller, timeout, wake>>,
         pc' = "timers" /\ Waits => events = <<>>
  PROVE  IInv'
<1>1. call' = now /\ UNCHANGED <<now, armed, later, cb, running, waiting, events, caller, timeout, wake>>
  BY DEF T!Begin, tasks
<1>2. ~ fired
  BY DEF IInv, CallIsOpen
<1>3. now \in Nat /\ armed[backend_task_timer] \in Time
  BY DEF IInv, Typed, AllTimers
<1>4. Typed'
  BY <1>1, <1>3 DEF IInv, Typed, Time
<1>5. CallIsOpen'
  BY <1>1, <1>2, <1>3 DEF IInv, CallIsOpen, Off
<1>6. TaskTimerIsDue'
  BY <1>1, <1>3 DEF IInv, TaskTimerIsDue
<1>7. TaskTimerRuns'
  BY <1>1 DEF IInv, TaskTimerRuns, TasksQueued, Running
<1>8. NoEventsYet' /\ NoSleepOnWork'
  BY <1>1 DEF NoEventsYet, NoSleepOnWork, Waits, InProcess
<1> QED  BY <1>4, <1>5, <1>6, <1>7, <1>8 DEF IInv

(* gp_backend_poll() and gp_backend_wait_timeout() return at once or get   *)
(* to the timers, with no events if the program waits.                     *)
LEMMA EnterStep ==
  ASSUME IInv, Enter
  PROVE  IInv'
<1>1. pc = "enter" /\ ~ InProcess /\ UNCHANGED <<tasks, events, caller, timeout>>
  BY DEF Enter, InProcess
<1>2. CASE Back /\ UNCHANGED <<timers, fired>>
  <2>1. pc' \in {"get", "last_get", "drain"} /\ wake' \in Time
    BY <1>2 DEF Back, Time
  <2>2. NoSleepOnWork' /\ ~ InProcess'
    BY <2>1 DEF NoSleepOnWork, InProcess
  <2> QED  BY <1>1, <1>2, <2>1, <2>2, OutsideStep DEF IInv, Typed
<1>3. CASE /\ ~ Waits \/ events = <<>>
           /\ T!Begin /\ pc' = "timers" /\ fired' = FALSE /\ UNCHANGED wake
  <2>1. InProcess'
    BY <1>3 DEF InProcess
  <2> QED  BY <1>1, <1>3, <2>1, BeginStep
<1> QED  BY <1>2, <1>3 DEF Enter

LEMMA LoopStartsStep ==
  ASSUME IInv, LoopStarts
  PROVE  IInv'
<1>1. /\ pc = "loop" /\ pc' = "loop_timers" /\ T!Begin
      /\ UNCHANGED <<tasks, events, caller, timeout, wake, fired>>
  BY DEF LoopStarts, frame
<1>2. ~ InProcess /\ InProcess'
  BY <1>1 DEF InProcess
<1>3. fired' = FALSE
  BY <1>1, <1>2 DEF IInv, CallIsOpen, Typed
<1> QED  BY <1>1, <1>2, <1>3, BeginStep

(* Inside of it, once a timer ran, only the timers matter.                 *)
LEMMA InsideStep ==
  ASSUME IInv, InTimers, fired',
         UNCHANGED <<now, call>>, Typed', TaskTimerRuns',
         running' # NULL => cb' = backend_task_timer,
         armed'[backend_task_timer] \in {Off, armed[backend_task_timer]},
         later'[backend_task_timer] \in {Off, later[backend_task_timer], call}
  PROVE  IInv'
<1>1. InProcess /\ UNCHANGED pc /\ InProcess'
  BY DEF InTimers, InProcess
<1>2. CallIsOpen'
  BY <1>1 DEF IInv, CallIsOpen
<1>3. TaskTimerIsDue'
  BY <1>1 DEF IInv, CallIsOpen, TaskTimerIsDue
<1>4. NoEventsYet' /\ NoSleepOnWork'
  BY <1>1 DEF NoEventsYet, NoSleepOnWork, InProcess
<1> QED  BY <1>2, <1>3, <1>4 DEF IInv

LEMMA ProcessTopStep ==
  ASSUME IInv, ProcessTop
  PROVE  IInv'
<1>1. PICK t \in AllTimers : T!Fire(t)
  BY DEF ProcessTop
<1>2. /\ InTimers /\ fired' = TRUE /\ UNCHANGED <<tasks, events, timeout, wake>>
      /\ cb = NULL /\ cb' = t /\ armed' = [armed EXCEPT ![t] = Off]
      /\ UNCHANGED <<now, later, call>>
  BY <1>1 DEF ProcessTop, InTimers, T!Fire
<1>3. running = NULL /\ running' = NULL
  BY <1>2, BackendAssumption DEF IInv, CallIsOpen, tasks, AllTimers
<1>4. armed \in [AllTimers -> Time] /\ backend_task_timer \in AllTimers
  BY DEF IInv, Typed, AllTimers
<1>5. Typed'
  BY <1>2, <1>4 DEF IInv, Typed, Time
<1>6. armed'[backend_task_timer] = IF t = backend_task_timer THEN Off ELSE armed[backend_task_timer]
  BY <1>2, <1>4
<1>7. TaskTimerRuns'
  <2>1. TasksQueued' = TasksQueued
    BY <1>2 DEF TasksQueued, tasks
  <2>2. Running(backend_task_timer) => Running(backend_task_timer)'
    BY <1>2, <1>6, BackendAssumption DEF Running, AllTimers
  <2> QED  BY <2>1, <2>2 DEF IInv, TaskTimerRuns
<1>8. armed'[backend_task_timer] \in {Off, armed[backend_task_timer]}
  BY <1>6
<1> QED  BY <1>2, <1>3, <1>5, <1>7, <1>8, InsideStep

(* A timer of the program may be set to run again; the task timer is not   *)
(* its business.                                                           *)
LEMMA PushEventStep ==
  ASSUME IInv, timer_pushevent_callback
  PROVE  IInv'
<1>1. /\ InTimers /\ cb \in Timers /\ cb # NULL /\ cb' = NULL
      /\ UNCHANGED <<now, armed, call, running, waiting, fired, timeout, wake>>
  BY DEF timer_pushevent_callback, InTimers, T!Return, tasks
<1>2. fired /\ running = NULL /\ cb # backend_task_timer
  BY <1>1, BackendAssumption DEF IInv, CallIsOpen
<1>3. PICK p \in Periods : later' = [later EXCEPT ![cb] = IF p = Off THEN Off ELSE call + p]
  BY DEF timer_pushevent_callback
<1>4. call \in Nat /\ InProcess
  BY <1>1 DEF IInv, Typed, CallIsOpen, InTimers, Time
<1>5. (IF p = Off THEN Off ELSE call + p) \in Time
  BY <1>4, BackendAssumption DEF Time
<1>6. later' \in [AllTimers -> Time] /\ later'[backend_task_timer] = later[backend_task_timer]
  BY <1>1, <1>2, <1>3, <1>5 DEF IInv, Typed, AllTimers
<1>7. Typed'
  BY <1>1, <1>6 DEF IInv, Typed
<1>8. TaskTimerRuns'
  BY <1>1, <1>2, <1>6 DEF IInv, TaskTimerRuns, TasksQueued, Running
<1> QED  BY <1>1, <1>2, <1>6, <1>7, <1>8, InsideStep

LEMMA TaskStartsStep ==
  ASSUME IInv, TaskStarts
  PROVE  IInv'
<1>1. /\ InTimers /\ cb = backend_task_timer
      /\ UNCHANGED <<now, armed, later, call, cb, fired, timeout, wake>>
  BY DEF TaskStarts, InTimers, timers
<1>2. TaskTimerRuns'
  BY <1>1 DEF TaskTimerRuns, Running
<1>3. Typed' /\ fired'
  BY <1>1, BackendAssumption DEF IInv, Typed, CallIsOpen, AllTimers
<1> QED  BY <1>1, <1>2, <1>3, InsideStep

LEMMA TaskInsertsStep ==
  ASSUME IInv, TaskInserts
  PROVE  IInv'
<1>1. InTimers /\ running # NULL /\ UNCHANGED <<fired, timeout, wake>>
  BY DEF TaskInserts, InTimers
<1>2. PICK t \in Tasks : gp_backend_task_ins(t)
  BY DEF TaskInserts
<1>3. /\ UNCHANGED <<now, later, call, cb, running>>
      /\ armed' \in [AllTimers -> Time]
      /\ call # Off => UNCHANGED armed
      /\ TaskTimerRuns'
  BY <1>2, InsertFacts DEF IInv
<1>4. cb = backend_task_timer /\ fired /\ call # Off
  BY <1>1, BackendAssumption DEF IInv, CallIsOpen, InTimers, AllTimers
<1>5. Typed'
  BY <1>1, <1>3 DEF IInv, Typed
<1> QED  BY <1>1, <1>3, <1>4, <1>5, InsideStep

(* The dispatch goes on as long as there are tasks.                        *)
LEMMA DispatchStep ==
  ASSUME IInv, backend_task_dispatch
  PROVE  IInv'
<1>1. /\ InTimers /\ cb = backend_task_timer /\ cb' = NULL
      /\ later' = [later EXCEPT ![cb] = DispatchReturns]
      /\ UNCHANGED <<now, armed, call, fired, timeout, wake>>
  BY DEF backend_task_dispatch, InTimers, T!Return
<1>2. call \in Nat /\ InProcess
  BY <1>1 DEF IInv, Typed, CallIsOpen, InTimers, Time
<1>3. DispatchReturns \in {Off, call} /\ (TasksQueued' => DispatchReturns = call)
  BY DEF DispatchReturns
<1>4. /\ later' \in [AllTimers -> Time]
      /\ later'[backend_task_timer] = DispatchReturns
  BY <1>1, <1>2, <1>3 DEF IInv, Typed, AllTimers, Time
<1>5. Typed'
  BY <1>1, <1>4 DEF IInv, Typed
<1>6. TaskTimerRuns'
  BY <1>2, <1>3, <1>4 DEF TaskTimerRuns, Running, Off
<1>7. running' = NULL
  <2>1. CASE TasksQueued
    BY <2>1 DEF backend_task_dispatch, Q!Done, Q!Yield
  <2>2. CASE ~ TasksQueued
    BY <2>2 DEF backend_task_dispatch, TasksQueued, tasks
  <2> QED  BY <2>1, <2>2
<1>8. fired'
  BY <1>1, BackendAssumption DEF IInv, CallIsOpen, AllTimers
<1> QED  BY <1>1, <1>3, <1>4, <1>5, <1>6, <1>7, <1>8, InsideStep

(* The end of a call puts back the timers that ran. If none did, none was  *)
(* due, and so there are no tasks.                                         *)
LEMMA EndFacts ==
  ASSUME IInv, InProcess, T!End, UNCHANGED tasks
  PROVE  /\ armed' \in [AllTimers -> Time]
         /\ later' = [t \in AllTimers |-> Off] /\ call' = Off
         /\ cb = NULL /\ UNCHANGED <<now, cb>> /\ running' = NULL
         /\ armed'[backend_task_timer] \in {armed[backend_task_timer], later[backend_task_timer]}
         /\ TaskTimerRuns'
         /\ ~ fired => /\ UNCHANGED armed
                       /\ \A x \in Expirations : x > call
                       /\ ~ TasksQueued
<1>1. /\ cb = NULL /\ call' = Off /\ UNCHANGED <<now, cb>>
      /\ \A t \in AllTimers : armed[t] = Off \/ armed[t] > call
      /\ armed' = [t \in AllTimers |-> IF later[t] = Off THEN armed[t] ELSE later[t]]
      /\ later' = [t \in AllTimers |-> Off]
  BY DEF T!End
<1>2. armed \in [AllTimers -> Time] /\ later \in [AllTimers -> Time] /\ backend_task_timer \in AllTimers
  BY DEF IInv, Typed, AllTimers
<1>3. armed' \in [AllTimers -> Time]
  BY <1>1, <1>2
<1>4. armed'[backend_task_timer] = IF later[backend_task_timer] = Off THEN armed[backend_task_timer]
                                   ELSE later[backend_task_timer]
  BY <1>1, <1>2
<1>5. running = NULL /\ running' = NULL
  BY <1>1, <1>2, BackendAssumption DEF IInv, CallIsOpen, tasks
<1>6. TaskTimerRuns'
  <2>1. TasksQueued' = TasksQueued
    BY DEF TasksQueued, tasks
  <2> QED  BY <1>1, <1>2, <1>4, <2>1, BackendAssumption DEF IInv, TaskTimerRuns, Running
<1>7. ASSUME ~ fired
      PROVE  UNCHANGED armed /\ (\A x \in Expirations : x > call) /\ ~ TasksQueued
  <2>1. \A t \in AllTimers : later[t] = Off
    BY <1>7 DEF IInv, CallIsOpen
  <2>2. UNCHANGED armed
    BY <1>1, <1>2, <2>1
  <2>3. \A x \in Expirations : x > call
    BY <1>1 DEF Expirations
  <2>4. ~ TasksQueued
    <3>1. armed[backend_task_timer] = Off \/ armed[backend_task_timer] > call
      BY <1>1, <1>2
    <3>2. armed[backend_task_timer] # Off => armed[backend_task_timer] <= call
      BY <1>7 DEF IInv, TaskTimerIsDue
    <3>3. armed[backend_task_timer] \in Int /\ call \in Int
      BY <1>2 DEF IInv, Typed, Time, Off
    <3>4. armed[backend_task_timer] = Off
      BY <3>1, <3>2, <3>3
    <3> QED  BY <1>1, <1>2, <2>1, <3>4, BackendAssumption DEF IInv, TaskTimerRuns, Running
  <2> QED  BY <2>2, <2>3, <2>4
<1> QED  BY <1>1, <1>3, <1>4, <1>5, <1>6, <1>7

(* What comes after it is right when the sleep is.                         *)
LEMMA EndStep ==
  ASSUME IInv, InProcess, T!End, ~ InProcess', fired' = FALSE,
         UNCHANGED <<tasks, timeout>>, wake' \in Time, NoSleepOnWork'
  PROVE  IInv'
<1>1. /\ armed' \in [AllTimers -> Time]
      /\ later' = [t \in AllTimers |-> Off] /\ call' = Off
      /\ cb = NULL /\ UNCHANGED <<now, cb>> /\ running' = NULL
      /\ armed'[backend_task_timer] \in {armed[backend_task_timer], later[backend_task_timer]}
      /\ TaskTimerRuns'
  BY EndFacts
<1>2. Typed'
  BY <1>1 DEF IInv, Typed, Time
<1>3. CallIsOpen'
  BY <1>1 DEF CallIsOpen
<1>4. TaskTimerIsDue'
  BY <1>1 DEF IInv, TaskTimerIsDue, AllTimers
<1>5. NoEventsYet'
  BY DEF NoEventsYet, InProcess
<1> QED  BY <1>1, <1>2, <1>3, <1>4, <1>5 DEF IInv

(* The timeout of the sleep is there if there are timers.                  *)
LEMMA SleepFacts ==
  ASSUME IInv, \A x \in Expirations : x > call, call # Off
  PROVE  SleepUntil \in Time /\ (Expirations # {} => SleepUntil # Off)
<1> DEFINE untilTimer == {x - call : x \in Expirations}
           untilTimeout == IF timeout >= 0 THEN {timeout} ELSE {}
           all == untilTimer \cup untilTimeout
<1>1. SleepUntil = IF all = {} THEN Off ELSE now + Least(all)
  BY DEF SleepUntil
<1>2. now \in Nat /\ call \in Nat /\ Expirations \subseteq Nat
  BY DEF IInv, Typed, Expirations, Time, Off
<1>3. all \subseteq Nat
  <2>1. untilTimer \subseteq Nat
    BY <1>2
  <2>2. untilTimeout \subseteq Nat
    BY DEF IInv, Typed, Time, Off
  <2> QED  BY <2>1, <2>2
<1>4. Expirations # {} => all # {}
  OBVIOUS
<1> HIDE DEF all
<1>5. CASE all = {}
  BY <1>1, <1>4, <1>5 DEF Time
<1>6. CASE all # {}
  <2>1. PICK least \in Nat : least = Least(all)
    BY <1>3, <1>6, LeastFacts
  <2>2. SleepUntil = now + least
    BY <1>1, <1>6, <2>1
  <2> QED  BY <1>2, <2>1, <2>2 DEF Time, Off
<1> QED  BY <1>5, <1>6

LEMMA TimersDoneStep ==
  ASSUME IInv, TimersDone
  PROVE  IInv'
<1>1. /\ pc = "timers" /\ InProcess /\ T!End /\ fired' = FALSE
      /\ UNCHANGED <<tasks, events, caller, timeout>>
  BY DEF TimersDone, InProcess
<1>2. wake \in Time /\ call # Off
  BY <1>1 DEF IInv, Typed, CallIsOpen
<1>3. CASE Back
  <2>1. pc' \in {"get", "last_get", "drain"} /\ wake' \in Time
    BY <1>3 DEF Back, Time
  <2>2. NoSleepOnWork' /\ ~ InProcess'
    BY <2>1 DEF NoSleepOnWork, InProcess
  <2> QED  BY <1>1, <2>1, <2>2, EndStep
<1>4. CASE pc' \in {"poll", "loop"} /\ UNCHANGED wake
  <2>1. NoSleepOnWork' /\ ~ InProcess'
    BY <1>4 DEF NoSleepOnWork, InProcess
  <2> QED  BY <1>1, <1>2, <1>4, <2>1, EndStep
<1>5. CASE ~ fired /\ Waits /\ pc' = "sleep" /\ wake' = SleepUntil
  <2>1. /\ UNCHANGED armed
        /\ \A x \in Expirations : x > call
        /\ ~ TasksQueued
    BY <1>1, <1>5, EndFacts
  <2>2. SleepUntil \in Time /\ (Expirations # {} => SleepUntil # Off)
    BY <1>2, <2>1, SleepFacts
  <2>3. events = <<>>
    BY <1>1, <1>5 DEF IInv, NoEventsYet
  <2>4. UNCHANGED <<TasksQueued, Expirations>>
    BY <1>1, <2>1 DEF TasksQueued, Expirations, tasks
  <2>5. NoSleepOnWork' /\ ~ InProcess'
    BY <1>1, <1>5, <2>1, <2>2, <2>3, <2>4 DEF NoSleepOnWork, InProcess
  <2> QED  BY <1>1, <1>5, <2>2, <2>5, EndStep
<1> QED  BY <1>3, <1>4, <1>5 DEF TimersDone

LEMMA LoopTimersDoneStep ==
  ASSUME IInv, LoopTimersDone
  PROVE  IInv'
<1>1. /\ pc = "loop_timers" /\ InProcess /\ T!End /\ fired' = FALSE
      /\ UNCHANGED <<tasks, timeout>>
  BY DEF LoopTimersDone, InProcess
<1>2. pc' \in {"get", "last_get", "drain", "poll"} /\ wake' \in Time
  BY DEF LoopTimersDone, Back, IInv, Typed, Time
<1>3. NoSleepOnWork' /\ ~ InProcess'
  BY <1>2 DEF NoSleepOnWork, InProcess
<1> QED  BY <1>1, <1>2, <1>3, EndStep

(* Polling and handling what the poll returned.                            *)
LEMMA PollSteps ==
  ASSUME IInv, WakeUp \/ Poll \/ Handled \/ USleepEnds
  PROVE  IInv'
<1>1. pc \in {"sleep", "poll", "fds", "loop_fds", "usleep"} /\ UNCHANGED <<timers, tasks, events, timeout, fired>>
  BY DEF WakeUp, Poll, Handled, USleepEnds, frame
<1>2. now \in Nat /\ wake \in Time
  BY DEF IInv, Typed
<1>3. CASE pc' \notin {"usleep", "sleep", "program_sleep", "timers", "loop_timers"} /\ wake' \in Time
  <2>1. NoSleepOnWork' /\ ~ InProcess /\ ~ InProcess'
    BY <1>1, <1>3 DEF NoSleepOnWork, InProcess
  <2> QED  BY <1>1, <1>3, <2>1, OutsideStep DEF IInv, Typed
<1>4. CASE pc' = "usleep" /\ events = <<>> /\ wake' = now + 1
  <2>1. NoSleepOnWork' /\ ~ InProcess /\ ~ InProcess'
    BY <1>1, <1>4 DEF NoSleepOnWork, InProcess
  <2>2. wake' \in Time
    BY <1>2, <1>4 DEF Time
  <2> QED  BY <1>1, <2>1, <2>2, OutsideStep DEF IInv, Typed
<1>5. CASE WakeUp \/ Poll \/ USleepEnds
  <2>1. pc' \in {"fds", "loop_fds", "loop"} /\ UNCHANGED wake
    BY <1>5 DEF WakeUp, Poll, USleepEnds, frame
  <2> QED  BY <1>2, <1>3, <2>1
<1>6. CASE Handled
  <2>1. \/ pc' \in {"get", "last_get", "drain"} /\ wake' = Off
        \/ pc' = "usleep" /\ events = <<>> /\ wake' = now + 1
    BY <1>6 DEF Handled, Back
  <2>2. Off \in Time
    BY DEF Time
  <2> QED  BY <1>3, <1>4, <2>1, <2>2
<1> QED  BY <1>5, <1>6

LEMMA HandleStep ==
  ASSUME IInv, NEW f, Handle(f)
  PROVE  IInv'
<1>1. pc \in {"fds", "loop_fds"} /\ UNCHANGED <<pc, caller, timeout, wake, fired>>
  BY DEF Handle
<1>2. ~ InProcess /\ ~ InProcess' /\ ~ Asleep
  BY <1>1 DEF InProcess, Asleep
<1>3. CASE Operation
  BY <1>1, <1>2, <1>3, OperationStep
<1>4. CASE UNCHANGED <<timers, tasks>>
  <2>1. NoSleepOnWork'
    BY <1>1 DEF NoSleepOnWork
  <2> QED  BY <1>1, <1>2, <1>4, <2>1, OutsideStep DEF IInv, Typed
<1> QED  BY <1>3, <1>4 DEF Handle

LEMMA StutterStep ==
  ASSUME IInv, UNCHANGED vars
  PROVE  IInv'
<1>1. UNCHANGED <<now, armed, later, call, cb, running, waiting, events, pc, caller, timeout, wake, fired>>
  BY DEF vars, timers, tasks, frame
<1>2. Typed' /\ CallIsOpen' /\ TaskTimerIsDue'
  BY <1>1 DEF IInv, Typed, CallIsOpen, TaskTimerIsDue, InProcess
<1>3. TaskTimerRuns' /\ NoEventsYet' /\ NoSleepOnWork'
  BY <1>1 DEF IInv, TaskTimerRuns, NoEventsYet, NoSleepOnWork, TasksQueued, Running, Waits, Expirations
<1> QED  BY <1>2, <1>3 DEF IInv

-----------------------------------------------------------------------------
LEMMA InitIsInvariant == Init => IInv
<1> SUFFICES ASSUME Init PROVE IInv
  OBVIOUS
<1>1. /\ now = 0 /\ call = Off /\ cb = NULL /\ running = NULL /\ \A p \in 1 .. 3 : waiting[p] = <<>>
      /\ armed = [t \in AllTimers |-> Off] /\ later = [t \in AllTimers |-> Off]
      /\ pc = "app" /\ timeout = Off /\ wake = Off /\ fired = FALSE
  BY DEF Init, Q!Init
<1>2. backend_task_timer \in AllTimers /\ Off \in Time /\ 0 \in Time
  BY DEF AllTimers, Time
<1>3. Typed
  BY <1>1, <1>2 DEF Typed
<1>4. CallIsOpen /\ TaskTimerIsDue /\ NoEventsYet /\ NoSleepOnWork
  BY <1>1, <1>2 DEF CallIsOpen, TaskTimerIsDue, NoEventsYet, NoSleepOnWork, InProcess
<1>5. TaskTimerRuns
  BY <1>1 DEF TaskTimerRuns, TasksQueued
<1> QED  BY <1>3, <1>4, <1>5 DEF IInv

(* The invariant of the main loop is inductive: in a call of               *)
(* gp_timer_queue_process() or out of it, whatever callbacks, handlers and *)
(* the program did between.                                                *)
THEOREM InductiveInvariant == Spec => []IInv
<1>1. Init => IInv
  BY InitIsInvariant
<1>2. IInv /\ [Next]_vars => IInv'
  <2> SUFFICES ASSUME IInv, [Next]_vars PROVE IInv'
    OBVIOUS
  <2>1. CASE Program
    <3>1. /\ pc = "app" /\ Operation /\ UNCHANGED <<pc, timeout, wake, fired>>
      BY <2>1 DEF Program, frame
    <3>2. ~ InProcess /\ ~ Asleep
      BY <3>1 DEF InProcess, Asleep
    <3> QED  BY <3>1, <3>2, OperationStep
  <2>2. CASE Tick \/ TaskInserts
    BY <2>2, TickStep, TaskInsertsStep
  <2>3. CASE Arrive \/ Call \/ GetEvent \/ NoEvent \/ ProgramWakes
    BY <2>3, CallSteps, NoEventStep
  <2>4. CASE Enter \/ ProcessTop \/ timer_pushevent_callback \/ TaskStarts \/ backend_task_dispatch
    BY <2>4, EnterStep, ProcessTopStep, PushEventStep, TaskStartsStep, DispatchStep
  <2>5. CASE TimersDone \/ LoopStarts \/ LoopTimersDone
    BY <2>5, TimersDoneStep, LoopStartsStep, LoopTimersDoneStep
  <2>6. CASE WakeUp \/ Poll \/ Handled \/ USleepEnds \/ \E f \in Sources : Handle(f)
    BY <2>6, PollSteps, HandleStep
  <2>7. CASE UNCHANGED vars
    BY <2>7, StutterStep
  <2> QED  BY <2>1, <2>2, <2>3, <2>4, <2>5, <2>6, <2>7 DEF Next, Loop
<1> QED  BY <1>1, <1>2, PTL DEF Spec

(* While there are tasks the timer that dispatches them is armed, runs, or *)
(* is about to be put back, whoever inserted them and from where.          *)
THEOREM TaskTimerKeepsRunning == Spec => []TaskTimerRuns
<1>1. IInv => TaskTimerRuns
  BY DEF IInv
<1> QED  BY <1>1, InductiveInvariant, PTL

(* The loop does not go to sleep with events or tasks waiting, nor without *)
(* a timeout while timers are armed.                                       *)
THEOREM NeverSleepsOnWork == Spec => []NoSleepOnWork
<1>1. IInv => NoSleepOnWork
  BY DEF IInv
<1> QED  BY <1>1, InductiveInvariant, PTL

-----------------------------------------------------------------------------
(* The types of what the other proofs do not need.                         *)
EventsTyped == events \in Seq(Event) /\ Len(events) <= QueueSize

TasksTyped ==
  /\ waiting \in [1 .. 3 -> Seq(Tasks)]
  /\ running \in Tasks \cup {NULL}

SourcesTyped == ready \subseteq Sources /\ batch \subseteq ready

RestTyped == EventsTyped /\ TasksTyped /\ SourcesTyped /\ own = Off

LEMMA EventSteps ==
  ASSUME EventsTyped
  PROVE  /\ \A e \in Event : E!Put(e) => EventsTyped'
         /\ gp_backend_ev_get => EventsTyped'
         /\ UNCHANGED events => EventsTyped'
<1>1. ASSUME NEW e \in Event, E!Put(e) PROVE EventsTyped'
  <2>1. CASE Len(events) < QueueSize
    <3>1. events' = Append(events, e)
      BY <1>1, <2>1 DEF E!Put
    <3>2. events' \in Seq(Event) /\ Len(events') = Len(events) + 1 /\ Len(events) \in Nat
      BY <1>1, <3>1 DEF EventsTyped
    <3> QED  BY <2>1, <3>2, BackendAssumption DEF EventsTyped
  <2>2. CASE ~ (Len(events) < QueueSize)
    BY <1>1, <2>2 DEF E!Put, EventsTyped
  <2> QED  BY <2>1, <2>2
<1>2. ASSUME gp_backend_ev_get PROVE EventsTyped'
  <2>1. events # <<>> /\ events \in Seq(Event)
    BY <1>2 DEF gp_backend_ev_get, EventsTyped
  <2>2. Tail(events) \in Seq(Event) /\ Len(Tail(events)) = Len(events) - 1 /\ Len(events) \in Nat
    BY <2>1
  <2>3. CASE events' = Tail(events)
    BY <2>2, <2>3, BackendAssumption DEF EventsTyped
  <2>4. CASE events' = Append(Tail(events), "backlight")
    <3>1. "backlight" \in Event
      BY DEF Event
    <3>2. events' \in Seq(Event) /\ Len(events') = Len(Tail(events)) + 1
      BY <2>2, <2>4, <3>1
    <3> QED  BY <2>2, <3>2 DEF EventsTyped
  <2> QED  BY <1>2, <2>3, <2>4 DEF gp_backend_ev_get
<1>3. ASSUME UNCHANGED events PROVE EventsTyped'
  BY <1>3 DEF EventsTyped
<1> QED  BY <1>1, <1>2, <1>3

LEMMA TaskSteps ==
  ASSUME TasksTyped
  PROVE  /\ \A t \in Tasks : Q!Insert(t) => TasksTyped'
         /\ \A p \in 1 .. 3 : Q!Run(p) => TasksTyped'
         /\ Q!Done \/ Q!Yield => TasksTyped'
         /\ UNCHANGED tasks => TasksTyped'
<1>1. ASSUME NEW t \in Tasks, Q!Insert(t) PROVE TasksTyped'
  BY <1>1 DEF Q!Insert, TasksTyped
<1>2. ASSUME NEW p \in 1 .. 3, Q!Run(p) PROVE TasksTyped'
  <2>1. waiting[p] \in Seq(Tasks) /\ waiting[p] # <<>>
    BY <1>2 DEF Q!Run, TasksTyped
  <2>2. Head(waiting[p]) \in Tasks /\ Tail(waiting[p]) \in Seq(Tasks)
    BY <2>1
  <2> QED  BY <1>2, <2>2 DEF Q!Run, TasksTyped
<1>3. ASSUME Q!Done PROVE TasksTyped'
  BY <1>3 DEF Q!Done, TasksTyped
<1>4. ASSUME Q!Yield PROVE TasksTyped'
  <2>1. running \in Tasks
    BY <1>4 DEF Q!Yield, TasksTyped
  <2> DEFINE p == TaskPrio[running]
  <2>2. waiting' = [waiting EXCEPT ![p] = Append(@, running)] /\ running' = NULL
    BY <1>4 DEF Q!Yield
  <2> HIDE DEF p
  <2>3. CASE p \in 1 .. 3
    <3>1. Append(waiting[p], running) \in Seq(Tasks)
      BY <2>1, <2>3 DEF TasksTyped
    <3> QED  BY <2>2, <2>3, <3>1 DEF TasksTyped
  <2>4. CASE p \notin 1 .. 3
    <3>1. waiting' = waiting
      BY <2>2, <2>4 DEF TasksTyped
    <3> QED  BY <2>2, <3>1 DEF TasksTyped
  <2> QED  BY <2>3, <2>4
<1>5. ASSUME UNCHANGED tasks PROVE TasksTyped'
  BY <1>5 DEF tasks, TasksTyped
<1> QED  BY <1>1, <1>2, <1>3, <1>4, <1>5

LEMMA OperationKeepsRest ==
  ASSUME EventsTyped, TasksTyped, own = Off, Operation \/ \E t \in Tasks : gp_backend_task_ins(t)
  PROVE  EventsTyped' /\ TasksTyped' /\ own' = Off
<1>1. ASSUME NEW t \in Tasks, gp_backend_task_ins(t)
      PROVE  TasksTyped' /\ UNCHANGED <<own, events>>
  <2>1. TasksTyped'
    BY <1>1, TaskSteps DEF gp_backend_task_ins
  <2>2. UNCHANGED <<own, events>>
    BY <1>1 DEF gp_backend_task_ins, start_task_timer, gp_timer_queue_ins, timers, T!Start
  <2> QED  BY <2>1, <2>2
<1>2. CASE \E t \in Tasks : gp_backend_task_ins(t)
  BY <1>1, <1>2, EventSteps
<1>3. CASE \E t \in Timers, d \in Delays : gp_backend_timer_start(t, d) \/ gp_backend_timer_reschedule(t, d)
  <2>1. UNCHANGED <<own, tasks, events>>
    BY <1>3 DEF gp_backend_timer_start, gp_backend_timer_reschedule, gp_timer_queue_ins, timers, T!Start
  <2> QED  BY <2>1, EventSteps, TaskSteps
<1>4. CASE \E t \in Timers : gp_backend_timer_stop(t)
  <2>1. UNCHANGED <<own, tasks, events>>
    BY <1>4 DEF gp_backend_timer_stop, T!Stop
  <2> QED  BY <2>1, EventSteps, TaskSteps
<1> QED  BY <1>2, <1>3, <1>4 DEF Operation

LEMMA StepKeepsRest == RestTyped /\ [Next]_vars => RestTyped'
<1> SUFFICES ASSUME RestTyped, [Next]_vars PROVE RestTyped'
  OBVIOUS
<1>0. EventsTyped /\ TasksTyped /\ SourcesTyped /\ own = Off
  BY DEF RestTyped
<1> DEFINE Steady == Sources' = Sources /\ ready' = ready /\ batch' \in {batch, ready}
<1>1. Steady => SourcesTyped'
  BY <1>0 DEF SourcesTyped
<1>2. UNCHANGED setup => Sources' = Sources
  BY DEF setup, Sources
<1>3. CASE \/ Tick \/ Call \/ NoEvent \/ ProgramWakes \/ Enter \/ ProcessTop \/ TimersDone \/ WakeUp
           \/ LoopStarts \/ LoopTimersDone \/ Poll \/ Handled \/ USleepEnds \/ UNCHANGED vars
  <2>1. UNCHANGED <<tasks, events, setup, own>> /\ ready' = ready /\ batch' \in {batch, ready}
    BY <1>3 DEF Tick, Call, NoEvent, ProgramWakes, Enter, ProcessTop, TimersDone, WakeUp, LoopStarts,
                LoopTimersDone, Poll, Handled, USleepEnds, vars, timers, frame, InTimers,
                T!Advance, T!Begin, T!Fire, T!End
  <2> QED  BY <1>0, <1>1, <1>2, <2>1, EventSteps, TaskSteps DEF RestTyped
<1>4. CASE Arrive
  <2>1. UNCHANGED <<tasks, events, setup, own, batch>> /\ ready \subseteq ready' /\ ready' \subseteq Sources
    BY <1>0, <1>4 DEF Arrive, timers, frame, SourcesTyped
  <2> QED  BY <1>0, <1>2, <2>1, EventSteps, TaskSteps DEF RestTyped, SourcesTyped
<1>5. CASE Program
  <2>1. Operation /\ UNCHANGED <<setup, ready, batch>>
    BY <1>5 DEF Program, frame
  <2> QED  BY <1>0, <1>1, <1>2, <2>1, OperationKeepsRest DEF RestTyped
<1>6. CASE TaskInserts
  <2>1. (\E t \in Tasks : gp_backend_task_ins(t)) /\ UNCHANGED <<setup, ready, batch>>
    BY <1>6 DEF TaskInserts, InTimers
  <2> QED  BY <1>0, <1>1, <1>2, <2>1, OperationKeepsRest DEF RestTyped
<1>7. CASE GetEvent
  <2>1. gp_backend_ev_get /\ UNCHANGED <<tasks, setup, own, ready, batch>>
    BY <1>7 DEF GetEvent, gp_backend_ev_get, timers, frame
  <2> QED  BY <1>0, <1>1, <1>2, <2>1, EventSteps, TaskSteps DEF RestTyped
<1>8. CASE timer_pushevent_callback
  <2>1. E!Put("timer") /\ "timer" \in Event
    BY <1>8 DEF timer_pushevent_callback, Event
  <2>2. UNCHANGED <<tasks, setup, ready, batch>> /\ own' = Off
    BY <1>8 DEF timer_pushevent_callback, InTimers, T!Return
  <2> QED  BY <1>0, <1>1, <1>2, <2>1, <2>2, EventSteps, TaskSteps DEF RestTyped
<1>9. CASE TaskStarts
  <2>1. UNCHANGED <<events, setup, own, ready, batch>> /\ \E p \in 1 .. 3 : Q!Run(p)
    BY <1>9 DEF TaskStarts, InTimers, timers
  <2> QED  BY <1>0, <1>1, <1>2, <2>1, EventSteps, TaskSteps DEF RestTyped
<1>10. CASE backend_task_dispatch
  <2>1. UNCHANGED <<events, setup, ready, batch>> /\ own' = Off
    BY <1>10 DEF backend_task_dispatch, InTimers, T!Return
  <2>2. Q!Done \/ Q!Yield \/ UNCHANGED tasks
    BY <1>10 DEF backend_task_dispatch
  <2> QED  BY <1>0, <1>1, <1>2, <2>1, <2>2, EventSteps, TaskSteps DEF RestTyped
<1>11. ASSUME NEW f \in Sources, Handle(f) PROVE RestTyped'
  <2>1. SourcesTyped'
    BY <1>0, <1>2, <1>11 DEF Handle, SourcesTyped
  <2>2. EventsTyped' /\ TasksTyped' /\ own' = Off
    <3>1. CASE \E e \in {"input", "brightness"} : E!Put(e) /\ UNCHANGED <<timers, tasks>>
      BY <1>0, <3>1, EventSteps, TaskSteps DEF Event, timers
    <3>2. CASE Operation
      BY <1>0, <3>2, OperationKeepsRest
    <3>3. CASE UNCHANGED <<timers, tasks, events>>
      BY <1>0, <3>3, EventSteps, TaskSteps DEF timers
    <3> QED  BY <1>11, <3>1, <3>2, <3>3 DEF Handle
  <2> QED  BY <2>1, <2>2 DEF RestTyped
<1> QED  BY <1>3, <1>4, <1>5, <1>6, <1>7, <1>8, <1>9, <1>10, <1>11 DEF Next, Loop

(* The event queue of the loop never overflows, what it polls is among its *)
(* sources, and no timer is armed for a time that is none.                 *)
THEOREM TypeCorrect == Spec => []TypeOK
<1>1. Init => RestTyped
  <2> SUFFICES ASSUME Init PROVE RestTyped
    OBVIOUS
  <2>1. EventsTyped
    BY BackendAssumption DEF Init, E!Init, EventsTyped
  <2>2. TasksTyped
    BY DEF Init, Q!Init, TasksTyped
  <2> QED  BY <2>1, <2>2 DEF Init, RestTyped, SourcesTyped
<1>2. IInv /\ RestTyped => TypeOK
  BY DEF IInv, Typed, Time, RestTyped, EventsTyped, TasksTyped, SourcesTyped, TypeOK
<1> QED  BY <1>1, <1>2, StepKeepsRest, InductiveInvariant, PTL DEF Spec
=============================================================================
