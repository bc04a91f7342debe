------------------------------ MODULE TimerSched ------------------------------
(***************************************************************************)
(* What the timer queue of libs/utils/gp_timer.c promises                  *)
(* (include/utils/gp_timer.h), without its heap: each call to process the  *)
(* queue runs every timer that is due, earliest first and each once, and a *)
(* timer that is rescheduled, even for now, waits for the next call.       *)
(***************************************************************************)
EXTENDS Integers

CONSTANTS
  Timers,
  Times,       \* the points in time there are
  Off,         \* no point in time
  NULL         \* no timer

VARIABLES
  now,
  armed,       \* when each timer is to expire, or Off
  later,       \* timers that ran in the current call: when they expire next
  call,        \* the time the current call was made with, or Off
  cb,          \* the timer whose callback runs, or NULL
  own          \* what that callback asked of its own timer: a time, Off if
               \* nothing, or NULL if it stopped it

vars == <<now, armed, later, call, cb, own>>

Init ==
  /\ now \in Times
  /\ armed = [t \in Timers |-> Off]
  /\ later = [t \in Timers |-> Off]
  /\ call = Off
  /\ cb = NULL
  /\ own = Off

Advance ==
  /\ now' \in {x \in Times : x > now}
  /\ UNCHANGED <<armed, later, call, cb, own>>

Start(t) ==
  /\ call = Off
  /\ armed[t] = Off
  /\ \E x \in Times : x >= now /\ armed' = [armed EXCEPT ![t] = x]
  /\ UNCHANGED <<now, later, call, cb, own>>

Stop(t) ==
  /\ call = Off
  /\ armed' = [armed EXCEPT ![t] = Off]
  /\ UNCHANGED <<now, later, call, cb, own>>

Begin ==
  /\ call = Off
  /\ call' = now
  /\ UNCHANGED <<now, armed, later, cb, own>>

Fire(t) ==
  /\ call # Off /\ cb = NULL
  /\ armed[t] # Off /\ armed[t] <= call
  /\ \A u \in Timers : armed[u] # Off => armed[t] <= armed[u]
  /\ cb' = t
  /\ armed' = [armed EXCEPT ![t] = Off]
  /\ UNCHANGED <<now, later, call, own>>

(* The last request a callback makes about its own timer counts.           *)
Own ==
  /\ cb # NULL
  /\ own' \in {NULL} \cup {x \in Times : x >= now}
  /\ UNCHANGED <<now, armed, later, call, cb>>

(* It overrides the value the callback returns.                            *)
Return ==
  /\ cb # NULL
  /\ \/ own = Off /\ \E x \in {Off} \cup {y \in Times : y >= call} :
                       later' = [later EXCEPT ![cb] = x]
     \/ own = NULL /\ UNCHANGED later
     \/ own \notin {Off, NULL} /\ later' = [later EXCEPT ![cb] = own]
  /\ cb' = NULL
  /\ own' = Off
  /\ UNCHANGED <<now, armed, call>>

End ==
  /\ call # Off /\ cb = NULL
  /\ \A t \in Timers : armed[t] = Off \/ armed[t] > call
  /\ armed' = [t \in Timers |-> IF later[t] = Off THEN armed[t] ELSE later[t]]
  /\ later' = [t \in Timers |-> Off]
  /\ call' = Off
  /\ UNCHANGED <<now, cb, own>>

Next ==
  \/ Advance
  \/ \E t \in Timers : Start(t) \/ Stop(t) \/ Fire(t)
  \/ Begin \/ Own \/ Return \/ End

Spec == Init /\ [][Next]_vars

=============================================================================
