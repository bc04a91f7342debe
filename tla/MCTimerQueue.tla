----------------------------- MODULE MCTimerQueue -----------------------------
(***************************************************************************)
(* Three timers, started, stopped, rescheduled and freed in any order,     *)
(* from outside and from their callbacks, over MCMaxNow + 1 instants.  The *)
(* delays make timers due at once, due together and due later than others  *)
(* that were started after them.                                           *)
(***************************************************************************)
EXTENDS TimerQueue

CONSTANTS t1, t2, t3

MCTimers == {t1, t2, t3}
MCDelays == {0, 2}
MCMaxNow == 2
MCUINT32_MAX == 7

=============================================================================
