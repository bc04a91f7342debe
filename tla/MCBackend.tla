------------------------------- MODULE MCBackend -------------------------------
(***************************************************************************)
(* Two tasks of two priorities, a timer that fires once, in each turn or   *)
(* again and again, a file descriptor and a library, and room for two      *)
(* events.                                                                 *)
(***************************************************************************)
EXTENDS Backend, TLC

CONSTANTS a, b, u, f1

MCTasks == {a, b}
MCTaskPrio == (a :> 1) @@ (b :> 2)
MCTimers == {u}
MCPeriods == {-1, 0, 1}
MCFds == {f1}
MCDelays == {1}
MCTimeouts == {-1, 1}
MCMaxNow == 2
MCMaxTime == 3
MCQueueSize == 2

=============================================================================
