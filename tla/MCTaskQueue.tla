---------------------------- MODULE MCTaskQueue ----------------------------
(* Three tasks of the urgent priority, so that a list has a middle, one of *)
(* the next, two of the last, and one whose priority the queue rejects.    *)
EXTENDS TaskQueue

CONSTANTS a1, a2, a3, b1, c1, c2, bad

MCTasks == {a1, a2, a3, b1, c1, c2, bad}
MCTaskPrio ==
  [t \in MCTasks |-> CASE t \in {a1, a2, a3} -> 1 [] t = b1 -> 2
                       [] t \in {c1, c2} -> 3 [] t = bad -> 0]

=============================================================================
