------------------------------- MODULE EventFifo -------------------------------
(***************************************************************************)
(* What the event queue promises its readers (doc/event_queue.txt): events *)
(* come out in the order they went in, each once; when Capacity events are *)
(* waiting, new ones are dropped and none of the waiting is harmed; an     *)
(* event that was read may be put back to the front.                       *)
(***************************************************************************)
EXTENDS Sequences, Naturals

CONSTANTS
  Event,
  Capacity

VARIABLE waiting

Init == waiting = <<>>

Put(e) == waiting' = IF Len(waiting) < Capacity THEN Append(waiting, e) ELSE waiting

Get == waiting # <<>> /\ waiting' = Tail(waiting)

PutBack(e) == waiting' = IF Len(waiting) < Capacity THEN <<e>> \o waiting ELSE waiting

Next == Get \/ \E e \in Event : Put(e) \/ PutBack(e)

Spec == Init /\ [][Next]_waiting

=============================================================================
