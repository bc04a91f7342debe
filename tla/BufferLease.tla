---------------------------- MODULE BufferLease ----------------------------
(* What the messages around the shared buffer of the proxy are for: it is  *)
(* lent to the application at most once at a time, and has a new size only *)
(* when nobody has it. Lending may come with a new size.                   *)
EXTENDS Naturals

CONSTANT Sizes
VARIABLES size, lent
vars == <<size, lent>>

Init == size \in Sizes /\ lent = 0

Lend == lent = 0 /\ lent' = 1 /\ size' \in Sizes

Return == lent = 1 /\ lent' = 0 /\ UNCHANGED size

Resize == lent = 0 /\ size' \in Sizes /\ UNCHANGED lent

Next == Lend \/ Return \/ Resize

Spec == Init /\ [][Next]_vars
=============================================================================
