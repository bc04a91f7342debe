------------------------------- MODULE MCSpiv -------------------------------
(* Three files: two that are scaled down, the second larger than a cache,    *)
(* and one that does not load.                                               *)
EXTENDS Spiv

MCFitRatio == 0 :> 0 @@ 1 :> 0 @@ 2 :> 1
MCOrigSize == 0 :> 1 @@ 1 :> 5 @@ 2 :> 2
MCResizedSize == [i \in 0 .. 2, r \in {0, 1} |-> IF i = 0 THEN 1 ELSE 4]
=============================================================================
