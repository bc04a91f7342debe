------------------------------ MODULE MCGpHeap ------------------------------
(* The heap operations from every heap they can build: seven nodes fill    *)
(* three levels, so that the node that replaces a removed one may come     *)
(* from the other side of the tree and has to move up as well as down.     *)
EXTENDS HeapUser, TLC

Symmetry == Permutations(Nodes)

=============================================================================
