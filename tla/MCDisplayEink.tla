---------------------------- MODULE MCDisplayEink ----------------------------
(***************************************************************************)
(* A display of four columns: rectangles can be apart, overlap and touch.  *)
(***************************************************************************)
EXTENDS DisplayEink

MCWidth == 4

=============================================================================
