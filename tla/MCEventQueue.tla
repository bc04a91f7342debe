----------------------------- MODULE MCEventQueue -----------------------------
(***************************************************************************)
(* A ring of three slots, so that it is full with two events and wraps     *)
(* after three, one key, and a screen that is resized between two widths.  *)
(***************************************************************************)
EXTENDS EventQueue

CONSTANT k1

MCKeys == {k1}
MCQueueSize == 3
MCRels == -1 .. 2
MCAbsMax == 1
MCWidths == {1, 2}

=============================================================================
