------------------------------ MODULE MCProxy ------------------------------
(* An application on a display of two sizes.                               *)
EXTENDS Proxy
=============================================================================
