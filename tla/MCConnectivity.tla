--------------------------- MODULE MCConnectivity ---------------------------
(* Model-checking instance of Connectivity. *)
EXTENDS Connectivity

MCTimeouts == {-1, 0, 1, 2}
=============================================================================
