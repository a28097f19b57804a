---------------------------- MODULE MCConnection ----------------------------
(* Model values for Connection. *)
EXTENDS Connection

CONSTANTS k1, k2, e1
=============================================================================
