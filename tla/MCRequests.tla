----------------------------- MODULE MCRequests -----------------------------
(* Small instances of Requests for TLC: s1 is a ChatGPT turn, s2 a generic  *)
(* one unless both are put in the same session.                            *)
EXTENDS Requests

CONSTANTS s1, s2, r1, r2, n1, g1

OwnIds      == [s \in Send |-> IF s = s1 THEN r1 ELSE r2]
NativeOnly  == [s \in Send |-> n1]
GenericOnly == [s \in Send |-> g1]
=============================================================================
