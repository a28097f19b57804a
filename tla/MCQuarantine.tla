---------------------------- MODULE MCQuarantine ----------------------------
(* Small instances of Quarantine for TLC.                                  *)
EXTENDS Quarantine

CONSTANTS i1, i2, i3, p1, p2

OneProvider  == [i \in Identity |-> p1]
TwoProviders == [i \in Identity |-> IF i = i3 THEN p2 ELSE p1]
=============================================================================
