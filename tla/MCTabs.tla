------------------------------- MODULE MCTabs -------------------------------
(* Model values and budgets for Tabs. *)
EXTENDS Tabs

CONSTANTS a, b, g, start, c1, home, other, away

Mixes == {[moves |-> 2, others |-> 2, clicks |-> 0, turns |-> 1],
          [moves |-> 1, others |-> 1, clicks |-> 1, turns |-> 1],
          [moves |-> 2, others |-> 0, clicks |-> 1, turns |-> 0]}
=============================================================================
