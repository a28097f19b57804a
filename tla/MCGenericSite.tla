---------------------------- MODULE MCGenericSite ----------------------------
(* A small instance of GenericSite for TLC. *)
EXTENDS GenericSite, TLC

Symmetry == Permutations(Page) \cup Permutations(Route) \cup Permutations(Control)
=============================================================================
