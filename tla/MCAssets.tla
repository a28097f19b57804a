------------------------------ MODULE MCAssets ------------------------------
(* A small instance of Assets for TLC.                                        *)
EXTENDS Assets

\* Filtered is SelectSeq on every sequence the registry can hold and one longer.
ASSUME FilteredIsSelectSeq ==
    \A s \in SUBSET Asset : \A o \in BoundedSeq(Asset, 4) : Filtered(o, s) = SelectSeq(o, LAMBDA a : a \in s)
=============================================================================
