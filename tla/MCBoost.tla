------------------------------- MODULE MCBoost ------------------------------
(* Instances of Boost for TLC.                                             *)
EXTENDS Boost, TLC

Symmetry == Permutations(Owners) \cup Permutations(Requests \ Owners)
=============================================================================
