------------------------------- MODULE MCAuth -------------------------------
(* Instances of Auth for TLC.                                              *)
EXTENDS Auth, TLC

Symmetry == Permutations(Requests) \cup Permutations(Tokens)
=============================================================================
