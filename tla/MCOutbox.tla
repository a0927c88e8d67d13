------------------------------ MODULE MCOutbox ------------------------------
(* Instances of Outbox for TLC.  Relays and API transactions are           *)
(* interchangeable: ids and nothing else order them.                       *)
EXTENDS Outbox, TLC

Symmetry == Permutations(Events) \cup Permutations(Relays)
=============================================================================
