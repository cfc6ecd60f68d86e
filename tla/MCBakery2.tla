------------------------------ MODULE MCBakery2 ------------------------------
(* Bakery2 for TLC: clients are interchangeable. *)
EXTENDS Bakery2, TLC

Symmetry == Permutations(Clients)
=============================================================================
