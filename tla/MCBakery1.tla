------------------------------ MODULE MCBakery1 ------------------------------
(* Bakery1 for TLC: clients and thread descriptors are interchangeable. *)
EXTENDS Bakery1Inv, TLC

Symmetry == Permutations(Clients) \cup Permutations(Threads)
=============================================================================
