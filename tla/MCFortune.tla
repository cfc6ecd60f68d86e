----------------------------- MODULE MCFortune -----------------------------
(* Instance of Fortune for TLC; the processes are interchangeable.          *)
EXTENDS Fortune, TLC

ProcSymmetry == Permutations(Procs)
=============================================================================
