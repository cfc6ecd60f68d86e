----------------------------- MODULE MCCatalog -----------------------------
(***************************************************************************)
(* Instance of Catalog for TLC: two names of different lengths, and three  *)
(* arguments.                                                              *)
(***************************************************************************)
EXTENDS Catalog, TLC

CONSTANTS na, nb

MCNames == {na, nb}
MCNameLen == na :> 1 @@ nb :> 2

(* a name in the start directory; one such as "././"; and "/"               *)
MCArguments ==
    {[len |-> 1, home |-> Outer, up |-> Outer], [len |-> 4, home |-> Root, up |-> Outer],
     [len |-> 1, home |-> Away, up |-> Root]}
=============================================================================
