---------------------------- MODULE MCConnection ----------------------------
(* Connection for TLC: interface objects are interchangeable.              *)
EXTENDS Connection, TLC

InterfaceSymmetry == Permutations(Interfaces)
=============================================================================
