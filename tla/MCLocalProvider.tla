-------------------------- MODULE MCLocalProvider --------------------------
(* Callers are interchangeable. *)
EXTENDS LocalProvider, TLC

Symmetry == Permutations(Procs)
=============================================================================
