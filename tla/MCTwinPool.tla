----------------------------- MODULE MCTwinPool -----------------------------
(* A small pool for TLC. *)
EXTENDS TwinPool, TLC

CONSTANTS f1, f2, t1, t2, s1, s2

Symmetry == Permutations(File) \union Permutations(Task) \union Permutations(Call)
=============================================================================
