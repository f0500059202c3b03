-------------------------- MODULE MCRuntimeProvider --------------------------
(* Small instance of RuntimeProvider for TLC. *)
EXTENDS RuntimeProvider, TLC
CallSymmetry == Permutations(Calls)
=============================================================================
