------------------------------ MODULE MCDataSync ------------------------------
(* Small instance of DataSync for TLC; its calls are interchangeable. *)
EXTENDS DataSync, TLC
CallSymmetry == Permutations(Calls)
=============================================================================
