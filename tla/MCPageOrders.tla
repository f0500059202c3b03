----------------------------- MODULE MCPageOrders -----------------------------
(* Small instance of PageOrders for TLC. *)
EXTENDS PageOrders, TLC
CONSTANTS p1, p2, foreign

MCSourceOrder == <<p1, p2>>

\* The other order, a page twice, a page of another chapter.
MCRequested == {<<p2, p1>>, <<p2, p2>>, <<p1, foreign>>}

Symmetry == Permutations(Writers) \cup Permutations(Readers) \cup Permutations(OrderIds)
=============================================================================
