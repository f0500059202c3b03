-------------------------- MODULE MCCanonicalComics --------------------------
(* Small instance of CanonicalComics for TLC. *)
EXTENDS CanonicalComics, TLC
CONSTANTS i1, i2, i3

\* i3 is i2 with other whitespace.
MCCanonical == [i \in Inputs |-> IF i = i3 THEN i2 ELSE i]
=============================================================================
