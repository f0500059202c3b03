---------------------------- MODULE MCReaderTarget ----------------------------
(* Small instance of ReaderTarget for TLC. *)
EXTENDS ReaderTarget, TLC
CONSTANTS local, web

\* Two chapters of one number, whose sources and ages decide, a later and an unnumbered one.
MCChapters == 1..4
MCNumber == <<7, 7, 8, None>>
MCCreated == <<5, 5, 3, 1>>

Link(c, p, o, s, parent) ==
  [chapter |-> c, platform |-> p, order |-> o, status |-> s, parent |-> parent]

\* Chapters on both platforms, without an order, and with links that are not active.
MCLinks ==
  {Link(1, web, 20, "active", "active"), Link(1, local, 40, "active", "active"),
   Link(2, local, 30, "active", "active"), Link(2, web, None, "active", "active"),
   Link(2, web, 10, "active", "stale"), Link(2, local, 5, "stale", "active"),
   Link(3, web, 1, "active", "active")}

Symmetry == Permutations(Updaters)
=============================================================================
