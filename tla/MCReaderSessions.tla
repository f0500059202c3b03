--------------------------- MODULE MCReaderSessions ---------------------------
(* Small instance of ReaderSessions for TLC. *)
EXTENDS ReaderSessions, TLC
CONSTANTS ch1, ch2, foreign, a, b, c, x

MCPages == {[id |-> a, chapter |-> ch1, index |-> 0],
            [id |-> b, chapter |-> ch1, index |-> 1],
            [id |-> c, chapter |-> ch2, index |-> 0],
            [id |-> x, chapter |-> foreign, index |-> 0]}

At(ch, i, page) == [chapter |-> ch, index |-> i, page |-> page]

\* With and without the page, in both chapters; a page of another index, an index no page
\* has, and a chapter of another comic.
MCPositions ==
  {At(ch1, 0, None), At(ch1, 1, None), At(ch1, 1, b), At(ch2, 0, c),
   At(ch1, 1, a), At(ch2, 1, None), At(foreign, 0, x)}

Symmetry == Permutations(Updaters) \cup Permutations(Resumers)
=============================================================================
