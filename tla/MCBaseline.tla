----------------------------- MODULE MCBaseline -----------------------------
(***************************************************************************)
(* Values for the constants of BaselineRing.                               *)
(***************************************************************************)
EXTENDS BaselineRing

\* Three days that with their end fit into a ring of 4, the second just so and
\* using the buffer in which the first and the third end, one that does not fit,
\* and after it a day, an entry without orders, and a last day.
MCSegments == <<1, 3, 1, 4, 2, 0, 1>>

\* All entries, those after the day that is too long, the last day, none.
MCStartDates == {None, 5, 7, 8}

=============================================================================
