------------------------------- MODULE MCRing -------------------------------
(***************************************************************************)
(* Values for the constants of BufferRing.                                 *)
(***************************************************************************)
EXTENDS BufferRingDelivery

\* A day longer than the ring after a short one, then an entry without orders, and
\* such days again.
MCSegments == <<1, 3, 0, 1, 3, 1>>

\* All days, those from the entry without orders on, the three behind it, none.
MCStartDates == {None, 3, 4, 7}

=============================================================================
