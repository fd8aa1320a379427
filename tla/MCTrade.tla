------------------------------- MODULE MCTrade -------------------------------
(***************************************************************************)
(* Instruments for TradeReports: names of two characters out of three, the *)
(* first in the lowest digit.                                              *)
(***************************************************************************)
EXTENDS TradeReports

Named(first, second) == first + second * CharSpan

\* 3, 6 and 5: their order as names is not their order as numbers.  In a table of
\* four slots each has a home of its own.
MCApart == {Named(0, 1), Named(0, 2), Named(2, 1)}

\* 3 and 7, at home in the last slot of a table of four, and 4, in the first: the
\* probe for the second of them runs over the end of the table into the third.
MCTogether == {Named(0, 1), Named(1, 2), Named(1, 1)}

=============================================================================
