------------------------------ MODULE MCTransfer ------------------------------
(***************************************************************************)
(* Values for the constants of ResultTransfer.                             *)
(***************************************************************************)
EXTENDS ResultTransfer, TLC

CONSTANTS w1, w2

\* The second result of w1 comes when there may be no socket left.
MCDays == (w1 :> 2) @@ (w2 :> 1)

\* One session without TWAP orders, one with more than the buffer takes.
MCTwapLen == (w1 :> 3) @@ (w2 :> 0)

=============================================================================
