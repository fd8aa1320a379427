----------------------------- MODULE MCContract -----------------------------
(***************************************************************************)
(* Values for the constants of ContractEngine that a .cfg cannot write.    *)
(***************************************************************************)
EXTENDS ContractLedger

\* With a close of 1.00 the daily limits are 0.90 and 1.10 and Rule 3.3.16 lets
\* an order be 0.10 from the base price: the offsets are the extremes, and an
\* order at an extreme of the last one is refused.
MCPriceOffs == {-10, 0, 10}

\* A sale, a purchase, and differences that three slices do not divide.
MCTargets == {-2, 1}

=============================================================================
