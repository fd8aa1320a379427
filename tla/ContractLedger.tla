--------------------------- MODULE ContractLedger ---------------------------
(***************************************************************************)
(* What the totals of a contract engine add up to.  These properties sum   *)
(* over the book and the TWAP schedule; they are kept apart from the       *)
(* specification, so that its own proofs need no folds.                    *)
(***************************************************************************)
EXTENDS ContractEngine, FiniteSets, Functions

\* Signed: what an order would add to the position if all of it traded.
PositionOf == [o \in Order |-> IF o.direction = Buy THEN o.volume ELSE -o.volume]

VolumeOf == [o \in Order |-> o.volume]

TotalVolume(orders)   == SumFunctionOnSet(VolumeOf, orders)
TotalPosition(orders) == SumFunctionOnSet(PositionOf, orders)

Scheduled == {twapOrders[j] : j \in twapHead + 1..Len(twapOrders)}

OursAtWork == {o \in Resting(Sale) \cup Resting(Buy) : o.type = MyContract}

\* The position of the alpha is the position held, plus what still rests in
\* the book or waits in the schedule: no share of an alpha is lost by the TWAP
\* formula, by a slice of volume 0, by a partial fill or by AllOrNothing taking
\* orders out of the book.  A trade between two orders of our own books only
\* the sale, so its volume is missing from the position afterwards.
PositionAddsUp ==
  targetVolume = volume + TotalPosition(OursAtWork) + TotalPosition(Scheduled) + selfTraded

\* Volume of one side: at rest, collected, or in hand and executing.
Supply(direction) ==
  TotalVolume(Resting(direction))
    + (IF pc \in {"sweep", "collect", "fill", "cancel"} /\ order.direction = direction
         THEN order.volume ELSE 0)

\* A trade takes the same volume from both sides, and nothing else takes any
\* while an order executes.
TradesTakeBothSides ==
  [][/\ pc \in {"match", "sweep", "collect", "fill", "cancel"}
     /\ pc' \in {pc, "fill", "cancel"}
     => Supply(Sale) - Supply(Sale)' = Supply(Buy) - Supply(Buy)']_vars

\* BestFivePriceNoLeft trades at no more than five prices.
AtMostBestLevels ==
  order.type = BestFivePriceNoLeft =>
    Cardinality({tape[i] : i \in DOMAIN tape}) <= BestLevels

=============================================================================
