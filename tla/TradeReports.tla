----------------------------- MODULE TradeReports -----------------------------
(***************************************************************************)
(* The two reports of a session: getTWAPOrders and getPNLAndPos of         *)
(* src/trade_engine.cpp.  They are sorted by the name of the instrument:   *)
(* its id holds the name with the first character in the lowest byte, so   *)
(* the ids are reversed, sorted as numbers, and reversed back.             *)
(*                                                                         *)
(* Every alpha stands for one slice of the schedule of its engine.         *)
(***************************************************************************)
EXTENDS TradeEngine

CONSTANTS
  CharSpan,     \* values of a character: 256
  IdLength      \* characters of a name: 8

\* What is left of an id after k characters are shifted out.
Rest(instrument, k) ==
  LET rest[j \in 0..IdLength] ==
        IF j = 0 THEN instrument ELSE rest[j - 1] \div CharSpan
  IN  rest[k]

ASSUME NameAssumption ==
  /\ CharSpan \in Nat \ {0, 1} /\ IdLength \in Nat \ {0}
  /\ \A instrument \in Instruments : Rest(instrument, IdLength) = 0

\* The k-th character of the name.
Char(instrument, k) == Rest(instrument, k - 1) % CharSpan

notReversed(instrument) == instrument     \* mutant: sorted as the numbers they are

reverseInstrumentId(instrument) ==
  LET result[i \in 0..IdLength] ==
        IF i = 0 THEN 0 ELSE result[i - 1] * CharSpan + Char(instrument, i)
  IN  result[IdLength]

\* std::sort: the entries in an order that Before does not contradict.
Sorted(entries, Before(_, _)) ==
  CHOOSE order \in [1..Cardinality(entries) -> entries] :
    \A k, l \in DOMAIN order :
      k < l => order[k] # order[l] /\ ~Before(order[l], order[k])

TwapBeforeByName(o1, o2) ==               \* mutant: the name counts first
  \/ o1.instrumentId < o2.instrumentId
  \/ o1.instrumentId = o2.instrumentId /\ o1.timestamp < o2.timestamp

\* twap_order::operator <
TwapBefore(o1, o2) ==
  \/ o1.timestamp < o2.timestamp
  \/ o1.timestamp = o2.timestamp /\ o1.instrumentId < o2.instrumentId

\* The id the reports are sorted by.
SortId(index) == reverseInstrumentId(contractEngines[index].instrument)

\* The slices of an engine, named by the engine and the alpha's place in its calls.
SlicesOf(index) ==
  {index} \X {j \in DOMAIN contractEngines[index].calls :
                contractEngines[index].calls[j].kind = "alpha"}

\* The entry of a slice, with the full timestamp.
TwapOrder(slice) ==
  [instrumentId |-> SortId(slice[1]),
   timestamp    |-> contractEngines[slice[1]].calls[slice[2]].timestamp + timestampOffset]

Slices == UNION {SlicesOf(index) : index \in 0..lastContract - 1}

getTWAPOrders ==
  LET sorted == Sorted(Slices, LAMBDA s, t : TwapBefore(TwapOrder(s), TwapOrder(t)))
  IN  [k \in DOMAIN sorted |->
         [TwapOrder(sorted[k]) EXCEPT !.instrumentId = reverseInstrumentId(@)]]

getPNLAndPos ==
  LET sorted == Sorted(0..lastContract - 1, LAMBDA i, j : SortId(i) < SortId(j))
  IN  [k \in DOMAIN sorted |-> reverseInstrumentId(SortId(sorted[k]))]

-----------------------------------------------------------------------------
(* Properties.                                                             *)

Reported == phase = "done" /\ ~crashed

\* The name of i is alphabetically before the name of j.
NamedBefore(i, j) ==
  \E k \in 1..IdLength : /\ Char(i, k) < Char(j, k)
                         /\ \A l \in 1..k - 1 : Char(i, l) = Char(j, l)

\* getTWAPOrders reports every slice of every instrument once, at the time the
\* alphas gave it, ordered by time and then by name.
TwapReportRight ==
  Reported =>
    LET report == getTWAPOrders
    IN  /\ \A k, l \in DOMAIN report : k < l =>
             \/ report[k].timestamp < report[l].timestamp
             \/ /\ report[k].timestamp = report[l].timestamp
                /\ ~NamedBefore(report[l].instrumentId, report[k].instrumentId)
        /\ \A instrument \in Instruments, timestamp \in Timestamps :
             Cardinality({k \in DOMAIN report :
                            report[k] = [instrumentId |-> instrument, timestamp |-> timestamp]})
               = Cardinality({k \in DOMAIN sent[instrument] :
                                sent[instrument][k] = Record("alpha", timestamp)})

\* getPNLAndPos reports every instrument of the day once, ordered by name.
PnlReportRight ==
  Reported =>
    LET report == getPNLAndPos
    IN  /\ {report[k] : k \in DOMAIN report} = known
        /\ \A k, l \in DOMAIN report : k < l => NamedBefore(report[k], report[l])

=============================================================================
