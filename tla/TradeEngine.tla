----------------------------- MODULE TradeEngine -----------------------------
(***************************************************************************)
(* struct TradeEngine (src/trade_engine.h, src/trade_engine.cpp): one      *)
(* session of one day.  It finds the contract engine of a record by the    *)
(* instrument, through an open-addressing table, and turns timestamps into *)
(* 32-bit distances from the first alpha.                                  *)
(*                                                                         *)
(* A contract engine is here what it was called with: ContractEngine says  *)
(* what the calls do.  The array contractEngines is never initialised: an  *)
(* entry that was not assigned is Unset, and like the memory behind the    *)
(* array it may hold the pointer to an engine of an earlier day, whose     *)
(* memory an engine of this day may have got since.  So a call through it  *)
(* ends the process, is lost, or reaches any engine of the session; and    *)
(* the assignment of an entry behind the array ends the process, does no   *)
(* harm, or damages engines, which are then as good as not assigned.       *)
(***************************************************************************)
EXTENDS Integers, Sequences, FiniteSets

CONSTANTS
  MOD,                \* slots of the table
  MAX_CONTRACT_NUM,
  IntSpan,            \* an int is in -IntSpan..IntSpan - 1: 2^31
  Unset

\* The data of the day.
CONSTANTS Instruments, Timestamps, MaxAlphas, MaxLogs

ASSUME TableAssumption ==
  MOD \in Nat \ {0} /\ MAX_CONTRACT_NUM \in Nat /\ IntSpan \in Nat \ {0}

\* The table always has a free slot, and the timestamps of a day are within an
\* int of each other, though not of 0.
ASSUME DayAssumption ==
  /\ Instruments \subseteq Nat \ {0} /\ IsFiniteSet(Instruments)
  /\ Cardinality(Instruments) < MOD
  /\ Timestamps \subseteq Nat
  /\ \A s, t \in Timestamps : s - t \in -IntSpan..IntSpan - 1
  /\ MaxAlphas \in Nat /\ MaxLogs \in Nat

\* A call as a contract engine gets it, and what it has got.
Call == [kind : {"alpha", "order"}, timestamp : -IntSpan..IntSpan - 1]

Engine == [instrument : Instruments, calls : Seq(Call), closed : BOOLEAN]

ASSUME UnsetAssumption == Unset \notin Engine

VARIABLES
  contractPairs, lastContract, contractEngines, timestampOffset,
  phase,              \* what matching_thread calls: "init", "alphas", "orders", "done"
  crashed

\* History: the instruments of the day, what was sent for each, and how much.
VARIABLES known, sent, alphas, logs

table == <<contractPairs, lastContract>>
count == <<alphas, logs>>
vars  == <<table, contractEngines, timestampOffset, phase, crashed, known, sent, count>>

Record(kind, timestamp) == [kind |-> kind, timestamp |-> timestamp]

Init ==
  /\ contractPairs = [slot \in 0..MOD - 1 |-> [instrument |-> 0, index |-> 0]]
  /\ lastContract = 0
  /\ contractEngines = [index \in 0..MAX_CONTRACT_NUM - 1 |-> Unset]
  /\ timestampOffset = -1
  /\ phase = "init" /\ crashed = FALSE
  /\ known = {} /\ sent = [instrument \in Instruments |-> <<>>]
  /\ alphas = 0 /\ logs = 0

-----------------------------------------------------------------------------
(* getOrInsertInstrument.                                                  *)

Home(instrument) == instrument % MOD

HitAny(instrument) ==                     \* mutant: whose slot it is is not asked
  contractPairs[Home(instrument)].instrument # 0

\* Only the home slot is a hit.
Hit(instrument) == contractPairs[Home(instrument)].instrument = instrument

\* The k-th slot of the probe.  Slot MOD is the memory behind the table, where
\* contractEngines[0] is: neither 0 nor an instrument.
Probe(instrument, k) == (Home(instrument) + k) % (MOD + 1)

Stops(instrument, slot) ==
  slot # MOD /\ contractPairs[slot].instrument \in {0, instrument}

ProbedSlot(instrument) ==
  LET steps == CHOOSE k \in 0..MOD : /\ Stops(instrument, Probe(instrument, k))
                                     /\ \A j \in 0..k - 1 : ~Stops(instrument, Probe(instrument, j))
  IN  Probe(instrument, steps)

\* What the call returns.
IndexOf(instrument) ==
  IF Hit(instrument) THEN contractPairs[Home(instrument)].index ELSE lastContract

GetOrInsertUncounted(instrument) ==       \* mutant: lastContract is not increased
  IF Hit(instrument) THEN UNCHANGED table
  ELSE /\ contractPairs' = [contractPairs EXCEPT ![ProbedSlot(instrument)] =
                              [instrument |-> instrument, index |-> lastContract]]
       /\ UNCHANGED lastContract

\* What it does to the table: an instrument that is not at home is inserted,
\* also if the probe finds it elsewhere.
GetOrInsert(instrument) ==
  IF Hit(instrument) THEN UNCHANGED table
  ELSE /\ contractPairs' = [contractPairs EXCEPT ![ProbedSlot(instrument)] =
                              [instrument |-> instrument, index |-> lastContract]]
       /\ lastContract' = lastContract + 1

-----------------------------------------------------------------------------
(* The calls of matching_thread.                                           *)

HasEngine(index) == index < MAX_CONTRACT_NUM /\ contractEngines[index] # Unset

Stray == crashed' \in BOOLEAN

\* The assignment of an entry behind the array.
Overrun ==
  /\ Stray
  /\ \E damaged \in SUBSET DOMAIN contractEngines :
       contractEngines' = [index \in DOMAIN contractEngines |->
                             IF index \in damaged THEN Unset ELSE contractEngines[index]]

\* The engines that a call through an entry may reach.
Reached(index) ==
  IF HasEngine(index) THEN {index} ELSE {other \in DOMAIN contractEngines : HasEngine(other)}

InitContract(instrument) ==
  /\ ~crashed /\ phase = "init" /\ instrument \notin known
  /\ known' = known \cup {instrument}
  /\ GetOrInsert(instrument)
  /\ \/ /\ IndexOf(instrument) < MAX_CONTRACT_NUM
        /\ contractEngines' = [contractEngines EXCEPT ![IndexOf(instrument)] =
                                 [instrument |-> instrument, calls |-> <<>>, closed |-> FALSE]]
        /\ UNCHANGED crashed
     \/ IndexOf(instrument) >= MAX_CONTRACT_NUM /\ Overrun
  /\ UNCHANGED <<timestampOffset, phase, sent, count>>

\* The cast of a timestamp to int.
Narrow(x) == ((x + IntSpan) % (2 * IntSpan)) - IntSpan

\* A record goes to the engine of its instrument, if the table has its index.
Deliver(instrument, kind, timestamp) ==
  LET call == Record(kind, Narrow(timestamp - timestampOffset'))
  IN  /\ ~crashed
      /\ sent' = [sent EXCEPT ![instrument] = Append(@, Record(kind, timestamp))]
      /\ GetOrInsert(instrument)
      /\ \/ \E index \in Reached(IndexOf(instrument)) :
              /\ contractEngines' = [contractEngines EXCEPT ![index].calls = Append(@, call)]
              /\ UNCHANGED crashed
         \/ /\ ~HasEngine(IndexOf(instrument))
            /\ Stray
            /\ UNCHANGED contractEngines

OffsetOfLast(timestamp) == timestamp      \* mutant: every alpha sets the offset

\* The first alpha sets the offset.
Offset(timestamp) == IF timestampOffset = -1 THEN timestamp ELSE timestampOffset

\* Alphas and order logs are of instruments that have a prev_trade_info.
InsertAlpha(instrument) ==
  /\ phase \in {"init", "alphas"} /\ alphas < MaxAlphas /\ instrument \in known
  /\ \E timestamp \in Timestamps :
       /\ timestampOffset' = Offset(timestamp)
       /\ Deliver(instrument, "alpha", timestamp)
  /\ phase' = "alphas" /\ alphas' = alphas + 1
  /\ UNCHANGED <<known, logs>>

\* Every day has an alpha.
InsertOrderLog(instrument) ==
  /\ phase \in {"alphas", "orders"} /\ logs < MaxLogs /\ instrument \in known
  /\ UNCHANGED timestampOffset
  /\ \E timestamp \in Timestamps : Deliver(instrument, "order", timestamp)
  /\ phase' = "orders" /\ logs' = logs + 1
  /\ UNCHANGED <<known, alphas>>

\* Every engine works off its schedule, then the reports are made.  An engine that a
\* stray pointer reaches is closed anyway.
OnComplete ==
  /\ ~crashed /\ phase # "done"
  /\ contractEngines' =
       [index \in DOMAIN contractEngines |->
          IF index < lastContract /\ HasEngine(index)
            THEN [contractEngines[index] EXCEPT !.closed = TRUE] ELSE contractEngines[index]]
  /\ \/ /\ \A index \in 0..lastContract - 1 : HasEngine(index)
        /\ UNCHANGED crashed
     \/ /\ \E index \in 0..lastContract - 1 : ~HasEngine(index)
        /\ Stray
  /\ phase' = "done"
  /\ UNCHANGED <<table, timestampOffset, known, sent, count>>

-----------------------------------------------------------------------------

Terminated == (phase = "done" \/ crashed) /\ UNCHANGED vars

Next ==
  \/ \E instrument \in Instruments :
       InitContract(instrument) \/ InsertAlpha(instrument) \/ InsertOrderLog(instrument)
  \/ OnComplete
  \/ Terminated

Spec == Init /\ [][Next]_vars

-----------------------------------------------------------------------------
(* Properties.                                                             *)

\* Types; every index handed out is below lastContract, and engines are only
\* where an index was handed out.
TypeOK ==
  /\ contractPairs \in [0..MOD - 1 -> [instrument : Instruments \cup {0}, index : Nat]]
  /\ \A slot \in 0..MOD - 1 :
       contractPairs[slot].instrument # 0 => contractPairs[slot].index < lastContract
  /\ lastContract \in Nat
  /\ contractEngines \in [0..MAX_CONTRACT_NUM - 1 -> {Unset} \cup Engine]
  /\ \A index \in 0..MAX_CONTRACT_NUM - 1 : HasEngine(index) => index < lastContract
  /\ timestampOffset \in Timestamps \cup {-1}
  /\ phase \in {"init", "alphas", "orders", "done"} /\ crashed \in BOOLEAN
  /\ known \subseteq Instruments
  /\ sent \in [Instruments -> Seq([kind : {"alpha", "order"}, timestamp : Timestamps])]
  /\ alphas \in Nat /\ logs \in Nat

\* What an engine was called with, at the times the records have.
Restored(calls) ==
  [k \in DOMAIN calls |-> [calls[k] EXCEPT !.timestamp = @ + timestampOffset]]

IsEngineOf(index, instrument) ==
  HasEngine(index) /\ contractEngines[index].instrument = instrument

\* "Init a contract by its compact_prev_trade_info" (trade_engine.h:46): from
\* then on the instrument has an engine, and the engine has got every record of
\* the instrument and no other, whatever comes in between for others.
Delivered ==
  \A instrument \in known :
    \E index \in 0..lastContract - 1 :
      /\ IsEngineOf(index, instrument)
      /\ Restored(contractEngines[index].calls) = sent[instrument]

\* The instruments whose home slot another one has taken, and those whose engine is
\* not in the array or is damaged.
Displaced == {instrument \in known : ~Hit(instrument) \/ ~HasEngine(IndexOf(instrument))}

\* The m-th call of an engine is a record that was sent for a displaced instrument.
Strayed(index, m) ==
  \E instrument \in Displaced : \E l \in DOMAIN sent[instrument] :
    Restored(contractEngines[index].calls)[m] = sent[instrument][l]

\* An engine has got what was sent for its instrument, all of it and in order, with
\* stray records in between at most.
GotOwn(index, instrument) ==
  LET calls == contractEngines[index].calls
  IN  \E at \in [DOMAIN sent[instrument] -> DOMAIN calls] :
        /\ \A k, l \in DOMAIN at : k < l => at[k] < at[l]
        /\ \A k \in DOMAIN at : Restored(calls)[at[k]] = sent[instrument][k]
        /\ \A m \in DOMAIN calls : (\E k \in DOMAIN at : at[k] = m) \/ Strayed(index, m)

\* Two instruments with one home slot, or too many of them, cost only the displaced
\* ones their records (trade_engine.cpp:118-130): every other keeps its engine and
\* all its records.  What else an engine gets are records of displaced instruments,
\* which may end up in any engine.
OnlyDisplacedStray ==
  /\ \A instrument \in known \ Displaced :
       /\ IsEngineOf(IndexOf(instrument), instrument)
       /\ GotOwn(IndexOf(instrument), instrument)
  /\ \A index \in DOMAIN contractEngines :
       HasEngine(index) /\ contractEngines[index].instrument \in Displaced =>
         \A m \in DOMAIN contractEngines[index].calls : Strayed(index, m)

\* The table stands for a map of the instruments to their engines.
Abstract ==
  INSTANCE EngineMap
  WITH Records  <- [kind : {"alpha", "order"}, timestamp : Timestamps],
       received <- [instrument \in Instruments |->
                      IF \E index \in DOMAIN contractEngines : IsEngineOf(index, instrument)
                        THEN Restored(contractEngines[CHOOSE index \in DOMAIN contractEngines :
                                        IsEngineOf(index, instrument)].calls)
                        ELSE <<>>],
       complete <- (phase = "done")

\* Every record reaches the engine of its instrument, once and in order, at the
\* time it has: if no two instruments collide.
Implements == Abstract!Spec

=============================================================================
