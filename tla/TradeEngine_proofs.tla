-------------------------- MODULE TradeEngine_proofs --------------------------
(***************************************************************************)
(* If no two instruments of the day have the same home slot, and there is  *)
(* room for the engines of all of them, every record reaches the engine of *)
(* its instrument, no call is made through a pointer that was not set, and *)
(* both reports of the session are complete and in order.                  *)
(* On any other day only the instruments that another displaces lose their *)
(* records, and only their records get to engines that are not theirs.     *)
(***************************************************************************)
EXTENDS TradeReports, FiniteSetTheorems, WellFoundedInduction, TLAPS

HomesDistinct == \A i, j \in Instruments : Home(i) = Home(j) => i = j

Room == Cardinality(Instruments) <= MAX_CONTRACT_NUM

\* The index the table has for an instrument that is at home.
Index(instrument) == contractPairs[Home(instrument)].index

\* The table: whatever is in it is at home and known, and the known instruments
\* have the indices below lastContract, each its own.
AllAtHome ==
  \A slot \in 0..MOD - 1 :
    LET instrument == contractPairs[slot].instrument
    IN  instrument # 0 => instrument \in known /\ Home(instrument) = slot

KnownHit == \A i \in known : Hit(i)

IndicesDistinct == \A i, j \in known : Index(i) = Index(j) => i = j

TableInv ==
  /\ AllAtHome /\ KnownHit /\ IndicesDistinct
  /\ lastContract = Cardinality(known)

\* Engine x has got what was sent for i.
GotAll(x, i) ==
  LET calls == contractEngines[x].calls
  IN  /\ Len(calls) = Len(sent[i])
      /\ \A k \in 1..Len(sent[i]) :
           calls[k] = Record(sent[i][k].kind, sent[i][k].timestamp - timestampOffset)

\* The engines: that of a known instrument has got what was sent.
Got(i) == IsEngineOf(Index(i), i) /\ GotAll(Index(i), i)

EnginesInv ==
  /\ \A i \in known : Got(i)
  /\ \A index \in 0..lastContract - 1 : HasEngine(index)
  /\ ~crashed

\* Nothing is sent before there is an offset, or for an unknown instrument.
OffsetInv ==
  /\ \A i \in Instruments \ known : sent[i] = <<>>
  /\ timestampOffset = -1 => \A i \in Instruments : sent[i] = <<>>
  /\ phase \in {"alphas", "orders"} => timestampOffset # -1

TradeInv == TypeOK /\ TableInv /\ EnginesInv /\ OffsetInv

-----------------------------------------------------------------------------
(* Arithmetic, and the table.                                              *)

LEMMA SmallMod ==
  ASSUME NEW n \in Nat \ {0}, NEW a \in 0..n - 1
  PROVE  a % n = a
OBVIOUS

LEMMA Appended ==
  ASSUME NEW R, NEW s \in Seq(R), NEW e \in R
  PROVE  /\ Append(s, e) \in Seq(R) /\ Len(Append(s, e)) = Len(s) + 1 /\ Len(s) \in Nat
         /\ Append(s, e)[Len(s) + 1] = e
         /\ \A k \in 1..Len(s) : Append(s, e)[k] = s[k] /\ s[k] \in R
OBVIOUS

LEMMA NarrowFits ==
  ASSUME NEW x \in -IntSpan..IntSpan - 1
  PROVE  Narrow(x) = x
<1>1. 2 * IntSpan \in Nat \ {0} /\ x + IntSpan \in 0..2 * IntSpan - 1
  BY TableAssumption
<1>2. (x + IntSpan) % (2 * IntSpan) = x + IntSpan
  BY <1>1, SmallMod
<1>3. QED BY <1>2, TableAssumption DEF Narrow

LEMMA HomeInTable ==
  ASSUME NEW i \in Instruments
  PROVE  Home(i) \in 0..MOD - 1
BY TableAssumption, DayAssumption DEF Home

-----------------------------------------------------------------------------
(* Types, whatever the table does.                                         *)

Records == [kind : {"alpha", "order"}, timestamp : Timestamps]

\* The cast gives an int.
LEMMA NarrowType ==
  ASSUME NEW x \in Int
  PROVE  Narrow(x) \in -IntSpan..IntSpan - 1
<1>1. ASSUME NEW n \in Nat \ {0}, NEW y \in Int PROVE y % n \in 0..n - 1
  BY <1>1
<1>2. 2 * IntSpan \in Nat \ {0} /\ x + IntSpan \in Int
  BY TableAssumption
<1>3. (x + IntSpan) % (2 * IntSpan) \in 0..2 * IntSpan - 1
  BY <1>1, <1>2
<1>4. QED BY <1>3, TableAssumption DEF Narrow

\* Wherever the probe ends, also behind the table.
LEMMA GetOrInsertType ==
  ASSUME TypeOK, NEW i \in Instruments, GetOrInsert(i)
  PROVE  /\ contractPairs' \in [0..MOD - 1 -> [instrument : Instruments \cup {0}, index : Nat]]
         /\ \A slot \in 0..MOD - 1 :
              contractPairs'[slot].instrument # 0 => contractPairs'[slot].index < lastContract'
         /\ lastContract' \in Nat /\ lastContract <= lastContract'
<1>1. /\ contractPairs \in [0..MOD - 1 -> [instrument : Instruments \cup {0}, index : Nat]]
      /\ \A slot \in 0..MOD - 1 :
           contractPairs[slot].instrument # 0 => contractPairs[slot].index < lastContract
      /\ lastContract \in Nat
  BY DEF TypeOK
<1>2. CASE Hit(i)
  BY <1>1, <1>2 DEF GetOrInsert, table
<1>3. CASE ~Hit(i)
  <2> DEFINE new == [instrument |-> i, index |-> lastContract]
             p   == ProbedSlot(i)
  <2>1. contractPairs' = [contractPairs EXCEPT ![p] = new] /\ lastContract' = lastContract + 1
    BY <1>3 DEF GetOrInsert
  <2> HIDE DEF p
  <2>2. \A slot \in 0..MOD - 1 : contractPairs'[slot] = new \/ contractPairs'[slot] = contractPairs[slot]
    BY <1>1, <2>1
  <2>3. new \in [instrument : Instruments \cup {0}, index : Nat] /\ new.index = lastContract
    BY <1>1
  <2> HIDE DEF new
  <2>4. contractPairs' \in [0..MOD - 1 -> [instrument : Instruments \cup {0}, index : Nat]]
    BY <1>1, <2>1, <2>3
  <2>5. \A slot \in 0..MOD - 1 : contractPairs[slot].index \in Nat
    BY <1>1
  <2>6. \A slot \in 0..MOD - 1 :
          contractPairs'[slot].instrument # 0 => contractPairs'[slot].index < lastContract'
    BY <1>1, <2>1, <2>2, <2>3, <2>5
  <2>7. QED BY <1>1, <2>1, <2>4, <2>6
<1>4. QED BY <1>2, <1>3

\* An instrument's index has no engine yet if it is new, so the type of the engines
\* is kept, and they are where an index was handed out.
LEMMA InitContractType ==
  ASSUME TypeOK, NEW i \in Instruments, InitContract(i)
  PROVE  TypeOK'
<1> DEFINE new == [instrument |-> i, calls |-> <<>>, closed |-> FALSE]
<1>1. GetOrInsert(i)
  BY DEF InitContract
<1>2. new \in Engine /\ new # Unset
  <2>1. <<>> \in Seq(Call)
    OBVIOUS
  <2>2. new \in Engine
    BY <2>1 DEF Engine
  <2>3. QED BY <2>2, UnsetAssumption
<1>3. IndexOf(i) \in Nat /\ IndexOf(i) < lastContract'
  <2>1. CASE Hit(i)
    <3>1. Home(i) \in 0..MOD - 1 /\ i # 0
      BY HomeInTable, DayAssumption
    <3>2. contractPairs[Home(i)].index \in Nat /\ contractPairs[Home(i)].index < lastContract
      BY <2>1, <3>1 DEF Hit, TypeOK
    <3>3. QED BY <1>1, <2>1, <3>2 DEF IndexOf, GetOrInsert, table
  <2>2. CASE ~Hit(i)
    BY <1>1, <2>2 DEF IndexOf, GetOrInsert, TypeOK
  <2>3. QED BY <2>1, <2>2
<1>4. /\ contractEngines' \in [0..MAX_CONTRACT_NUM - 1 -> {Unset} \cup Engine]
      /\ \A index \in 0..MAX_CONTRACT_NUM - 1 : HasEngine(index)' => index < lastContract'
      /\ crashed' \in BOOLEAN
  <2>1. lastContract \in Nat /\ lastContract' \in Nat /\ lastContract <= lastContract'
    BY <1>1, GetOrInsertType DEF TypeOK
  <2>2. CASE contractEngines' = [contractEngines EXCEPT ![IndexOf(i)] = new] /\ UNCHANGED crashed
    <3>1. contractEngines' \in [0..MAX_CONTRACT_NUM - 1 -> {Unset} \cup Engine]
      BY <1>2, <2>2 DEF TypeOK
    <3>2. \A index \in 0..MAX_CONTRACT_NUM - 1 :
            index # IndexOf(i) => contractEngines'[index] = contractEngines[index]
      BY <2>2 DEF TypeOK
    <3>3. QED BY <1>3, <2>1, <2>2, <3>1, <3>2 DEF TypeOK, HasEngine
  <2>3. CASE Overrun
    <3>1. PICK damaged \in SUBSET DOMAIN contractEngines :
            contractEngines' = [index \in DOMAIN contractEngines |->
                                  IF index \in damaged THEN Unset ELSE contractEngines[index]]
      BY <2>3 DEF Overrun
    <3>2. /\ contractEngines' \in [0..MAX_CONTRACT_NUM - 1 -> {Unset} \cup Engine]
          /\ \A index \in 0..MAX_CONTRACT_NUM - 1 : HasEngine(index)' => HasEngine(index)
      BY <3>1 DEF TypeOK, HasEngine
    <3>3. \A index \in 0..MAX_CONTRACT_NUM - 1 : HasEngine(index)' => index < lastContract'
      BY <2>1, <3>2 DEF TypeOK
    <3>4. QED BY <2>3, <3>2, <3>3 DEF Overrun, Stray
  <2>4. QED BY <2>2, <2>3 DEF InitContract
<1>5. /\ known' \subseteq Instruments
      /\ UNCHANGED <<timestampOffset, phase, sent, alphas, logs>>
  BY DEF InitContract, TypeOK, count
<1>6. QED BY <1>1, <1>4, <1>5, GetOrInsertType DEF TypeOK

LEMMA DeliverType ==
  ASSUME TypeOK, NEW i \in Instruments, NEW kind \in {"alpha", "order"}, NEW t \in Timestamps,
         timestampOffset' \in Timestamps \cup {-1}, Deliver(i, kind, t), known' = known,
         phase' \in {"alphas", "orders"}, alphas' \in Nat, logs' \in Nat
  PROVE  TypeOK'
<1> DEFINE call  == Record(kind, Narrow(t - timestampOffset'))
<1>1. GetOrInsert(i)
  BY DEF Deliver
<1>2. call \in Call
  <2>1. t - timestampOffset' \in Int
    BY DayAssumption
  <2>2. QED BY <2>1, NarrowType DEF Call, Record
<1>3. /\ contractEngines' \in [0..MAX_CONTRACT_NUM - 1 -> {Unset} \cup Engine]
      /\ \A k \in 0..MAX_CONTRACT_NUM - 1 : HasEngine(k)' => HasEngine(k)
      /\ crashed' \in BOOLEAN
  <2>1. ASSUME NEW index \in Reached(IndexOf(i)),
               contractEngines' = [contractEngines EXCEPT ![index].calls = Append(@, call)],
               UNCHANGED crashed
        PROVE  /\ contractEngines' \in [0..MAX_CONTRACT_NUM - 1 -> {Unset} \cup Engine]
               /\ \A k \in 0..MAX_CONTRACT_NUM - 1 : HasEngine(k)' => HasEngine(k)
               /\ crashed' \in BOOLEAN
    <3>0. HasEngine(index)
      BY DEF Reached
    <3>1. \A k \in 0..MAX_CONTRACT_NUM - 1 :
            IF k = index
              THEN contractEngines'[k] = [contractEngines[k] EXCEPT
                                            !.calls = Append(contractEngines[k].calls, call)]
              ELSE contractEngines'[k] = contractEngines[k]
      BY <2>1 DEF TypeOK
    <3>2. ASSUME NEW e \in Engine PROVE [e EXCEPT !.calls = Append(e.calls, call)] \in Engine
      <4>1. e.calls \in Seq(Call) /\ Append(e.calls, call) \in Seq(Call)
        BY <1>2 DEF Engine
      <4>2. QED BY <4>1 DEF Engine
    <3>3. \A k \in 0..MAX_CONTRACT_NUM - 1 : k = index => contractEngines[k] \in Engine
      BY <3>0 DEF HasEngine, TypeOK
    <3>4. \A k \in 0..MAX_CONTRACT_NUM - 1 : contractEngines'[k] \in {Unset} \cup Engine
      BY <3>1, <3>2, <3>3 DEF TypeOK
    <3>5. DOMAIN contractEngines' = 0..MAX_CONTRACT_NUM - 1
      BY <2>1 DEF TypeOK
    <3>6. contractEngines' \in [0..MAX_CONTRACT_NUM - 1 -> {Unset} \cup Engine]
      BY <2>1, <3>4, <3>5
    <3>7. \A k \in 0..MAX_CONTRACT_NUM - 1 : HasEngine(k)' => HasEngine(k)
      BY <3>0, <3>1 DEF HasEngine
    <3>8. QED BY <2>1, <3>6, <3>7 DEF TypeOK
  <2>2. CASE Stray /\ UNCHANGED contractEngines
    BY <2>2 DEF Stray, TypeOK, HasEngine
  <2>3. QED BY <2>1, <2>2 DEF Deliver
<1>4. sent' \in [Instruments -> Seq(Records)]
  <2>1. sent \in [Instruments -> Seq(Records)] /\ Record(kind, t) \in Records
    BY DEF TypeOK, Records, Record
  <2>2. sent' = [sent EXCEPT ![i] = Append(@, Record(kind, t))]
    BY DEF Deliver
  <2>3. Append(sent[i], Record(kind, t)) \in Seq(Records)
    BY <2>1, Appended
  <2>4. QED BY <2>1, <2>2, <2>3
<1>5. \A k \in 0..MAX_CONTRACT_NUM - 1 : HasEngine(k)' => k < lastContract'
  <2>1. lastContract \in Nat /\ lastContract' \in Nat /\ lastContract <= lastContract'
    BY <1>1, GetOrInsertType DEF TypeOK
  <2>2. \A k \in 0..MAX_CONTRACT_NUM - 1 : HasEngine(k) => k < lastContract
    BY DEF TypeOK
  <2>3. QED BY <1>3, <2>1, <2>2
<1>6. QED BY <1>1, <1>3, <1>4, <1>5, GetOrInsertType DEF TypeOK, Records

\* The engines there are when the session completes, with what they have got.
LEMMA OnCompleteEngines ==
  ASSUME TypeOK, OnComplete
  PROVE  /\ contractEngines' \in [0..MAX_CONTRACT_NUM - 1 -> {Unset} \cup Engine]
         /\ \A k \in 0..MAX_CONTRACT_NUM - 1 :
              /\ HasEngine(k)' = HasEngine(k)
              /\ HasEngine(k) =>
                   /\ contractEngines'[k].instrument = contractEngines[k].instrument
                   /\ contractEngines'[k].calls = contractEngines[k].calls
<1> DEFINE Closed(k) == [contractEngines[k] EXCEPT !.closed = TRUE]
<1>1. \A k \in 0..MAX_CONTRACT_NUM - 1 :
        /\ contractEngines[k] # Unset => contractEngines[k] \in Engine /\ k < lastContract
        /\ contractEngines'[k] = IF contractEngines[k] # Unset THEN Closed(k)
                                                               ELSE contractEngines[k]
  <2> TAKE k \in 0..MAX_CONTRACT_NUM - 1
  <2>1. k < MAX_CONTRACT_NUM
    BY TableAssumption
  <2>2. contractEngines[k] # Unset => contractEngines[k] \in Engine /\ k < lastContract
    BY <2>1 DEF TypeOK, HasEngine
  <2>3. DOMAIN contractEngines = 0..MAX_CONTRACT_NUM - 1
    BY DEF TypeOK
  <2>4. QED BY <2>1, <2>2, <2>3 DEF OnComplete, HasEngine
<1>2. \A k \in 0..MAX_CONTRACT_NUM - 1 :
        contractEngines[k] # Unset => /\ contractEngines'[k] \in Engine
                                      /\ contractEngines'[k].instrument = contractEngines[k].instrument
                                      /\ contractEngines'[k].calls = contractEngines[k].calls
  BY <1>1 DEF Engine
<1>3. contractEngines' \in [0..MAX_CONTRACT_NUM - 1 -> {Unset} \cup Engine]
  <2>1. \A k \in 0..MAX_CONTRACT_NUM - 1 : contractEngines'[k] \in {Unset} \cup Engine
    BY <1>1, <1>2
  <2>2. DOMAIN contractEngines = 0..MAX_CONTRACT_NUM - 1
    BY DEF TypeOK
  <2>3. QED BY <2>1, <2>2 DEF OnComplete
<1>4. QED BY <1>1, <1>2, <1>3, UnsetAssumption DEF HasEngine

LEMMA TypeStep == ASSUME TypeOK, [Next]_vars PROVE TypeOK'
<1>1. CASE UNCHANGED vars
  BY <1>1 DEF TypeOK, HasEngine, vars, table, count
<1>2. ASSUME NEW i \in Instruments, InitContract(i) PROVE TypeOK'
  BY <1>2, InitContractType
<1>3. ASSUME NEW i \in Instruments, InsertAlpha(i) PROVE TypeOK'
  <2>1. PICK t \in Timestamps : timestampOffset' = Offset(t) /\ Deliver(i, "alpha", t)
    BY <1>3 DEF InsertAlpha
  <2>2. timestampOffset' \in Timestamps \cup {-1}
    BY <2>1 DEF Offset, TypeOK
  <2>3. known' = known /\ phase' \in {"alphas", "orders"} /\ alphas' \in Nat /\ logs' \in Nat
    BY <1>3 DEF InsertAlpha, TypeOK
  <2>4. QED BY <2>1, <2>2, <2>3, DeliverType
<1>4. ASSUME NEW i \in Instruments, InsertOrderLog(i) PROVE TypeOK'
  <2>1. PICK t \in Timestamps : Deliver(i, "order", t)
    BY <1>4 DEF InsertOrderLog
  <2>2. /\ timestampOffset' \in Timestamps \cup {-1} /\ known' = known
        /\ phase' \in {"alphas", "orders"} /\ alphas' \in Nat /\ logs' \in Nat
    BY <1>4 DEF InsertOrderLog, TypeOK
  <2>3. QED BY <2>1, <2>2, DeliverType
<1>5. CASE OnComplete
  <2>1. /\ UNCHANGED <<contractPairs, lastContract, timestampOffset, known, sent, alphas, logs>>
        /\ phase' = "done" /\ crashed' \in BOOLEAN
    BY <1>5 DEF OnComplete, table, count, Stray, TypeOK
  <2>2. QED BY <1>5, <2>1, OnCompleteEngines DEF TypeOK
<1>6. QED BY <1>1, <1>2, <1>3, <1>4, <1>5 DEF Next, Terminated

LEMMA TypeInit == Init => TypeOK
BY DayAssumption, TableAssumption DEF Init, TypeOK, HasEngine

\* Every index the table holds was handed out, and engines are only where one was,
\* also when instruments collide and when there are more of them than entries
\* (trade_engine.cpp:118-134).
THEOREM TradeTypeCorrect == Spec => []TypeOK
<1>1. QED BY TypeInit, TypeStep, PTL DEF Spec

-----------------------------------------------------------------------------
(* Days without collisions.                                                *)

\* An instrument that is not in the table finds its home slot free.
LEMMA ProbeStaysHome ==
  ASSUME HomesDistinct, TypeOK, AllAtHome, NEW i \in Instruments \ known
  PROVE  ~Hit(i) /\ ProbedSlot(i) = Home(i)
<1>1. Home(i) \in 0..MOD - 1 /\ i # 0
  BY HomeInTable, DayAssumption
<1>2. contractPairs[Home(i)].instrument = 0
  BY <1>1 DEF AllAtHome, HomesDistinct, TypeOK
<1>3. Probe(i, 0) = Home(i)
  <2>1. MOD + 1 \in Nat \ {0} /\ Home(i) + 0 = Home(i) /\ Home(i) \in 0..(MOD + 1) - 1
    BY <1>1, TableAssumption
  <2>2. QED BY <2>1, SmallMod DEF Probe
<1>4. Stops(i, Probe(i, 0))
  BY <1>1, <1>2, <1>3 DEF Stops
<1> DEFINE First(k) == /\ Stops(i, Probe(i, k))
                       /\ \A j \in 0..k - 1 : ~Stops(i, Probe(i, j))
<1>5. 0 \in 0..MOD /\ First(0)
  BY <1>4, TableAssumption
<1>6. \A k \in 0..MOD : First(k) => k = 0
  BY <1>4, TableAssumption
<1>7. (CHOOSE k \in 0..MOD : First(k)) = 0
  BY <1>5, <1>6
<1>8. QED BY <1>1, <1>2, <1>3, <1>7 DEF ProbedSlot, Hit

\* An instrument not yet known finds room for its engine.
LEMMA RoomForMore ==
  ASSUME Room, TypeOK, TableInv, NEW i \in Instruments \ known
  PROVE  /\ lastContract < MAX_CONTRACT_NUM
         /\ Cardinality(known \cup {i}) = lastContract + 1
<1>1. IsFiniteSet(Instruments) /\ known \subseteq Instruments /\ known # Instruments
  BY DayAssumption DEF TypeOK
<1>2. /\ IsFiniteSet(known) /\ Cardinality(known) <= Cardinality(Instruments)
      /\ Cardinality(known) # Cardinality(Instruments)
  <2>1. known \in SUBSET Instruments
    BY <1>1
  <2>2. QED BY <1>1, <2>1, FS_Subset
<1>3. Cardinality(known \cup {i}) = Cardinality(known) + 1
  BY <1>2, FS_AddElement
<1>4. Cardinality(Instruments) \in Nat /\ Cardinality(known) \in Nat
  BY <1>1, <1>2, FS_CardinalityType
<1>5. QED BY <1>2, <1>3, <1>4, TableAssumption DEF Room, TableInv

-----------------------------------------------------------------------------
(* The steps.                                                              *)

LEMMA TradeInit == Init => TradeInv
<1> SUFFICES ASSUME Init PROVE TradeInv
  OBVIOUS
<1>1. TypeOK
  BY TypeInit
<1>2. TableInv
  BY FS_EmptySet DEF Init, TableInv, AllAtHome, KnownHit, IndicesDistinct
<1>3. EnginesInv /\ OffsetInv
  BY DEF Init, EnginesInv, OffsetInv
<1>4. QED BY <1>1, <1>2, <1>3 DEF TradeInv

\* An instrument gets its home slot, the next index, and an engine there.
LEMMA InitContractStep ==
  ASSUME HomesDistinct, Room, TradeInv, NEW i \in Instruments, InitContract(i)
  PROVE  TradeInv'
<1> DEFINE new == [instrument |-> i, calls |-> <<>>, closed |-> FALSE]
<1>1. /\ TypeOK /\ TableInv /\ EnginesInv /\ OffsetInv
      /\ i \notin known /\ phase = "init" /\ known' = known \cup {i}
      /\ UNCHANGED <<timestampOffset, phase, sent, alphas, logs>>
  BY DEF TradeInv, InitContract, count
<1>2. /\ ~Hit(i) /\ ProbedSlot(i) = Home(i) /\ Home(i) \in 0..MOD - 1
      /\ lastContract < MAX_CONTRACT_NUM /\ Cardinality(known') = lastContract + 1
  BY <1>1, ProbeStaysHome, RoomForMore, HomeInTable DEF TableInv
<1>3. /\ contractPairs' = [contractPairs EXCEPT ![Home(i)] =
                              [instrument |-> i, index |-> lastContract]]
      /\ lastContract' = lastContract + 1
      /\ contractEngines' = [contractEngines EXCEPT ![lastContract] = new]
      /\ UNCHANGED crashed
  <2>1. IndexOf(i) = lastContract /\ ~(IndexOf(i) >= MAX_CONTRACT_NUM)
    BY <1>1, <1>2, TableAssumption DEF IndexOf, TypeOK
  <2>2. GetOrInsert(i)
    BY DEF InitContract
  <2>3. QED BY <1>2, <2>1, <2>2 DEF InitContract, GetOrInsert
<1>4. new \in Engine /\ new # Unset /\ lastContract \in 0..MAX_CONTRACT_NUM - 1
      /\ contractEngines' \in [0..MAX_CONTRACT_NUM - 1 -> {Unset} \cup Engine]
      /\ contractEngines'[lastContract] = new
      /\ \A index \in 0..MAX_CONTRACT_NUM - 1 \ {lastContract} :
           contractEngines'[index] = contractEngines[index]
  <2>1. new \in Engine
    BY DEF Engine
  <2>2. lastContract \in 0..MAX_CONTRACT_NUM - 1
    BY <1>1, <1>2, TableAssumption DEF TypeOK
  <2>3. QED BY <1>1, <1>3, <2>1, <2>2, UnsetAssumption DEF TypeOK
<1>5. /\ contractPairs' \in [0..MOD - 1 -> [instrument : Instruments \cup {0}, index : Nat]]
      /\ contractPairs'[Home(i)] = [instrument |-> i, index |-> lastContract]
      /\ \A slot \in 0..MOD - 1 \ {Home(i)} : contractPairs'[slot] = contractPairs[slot]
  BY <1>1, <1>2, <1>3 DEF TypeOK
<1>6. TypeOK'
  BY <1>1, InitContractType
<1>7. \A j \in known : /\ Home(j) # Home(i) /\ Home(j) \in 0..MOD - 1
                        /\ Index(j)' = Index(j) /\ Hit(j)' /\ Index(j) < lastContract
                        /\ Index(j) \in Nat
  <2> TAKE j \in known
  <2>1. j \in Instruments /\ j # i /\ j # 0
    BY <1>1, DayAssumption DEF TypeOK
  <2>2. Home(j) # Home(i) /\ Home(j) \in 0..MOD - 1
    BY <2>1, HomeInTable DEF HomesDistinct
  <2>3. Hit(j)
    BY <1>1 DEF TableInv, KnownHit
  <2>4. Index(j) < lastContract /\ Index(j) \in Nat
    BY <1>1, <2>1, <2>2, <2>3 DEF Hit, Index, TypeOK
  <2>5. Index(j)' = Index(j) /\ Hit(j)'
    BY <1>5, <2>2, <2>3 DEF Index, Hit
  <2>6. QED BY <2>2, <2>4, <2>5
<1>8. Index(i)' = lastContract /\ Hit(i)'
  BY <1>5 DEF Index, Hit
<1>9. TableInv'
  <2>1. AllAtHome'
    BY <1>1, <1>5 DEF TableInv, AllAtHome
  <2>2. KnownHit'
    BY <1>1, <1>7, <1>8 DEF KnownHit
  <2>3. IndicesDistinct'
    <3> SUFFICES ASSUME NEW j \in known', NEW k \in known', Index(j)' = Index(k)'
                 PROVE  j = k
      BY DEF IndicesDistinct
    <3>0. lastContract \in Nat
      BY <1>1 DEF TypeOK
    <3>1. CASE j \in known /\ k \in known
      BY <1>1, <1>7, <3>1 DEF TableInv, IndicesDistinct
    <3>2. CASE j = i /\ k \in known
      BY <1>7, <1>8, <3>0, <3>2 DEF Index
    <3>3. CASE j \in known /\ k = i
      BY <1>7, <1>8, <3>0, <3>3
    <3>4. QED BY <1>1, <3>1, <3>2, <3>3
  <2>4. QED BY <1>2, <1>3, <2>1, <2>2, <2>3 DEF TableInv
<1>10. EnginesInv'
  <2>1. Got(i)'
    <3>1. sent'[i] = <<>> /\ contractEngines'[Index(i)'] = new
      BY <1>1, <1>4, <1>8 DEF OffsetInv
    <3>2. IsEngineOf(Index(i), i)'
      BY <1>4, <1>8, <3>1, TableAssumption DEF IsEngineOf, HasEngine
    <3>3. QED BY <3>1, <3>2 DEF Got, GotAll
  <2>2. \A j \in known : Got(j)'
    <3> TAKE j \in known
    <3>1. Got(j) /\ Index(j)' = Index(j) /\ Index(j) \in 0..MAX_CONTRACT_NUM - 1 \ {lastContract}
      BY <1>1, <1>2, <1>7, TableAssumption DEF EnginesInv, TypeOK
    <3>2. contractEngines'[Index(j)] = contractEngines[Index(j)]
      BY <1>4, <3>1
    <3>3. QED BY <1>1, <3>1, <3>2 DEF Got, GotAll, IsEngineOf, HasEngine
  <2>3. \A index \in 0..lastContract' - 1 : HasEngine(index)'
    BY <1>1, <1>3, <1>4, TableAssumption DEF EnginesInv, HasEngine, TypeOK
  <2>4. ~crashed'
    BY <1>1, <1>3 DEF EnginesInv
  <2>5. QED BY <1>1, <2>1, <2>2, <2>3, <2>4 DEF EnginesInv
<1>11. OffsetInv'
  BY <1>1 DEF OffsetInv
<1>12. QED BY <1>6, <1>9, <1>10, <1>11 DEF TradeInv

\* A record of a known instrument leaves the table alone, and is appended to what
\* the engine of the instrument has got.
LEMMA DeliverStep ==
  ASSUME TradeInv, NEW i \in known, NEW kind \in {"alpha", "order"}, NEW t \in Timestamps,
         timestampOffset' = Offset(t), Deliver(i, kind, t), known' = known,
         phase' \in {"alphas", "orders"}, alphas' \in Nat, logs' \in Nat
  PROVE  TradeInv'
<1> DEFINE index == Index(i)
           call  == Record(kind, t - timestampOffset')
           calls == contractEngines[index].calls
<1>1. /\ TypeOK /\ TableInv /\ EnginesInv /\ OffsetInv
      /\ i \in Instruments /\ Hit(i) /\ Home(i) \in 0..MOD - 1
  BY HomeInTable DEF TradeInv, TypeOK, TableInv, KnownHit
<1>2. /\ IndexOf(i) = index /\ HasEngine(index) /\ contractEngines[index].instrument = i
      /\ index \in Nat
  BY <1>1 DEF EnginesInv, Got, IsEngineOf, IndexOf, Index, TypeOK
<1>3. index \in 0..MAX_CONTRACT_NUM - 1 /\ contractEngines[index] \in Engine
  BY <1>1, <1>2, TableAssumption DEF HasEngine, TypeOK
<1>4. timestampOffset' \in Timestamps /\ timestampOffset' \in Nat /\ timestampOffset' # -1
  <2>1. timestampOffset' \in Timestamps
    BY <1>1 DEF Offset, TypeOK
  <2>2. QED BY <2>1, DayAssumption
<1>5. t - timestampOffset' \in -IntSpan..IntSpan - 1
  BY <1>4, DayAssumption
<1>6. Narrow(t - timestampOffset') = t - timestampOffset'
  BY <1>5, NarrowFits
<1>7. /\ UNCHANGED <<contractPairs, lastContract>>
      /\ sent' = [sent EXCEPT ![i] = Append(@, Record(kind, t))]
      /\ contractEngines' = [contractEngines EXCEPT ![index].calls = Append(@, call)]
      /\ UNCHANGED crashed
  <2>1. GetOrInsert(i) /\ UNCHANGED table
    BY <1>1 DEF Deliver, GetOrInsert
  <2>2. Reached(IndexOf(i)) = {index}
    BY <1>2 DEF Reached
  <2>3. QED BY <1>2, <1>6, <2>1, <2>2 DEF Deliver, table
<1>8. call \in Call /\ Record(kind, t) \in [kind : {"alpha", "order"}, timestamp : Timestamps]
  BY <1>5 DEF Call, Record
<1>9. calls \in Seq(Call) /\ Append(calls, call) \in Seq(Call)
  BY <1>3, <1>8 DEF Engine
<1>10. /\ contractEngines' \in [0..MAX_CONTRACT_NUM - 1 -> {Unset} \cup Engine]
       /\ contractEngines'[index].calls = Append(calls, call)
       /\ contractEngines'[index].instrument = i
       /\ contractEngines'[index] \in Engine
       /\ \A k \in (0..MAX_CONTRACT_NUM - 1) \ {index} : contractEngines'[k] = contractEngines[k]
  <2>1. contractEngines'[index] = [contractEngines[index] EXCEPT !.calls = Append(calls, call)]
    BY <1>1, <1>3, <1>7 DEF TypeOK
  <2>2. contractEngines'[index] \in Engine
    BY <1>3, <1>9, <2>1 DEF Engine
  <2>3. /\ contractEngines'[index].calls = Append(calls, call)
        /\ contractEngines'[index].instrument = i
    BY <1>2, <1>3, <2>1 DEF Engine
  <2>4. \A k \in (0..MAX_CONTRACT_NUM - 1) \ {index} : contractEngines'[k] = contractEngines[k]
    BY <1>1, <1>7 DEF TypeOK
  <2>5. contractEngines' \in [0..MAX_CONTRACT_NUM - 1 -> {Unset} \cup Engine]
    BY <1>1, <1>7, <2>1, <2>2, <2>4 DEF TypeOK
  <2>6. QED BY <2>2, <2>3, <2>4, <2>5
<1>11. /\ sent' \in [Instruments -> Seq([kind : {"alpha", "order"}, timestamp : Timestamps])]
       /\ sent'[i] = Append(sent[i], Record(kind, t))
       /\ \A j \in Instruments \ {i} : sent'[j] = sent[j]
  <2>1. sent \in [Instruments -> Seq(Records)] /\ Record(kind, t) \in Records
    BY <1>1, <1>8 DEF TypeOK, Records, Record
  <2>2. Append(sent[i], Record(kind, t)) \in Seq(Records)
    BY <1>1, <2>1, Appended
  <2>3. QED BY <1>1, <1>7, <2>1, <2>2 DEF Records
<1>12. \A k \in 0..MAX_CONTRACT_NUM - 1 : HasEngine(k)' = HasEngine(k)
  BY <1>2, <1>10, UnsetAssumption DEF HasEngine
<1>13. TypeOK'
  BY <1>1, <1>4, DeliverType
<1>14. TableInv'
  BY <1>1, <1>7 DEF TableInv, AllAtHome, KnownHit, IndicesDistinct, Hit, Index
<1>15. EnginesInv'
  <2>1. \A j \in known : Got(j)'
    <3> TAKE j \in known
    <3> DEFINE mine == contractEngines[Index(j)].calls
    <3>1. /\ j \in Instruments /\ Got(j) /\ Index(j)' = Index(j) /\ Index(j) \in Nat
      BY <1>1, <1>7, HomeInTable DEF EnginesInv, Index, TypeOK
    <3>2. Index(j) \in 0..MAX_CONTRACT_NUM - 1 /\ contractEngines[Index(j)].instrument = j
      BY <3>1, TableAssumption DEF Got, IsEngineOf, HasEngine
    <3>3. IsEngineOf(Index(j), j)'
      <4>1. contractEngines'[Index(j)] # Unset /\ contractEngines'[Index(j)].instrument = j
        BY <1>2, <1>10, <3>1, <3>2, UnsetAssumption DEF Got, IsEngineOf, HasEngine
      <4>2. QED BY <3>1, <3>2, <4>1, TableAssumption DEF IsEngineOf, HasEngine
    <3>4. \A k \in 1..Len(sent[j]) :
            mine[k] = Record(sent[j][k].kind, sent[j][k].timestamp - timestampOffset')
      <4>1. CASE timestampOffset = -1
        BY <1>1, <3>1, <4>1 DEF OffsetInv
      <4>2. CASE timestampOffset # -1
        BY <3>1, <4>2 DEF Got, GotAll, Offset
      <4>3. QED BY <4>1, <4>2
    <3>5. Len(mine) = Len(sent[j])
      BY <3>1 DEF Got, GotAll
    <3>6. CASE j # i
      <4>1. contractEngines'[Index(j)] = contractEngines[Index(j)] /\ sent'[j] = sent[j]
        BY <1>2, <1>10, <1>11, <3>1, <3>2, <3>6
      <4>2. QED BY <3>1, <3>3, <3>4, <3>5, <4>1 DEF Got, GotAll
    <3>7. CASE j = i
      <4>1. /\ contractEngines'[Index(j)].calls = Append(mine, call)
            /\ sent'[j] = Append(sent[j], Record(kind, t))
            /\ mine \in Seq(Call)
            /\ sent[j] \in Seq([kind : {"alpha", "order"}, timestamp : Timestamps])
        BY <1>1, <1>9, <1>10, <1>11, <3>1, <3>7 DEF TypeOK
      <4>2. Len(Append(mine, call)) = Len(Append(sent[j], Record(kind, t)))
        BY <3>5, <4>1
      <4>3. \A k \in 1..Len(Append(sent[j], Record(kind, t))) :
              Append(mine, call)[k]
                = Record(Append(sent[j], Record(kind, t))[k].kind,
                         Append(sent[j], Record(kind, t))[k].timestamp - timestampOffset')
        <5> TAKE k \in 1..Len(Append(sent[j], Record(kind, t)))
        <5>1. CASE k \in 1..Len(sent[j])
          BY <3>4, <3>5, <4>1, <5>1
        <5>2. CASE k = Len(sent[j]) + 1
          BY <3>5, <4>1, <5>2 DEF Record
        <5>3. k \in 1..Len(sent[j]) \/ k = Len(sent[j]) + 1
          BY <1>8, <4>1, Appended
        <5>4. QED BY <5>1, <5>2, <5>3
      <4>4. QED BY <3>1, <3>3, <4>1, <4>2, <4>3 DEF Got, GotAll
    <3>8. QED BY <3>6, <3>7
  <2>2. \A k \in 0..lastContract' - 1 : HasEngine(k)'
    <3>1. \A k \in 0..lastContract - 1 : k \in 0..MAX_CONTRACT_NUM - 1
      <4>1. lastContract \in Nat /\ \A k \in 0..lastContract - 1 : k < MAX_CONTRACT_NUM
        BY <1>1 DEF EnginesInv, HasEngine, TypeOK
      <4>2. QED BY <4>1, TableAssumption
    <3>2. QED BY <1>1, <1>7, <1>12, <3>1 DEF EnginesInv
  <2>3. QED BY <1>1, <1>7, <2>1, <2>2 DEF EnginesInv
<1>16. OffsetInv'
  BY <1>1, <1>4, <1>11 DEF OffsetInv
<1>17. QED BY <1>13, <1>14, <1>15, <1>16 DEF TradeInv

\* The engines are marked as having worked off their schedules.
LEMMA OnCompleteStep ==
  ASSUME TradeInv, OnComplete
  PROVE  TradeInv'
<1>1. /\ TypeOK /\ TableInv /\ EnginesInv /\ OffsetInv
      /\ UNCHANGED <<contractPairs, lastContract, timestampOffset, known, sent, alphas, logs>>
      /\ phase' = "done"
  BY DEF TradeInv, OnComplete, table, count
<1>2. UNCHANGED crashed
  BY <1>1 DEF OnComplete, EnginesInv
<1>3. \A k \in 0..MAX_CONTRACT_NUM - 1 :
        /\ HasEngine(k)' = HasEngine(k)
        /\ HasEngine(k) =>
             /\ contractEngines'[k].instrument = contractEngines[k].instrument
             /\ contractEngines'[k].calls = contractEngines[k].calls
  BY <1>1, OnCompleteEngines
<1>4. TypeOK'
  BY <1>1, TypeStep DEF Next
<1>5. TableInv'
  BY <1>1 DEF TableInv, AllAtHome, KnownHit, IndicesDistinct, Hit, Index
<1>6. EnginesInv'
  <2>1. \A j \in known : Got(j)'
    <3> TAKE j \in known
    <3>1. Got(j) /\ Index(j)' = Index(j) /\ Index(j) \in 0..MAX_CONTRACT_NUM - 1
      <4>1. j \in Instruments /\ Home(j) \in 0..MOD - 1
        BY <1>1, HomeInTable DEF TypeOK
      <4>2. Got(j) /\ Index(j)' = Index(j) /\ Index(j) \in Nat
        BY <1>1, <4>1 DEF EnginesInv, Index, TypeOK
      <4>3. QED BY <4>2, TableAssumption DEF Got, IsEngineOf, HasEngine
    <3>2. /\ HasEngine(Index(j))'
          /\ contractEngines'[Index(j)].instrument = contractEngines[Index(j)].instrument
          /\ contractEngines'[Index(j)].calls = contractEngines[Index(j)].calls
      BY <1>3, <3>1 DEF Got, IsEngineOf
    <3>3. QED BY <1>1, <3>1, <3>2 DEF Got, GotAll, IsEngineOf
  <2>2. \A k \in 0..lastContract' - 1 : HasEngine(k)'
    <3>1. \A k \in 0..lastContract - 1 : k \in 0..MAX_CONTRACT_NUM - 1
      <4>1. lastContract \in Nat /\ \A k \in 0..lastContract - 1 : k < MAX_CONTRACT_NUM
        BY <1>1 DEF EnginesInv, HasEngine, TypeOK
      <4>2. QED BY <4>1, TableAssumption
    <3>2. QED BY <1>1, <1>3, <3>1 DEF EnginesInv
  <2>3. QED BY <1>1, <1>2, <2>1, <2>2 DEF EnginesInv
<1>7. OffsetInv'
  BY <1>1 DEF OffsetInv
<1>8. QED BY <1>4, <1>5, <1>6, <1>7 DEF TradeInv

\* What an engine has got, at the times of the records, is what was sent.
LEMMA RestoredIsSent ==
  ASSUME TypeOK, NEW x \in 0..MAX_CONTRACT_NUM - 1, HasEngine(x), NEW i \in Instruments,
         GotAll(x, i)
  PROVE  Restored(contractEngines[x].calls) = sent[i]
<1> DEFINE calls == contractEngines[x].calls
<1>1. calls \in Seq(Call) /\ sent[i] \in Seq(Records) /\ Len(calls) = Len(sent[i])
  <2>1. contractEngines[x] \in Engine
    BY DEF HasEngine, TypeOK
  <2>2. QED BY <2>1 DEF Engine, GotAll, TypeOK, Records
<1>2. \A k \in 1..Len(sent[i]) : [calls[k] EXCEPT !.timestamp = @ + timestampOffset] = sent[i][k]
  <2> TAKE k \in 1..Len(sent[i])
  <2>1. calls[k] = Record(sent[i][k].kind, sent[i][k].timestamp - timestampOffset)
    BY DEF GotAll
  <2>2. sent[i][k] \in Records /\ sent[i][k].timestamp \in Int /\ timestampOffset \in Int
    <3>1. sent[i][k] \in Records
      BY <1>1
    <3>2. sent[i][k].timestamp \in Timestamps /\ timestampOffset \in Timestamps \cup {-1}
      BY <3>1 DEF TypeOK, Records
    <3>3. Timestamps \subseteq Int
      BY DayAssumption
    <3>4. sent[i][k].timestamp \in Int
      BY <3>2, <3>3, Zenon
    <3>5. timestampOffset \in Int
      BY <3>2, <3>3
    <3>6. QED BY <3>1, <3>4, <3>5
  <2>3. (sent[i][k].timestamp - timestampOffset) + timestampOffset = sent[i][k].timestamp
    BY <2>2
  <2>4. QED BY <2>1, <2>2, <2>3 DEF Record, Records
<1>3. DOMAIN calls = 1..Len(sent[i])
  BY <1>1
<1>4. sent[i] = [k \in 1..Len(sent[i]) |-> sent[i][k]]
  BY <1>1
<1> HIDE DEF calls
<1>5. Restored(calls) = sent[i]
  BY <1>2, <1>3, <1>4 DEF Restored
<1>6. QED BY <1>5 DEF calls

\* The invariant says of every known instrument what Delivered says.
LEMMA InvDelivered == TradeInv => Delivered
<1> SUFFICES ASSUME TradeInv, NEW i \in known
             PROVE  \E index \in 0..lastContract - 1 :
                      /\ IsEngineOf(index, i)
                      /\ Restored(contractEngines[index].calls) = sent[i]
  BY DEF Delivered
<1>1. Got(i) /\ TypeOK /\ i \in Instruments /\ Home(i) \in 0..MOD - 1
  BY HomeInTable DEF TradeInv, EnginesInv, TypeOK
<1>2. Index(i) \in 0..MAX_CONTRACT_NUM - 1 /\ Index(i) \in 0..lastContract - 1
  <2>1. Index(i) \in Nat /\ Index(i) < MAX_CONTRACT_NUM
    BY <1>1 DEF TypeOK, Index, Got, IsEngineOf, HasEngine
  <2>2. Index(i) \in 0..MAX_CONTRACT_NUM - 1
    BY <2>1, TableAssumption
  <2>3. Index(i) < lastContract /\ lastContract \in Nat
    BY <1>1, <2>2 DEF Got, IsEngineOf, TypeOK
  <2>4. QED BY <2>1, <2>2, <2>3
<1>3. Restored(contractEngines[Index(i)].calls) = sent[i]
  BY <1>1, <1>2, RestoredIsSent DEF Got, IsEngineOf
<1>4. QED BY <1>1, <1>2, <1>3 DEF Got

LEMMA TradeStep == ASSUME HomesDistinct, Room, TradeInv, [Next]_vars PROVE TradeInv'
<1>1. CASE UNCHANGED vars
  <2>1. /\ UNCHANGED <<contractPairs, lastContract, contractEngines, timestampOffset>>
        /\ UNCHANGED <<phase, crashed, known, sent, alphas, logs>>
    BY <1>1 DEF vars, table, count
  <2>2. TypeOK' /\ TableInv'
    BY <2>1 DEF TradeInv, TypeOK, HasEngine,
                TableInv, AllAtHome, KnownHit, IndicesDistinct, Hit, Index
  <2>3. EnginesInv' /\ OffsetInv'
    BY <2>1 DEF TradeInv, EnginesInv, OffsetInv, Got, GotAll, IsEngineOf, HasEngine, Index
  <2>4. QED BY <2>2, <2>3 DEF TradeInv
<1>2. ASSUME NEW i \in Instruments, InitContract(i) PROVE TradeInv'
  BY <1>2, InitContractStep
<1>3. ASSUME NEW i \in Instruments, InsertAlpha(i) PROVE TradeInv'
  <2>1. PICK t \in Timestamps : timestampOffset' = Offset(t) /\ Deliver(i, "alpha", t)
    BY <1>3 DEF InsertAlpha
  <2>2. /\ i \in known /\ known' = known /\ phase' \in {"alphas", "orders"}
        /\ alphas' \in Nat /\ logs' \in Nat
    BY <1>3 DEF InsertAlpha, TradeInv, TypeOK
  <2>3. QED BY <2>1, <2>2, DeliverStep
<1>4. ASSUME NEW i \in Instruments, InsertOrderLog(i) PROVE TradeInv'
  <2>1. PICK t \in Timestamps : Deliver(i, "order", t)
    BY <1>4 DEF InsertOrderLog
  <2>2. /\ i \in known /\ known' = known /\ phase' \in {"alphas", "orders"}
        /\ alphas' \in Nat /\ logs' \in Nat
    BY <1>4 DEF InsertOrderLog, TradeInv, TypeOK
  <2>3. timestampOffset' = Offset(t)
    BY <1>4 DEF InsertOrderLog, Offset, TradeInv, OffsetInv
  <2>4. QED BY <2>1, <2>2, <2>3, DeliverStep
<1>5. CASE OnComplete
  BY <1>5, OnCompleteStep
<1>6. QED BY <1>1, <1>2, <1>3, <1>4, <1>5 DEF Next, Terminated

\* On such a day no call of matching_thread goes through an entry of
\* contractEngines that was not assigned, or behind the array: none of the three
\* handlers and onComplete has undefined behaviour.
THEOREM NeverStray ==
  ASSUME HomesDistinct, Room
  PROVE  Spec => []~crashed
<1>1. TradeInv => ~crashed
  BY DEF TradeInv, EnginesInv
<1>2. QED BY <1>1, TradeInit, TradeStep, PTL DEF Spec

\* On such a day initContract gives every instrument an engine of its own, and the
\* engine gets every alpha and order log of the instrument, whatever order they
\* come in, at the times they have.
THEOREM RecordsDelivered ==
  ASSUME HomesDistinct, Room
  PROVE  Spec => []Delivered
<1>1. TradeInv => Delivered
  BY InvDelivered
<1>2. QED BY <1>1, TradeInit, TradeStep, PTL DEF Spec

-----------------------------------------------------------------------------
(* Any day.  Instruments may collide, and there may be more of them than   *)
(* engines: what is in the table is on the way that its probe went, and a  *)
(* home slot once taken has the same instrument for ever.                  *)

\* The probe for i comes by slot, and by no free one before.
OnTheWay(i, slot) ==
  \E k \in 0..MOD : slot = Probe(i, k) /\ \A j \in 0..k - 1 : ~Stops(i, Probe(i, j))

ProbeInv ==
  \A slot \in 0..MOD - 1 :
    LET instrument == contractPairs[slot].instrument
    IN  instrument # 0 => instrument \in known /\ OnTheWay(instrument, slot)

HomesTaken == \A i \in known : contractPairs[Home(i)].instrument # 0

\* The engine of an instrument that is at home has got its records, and strays.
Served ==
  \A i \in known, x \in 0..MAX_CONTRACT_NUM - 1 :
    Hit(i) /\ Index(i) = x /\ HasEngine(x) =>
      contractEngines[x].instrument = i /\ GotOwn(x, i)

\* An engine is the one its instrument is sent to, or the instrument is not at home,
\* and its engine gets nothing but strays.
Owners ==
  \A x \in 0..MAX_CONTRACT_NUM - 1, i \in Instruments :
    IsEngineOf(x, i) =>
      /\ i \in known
      /\ Hit(i)  => Index(i) = x
      /\ ~Hit(i) => \A m \in DOMAIN contractEngines[x].calls : Strayed(x, m)

MixInv == TypeOK /\ ProbeInv /\ HomesTaken /\ Served /\ Owners /\ OffsetInv

\* s is in r, in order, and the rest of r is at places of D.
Merged(s, r, D) ==
  \E at \in [DOMAIN s -> DOMAIN r] :
    /\ \A k, l \in DOMAIN at : k < l => at[k] < at[l]
    /\ \A k \in DOMAIN at : r[at[k]] = s[k]
    /\ \A m \in DOMAIN r : (\E k \in DOMAIN at : at[k] = m) \/ m \in D

\* What is there stays there.
LEMMA MergedSame ==
  ASSUME NEW s, NEW r, NEW D, NEW D2, Merged(s, r, D), \A m \in DOMAIN r : m \in D => m \in D2
  PROVE  Merged(s, r, D2)
BY DEF Merged

\* An element that comes to the end of both.
LEMMA MergedOwn ==
  ASSUME NEW n \in Nat, NEW p \in Nat, NEW s, NEW r, NEW s2, NEW r2, NEW D, NEW D2,
         DOMAIN s = 1..n, DOMAIN s2 = 1..n + 1, \A k \in 1..n : s2[k] = s[k],
         DOMAIN r = 1..p, DOMAIN r2 = 1..p + 1, \A m \in 1..p : r2[m] = r[m],
         s2[n + 1] = r2[p + 1], \A m \in 1..p : m \in D => m \in D2, Merged(s, r, D)
  PROVE  Merged(s2, r2, D2)
<1>0. PICK at \in [DOMAIN s -> DOMAIN r] :
        /\ \A k, l \in DOMAIN at : k < l => at[k] < at[l]
        /\ \A k \in DOMAIN at : r[at[k]] = s[k]
        /\ \A m \in DOMAIN r : (\E k \in DOMAIN at : at[k] = m) \/ m \in D
  BY Zenon DEF Merged
<1>1. /\ at \in [1..n -> 1..p]
      /\ \A k, l \in 1..n : k < l => at[k] < at[l]
      /\ \A k \in 1..n : r[at[k]] = s[k]
      /\ \A m \in 1..p : (\E k \in 1..n : at[k] = m) \/ m \in D
  BY <1>0
<1> DEFINE at2 == [k \in 1..n + 1 |-> IF k = n + 1 THEN p + 1 ELSE at[k]]
<1>2. \A k \in 1..n + 1 : k = n + 1 \/ (k # n + 1 /\ k \in 1..n)
  OBVIOUS
<1>3. \A k \in 1..n : at[k] \in 1..p /\ at2[k] = at[k] /\ k # n + 1 /\ k \in 1..n + 1
  BY <1>1
<1>4. at2[n + 1] = p + 1 /\ n + 1 \in 1..n + 1 /\ p + 1 \in 1..p + 1
  OBVIOUS
<1>5. at2 \in [1..n + 1 -> 1..p + 1] /\ DOMAIN at2 = 1..n + 1
  BY <1>2, <1>3
<1> HIDE DEF at2
<1>6. ASSUME NEW k \in 1..n + 1, NEW l \in 1..n + 1, k < l PROVE at2[k] < at2[l]
  <2>1. k \in 1..n /\ at2[k] = at[k] /\ at[k] \in 1..p
    <3>1. k \in 1..n
      BY <1>6
    <3>2. QED BY <1>3, <3>1
  <2>2. CASE l = n + 1
    BY <1>4, <2>1, <2>2
  <2>3. CASE l \in 1..n
    <3>1. at2[l] = at[l] /\ at[k] < at[l]
      BY <1>1, <1>3, <1>6, <2>1, <2>3
    <3>2. QED BY <2>1, <3>1
  <2>4. QED BY <1>2, <2>2, <2>3
<1>7. ASSUME NEW k \in 1..n + 1 PROVE r2[at2[k]] = s2[k]
  BY <1>1, <1>2, <1>3, <1>4
<1>8. ASSUME NEW m \in 1..p + 1 PROVE (\E k \in 1..n + 1 : at2[k] = m) \/ m \in D2
  <2>1. CASE m = p + 1
    BY <1>4, <2>1
  <2>2. CASE m # p + 1
    <3>1. m \in 1..p
      BY <2>2
    <3>2. QED BY <1>1, <1>3, <3>1
  <2>3. QED BY <2>1, <2>2
<1>9. at2 \in [DOMAIN s2 -> DOMAIN r2] /\ DOMAIN at2 = 1..n + 1 /\ DOMAIN r2 = 1..p + 1
  BY <1>5
<1>10. QED BY <1>6, <1>7, <1>8, <1>9, Zenon DEF Merged

\* A stray that comes to the end of one.
LEMMA MergedStray ==
  ASSUME NEW n \in Nat, NEW p \in Nat, NEW s, NEW r, NEW r2, NEW D, NEW D2,
         DOMAIN s = 1..n,
         DOMAIN r = 1..p, DOMAIN r2 = 1..p + 1, \A m \in 1..p : r2[m] = r[m],
         \A m \in 1..p : m \in D => m \in D2, p + 1 \in D2, Merged(s, r, D)
  PROVE  Merged(s, r2, D2)
<1>0. PICK at \in [DOMAIN s -> DOMAIN r] :
        /\ \A k, l \in DOMAIN at : k < l => at[k] < at[l]
        /\ \A k \in DOMAIN at : r[at[k]] = s[k]
        /\ \A m \in DOMAIN r : (\E k \in DOMAIN at : at[k] = m) \/ m \in D
  BY Zenon DEF Merged
<1>1. /\ at \in [1..n -> 1..p]
      /\ \A k, l \in 1..n : k < l => at[k] < at[l]
      /\ \A k \in 1..n : r[at[k]] = s[k]
      /\ \A m \in 1..p : (\E k \in 1..n : at[k] = m) \/ m \in D
  BY <1>0
<1>2. \A k \in 1..n : at[k] \in 1..p /\ r2[at[k]] = s[k]
  BY <1>1
<1>3. at \in [1..n -> 1..p + 1]
  BY <1>1
<1>4. \A m \in 1..p + 1 : m \in 1..p \/ m = p + 1
  OBVIOUS
<1>5. \A m \in 1..p + 1 : (\E k \in 1..n : at[k] = m) \/ m \in D2
  BY <1>1, <1>4
<1>6. at \in [DOMAIN s -> DOMAIN r2] /\ DOMAIN at = 1..n /\ DOMAIN r2 = 1..p + 1
  BY <1>3
<1>7. QED BY <1>1, <1>2, <1>5, <1>6, Zenon DEF Merged

\* The places where an engine has strays, and what it has.
Strays(x) == {m \in DOMAIN contractEngines[x].calls : Strayed(x, m)}
Has(x)    == Restored(contractEngines[x].calls)

LEMMA GotOwnMerged ==
  ASSUME NEW x, NEW i
  PROVE  /\ GotOwn(x, i) <=> Merged(sent[i], Has(x), Strays(x))
         /\ DOMAIN Has(x) = DOMAIN contractEngines[x].calls
<1>1. DOMAIN Has(x) = DOMAIN contractEngines[x].calls
  BY DEF Has, Restored
<1>2. \A m \in DOMAIN contractEngines[x].calls : m \in Strays(x) <=> Strayed(x, m)
  BY DEF Strays
<1>3. QED BY <1>1, <1>2 DEF GotOwn, Merged, Has

LEMMA LeastNumber ==
  ASSUME NEW T \in SUBSET Nat, T # {}
  PROVE  \E x \in T : \A y \in T : ~(y < x)
<1> DEFINE R == {ss \in Nat \X Nat : ss[1] < ss[2]}
<1>1. IsWellFoundedOn(R, Nat)
  BY NatLessThanWellFounded DEF OpToRel
<1>2. \A x, y \in Nat : y < x => <<y, x>> \in R
  OBVIOUS
<1>3. \E x \in T : \A y \in T : ~(<<y, x>> \in R)
  <2> HIDE DEF R
  <2> QED BY <1>1, WFMin
<1> HIDE DEF R
<1> QED BY <1>2, <1>3

\* The probe comes by every slot.
LEMMA ProbeCovers ==
  ASSUME NEW i \in Instruments, NEW slot \in 0..MOD - 1
  PROVE  \E k \in 0..MOD : Probe(i, k) = slot
<1> DEFINE n == MOD + 1
           h == Home(i)
<1>1. n \in Nat \ {0} /\ h \in 0..n - 1 /\ slot \in 0..n - 1
  BY HomeInTable, TableAssumption
<1>2. ASSUME NEW m \in Nat \ {0}, NEW a \in 0..m - 1 PROVE (a + m) % m = a
  BY <1>2
<1> HIDE DEF h
<1>3. CASE slot >= h
  <2>1. slot - h \in 0..MOD /\ h + (slot - h) = slot
    BY <1>1, <1>3, TableAssumption
  <2>2. (h + (slot - h)) % n = slot
    BY <1>1, <2>1, SmallMod
  <2>3. QED BY <2>1, <2>2 DEF Probe, h
<1>4. CASE slot < h
  <2>1. (slot - h) + n \in 0..MOD /\ h + ((slot - h) + n) = slot + n
    BY <1>1, <1>4, TableAssumption
  <2>2. (slot + n) % n = slot
    BY <1>1, <1>2
  <2>3. QED BY <2>1, <2>2 DEF Probe, h
<1>5. QED BY <1>1, <1>3, <1>4

LEMMA ProbeAtHome ==
  ASSUME NEW i \in Instruments
  PROVE  Probe(i, 0) = Home(i)
<1>1. MOD + 1 \in Nat \ {0} /\ Home(i) + 0 = Home(i) /\ Home(i) \in 0..(MOD + 1) - 1
  BY HomeInTable, TableAssumption
<1>2. QED BY <1>1, SmallMod DEF Probe

\* No instrument is in the table twice, so there is a free slot.
LEMMA OncePerInstrument ==
  ASSUME ProbeInv, NEW s \in 0..MOD - 1, NEW t \in 0..MOD - 1,
         contractPairs[s].instrument = contractPairs[t].instrument,
         contractPairs[s].instrument # 0
  PROVE  s = t
<1> DEFINE i == contractPairs[s].instrument
<1>1. PICK k \in 0..MOD : s = Probe(i, k) /\ \A j \in 0..k - 1 : ~Stops(i, Probe(i, j))
  BY DEF ProbeInv, OnTheWay
<1>2. PICK l \in 0..MOD : t = Probe(i, l) /\ \A j \in 0..l - 1 : ~Stops(i, Probe(i, j))
  BY DEF ProbeInv, OnTheWay
<1>3. Stops(i, s) /\ Stops(i, t)
  BY TableAssumption DEF Stops
<1>4. ~(k < l) /\ ~(l < k)
  BY <1>1, <1>2, <1>3
<1>5. QED BY <1>1, <1>2, <1>4, TableAssumption

LEMMA FreeSlot ==
  ASSUME TypeOK, ProbeInv
  PROVE  \E slot \in 0..MOD - 1 : contractPairs[slot].instrument = 0
<1> SUFFICES ASSUME \A slot \in 0..MOD - 1 : contractPairs[slot].instrument # 0
             PROVE  FALSE
  OBVIOUS
<1> DEFINE f == [slot \in 0..MOD - 1 |-> contractPairs[slot].instrument]
<1>1. f \in [0..MOD - 1 -> Instruments]
  BY DEF TypeOK
<1>2. IsFiniteSet(0..MOD - 1) /\ Cardinality(0..MOD - 1) = MOD
  <2>1. MOD - 1 \in Int /\ ~(0 > MOD - 1) /\ (MOD - 1) - 0 + 1 = MOD
    BY TableAssumption
  <2>2. /\ IsFiniteSet(0..MOD - 1)
        /\ Cardinality(0..MOD - 1) = IF 0 > MOD - 1 THEN 0 ELSE (MOD - 1) - 0 + 1
    BY <2>1, FS_Interval
  <2>3. QED BY <2>1, <2>2
<1>3. IsFiniteSet(Instruments) /\ Cardinality(Instruments) < Cardinality(0..MOD - 1)
  BY <1>2, DayAssumption
<1> HIDE DEF f
<1>4. PICK s, t \in 0..MOD - 1 : s # t /\ f[s] = f[t]
  BY <1>1, <1>2, <1>3, FS_PigeonHole
<1>5. QED BY <1>4, OncePerInstrument DEF f

\* The probe ends in the table, at a slot that is free or has the instrument; at
\* home if home is such a slot.
LEMMA ProbeEnds ==
  ASSUME TypeOK, ProbeInv, NEW i \in Instruments
  PROVE  /\ ProbedSlot(i) \in 0..MOD - 1
         /\ contractPairs[ProbedSlot(i)].instrument \in {0, i}
         /\ OnTheWay(i, ProbedSlot(i))
         /\ contractPairs[Home(i)].instrument \in {0, i} => ProbedSlot(i) = Home(i)
<1> DEFINE First(k) == /\ Stops(i, Probe(i, k))
                       /\ \A j \in 0..k - 1 : ~Stops(i, Probe(i, j))
           steps == CHOOSE k \in 0..MOD : First(k)
           T == {k \in 0..MOD : Stops(i, Probe(i, k))}
<1>1. T # {}
  <2>1. PICK slot \in 0..MOD - 1 : contractPairs[slot].instrument = 0
    BY FreeSlot
  <2>2. PICK k \in 0..MOD : Probe(i, k) = slot
    BY <2>1, ProbeCovers
  <2>3. Stops(i, slot)
    BY <2>1, TableAssumption DEF Stops
  <2>4. QED BY <2>2, <2>3
<1>2. T \in SUBSET Nat
  BY TableAssumption
<1>3. PICK k \in T : \A y \in T : ~(y < k)
  <2> HIDE DEF T
  <2> QED BY <1>1, <1>2, LeastNumber
<1>4. k \in 0..MOD /\ First(k)
  BY <1>3, TableAssumption
<1>5. steps \in 0..MOD /\ First(steps)
  <2> HIDE DEF First
  <2> QED BY <1>4
<1>6. ProbedSlot(i) = Probe(i, steps)
  BY DEF ProbedSlot
<1> HIDE DEF steps
<1>7. Probe(i, steps) \in 0..MOD
  <2>1. ASSUME NEW n \in Nat \ {0}, NEW a \in Nat PROVE a % n \in 0..n - 1
    BY <2>1
  <2>2. Home(i) + steps \in Nat /\ MOD + 1 \in Nat \ {0}
    BY <1>5, HomeInTable, TableAssumption
  <2>3. (Home(i) + steps) % (MOD + 1) \in 0..(MOD + 1) - 1
    BY <2>1, <2>2
  <2>4. QED BY <2>3, TableAssumption DEF Probe
<1>8. ProbedSlot(i) \in 0..MOD - 1 /\ contractPairs[ProbedSlot(i)].instrument \in {0, i}
  BY <1>5, <1>6, <1>7, TableAssumption DEF Stops
<1>9. OnTheWay(i, ProbedSlot(i))
  BY <1>5, <1>6 DEF OnTheWay
<1>10. ASSUME contractPairs[Home(i)].instrument \in {0, i} PROVE ProbedSlot(i) = Home(i)
  <2>1. Stops(i, Probe(i, 0))
    BY <1>10, ProbeAtHome, HomeInTable, TableAssumption DEF Stops
  <2>2. steps = 0
    BY <1>5, <2>1, TableAssumption
  <2>3. QED BY <1>6, <2>2, ProbeAtHome
<1>11. QED BY <1>8, <1>9, <1>10

LEMMA MixInit == Init => MixInv
<1> SUFFICES ASSUME Init PROVE MixInv
  OBVIOUS
<1>1. TypeOK
  BY TypeInit
<1>2. ProbeInv /\ HomesTaken /\ Served
  BY DEF Init, ProbeInv, HomesTaken, Served
<1>3. Owners
  BY DEF Init, Owners, IsEngineOf, HasEngine
<1>4. OffsetInv
  BY DEF Init, OffsetInv
<1>5. QED BY <1>1, <1>2, <1>3, <1>4 DEF MixInv

\* The home slot of a known instrument keeps what it has.
LEMMA GetOrInsertMix ==
  ASSUME TypeOK, ProbeInv, HomesTaken, NEW i \in Instruments, GetOrInsert(i),
         known' = known \cup {i}
  PROVE  /\ ProbeInv' /\ HomesTaken'
         /\ \A j \in known :
              (Hit(j)' <=> Hit(j)) /\ (Hit(j) => Index(j)' = Index(j))
         /\ i \notin known /\ Hit(i)' => Index(i)' = lastContract
<1> DEFINE p   == ProbedSlot(i)
           new == [instrument |-> i, index |-> lastContract]
<1>1. /\ p \in 0..MOD - 1 /\ contractPairs[p].instrument \in {0, i} /\ OnTheWay(i, p)
      /\ contractPairs[Home(i)].instrument \in {0, i} => p = Home(i)
      /\ Home(i) \in 0..MOD - 1 /\ i # 0
  BY ProbeEnds, HomeInTable, DayAssumption
<1>2. \A j \in known : j \in Instruments /\ j # 0 /\ Home(j) \in 0..MOD - 1
  BY HomeInTable, DayAssumption DEF TypeOK
<1>3. CASE Hit(i)
  <2>1. i \in known /\ known' = known
    BY <1>1, <1>3 DEF Hit, ProbeInv
  <2>2. UNCHANGED <<contractPairs, lastContract>>
    BY <1>3 DEF GetOrInsert, table
  <2>3. ProbeInv' /\ HomesTaken'
    BY <2>1, <2>2 DEF ProbeInv, HomesTaken, OnTheWay, Stops
  <2>4. QED BY <2>1, <2>2, <2>3 DEF Hit, Index
<1>4. CASE ~Hit(i)
  <2>1. contractPairs' = [contractPairs EXCEPT ![p] = new]
    BY <1>4 DEF GetOrInsert
  <2> HIDE DEF p
  <2>2. /\ contractPairs'[p] = new /\ new.instrument = i /\ new.index = lastContract
        /\ \A slot \in 0..MOD - 1 : slot # p => contractPairs'[slot] = contractPairs[slot]
    BY <1>1, <2>1 DEF TypeOK
  \* What did not stop a probe does not stop it now.
  <2>3. ASSUME NEW j \in Instruments, NEW slot \in 0..MOD, ~Stops(j, slot)
        PROVE  Stops(j, slot)' <=> (slot = p /\ j = i)
    <3>1. CASE slot = p
      <4>1. slot \in 0..MOD - 1 /\ slot # MOD
        BY <1>1, <3>1, TableAssumption
      <4>2. contractPairs[p].instrument = i => ~(j = i)
        BY <2>3, <3>1, <4>1 DEF Stops
      <4>3. QED BY <1>1, <2>2, <3>1, <4>1 DEF Stops
    <3>2. CASE slot # p
      <4>1. CASE slot = MOD
        BY <3>2, <4>1 DEF Stops
      <4>2. CASE slot # MOD
        BY <2>2, <2>3, <3>2, <4>2, TableAssumption DEF Stops
      <4>3. QED BY <4>1, <4>2
    <3>3. QED BY <3>1, <3>2
  <2>4. ASSUME NEW j \in Instruments, NEW slot \in 0..MOD - 1, OnTheWay(j, slot)
        PROVE  OnTheWay(j, slot)'
    <3>1. PICK k \in 0..MOD : slot = Probe(j, k) /\ \A l \in 0..k - 1 : ~Stops(j, Probe(j, l))
      BY <2>4 DEF OnTheWay
    <3>2. \A l \in 0..k - 1 : Probe(j, l) \in 0..MOD
      <4>1. ASSUME NEW n \in Nat \ {0}, NEW a \in Nat PROVE a % n \in 0..n - 1
        BY <4>1
      <4> TAKE l \in 0..k - 1
      <4>2. Home(j) + l \in Nat /\ MOD + 1 \in Nat \ {0}
        BY HomeInTable, TableAssumption
      <4>3. (Home(j) + l) % (MOD + 1) \in 0..(MOD + 1) - 1
        BY <4>1, <4>2
      <4>4. QED BY <4>3, TableAssumption DEF Probe
    <3>3. ASSUME NEW l \in 0..k - 1 PROVE ~Stops(j, Probe(j, l))'
      <4>1. ~Stops(j, Probe(j, l)) /\ Probe(j, l) \in 0..MOD
        BY <3>1, <3>2
      <4>2. ~(Probe(j, l) = p /\ j = i)
        BY <4>1, <1>1, TableAssumption DEF Stops
      <4>3. Probe(j, l)' = Probe(j, l)
        BY DEF Probe
      <4>4. QED BY <2>3, <4>1, <4>2, <4>3 DEF Stops
    <3>4. Probe(j, k)' = Probe(j, k)
      BY DEF Probe
    <3>5. QED BY <3>1, <3>3, <3>4 DEF OnTheWay
  <2>5. ProbeInv'
    <3> DEFINE Way(j, slot) ==
                 \E k \in 0..MOD :
                   /\ slot = Probe(j, k)
                   /\ \A l \in 0..k - 1 :
                        ~(/\ Probe(j, l) # MOD
                          /\ contractPairs'[Probe(j, l)].instrument \in {0, j})
    <3>1. ASSUME NEW j \in Instruments, NEW slot \in 0..MOD - 1, OnTheWay(j, slot)
          PROVE  Way(j, slot)
      BY <2>4, <3>1 DEF OnTheWay, Stops, Probe, Home
    <3> HIDE DEF Way
    <3>2. ASSUME NEW slot \in 0..MOD - 1, contractPairs'[slot].instrument # 0
          PROVE  /\ contractPairs'[slot].instrument \in known'
                 /\ Way(contractPairs'[slot].instrument, slot)
      <4>1. CASE slot = p
        BY <1>1, <2>2, <3>1, <4>1
      <4>2. CASE slot # p
        <5>1. /\ contractPairs[slot].instrument \in known
              /\ OnTheWay(contractPairs[slot].instrument, slot)
          BY <2>2, <3>2, <4>2 DEF ProbeInv
        <5>2. QED BY <1>2, <2>2, <3>1, <4>2, <5>1
      <4>3. QED BY <4>1, <4>2
    <3>3. QED BY <3>2 DEF ProbeInv, OnTheWay, Stops, Probe, Home, Way
  <2>6. \A j \in known : Home(j) = p => contractPairs[p].instrument = i
    BY <1>1 DEF HomesTaken
  <2>7. HomesTaken'
    <3>1. ASSUME NEW j \in known PROVE contractPairs'[Home(j)].instrument # 0
      BY <1>1, <1>2, <2>2 DEF HomesTaken
    <3>2. contractPairs'[Home(i)].instrument # 0
      BY <1>1, <2>2
    <3>3. QED BY <3>1, <3>2 DEF HomesTaken, Home
  <2>8. \A j \in known : (Hit(j)' <=> Hit(j)) /\ (Hit(j) => Index(j)' = Index(j))
    <3> TAKE j \in known
    <3>1. CASE Home(j) = p
      <4>1. contractPairs[Home(j)].instrument = i /\ contractPairs'[Home(j)].instrument = i
        BY <2>2, <2>6, <3>1
      <4>2. i # j
        BY <1>4, <4>1 DEF Hit
      <4>3. QED BY <4>1, <4>2 DEF Hit, Home
    <3>2. CASE Home(j) # p
      BY <1>2, <2>2, <3>2 DEF Hit, Index, Home
    <3>3. QED BY <3>1, <3>2
  <2>9. ASSUME i \notin known, Hit(i)' PROVE Index(i)' = lastContract
    <3>1. Home(i) = p
      <4>1. contractPairs[Home(i)].instrument # i
        BY <1>4 DEF Hit
      <4>2. QED BY <1>1, <2>2, <2>9, <4>1 DEF Hit, Home
    <3>2. QED BY <2>2, <3>1 DEF Index, Home
  <2>10. QED BY <2>5, <2>7, <2>8, <2>9
<1>5. QED BY <1>3, <1>4

\* A new instrument gets the next index, and an engine there that has got nothing;
\* or engines are damaged, and their instruments displaced.
LEMMA InitContractMix ==
  ASSUME MixInv, NEW i \in Instruments, InitContract(i)
  PROVE  MixInv'
<1> DEFINE new == [instrument |-> i, calls |-> <<>>, closed |-> FALSE]
<1>1. /\ TypeOK /\ ProbeInv /\ HomesTaken /\ Served /\ Owners /\ OffsetInv
      /\ i \notin known /\ known' = known \cup {i} /\ GetOrInsert(i)
      /\ UNCHANGED <<timestampOffset, phase, sent>>
  BY DEF MixInv, InitContract
<1>2. /\ ProbeInv' /\ HomesTaken'
      /\ \A j \in known : (Hit(j)' <=> Hit(j)) /\ (Hit(j) => Index(j)' = Index(j))
      /\ Hit(i)' => Index(i)' = lastContract
  BY <1>1, GetOrInsertMix
<1>3. ~Hit(i) /\ IndexOf(i) = lastContract
  BY <1>1, HomeInTable, DayAssumption DEF Hit, ProbeInv, IndexOf
<1>4. \A j \in known : Hit(j) => Index(j) \in Nat /\ Index(j) < lastContract
  <2> TAKE j \in known
  <2>1. j # 0 /\ Home(j) \in 0..MOD - 1
    BY <1>1, HomeInTable, DayAssumption DEF TypeOK
  <2>2. QED BY <1>1, <2>1 DEF Hit, Index, TypeOK
<1>5. \A x \in 0..MAX_CONTRACT_NUM - 1 :
        HasEngine(x)' => contractEngines'[x] = IF x = lastContract THEN new ELSE contractEngines[x]
  <2>1. CASE contractEngines' = [contractEngines EXCEPT ![lastContract] = new]
    BY <1>1, <2>1 DEF TypeOK
  <2>2. CASE lastContract >= MAX_CONTRACT_NUM /\ Overrun
    <3>1. \A x \in 0..MAX_CONTRACT_NUM - 1 :
            x # lastContract /\ contractEngines'[x] \in {Unset, contractEngines[x]}
      BY <1>1, <2>2, TableAssumption DEF Overrun, TypeOK
    <3>2. QED BY <3>1 DEF HasEngine
  <2>3. QED BY <1>3, <2>1, <2>2 DEF InitContract
<1>6. \A x \in 0..MAX_CONTRACT_NUM - 1 : HasEngine(x)' /\ x # lastContract => HasEngine(x)
  BY <1>5 DEF HasEngine
<1>7. Displaced \subseteq Displaced'
  <2> SUFFICES ASSUME NEW j \in known, ~Hit(j) \/ ~HasEngine(IndexOf(j)),
                      Hit(j)', HasEngine(IndexOf(j))'
               PROVE  FALSE
    BY <1>1 DEF Displaced
  <2>1. Hit(j) /\ Index(j)' = Index(j) /\ Index(j) \in Nat /\ Index(j) < lastContract
    BY <1>2, <1>4
  <2>2. IndexOf(j) = Index(j) /\ IndexOf(j)' = Index(j)
    BY <2>1 DEF IndexOf, Index
  <2>3. Index(j) \in 0..MAX_CONTRACT_NUM - 1 /\ contractEngines'[Index(j)] # Unset
    BY <2>1, <2>2, TableAssumption DEF HasEngine
  <2>4. HasEngine(Index(j))
    BY <1>1, <1>6, <2>1, <2>3, TableAssumption DEF HasEngine, TypeOK
  <2>5. QED BY <2>1, <2>2, <2>4
\* The engines that are there keep what they have.
<1>8. ASSUME NEW x \in 0..MAX_CONTRACT_NUM - 1, HasEngine(x)', x # lastContract
      PROVE  /\ HasEngine(x) /\ contractEngines'[x] = contractEngines[x] /\ Has(x)' = Has(x)
             /\ \A m : Strayed(x, m) => Strayed(x, m)'
             /\ \A j : GotOwn(x, j) => GotOwn(x, j)'
  <2>1. HasEngine(x) /\ contractEngines'[x] = contractEngines[x]
    BY <1>5, <1>6, <1>8
  <2>2. Has(x)' = Has(x)
    BY <1>1, <2>1 DEF Has, Restored
  <2>3. \A m : Strayed(x, m) => Strayed(x, m)'
    BY <1>1, <1>7, <2>2 DEF Strayed, Has
  <2>4. \A j : GotOwn(x, j) => GotOwn(x, j)'
    BY <1>1, <2>1, <2>2, <2>3 DEF GotOwn, Has
  <2>5. QED BY <2>1, <2>2, <2>3, <2>4
<1>9. Owners'
  <2> SUFFICES ASSUME NEW x \in 0..MAX_CONTRACT_NUM - 1, NEW j \in Instruments, IsEngineOf(x, j)'
               PROVE  /\ j \in known'
                      /\ Hit(j)'  => Index(j)' = x
                      /\ ~Hit(j)' => \A m \in DOMAIN contractEngines'[x].calls : Strayed(x, m)'
    BY DEF Owners
  <2>0. HasEngine(x)' /\ contractEngines'[x].instrument = j
    BY DEF IsEngineOf
  <2>1. CASE x = lastContract
    <3>1. contractEngines'[x] = new
      BY <1>5, <2>0, <2>1
    <3>2. new.instrument = i
      OBVIOUS
    <3>3. j = i
      BY <2>0, <3>1, <3>2
    <3>4. DOMAIN contractEngines'[x].calls = {}
      BY <3>1
    <3>5. QED BY <1>1, <1>2, <2>1, <3>3, <3>4
  <2>2. CASE x # lastContract
    <3>1. contractEngines'[x] = contractEngines[x] /\ IsEngineOf(x, j)
      BY <1>8, <2>0, <2>2 DEF IsEngineOf
    <3>2. /\ j \in known
          /\ Hit(j)  => Index(j) = x
          /\ ~Hit(j) => \A m \in DOMAIN contractEngines[x].calls : Strayed(x, m)
      BY <1>1, <3>1 DEF Owners
    <3>3. QED BY <1>1, <1>2, <1>8, <2>0, <2>2, <3>1, <3>2
  <2>3. QED BY <2>1, <2>2
<1>10. Served'
  <2> SUFFICES ASSUME NEW j \in known', NEW x \in 0..MAX_CONTRACT_NUM - 1,
                      Hit(j)', Index(j)' = x, HasEngine(x)'
               PROVE  contractEngines'[x].instrument = j /\ GotOwn(x, j)'
    BY DEF Served
  <2>1. CASE j = i
    <3>1. contractEngines'[x] = new
      BY <1>2, <1>5, <2>1
    <3>2. sent'[j] = <<>>
      BY <1>1, <2>1 DEF OffsetInv
    <3>3. DOMAIN contractEngines'[x].calls = {} /\ DOMAIN sent'[j] = {}
      BY <3>1, <3>2
    <3>4. GotOwn(x, j)'
      <4> DEFINE at == [k \in DOMAIN sent'[j] |-> k]
      <4>1. at \in [DOMAIN sent'[j] -> DOMAIN contractEngines'[x].calls] /\ DOMAIN at = {}
        BY <3>3
      <4> HIDE DEF at
      <4>2. QED BY <3>3, <4>1 DEF GotOwn
    <3>5. QED BY <2>1, <3>1, <3>4
  <2>2. CASE j # i
    <3>1. j \in known /\ Hit(j) /\ Index(j) = x /\ x # lastContract
      BY <1>1, <1>2, <1>4, <2>2
    <3>2. HasEngine(x) /\ contractEngines'[x] = contractEngines[x]
      BY <1>8, <3>1
    <3>3. contractEngines[x].instrument = j /\ GotOwn(x, j)
      BY <1>1, <3>1, <3>2 DEF Served
    <3>4. QED BY <1>8, <3>1, <3>2, <3>3
  <2>3. QED BY <2>1, <2>2
<1>11. TypeOK' /\ OffsetInv'
  BY <1>1, InitContractType DEF OffsetInv
<1>12. QED BY <1>2, <1>9, <1>10, <1>11 DEF MixInv

\* A record reaches the engine of its instrument; or the instrument is displaced,
\* and whichever engine the record gets to has one stray more.
LEMMA DeliverMix ==
  ASSUME MixInv, NEW i \in known, NEW kind \in {"alpha", "order"}, NEW t \in Timestamps,
         timestampOffset' = Offset(t), Deliver(i, kind, t), known' = known,
         phase' \in {"alphas", "orders"}, alphas' \in Nat, logs' \in Nat
  PROVE  MixInv'
<1> DEFINE index  == Index(i)
           call   == Record(kind, t - timestampOffset')
           record == Record(kind, t)
           n(x)   == Len(contractEngines[x].calls)
<1>1. /\ TypeOK /\ ProbeInv /\ HomesTaken /\ Served /\ Owners /\ OffsetInv
      /\ i \in Instruments /\ GetOrInsert(i) /\ i # 0 /\ Home(i) \in 0..MOD - 1
      /\ known' = known \cup {i}
  BY HomeInTable, DayAssumption DEF MixInv, TypeOK, Deliver
<1>2. /\ ProbeInv' /\ HomesTaken'
      /\ \A j \in known : (Hit(j)' <=> Hit(j)) /\ (Hit(j) => Index(j)' = Index(j))
  BY <1>1, GetOrInsertMix
<1>3. timestampOffset' \in Timestamps /\ timestampOffset' \in Nat /\ timestampOffset' # -1
  <2>1. timestampOffset' \in Timestamps
    BY <1>1 DEF Offset, TypeOK
  <2>2. QED BY <2>1, DayAssumption
<1>4. Narrow(t - timestampOffset') = t - timestampOffset' /\ call \in Call
  <2>1. t - timestampOffset' \in -IntSpan..IntSpan - 1
    BY <1>3, DayAssumption
  <2>2. QED BY <2>1, NarrowFits DEF Call, Record
<1>5. /\ \A j \in Instruments : sent[j] \in Seq(Records)
      /\ record \in Records /\ sent'[i] = Append(sent[i], record)
      /\ \A j \in Instruments \ {i} : sent'[j] = sent[j]
  <2>1. sent \in [Instruments -> Seq(Records)] /\ record \in Records
    BY <1>1 DEF TypeOK, Records, Record
  <2>2. sent' = [sent EXCEPT ![i] = Append(@, record)]
    BY DEF Deliver
  <2>3. QED BY <1>1, <2>1, <2>2
<1>6. \A x \in 0..MAX_CONTRACT_NUM - 1 :
        HasEngine(x) => /\ contractEngines[x] \in Engine /\ contractEngines[x].calls \in Seq(Call)
                        /\ n(x) \in Nat /\ DOMAIN contractEngines[x].calls = 1..n(x)
  BY <1>1 DEF HasEngine, TypeOK, Engine
<1>7. HasEngine(IndexOf(i)) => Hit(i) /\ IndexOf(i) = index /\ index \in 0..MAX_CONTRACT_NUM - 1
  <2> SUFFICES ASSUME HasEngine(IndexOf(i))
               PROVE  Hit(i) /\ IndexOf(i) = index /\ index \in 0..MAX_CONTRACT_NUM - 1
    OBVIOUS
  <2>1. CASE ~Hit(i)
    <3>1. lastContract \in 0..MAX_CONTRACT_NUM - 1 /\ HasEngine(lastContract)
      BY <1>1, <2>1, TableAssumption DEF IndexOf, HasEngine, TypeOK
    <3>2. lastContract < lastContract
      BY <1>1, <3>1 DEF TypeOK
    <3>3. QED BY <1>1, <3>2 DEF TypeOK
  <2>2. CASE Hit(i)
    <3>1. IndexOf(i) = index /\ index \in Nat
      BY <1>1, <2>2 DEF IndexOf, Index, TypeOK
    <3>2. QED BY <2>2, <3>1, TableAssumption DEF HasEngine
  <2>3. QED BY <2>1, <2>2
<1>8. ~HasEngine(IndexOf(i)) => i \in Displaced
  BY DEF Displaced
\* What becomes of an engine.
<1> DEFINE Grows(x) == contractEngines'[x].calls = Append(contractEngines[x].calls, call)
           Stays(x) == contractEngines'[x].calls = contractEngines[x].calls
<1>9. \A x \in 0..MAX_CONTRACT_NUM - 1 :
        /\ HasEngine(x)' = HasEngine(x)
        /\ HasEngine(x) =>
             /\ contractEngines'[x].instrument = contractEngines[x].instrument
             /\ \/ Stays(x) /\ ~(HasEngine(IndexOf(i)) /\ x = index)
                \/ Grows(x) /\ (i \in Displaced \/ (HasEngine(IndexOf(i)) /\ x = index))
  <2>1. CASE UNCHANGED contractEngines /\ ~HasEngine(IndexOf(i))
    BY <2>1 DEF HasEngine
  <2>2. ASSUME NEW y \in Reached(IndexOf(i)),
               contractEngines' = [contractEngines EXCEPT ![y].calls = Append(@, call)]
        PROVE  <1>9!:
    <3>1. /\ HasEngine(y) /\ y \in 0..MAX_CONTRACT_NUM - 1
          /\ HasEngine(IndexOf(i)) => y = index
      BY <1>1, <1>7 DEF Reached, TypeOK
    <3>2. /\ contractEngines'[y] =
               [contractEngines[y] EXCEPT !.calls = Append(contractEngines[y].calls, call)]
          /\ \A x \in 0..MAX_CONTRACT_NUM - 1 :
               x # y => contractEngines'[x] = contractEngines[x]
      BY <1>1, <2>2, <3>1 DEF TypeOK
    <3>3. /\ contractEngines'[y].instrument = contractEngines[y].instrument
          /\ contractEngines'[y].calls = Append(contractEngines[y].calls, call)
          /\ contractEngines'[y] # Unset
      <4>1. contractEngines[y] \in Engine /\ Append(contractEngines[y].calls, call) \in Seq(Call)
        BY <1>4, <1>6, <3>1
      <4>2. contractEngines'[y] \in Engine
        BY <3>2, <4>1 DEF Engine
      <4>3. QED BY <3>2, <4>1, <4>2, UnsetAssumption DEF Engine
    <3> HIDE DEF call, index
    <3>4. QED BY <1>8, <3>1, <3>2, <3>3 DEF HasEngine
  <2>3. QED BY <1>4, <2>1, <2>2 DEF Deliver
<1>10. Displaced \subseteq Displaced'
  <2> SUFFICES ASSUME NEW j \in known, ~Hit(j) \/ ~HasEngine(IndexOf(j)),
                      Hit(j)', HasEngine(IndexOf(j))'
               PROVE  FALSE
    BY DEF Displaced
  <2>1. Hit(j) /\ Index(j)' = Index(j)
    BY <1>2
  <2>2. IndexOf(j) = Index(j) /\ IndexOf(j)' = Index(j)
    BY <2>1 DEF IndexOf, Index
  <2>3. Index(j) \in 0..MAX_CONTRACT_NUM - 1
    <3>1. j \in Instruments /\ Home(j) \in 0..MOD - 1
      BY <1>1, HomeInTable DEF TypeOK
    <3>2. Index(j) \in Nat
      BY <1>1, <3>1 DEF Index, TypeOK
    <3>3. QED BY <2>2, <3>2, TableAssumption DEF HasEngine
  <2>4. PICK x \in 0..MAX_CONTRACT_NUM - 1 : x = Index(j)
    BY <2>3
  <2>5. HasEngine(x)'
    BY <2>2, <2>4 DEF HasEngine
  <2>6. QED BY <1>9, <2>1, <2>2, <2>4, <2>5
\* What an engine has, as records of the day: what it had, and perhaps this one.
<1>11. ASSUME NEW x \in 0..MAX_CONTRACT_NUM - 1, HasEngine(x), timestampOffset = -1
       PROVE  n(x) = 0
  <2> DEFINE j == contractEngines[x].instrument
  <2>1. j \in Instruments /\ IsEngineOf(x, j) /\ DOMAIN contractEngines[x].calls = 1..n(x)
    BY <1>6, <1>11 DEF IsEngineOf, Engine
  <2>2. \A k \in Instruments : DOMAIN sent[k] = {}
    BY <1>1, <1>11 DEF OffsetInv
  <2>3. \A m : ~Strayed(x, m)
    BY <1>1, <2>2 DEF Strayed, Displaced, TypeOK
  <2>4. CASE Hit(j)
    <3>1. GotOwn(x, j)
      BY <1>1, <1>11, <2>1, <2>4 DEF Owners, Served
    <3>2. \A m \in 1..n(x) : FALSE
      BY <2>1, <2>2, <2>3, <3>1 DEF GotOwn
    <3>3. QED BY <1>6, <1>11, <3>2
  <2>5. CASE ~Hit(j)
    <3>1. \A m \in 1..n(x) : FALSE
      BY <1>1, <2>1, <2>3, <2>5 DEF Owners
    <3>2. QED BY <1>6, <1>11, <3>1
  <2>6. QED BY <2>4, <2>5
<1>12. ASSUME NEW x \in 0..MAX_CONTRACT_NUM - 1, HasEngine(x)
       PROVE  /\ DOMAIN Has(x) = 1..n(x) /\ n(x) \in Nat
              /\ \A m \in 1..n(x) : Has(x)'[m] = Has(x)[m]
              /\ Stays(x) => DOMAIN Has(x)' = 1..n(x)
              /\ Grows(x) => DOMAIN Has(x)' = 1..n(x) + 1 /\ Has(x)'[n(x) + 1] = record
  <2> DEFINE calls == contractEngines[x].calls
             mine  == contractEngines'[x].calls
  <2>1. calls \in Seq(Call) /\ n(x) \in Nat /\ DOMAIN calls = 1..n(x)
    BY <1>6, <1>12
  <2>2. /\ Append(calls, call) \in Seq(Call) /\ DOMAIN Append(calls, call) = 1..n(x) + 1
        /\ Append(calls, call)[n(x) + 1] = call
        /\ \A k \in 1..n(x) : Append(calls, call)[k] = calls[k]
    BY <1>4, <2>1
  <2>3. /\ \A m \in 1..n(x) : m \in DOMAIN mine /\ mine[m] = calls[m]
        /\ Stays(x) => DOMAIN mine = 1..n(x)
        /\ Grows(x) => DOMAIN mine = 1..n(x) + 1 /\ mine[n(x) + 1] = call
    BY <1>9, <1>12, <2>1, <2>2
  <2>4. Has(x)' = [k \in DOMAIN mine |-> [mine[k] EXCEPT !.timestamp = @ + timestampOffset']]
    BY DEF Has, Restored
  <2>5. Has(x) = [k \in DOMAIN calls |-> [calls[k] EXCEPT !.timestamp = @ + timestampOffset]]
    BY DEF Has, Restored
  <2>6. [call EXCEPT !.timestamp = @ + timestampOffset'] = record
    BY <1>3, DayAssumption DEF Record
  <2>7. n(x) = 0 \/ timestampOffset' = timestampOffset
    BY <1>11, <1>12 DEF Offset
  <2> HIDE DEF call, record, calls, mine
  <2>8. \A m \in 1..n(x) : Has(x)'[m] = Has(x)[m]
    <3>1. CASE n(x) = 0
      BY <3>1
    <3>2. CASE timestampOffset' = timestampOffset
      <4> SUFFICES ASSUME NEW m \in 1..n(x) PROVE Has(x)'[m] = Has(x)[m]
        OBVIOUS
      <4>1. m \in DOMAIN mine /\ m \in DOMAIN calls /\ mine[m] = calls[m]
        BY <2>1, <2>3
      <4>2. QED BY <2>4, <2>5, <3>2, <4>1
    <3>3. QED BY <2>7, <3>1, <3>2
  <2>9. DOMAIN Has(x)' = DOMAIN mine
    BY <2>4
  <2>10. Grows(x) => Has(x)'[n(x) + 1] = record
    <3> SUFFICES ASSUME Grows(x) PROVE Has(x)'[n(x) + 1] = record
      OBVIOUS
    <3>1. n(x) + 1 \in DOMAIN mine /\ mine[n(x) + 1] = call
      BY <2>1, <2>3
    <3>2. QED BY <2>4, <2>6, <3>1
  <2>11. QED BY <2>1, <2>3, <2>5, <2>8, <2>9, <2>10
<1> HIDE DEF call, n
\* A stray stays one, and what is of a displaced instrument is one.
<1>13. ASSUME NEW x \in 0..MAX_CONTRACT_NUM - 1, HasEngine(x)
       PROVE  /\ \A m \in 1..n(x) : Strayed(x, m) => Strayed(x, m)'
              /\ Grows(x) /\ i \in Displaced => \A m : m = n(x) + 1 => Strayed(x, m)'
  <2>1. \A j \in Instruments : \A l \in DOMAIN sent[j] :
          l \in DOMAIN sent'[j] /\ sent'[j][l] = sent[j][l]
    <3> SUFFICES ASSUME NEW j \in Instruments, NEW l \in DOMAIN sent[j]
                 PROVE  l \in DOMAIN sent'[j] /\ sent'[j][l] = sent[j][l]
      OBVIOUS
    <3>1. CASE j # i
      BY <1>5, <3>1
    <3>2. CASE j = i
      <4> HIDE DEF record
      <4>1. sent[i] \in Seq(Records) /\ l \in 1..Len(sent[i])
        BY <1>1, <1>5, <3>2
      <4>2. QED BY <1>5, <3>2, <4>1
    <3>3. QED BY <3>1, <3>2
  <2>2. Displaced \subseteq Instruments
    BY <1>1 DEF Displaced, TypeOK
  <2>3. ASSUME NEW m \in 1..n(x), Strayed(x, m) PROVE Strayed(x, m)'
    <3>1. PICK j \in Displaced : \E l \in DOMAIN sent[j] : Has(x)[m] = sent[j][l]
      BY <2>3 DEF Strayed, Has
    <3>2. PICK l \in DOMAIN sent[j] : Has(x)[m] = sent[j][l]
      BY <3>1
    <3>3. j \in Displaced' /\ l \in DOMAIN sent'[j] /\ Has(x)'[m] = sent'[j][l]
      BY <1>10, <1>12, <1>13, <2>1, <2>2, <3>2
    <3>4. QED BY <3>3 DEF Strayed, Has
  <2>4. ASSUME Grows(x), i \in Displaced, NEW m, m = n(x) + 1 PROVE Strayed(x, m)'
    <3>1. Has(x)'[m] = record
      BY <1>12, <1>13, <2>4
    <3>2. Len(sent[i]) + 1 \in DOMAIN sent'[i] /\ sent'[i][Len(sent[i]) + 1] = record
      BY <1>1, <1>5
    <3>3. i \in Displaced'
      BY <1>10, <2>4
    <3> HIDE DEF record
    <3>4. QED BY <3>1, <3>2, <3>3 DEF Strayed, Has
  <2>5. QED BY <2>3, <2>4
<1>14. ASSUME NEW x \in 0..MAX_CONTRACT_NUM - 1, HasEngine(x)
       PROVE  /\ Stays(x) => DOMAIN contractEngines'[x].calls = 1..n(x)
              /\ Grows(x) => DOMAIN contractEngines'[x].calls = 1..n(x) + 1
  BY <1>12, <1>14 DEF Has, Restored
<1> HIDE DEF Grows, Stays
<1>15. Owners'
  <2> SUFFICES ASSUME NEW x \in 0..MAX_CONTRACT_NUM - 1, NEW j \in Instruments, IsEngineOf(x, j)'
               PROVE  /\ j \in known'
                      /\ Hit(j)'  => Index(j)' = x
                      /\ ~Hit(j)' => \A m \in DOMAIN contractEngines'[x].calls : Strayed(x, m)'
    BY DEF Owners
  <2>1. HasEngine(x) /\ IsEngineOf(x, j)
    BY <1>9 DEF IsEngineOf
  <2>2. /\ j \in known
        /\ Hit(j)  => Index(j) = x
        /\ ~Hit(j) => \A m \in DOMAIN contractEngines[x].calls : Strayed(x, m)
    BY <1>1, <2>1 DEF Owners
  <2>3. ASSUME ~Hit(j), NEW m \in DOMAIN contractEngines'[x].calls PROVE Strayed(x, m)'
    <3>1. \A k \in 1..n(x) : Strayed(x, k)'
      BY <1>6, <1>13, <2>1, <2>2, <2>3
    <3>2. CASE Stays(x)
      BY <1>14, <2>1, <3>1, <3>2
    <3>3. CASE Grows(x) /\ i \in Displaced
      <4>1. n(x) \in Nat /\ m \in 1..n(x) + 1 /\ (m = n(x) + 1 => Strayed(x, m)')
        BY <1>12, <1>13, <1>14, <2>1, <3>3
      <4>2. m \in 1..n(x) \/ m = n(x) + 1
        BY <4>1
      <4>3. QED BY <3>1, <4>1, <4>2
    <3>4. CASE HasEngine(IndexOf(i)) /\ x = index
      <4>1. Hit(i) /\ Index(i) = x /\ HasEngine(x)
        BY <1>7, <2>1, <3>4
      <4>2. contractEngines[x].instrument = i
        BY <1>1, <4>1 DEF Served
      <4>3. QED BY <2>1, <2>3, <4>1, <4>2 DEF IsEngineOf
    <3>5. QED BY <1>9, <2>1, <3>2, <3>3, <3>4
  <2>4. QED BY <1>2, <2>2, <2>3
<1>16. Served'
  <2> SUFFICES ASSUME NEW j \in known, NEW x \in 0..MAX_CONTRACT_NUM - 1,
                      Hit(j)', Index(j)' = x, HasEngine(x)'
               PROVE  contractEngines'[x].instrument = j /\ GotOwn(x, j)'
    BY DEF Served
  <2>1. /\ Hit(j) /\ Index(j) = x /\ HasEngine(x) /\ j \in Instruments
        /\ contractEngines[x].instrument = j /\ GotOwn(x, j)
    BY <1>1, <1>2, <1>9 DEF Served, TypeOK
  <2>2. contractEngines'[x].instrument = j
    BY <1>9, <2>1
  <2> DEFINE s  == sent[j]
             r  == Has(x)
             s2 == sent'[j]
             r2 == Has(x)'
             D  == Strays(x)
             D2 == {m \in DOMAIN contractEngines'[x].calls : Strayed(x, m)'}
  <2>3. Merged(s, r, D)
    BY <2>1, GotOwnMerged
  <2>4. /\ n(x) \in Nat /\ DOMAIN r = 1..n(x) /\ \A m \in 1..n(x) : r2[m] = r[m]
        /\ Stays(x) => DOMAIN r2 = 1..n(x) /\ DOMAIN contractEngines'[x].calls = 1..n(x)
        /\ Grows(x) => /\ DOMAIN r2 = 1..n(x) + 1 /\ DOMAIN contractEngines'[x].calls = 1..n(x) + 1
                       /\ r2[n(x) + 1] = record
    BY <1>12, <1>14, <2>1
  <2>5. Stays(x) \/ Grows(x)
    BY <1>9, <2>1
  <2>6. \A m \in 1..n(x) : m \in D => m \in D2
    <3>1. \A m \in 1..n(x) : Strayed(x, m) => Strayed(x, m)'
      BY <1>13, <2>1
    <3>2. \A m \in 1..n(x) : m \in DOMAIN contractEngines'[x].calls
      BY <2>4, <2>5
    <3>3. QED BY <3>1, <3>2 DEF Strays
  <2>7. Grows(x) /\ i \in Displaced => n(x) + 1 \in D2
    <3> SUFFICES ASSUME Grows(x), i \in Displaced PROVE n(x) + 1 \in D2
      OBVIOUS
    <3>1. \A m : m = n(x) + 1 => Strayed(x, m)'
      BY <1>13, <2>1
    <3>2. \A m : m = n(x) + 1 => m \in DOMAIN contractEngines'[x].calls
      BY <2>4
    <3>3. \A m : m = n(x) + 1 => m \in D2
      BY <3>1, <3>2
    <3>4. QED BY <3>3
  <2>8. /\ Len(s) \in Nat /\ DOMAIN s = 1..Len(s)
        /\ j # i => s2 = s
        /\ j = i => /\ DOMAIN s2 = 1..Len(s) + 1 /\ s2[Len(s) + 1] = record
                    /\ \A k \in 1..Len(s) : s2[k] = s[k]
    <3>1. s \in Seq(Records) /\ Len(s) \in Nat /\ DOMAIN s = 1..Len(s)
      BY <1>5, <2>1
    <3>2. j # i => s2 = s
      BY <1>5, <2>1
    <3>3. CASE j = i
      <4>1. s2 = Append(s, record)
        BY <1>5, <3>3
      <4> HIDE DEF s, s2, record
      <4>2. QED BY <1>5, <3>1, <3>3, <4>1
    <3>4. QED BY <3>1, <3>2, <3>3
  <2> HIDE DEF s, r, s2, r2, D, D2, record
  <2>9. Merged(s2, r2, D2)
    <3>1. CASE j = i
      <4>1. HasEngine(IndexOf(i)) /\ x = index
        BY <2>1, <3>1 DEF IndexOf, Index
      <4>2. Grows(x)
        BY <1>9, <2>1, <4>1
      <4>3. /\ Len(s) \in Nat /\ DOMAIN s = 1..Len(s) /\ DOMAIN s2 = 1..Len(s) + 1
            /\ \A k \in 1..Len(s) : s2[k] = s[k]
        BY <2>8, <3>1
      <4>4. /\ n(x) \in Nat /\ DOMAIN r = 1..n(x) /\ DOMAIN r2 = 1..n(x) + 1
            /\ \A m \in 1..n(x) : r2[m] = r[m]
        BY <2>4, <4>2
      <4>5. s2[Len(s) + 1] = r2[n(x) + 1]
        BY <2>4, <2>8, <3>1, <4>2
      <4> HIDE DEF Grows, Stays, index
      <4>6. QED BY <2>3, <2>6, <4>3, <4>4, <4>5, MergedOwn
    <3>2. CASE j # i /\ Stays(x)
      <4>1. Merged(s, r, D2)
        BY <2>3, <2>4, <2>6, MergedSame
      <4>2. \A m \in DOMAIN r : r2[m] = r[m]
        BY <2>4
      <4>3. DOMAIN r2 = DOMAIN r
        BY <2>4, <3>2
      <4>4. Merged(s, r2, D2)
        BY <4>1, <4>2, <4>3 DEF Merged
      <4>5. QED BY <2>8, <3>2, <4>4
    <3>3. CASE j # i /\ Grows(x)
      <4>1. i \in Displaced
        <5>1. HasEngine(IndexOf(i)) /\ x = index => contractEngines[x].instrument = i
          BY <1>1, <1>7 DEF Served
        <5>2. ~(HasEngine(IndexOf(i)) /\ x = index)
          BY <2>1, <3>3, <5>1
        <5>3. QED BY <1>8, <1>9, <2>1, <5>2, <3>3, <2>4 DEF Stays, Grows
      <4>2. Merged(s, r2, D2)
        <5>1. /\ Len(s) \in Nat /\ DOMAIN s = 1..Len(s)
              /\ n(x) \in Nat /\ DOMAIN r = 1..n(x) /\ DOMAIN r2 = 1..n(x) + 1
              /\ \A m \in 1..n(x) : r2[m] = r[m]
              /\ n(x) + 1 \in D2
          BY <2>4, <2>7, <2>8, <3>3, <4>1
        <5>2. QED BY <2>3, <2>6, <5>1, MergedStray
      <4>3. QED BY <2>8, <3>3, <4>2
    <3>4. QED BY <2>5, <3>1, <3>2, <3>3
  <2>10. GotOwn(x, j)'
    <3>1. DOMAIN r2 = DOMAIN contractEngines'[x].calls
      BY <2>4, <2>5
    <3>2. \A m \in DOMAIN contractEngines'[x].calls : m \in D2 <=> Strayed(x, m)'
      BY DEF D2
    <3>3. QED BY <2>9, <3>1, <3>2 DEF Merged, GotOwn, Has, s2, r2
  <2>11. QED BY <2>2, <2>10
<1>17. TypeOK' /\ OffsetInv'
  BY <1>1, <1>3, <1>5, DeliverType DEF OffsetInv
<1>18. QED BY <1>2, <1>15, <1>16, <1>17 DEF MixInv

LEMMA MixStep == MixInv /\ [Next]_vars => MixInv'
<1> SUFFICES ASSUME MixInv, [Next]_vars PROVE MixInv'
  OBVIOUS
\* The table, what was sent, and what the engines have got are as they were.
<1>1. ASSUME UNCHANGED <<contractPairs, lastContract, timestampOffset, known, sent>>, TypeOK',
             \A x \in 0..MAX_CONTRACT_NUM - 1 :
               /\ HasEngine(x)' = HasEngine(x)
               /\ HasEngine(x) => /\ contractEngines'[x].instrument = contractEngines[x].instrument
                                  /\ contractEngines'[x].calls = contractEngines[x].calls,
             OffsetInv'
      PROVE  MixInv'
  <2>1. \A j : /\ Hit(j)' = Hit(j) /\ Index(j)' = Index(j) /\ IndexOf(j)' = IndexOf(j)
    BY <1>1 DEF Hit, Index, IndexOf
  <2>2. ProbeInv' /\ HomesTaken'
    BY <1>1 DEF MixInv, ProbeInv, OnTheWay, Stops, HomesTaken
  <2>3. Displaced \subseteq Displaced'
    <3> SUFFICES ASSUME NEW j \in known, ~Hit(j) \/ ~HasEngine(IndexOf(j)),
                        Hit(j)', HasEngine(IndexOf(j))'
                 PROVE  FALSE
      BY <1>1 DEF Displaced
    <3>1. Hit(j) /\ IndexOf(j) = Index(j) /\ IndexOf(j)' = IndexOf(j)
      BY <2>1 DEF IndexOf, Index
    <3>2. Index(j) \in 0..MAX_CONTRACT_NUM - 1
      <4>1. j \in Instruments /\ Home(j) \in 0..MOD - 1 /\ TypeOK
        BY HomeInTable DEF MixInv, TypeOK
      <4>2. Index(j) \in Nat
        BY <4>1 DEF Index, TypeOK
      <4>3. Index(j) < MAX_CONTRACT_NUM
        BY <3>1 DEF HasEngine
      <4>4. QED BY <4>2, <4>3, TableAssumption
    <3>3. PICK x \in 0..MAX_CONTRACT_NUM - 1 : x = Index(j)
      BY <3>2
    <3>4. HasEngine(x)' /\ ~HasEngine(x)
      BY <3>1, <3>3 DEF HasEngine
    <3>5. QED BY <1>1, <3>4
  <2>4. ASSUME NEW x \in 0..MAX_CONTRACT_NUM - 1, HasEngine(x)
        PROVE  /\ \A m : Strayed(x, m) => Strayed(x, m)'
               /\ \A j : GotOwn(x, j) => GotOwn(x, j)'
    <3>1. contractEngines'[x].calls = contractEngines[x].calls /\ Has(x)' = Has(x)
      BY <1>1, <2>4 DEF Has, Restored
    <3>2. \A m : Strayed(x, m) => Strayed(x, m)'
      BY <1>1, <2>3, <3>1 DEF Strayed, Has
    <3>3. QED BY <1>1, <3>1, <3>2 DEF GotOwn, Has
  <2>5. Owners'
    <3> SUFFICES ASSUME NEW x \in 0..MAX_CONTRACT_NUM - 1, NEW j \in Instruments, IsEngineOf(x, j)'
                 PROVE  /\ j \in known'
                        /\ Hit(j)'  => Index(j)' = x
                        /\ ~Hit(j)' => \A m \in DOMAIN contractEngines'[x].calls : Strayed(x, m)'
      BY DEF Owners
    <3>1. HasEngine(x) /\ IsEngineOf(x, j) /\ contractEngines'[x].calls = contractEngines[x].calls
      BY <1>1 DEF IsEngineOf
    <3>2. QED BY <1>1, <2>1, <2>4, <3>1 DEF MixInv, Owners
  <2>6. Served'
    <3> SUFFICES ASSUME NEW j \in known, NEW x \in 0..MAX_CONTRACT_NUM - 1,
                        Hit(j)', Index(j)' = x, HasEngine(x)'
                 PROVE  contractEngines'[x].instrument = j /\ GotOwn(x, j)'
      BY <1>1 DEF Served
    <3>1. HasEngine(x) /\ Hit(j) /\ Index(j) = x
      BY <1>1, <2>1
    <3>2. contractEngines[x].instrument = j /\ GotOwn(x, j)
      BY <3>1 DEF MixInv, Served
    <3>3. QED BY <1>1, <2>4, <3>1, <3>2
  <2>7. QED BY <1>1, <2>2, <2>5, <2>6 DEF MixInv
<1>2. CASE UNCHANGED vars
  <2>1. /\ UNCHANGED <<contractPairs, lastContract, contractEngines, timestampOffset>>
        /\ UNCHANGED <<phase, known, sent>>
    BY <1>2 DEF vars, table
  <2>2. TypeOK' /\ OffsetInv'
    BY <2>1, TypeStep DEF MixInv, OffsetInv
  <2>3. \A x : HasEngine(x)' = HasEngine(x)
    BY <2>1 DEF HasEngine
  <2>4. QED BY <1>1, <2>1, <2>2, <2>3
<1>3. ASSUME NEW i \in Instruments, InitContract(i) PROVE MixInv'
  BY <1>3, InitContractMix
<1>4. ASSUME NEW i \in Instruments, InsertAlpha(i) PROVE MixInv'
  <2>1. PICK t \in Timestamps : timestampOffset' = Offset(t) /\ Deliver(i, "alpha", t)
    BY <1>4 DEF InsertAlpha
  <2>2. /\ i \in known /\ known' = known /\ phase' \in {"alphas", "orders"}
        /\ alphas' \in Nat /\ logs' \in Nat
    BY <1>4 DEF InsertAlpha, MixInv, TypeOK
  <2>3. QED BY <2>1, <2>2, DeliverMix
<1>5. ASSUME NEW i \in Instruments, InsertOrderLog(i) PROVE MixInv'
  <2>1. PICK t \in Timestamps : Deliver(i, "order", t)
    BY <1>5 DEF InsertOrderLog
  <2>2. /\ i \in known /\ known' = known /\ phase' \in {"alphas", "orders"}
        /\ alphas' \in Nat /\ logs' \in Nat
    BY <1>5 DEF InsertOrderLog, MixInv, TypeOK
  <2>3. timestampOffset' = Offset(t)
    BY <1>5 DEF InsertOrderLog, Offset, MixInv, OffsetInv
  <2>4. QED BY <2>1, <2>2, <2>3, DeliverMix
<1>6. CASE OnComplete
  <2>1. /\ UNCHANGED <<contractPairs, lastContract, timestampOffset, known, sent>>
        /\ phase' = "done" /\ TypeOK
    BY <1>6 DEF OnComplete, table, MixInv
  <2>2. TypeOK' /\ OffsetInv'
    BY <2>1, TypeStep DEF MixInv, OffsetInv
  <2>3. QED BY <1>1, <1>6, <2>1, <2>2, OnCompleteEngines
<1>7. QED BY <1>2, <1>3, <1>4, <1>5, <1>6 DEF Next, Terminated

\* On any day, with collisions and without room, an instrument that none displaces
\* has its engine and all its records, and only records of displaced instruments get
\* to engines that are not theirs (getOrInsertInstrument, trade_engine.cpp:118-130).
THEOREM StrayOnlyDisplaced == Spec => []OnlyDisplacedStray
<1>1. MixInv => OnlyDisplacedStray
  <2> SUFFICES ASSUME MixInv PROVE OnlyDisplacedStray
    OBVIOUS
  <2>1. TypeOK /\ DOMAIN contractEngines = 0..MAX_CONTRACT_NUM - 1
    BY DEF MixInv, TypeOK
  <2>2. ASSUME NEW i \in known \ Displaced
        PROVE  IsEngineOf(IndexOf(i), i) /\ GotOwn(IndexOf(i), i)
    <3>1. Hit(i) /\ HasEngine(IndexOf(i)) /\ i \in Instruments
      BY <2>1 DEF Displaced, TypeOK
    <3>2. IndexOf(i) = Index(i) /\ Index(i) \in Nat
      BY <2>1, <3>1, HomeInTable DEF IndexOf, Index, TypeOK
    <3>3. IndexOf(i) \in 0..MAX_CONTRACT_NUM - 1
      BY <3>1, <3>2, TableAssumption DEF HasEngine
    <3>4. QED BY <3>1, <3>2, <3>3 DEF MixInv, Served, IsEngineOf
  <2>3. ASSUME NEW x \in DOMAIN contractEngines, HasEngine(x),
               contractEngines[x].instrument \in Displaced
        PROVE  \A m \in DOMAIN contractEngines[x].calls : Strayed(x, m)
    <3> DEFINE i == contractEngines[x].instrument
    <3>1. x \in 0..MAX_CONTRACT_NUM - 1 /\ i \in Instruments /\ IsEngineOf(x, i)
      BY <2>1, <2>3 DEF Displaced, IsEngineOf, TypeOK
    <3>2. ~Hit(i)
      <4>1. ASSUME Hit(i) PROVE FALSE
        <5>1. Index(i) = x
          BY <3>1, <4>1 DEF MixInv, Owners
        <5>2. IndexOf(i) = x
          BY <4>1, <5>1 DEF IndexOf, Index
        <5>3. QED BY <2>3, <4>1, <5>2 DEF Displaced
      <4>2. QED BY <4>1
    <3>3. QED BY <3>1, <3>2 DEF MixInv, Owners
  <2>4. QED BY <2>2, <2>3 DEF OnlyDisplacedStray
<1>2. QED BY MixInit, MixStep, <1>1, PTL DEF Spec

-----------------------------------------------------------------------------
(* Refinement, on days without collisions and with room.                   *)

received ==
  [instrument \in Instruments |->
     IF \E index \in DOMAIN contractEngines : IsEngineOf(index, instrument)
       THEN Restored(contractEngines[CHOOSE index \in DOMAIN contractEngines :
                                       IsEngineOf(index, instrument)].calls)
       ELSE <<>>]

LEMMA ReceivedIsSent == TradeInv /\ MixInv => received = sent
<1> SUFFICES ASSUME TradeInv, MixInv PROVE received = sent
  OBVIOUS
<1>1. TypeOK /\ DOMAIN contractEngines = 0..MAX_CONTRACT_NUM - 1
  BY DEF MixInv, TypeOK
<1>2. ASSUME NEW i \in Instruments PROVE received[i] = sent[i]
  <2> DEFINE x == CHOOSE index \in DOMAIN contractEngines : IsEngineOf(index, i)
  <2>1. CASE \E index \in DOMAIN contractEngines : IsEngineOf(index, i)
    <3>1. x \in DOMAIN contractEngines /\ IsEngineOf(x, i)
      BY <2>1
    <3>2. received[i] = Restored(contractEngines[x].calls)
      BY <2>1 DEF received
    <3> HIDE DEF x
    <3>3. i \in known /\ (Hit(i) => Index(i) = x)
      BY <1>1, <3>1 DEF MixInv, Owners
    <3>4. Hit(i) /\ GotAll(x, i)
      BY <3>3 DEF TradeInv, TableInv, KnownHit, EnginesInv, Got
    <3>5. QED BY <1>1, <3>1, <3>2, <3>3, <3>4, RestoredIsSent DEF IsEngineOf
  <2>2. CASE ~\E index \in DOMAIN contractEngines : IsEngineOf(index, i)
    <3>1. i \notin known
      <4> SUFFICES ASSUME i \in known PROVE FALSE
        OBVIOUS
      <4>1. IsEngineOf(Index(i), i) /\ Home(i) \in 0..MOD - 1
        BY HomeInTable DEF TradeInv, EnginesInv, Got
      <4>2. Index(i) \in Nat /\ Index(i) < MAX_CONTRACT_NUM
        BY <1>1, <4>1 DEF IsEngineOf, HasEngine, Index, TypeOK
      <4>3. Index(i) \in DOMAIN contractEngines
        BY <1>1, <4>2, TableAssumption
      <4>4. QED BY <2>2, <4>1, <4>3
    <3>2. received[i] = <<>>
      BY <2>2 DEF received
    <3>3. QED BY <3>1, <3>2 DEF MixInv, OffsetInv
  <2>3. QED BY <2>1, <2>2
<1>3. /\ sent = [i \in Instruments |-> sent[i]]
      /\ received = [i \in Instruments |-> received[i]]
  BY <1>1 DEF received, TypeOK
<1>4. QED BY <1>2, <1>3

\* A session is a map of the instruments to their engines (trade_engine.h:46-60):
\* every step is one of the map, or none.
THEOREM RecordsImplement ==
  ASSUME HomesDistinct, Room
  PROVE  Spec => Implements
<1> DEFINE complete == phase = "done"
<1>1. Init => Abstract!Init
  <2> SUFFICES ASSUME Init PROVE Abstract!Init
    OBVIOUS
  <2>1. received = sent
    BY TradeInit, MixInit, ReceivedIsSent
  <2>2. received = [i \in Instruments |-> <<>>]
    BY <2>1 DEF Init
  <2>3. QED BY <2>2 DEF Init, Abstract!Init, received
<1>2. TradeInv' /\ MixInv' => (received = sent)'
  BY ReceivedIsSent, PTL
<1>3. TradeInv /\ MixInv /\ TradeInv' /\ MixInv' /\ [Next]_vars
        => [Abstract!Next]_<<known, received, complete>>
  <2> SUFFICES ASSUME TradeInv, MixInv, TradeInv', MixInv', [Next]_vars
               PROVE  [Abstract!Next]_<<known, received, complete>>
    OBVIOUS
  <2>1. received = sent /\ received' = sent'
    BY <1>2, ReceivedIsSent
  <2>2. ASSUME NEW i \in Instruments, InitContract(i) PROVE Abstract!Next
    <3>1. Abstract!Open(i)
      BY <2>1, <2>2 DEF InitContract, Abstract!Open, received
    <3>2. QED BY <3>1 DEF Abstract!Next
  <2>3. ASSUME NEW i \in Instruments, NEW kind \in {"alpha", "order"}, NEW t \in Timestamps,
               Deliver(i, kind, t), i \in known, known' = known,
               phase # "done", phase' # "done"
        PROVE  Abstract!Next
    <3>1. Record(kind, t) \in [kind : {"alpha", "order"}, timestamp : Timestamps]
      BY DEF Record
    <3>2. Abstract!Give(i, Record(kind, t))
      BY <2>1, <2>3 DEF Deliver, Abstract!Give, received
    <3>3. QED BY <3>1, <3>2 DEF Abstract!Next
  <2>4. ASSUME NEW i \in Instruments, InsertAlpha(i) PROVE Abstract!Next
    BY <2>3, <2>4 DEF InsertAlpha
  <2>5. ASSUME NEW i \in Instruments, InsertOrderLog(i) PROVE Abstract!Next
    BY <2>3, <2>5 DEF InsertOrderLog
  <2>6. CASE OnComplete
    <3>1. Abstract!Close
      BY <2>1, <2>6 DEF OnComplete, Abstract!Close, received
    <3>2. QED BY <3>1 DEF Abstract!Next
  <2>7. CASE UNCHANGED vars
    BY <2>1, <2>7 DEF vars
  <2>8. QED
    BY <2>2, <2>4, <2>5, <2>6, <2>7 DEF Next, Terminated
<1>4. QED
  BY <1>1, <1>3, TradeInit, TradeStep, MixInit, MixStep, PTL
  DEF Spec, Implements, Abstract!Spec, received

-----------------------------------------------------------------------------
(* Numbers, and functions defined by recursion on them.                    *)

LEMMA DivMod ==
  ASSUME NEW n \in Nat \ {0}, NEW a \in Nat
  PROVE  /\ a \div n \in Nat /\ a % n \in 0..n - 1
         /\ a = (a \div n) * n + (a % n)
OBVIOUS

LEMMA DivModUnique ==
  ASSUME NEW n \in Nat \ {0}, NEW q \in Nat, NEW d \in 0..n - 1
  PROVE  (q * n + d) \div n = q /\ (q * n + d) % n = d
<1> DEFINE a == q * n + d
           p == a \div n
           e == a % n
<1>1. a \in Nat
  OBVIOUS
<1>2. p \in Nat /\ e \in 0..n - 1 /\ a = p * n + e
  BY <1>1, DivMod
<1> HIDE DEF p, e
<1>3. (p - q) * n = d - e
  BY <1>1, <1>2
<1>4. CASE p >= q + 1
  <2>1. (p - q) * n >= n
    BY <1>2, <1>4
  <2> QED BY <2>1, <1>2, <1>3
<1>5. CASE q >= p + 1
  <2>1. (q - p) * n >= n
    BY <1>2, <1>5
  <2>2. (q - p) * n = e - d
    BY <1>2, <1>3
  <2> QED BY <2>1, <2>2, <1>2
<1>6. p = q
  BY <1>2, <1>4, <1>5
<1>7. QED BY <1>2, <1>6 DEF p, e

\* Induction over the naturals, for a set.
LEMMA SetInduction ==
  ASSUME NEW T, 0 \in T, \A n \in Nat : n \in T => n + 1 \in T
  PROVE  Nat \subseteq T
<1> DEFINE R == {ss \in Nat \X Nat : ss[1] < ss[2]}
           Bad == Nat \ T
<1> SUFFICES ASSUME Bad # {} PROVE FALSE
  OBVIOUS
<1>1. IsWellFoundedOn(R, Nat)
  BY NatLessThanWellFounded DEF OpToRel
<1>2. \A x, y \in Nat : y < x => <<y, x>> \in R
  OBVIOUS
<1>3. Bad \in SUBSET Nat
  OBVIOUS
<1> HIDE DEF R
<1>4. PICK x \in Bad : \A y \in Bad : ~(<<y, x>> \in R)
  BY <1>1, <1>3, WFMin
<1>5. x \in Nat \ {0}
  BY <1>4
<1>6. x - 1 \in Nat /\ x - 1 \in T
  <2>1. x - 1 \in Nat /\ x \in Nat /\ x - 1 < x
    BY <1>5
  <2>2. <<x - 1, x>> \in R
    BY <1>2, <2>1
  <2>3. QED BY <1>4, <2>1, <2>2
<1>7. QED BY <1>4, <1>5, <1>6

\* A function defined by recursion on the naturals up to n.
LEMMA IterationExists ==
  ASSUME NEW a \in Nat, NEW n \in Nat, NEW h \in [Nat \X Nat -> Nat]
  PROVE  \E f \in [0..n -> Nat] : f[0] = a /\ \A k \in 1..n : f[k] = h[<<k, f[k - 1]>>]
<1> DEFINE Fits(m, f) == f[0] = a /\ \A k \in 1..m : f[k] = h[<<k, f[k - 1]>>]
           T == {m \in Nat : \E f \in [0..m -> Nat] : Fits(m, f)}
<1>1. 0 \in T
  <2>1. [k \in 0..0 |-> a] \in [0..0 -> Nat] /\ Fits(0, [k \in 0..0 |-> a])
    OBVIOUS
  <2> HIDE DEF Fits
  <2>2. QED BY <2>1
<1>2. ASSUME NEW m \in Nat, m \in T PROVE m + 1 \in T
  <2>1. PICK f \in [0..m -> Nat] : Fits(m, f)
    <3> HIDE DEF Fits
    <3> QED BY <1>2
  <2> DEFINE e == h[<<m + 1, f[m]>>]
             g == [k \in 0..m + 1 |-> IF k = m + 1 THEN e ELSE f[k]]
  <2>2. e \in Nat
    BY <2>1
  <2>3. g \in [0..m + 1 -> Nat]
    BY <2>1, <2>2
  <2>4. g[0] = a
    BY <2>1
  <2>5. ASSUME NEW k \in 1..m + 1 PROVE g[k] = h[<<k, g[k - 1]>>]
    <3>1. CASE k = m + 1
      <4>1. g[k] = e /\ g[k - 1] = f[m]
        BY <3>1
      <4>2. QED BY <3>1, <4>1
    <3>2. CASE k \in 1..m
      <4>1. g[k] = f[k] /\ g[k - 1] = f[k - 1]
        BY <3>2
      <4>2. QED BY <3>2, <4>1, <2>1
    <3>3. QED BY <3>1, <3>2
  <2> HIDE DEF e, g
  <2>6. Fits(m + 1, g)
    BY <2>4, <2>5
  <2> HIDE DEF Fits
  <2>7. m + 1 \in Nat
    OBVIOUS
  <2>8. QED BY <2>3, <2>6, <2>7
<1>3. n \in T
  <2> HIDE DEF T
  <2>1. Nat \subseteq T
    BY <1>1, <1>2, SetInduction
  <2>2. QED BY <2>1
<1>4. \E f \in [0..n -> Nat] : Fits(n, f)
  <2> HIDE DEF Fits
  <2> QED BY <1>3
<1>5. QED BY <1>4

\* The order of two numbers is that of their digits, the first that differ.
LEMMA ScaleStrict ==
  ASSUME NEW n \in Nat \ {0}, NEW p \in Nat, NEW q \in Nat,
         NEW d \in 0..n - 1, NEW e \in 0..n - 1
  PROVE  /\ p < q => p * n + d < q * n + e
         /\ p * n + d < q * n + e => p < q \/ (p = q /\ d < e)
         /\ p * n + d = q * n + e => p = q /\ d = e
<1>1. ASSUME NEW a \in Nat, NEW b \in Nat, a < b PROVE a * n + n <= b * n
  <2>1. (b - a) * n >= n
    BY <1>1
  <2>2. QED BY <2>1, <1>1
<1>2. p < q => p * n + d < q * n + e
  <2>1. p < q => p * n + n <= q * n
    BY <1>1
  <2> DEFINE u == p * n
             v == q * n
  <2>2. u \in Nat /\ v \in Nat
    OBVIOUS
  <2> HIDE DEF u, v
  <2>3. p < q => u + d < v + e
    BY <2>1, <2>2 DEF u, v
  <2>4. QED BY <2>3 DEF u, v
<1>3. q < p => q * n + e < p * n + d
  <2>1. q < p => q * n + n <= p * n
    BY <1>1
  <2> DEFINE u == p * n
             v == q * n
  <2>2. u \in Nat /\ v \in Nat
    OBVIOUS
  <2> HIDE DEF u, v
  <2>3. q < p => v + e < u + d
    BY <2>1, <2>2 DEF u, v
  <2>4. QED BY <2>3 DEF u, v
<1>4. QED
  <2> DEFINE u == p * n
             v == q * n
  <2>1. u \in Nat /\ v \in Nat /\ (p = q => u = v)
    OBVIOUS
  <2> HIDE DEF u, v
  <2>2. /\ p < q => u + d < v + e
        /\ q < p => v + e < u + d
    BY <1>2, <1>3 DEF u, v
  <2>3. /\ u + d < v + e => p < q \/ (p = q /\ d < e)
        /\ u + d = v + e => p = q /\ d = e
    <3>1. d \in Int /\ e \in Int /\ (p < q \/ q < p \/ p = q)
      OBVIOUS
    <3>2. CASE p < q
      BY <2>1, <2>2, <3>1, <3>2
    <3>3. CASE q < p
      BY <2>1, <2>2, <3>1, <3>3
    <3>4. CASE p = q
      BY <2>1, <3>1, <3>4
    <3>5. QED BY <3>1, <3>2, <3>3, <3>4
  <2>4. QED BY <2>2, <2>3 DEF u, v

-----------------------------------------------------------------------------
(* The names: reverseInstrumentId loses no character, and reversed ids are   *)
(* in the order of the names.                                               *)

\* The remains of an id.
LEMMA RestEquations ==
  ASSUME NEW x \in Nat
  PROVE  /\ Rest(x, 0) = x
         /\ \A k \in 0..IdLength : Rest(x, k) \in Nat
         /\ \A k \in 1..IdLength : Rest(x, k) = Rest(x, k - 1) \div CharSpan
<1> DEFINE rest[j \in 0..IdLength] == IF j = 0 THEN x ELSE rest[j - 1] \div CharSpan
           h == [p \in Nat \X Nat |-> p[2] \div CharSpan]
           T == {m \in Nat : m <= IdLength => rest[m] \in Nat}
<1>1. IdLength \in Nat /\ CharSpan \in Nat \ {0}
  BY NameAssumption
<1>2. h \in [Nat \X Nat -> Nat] /\ \A m, v \in Nat : h[<<m, v>>] = v \div CharSpan
  BY <1>1, DivMod
<1> HIDE DEF h
<1>3. PICK f \in [0..IdLength -> Nat] :
        f[0] = x /\ \A j \in 1..IdLength : f[j] = h[<<j, f[j - 1]>>]
  <2>1. h \in [Nat \X Nat -> Nat] /\ IdLength \in Nat /\ x \in Nat
    BY <1>1, <1>2
  <2>2. QED BY <2>1, IterationExists, Zenon
<1>4. \A j \in 1..IdLength : f[j] = f[j - 1] \div CharSpan
  <2> TAKE j \in 1..IdLength
  <2>1. j \in Nat /\ f[j - 1] \in Nat
    BY <1>1, <1>3
  <2>2. QED BY <1>2, <1>3, <2>1
<1>5. f = [j \in 0..IdLength |-> IF j = 0 THEN x ELSE f[j - 1] \div CharSpan]
  BY <1>1, <1>3, <1>4
<1>6. rest = [j \in 0..IdLength |-> IF j = 0 THEN x ELSE rest[j - 1] \div CharSpan]
  BY <1>5
<1>7. \A k \in 0..IdLength : Rest(x, k) = rest[k]
  BY DEF Rest
<1> HIDE DEF rest
<1>8. rest[0] = x /\ \A k \in 1..IdLength : rest[k] = rest[k - 1] \div CharSpan
  <2>1. \A k \in 0..IdLength : rest[k] = IF k = 0 THEN x ELSE rest[k - 1] \div CharSpan
    BY <1>6
  <2>2. QED BY <1>1, <2>1
<1>9. 0 \in T
  BY <1>8
<1>10. ASSUME NEW m \in Nat, m \in T PROVE m + 1 \in T
  <2> SUFFICES ASSUME m + 1 <= IdLength PROVE rest[m + 1] \in Nat
    OBVIOUS
  <2>1. rest[m] \in Nat /\ rest[m + 1] = rest[m] \div CharSpan
    BY <1>1, <1>8, <1>10
  <2>2. QED BY <1>1, <2>1, DivMod
<1>11. Nat \subseteq T
  <2> HIDE DEF T
  <2> QED BY <1>9, <1>10, SetInduction
<1>12. \A k \in 0..IdLength : rest[k] \in Nat
  BY <1>1, <1>11
<1>13. 0 \in 0..IdLength /\ \A k \in 1..IdLength : k \in 0..IdLength /\ k - 1 \in 0..IdLength
  BY <1>1
<1>14. QED
  <2> HIDE DEF T
  <2> QED BY <1>7, <1>8, <1>12, <1>13

\* reverseInstrumentId after k characters.
Reversed(instrument, k) ==
  LET result[i \in 0..IdLength] ==
        IF i = 0 THEN 0 ELSE result[i - 1] * CharSpan + Char(instrument, i)
  IN  result[k]

\* The id reversed: its first k characters.
LEMMA ReversedEquations ==
  ASSUME NEW x \in Nat
  PROVE  /\ Reversed(x, 0) = 0
         /\ \A k \in 0..IdLength : Reversed(x, k) \in Nat
         /\ \A k \in 1..IdLength : Reversed(x, k) = Reversed(x, k - 1) * CharSpan + Char(x, k)
         /\ reverseInstrumentId(x) = Reversed(x, IdLength)
<1> DEFINE result[i \in 0..IdLength] ==
             IF i = 0 THEN 0 ELSE result[i - 1] * CharSpan + Char(x, i)
           chars == [i \in 1..IdLength |-> Char(x, i)]
           h == [p \in Nat \X Nat |-> IF p[1] \in 1..IdLength THEN p[2] * CharSpan + chars[p[1]] ELSE 0]
           T == {m \in Nat : m <= IdLength => result[m] \in Nat}
<1>1. IdLength \in Nat /\ CharSpan \in Nat \ {0}
  BY NameAssumption
<1>2. ASSUME NEW k \in 1..IdLength PROVE Char(x, k) \in 0..CharSpan - 1
  <2>1. k - 1 \in 0..IdLength
    BY <1>1
  <2>2. QED BY <1>1, <2>1, RestEquations, DivMod DEF Char
<1>3. chars \in [1..IdLength -> Nat]
  BY <1>1, <1>2
<1>4. h \in [Nat \X Nat -> Nat] /\ \A m \in 1..IdLength, v \in Nat : h[<<m, v>>] = v * CharSpan + chars[m]
  <2> HIDE DEF chars
  <2>1. \A m, v \in Nat : m \in 1..IdLength => v * CharSpan + chars[m] \in Nat
    BY <1>1, <1>3
  <2>2. h \in [Nat \X Nat -> Nat]
    BY <2>1
  <2>3. ASSUME NEW m \in 1..IdLength, NEW v \in Nat PROVE h[<<m, v>>] = v * CharSpan + chars[m]
    BY <1>1
  <2>4. QED BY <2>2, <2>3
<1> HIDE DEF h
<1>5. PICK f \in [0..IdLength -> Nat] :
        f[0] = 0 /\ \A k \in 1..IdLength : f[k] = h[<<k, f[k - 1]>>]
  <2>1. h \in [Nat \X Nat -> Nat] /\ IdLength \in Nat /\ 0 \in Nat
    BY <1>1, <1>4
  <2>2. QED BY <2>1, IterationExists, ZenonT(60)
<1>6. \A i \in 1..IdLength : f[i] = f[i - 1] * CharSpan + Char(x, i)
  <2> TAKE i \in 1..IdLength
  <2>1. f[i - 1] \in Nat
    BY <1>1, <1>5
  <2>2. QED BY <1>4, <1>5, <2>1
<1>7. f = [i \in 0..IdLength |-> IF i = 0 THEN 0 ELSE f[i - 1] * CharSpan + Char(x, i)]
  BY <1>1, <1>5, <1>6
<1>8. result = [i \in 0..IdLength |-> IF i = 0 THEN 0 ELSE result[i - 1] * CharSpan + Char(x, i)]
  BY <1>7
<1>9. /\ \A k \in 0..IdLength : Reversed(x, k) = result[k]
      /\ reverseInstrumentId(x) = result[IdLength]
  BY DEF Reversed, reverseInstrumentId
<1> HIDE DEF result
<1>10. result[0] = 0 /\ \A k \in 1..IdLength : result[k] = result[k - 1] * CharSpan + Char(x, k)
  <2>1. \A k \in 0..IdLength :
          result[k] = IF k = 0 THEN 0 ELSE result[k - 1] * CharSpan + Char(x, k)
    BY <1>8
  <2>2. QED BY <1>1, <2>1
<1>11. 0 \in T
  BY <1>10
<1>12. ASSUME NEW m \in Nat, m \in T PROVE m + 1 \in T
  <2> SUFFICES ASSUME m + 1 <= IdLength PROVE result[m + 1] \in Nat
    OBVIOUS
  <2>1. result[m] \in Nat /\ result[m + 1] = result[m] * CharSpan + Char(x, m + 1)
    BY <1>1, <1>10, <1>12
  <2> HIDE DEF chars, T
  <2>2. Char(x, m + 1) \in Nat
    BY <1>1, <1>2
  <2> DEFINE a == result[m]
             c == Char(x, m + 1)
  <2>3. a \in Nat /\ c \in Nat /\ CharSpan \in Nat
    BY <1>1, <2>1, <2>2
  <2> HIDE DEF a, c
  <2>4. a * CharSpan + c \in Nat
    BY <2>3
  <2>5. QED BY <2>1, <2>4 DEF a, c
<1>13. Nat \subseteq T
  <2> HIDE DEF T
  <2> QED BY <1>11, <1>12, SetInduction
<1>14. \A k \in 0..IdLength : result[k] \in Nat
  BY <1>1, <1>13
<1>15. 0 \in 0..IdLength /\ \A k \in 1..IdLength : k \in 0..IdLength /\ k - 1 \in 0..IdLength
  BY <1>1
<1>16. IdLength \in 0..IdLength
  BY <1>1
<1>17. QED
  <2> HIDE DEF T
  <2> QED BY <1>9, <1>10, <1>14, <1>15, <1>16
LEMMA CharType ==
  ASSUME NEW x \in Nat, NEW k \in 1..IdLength
  PROVE  Char(x, k) \in 0..CharSpan - 1
<1>1. IdLength \in Nat /\ CharSpan \in Nat \ {0}
  BY NameAssumption
<1>2. k - 1 \in 0..IdLength
  BY <1>1
<1>3. QED BY <1>1, <1>2, RestEquations, DivMod DEF Char

\* Shifting characters out of a reversed id undoes putting them in.
LEMMA RestOfReversed ==
  ASSUME NEW x \in Nat
  PROVE  \A k \in 0..IdLength :
           Rest(Reversed(x, IdLength), k) = Reversed(x, IdLength - k)
<1> DEFINE r == Reversed(x, IdLength)
           P(k) == k <= IdLength => Rest(r, k) = Reversed(x, IdLength - k)
           T == {k \in Nat : P(k)}
<1>1. IdLength \in Nat /\ CharSpan \in Nat \ {0}
  BY NameAssumption
<1>2. r \in Nat
  BY <1>1, ReversedEquations
<1> HIDE DEF r
<1>3. Rest(r, 0) = r
  BY <1>2, RestEquations
<1>4. P(0)
  BY <1>1, <1>3 DEF r
<1>5. ASSUME NEW k \in Nat, P(k) PROVE P(k + 1)
  <2> SUFFICES ASSUME k + 1 <= IdLength PROVE Rest(r, k + 1) = Reversed(x, IdLength - (k + 1))
    OBVIOUS
  <2> DEFINE n == IdLength - k
  <2>1. n \in 1..IdLength /\ n - 1 \in 0..IdLength /\ IdLength - (k + 1) = n - 1 /\ k + 1 \in 1..IdLength
    BY <1>1
  <2>2. Rest(r, k) = Reversed(x, n)
    BY <1>1, <1>5
  <2> HIDE DEF n
  <2>3. Rest(r, k + 1) = Reversed(x, n) \div CharSpan
    <3>1. (k + 1) - 1 = k
      OBVIOUS
    <3>2. Rest(r, k + 1) = Rest(r, (k + 1) - 1) \div CharSpan
      BY <1>2, <2>1, RestEquations
    <3>3. QED BY <2>2, <3>1, <3>2
  <2>4. Reversed(x, n) = Reversed(x, n - 1) * CharSpan + Char(x, n) /\ Reversed(x, n - 1) \in Nat
    BY <2>1, ReversedEquations
  <2>5. Char(x, n) \in 0..CharSpan - 1
    BY <2>1, CharType
  <2>6. (Reversed(x, n - 1) * CharSpan + Char(x, n)) \div CharSpan = Reversed(x, n - 1)
    BY <1>1, <2>4, <2>5, DivModUnique
  <2>7. QED BY <2>1, <2>3, <2>4, <2>6
<1>6. Nat \subseteq T
  <2>1. 0 \in T
    BY <1>4
  <2>2. \A k \in Nat : k \in T => k + 1 \in T
    <3> HIDE DEF P
    <3> QED BY <1>5
  <2> HIDE DEF T
  <2> QED BY <2>1, <2>2, SetInduction
<1>7. \A k \in 0..IdLength : Rest(r, k) = Reversed(x, IdLength - k)
  BY <1>1, <1>6
<1>8. QED BY <1>7 DEF r

\* The characters of a reversed id are those of the id, the last first.
LEMMA CharOfReversed ==
  ASSUME NEW x \in Nat, NEW k \in 1..IdLength
  PROVE  Char(Reversed(x, IdLength), k) = Char(x, IdLength - k + 1)
<1> DEFINE n == IdLength - k + 1
<1>1. IdLength \in Nat /\ CharSpan \in Nat \ {0}
  BY NameAssumption
<1>2. n \in 1..IdLength /\ n - 1 \in 0..IdLength /\ IdLength - (k - 1) = n /\ k - 1 \in 0..IdLength
  BY <1>1
<1> HIDE DEF n
<1>3. Rest(Reversed(x, IdLength), k - 1) = Reversed(x, n)
  <2>1. Rest(Reversed(x, IdLength), k - 1) = Reversed(x, IdLength - (k - 1))
    BY <1>2, RestOfReversed
  <2>2. QED BY <1>2, <2>1
<1>4. Reversed(x, n) = Reversed(x, n - 1) * CharSpan + Char(x, n) /\ Reversed(x, n - 1) \in Nat
  BY <1>2, ReversedEquations
<1>5. Char(x, n) \in 0..CharSpan - 1
  BY <1>2, CharType
<1>6. (Reversed(x, n - 1) * CharSpan + Char(x, n)) % CharSpan = Char(x, n)
  BY <1>1, <1>4, <1>5, DivModUnique
<1>7. QED BY <1>3, <1>4, <1>6 DEF Char, n

\* Reversing an id twice gives the id: no character of it is lost.
LEMMA ReversedTwice ==
  ASSUME NEW x \in Nat, Rest(x, IdLength) = 0
  PROVE  reverseInstrumentId(reverseInstrumentId(x)) = x
<1> DEFINE r == Reversed(x, IdLength)
           P(k) == k <= IdLength => Reversed(r, k) = Rest(x, IdLength - k)
           T == {k \in Nat : P(k)}
<1>1. IdLength \in Nat /\ CharSpan \in Nat \ {0}
  BY NameAssumption
<1>2. r \in Nat
  BY <1>1, ReversedEquations
<1>3. ASSUME NEW k \in 1..IdLength PROVE Char(r, k) = Char(x, IdLength - k + 1)
  BY CharOfReversed
<1> HIDE DEF r
<1>4. P(0)
  BY <1>1, <1>2, ReversedEquations
<1>5. ASSUME NEW k \in Nat, P(k) PROVE P(k + 1)
  <2> SUFFICES ASSUME k + 1 <= IdLength PROVE Reversed(r, k + 1) = Rest(x, IdLength - (k + 1))
    OBVIOUS
  <2> DEFINE n == IdLength - k
  <2>1. n \in 1..IdLength /\ n - 1 \in 0..IdLength /\ IdLength - (k + 1) = n - 1
        /\ IdLength - (k + 1) + 1 = n /\ k + 1 \in 1..IdLength /\ (k + 1) - 1 = k
    BY <1>1
  <2>2. Reversed(r, k) = Rest(x, n)
    BY <1>1, <1>5
  <2> HIDE DEF n
  <2>3. Reversed(r, k + 1) = Rest(x, n) * CharSpan + Char(x, n)
    <3>1. Reversed(r, k + 1) = Reversed(r, (k + 1) - 1) * CharSpan + Char(r, k + 1)
      BY <1>2, <2>1, ReversedEquations
    <3>2. Char(r, k + 1) = Char(x, n)
      <4>1. Char(r, k + 1) = Char(x, IdLength - (k + 1) + 1)
        BY <1>3, <2>1
      <4>2. QED BY <4>1, <2>1
    <3>3. QED BY <2>1, <2>2, <3>1, <3>2
  <2>4. Rest(x, n) = Rest(x, n - 1) \div CharSpan /\ Rest(x, n - 1) \in Nat
    BY <2>1, RestEquations
  <2>5. Rest(x, n - 1) = Rest(x, n) * CharSpan + Char(x, n)
    BY <1>1, <2>4, DivMod DEF Char
  <2>6. QED BY <2>1, <2>3, <2>5
<1>6. Nat \subseteq T
  <2>1. 0 \in T
    BY <1>4
  <2>2. \A k \in Nat : k \in T => k + 1 \in T
    <3> HIDE DEF P
    <3> QED BY <1>5
  <2> HIDE DEF T
  <2> QED BY <2>1, <2>2, SetInduction
<1>7. Reversed(r, IdLength) = Rest(x, IdLength - IdLength)
  BY <1>1, <1>6
<1>8. IdLength - IdLength = 0
  BY <1>1
<1>9. reverseInstrumentId(x) = r /\ reverseInstrumentId(r) = Reversed(r, IdLength)
  BY <1>2, ReversedEquations DEF r
<1>10. QED BY <1>7, <1>8, <1>9, RestEquations
\* i is named before j within the first n characters.
NamedBeforeWithin(i, j, n) ==
  \E k \in 1..n : /\ Char(i, k) < Char(j, k)
                  /\ \A l \in 1..k - 1 : Char(i, l) = Char(j, l)

AgreeWithin(i, j, n) == \A l \in 1..n : Char(i, l) = Char(j, l)

\* Reversed ids are in the order of the names.
LEMMA ReversedOrder ==
  ASSUME NEW x \in Nat, NEW y \in Nat, NEW m \in 0..IdLength
  PROVE  /\ Reversed(x, m) < Reversed(y, m) <=> NamedBeforeWithin(x, y, m)
         /\ Reversed(x, m) = Reversed(y, m) <=> AgreeWithin(x, y, m)
<1> DEFINE P(k) == k <= IdLength =>
             /\ Reversed(x, k) < Reversed(y, k) <=> NamedBeforeWithin(x, y, k)
             /\ Reversed(x, k) = Reversed(y, k) <=> AgreeWithin(x, y, k)
           T == {k \in Nat : P(k)}
<1>1. IdLength \in Nat /\ CharSpan \in Nat \ {0}
  BY NameAssumption
<1>2. P(0)
  <2>1. Reversed(x, 0) = 0 /\ Reversed(y, 0) = 0
    BY ReversedEquations
  <2>2. QED BY <2>1 DEF NamedBeforeWithin, AgreeWithin
<1>3. ASSUME NEW k \in Nat, P(k) PROVE P(k + 1)
  <2> SUFFICES ASSUME k + 1 <= IdLength PROVE P(k + 1)
    OBVIOUS
  <2> DEFINE p == Reversed(x, k)
             q == Reversed(y, k)
             d == Char(x, k + 1)
             e == Char(y, k + 1)
  <2>1. k \in 0..IdLength /\ k + 1 \in 1..IdLength /\ (k + 1) - 1 = k
    BY <1>1
  <2>2. p \in Nat /\ q \in Nat /\ d \in 0..CharSpan - 1 /\ e \in 0..CharSpan - 1
    BY <2>1, ReversedEquations, CharType
  <2>3. Reversed(x, k + 1) = p * CharSpan + d /\ Reversed(y, k + 1) = q * CharSpan + e
    <3>1. /\ Reversed(x, k + 1) = Reversed(x, (k + 1) - 1) * CharSpan + d
          /\ Reversed(y, k + 1) = Reversed(y, (k + 1) - 1) * CharSpan + e
      BY <2>1, ReversedEquations
    <3>2. QED BY <2>1, <3>1
  <2>4. (p < q <=> NamedBeforeWithin(x, y, k)) /\ (p = q <=> AgreeWithin(x, y, k))
    BY <1>3, <2>1
  <2>5. AgreeWithin(x, y, k + 1) <=> AgreeWithin(x, y, k) /\ d = e
    BY DEF AgreeWithin
  <2>6. NamedBeforeWithin(x, y, k + 1) <=> NamedBeforeWithin(x, y, k) \/ (AgreeWithin(x, y, k) /\ d < e)
    <3>1. 1..k + 1 = (1..k) \cup {k + 1} /\ (k + 1) - 1 = k
      OBVIOUS
    <3>2. ASSUME NamedBeforeWithin(x, y, k + 1)
          PROVE  NamedBeforeWithin(x, y, k) \/ (AgreeWithin(x, y, k) /\ d < e)
      <4>1. PICK c \in 1..k + 1 : /\ Char(x, c) < Char(y, c)
                                  /\ \A l \in 1..c - 1 : Char(x, l) = Char(y, l)
        BY <3>2 DEF NamedBeforeWithin
      <4>2. CASE c \in 1..k
        BY <4>1, <4>2 DEF NamedBeforeWithin
      <4>3. CASE c = k + 1
        BY <3>1, <4>1, <4>3 DEF AgreeWithin
      <4>4. QED BY <3>1, <4>2, <4>3
    <3>3. ASSUME NamedBeforeWithin(x, y, k) PROVE NamedBeforeWithin(x, y, k + 1)
      BY <3>1, <3>3 DEF NamedBeforeWithin
    <3>4. ASSUME AgreeWithin(x, y, k), d < e PROVE NamedBeforeWithin(x, y, k + 1)
      <4>1. k + 1 \in 1..k + 1
        OBVIOUS
      <4>2. QED BY <3>1, <3>4, <4>1 DEF NamedBeforeWithin, AgreeWithin
    <3>5. QED BY <3>2, <3>3, <3>4
  <2> HIDE DEF p, q, d, e
  <2>7. /\ p < q => p * CharSpan + d < q * CharSpan + e
        /\ p * CharSpan + d < q * CharSpan + e => p < q \/ (p = q /\ d < e)
        /\ p * CharSpan + d = q * CharSpan + e => p = q /\ d = e
    BY <1>1, <2>2, ScaleStrict
  <2>8. p = q /\ d < e => p * CharSpan + d < q * CharSpan + e
    <3>1. p * CharSpan \in Nat
      BY <1>1, <2>2
    <3>2. QED BY <2>2, <3>1
  <2>9. /\ p * CharSpan + d < q * CharSpan + e <=> NamedBeforeWithin(x, y, k + 1)
        /\ p * CharSpan + d = q * CharSpan + e <=> AgreeWithin(x, y, k + 1)
    BY <2>4, <2>5, <2>6, <2>7, <2>8
  <2>10. QED BY <2>3, <2>9
<1>4. Nat \subseteq T
  <2>1. 0 \in T
    BY <1>2
  <2>2. \A k \in Nat : k \in T => k + 1 \in T
    <3> HIDE DEF P
    <3> QED BY <1>3
  <2> HIDE DEF T
  <2> QED BY <2>1, <2>2, SetInduction
<1>5. P(m)
  <2> HIDE DEF P
  <2>1. m \in Nat
    BY <1>1
  <2>2. QED BY <1>4, <2>1
<1>6. QED BY <1>1, <1>5

\* So sorted by reversed id is sorted by name.
LEMMA SortedByName ==
  ASSUME NEW x \in Nat, NEW y \in Nat
  PROVE  reverseInstrumentId(x) < reverseInstrumentId(y) <=> NamedBefore(x, y)
<1>1. IdLength \in 0..IdLength
  BY NameAssumption
<1>2. QED BY <1>1, ReversedOrder, ReversedEquations DEF NamedBefore, NamedBeforeWithin

-----------------------------------------------------------------------------
(* std::sort: a finite set can be put in an order.                          *)

TotalOn(R, U) ==
  /\ \A a, b \in U : <<a, b>> \in R \/ <<b, a>> \in R
  /\ \A a, b, c \in U : <<a, b>> \in R /\ <<b, c>> \in R => <<a, c>> \in R

\* A finite set has a last element.
LEMMA LastExists ==
  ASSUME NEW U, NEW R, TotalOn(R, U), IsFiniteSet(U), U # {}
  PROVE  \E e \in U : \A a \in U : <<a, e>> \in R
<1> DEFINE P(n) == \A S \in SUBSET U : IsFiniteSet(S) /\ Cardinality(S) = n + 1
                     => \E e \in S : \A a \in S : <<a, e>> \in R
           T == {n \in Nat : P(n)}
<1>1. ASSUME NEW n \in Nat, NEW S \in SUBSET U, IsFiniteSet(S), Cardinality(S) = n + 1
      PROVE  \E e \in S : IsFiniteSet(S \ {e}) /\ Cardinality(S \ {e}) = n
  <2>1. S # {}
    BY <1>1, FS_EmptySet
  <2>2. PICK e \in S : TRUE
    BY <2>1
  <2>3. IsFiniteSet(S \ {e}) /\ Cardinality(S \ {e}) = Cardinality(S) - 1
    BY <1>1, <2>2, FS_RemoveElement
  <2>4. QED BY <1>1, <2>2, <2>3
<1>2. P(0)
  <2> SUFFICES ASSUME NEW S \in SUBSET U, IsFiniteSet(S), Cardinality(S) = 0 + 1
               PROVE  \E e \in S : \A a \in S : <<a, e>> \in R
    OBVIOUS
  <2>1. PICK e \in S : IsFiniteSet(S \ {e}) /\ Cardinality(S \ {e}) = 0
    BY <1>1
  <2>2. S \ {e} = {}
    BY <2>1, FS_EmptySet
  <2>3. <<e, e>> \in R
    BY DEF TotalOn
  <2>4. QED BY <2>2, <2>3
<1>3. ASSUME NEW n \in Nat, P(n) PROVE P(n + 1)
  <2> SUFFICES ASSUME NEW S \in SUBSET U, IsFiniteSet(S), Cardinality(S) = (n + 1) + 1
               PROVE  \E e \in S : \A a \in S : <<a, e>> \in R
    OBVIOUS
  <2>1. PICK e \in S : IsFiniteSet(S \ {e}) /\ Cardinality(S \ {e}) = n + 1
    BY <1>1
  <2>2. S \ {e} \in SUBSET U
    OBVIOUS
  <2>3. PICK m \in S \ {e} : \A a \in S \ {e} : <<a, m>> \in R
    BY <1>3, <2>1, <2>2
  <2>4. <<e, e>> \in R /\ <<m, m>> \in R /\ (<<m, e>> \in R \/ <<e, m>> \in R)
    BY DEF TotalOn
  <2>5. CASE <<m, e>> \in R
    <3>1. \A a \in S \ {e} : <<a, e>> \in R
      BY <2>3, <2>5 DEF TotalOn
    <3>2. QED BY <2>4, <3>1
  <2>6. CASE <<e, m>> \in R
    BY <2>3, <2>6
  <2>7. QED BY <2>4, <2>5, <2>6
<1>4. Nat \subseteq T
  <2>1. 0 \in T
    BY <1>2
  <2>2. \A n \in Nat : n \in T => n + 1 \in T
    <3> HIDE DEF P
    <3> QED BY <1>3
  <2> HIDE DEF T
  <2> QED BY <2>1, <2>2, SetInduction
<1>5. Cardinality(U) \in Nat \ {0}
  BY FS_CardinalityType, FS_EmptySet
<1>6. P(Cardinality(U) - 1)
  <2> HIDE DEF P
  <2>1. Cardinality(U) - 1 \in Nat
    BY <1>5
  <2>2. QED BY <1>4, <2>1
<1>7. (Cardinality(U) - 1) + 1 = Cardinality(U)
  BY <1>5
<1>8. QED BY <1>6, <1>7

InOrder(s, R) ==
  \A k, l \in DOMAIN s : k < l => s[k] # s[l] /\ <<s[k], s[l]>> \in R

\* The elements of a finite set can be put in order.
LEMMA OrderExists ==
  ASSUME NEW U, NEW R, TotalOn(R, U), IsFiniteSet(U)
  PROVE  \E s \in [1..Cardinality(U) -> U] : InOrder(s, R)
<1> DEFINE P(n) == \A S \in SUBSET U : IsFiniteSet(S) /\ Cardinality(S) = n
                     => \E s \in [1..n -> S] : InOrder(s, R)
           T == {n \in Nat : P(n)}
<1>1. P(0)
  <2> SUFFICES ASSUME NEW S PROVE \E s \in [1..0 -> S] : InOrder(s, R)
    OBVIOUS
  <2> DEFINE s == [k \in 1..0 |-> k]
  <2>1. s \in [1..0 -> S] /\ DOMAIN s = {}
    OBVIOUS
  <2> HIDE DEF s
  <2>2. InOrder(s, R)
    BY <2>1 DEF InOrder
  <2>3. QED BY <2>1, <2>2
<1>2. ASSUME NEW n \in Nat, P(n) PROVE P(n + 1)
  <2> SUFFICES ASSUME NEW S \in SUBSET U, IsFiniteSet(S), Cardinality(S) = n + 1
               PROVE  \E s \in [1..n + 1 -> S] : InOrder(s, R)
    OBVIOUS
  <2>1. S # {}
    BY FS_EmptySet
  <2>2. TotalOn(R, S)
    BY DEF TotalOn
  <2>3. PICK e \in S : \A a \in S : <<a, e>> \in R
    BY <2>1, <2>2, LastExists
  <2>4. IsFiniteSet(S \ {e}) /\ Cardinality(S \ {e}) = n
    <3>1. IsFiniteSet(S \ {e}) /\ Cardinality(S \ {e}) = Cardinality(S) - 1
      BY FS_RemoveElement
    <3>2. QED BY <3>1
  <2>5. PICK r \in [1..n -> S \ {e}] : InOrder(r, R)
    BY <1>2, <2>4
  <2> DEFINE s == [k \in 1..n + 1 |-> IF k = n + 1 THEN e ELSE r[k]]
  <2>6. s \in [1..n + 1 -> S]
    BY <2>5
  <2>7. DOMAIN s = 1..n + 1 /\ s[n + 1] = e /\ \A k \in 1..n : s[k] = r[k] /\ r[k] \in S \ {e}
    BY <2>5
  <2> HIDE DEF s
  <2>8. ASSUME NEW k \in 1..n + 1, NEW l \in 1..n + 1, k < l
        PROVE  s[k] # s[l] /\ <<s[k], s[l]>> \in R
    <3>1. k \in 1..n
      BY <2>8
    <3>2. CASE l = n + 1
      BY <2>3, <2>7, <3>1, <3>2
    <3>3. CASE l \in 1..n
      <4>1. r[k] # r[l] /\ <<r[k], r[l]>> \in R
        BY <2>5, <2>8, <3>1, <3>3 DEF InOrder
      <4>2. QED BY <2>7, <3>1, <3>3, <4>1
    <3>4. QED BY <3>2, <3>3
  <2>9. InOrder(s, R)
    BY <2>7, <2>8 DEF InOrder
  <2>10. QED BY <2>6, <2>9
<1>3. Nat \subseteq T
  <2>1. 0 \in T
    BY <1>1
  <2>2. \A n \in Nat : n \in T => n + 1 \in T
    <3> HIDE DEF P
    <3> QED BY <1>2
  <2> HIDE DEF T
  <2> QED BY <2>1, <2>2, SetInduction
<1>4. P(Cardinality(U))
  <2> HIDE DEF P
  <2>1. Cardinality(U) \in Nat
    BY FS_CardinalityType
  <2>2. QED BY <1>3, <2>1
<1>5. QED BY <1>4

\* An order has every element once.
LEMMA OrderOfAll ==
  ASSUME NEW U, NEW R, IsFiniteSet(U), NEW s \in [1..Cardinality(U) -> U], InOrder(s, R)
  PROVE  \A a \in U : \E k \in 1..Cardinality(U) : s[k] = a
<1>1. Cardinality(U) \in Nat
  BY FS_CardinalityType
<1>2. \A k, l \in 1..Cardinality(U) : s[k] = s[l] => k = l
  <2> TAKE k, l \in 1..Cardinality(U)
  <2>1. k < l \/ l < k \/ k = l
    BY <1>1
  <2>2. DOMAIN s = 1..Cardinality(U)
    OBVIOUS
  <2>3. QED BY <2>1, <2>2 DEF InOrder
<1>3. IsFiniteSet(1..Cardinality(U)) /\ Cardinality(1..Cardinality(U)) = Cardinality(U)
  <2>1. /\ IsFiniteSet(1..Cardinality(U))
        /\ Cardinality(1..Cardinality(U)) = IF 1 > Cardinality(U) THEN 0 ELSE Cardinality(U) - 1 + 1
    BY <1>1, FS_Interval
  <2>2. QED BY <1>1, <2>1
<1>4. s \in Injection(1..Cardinality(U), U)
  BY <1>2 DEF Injection, IsInjective
<1>5. s \in Surjection(1..Cardinality(U), U)
  BY <1>3, <1>4, FS_Injection
<1>6. QED BY <1>5 DEF Surjection

-----------------------------------------------------------------------------
(* The reports of a day without collisions and with room.                  *)

LEMMA IntervalSize ==
  ASSUME NEW n \in Nat
  PROVE  IsFiniteSet(0..n - 1) /\ Cardinality(0..n - 1) = n
<1>1. IsFiniteSet(0..n - 1) /\ Cardinality(0..n - 1) = IF 0 > n - 1 THEN 0 ELSE (n - 1) - 0 + 1
  BY FS_Interval
<1>2. QED BY <1>1

\* The instrument of an engine.
InstrumentOf(index) == contractEngines[index].instrument

\* Every engine of the day is that of one known instrument.
LEMMA EngineOwners ==
  ASSUME TradeInv
  PROVE  /\ \A i \in known : /\ Index(i) \in 0..lastContract - 1
                             /\ InstrumentOf(Index(i)) = i
         /\ \A index \in 0..lastContract - 1 :
              InstrumentOf(index) \in known /\ Index(InstrumentOf(index)) = index
<1>1. /\ known \subseteq Instruments /\ lastContract \in Nat /\ lastContract = Cardinality(known)
      /\ KnownHit /\ IndicesDistinct
      /\ contractPairs \in [0..MOD - 1 -> [instrument : Instruments \cup {0}, index : Nat]]
      /\ \A slot \in 0..MOD - 1 :
           contractPairs[slot].instrument # 0 => contractPairs[slot].index < lastContract
  BY DEF TradeInv, TypeOK, TableInv
<1>2. ASSUME NEW i \in known
      PROVE  Index(i) \in 0..lastContract - 1 /\ InstrumentOf(Index(i)) = i
  <2>1. i \in Instruments /\ i # 0 /\ Home(i) \in 0..MOD - 1
    BY <1>1, HomeInTable, DayAssumption
  <2>2. contractPairs[Home(i)].instrument = i /\ contractPairs[Home(i)].index \in Nat
    BY <1>1, <2>1 DEF KnownHit, Hit
  <2>3. Index(i) \in 0..lastContract - 1
    BY <1>1, <2>1, <2>2 DEF Index
  <2>4. IsEngineOf(Index(i), i)
    BY DEF TradeInv, EnginesInv, Got
  <2>5. QED BY <2>3, <2>4 DEF IsEngineOf, InstrumentOf
<1> DEFINE f == [i \in known |-> Index(i)]
<1>3. f \in Injection(known, 0..lastContract - 1)
  <2>1. f \in [known -> 0..lastContract - 1]
    BY <1>2
  <2>2. \A i, j \in known : f[i] = f[j] => i = j
    BY <1>1 DEF IndicesDistinct
  <2>3. QED BY <2>1, <2>2 DEF Injection, IsInjective
<1>4. IsFiniteSet(0..lastContract - 1) /\ Cardinality(0..lastContract - 1) = lastContract
  BY <1>1, IntervalSize
<1>5. f \in Surjection(known, 0..lastContract - 1)
  <2> HIDE DEF f
  <2> QED BY <1>1, <1>3, <1>4, FS_Injection
<1>6. ASSUME NEW index \in 0..lastContract - 1
      PROVE  InstrumentOf(index) \in known /\ Index(InstrumentOf(index)) = index
  <2>1. PICK i \in known : f[i] = index
    BY <1>5 DEF Surjection
  <2>2. Index(i) = index
    BY <2>1
  <2>3. QED BY <1>2, <2>2
<1>7. QED BY <1>2, <1>6

\* The reports name the instruments of the engines.
LEMMA SortIds ==
  ASSUME TradeInv, NEW index \in 0..lastContract - 1
  PROVE  /\ InstrumentOf(index) \in Instruments /\ InstrumentOf(index) \in Nat
         /\ SortId(index) \in Nat
         /\ SortId(index) = reverseInstrumentId(InstrumentOf(index))
         /\ reverseInstrumentId(SortId(index)) = InstrumentOf(index)
<1> DEFINE x == InstrumentOf(index)
<1>1. x \in Instruments /\ x \in Nat /\ Rest(x, IdLength) = 0
  <2>1. x \in known
    BY EngineOwners
  <2>2. known \subseteq Instruments
    BY DEF TradeInv, TypeOK
  <2>3. QED BY <2>1, <2>2, DayAssumption, NameAssumption
<1>2. SortId(index) = reverseInstrumentId(x)
  BY DEF SortId, InstrumentOf
<1> HIDE DEF x
<1>3. IdLength \in 0..IdLength
  BY NameAssumption
<1>4. reverseInstrumentId(x) \in Nat
  BY <1>1, <1>3, ReversedEquations
<1>5. reverseInstrumentId(reverseInstrumentId(x)) = x
  BY <1>1, ReversedTwice
<1>6. QED BY <1>1, <1>2, <1>4, <1>5 DEF x

\* getPNLAndPos has an order to report in.
LEMMA PnlSorted ==
  ASSUME TradeInv
  PROVE  \E s \in [1..lastContract -> 0..lastContract - 1] :
           /\ \A k, l \in 1..lastContract : k < l => s[k] # s[l] /\ ~(SortId(s[l]) < SortId(s[k]))
           /\ \A index \in 0..lastContract - 1 : \E k \in 1..lastContract : s[k] = index
           /\ getPNLAndPos = [k \in 1..lastContract |-> reverseInstrumentId(SortId(s[k]))]
<1> DEFINE U == 0..lastContract - 1
           R == {p \in U \X U : ~(SortId(p[2]) < SortId(p[1]))}
           Right(s) == \A k, l \in DOMAIN s : k < l => s[k] # s[l] /\ ~(SortId(s[l]) < SortId(s[k]))
           chosen == CHOOSE s \in [1..Cardinality(U) -> U] : Right(s)
<1>1. lastContract \in Nat
  BY DEF TradeInv, TypeOK
<1>2. IsFiniteSet(U) /\ Cardinality(U) = lastContract
  BY <1>1, IntervalSize
<1>3. \A a, b \in U : <<a, b>> \in R <=> ~(SortId(b) < SortId(a))
  OBVIOUS
<1>4. \A a \in U : SortId(a) \in Nat
  BY SortIds
<1> HIDE DEF U, R
<1>5. TotalOn(R, U)
  BY <1>3, <1>4 DEF TotalOn
<1>6. PICK t \in [1..Cardinality(U) -> U] : InOrder(t, R)
  BY <1>2, <1>5, OrderExists
<1>7. ASSUME NEW r \in [1..Cardinality(U) -> U] PROVE Right(r) <=> InOrder(r, R)
  <2>1. DOMAIN r = 1..Cardinality(U) /\ \A k \in DOMAIN r : r[k] \in U
    OBVIOUS
  <2>2. \A k, l \in DOMAIN r : <<r[k], r[l]>> \in R <=> ~(SortId(r[l]) < SortId(r[k]))
    BY <1>3, <2>1
  <2>3. QED BY <2>2 DEF InOrder
<1>8. getPNLAndPos = [k \in DOMAIN chosen |-> reverseInstrumentId(SortId(chosen[k]))]
  BY DEF getPNLAndPos, Sorted, U
<1>9. chosen \in [1..Cardinality(U) -> U] /\ Right(chosen)
  <2> HIDE DEF Right
  <2> QED BY <1>6, <1>7
<1> HIDE DEF chosen
<1>10. PICK s \in [1..Cardinality(U) -> U] :
         Right(s) /\ getPNLAndPos = [k \in DOMAIN s |-> reverseInstrumentId(SortId(s[k]))]
  <2> HIDE DEF Right
  <2> QED BY <1>8, <1>9
<1>11. \A a \in U : \E k \in 1..Cardinality(U) : s[k] = a
  <2>1. InOrder(s, R)
    <3> HIDE DEF Right
    <3> QED BY <1>7, <1>10
  <2> HIDE DEF Right
  <2>2. QED BY <1>2, <2>1, OrderOfAll
<1>12. DOMAIN s = 1..lastContract /\ s \in [1..lastContract -> 0..lastContract - 1]
  BY <1>2, <1>10 DEF U
<1>13. \A k, l \in 1..lastContract : k < l => s[k] # s[l] /\ ~(SortId(s[l]) < SortId(s[k]))
  BY <1>10, <1>12
<1>14. \A index \in 0..lastContract - 1 : \E k \in 1..lastContract : s[k] = index
  BY <1>2, <1>11 DEF U
<1>15. getPNLAndPos = [k \in 1..lastContract |-> reverseInstrumentId(SortId(s[k]))]
  BY <1>10, <1>12
<1>16. QED BY <1>12, <1>13, <1>14, <1>15

LEMMA InvPnl == TradeInv => PnlReportRight
<1> SUFFICES ASSUME TradeInv
             PROVE  /\ {getPNLAndPos[k] : k \in DOMAIN getPNLAndPos} = known
                    /\ \A k, l \in DOMAIN getPNLAndPos : k < l =>
                         NamedBefore(getPNLAndPos[k], getPNLAndPos[l])
  BY DEF PnlReportRight
<1> DEFINE n == lastContract
<1>1. PICK s \in [1..n -> 0..n - 1] :
        /\ \A k, l \in 1..n : k < l => s[k] # s[l] /\ ~(SortId(s[l]) < SortId(s[k]))
        /\ \A index \in 0..n - 1 : \E k \in 1..n : s[k] = index
        /\ getPNLAndPos = [k \in 1..n |-> reverseInstrumentId(SortId(s[k]))]
  BY PnlSorted
<1>2. DOMAIN getPNLAndPos = 1..n /\ \A k \in 1..n : getPNLAndPos[k] = InstrumentOf(s[k]) /\ s[k] \in 0..n - 1
  BY <1>1, SortIds
<1>3. {getPNLAndPos[k] : k \in DOMAIN getPNLAndPos} = known
  <2>1. \A k \in 1..n : getPNLAndPos[k] \in known
    BY <1>2, EngineOwners
  <2>2. ASSUME NEW i \in known PROVE \E k \in 1..n : getPNLAndPos[k] = i
    <3>1. Index(i) \in 0..n - 1 /\ InstrumentOf(Index(i)) = i
      BY EngineOwners
    <3>2. PICK k \in 1..n : s[k] = Index(i)
      BY <1>1, <3>1
    <3>3. QED BY <1>2, <3>1, <3>2
  <2>3. QED BY <1>2, <2>1, <2>2
<1>4. ASSUME NEW k \in 1..n, NEW l \in 1..n, k < l
      PROVE  NamedBefore(getPNLAndPos[k], getPNLAndPos[l])
  <2> DEFINE i == InstrumentOf(s[k])
             j == InstrumentOf(s[l])
  <2>1. /\ s[k] # s[l] /\ ~(SortId(s[l]) < SortId(s[k]))
        /\ s[k] \in 0..n - 1 /\ s[l] \in 0..n - 1
    BY <1>1, <1>4
  <2>2. i # j
    BY <2>1, EngineOwners
  <2>3. /\ i \in Nat /\ j \in Nat
        /\ SortId(s[k]) = reverseInstrumentId(i) /\ SortId(s[l]) = reverseInstrumentId(j)
        /\ SortId(s[k]) \in Nat /\ SortId(s[l]) \in Nat
        /\ reverseInstrumentId(SortId(s[k])) = i /\ reverseInstrumentId(SortId(s[l])) = j
    BY <2>1, SortIds
  <2> HIDE DEF i, j
  <2>4. SortId(s[k]) < SortId(s[l])
    BY <2>1, <2>2, <2>3
  <2>5. NamedBefore(i, j)
    BY <2>3, <2>4, SortedByName
  <2>6. QED BY <1>2, <2>5 DEF i, j
<1>5. QED BY <1>2, <1>3, <1>4

\* The slices are finitely many, and each is of an engine of the day.
LEMMA SlicesFinite ==
  ASSUME TradeInv
  PROVE  IsFiniteSet(Slices)
<1> DEFINE U == 0..lastContract - 1
           f == [index \in U |-> SlicesOf(index)]
           V == {SlicesOf(index) : index \in U}
<1>1. lastContract \in Nat
  BY DEF TradeInv, TypeOK
<1>2. IsFiniteSet(U)
  BY <1>1, IntervalSize
<1>3. ASSUME NEW index \in U PROVE IsFiniteSet(SlicesOf(index))
  <2> DEFINE calls == contractEngines[index].calls
             some  == {j \in DOMAIN calls : calls[j].kind = "alpha"}
  <2>1. HasEngine(index) /\ index \in 0..MAX_CONTRACT_NUM - 1
    <3>1. HasEngine(index)
      BY DEF TradeInv, EnginesInv
    <3>2. QED BY <1>1, <3>1, TableAssumption DEF HasEngine
  <2>2. contractEngines[index] \in Engine
    BY <2>1 DEF TradeInv, TypeOK, HasEngine
  <2>3. calls \in Seq(Call)
    BY <2>2 DEF Engine
  <2>4. DOMAIN calls = 1..Len(calls) /\ Len(calls) \in Nat
    BY <2>3
  <2> HIDE DEF calls
  <2>5. IsFiniteSet(1..Len(calls))
    BY <2>4, FS_Interval
  <2>6. some \in SUBSET (1..Len(calls))
    BY <2>4
  <2> HIDE DEF some
  <2>7. IsFiniteSet(some) /\ IsFiniteSet({index})
    BY <2>5, <2>6, FS_Subset, FS_Singleton
  <2>8. IsFiniteSet({index} \X some)
    BY <2>7, FS_Product
  <2>9. SlicesOf(index) = {index} \X some
    BY DEF SlicesOf, some, calls
  <2>10. QED BY <2>8, <2>9
<1>4. f \in Surjection(U, V)
  BY DEF Surjection
<1>5. \A T \in V : IsFiniteSet(T)
  BY <1>3
<1>6. Slices = UNION V
  BY DEF Slices
<1> HIDE DEF U, V, f
<1>7. IsFiniteSet(V)
  BY <1>2, <1>4, FS_Surjection
<1>8. QED BY <1>5, <1>6, <1>7, FS_UNION

\* The records sent for an instrument.
SentTo(index) == sent[InstrumentOf(index)]

LEMMA CallsAreSent ==
  ASSUME TradeInv, NEW index \in 0..lastContract - 1
  PROVE  /\ DOMAIN contractEngines[index].calls = DOMAIN SentTo(index)
         /\ \A j \in DOMAIN SentTo(index) :
              /\ SentTo(index)[j] \in Records
              /\ contractEngines[index].calls[j].kind = SentTo(index)[j].kind
              /\ contractEngines[index].calls[j].timestamp + timestampOffset
                   = SentTo(index)[j].timestamp
<1> DEFINE i == InstrumentOf(index)
           calls == contractEngines[index].calls
           records == sent[i]
<1>1. i \in known /\ Index(i) = index /\ i \in Instruments
  <2>1. known \subseteq Instruments
    BY DEF TradeInv, TypeOK
  <2>2. QED BY <2>1, EngineOwners
<1>2. IsEngineOf(index, i) /\ GotAll(index, i)
  BY <1>1 DEF TradeInv, EnginesInv, Got
<1>3. calls \in Seq(Call)
  <2>1. index \in 0..MAX_CONTRACT_NUM - 1 /\ contractEngines[index] # Unset
    <3>1. lastContract \in Nat
      BY DEF TradeInv, TypeOK
    <3>2. QED BY <1>2, <3>1, TableAssumption DEF IsEngineOf, HasEngine
  <2>2. contractEngines[index] \in Engine
    BY <2>1 DEF TradeInv, TypeOK
  <2>3. QED BY <2>2 DEF Engine
<1>4. records \in Seq(Records)
  BY <1>1 DEF TradeInv, TypeOK, Records
<1>5. timestampOffset \in Int
  BY DayAssumption DEF TradeInv, TypeOK
<1>6. /\ Len(calls) = Len(records)
      /\ \A k \in 1..Len(records) :
           calls[k] = Record(records[k].kind, records[k].timestamp - timestampOffset)
  BY <1>2 DEF GotAll
<1> HIDE DEF calls, records
<1>7. DOMAIN calls = 1..Len(records) /\ DOMAIN records = 1..Len(records)
  BY <1>3, <1>4, <1>6
<1>8. ASSUME NEW j \in DOMAIN records
      PROVE  /\ records[j] \in Records
             /\ calls[j].kind = records[j].kind
             /\ calls[j].timestamp + timestampOffset = records[j].timestamp
  <2>1. records[j] \in Records /\ j \in 1..Len(records)
    BY <1>4, <1>7
  <2>2. records[j].timestamp \in Int
    <3>1. \A r \in Records : r.timestamp \in Int
      <4>1. \A t \in Timestamps : t \in Int
        BY DayAssumption
      <4>2. QED BY <4>1 DEF Records
    <3>2. QED BY <2>1, <3>1
  <2>3. calls[j].kind = records[j].kind /\ calls[j].timestamp = records[j].timestamp - timestampOffset
    <3>1. calls[j] = Record(records[j].kind, records[j].timestamp - timestampOffset)
      BY <1>6, <2>1
    <3>2. \A kind, t : Record(kind, t).kind = kind /\ Record(kind, t).timestamp = t
      BY DEF Record
    <3>3. QED BY <3>1, <3>2
  <2>4. QED BY <1>5, <2>1, <2>2, <2>3
<1>9. SentTo(index) = records /\ contractEngines[index].calls = calls
  BY DEF SentTo, records, calls
<1>10. QED BY <1>7, <1>8, <1>9

\* What a slice is, and what its entry in the report says of it.
LEMMA SliceType ==
  ASSUME TradeInv, NEW slice \in Slices
  PROVE  /\ slice = <<slice[1], slice[2]>>
         /\ slice[1] \in 0..lastContract - 1
         /\ slice[2] \in DOMAIN SentTo(slice[1])
         /\ SentTo(slice[1])[slice[2]] \in Records
         /\ SentTo(slice[1])[slice[2]].kind = "alpha"
         /\ TwapOrder(slice) = [instrumentId |-> SortId(slice[1]),
                                timestamp    |-> SentTo(slice[1])[slice[2]].timestamp]
<1>1. PICK index \in 0..lastContract - 1 : slice \in SlicesOf(index)
  BY DEF Slices
<1>2. /\ slice = <<slice[1], slice[2]>> /\ slice[1] = index
      /\ slice[2] \in DOMAIN contractEngines[index].calls
      /\ contractEngines[index].calls[slice[2]].kind = "alpha"
  BY <1>1 DEF SlicesOf
<1>3. slice[2] \in DOMAIN SentTo(index)
  BY <1>2, CallsAreSent
<1>4. /\ SentTo(index)[slice[2]] \in Records
      /\ SentTo(index)[slice[2]].kind = "alpha"
      /\ contractEngines[index].calls[slice[2]].timestamp + timestampOffset
           = SentTo(index)[slice[2]].timestamp
  BY <1>2, <1>3, CallsAreSent
<1>5. TwapOrder(slice) = [instrumentId |-> SortId(index),
                          timestamp    |-> SentTo(index)[slice[2]].timestamp]
  BY <1>2, <1>4 DEF TwapOrder
<1>6. QED BY <1>2, <1>3, <1>4, <1>5

\* Every alpha is a slice.
LEMMA AlphaIsSlice ==
  ASSUME TradeInv, NEW i \in known, NEW j \in DOMAIN sent[i], sent[i][j].kind = "alpha"
  PROVE  <<Index(i), j>> \in Slices
<1>1. Index(i) \in 0..lastContract - 1 /\ InstrumentOf(Index(i)) = i
  BY EngineOwners
<1>2. SentTo(Index(i)) = sent[i]
  BY <1>1 DEF SentTo
<1>3. j \in DOMAIN contractEngines[Index(i)].calls /\ contractEngines[Index(i)].calls[j].kind = "alpha"
  BY <1>1, <1>2, CallsAreSent
<1>4. <<Index(i), j>> \in SlicesOf(Index(i))
  BY <1>3 DEF SlicesOf
<1>5. QED BY <1>1, <1>4 DEF Slices

\* getTWAPOrders has an order to report in.
LEMMA TwapSorted ==
  ASSUME TradeInv
  PROVE  \E n \in Nat : \E s \in [1..n -> Slices] :
           /\ \A k, l \in 1..n : k < l => s[k] # s[l] /\ ~TwapBefore(TwapOrder(s[l]), TwapOrder(s[k]))
           /\ \A slice \in Slices : \E k \in 1..n : s[k] = slice
           /\ getTWAPOrders = [k \in 1..n |-> [TwapOrder(s[k]) EXCEPT !.instrumentId = reverseInstrumentId(@)]]
<1> DEFINE n == Cardinality(Slices)
           R == {p \in Slices \X Slices : ~TwapBefore(TwapOrder(p[2]), TwapOrder(p[1]))}
           Right(s) == \A k, l \in DOMAIN s :
                         k < l => s[k] # s[l] /\ ~TwapBefore(TwapOrder(s[l]), TwapOrder(s[k]))
           chosen == CHOOSE s \in [1..Cardinality(Slices) -> Slices] : Right(s)
<1>1. IsFiniteSet(Slices) /\ n \in Nat
  BY SlicesFinite, FS_CardinalityType
<1>2. \A a, b \in Slices : <<a, b>> \in R <=> ~TwapBefore(TwapOrder(b), TwapOrder(a))
  OBVIOUS
<1>3. ASSUME NEW slice \in Slices
      PROVE  TwapOrder(slice).instrumentId \in Nat /\ TwapOrder(slice).timestamp \in Nat
  <2>1. SortId(slice[1]) \in Nat
    BY SliceType, SortIds
  <2>2. SentTo(slice[1])[slice[2]].timestamp \in Nat
    BY SliceType, DayAssumption DEF Records
  <2>3. QED BY <2>1, <2>2, SliceType
<1> HIDE DEF R
<1>4. TotalOn(R, Slices)
  <2>1. ASSUME NEW a \in Slices, NEW b \in Slices
        PROVE  <<a, b>> \in R \/ <<b, a>> \in R
    BY <1>2, <1>3 DEF TwapBefore
  <2>2. ASSUME NEW a \in Slices, NEW b \in Slices, NEW c \in Slices, <<a, b>> \in R, <<b, c>> \in R
        PROVE  <<a, c>> \in R
    <3>1. ~TwapBefore(TwapOrder(b), TwapOrder(a)) /\ ~TwapBefore(TwapOrder(c), TwapOrder(b))
      BY <1>2, <2>2
    <3>2. ~TwapBefore(TwapOrder(c), TwapOrder(a))
      BY <1>3, <3>1 DEF TwapBefore
    <3>3. QED BY <1>2, <3>2
  <2>3. QED BY <2>1, <2>2 DEF TotalOn
<1>5. PICK t \in [1..n -> Slices] : InOrder(t, R)
  BY <1>1, <1>4, OrderExists
<1>6. ASSUME NEW r \in [1..n -> Slices] PROVE Right(r) <=> InOrder(r, R)
  <2>1. DOMAIN r = 1..n /\ \A k \in DOMAIN r : r[k] \in Slices
    OBVIOUS
  <2>2. \A k, l \in DOMAIN r : <<r[k], r[l]>> \in R <=> ~TwapBefore(TwapOrder(r[l]), TwapOrder(r[k]))
    BY <1>2, <2>1
  <2>3. QED BY <2>2 DEF InOrder
<1>7. getTWAPOrders
        = [k \in DOMAIN chosen |-> [TwapOrder(chosen[k]) EXCEPT !.instrumentId = reverseInstrumentId(@)]]
  BY DEF getTWAPOrders, Sorted
<1>8. chosen \in [1..n -> Slices] /\ Right(chosen)
  <2> HIDE DEF Right
  <2> QED BY <1>5, <1>6
<1> HIDE DEF chosen
<1>9. PICK s \in [1..n -> Slices] :
        /\ Right(s)
        /\ getTWAPOrders
             = [k \in DOMAIN s |-> [TwapOrder(s[k]) EXCEPT !.instrumentId = reverseInstrumentId(@)]]
  <2> HIDE DEF Right
  <2> QED BY <1>7, <1>8
<1>10. \A a \in Slices : \E k \in 1..n : s[k] = a
  <2> HIDE DEF Right
  <2>1. InOrder(s, R)
    BY <1>6, <1>9
  <2>2. QED BY <1>1, <2>1, OrderOfAll
<1>11. DOMAIN s = 1..n
  OBVIOUS
<1>12. \A k, l \in 1..n : k < l => s[k] # s[l] /\ ~TwapBefore(TwapOrder(s[l]), TwapOrder(s[k]))
  BY <1>9, <1>11
<1> HIDE DEF n
<1>13. getTWAPOrders
         = [k \in 1..n |-> [TwapOrder(s[k]) EXCEPT !.instrumentId = reverseInstrumentId(@)]]
  BY <1>9, <1>11
<1>14. QED BY <1>1, <1>10, <1>12, <1>13

LEMMA InvTwap == TradeInv => TwapReportRight
<1> SUFFICES
      ASSUME TradeInv
      PROVE  /\ \A k, l \in DOMAIN getTWAPOrders : k < l =>
                  \/ getTWAPOrders[k].timestamp < getTWAPOrders[l].timestamp
                  \/ /\ getTWAPOrders[k].timestamp = getTWAPOrders[l].timestamp
                     /\ ~NamedBefore(getTWAPOrders[l].instrumentId, getTWAPOrders[k].instrumentId)
             /\ \A instrument \in Instruments, timestamp \in Timestamps :
                  Cardinality({k \in DOMAIN getTWAPOrders :
                    getTWAPOrders[k] = [instrumentId |-> instrument, timestamp |-> timestamp]})
                  = Cardinality({k \in DOMAIN sent[instrument] :
                                   sent[instrument][k] = Record("alpha", timestamp)})
  BY DEF TwapReportRight
<1>0. PICK n \in Nat : \E s \in [1..n -> Slices] :
        /\ \A k, l \in 1..n : k < l => s[k] # s[l] /\ ~TwapBefore(TwapOrder(s[l]), TwapOrder(s[k]))
        /\ \A slice \in Slices : \E k \in 1..n : s[k] = slice
        /\ getTWAPOrders = [k \in 1..n |-> [TwapOrder(s[k]) EXCEPT !.instrumentId = reverseInstrumentId(@)]]
  BY TwapSorted
<1>1. PICK s \in [1..n -> Slices] :
        /\ \A k, l \in 1..n : k < l => s[k] # s[l] /\ ~TwapBefore(TwapOrder(s[l]), TwapOrder(s[k]))
        /\ \A slice \in Slices : \E k \in 1..n : s[k] = slice
        /\ getTWAPOrders = [k \in 1..n |-> [TwapOrder(s[k]) EXCEPT !.instrumentId = reverseInstrumentId(@)]]
  BY <1>0
<1> DEFINE x(k) == s[k][1]
           i(k) == InstrumentOf(x(k))
           t(k) == sent[i(k)][s[k][2]].timestamp
<1>2. ASSUME NEW k \in 1..n
      PROVE  /\ s[k] = <<x(k), s[k][2]>> /\ x(k) \in 0..lastContract - 1
             /\ i(k) \in known /\ Index(i(k)) = x(k) /\ i(k) \in Nat
             /\ SortId(x(k)) \in Nat /\ SortId(x(k)) = reverseInstrumentId(i(k))
             /\ s[k][2] \in DOMAIN sent[i(k)] /\ sent[i(k)][s[k][2]] = Record("alpha", t(k))
             /\ t(k) \in Nat
             /\ TwapOrder(s[k]) = [instrumentId |-> SortId(x(k)), timestamp |-> t(k)]
             /\ getTWAPOrders[k] = [instrumentId |-> i(k), timestamp |-> t(k)]
  <2>1. s[k] \in Slices
    OBVIOUS
  <2>2. s[k] = <<x(k), s[k][2]>> /\ x(k) \in 0..lastContract - 1
    BY <2>1, SliceType
  <2>3. SentTo(x(k)) = sent[i(k)]
    BY DEF SentTo
  <2>4. /\ s[k][2] \in DOMAIN sent[i(k)] /\ sent[i(k)][s[k][2]] \in Records
        /\ sent[i(k)][s[k][2]].kind = "alpha"
        /\ TwapOrder(s[k]) = [instrumentId |-> SortId(x(k)), timestamp |-> t(k)]
    BY <2>1, <2>3, SliceType
  <2>5. i(k) \in known /\ Index(i(k)) = x(k)
    BY <2>2, EngineOwners
  <2>6. /\ i(k) \in Nat /\ SortId(x(k)) \in Nat /\ SortId(x(k)) = reverseInstrumentId(i(k))
        /\ reverseInstrumentId(SortId(x(k))) = i(k)
    BY <2>2, SortIds
  <2>7. getTWAPOrders[k] = [TwapOrder(s[k]) EXCEPT !.instrumentId = reverseInstrumentId(@)]
    BY <1>1
  <2> HIDE DEF x, i
  <2>8. t(k) \in Nat /\ sent[i(k)][s[k][2]] = Record("alpha", t(k))
    BY <2>4, DayAssumption DEF Records, Record
  <2> HIDE DEF t
  <2>9. getTWAPOrders[k] = [instrumentId |-> i(k), timestamp |-> t(k)]
    BY <2>4, <2>6, <2>7
  <2>10. QED BY <2>2, <2>4, <2>5, <2>6, <2>8, <2>9
<1>3. DOMAIN getTWAPOrders = 1..n
  BY <1>1
<1>4. ASSUME NEW k \in 1..n, NEW l \in 1..n, k < l
      PROVE  \/ getTWAPOrders[k].timestamp < getTWAPOrders[l].timestamp
             \/ /\ getTWAPOrders[k].timestamp = getTWAPOrders[l].timestamp
                /\ ~NamedBefore(getTWAPOrders[l].instrumentId, getTWAPOrders[k].instrumentId)
  <2>1. ~TwapBefore(TwapOrder(s[l]), TwapOrder(s[k]))
    BY <1>1, <1>4
  <2> HIDE DEF x, i, t
  <2>2. ~(t(l) < t(k)) /\ ~(t(l) = t(k) /\ SortId(x(l)) < SortId(x(k)))
    <3>1. /\ TwapOrder(s[k]) = [instrumentId |-> SortId(x(k)), timestamp |-> t(k)]
          /\ TwapOrder(s[l]) = [instrumentId |-> SortId(x(l)), timestamp |-> t(l)]
      BY <1>2
    <3>2. /\ TwapOrder(s[k]).timestamp = t(k) /\ TwapOrder(s[k]).instrumentId = SortId(x(k))
          /\ TwapOrder(s[l]).timestamp = t(l) /\ TwapOrder(s[l]).instrumentId = SortId(x(l))
      BY <3>1
    <3>3. QED BY <2>1, <3>2 DEF TwapBefore
  <2>3. SortId(x(l)) < SortId(x(k)) <=> NamedBefore(i(l), i(k))
    BY <1>2, SortedByName
  <2>4. t(k) < t(l) \/ (t(k) = t(l) /\ ~NamedBefore(i(l), i(k)))
    <3>1. t(k) \in Nat /\ t(l) \in Nat
      BY <1>2
    <3>2. QED BY <2>2, <2>3, <3>1
  <2>5. /\ getTWAPOrders[k].timestamp = t(k) /\ getTWAPOrders[l].timestamp = t(l)
        /\ getTWAPOrders[k].instrumentId = i(k) /\ getTWAPOrders[l].instrumentId = i(l)
    <3>1. /\ getTWAPOrders[k] = [instrumentId |-> i(k), timestamp |-> t(k)]
          /\ getTWAPOrders[l] = [instrumentId |-> i(l), timestamp |-> t(l)]
      BY <1>2
    <3>2. QED BY <3>1
  <2>6. QED BY <2>4, <2>5
<1>5. ASSUME NEW instrument \in Instruments, NEW timestamp \in Timestamps
      PROVE  Cardinality({k \in DOMAIN getTWAPOrders :
               getTWAPOrders[k] = [instrumentId |-> instrument, timestamp |-> timestamp]})
             = Cardinality({k \in DOMAIN sent[instrument] :
                              sent[instrument][k] = Record("alpha", timestamp)})
  <2> DEFINE A == {k \in 1..n :
                     getTWAPOrders[k] = [instrumentId |-> instrument, timestamp |-> timestamp]}
             B == {j \in DOMAIN sent[instrument] : sent[instrument][j] = Record("alpha", timestamp)}
             f == [k \in A |-> s[k][2]]
  <2> HIDE DEF x, i, t
  <2>1. \A k \in 1..n : k \in A <=> i(k) = instrument /\ t(k) = timestamp
    <3> TAKE k \in 1..n
    <3>1. getTWAPOrders[k] = [instrumentId |-> i(k), timestamp |-> t(k)]
      BY <1>2
    <3>2. QED BY <3>1
  <2>2. IsFiniteSet(A)
    <3>1. A \in SUBSET (1..n)
      OBVIOUS
    <3>2. n \in Int
      OBVIOUS
    <3> HIDE DEF A
    <3>3. IsFiniteSet(1..n)
      BY <3>2, FS_Interval
    <3>4. QED BY <3>1, <3>3, FS_Subset
  <2>3. \A k \in A : f[k] \in B
    <3> SUFFICES ASSUME NEW k \in A PROVE s[k][2] \in B
      OBVIOUS
    <3>1. i(k) = instrument /\ t(k) = timestamp /\ k \in 1..n
      BY <2>1
    <3>2. QED BY <1>2, <3>1
  <2>4. \A k, l \in A : f[k] = f[l] => k = l
    <3> SUFFICES ASSUME NEW k \in A, NEW l \in A, s[k][2] = s[l][2] PROVE k = l
      OBVIOUS
    <3>1. k \in 1..n /\ l \in 1..n /\ i(k) = i(l)
      BY <2>1
    <3>2. x(k) = x(l)
      BY <1>2, <3>1
    <3>3. s[k] = s[l]
      BY <1>2, <3>1, <3>2
    <3>4. k < l \/ l < k \/ k = l
      BY <3>1
    <3>5. QED BY <1>1, <3>1, <3>3, <3>4
  <2>5. ASSUME NEW j \in B PROVE \E k \in A : f[k] = j
    <3>1. j \in DOMAIN sent[instrument] /\ sent[instrument][j].kind = "alpha"
          /\ sent[instrument][j].timestamp = timestamp
      BY DEF Record
    <3>2. instrument \in known
      <4>1. sent[instrument] # <<>>
        BY <3>1
      <4>2. QED BY <4>1 DEF TradeInv, OffsetInv
    <3>3. <<Index(instrument), j>> \in Slices
      BY <3>1, <3>2, AlphaIsSlice
    <3>4. PICK k \in 1..n : s[k] = <<Index(instrument), j>>
      BY <1>1, <3>3
    <3>5. x(k) = Index(instrument) /\ s[k][2] = j
      BY <3>4 DEF x
    <3>6. i(k) = instrument
      BY <3>2, <3>5, EngineOwners DEF i
    <3>7. t(k) = timestamp
      BY <3>1, <3>5, <3>6 DEF t
    <3>8. k \in A
      BY <2>1, <3>6, <3>7
    <3>9. QED BY <3>5, <3>8
  <2> HIDE DEF A, B
  <2>6. f \in Bijection(A, B)
    <3>1. f \in [A -> B]
      BY <2>3
    <3> HIDE DEF f
    <3>2. f \in Injection(A, B)
      BY <2>4, <3>1 DEF Injection, IsInjective
    <3>3. f \in Surjection(A, B)
      BY <2>5, <3>1 DEF Surjection
    <3>4. QED BY <3>2, <3>3 DEF Bijection
  <2> HIDE DEF f
  <2>7. ExistsBijection(A, B)
    BY <2>6 DEF ExistsBijection
  <2>8. Cardinality(B) = Cardinality(A)
    BY <2>2, <2>7, FS_Bijection
  <2>9. A = {k \in DOMAIN getTWAPOrders :
               getTWAPOrders[k] = [instrumentId |-> instrument, timestamp |-> timestamp]}
    BY <1>3 DEF A
  <2>10. QED BY <2>8, <2>9 DEF B
<1>6. QED BY <1>3, <1>4, <1>5

\* getTWAPOrders reports every alpha of every instrument once, at its time, by time
\* and then by name, on a day whose instruments do not collide and all have room.
THEOREM TwapReported ==
  ASSUME HomesDistinct, Room
  PROVE  Spec => []TwapReportRight
<1>1. Spec => []TradeInv
  BY TradeInit, TradeStep, PTL DEF Spec
<1>2. QED BY <1>1, InvTwap, PTL

\* getPNLAndPos reports every instrument of such a day once, by name.
THEOREM PnlReported ==
  ASSUME HomesDistinct, Room
  PROVE  Spec => []PnlReportRight
<1>1. Spec => []TradeInv
  BY TradeInit, TradeStep, PTL DEF Spec
<1>2. QED BY <1>1, InvPnl, PTL

=============================================================================
