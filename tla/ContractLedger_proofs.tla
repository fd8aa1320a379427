------------------------ MODULE ContractLedger_proofs ------------------------
(***************************************************************************)
(* What the totals of a contract engine add up to, for every day: no share *)
(* of an alpha is lost, a trade takes the same volume from both sides, and *)
(* BestFivePriceNoLeft takes no more levels than it may.                   *)
(***************************************************************************)
EXTENDS ContractBook_proofs, ContractLedger, FiniteSetTheorems, WellFoundedInduction

-----------------------------------------------------------------------------
(* Sums over finite sets.                                                  *)

\* Induction over the naturals, for a set.
LEMMA SetInduction ==
  ASSUME NEW T, 0 \in T, \A n \in Nat : n \in T => n + 1 \in T
  PROVE  Nat \subseteq T
<1> DEFINE R == {ss \in Nat \X Nat : ss[1] < ss[2]}
           Bad == Nat \ T
<1> SUFFICES ASSUME Bad # {} PROVE FALSE
  OBVIOUS
<1>1. IsWellFoundedOn(R, Nat)
  BY NatLessThanWellFounded DEF OpToRel
<1>2. \A x, y \in Nat : y < x => <<y, x>> \in R
  OBVIOUS
<1>3. Bad \in SUBSET Nat
  OBVIOUS
<1> HIDE DEF R
<1>4. PICK x \in Bad : \A y \in Bad : ~(<<y, x>> \in R)
  BY <1>1, <1>3, WFMin
<1>5. x \in Nat \ {0}
  BY <1>4
<1>6. x - 1 \in Nat /\ x - 1 \in T
  <2>1. x - 1 \in Nat /\ x \in Nat /\ x - 1 < x
    BY <1>5
  <2>2. <<x - 1, x>> \in R
    BY <1>2, <2>1
  <2>3. QED BY <1>4, <2>1, <2>2
<1>7. QED BY <1>4, <1>5, <1>6

\* The element a sum takes next, and the sums of the subsets of S.
Next1(s) == CHOOSE x \in s : TRUE

Sums(g, f, sets) ==
  \A s \in sets : g[s] = IF s = {} THEN 0 ELSE f[Next1(s)] + g[s \ {Next1(s)}]

Small(S, n) == {s \in SUBSET S : Cardinality(s) <= n}

LEMMA NextElement ==
  ASSUME NEW S, IsFiniteSet(S), NEW s \in SUBSET S, s # {}
  PROVE  /\ Next1(s) \in s /\ s \ {Next1(s)} \in SUBSET S
         /\ IsFiniteSet(s) /\ Cardinality(s) \in Nat \ {0}
         /\ \A x \in s : Cardinality(s \ {x}) = Cardinality(s) - 1
<1>1. Next1(s) \in s
  BY DEF Next1
<1>2. IsFiniteSet(s) /\ Cardinality(s) \in Nat
  BY FS_Subset, FS_CardinalityType
<1>3. Cardinality(s) # 0
  BY <1>2, FS_EmptySet
<1>4. QED BY <1>1, <1>2, <1>3, FS_RemoveElement

LEMMA SumsExist ==
  ASSUME NEW S, IsFiniteSet(S), NEW f, \A x \in S : f[x] \in Int
  PROVE  \E g \in [SUBSET S -> Int] : Sums(g, f, SUBSET S)
<1> DEFINE P(n) == \E g \in [Small(S, n) -> Int] : Sums(g, f, Small(S, n))
           T == {n \in Nat : P(n)}
<1>1. P(0)
  <2> DEFINE g == [s \in Small(S, 0) |-> 0]
  <2>1. \A s \in Small(S, 0) : s = {}
    BY NextElement DEF Small
  <2>2. g \in [Small(S, 0) -> Int] /\ Sums(g, f, Small(S, 0))
    BY <2>1 DEF Sums
  <2> HIDE DEF g
  <2>3. QED BY <2>2
<1>2. ASSUME NEW n \in Nat, P(n) PROVE P(n + 1)
  <2>1. PICK h \in [Small(S, n) -> Int] : Sums(h, f, Small(S, n))
    BY <1>2
  <2> DEFINE Value(s) == IF s = {} THEN 0 ELSE f[Next1(s)] + h[s \ {Next1(s)}]
             g == [s \in Small(S, n + 1) |-> Value(s)]
  <2>2. ASSUME NEW s \in Small(S, n + 1), s # {}
        PROVE  /\ Next1(s) \in S /\ s \ {Next1(s)} \in Small(S, n)
               /\ s \ {Next1(s)} \in Small(S, n + 1)
    <3>1. s \in SUBSET S /\ Cardinality(s) <= n + 1
      BY DEF Small
    <3>2. /\ Next1(s) \in s /\ s \ {Next1(s)} \in SUBSET S
          /\ Cardinality(s \ {Next1(s)}) = Cardinality(s) - 1 /\ Cardinality(s) \in Nat
      BY <2>2, <3>1, NextElement
    <3>3. QED BY <3>1, <3>2 DEF Small
  <2>3. \A s \in Small(S, n + 1) : Value(s) \in Int
    BY <2>2
  <2>4. g \in [Small(S, n + 1) -> Int]
    BY <2>3
  <2>5. \A s \in Small(S, n) : s \in Small(S, n + 1) /\ g[s] = h[s]
    <3>1. ASSUME NEW s \in Small(S, n) PROVE s \in Small(S, n + 1) /\ g[s] = h[s]
      <4>1. s \in SUBSET S /\ Cardinality(s) <= n /\ Cardinality(s) \in Nat
        BY FS_Subset, FS_CardinalityType DEF Small
      <4>2. s \in Small(S, n + 1)
        BY <4>1 DEF Small
      <4>3. h[s] = Value(s)
        BY <2>1 DEF Sums
      <4>4. QED BY <4>2, <4>3
    <3>2. QED BY <3>1
  <2>6. ASSUME NEW s \in Small(S, n + 1)
        PROVE  g[s] = IF s = {} THEN 0 ELSE f[Next1(s)] + g[s \ {Next1(s)}]
    <3>1. CASE s = {}
      BY <3>1
    <3>2. CASE s # {}
      <4>1. g[s \ {Next1(s)}] = h[s \ {Next1(s)}]
        BY <2>2, <2>5, <3>2
      <4>2. g[s] = f[Next1(s)] + h[s \ {Next1(s)}]
        BY <3>2
      <4>3. QED BY <3>2, <4>1, <4>2
    <3>3. QED BY <3>1, <3>2
  <2> HIDE DEF g
  <2>7. Sums(g, f, Small(S, n + 1))
    BY <2>6 DEF Sums
  <2>8. QED BY <2>4, <2>7
<1> HIDE DEF P
<1>3. Nat \subseteq T
  <2>1. 0 \in T /\ \A n \in Nat : n \in T => n + 1 \in T
    BY <1>1, <1>2
  <2> HIDE DEF T
  <2>2. QED BY <2>1, SetInduction
<1>4. Cardinality(S) \in Nat /\ Small(S, Cardinality(S)) = SUBSET S
  BY FS_CardinalityType, FS_Subset DEF Small
<1>5. P(Cardinality(S))
  BY <1>3, <1>4
<1>6. QED BY <1>4, <1>5 DEF P

\* There is one.
LEMMA SumsUnique ==
  ASSUME NEW S, IsFiniteSet(S), NEW f, NEW g, NEW h,
         Sums(g, f, SUBSET S), Sums(h, f, SUBSET S)
  PROVE  \A s \in SUBSET S : g[s] = h[s]
<1> DEFINE P(n) == \A s \in Small(S, n) : g[s] = h[s]
           T == {n \in Nat : P(n)}
<1>1. P(0)
  <2>1. \A s \in Small(S, 0) : s = {} /\ s \in SUBSET S
    BY NextElement DEF Small
  <2>2. QED BY <2>1 DEF Sums
<1>2. ASSUME NEW n \in Nat, P(n) PROVE P(n + 1)
  <2> SUFFICES ASSUME NEW s \in Small(S, n + 1) PROVE g[s] = h[s]
    OBVIOUS
  <2>1. s \in SUBSET S /\ Cardinality(s) <= n + 1
    BY DEF Small
  <2>2. CASE s = {}
    BY <2>1, <2>2 DEF Sums
  <2>3. CASE s # {}
    <3>1. /\ Next1(s) \in s /\ s \ {Next1(s)} \in SUBSET S
          /\ Cardinality(s \ {Next1(s)}) = Cardinality(s) - 1 /\ Cardinality(s) \in Nat
      BY <2>1, <2>3, NextElement
    <3>2. s \ {Next1(s)} \in Small(S, n)
      BY <2>1, <3>1 DEF Small
    <3>3. g[s \ {Next1(s)}] = h[s \ {Next1(s)}]
      BY <1>2, <3>2
    <3>4. QED BY <2>1, <2>3, <3>3 DEF Sums
  <2>4. QED BY <2>2, <2>3
<1> HIDE DEF P
<1>3. Nat \subseteq T
  <2>1. 0 \in T /\ \A n \in Nat : n \in T => n + 1 \in T
    BY <1>1, <1>2
  <2> HIDE DEF T
  <2>2. QED BY <2>1, SetInduction
<1>4. Cardinality(S) \in Nat /\ Small(S, Cardinality(S)) = SUBSET S
  BY FS_CardinalityType, FS_Subset DEF Small
<1>5. P(Cardinality(S))
  BY <1>3, <1>4
<1>6. QED BY <1>4, <1>5 DEF P

\* The sum of the community modules is that one.
LEMMA SumIsSums ==
  ASSUME NEW S, IsFiniteSet(S), NEW f, NEW g \in [SUBSET S -> Int], Sums(g, f, SUBSET S)
  PROVE  SumFunctionOnSet(f, S) = g[S]
<1> DEFINE Def(h) == [s \in SUBSET S |-> IF s = {} THEN 0
                        ELSE f[Next1(s)] + h[s \ {Next1(s)}]]
           iter == CHOOSE h : h = Def(h)
<1>1. g = Def(g)
  BY DEF Sums
<1>2. iter = Def(iter)
  BY <1>1
<1>3. SumFunctionOnSet(f, S) = iter[S]
  BY DEF SumFunctionOnSet, FoldFunctionOnSet, MapThenFoldSet, Next1
<1> HIDE DEF iter
<1>4. Sums(iter, f, SUBSET S)
  <2>1. \A s \in SUBSET S : iter[s] = Def(iter)[s]
    BY <1>2
  <2>2. QED BY <2>1 DEF Sums
<1>5. iter[S] = g[S]
  BY <1>4, SumsUnique
<1>6. QED BY <1>3, <1>5

\* The elements of a sum may be taken in any order.
LEMMA SumsRemove ==
  ASSUME NEW S, IsFiniteSet(S), NEW f, \A x \in S : f[x] \in Int,
         NEW g \in [SUBSET S -> Int], Sums(g, f, SUBSET S)
  PROVE  \A s \in SUBSET S : \A x \in s : g[s] = f[x] + g[s \ {x}]
<1> DEFINE P(n) == \A s \in Small(S, n) : \A x \in s : g[s] = f[x] + g[s \ {x}]
           T == {n \in Nat : P(n)}
<1>1. P(0)
  <2>1. \A s \in Small(S, 0) : s = {}
    BY NextElement DEF Small
  <2>2. QED BY <2>1
<1>2. ASSUME NEW n \in Nat, P(n) PROVE P(n + 1)
  <2> SUFFICES ASSUME NEW s \in Small(S, n + 1), NEW x \in s PROVE g[s] = f[x] + g[s \ {x}]
    OBVIOUS
  <2>1. s \in SUBSET S /\ Cardinality(s) <= n + 1 /\ s # {}
    BY DEF Small
  <2> DEFINE y == Next1(s)
  <2>2. /\ y \in s /\ Cardinality(s) \in Nat
        /\ Cardinality(s \ {y}) = Cardinality(s) - 1 /\ Cardinality(s \ {x}) = Cardinality(s) - 1
    BY <2>1, NextElement
  <2>3. g[s] = f[y] + g[s \ {y}]
    BY <2>1 DEF Sums
  <2> HIDE DEF y
  <2>4. CASE x = y
    BY <2>3, <2>4
  <2>5. CASE x # y
    <3>1. s \ {y} \in Small(S, n) /\ s \ {x} \in Small(S, n)
      BY <2>1, <2>2 DEF Small
    <3>2. x \in s \ {y} /\ y \in s \ {x}
      BY <2>2, <2>5
    <3>3. g[s \ {y}] = f[x] + g[(s \ {y}) \ {x}] /\ g[s \ {x}] = f[y] + g[(s \ {x}) \ {y}]
      BY <1>2, <3>1, <3>2
    <3>4. (s \ {y}) \ {x} = (s \ {x}) \ {y} /\ (s \ {y}) \ {x} \in SUBSET S
      BY <2>1
    <3> DEFINE rest == (s \ {y}) \ {x}
    <3>5. g[rest] \in Int /\ f[x] \in Int /\ f[y] \in Int
      BY <2>1, <2>2, <3>4
    <3>6. g[s] = f[y] + (f[x] + g[rest]) /\ g[s \ {x}] = f[y] + g[rest]
      BY <2>3, <3>3, <3>4
    <3> HIDE DEF rest
    <3>7. QED BY <3>5, <3>6
  <2>6. QED BY <2>4, <2>5
<1> HIDE DEF P
<1>3. Nat \subseteq T
  <2>1. 0 \in T /\ \A n \in Nat : n \in T => n + 1 \in T
    BY <1>1, <1>2
  <2> HIDE DEF T
  <2>2. QED BY <2>1, SetInduction
<1>4. Cardinality(S) \in Nat /\ Small(S, Cardinality(S)) = SUBSET S
  BY FS_CardinalityType, FS_Subset DEF Small
<1>5. P(Cardinality(S))
  BY <1>3, <1>4
<1>6. QED BY <1>4, <1>5 DEF P

LEMMA SumEmpty == \A f : SumFunctionOnSet(f, {}) = 0
<1> SUFFICES ASSUME NEW f PROVE SumFunctionOnSet(f, {}) = 0
  OBVIOUS
<1>1. IsFiniteSet({})
  BY FS_EmptySet
<1>2. PICK g \in [SUBSET {} -> Int] : Sums(g, f, SUBSET {})
  BY <1>1, SumsExist
<1>3. QED BY <1>1, <1>2, SumIsSums DEF Sums

LEMMA SumRemove ==
  ASSUME NEW S, IsFiniteSet(S), NEW f, \A x \in S : f[x] \in Int
  PROVE  /\ SumFunctionOnSet(f, S) \in Int
         /\ \A x \in S : SumFunctionOnSet(f, S) = f[x] + SumFunctionOnSet(f, S \ {x})
<1>1. PICK g \in [SUBSET S -> Int] : Sums(g, f, SUBSET S)
  BY SumsExist
<1>2. SumFunctionOnSet(f, S) = g[S]
  BY <1>1, SumIsSums
<1>3. ASSUME NEW x \in S PROVE SumFunctionOnSet(f, S \ {x}) = g[S \ {x}]
  <2> DEFINE T == S \ {x}
             h == [s \in SUBSET T |-> g[s]]
  <2>1. IsFiniteSet(T) /\ T \in SUBSET S
    BY FS_Subset
  <2>2. h \in [SUBSET T -> Int]
    OBVIOUS
  <2>3. Sums(h, f, SUBSET T)
    <3>1. ASSUME NEW s \in SUBSET T
          PROVE  h[s] = IF s = {} THEN 0 ELSE f[Next1(s)] + h[s \ {Next1(s)}]
      <4>1. s \in SUBSET S /\ h[s] = g[s] /\ h[s \ {Next1(s)}] = g[s \ {Next1(s)}]
        OBVIOUS
      <4>2. QED BY <1>1, <4>1 DEF Sums
    <3>2. QED BY <3>1 DEF Sums
  <2> HIDE DEF T, h
  <2>4. SumFunctionOnSet(f, T) = h[T]
    BY <2>1, <2>2, <2>3, SumIsSums
  <2>5. QED BY <2>4 DEF T, h
<1>4. \A x \in S : g[S] = f[x] + g[S \ {x}]
  BY <1>1, SumsRemove
<1>5. QED BY <1>2, <1>3, <1>4

LEMMA SumAdd ==
  ASSUME NEW S, IsFiniteSet(S), NEW f, \A x \in S : f[x] \in Int, NEW y, f[y] \in Int, y \notin S
  PROVE  SumFunctionOnSet(f, S \cup {y}) = f[y] + SumFunctionOnSet(f, S)
<1>1. IsFiniteSet(S \cup {y})
  BY FS_AddElement
<1>2. (S \cup {y}) \ {y} = S
  OBVIOUS
<1>3. QED BY <1>1, <1>2, SumRemove

\* The image of an interval is finite.
LEMMA ImageFinite ==
  ASSUME NEW f, NEW a \in Int, NEW b \in Int
  PROVE  IsFiniteSet({f[j] : j \in a..b})
<1> DEFINE T == {f[j] : j \in a..b}
           g == [j \in a..b |-> f[j]]
<1>1. IsFiniteSet(a..b)
  BY FS_Interval
<1>2. g \in Surjection(a..b, T)
  BY DEF Surjection
<1>3. QED BY <1>1, <1>2, FS_Surjection

-----------------------------------------------------------------------------
(* Sets of orders.                                                         *)

UniqueUid(S) == \A p, q \in S : p.uid = q.uid => p = q

SideOf(S, direction) == {o \in S : o.direction = direction}
Ours(S) == {o \in S : o.type = MyContract}

\* S when v of the volume of its order o is traded.
LeftOf(o, v) == [o EXCEPT !.volume = @ - v]
Reduced(S, o, v) == IF v = o.volume THEN S \ {o} ELSE (S \ {o}) \cup {LeftOf(o, v)}

\* What v shares bought or sold change in a position.
Signed(direction, v) == IF direction = Buy THEN v ELSE -v

\* What is left of an order is the same order with less volume.
LEMMA LeftOrder ==
  ASSUME NEW o \in Order, NEW v \in Nat, v <= o.volume
  PROVE  /\ LeftOf(o, v) \in Order /\ LeftOf(o, v).volume = o.volume - v
         /\ LeftOf(o, v).uid = o.uid /\ LeftOf(o, v).type = o.type
         /\ LeftOf(o, v).direction = o.direction
BY DEF Order, LeftOf

\* What an order adds to the sums.
LEMMA OrderTerms ==
  ASSUME NEW o \in Order
  PROVE  /\ VolumeOf[o] = o.volume /\ PositionOf[o] = Signed(o.direction, o.volume)
         /\ VolumeOf[o] \in Int /\ PositionOf[o] \in Int
BY DEF VolumeOf, PositionOf, Signed, Order

LEMMA TotalsType ==
  ASSUME NEW S \in SUBSET Order, IsFiniteSet(S)
  PROVE  TotalVolume(S) \in Int /\ TotalPosition(S) \in Int
BY OrderTerms, SumRemove DEF TotalVolume, TotalPosition

LEMMA TotalsAdd ==
  ASSUME NEW S \in SUBSET Order, IsFiniteSet(S), NEW o \in Order, o \notin S
  PROVE  /\ TotalVolume(S \cup {o}) = TotalVolume(S) + o.volume
         /\ TotalPosition(S \cup {o}) = TotalPosition(S) + Signed(o.direction, o.volume)
<1>1. /\ TotalVolume(S \cup {o}) = VolumeOf[o] + TotalVolume(S)
      /\ TotalPosition(S \cup {o}) = PositionOf[o] + TotalPosition(S)
  BY OrderTerms, SumAdd DEF TotalVolume, TotalPosition
<1>2. QED BY <1>1, OrderTerms, TotalsType

LEMMA TotalsRemove ==
  ASSUME NEW S \in SUBSET Order, IsFiniteSet(S), NEW o \in S
  PROVE  /\ TotalVolume(S \ {o}) = TotalVolume(S) - o.volume
         /\ TotalPosition(S \ {o}) = TotalPosition(S) - Signed(o.direction, o.volume)
<1>1. /\ TotalVolume(S) = VolumeOf[o] + TotalVolume(S \ {o})
      /\ TotalPosition(S) = PositionOf[o] + TotalPosition(S \ {o})
  BY OrderTerms, SumRemove DEF TotalVolume, TotalPosition
<1>2. IsFiniteSet(S \ {o}) /\ S \ {o} \in SUBSET Order /\ o \in Order
  BY FS_RemoveElement
<1>3. TotalVolume(S \ {o}) \in Int /\ TotalPosition(S \ {o}) \in Int
  BY <1>2, TotalsType
<1>4. QED BY <1>1, <1>2, <1>3, OrderTerms

\* A trade takes its volume from the total of the set it trades in.
LEMMA TotalsReduced ==
  ASSUME NEW S \in SUBSET Order, IsFiniteSet(S), UniqueUid(S),
         NEW o \in S, NEW v \in Nat, v <= o.volume
  PROVE  /\ TotalVolume(Reduced(S, o, v)) = TotalVolume(S) - v
         /\ TotalPosition(Reduced(S, o, v)) = TotalPosition(S) - Signed(o.direction, v)
<1> DEFINE rest == S \ {o}
           left == LeftOf(o, v)
<1>1. o \in Order /\ o.volume \in Nat
  BY OrderFields
<1>2. /\ TotalVolume(rest) = TotalVolume(S) - o.volume
      /\ TotalPosition(rest) = TotalPosition(S) - Signed(o.direction, o.volume)
  BY TotalsRemove
<1>3. IsFiniteSet(rest) /\ rest \in SUBSET Order
  BY FS_RemoveElement
<1>4. CASE v = o.volume
  BY <1>2, <1>4 DEF Reduced
<1>5. CASE v # o.volume
  <2>1. /\ left \in Order /\ left.volume = o.volume - v /\ left.uid = o.uid
        /\ left.direction = o.direction
    BY <1>1, LeftOrder
  <2>2. left \notin rest
    BY <2>1 DEF UniqueUid
  <2>3. Reduced(S, o, v) = rest \cup {left}
    BY <1>5 DEF Reduced
  <2> HIDE DEF rest, left
  <2>4. /\ TotalVolume(rest \cup {left}) = TotalVolume(rest) + (o.volume - v)
        /\ TotalPosition(rest \cup {left}) =
             TotalPosition(rest) + Signed(o.direction, o.volume - v)
    BY <1>3, <2>1, <2>2, TotalsAdd
  <2>5. TotalVolume(S) \in Int /\ TotalPosition(S) \in Int
    BY TotalsType
  <2>6. QED BY <1>1, <1>2, <2>3, <2>4, <2>5 DEF Signed
<1>6. QED BY <1>4, <1>5

\* The set stays one of orders that their uid names.
LEMMA ReducedType ==
  ASSUME NEW S \in SUBSET Order, IsFiniteSet(S), UniqueUid(S),
         NEW o \in S, NEW v \in Nat, v <= o.volume
  PROVE  /\ Reduced(S, o, v) \in SUBSET Order /\ IsFiniteSet(Reduced(S, o, v))
         /\ UniqueUid(Reduced(S, o, v))
         /\ \A x \in Reduced(S, o, v) : \E y \in S : y.uid = x.uid
<1> DEFINE left == LeftOf(o, v)
<1>1. left \in Order /\ left.uid = o.uid
  BY LeftOrder
<1>2. IsFiniteSet(S \ {o}) /\ IsFiniteSet((S \ {o}) \cup {left})
  BY FS_RemoveElement, FS_AddElement
<1> HIDE DEF left
<1>3. Reduced(S, o, v) = S \ {o} \/ Reduced(S, o, v) = (S \ {o}) \cup {left}
  BY DEF Reduced, left
<1>4. QED BY <1>1, <1>2, <1>3 DEF UniqueUid

\* Reducing a set reduces each part of it that has the order.
LEMMA PartsReduced ==
  ASSUME NEW S \in SUBSET Order, NEW o \in S, NEW v \in Nat, v <= o.volume
  PROVE  /\ \A direction : SideOf(Reduced(S, o, v), direction) =
               IF o.direction = direction THEN Reduced(SideOf(S, direction), o, v)
                                          ELSE SideOf(S, direction)
         /\ Ours(Reduced(S, o, v)) =
               IF o.type = MyContract THEN Reduced(Ours(S), o, v) ELSE Ours(S)
<1> DEFINE left == LeftOf(o, v)
<1>1. left.direction = o.direction /\ left.type = o.type
  BY LeftOrder
<1> HIDE DEF left
<1>2. \A T : Reduced(T, o, v) = IF v = o.volume THEN T \ {o} ELSE (T \ {o}) \cup {left}
  BY DEF Reduced, left
<1>3. QED BY <1>1, <1>2 DEF SideOf, Ours

\* Any part of it is as well formed as the set.
LEMMA PartType ==
  ASSUME NEW S \in SUBSET Order, IsFiniteSet(S), UniqueUid(S), NEW T \in SUBSET S
  PROVE  T \in SUBSET Order /\ IsFiniteSet(T) /\ UniqueUid(T)
BY FS_Subset DEF UniqueUid

\* What a trade with one order takes from a side and from our position.
LEMMA PartsTraded ==
  ASSUME NEW S \in SUBSET Order, IsFiniteSet(S), UniqueUid(S),
         NEW o \in S, NEW v \in Nat, v <= o.volume
  PROVE  /\ \A direction : TotalVolume(SideOf(Reduced(S, o, v), direction)) =
              TotalVolume(SideOf(S, direction)) - (IF o.direction = direction THEN v ELSE 0)
         /\ TotalPosition(Ours(Reduced(S, o, v))) = TotalPosition(Ours(S))
              - (IF o.type = MyContract THEN Signed(o.direction, v) ELSE 0)
         /\ \A direction : TotalVolume(SideOf(S, direction)) \in Int
         /\ TotalPosition(Ours(S)) \in Int
<1>1. ASSUME NEW direction
      PROVE  /\ TotalVolume(SideOf(Reduced(S, o, v), direction)) =
                  TotalVolume(SideOf(S, direction))
                    - (IF o.direction = direction THEN v ELSE 0)
             /\ TotalVolume(SideOf(S, direction)) \in Int
  <2> DEFINE T == SideOf(S, direction)
  <2>1. T \in SUBSET Order /\ IsFiniteSet(T) /\ UniqueUid(T)
    <3>1. T \in SUBSET S
      BY DEF SideOf
    <3> HIDE DEF T
    <3>2. QED BY <3>1, PartType
  <2>2. TotalVolume(T) \in Int
    BY <2>1, TotalsType
  <2>3. CASE o.direction = direction
    <3>1. o \in T
      BY <2>3 DEF SideOf
    <3>2. SideOf(Reduced(S, o, v), direction) = Reduced(T, o, v)
      BY <2>3, PartsReduced
    <3> HIDE DEF T
    <3>3. TotalVolume(Reduced(T, o, v)) = TotalVolume(T) - v
      BY <2>1, <3>1, TotalsReduced
    <3>4. QED BY <2>2, <2>3, <3>2, <3>3 DEF T
  <2>4. CASE o.direction # direction
    BY <2>2, <2>4, PartsReduced
  <2>5. QED BY <2>2, <2>3, <2>4
<1>2. /\ TotalPosition(Ours(Reduced(S, o, v))) = TotalPosition(Ours(S))
           - (IF o.type = MyContract THEN Signed(o.direction, v) ELSE 0)
      /\ TotalPosition(Ours(S)) \in Int
  <2> DEFINE T == Ours(S)
  <2>1. T \in SUBSET Order /\ IsFiniteSet(T) /\ UniqueUid(T)
    <3>1. T \in SUBSET S
      BY DEF Ours
    <3> HIDE DEF T
    <3>2. QED BY <3>1, PartType
  <2>2. TotalPosition(T) \in Int
    BY <2>1, TotalsType
  <2>3. CASE o.type = MyContract
    <3>1. o \in T /\ Ours(Reduced(S, o, v)) = Reduced(T, o, v)
      BY <2>3, PartsReduced DEF Ours
    <3> HIDE DEF T
    <3>2. TotalPosition(Reduced(T, o, v)) = TotalPosition(T) - Signed(o.direction, v)
      BY <2>1, <3>1, TotalsReduced
    <3>3. QED BY <2>2, <2>3, <3>1, <3>2 DEF T
  <2>4. CASE o.type # MyContract
    BY <2>2, <2>4, PartsReduced
  <2>5. QED BY <2>2, <2>3, <2>4
<1>3. QED BY <1>1, <1>2

-----------------------------------------------------------------------------
(* The orders at rest.                                                     *)

All(h) == h[Sale] \cup h[Buy]

\* In the book, or collected by AllOrNothing.
AtRest == All(heap) \cup Collected

\* An order of the queue is not in the book, and is in the queue once.
Apart ==
  \A i \in DOMAIN pending :
    /\ pending[i] \notin All(heap)
    /\ \A j \in DOMAIN pending : pending[i] = pending[j] => i = j

\* A uid names one order: the slices count down from -1, the logs up from 1, and
\* the order in hand is the last of them and not yet at rest.
OrdersInv ==
  /\ order.type \in LogTypes
  /\ \A j \in DOMAIN twapOrders : twapOrders[j].uid = -j /\ twapOrders[j].type = MyContract
  /\ IsFiniteSet(AtRest) /\ UniqueUid(AtRest)
  /\ \A o \in AtRest : /\ -twapHead <= o.uid /\ o.uid <= logs
                       /\ InHand => o.uid < logs
  /\ InHand => order.uid = logs
  /\ Apart

LEMMA CollectedType ==
  ASSUME TypeInv
  PROVE  Collected \in SUBSET Order
BY DEF TypeInv, TypeOK, Collected

LEMMA RestSides ==
  ASSUME TypeInv
  PROVE  /\ AtRest \in SUBSET Order
         /\ \A direction \in Directions : Resting(direction) = SideOf(AtRest, direction)
         /\ OursAtWork = Ours(AtRest)
         /\ pending = <<>> => AtRest = All(heap)
<1>1. heap \in Book /\ Collected \in SUBSET Order
  BY CollectedType DEF TypeInv, TypeOK
<1>2. \A direction \in Directions : \A o \in heap[direction] :
        o \in Order /\ o.direction = direction
  BY <1>1 DEF Book
<1>3. \A o \in Collected : o.direction \in Directions
  BY <1>1, OrderFields
<1>4. AtRest \in SUBSET Order
  BY <1>1, <1>2 DEF AtRest, All, Directions
<1>5. Sale # Buy /\ Directions = {Sale, Buy}
  BY DEF Sale, Buy, Directions
<1>6. ASSUME NEW direction \in Directions PROVE Resting(direction) = SideOf(AtRest, direction)
  BY <1>2, <1>5 DEF Resting, SideOf, AtRest, All
<1>7. AtRest = Resting(Sale) \cup Resting(Buy)
  BY <1>3, <1>5 DEF AtRest, All, Resting
<1>8. pending = <<>> => Collected = {}
  BY DEF Collected
<1>9. QED BY <1>4, <1>6, <1>7, <1>8 DEF OursAtWork, Ours, AtRest

\* What the operators on the book do to its orders.
LEMMA AllWith ==
  ASSUME NEW h \in Book, NEW x \in Order
  PROVE  All(WithOrder(h, x)) = All(h) \cup {x}
<1>1. /\ WithOrder(h, x)[Sale] = IF Sale = x.direction THEN h[Sale] \cup {x} ELSE h[Sale]
      /\ WithOrder(h, x)[Buy] = IF Buy = x.direction THEN h[Buy] \cup {x} ELSE h[Buy]
  BY WithOrderFrom DEF Directions
<1>2. x.direction = Sale \/ x.direction = Buy
  BY OrderFields DEF Directions
<1>3. QED BY <1>1, <1>2 DEF All

LEMMA AllTaken ==
  ASSUME NEW h \in Book, NEW o \in Order, o \in h[o.direction], NEW v
  PROVE  All(Taken(h, o, v)) = Reduced(All(h), o, v)
<1>1. o.direction \in Directions /\ Sale # Buy /\ Directions = {Sale, Buy}
  BY OrderFields DEF Directions, Sale, Buy
<1>2. DOMAIN h = Directions
      /\ \A direction \in Directions : \A p \in h[direction] : p.direction = direction
  BY DEF Book
<1> DEFINE left == LeftOf(o, v)
           t == Taken(h, o, v)
<1>3. \A direction \in Directions : t[direction] =
        IF direction # o.direction THEN h[direction]
        ELSE IF v = o.volume THEN h[direction] \ {o} ELSE (h[direction] \ {o}) \cup {left}
  BY <1>1, <1>2 DEF Taken, LeftOf
<1>4. Reduced(All(h), o, v) = IF v = o.volume THEN All(h) \ {o} ELSE (All(h) \ {o}) \cup {left}
  BY DEF Reduced
<1> HIDE DEF left, t
<1>5. CASE o.direction = Sale
  <2>1. o \notin h[Buy]
    BY <1>1, <1>2, <1>5
  <2>2. QED BY <1>1, <1>3, <1>4, <1>5, <2>1 DEF All, t
<1>6. CASE o.direction = Buy
  <2>1. o \notin h[Sale]
    BY <1>1, <1>2, <1>6
  <2>2. QED BY <1>1, <1>3, <1>4, <1>6, <2>1 DEF All, t
<1>7. QED BY <1>1, <1>5, <1>6

\* An order put into the book is one order more at rest.
LEMMA PlacedRest ==
  ASSUME TypeInv, NEW x \in Order, heap' = WithOrder(heap, x), pending' = pending
  PROVE  AtRest' = AtRest \cup {x}
BY AllWith DEF TypeInv, TypeOK, AtRest, Collected

\* Orders move between the book and the queue.
LEMMA QueueRest ==
  ASSUME TypeInv, TypeInv', Collect \/ Cancel
  PROVE  AtRest' = AtRest
<1>1. \A direction \in Directions : Resting(direction)' = Resting(direction)
  BY CollectRests, CancelRests
<1>2. Sale \in Directions /\ Buy \in Directions
  BY DEF Directions
<1>3. AtRest = Resting(Sale) \cup Resting(Buy)
  <2>1. \A o \in Collected : o.direction \in Directions
    BY CollectedType, OrderFields
  <2>2. QED BY <2>1 DEF AtRest, All, Resting, Directions
<1>4. (AtRest = Resting(Sale) \cup Resting(Buy))'
  <2>1. \A o \in Collected' : o.direction \in Directions
    <3>1. Collected' \in SUBSET Order
      <4>1. pending' \in Seq(Order)
        BY DEF TypeInv, TypeOK
      <4>2. QED BY <4>1 DEF Collected
    <3>2. QED BY <3>1, OrderFields
  <2>2. QED BY <2>1 DEF AtRest, All, Resting, Directions
<1>5. QED BY <1>1, <1>2, <1>3, <1>4

\* The matching loop trades one order of each side.
LEMMA MatchRest ==
  ASSUME TypeInv, pc = "match", pending' = pending, NEW sale \in Tops(Sale), NEW buy \in Tops(Buy),
         NEW v, v = TradeVolume(sale, buy),
         heap' = Taken(Taken(heap, sale, v), buy, v)
  PROVE  /\ v \in Nat /\ v <= sale.volume /\ v <= buy.volume
         /\ sale.direction = Sale /\ buy.direction = Buy
         /\ sale \in AtRest /\ buy \in Reduced(AtRest, sale, v)
         /\ AtRest' = Reduced(Reduced(AtRest, sale, v), buy, v)
<1>1. heap \in Book /\ pending = <<>> /\ Sale # Buy /\ Sale \in Directions /\ Buy \in Directions
  BY DEF TypeInv, TypeOK, PendingOnlyInAon, Sale, Buy, Directions
<1>2. /\ sale \in Order /\ sale.direction = Sale /\ sale \in heap[Sale]
      /\ buy \in Order /\ buy.direction = Buy /\ buy \in heap[Buy]
  BY <1>1, TopsType
<1>3. v \in Nat /\ v <= sale.volume /\ v <= buy.volume
  BY <1>2, LesserVolume DEF TradeVolume
<1> DEFINE h == Taken(heap, sale, v)
<1>4. h \in Book /\ h[Buy] = heap[Buy]
  BY <1>1, <1>2, <1>3, TakenType, TakenSide
<1>5. All(h) = Reduced(All(heap), sale, v)
  BY <1>1, <1>2, AllTaken
<1>6. All(Taken(h, buy, v)) = Reduced(All(h), buy, v)
  <2> HIDE DEF h
  <2>1. QED BY <1>2, <1>4, AllTaken
<1>7. AtRest = All(heap) /\ AtRest' = All(Taken(h, buy, v))
  BY <1>1 DEF AtRest, Collected
<1>8. buy \in All(h)
  BY <1>2, <1>4 DEF All
<1>9. QED BY <1>2, <1>3, <1>5, <1>6, <1>7, <1>8 DEF All

\* A sweep trades the order in hand with one at rest,
LEMMA SweepRest ==
  ASSUME TypeInv, pc = "sweep", pending' = pending, NEW top \in Tops(Opposite(order.direction)),
         NEW v, v = Lesser(order.volume, top.volume), heap' = Taken(heap, top, v)
  PROVE  /\ v \in Nat /\ v <= order.volume /\ v <= top.volume
         /\ top.direction = Opposite(order.direction) /\ top \in AtRest
         /\ AtRest' = Reduced(AtRest, top, v)
<1>1. heap \in Book /\ pending = <<>> /\ order \in Order
  BY DEF TypeInv, TypeOK, PendingOnlyInAon
<1>2. Opposite(order.direction) \in Directions
  BY <1>1, OrderFields
<1>3. /\ top \in Order /\ top.direction = Opposite(order.direction)
      /\ top \in heap[top.direction]
  BY <1>1, <1>2, TopsType
<1>4. v \in Nat /\ v <= order.volume /\ v <= top.volume
  BY <1>1, <1>3, LesserVolume
<1>5. All(heap') = Reduced(All(heap), top, v)
  BY <1>1, <1>3, AllTaken
<1>6. AtRest = All(heap) /\ AtRest' = All(heap')
  BY <1>1 DEF AtRest, Collected, All
<1>7. top \in All(heap)
  BY <1>2, <1>3 DEF All, Directions
<1>8. QED BY <1>3, <1>4, <1>5, <1>6, <1>7

\* and so does the fill of AllOrNothing.
LEMMA FillRest ==
  ASSUME TypeInv, OrdersInv, pending # <<>>, pending' = Tail(pending),
         NEW top, top = Head(pending), NEW v, v = Lesser(order.volume, top.volume),
         heap' = IF top.volume = v THEN heap
                 ELSE WithOrder(heap, [top EXCEPT !.volume = @ - v])
  PROVE  /\ v \in Nat /\ v <= order.volume /\ v <= top.volume
         /\ top.direction = Opposite(order.direction) /\ top \in AtRest
         /\ AtRest' = Reduced(AtRest, top, v)
         /\ Collected' \subseteq AtRest \ {top}
<1>1. heap \in Book /\ pending \in Seq(Order) /\ order \in Order
  BY DEF TypeInv, TypeOK
<1>2. /\ top = pending[1] /\ 1 \in DOMAIN pending /\ top \in Order
      /\ \A i \in DOMAIN pending' :
           i + 1 \in DOMAIN pending /\ pending'[i] = pending[i + 1] /\ i + 1 # 1
  <2>1. \A i \in DOMAIN Tail(pending) : i \in Nat \ {0}
    BY <1>1
  <2>2. QED BY <1>1, <2>1, TailOfPending
<1>3. top.direction = Opposite(order.direction)
  BY <1>2 DEF TypeInv, TypeOK
<1>4. v \in Nat /\ v <= order.volume /\ v <= top.volume
  BY <1>1, <1>2, LesserVolume
<1>5. Collected = Collected' \cup {top}
  BY QueueSplit
<1>6. top \notin All(heap) /\ top \notin Collected'
  <2>1. top \notin All(heap)
    BY <1>2 DEF OrdersInv, Apart
  <2>2. ASSUME top \in Collected' PROVE FALSE
    <3>1. PICK i \in DOMAIN pending' : pending'[i] = top
      BY <2>2 DEF Collected
    <3>2. QED BY <1>2, <3>1 DEF OrdersInv, Apart
  <2>3. QED BY <2>1, <2>2
<1>7. CASE top.volume = v
  BY <1>2, <1>3, <1>4, <1>5, <1>6, <1>7 DEF AtRest, Reduced
<1>8. CASE top.volume # v
  <2>1. LeftOf(top, v) \in Order /\ heap' = WithOrder(heap, LeftOf(top, v))
    BY <1>2, <1>4, <1>8, LeftOrder DEF LeftOf
  <2>2. All(heap') = All(heap) \cup {LeftOf(top, v)}
    BY <1>1, <2>1, AllWith
  <2>3. All(heap)' = All(heap')
    BY DEF All
  <2>4. QED BY <1>2, <1>3, <1>4, <1>5, <1>6, <1>8, <2>2, <2>3 DEF AtRest, Reduced
<1>9. QED BY <1>7, <1>8

\* What a step must respect for uids to go on naming the orders.
LEMMA OrdersGoOn ==
  ASSUME TypeInv, OrdersInv,
         IsFiniteSet(AtRest'), UniqueUid(AtRest)',
         \A x \in AtRest' : \E y \in AtRest : y.uid = x.uid,
         order'.type \in LogTypes, twapOrders' = twapOrders, twapHead' = twapHead,
         logs' = logs, InHand' => InHand /\ order'.uid = order.uid, Apart'
  PROVE  OrdersInv'
BY DEF OrdersInv

\* A step that touches neither the book nor the queue.
LEMMA OrdersSame ==
  ASSUME TypeInv, OrdersInv, heap' = heap, pending' = pending,
         order'.type \in LogTypes, twapOrders' = twapOrders, twapHead' = twapHead,
         logs' = logs, InHand' => InHand /\ order'.uid = order.uid
  PROVE  OrdersInv'
<1>1. AtRest' = AtRest /\ (Apart <=> Apart')
  BY DEF AtRest, All, Collected, Apart
<1>2. IsFiniteSet(AtRest') /\ UniqueUid(AtRest)'
  BY <1>1 DEF OrdersInv, UniqueUid
<1>3. QED BY <1>1, <1>2, OrdersGoOn DEF OrdersInv

\* An order joins the book under a uid of its own.
LEMMA OrdersPlaced ==
  ASSUME TypeInv, OrdersInv, NEW x \in Order, heap' = WithOrder(heap, x), pending = <<>>,
         pending' = pending, order'.type \in LogTypes,
         \A o \in AtRest : o.uid # x.uid,
         -twapHead' <= x.uid, x.uid <= logs, twapHead' \in Nat, twapHead' >= twapHead,
         InHand' => InHand /\ order'.uid = order.uid /\ x.uid < logs,
         Len(twapOrders') = Len(twapOrders),
         \A j \in DOMAIN twapOrders' :
            j \in DOMAIN twapOrders /\ twapOrders'[j].uid = twapOrders[j].uid
              /\ twapOrders'[j].type = twapOrders[j].type,
         logs' = logs
  PROVE  OrdersInv'
<1>1. AtRest' = AtRest \cup {x} /\ AtRest \in SUBSET Order
  BY PlacedRest, RestSides
<1>2. IsFiniteSet(AtRest')
  BY <1>1, FS_AddElement DEF OrdersInv
<1>3. UniqueUid(AtRest)'
  BY <1>1 DEF OrdersInv, UniqueUid
<1>4. Apart'
  BY DEF Apart
<1>5. \A o \in AtRest' : /\ -twapHead' <= o.uid /\ o.uid <= logs'
                         /\ InHand' => o.uid < logs'
  <2>1. \A o \in AtRest : o.uid \in Int
    BY <1>1 DEF Order
  <2>2. twapHead \in Nat /\ logs \in Nat
    BY DEF TypeInv, TypeOK
  <2>3. QED BY <1>1, <2>1, <2>2 DEF OrdersInv
<1>6. QED BY <1>2, <1>3, <1>4, <1>5 DEF OrdersInv

LEMMA OrdersInit == Init => OrdersInv
<1> SUFFICES ASSUME Init PROVE OrdersInv
  OBVIOUS
<1>1. AtRest = {}
  BY DEF Init, AtRest, All, Collected, Directions
<1>2. QED BY <1>1, FS_EmptySet DEF Init, OrdersInv, UniqueUid, Apart, InHand, NoOrder,
             LogTypes, PriceLimit, AllOrNothing

LEMMA NoOrderIsLog == NoOrder.type \in LogTypes
BY DEF NoOrder, LogTypes, PriceLimit, AllOrNothing

LEMMA OrdersStep == TypeInv /\ TypeInv' /\ OrdersInv /\ [Next]_vars => OrdersInv'
<1> SUFFICES ASSUME TypeInv, TypeInv', OrdersInv, [Next]_vars PROVE OrdersInv'
  OBVIOUS
<1>a. /\ heap \in Book /\ order \in Order /\ pending \in Seq(Order) /\ logs \in Nat
      /\ twapOrders \in Seq(Order) /\ twapHead \in 0..Len(twapOrders)
      /\ (pc \notin {"collect", "fill", "cancel"} => pending = <<>>)
  BY DEF TypeInv, TypeOK, PendingOnlyInAon
<1>b. AtRest \in SUBSET Order /\ IsFiniteSet(AtRest) /\ UniqueUid(AtRest)
  BY RestSides DEF OrdersInv
<1>1. CASE InsertAlpha
  <2>1. PICK timestamp \in AlphaTimes, target \in Targets :
          twapOrders' = IF target = targetVolume THEN twapOrders
                        ELSE twapOrders \o Slices(timestamp, target - targetVolume)
    BY <1>1 DEF InsertAlpha
  <2>2. /\ heap' = heap /\ pending' = pending /\ order' = order /\ twapHead' = twapHead
        /\ logs' = logs /\ pc' = pc /\ resume' = resume
    BY <1>1 DEF InsertAlpha, aon, money
  <2>3. AtRest' = AtRest /\ (Apart <=> Apart') /\ (InHand <=> InHand')
    BY <2>2 DEF AtRest, All, Collected, Apart, InHand
  <2>4. \A j \in DOMAIN twapOrders' : twapOrders'[j].uid = -j /\ twapOrders'[j].type = MyContract
    <3>1. CASE target = targetVolume
      BY <2>1, <3>1 DEF OrdersInv
    <3>2. CASE target # targetVolume
      <4> DEFINE new == Slices(timestamp, target - targetVolume)
                 n == Len(twapOrders)
      <4>1. \A k \in 1..sessionNum : new[k].uid = -(n + k) /\ new[k].type = MyContract
        BY DEF Slices
      <4>2. new \in Seq(Order) /\ Len(new) = sessionNum
        <5>1. timestamp \in Int /\ target - targetVolume \in Int
          BY DataAssumption DEF TypeInv, TypeOK
        <5>2. DOMAIN new = 1..sessionNum /\ sessionNum \in Nat
          BY SessionAssumption DEF Slices
        <5>3. new \in Seq(Order)
          BY <1>a, <5>1, SlicesType
        <5> HIDE DEF new
        <5>4. QED BY <5>2, <5>3
      <4> HIDE DEF new
      <4>3. twapOrders' = twapOrders \o new
        BY <2>1, <3>2 DEF new
      <4>4. \A j \in DOMAIN twapOrders' :
              IF j <= n THEN j \in DOMAIN twapOrders /\ twapOrders'[j] = twapOrders[j]
              ELSE j - n \in 1..sessionNum /\ twapOrders'[j] = new[j - n]
        BY <1>a, <4>2, <4>3
      <4>5. n \in Nat /\ \A j \in DOMAIN twapOrders' : j \in Nat
        BY <1>a, <4>2, <4>3
      <4>6. ASSUME NEW j \in DOMAIN twapOrders'
            PROVE  twapOrders'[j].uid = -j /\ twapOrders'[j].type = MyContract
        <5>1. CASE j <= n
          BY <4>4, <5>1 DEF OrdersInv
        <5>2. CASE ~(j <= n)
          <6>1. -(n + (j - n)) = -j
            BY <4>5
          <6>2. QED BY <4>1, <4>4, <5>2, <6>1
        <5>3. QED BY <5>1, <5>2
      <4>7. QED BY <4>6
    <3>3. QED BY <3>1, <3>2
  <2>5. IsFiniteSet(AtRest') /\ UniqueUid(AtRest)'
    BY <1>b, <2>3 DEF UniqueUid
  <2>6. QED BY <2>2, <2>3, <2>4, <2>5 DEF OrdersInv
<1>2. CASE InsertOrderLog
  <2>1. /\ heap' = heap /\ pending' = pending /\ logs' = logs + 1 /\ pc = "idle"
        /\ twapOrders' = twapOrders /\ twapHead' = twapHead
        /\ order'.uid = logs' /\ order'.type \in LogTypes
    BY <1>2, DataAssumption DEF InsertOrderLog, twap, aon
  <2>2. AtRest' = AtRest /\ (Apart <=> Apart')
    BY <2>1 DEF AtRest, All, Collected, Apart
  <2>3. IsFiniteSet(AtRest') /\ UniqueUid(AtRest)'
    BY <1>b, <2>2 DEF UniqueUid
  <2>4. \A o \in AtRest : o.uid \in Int
    BY <1>b DEF Order
  <2>5. QED BY <1>a, <2>1, <2>2, <2>3, <2>4 DEF OrdersInv
<1>3. CASE OnComplete
  BY <1>3, OrdersSame DEF OnComplete, OrdersInv, InHand, aon, twap, input
<1>4. CASE ProcessTwapOrder
  <2> DEFINE next == twapOrders[twapHead + 1]
  <2>0. twapHead + 1 \in DOMAIN twapOrders /\ next \in Order
    BY <1>a, <1>4 DEF ProcessTwapOrder, TwapDue
  <2>1. PICK basePrice \in BasePrice(next.direction) :
          LET slice == [next EXCEPT !.price = basePrice]
          IN  /\ twapOrders' = [twapOrders EXCEPT ![twapHead + 1] = slice]
              /\ heap' = IF slice.volume = 0 THEN heap ELSE WithOrder(heap, slice)
    BY <1>4 DEF ProcessTwapOrder
  <2> DEFINE slice == [next EXCEPT !.price = basePrice]
  <2>2. slice \in Order /\ slice.uid = next.uid /\ slice.type = next.type
    <3>1. basePrice \in Int
      <4>1. next.direction \in Directions /\ lastPrice \in Int
        BY <2>0, OrderFields DEF TypeInv, TypeOK
      <4>2. QED BY <1>a, <4>1, BasePriceType
    <3> HIDE DEF next
    <3>2. QED BY <2>0, <3>1 DEF Order
  <2>3. next.uid = -(twapHead + 1)
    BY <2>0 DEF OrdersInv
  <2> HIDE DEF slice
  <2>4. /\ twapOrders' = [twapOrders EXCEPT ![twapHead + 1] = slice]
        /\ heap' = IF slice.volume = 0 THEN heap ELSE WithOrder(heap, slice)
    BY <2>1 DEF slice
  <2>5. /\ twapHead' = twapHead + 1 /\ pc' = "match" /\ resume' = pc
        /\ pending' = pending /\ order' = order /\ logs' = logs
        /\ pc \in {"order", "close"} /\ pending = <<>>
    BY <1>a, <1>4 DEF ProcessTwapOrder, aon, input
  <2>6. InHand' => InHand
    BY <2>5 DEF InHand
  <2>7. /\ Len(twapOrders') = Len(twapOrders)
        /\ \A j \in DOMAIN twapOrders' : j \in DOMAIN twapOrders
             /\ twapOrders'[j].uid = twapOrders[j].uid /\ twapOrders'[j].type = twapOrders[j].type
    <3> HIDE DEF next
    <3>1. /\ DOMAIN twapOrders' = DOMAIN twapOrders /\ Len(twapOrders') = Len(twapOrders)
          /\ \A j \in DOMAIN twapOrders : j # twapHead + 1 => twapOrders'[j] = twapOrders[j]
          /\ twapOrders'[twapHead + 1] = slice
      BY <1>a, <2>0, <2>2, <2>4
    <3>2. QED BY <2>2, <3>1 DEF next
  <2>8. \A o \in AtRest : o.uid \in Int /\ o.uid # slice.uid
    <3>1. \A o \in AtRest : o.uid \in Int /\ -twapHead <= o.uid
      BY <1>b DEF Order, OrdersInv
    <3> HIDE DEF next
    <3>2. QED BY <1>a, <2>2, <2>3, <3>1
  <2>9. CASE slice.volume = 0
    <3>1. AtRest' = AtRest /\ (Apart <=> Apart')
      BY <2>4, <2>5, <2>9 DEF AtRest, All, Collected, Apart
    <3>2. IsFiniteSet(AtRest') /\ UniqueUid(AtRest)'
      BY <1>b, <3>1 DEF UniqueUid
    <3>3. \A j \in DOMAIN twapOrders' : twapOrders'[j].uid = -j /\ twapOrders'[j].type = MyContract
      BY <2>7 DEF OrdersInv
    <3>4. \A o \in AtRest' : /\ -twapHead' <= o.uid /\ o.uid <= logs'
                             /\ InHand' => o.uid < logs'
      BY <1>a, <2>5, <2>6, <2>8, <3>1 DEF OrdersInv
    <3>5. QED BY <2>5, <2>6, <3>1, <3>2, <3>3, <3>4 DEF OrdersInv
  <2>10. CASE slice.volume # 0
    <3>1. heap' = WithOrder(heap, slice)
      BY <2>4, <2>10
    <3>2. /\ -twapHead' <= slice.uid /\ slice.uid <= logs /\ twapHead' \in Nat
          /\ twapHead' >= twapHead /\ slice.uid < 0
      <4> HIDE DEF next
      <4>1. QED BY <1>a, <2>2, <2>3, <2>5
    <3>3. InHand' => InHand /\ order'.uid = order.uid /\ slice.uid < logs
      <4>1. slice.uid \in Int
        BY <2>2 DEF Order
      <4>2. QED BY <1>a, <2>5, <2>6, <3>2, <4>1
    <3>4. order'.type \in LogTypes
      BY <2>5 DEF OrdersInv
    <3>5. QED BY <2>2, <2>5, <2>7, <2>8, <3>1, <3>2, <3>3, <3>4, OrdersPlaced
  <2>11. QED BY <2>9, <2>10
<1>5. CASE CloseDone
  BY <1>5, OrdersSame DEF CloseDone, OrdersInv, InHand, aon, twap, input
<1>c. ASSUME NEW price \in Int, pc = "order", ThenMatch, pending' = pending,
             heap' = WithOrder(heap, [order EXCEPT !.price = price])
      PROVE  OrdersInv'
  <2> DEFINE x == [order EXCEPT !.price = price]
  <2>1. x \in Order /\ x.uid = order.uid
    BY <1>a DEF Order
  <2>2. /\ order' = NoOrder /\ pc' = "match" /\ resume' = "idle" /\ twapOrders' = twapOrders
        /\ twapHead' = twapHead /\ logs' = logs
    BY <1>c DEF ThenMatch, twap, input
  <2>3. InHand /\ ~InHand' /\ order.uid = logs
    BY <1>c, <2>2 DEF InHand, OrdersInv
  <2>4. \A o \in AtRest : o.uid \in Int /\ o.uid # x.uid
    <3>1. \A o \in AtRest : o.uid \in Int
      BY <1>b DEF Order
    <3>2. QED BY <1>a, <2>1, <2>3, <3>1 DEF OrdersInv
  <2>5. -twapHead <= x.uid /\ x.uid <= logs
    BY <1>a, <2>1, <2>3
  <2>6. heap' = WithOrder(heap, x) /\ pending = <<>> /\ order'.type \in LogTypes
    BY <1>a, <1>c, <2>2, NoOrderIsLog
  <2> HIDE DEF x
  <2>7. /\ twapHead' \in Nat /\ twapHead' >= twapHead /\ -twapHead' <= x.uid
        /\ Len(twapOrders') = Len(twapOrders)
        /\ \A j \in DOMAIN twapOrders' :
             j \in DOMAIN twapOrders /\ twapOrders'[j].uid = twapOrders[j].uid
               /\ twapOrders'[j].type = twapOrders[j].type
    BY <1>a, <2>2, <2>5
  <2>8. InHand' => InHand /\ order'.uid = order.uid /\ x.uid < logs
    BY <2>3
  <2>9. QED BY <1>c, <2>1, <2>2, <2>4, <2>5, <2>6, <2>7, <2>8, OrdersPlaced
<1>d. ASSUME pc = "order", ThenMatch, pending' = pending, heap' = heap
      PROVE  OrdersInv'
  <2>1. /\ order' = NoOrder /\ pc' = "match" /\ resume' = "idle" /\ twapOrders' = twapOrders
        /\ twapHead' = twapHead /\ logs' = logs
    BY <1>d DEF ThenMatch, twap, input
  <2>2. QED BY <1>d, <2>1, NoOrderIsLog, OrdersSame DEF InHand
<1>6. CASE PlacePriceLimit
  <2>1. pc = "order" /\ ThenMatch /\ pending' = pending
    BY <1>6 DEF PlacePriceLimit, Placing, ThenMatch, aon
  <2>2. PICK basePrice \in BasePrice(order.direction) :
          heap' = IF InBand(order.direction, basePrice, basePrice + order.price)
                    THEN WithOrder(heap, [order EXCEPT !.price = basePrice + order.price])
                    ELSE heap
    BY <1>6 DEF PlacePriceLimit
  <2>3. basePrice + order.price \in Int
    <3>1. order.direction \in Directions /\ lastPrice \in Int /\ order.price \in Int
      BY <1>a, OrderFields DEF TypeInv, TypeOK
    <3>2. basePrice \in Int
      BY <1>a, <3>1, BasePriceType
    <3>3. QED BY <3>1, <3>2
  <2>4. QED BY <1>c, <1>d, <2>1, <2>2, <2>3
<1>7. CASE PlaceAtBest
  <2>1. pc = "order" /\ ThenMatch /\ pending' = pending
    BY <1>7 DEF PlaceAtBest, Placing, ThenMatch, aon
  <2> DEFINE side == IF order.type = OurBestPrice THEN order.direction
                                                  ELSE Opposite(order.direction)
  <2>2. side \in Directions
    BY <1>a, OrderFields
  <2>3. heap' = heap \/ \E top \in Tops(side) :
          heap' = WithOrder(heap, [order EXCEPT !.price = top.price])
    BY <1>7 DEF PlaceAtBest
  <2> HIDE DEF side
  <2>4. \A top \in Tops(side) : top.price \in Int
    BY <1>a, <2>2, TopsType, OrderFields
  <2>5. QED BY <1>c, <1>d, <2>1, <2>3, <2>4
<1>8. CASE MatchTrade
  <2>1. PICK sale \in Tops(Sale), buy \in Tops(Buy) :
          heap' = Taken(Taken(heap, sale, TradeVolume(sale, buy)), buy, TradeVolume(sale, buy))
    BY <1>8 DEF MatchTrade
  <2> DEFINE v == TradeVolume(sale, buy)
             mid == Reduced(AtRest, sale, v)
  <2>2. /\ pc = "match" /\ pending' = pending /\ order' = order /\ twapOrders' = twapOrders
        /\ twapHead' = twapHead /\ logs' = logs /\ pc' = pc /\ resume' = resume
    BY <1>8 DEF MatchTrade, aon, twap, input
  <2>3. heap' = Taken(Taken(heap, sale, v), buy, v)
    BY <2>1
  <2> HIDE DEF v
  <2>4. PICK w : w = v
    OBVIOUS
  <2>5. /\ w \in Nat /\ w <= sale.volume /\ w <= buy.volume
        /\ sale \in AtRest /\ buy \in Reduced(AtRest, sale, w)
        /\ AtRest' = Reduced(Reduced(AtRest, sale, w), buy, w)
    BY <2>2, <2>3, <2>4, MatchRest DEF v
  <2>6. /\ mid \in SUBSET Order /\ IsFiniteSet(mid) /\ UniqueUid(mid)
        /\ \A x \in mid : \E y \in AtRest : y.uid = x.uid
    BY <1>b, <2>4, <2>5, ReducedType
  <2>7. buy \in mid /\ AtRest' = Reduced(mid, buy, w)
    BY <2>4, <2>5
  <2> HIDE DEF mid
  <2>8. /\ IsFiniteSet(AtRest') /\ UniqueUid(Reduced(mid, buy, w))
        /\ \A x \in AtRest' : \E y \in mid : y.uid = x.uid
    BY <2>5, <2>6, <2>7, ReducedType
  <2>9. UniqueUid(AtRest)'
    BY <2>7, <2>8 DEF UniqueUid
  <2>10. Apart'
    BY <1>a, <2>2 DEF Apart
  <2>11. \A x \in AtRest' : \E y \in AtRest : y.uid = x.uid
    BY <2>6, <2>8
  <2>12. order'.type \in LogTypes /\ (InHand' => InHand /\ order'.uid = order.uid)
    BY <2>2 DEF OrdersInv, InHand
  <2>13. QED BY <2>2, <2>8, <2>9, <2>10, <2>11, <2>12, OrdersGoOn
<1>9. CASE MatchDone
  <2>1. /\ heap' = heap /\ pending' = pending /\ order' = order /\ twapOrders' = twapOrders
        /\ twapHead' = twapHead /\ logs' = logs /\ pc = "match" /\ pc' = resume
    BY <1>9 DEF MatchDone, aon, twap, input
  <2>2. resume \in {"idle", "order", "close"}
    BY DEF TypeInv, TypeOK
  <2>3. InHand' => InHand
    BY <2>1, <2>2 DEF InHand
  <2>4. QED BY <2>1, <2>3, OrdersSame DEF OrdersInv
<1>10. CASE StartSweep
  BY <1>10, OrdersSame DEF StartSweep, Placing, OrdersInv, InHand, aon, twap, input
<1>11. CASE SweepTrade
  <2>1. PICK top \in Tops(Opposite(order.direction)) :
          LET v == Lesser(order.volume, top.volume)
          IN  /\ order' = [order EXCEPT !.volume = @ - v]
              /\ heap'  = Taken(heap, top, v)
    BY <1>11 DEF SweepTrade
  <2>2. PICK v : v = Lesser(order.volume, top.volume)
    OBVIOUS
  <2>3. order' = [order EXCEPT !.volume = @ - v] /\ heap' = Taken(heap, top, v)
    BY <2>1, <2>2
  <2>4. /\ pc = "sweep" /\ pending' = pending /\ twapOrders' = twapOrders
        /\ twapHead' = twapHead /\ logs' = logs /\ pc' = pc /\ resume' = resume
    BY <1>11 DEF SweepTrade, aon, twap, input
  <2>5. /\ v \in Nat /\ v <= order.volume /\ v <= top.volume /\ top \in AtRest
        /\ AtRest' = Reduced(AtRest, top, v)
    BY <2>2, <2>3, <2>4, SweepRest
  <2>6. order'.type = order.type /\ order'.uid = order.uid
    BY <1>a, <2>3, <2>5, LeftOrder DEF LeftOf
  <2>7. /\ IsFiniteSet(AtRest') /\ UniqueUid(Reduced(AtRest, top, v))
        /\ \A x \in AtRest' : \E y \in AtRest : y.uid = x.uid
    BY <1>b, <2>5, ReducedType
  <2>8. UniqueUid(AtRest)'
    BY <2>5, <2>7 DEF UniqueUid
  <2>9. Apart'
    BY <1>a, <2>4 DEF Apart
  <2>10. order'.type \in LogTypes /\ (InHand' => InHand /\ order'.uid = order.uid)
    BY <2>4, <2>6 DEF OrdersInv, InHand
  <2>11. QED BY <2>4, <2>7, <2>8, <2>9, <2>10, OrdersGoOn
<1>12. CASE SweepDone
  BY <1>12, NoOrderIsLog, OrdersSame DEF SweepDone, Return, InHand, aon, twap, input
<1>13. CASE StartAllOrNothing
  BY <1>13, OrdersSame DEF StartAllOrNothing, Placing, OrdersInv, InHand, twap, input
<1>14. CASE Collect
  <2>1. PICK top \in Tops(Opposite(order.direction)) :
          /\ heap' = [heap EXCEPT ![top.direction] = @ \ {top}]
          /\ pending' = Append(pending, top)
    BY <1>14 DEF Collect
  <2>2. /\ twapOrders' = twapOrders /\ twapHead' = twapHead /\ logs' = logs
        /\ pc' = pc /\ resume' = resume /\ order' = order
    BY <1>14 DEF Collect, twap, input
  <2>3. AtRest' = AtRest
    BY <1>14, QueueRest
  <2>4. top \in Order /\ top \in All(heap) /\ top \in heap[top.direction]
    <3>1. Opposite(order.direction) \in Directions
      BY <1>a, OrderFields
    <3>2. QED BY <1>a, <3>1, TopsType DEF All, Directions
  <2>5. All(heap') = All(heap) \ {top}
    <3>1. /\ DOMAIN heap = Directions /\ Directions = {Sale, Buy} /\ Sale # Buy
          /\ \A direction \in Directions : \A o \in heap[direction] : o.direction = direction
          /\ top.direction \in Directions
      BY <1>a, <2>4, OrderFields DEF Book, Directions, Sale, Buy
    <3>2. QED BY <2>1, <2>4, <3>1 DEF All
  <2>6. /\ \A i \in DOMAIN pending' :
             IF i \in DOMAIN pending THEN pending'[i] = pending[i]
             ELSE i = Len(pending) + 1 /\ pending'[i] = top
    BY <1>a, <2>1, <2>4
  <2>7. Apart'
    <3>1. All(heap)' = All(heap')
      BY DEF All
    <3>2. ASSUME NEW i \in DOMAIN pending' PROVE pending'[i] \notin All(heap')
      BY <2>5, <2>6 DEF OrdersInv, Apart
    <3>3. ASSUME NEW i \in DOMAIN pending', NEW j \in DOMAIN pending', pending'[i] = pending'[j]
          PROVE  i = j
      BY <2>4, <2>6, <3>3 DEF OrdersInv, Apart
    <3>4. QED BY <3>1, <3>2, <3>3 DEF Apart
  <2>8. IsFiniteSet(AtRest') /\ UniqueUid(AtRest)'
    BY <1>b, <2>3 DEF UniqueUid
  <2>9. order'.type \in LogTypes /\ (InHand' => InHand /\ order'.uid = order.uid)
    BY <2>2 DEF OrdersInv, InHand
  <2>10. QED BY <2>2, <2>3, <2>7, <2>8, <2>9, OrdersGoOn
<1>15. CASE CollectDone
  BY <1>15, OrdersSame DEF CollectDone, OrdersInv, InHand, aon, twap, input
<1>16. CASE Fill
  <2>1. PICK top : top = Head(pending)
    OBVIOUS
  <2>2. PICK v : v = Lesser(order.volume, top.volume)
    OBVIOUS
  <2>3. /\ order' = [order EXCEPT !.volume = @ - v]
        /\ heap' = IF top.volume = v THEN heap
                   ELSE WithOrder(heap, [top EXCEPT !.volume = @ - v])
        /\ pending # <<>> /\ pending' = Tail(pending)
    BY <1>16, <2>1, <2>2 DEF Fill
  <2>4. /\ twapOrders' = twapOrders /\ twapHead' = twapHead /\ logs' = logs
        /\ pc' = pc /\ resume' = resume
    BY <1>16 DEF Fill, twap, input
  <2>5. /\ v \in Nat /\ v <= order.volume /\ v <= top.volume /\ top \in AtRest
        /\ AtRest' = Reduced(AtRest, top, v) /\ Collected' \subseteq AtRest \ {top}
    BY <2>1, <2>2, <2>3, FillRest
  <2>6. order'.type = order.type /\ order'.uid = order.uid
    BY <1>a, <2>3, <2>5, LeftOrder DEF LeftOf
  <2>7. /\ IsFiniteSet(AtRest') /\ UniqueUid(Reduced(AtRest, top, v))
        /\ \A x \in AtRest' : \E y \in AtRest : y.uid = x.uid
    BY <1>b, <2>5, ReducedType
  <2>8. UniqueUid(AtRest)'
    BY <2>5, <2>7 DEF UniqueUid
  <2>9. Apart'
    <3>1. \A i \in DOMAIN pending' :
            i \in Nat /\ i + 1 \in DOMAIN pending /\ pending'[i] = pending[i + 1]
      <4>1. \A i \in DOMAIN pending' : i \in Nat
        BY <1>a, <2>3
      <4>2. QED BY <1>a, <2>3, <4>1, TailOfPending
    <3>2. \A i \in DOMAIN pending' : pending'[i] \in Collected' /\ pending'[i] \notin All(heap)
      BY <3>1 DEF OrdersInv, Apart, Collected
    <3>3. ASSUME NEW i \in DOMAIN pending' PROVE pending'[i] \notin All(heap')
      <4>1. pending'[i] \in AtRest \ {top}
        BY <2>5, <3>2
      <4>2. CASE top.volume = v
        BY <2>3, <3>2, <4>2
      <4>3. CASE top.volume # v
        <5>1. LeftOf(top, v) \in Order /\ LeftOf(top, v).uid = top.uid
          BY <1>b, <2>5, LeftOrder
        <5>2. heap' = WithOrder(heap, LeftOf(top, v))
          BY <2>3, <4>3 DEF LeftOf
        <5>3. All(heap') = All(heap) \cup {LeftOf(top, v)}
          BY <1>a, <5>1, <5>2, AllWith
        <5>4. pending'[i] # LeftOf(top, v)
          BY <1>b, <2>5, <4>1, <5>1 DEF UniqueUid
        <5>5. QED BY <3>2, <5>3, <5>4
      <4>4. QED BY <4>2, <4>3
    <3>4. ASSUME NEW i \in DOMAIN pending', NEW j \in DOMAIN pending', pending'[i] = pending'[j]
          PROVE  i = j
      <4>1. i + 1 = j + 1 /\ i \in Nat /\ j \in Nat
        BY <3>1, <3>4 DEF OrdersInv, Apart
      <4>2. QED BY <4>1
    <3>5. All(heap)' = All(heap')
      BY DEF All
    <3>6. QED BY <3>3, <3>4, <3>5 DEF Apart
  <2>10. order'.type \in LogTypes /\ (InHand' => InHand /\ order'.uid = order.uid)
    BY <2>4, <2>6 DEF OrdersInv, InHand
  <2>11. QED BY <2>4, <2>7, <2>8, <2>9, <2>10, OrdersGoOn
<1>17. CASE Cancel
  <2>1. /\ heap' = WithOrder(heap, Head(pending)) /\ pending # <<>> /\ pending' = Tail(pending)
        /\ twapOrders' = twapOrders /\ twapHead' = twapHead /\ logs' = logs
        /\ pc' = pc /\ resume' = resume /\ order' = order
    BY <1>17 DEF Cancel, twap, input
  <2>2. AtRest' = AtRest
    BY <1>17, QueueRest
  <2>3. Head(pending) = pending[1] /\ 1 \in DOMAIN pending /\ Head(pending) \in Order
    BY <1>a, <2>1, TailOfPending
  <2>4. All(heap') = All(heap) \cup {pending[1]}
    BY <1>a, <2>1, <2>3, AllWith
  <2>5. \A i \in DOMAIN pending' : i \in Nat \ {0}
          /\ i + 1 \in DOMAIN pending /\ pending'[i] = pending[i + 1]
    <3>1. \A i \in DOMAIN pending' : i \in Nat \ {0}
      BY <1>a, <2>1
    <3>2. QED BY <1>a, <2>1, <3>1, TailOfPending
  <2>6. Apart'
    <3>1. All(heap)' = All(heap')
      BY DEF All
    <3>2. ASSUME NEW i \in DOMAIN pending' PROVE pending'[i] \notin All(heap')
      <4>1. i + 1 # 1 /\ i + 1 \in DOMAIN pending /\ pending'[i] = pending[i + 1]
        BY <2>5
      <4>2. pending[i + 1] # pending[1] /\ pending[i + 1] \notin All(heap)
        BY <2>3, <4>1 DEF OrdersInv, Apart
      <4>3. QED BY <2>4, <4>1, <4>2
    <3>3. ASSUME NEW i \in DOMAIN pending', NEW j \in DOMAIN pending', pending'[i] = pending'[j]
          PROVE  i = j
      <4>1. i + 1 = j + 1 /\ i \in Nat /\ j \in Nat
        BY <2>5, <3>3 DEF OrdersInv, Apart
      <4>2. QED BY <4>1
    <3>4. QED BY <3>1, <3>2, <3>3 DEF Apart
  <2>7. IsFiniteSet(AtRest') /\ UniqueUid(AtRest)'
    BY <1>b, <2>2 DEF UniqueUid
  <2>8. order'.type \in LogTypes /\ (InHand' => InHand /\ order'.uid = order.uid)
    BY <2>1 DEF OrdersInv, InHand
  <2>9. QED BY <2>1, <2>2, <2>6, <2>7, <2>8, OrdersGoOn
<1>18. CASE AllOrNothingDone
  BY <1>18, NoOrderIsLog, OrdersSame DEF AllOrNothingDone, Return, InHand, twap, input
<1>19. CASE UNCHANGED vars
  BY <1>19, OrdersSame DEF vars, OrdersInv, InHand, aon, twap, input
<1>20. QED BY <1>1, <1>2, <1>3, <1>4, <1>5, <1>6, <1>7, <1>8, <1>9, <1>10, <1>11, <1>12,
              <1>13, <1>14, <1>15, <1>16, <1>17, <1>18, <1>19
           DEF Next, Environment, Engine, Terminated

-----------------------------------------------------------------------------
(* No share of an alpha is lost.                                           *)

\* What RestSides says of every state holds of the state a step reaches.
LEMMA RestSidesAlways ==
  TypeInv => /\ AtRest \in SUBSET Order
             /\ \A direction \in Directions : Resting(direction) = SideOf(AtRest, direction)
             /\ OursAtWork = Ours(AtRest)
BY RestSides

LEMMA RestSidesNext ==
  TypeInv' => (/\ AtRest \in SUBSET Order
               /\ \A direction \in Directions : Resting(direction) = SideOf(AtRest, direction)
               /\ OursAtWork = Ours(AtRest))'
BY RestSidesAlways, PTL

LEMMA ScheduledType ==
  ASSUME TypeInv
  PROVE  Scheduled \in SUBSET Order /\ IsFiniteSet(Scheduled)
<1>1. twapOrders \in Seq(Order) /\ twapHead \in 0..Len(twapOrders) /\ Len(twapOrders) \in Nat
  BY DEF TypeInv, TypeOK
<1>2. twapHead + 1 \in Int /\ Len(twapOrders) \in Int
  BY <1>1
<1>3. IsFiniteSet(Scheduled)
  BY <1>2, ImageFinite DEF Scheduled
<1>4. QED BY <1>1, <1>3 DEF Scheduled

\* The slice sent to the book leaves the schedule.
LEMMA ScheduledNext ==
  ASSUME TypeInv, OrdersInv, twapHead < Len(twapOrders), NEW slice,
         twapOrders' = [twapOrders EXCEPT ![twapHead + 1] = slice], twapHead' = twapHead + 1
  PROVE  /\ twapOrders[twapHead + 1] \in Scheduled
         /\ Scheduled' = Scheduled \ {twapOrders[twapHead + 1]}
<1>1. /\ twapOrders \in Seq(Order) /\ twapHead \in 0..Len(twapOrders) /\ Len(twapOrders) \in Nat
      /\ \A i, j \in DOMAIN twapOrders : twapOrders[i] = twapOrders[j] => i = j
  <2>1. /\ twapOrders \in Seq(Order) /\ twapHead \in 0..Len(twapOrders) /\ Len(twapOrders) \in Nat
    BY DEF TypeInv, TypeOK
  <2>2. ASSUME NEW i \in DOMAIN twapOrders, NEW j \in DOMAIN twapOrders,
               twapOrders[i] = twapOrders[j]
        PROVE  i = j
    <3>1. -i = -j /\ i \in Int /\ j \in Int
      BY <2>1, <2>2 DEF OrdersInv
    <3>2. QED BY <3>1
  <2>3. QED BY <2>1, <2>2
<1>2. /\ Len(twapOrders') = Len(twapOrders)
      /\ \A j \in twapHead + 2..Len(twapOrders) : twapOrders'[j] = twapOrders[j]
  BY <1>1
<1>3. /\ twapHead + 1 \in DOMAIN twapOrders /\ DOMAIN twapOrders = 1..Len(twapOrders)
      /\ twapHead + 1 + 1 = twapHead + 2
      /\ twapHead + 1..Len(twapOrders) = {twapHead + 1} \cup (twapHead + 2..Len(twapOrders))
      /\ twapHead + 1 \notin twapHead + 2..Len(twapOrders)
      /\ twapHead + 2..Len(twapOrders) \subseteq DOMAIN twapOrders
  BY <1>1
<1>4. Scheduled' = {twapOrders'[j] : j \in twapHead + 2..Len(twapOrders)}
  BY <1>2, <1>3 DEF Scheduled
<1>5. Scheduled' = {twapOrders[j] : j \in twapHead + 2..Len(twapOrders)}
  BY <1>2, <1>4
<1>6. \A j \in twapHead + 2..Len(twapOrders) : twapOrders[j] # twapOrders[twapHead + 1]
  BY <1>1, <1>3
<1>7. Scheduled = {twapOrders[twapHead + 1]}
                    \cup {twapOrders[j] : j \in twapHead + 2..Len(twapOrders)}
  BY <1>3 DEF Scheduled
<1>8. QED BY <1>5, <1>6, <1>7

LEMMA NothingSigned ==
  ASSUME NEW direction, NEW v \in Int, v = 0
  PROVE  Signed(direction, v) = 0
<1>1. \A u \in Int : Signed(direction, u) = u \/ Signed(direction, u) = 0 - u
  BY DEF Signed
<1>2. QED BY <1>1

LEMMA DivideBack ==
  ASSUME NEW a \in Nat, NEW n \in Nat \ {0}
  PROVE  (a * n) \div n = a /\ (a * 0) \div n = 0
OBVIOUS

\* The slices of an alpha, rounded one by one, ask for all of its volume.
LEMMA SlicesAddUp ==
  ASSUME TypeInv, OrdersInv, NEW timestamp \in Int, NEW diff \in Int, diff # 0,
         twapOrders' = twapOrders \o Slices(timestamp, diff), twapHead' = twapHead
  PROVE  TotalPosition(Scheduled') = TotalPosition(Scheduled) + diff
<1> DEFINE new == Slices(timestamp, diff)
           len == Len(twapOrders)
           direction == IF diff > 0 THEN Buy ELSE Sale
           Part(n) == Scheduled \cup {new[k] : k \in 1..n}
           P(n) == n <= sessionNum =>
                     /\ Part(n) \in SUBSET Order /\ IsFiniteSet(Part(n))
                     /\ TotalPosition(Part(n)) = TotalPosition(Scheduled)
                          + Signed(direction, (Abs(diff) * n) \div sessionNum)
           T == {n \in Nat : P(n)}
<1>1. /\ twapOrders \in Seq(Order) /\ twapHead \in 0..len /\ len \in Nat
      /\ sessionNum \in Nat \ {0} /\ Abs(diff) \in Nat
  BY SessionAssumption DEF TypeInv, TypeOK, Abs
<1>2. Scheduled \in SUBSET Order /\ IsFiniteSet(Scheduled) /\ TotalPosition(Scheduled) \in Int
  BY ScheduledType, TotalsType
<1>3. /\ new \in Seq(Order) /\ Len(new) = sessionNum /\ DOMAIN new = 1..sessionNum
      /\ \A k \in 1..sessionNum : /\ new[k] \in Order
                                  /\ new[k].uid = -(len + k) /\ new[k].direction = direction
                                  /\ new[k].volume = SliceVolume(Abs(diff), k - 1)
  <2>1. new \in Seq(Order)
    BY <1>1, SlicesType
  <2>2. DOMAIN new = 1..sessionNum
    BY DEF Slices
  <2>3. \A k \in 1..sessionNum : /\ new[k].uid = -(len + k) /\ new[k].direction = direction
                                 /\ new[k].volume = SliceVolume(Abs(diff), k - 1)
    BY DEF Slices
  <2> HIDE DEF new
  <2>4. Len(new) = sessionNum /\ \A k \in 1..sessionNum : new[k] \in Order
    BY <1>1, <2>1, <2>2
  <2>5. QED BY <2>1, <2>2, <2>3, <2>4
<1> HIDE DEF new
<1>4. P(0)
  <2>1. Part(0) = Scheduled
    OBVIOUS
  <2>2. (Abs(diff) * 0) \div sessionNum = 0
    BY <1>1, DivideBack
  <2>3. Signed(direction, 0) = 0
    BY NothingSigned
  <2> HIDE DEF Part, direction
  <2>4. TotalPosition(Part(0)) =
          TotalPosition(Scheduled) + Signed(direction, (Abs(diff) * 0) \div sessionNum)
    BY <1>2, <2>1, <2>2, <2>3
  <2>5. QED BY <1>2, <2>1, <2>4
<1>5. ASSUME NEW n \in Nat, P(n) PROVE P(n + 1)
  <2> SUFFICES ASSUME n + 1 <= sessionNum
               PROVE  /\ Part(n + 1) \in SUBSET Order /\ IsFiniteSet(Part(n + 1))
                      /\ TotalPosition(Part(n + 1)) = TotalPosition(Scheduled)
                           + Signed(direction, (Abs(diff) * (n + 1)) \div sessionNum)
    OBVIOUS
  <2>1. /\ Part(n) \in SUBSET Order /\ IsFiniteSet(Part(n))
        /\ TotalPosition(Part(n)) = TotalPosition(Scheduled)
             + Signed(direction, (Abs(diff) * n) \div sessionNum)
    BY <1>1, <1>5
  <2>2. 1..n + 1 = (1..n) \cup {n + 1} /\ n + 1 \in 1..sessionNum /\ 1..n \subseteq 1..sessionNum
    BY <1>1
  <2>3. Part(n + 1) = Part(n) \cup {new[n + 1]}
    BY <2>2
  <2>4. /\ new[n + 1] \in Order /\ new[n + 1].uid = -(len + (n + 1))
        /\ new[n + 1].direction = direction /\ new[n + 1].volume = SliceVolume(Abs(diff), n)
    <3>1. (n + 1) - 1 = n
      OBVIOUS
    <3>2. QED BY <1>3, <2>2, <3>1
  <2>5. new[n + 1] \notin Part(n)
    <3>1. ASSUME NEW j \in twapHead + 1..len PROVE new[n + 1] # twapOrders[j]
      <4>1. j \in DOMAIN twapOrders /\ j <= len /\ j \in Int
        BY <1>1
      <4>2. twapOrders[j].uid = -j
        BY <4>1 DEF OrdersInv
      <4>3. -j # -(len + (n + 1))
        BY <1>1, <4>1
      <4>4. QED BY <2>4, <4>2, <4>3
    <3>2. ASSUME NEW k \in 1..n PROVE new[n + 1] # new[k]
      <4>1. new[k].uid = -(len + k) /\ k \in Int /\ k <= n
        BY <1>3, <2>2
      <4>2. -(len + k) # -(len + (n + 1))
        BY <1>1, <4>1
      <4>3. QED BY <2>4, <4>1, <4>2
    <3>3. QED BY <3>1, <3>2 DEF Scheduled
  <2> DEFINE next == new[n + 1]
             part == Part(n)
             a == (Abs(diff) * n) \div sessionNum
             b == (Abs(diff) * (n + 1)) \div sessionNum
  <2>6. a \in Int /\ b \in Int /\ next.volume = b - a
    <3>1. next.volume = b - a
      BY <2>4 DEF SliceVolume
    <3>2. Abs(diff) * n \in Int /\ Abs(diff) * (n + 1) \in Int
      BY <1>1
    <3>3. ASSUME NEW x \in Int PROVE x \div sessionNum \in Int
      BY <1>1
    <3>4. a \in Int /\ b \in Int
      BY <3>2, <3>3
    <3>5. QED BY <3>1, <3>4
  <2>7. /\ next \in Order /\ next.direction = direction /\ next \notin part
        /\ part \in SUBSET Order /\ IsFiniteSet(part) /\ Part(n + 1) = part \cup {next}
        /\ TotalPosition(part) = TotalPosition(Scheduled) + Signed(direction, a)
    BY <2>1, <2>3, <2>4, <2>5
  <2> HIDE DEF next, part, a, b
  <2>8. TotalPosition(part \cup {next}) = TotalPosition(part) + Signed(direction, b - a)
    BY <2>6, <2>7, TotalsAdd
  <2>9. TotalPosition(part \cup {next}) = TotalPosition(Scheduled) + Signed(direction, b)
    BY <1>2, <2>6, <2>7, <2>8 DEF Signed
  <2>10. IsFiniteSet(part \cup {next})
    BY <2>7, FS_AddElement
  <2> HIDE DEF Part
  <2>11. QED BY <2>7, <2>9, <2>10 DEF b
<1> HIDE DEF P
<1>6. Nat \subseteq T
  <2>1. 0 \in T /\ \A n \in Nat : n \in T => n + 1 \in T
    BY <1>4, <1>5
  <2> HIDE DEF T
  <2>2. QED BY <2>1, SetInduction
<1>7. P(sessionNum)
  BY <1>1, <1>6
<1>8. Scheduled' = Part(sessionNum)
  <2>1. /\ Len(twapOrders') = len + sessionNum
        /\ \A j \in 1..len : twapOrders'[j] = twapOrders[j]
        /\ \A k \in 1..sessionNum : twapOrders'[len + k] = new[k]
    <3>1. twapOrders' = twapOrders \o new
      BY DEF new
    <3> DEFINE old == twapOrders
    <3>2. old \in Seq(Order) /\ new \in Seq(Order) /\ Len(new) = sessionNum /\ len = Len(old)
      BY <1>1, <1>3
    <3> HIDE DEF old
    <3>3. /\ Len(old \o new) = len + sessionNum
          /\ \A j \in 1..len : (old \o new)[j] = old[j]
          /\ \A k \in 1..sessionNum : (old \o new)[len + k] = new[k]
      BY <3>2
    <3>4. QED BY <3>1, <3>3 DEF old
  <2>2. Scheduled' = {twapOrders'[j] : j \in twapHead + 1..len + sessionNum}
    BY <2>1 DEF Scheduled
  <2>3. \A j \in twapHead + 1..len + sessionNum :
          IF j <= len THEN j \in twapHead + 1..len /\ twapOrders'[j] = twapOrders[j]
          ELSE j - len \in 1..sessionNum /\ twapOrders'[j] = new[j - len]
    <3>1. ASSUME NEW j \in twapHead + 1..len + sessionNum, ~(j <= len)
          PROVE  j - len \in 1..sessionNum /\ twapOrders'[j] = new[j - len]
      <4>1. j - len \in 1..sessionNum /\ len + (j - len) = j
        BY <1>1, <3>1
      <4>2. QED BY <2>1, <4>1
    <3>2. ASSUME NEW j \in twapHead + 1..len + sessionNum, j <= len
          PROVE  j \in twapHead + 1..len /\ twapOrders'[j] = twapOrders[j]
      <4>1. j \in twapHead + 1..len /\ j \in 1..len
        BY <1>1, <3>2
      <4>2. QED BY <2>1, <4>1
    <3>3. QED BY <3>1, <3>2
  <2>4. /\ \A j \in twapHead + 1..len : j \in twapHead + 1..len + sessionNum /\ j \in 1..len
        /\ \A k \in 1..sessionNum : len + k \in twapHead + 1..len + sessionNum
    BY <1>1
  <2>5. \A j \in twapHead + 1..len : twapOrders'[j] = twapOrders[j]
    BY <2>1, <2>4
  <2>6. Scheduled = {twapOrders[j] : j \in twapHead + 1..len}
    BY DEF Scheduled
  <2>7. ASSUME NEW o \in Scheduled' PROVE o \in Part(sessionNum)
    BY <2>2, <2>3, <2>6
  <2>8. ASSUME NEW o \in Part(sessionNum) PROVE o \in Scheduled'
    BY <2>1, <2>2, <2>4, <2>5, <2>6
  <2>9. QED BY <2>7, <2>8
<1>9. Signed(direction, (Abs(diff) * sessionNum) \div sessionNum) = diff
  <2>1. (Abs(diff) * sessionNum) \div sessionNum = Abs(diff)
    BY <1>1, DivideBack
  <2>2. Signed(direction, Abs(diff)) = diff
    BY DEF Signed, Abs, Buy, Sale
  <2>3. QED BY <2>1, <2>2
<1>10. sessionNum <= sessionNum
  BY <1>1
<1>11. QED BY <1>7, <1>8, <1>9, <1>10 DEF P

\* What a trade does to the position, and to what we traded with ourselves.
LEMMA TradeBooked ==
  ASSUME TypeInv, NEW sale \in Order, NEW buy \in Order, TradeOrder(sale, buy),
         NEW v \in Nat, v = TradeVolume(sale, buy)
  PROVE  volume' + selfTraded' = volume + selfTraded
           + (IF sale.type = MyContract THEN Signed(Sale, v) ELSE 0)
           + (IF buy.type = MyContract THEN Signed(Buy, v) ELSE 0)
<1>1. volume \in Int /\ selfTraded \in Nat
  BY DEF TypeInv, TypeOK
<1>2. /\ selfTraded' = IF sale.type = MyContract /\ buy.type = MyContract
                         THEN selfTraded + v ELSE selfTraded
      /\ \/ sale.type = MyContract /\ volume' = volume - v
         \/ sale.type # MyContract /\ buy.type = MyContract /\ volume' = volume + v
         \/ sale.type # MyContract /\ buy.type # MyContract /\ volume' = volume
  BY DEF TradeOrder
<1>3. Signed(Sale, v) = -v /\ Signed(Buy, v) = v
  BY DEF Signed, Sale, Buy
<1>4. QED BY <1>1, <1>2, <1>3

\* The order in hand is not ours.
LEMMA ExecuteBooked ==
  ASSUME TypeInv, OrdersInv, NEW top \in Order, top.direction = Opposite(order.direction),
         Execute(top), NEW v \in Nat, v = Lesser(order.volume, top.volume)
  PROVE  volume' + selfTraded' = volume + selfTraded
           + (IF top.type = MyContract THEN Signed(top.direction, v) ELSE 0)
<1>1. /\ order \in Order /\ order.volume \in Nat /\ top.volume \in Nat
      /\ volume \in Int /\ selfTraded \in Nat
  BY OrderFields DEF TypeInv, TypeOK
<1>2. order.type # MyContract
  BY DEF OrdersInv, LogTypes, MyContract, PriceLimit, AllOrNothing
<1>3. v = Lesser(top.volume, order.volume)
  BY <1>1 DEF Lesser
<1>4. Signed(Sale, v) \in Int /\ Signed(Buy, v) \in Int
  BY DEF Signed
<1>5. CASE order.direction = Sale
  <2>1. TradeOrder(order, top) /\ top.direction = Buy
    BY <1>5 DEF Execute, Opposite
  <2>2. QED BY <1>1, <1>2, <1>4, <2>1, TradeBooked DEF TradeVolume
<1>6. CASE order.direction # Sale
  <2>1. TradeOrder(top, order) /\ top.direction = Sale
    BY <1>6 DEF Execute, Opposite
  <2>2. QED BY <1>1, <1>2, <1>3, <1>4, <2>1, TradeBooked DEF TradeVolume
<1>7. QED BY <1>5, <1>6

LEMMA OursType ==
  ASSUME TypeInv, OrdersInv
  PROVE  TotalPosition(Ours(AtRest)) \in Int
<1>1. Ours(AtRest) \in SUBSET AtRest
  BY DEF Ours
<1>2. QED BY <1>1, RestSides, PartType, TotalsType DEF OrdersInv

\* Where neither the orders at rest nor the schedule nor a trade changes it.
LEMMA PositionSame ==
  ASSUME TypeInv, TypeInv', PositionAddsUp, AtRest' = AtRest, Scheduled' = Scheduled,
         targetVolume' = targetVolume, volume' = volume, selfTraded' = selfTraded
  PROVE  PositionAddsUp'
<1>1. OursAtWork = Ours(AtRest) /\ OursAtWork' = Ours(AtRest)'
  BY RestSides, RestSidesNext
<1>2. OursAtWork' = OursAtWork
  BY <1>1 DEF Ours
<1>3. QED BY <1>2 DEF PositionAddsUp

LEMMA BookedApart ==
  \A t, v, s, w, u, a, b, c \in Int :
    t = v + a + b + s /\ w + u = v + s + c => t = w + (a - c) + b + u
OBVIOUS

\* A trade with the orders of our own among one or two at rest.
LEMMA PositionTraded ==
  ASSUME TypeInv, TypeInv', OrdersInv, PositionAddsUp, NEW change \in Int,
         Scheduled' = Scheduled, targetVolume' = targetVolume,
         TotalPosition(Ours(AtRest')) = TotalPosition(Ours(AtRest)) - change,
         volume' + selfTraded' = volume + selfTraded + change
  PROVE  PositionAddsUp'
<1>1. OursAtWork = Ours(AtRest) /\ OursAtWork' = Ours(AtRest')
  <2>1. OursAtWork = Ours(AtRest) /\ OursAtWork' = Ours(AtRest)'
    BY RestSides, RestSidesNext
  <2>2. QED BY <2>1 DEF Ours
<1>2. TotalPosition(OursAtWork) \in Int /\ TotalPosition(Scheduled) \in Int
  <2>1. TotalPosition(Scheduled) \in Int
    BY ScheduledType, TotalsType
  <2>2. QED BY <2>1, <1>1, OursType
<1>3. /\ targetVolume \in Int /\ volume \in Int /\ selfTraded \in Int
      /\ volume' \in Int /\ selfTraded' \in Int
  BY DEF TypeInv, TypeOK
<1>4. targetVolume = volume + TotalPosition(OursAtWork) + TotalPosition(Scheduled) + selfTraded
  BY DEF PositionAddsUp
<1>5. TotalPosition(OursAtWork') = TotalPosition(OursAtWork) - change
  BY <1>1
<1>6. targetVolume' = volume' + TotalPosition(OursAtWork') + TotalPosition(Scheduled') + selfTraded'
  <2>1. TotalPosition(Scheduled') = TotalPosition(Scheduled)
    OBVIOUS
  <2>2. PICK a \in Int, b \in Int : a = TotalPosition(OursAtWork) /\ b = TotalPosition(Scheduled)
    BY <1>2
  <2>3. TotalPosition(OursAtWork') = a - change /\ TotalPosition(Scheduled') = b
    BY <1>5, <2>1, <2>2
  <2>4. targetVolume' = targetVolume /\ targetVolume = volume + a + b + selfTraded
    BY <1>4, <2>2
  <2>5. volume' + selfTraded' = volume + selfTraded + change
    OBVIOUS
  <2>6. targetVolume = volume' + (a - change) + b + selfTraded'
    <3>1. PICK w \in Int, u \in Int : w = volume' /\ u = selfTraded'
      BY <1>3
    <3>2. PICK t \in Int, v \in Int, s \in Int :
            t = targetVolume /\ v = volume /\ s = selfTraded
      BY <1>3
    <3>3. t = v + a + b + s /\ w + u = v + s + change
      BY <2>4, <2>5, <3>1, <3>2
    <3>4. t = w + (a - change) + b + u
      BY <3>3, BookedApart
    <3>5. QED BY <3>1, <3>2, <3>4
  <2>7. QED BY <2>3, <2>4, <2>6
<1>7. QED BY <1>6 DEF PositionAddsUp

LEMMA PositionInit == Init => PositionAddsUp
<1> SUFFICES ASSUME Init PROVE PositionAddsUp
  OBVIOUS
<1>1. OursAtWork = {} /\ Scheduled = {}
  BY DEF Init, OursAtWork, Resting, Collected, Scheduled, Directions
<1>2. TotalPosition(OursAtWork) = 0 /\ TotalPosition(Scheduled) = 0
  BY <1>1, SumEmpty DEF TotalPosition
<1>3. QED BY <1>2, SessionAssumption DEF Init, PositionAddsUp

LEMMA PositionStep ==
  TypeInv /\ TypeInv' /\ OrdersInv /\ PositionAddsUp /\ [Next]_vars => PositionAddsUp'
<1> SUFFICES ASSUME TypeInv, TypeInv', OrdersInv, PositionAddsUp, [Next]_vars
             PROVE  PositionAddsUp'
  OBVIOUS
<1>a. /\ heap \in Book /\ order \in Order /\ pending \in Seq(Order)
      /\ twapOrders \in Seq(Order) /\ twapHead \in 0..Len(twapOrders)
      /\ volume \in Int /\ selfTraded \in Int /\ targetVolume \in Int
      /\ (pc \notin {"collect", "fill", "cancel"} => pending = <<>>)
  BY DEF TypeInv, TypeOK, PendingOnlyInAon
<1>b. AtRest \in SUBSET Order /\ IsFiniteSet(AtRest) /\ UniqueUid(AtRest)
  BY RestSides DEF OrdersInv
<1>c. Scheduled \in SUBSET Order /\ IsFiniteSet(Scheduled) /\ TotalPosition(Scheduled) \in Int
  BY ScheduledType, TotalsType
<1>d. OursAtWork = Ours(AtRest) /\ OursAtWork' = Ours(AtRest')
  <2>1. OursAtWork = Ours(AtRest) /\ OursAtWork' = Ours(AtRest)'
    BY RestSides, RestSidesNext
  <2>2. QED BY <2>1 DEF Ours
<1>e. TotalPosition(OursAtWork) \in Int
  BY <1>d, OursType
<1>f. targetVolume = volume + TotalPosition(OursAtWork) + TotalPosition(Scheduled) + selfTraded
  BY DEF PositionAddsUp
<1>1. CASE InsertAlpha
  <2>1. PICK timestamp \in AlphaTimes, target \in Targets :
          /\ targetVolume' = target
          /\ twapOrders' = IF target = targetVolume THEN twapOrders
                           ELSE twapOrders \o Slices(timestamp, target - targetVolume)
    BY <1>1 DEF InsertAlpha
  <2>2. /\ heap' = heap /\ pending' = pending /\ twapHead' = twapHead
        /\ volume' = volume /\ selfTraded' = selfTraded
    BY <1>1 DEF InsertAlpha, aon, money
  <2>3. AtRest' = AtRest
    BY <2>2 DEF AtRest, All, Collected
  <2>4. CASE target = targetVolume
    <3>1. Scheduled' = Scheduled
      BY <2>1, <2>2, <2>4 DEF Scheduled
    <3>2. QED BY <2>1, <2>2, <2>3, <2>4, <3>1, PositionSame
  <2>5. CASE target # targetVolume
    <3> DEFINE diff == target - targetVolume
    <3>1. timestamp \in Int /\ target \in Int /\ diff \in Int /\ diff # 0
      BY <1>a, <2>5, DataAssumption
    <3>2. twapOrders' = twapOrders \o Slices(timestamp, diff)
      BY <2>1, <2>5
    <3> HIDE DEF diff
    <3>3. PICK d \in Int : d = diff
      BY <3>1
    <3>4. TotalPosition(Scheduled') = TotalPosition(Scheduled) + d
      BY <2>2, <3>1, <3>2, <3>3, SlicesAddUp
    <3>5. TotalPosition(OursAtWork') = TotalPosition(OursAtWork)
      BY <1>d, <2>3
    <3>6. targetVolume' = targetVolume + d
      BY <1>a, <2>1, <3>1, <3>3 DEF diff
    <3>7. targetVolume' = volume' + TotalPosition(OursAtWork') + TotalPosition(Scheduled')
                            + selfTraded'
      BY <1>a, <1>c, <1>e, <1>f, <2>2, <3>4, <3>5, <3>6
    <3>8. QED BY <3>7 DEF PositionAddsUp
  <2>6. QED BY <2>4, <2>5
<1>g. ASSUME heap' = heap, pending' = pending, UNCHANGED twap, UNCHANGED money
      PROVE  PositionAddsUp'
  <2>1. AtRest' = AtRest /\ Scheduled' = Scheduled
    BY <1>g DEF AtRest, All, Collected, Scheduled, twap
  <2>2. QED BY <1>g, <2>1, PositionSame DEF twap, money
<1>2. CASE InsertOrderLog
  BY <1>2, <1>g DEF InsertOrderLog, aon
<1>3. CASE OnComplete
  BY <1>3, <1>g DEF OnComplete, aon
<1>4. CASE ProcessTwapOrder
  <2>0. twapHead < Len(twapOrders)
    BY <1>4 DEF ProcessTwapOrder, TwapDue
  <2>1. PICK next : next = twapOrders[twapHead + 1]
    OBVIOUS
  <2>2. next \in Order /\ next.uid = -(twapHead + 1) /\ next.type = MyContract
    <3>1. twapHead + 1 \in DOMAIN twapOrders
      BY <1>a, <2>0
    <3>2. QED BY <1>a, <2>1, <3>1 DEF OrdersInv
  <2>3. PICK basePrice \in BasePrice(next.direction) :
          LET slice == [next EXCEPT !.price = basePrice]
          IN  /\ twapOrders' = [twapOrders EXCEPT ![twapHead + 1] = slice]
              /\ heap' = IF slice.volume = 0 THEN heap ELSE WithOrder(heap, slice)
    BY <1>4, <2>1 DEF ProcessTwapOrder
  <2>4. PICK slice : slice = [next EXCEPT !.price = basePrice]
    OBVIOUS
  <2>5. /\ slice \in Order /\ slice.uid = next.uid /\ slice.type = next.type
        /\ slice.direction = next.direction /\ slice.volume = next.volume
    <3>1. basePrice \in Int
      <4>1. next.direction \in Directions /\ lastPrice \in Int
        BY <2>2, OrderFields DEF TypeInv, TypeOK
      <4>2. QED BY <1>a, <4>1, BasePriceType
    <3>2. QED BY <2>2, <2>4, <3>1 DEF Order
  <2>6. /\ twapOrders' = [twapOrders EXCEPT ![twapHead + 1] = slice]
        /\ heap' = IF slice.volume = 0 THEN heap ELSE WithOrder(heap, slice)
    BY <2>3, <2>4
  <2>7. /\ twapHead' = twapHead + 1 /\ pending' = pending /\ targetVolume' = targetVolume
        /\ volume' = volume /\ selfTraded' = selfTraded
    BY <1>4 DEF ProcessTwapOrder, aon, money
  <2>8. next \in Scheduled /\ Scheduled' = Scheduled \ {next}
    BY <2>0, <2>1, <2>6, <2>7, ScheduledNext
  <2>9. TotalPosition(Scheduled') =
          TotalPosition(Scheduled) - Signed(next.direction, next.volume)
    BY <1>c, <2>8, TotalsRemove
  <2>10. TotalPosition(OursAtWork') =
           TotalPosition(OursAtWork) + Signed(next.direction, next.volume)
    <3>1. CASE slice.volume = 0
      <4>1. AtRest' = AtRest
        BY <2>6, <2>7, <3>1 DEF AtRest, All, Collected
      <4>2. next.volume \in Int /\ next.volume = 0
        BY <2>5, <3>1
      <4>3. Signed(next.direction, next.volume) = 0
        BY <4>2, NothingSigned
      <4>4. QED BY <1>d, <1>e, <4>1, <4>3
    <3>2. CASE slice.volume # 0
      <4>1. AtRest' = AtRest \cup {slice}
        BY <2>5, <2>6, <2>7, <3>2, PlacedRest
      <4>2. slice \notin AtRest
        <5>1. \A o \in AtRest : -twapHead <= o.uid
          BY DEF OrdersInv
        <5>2. slice.uid = -(twapHead + 1) /\ twapHead \in Nat
          BY <1>a, <2>2, <2>5
        <5>3. QED BY <5>1, <5>2
      <4>3. Ours(AtRest') = Ours(AtRest) \cup {slice} /\ slice \notin Ours(AtRest)
        BY <2>2, <2>5, <4>1, <4>2 DEF Ours
      <4>4. Ours(AtRest) \in SUBSET Order /\ IsFiniteSet(Ours(AtRest))
        <5>1. Ours(AtRest) \in SUBSET AtRest
          BY DEF Ours
        <5>2. QED BY <1>b, <5>1, FS_Subset
      <4>5. TotalPosition(Ours(AtRest) \cup {slice}) =
              TotalPosition(Ours(AtRest)) + Signed(slice.direction, slice.volume)
        BY <2>5, <4>3, <4>4, TotalsAdd
      <4>6. QED BY <1>d, <2>5, <4>3, <4>5
    <3>3. QED BY <3>1, <3>2
  <2>11. Signed(next.direction, next.volume) \in Int
    BY <2>2, OrderFields DEF Signed
  <2>12. targetVolume' = volume' + TotalPosition(OursAtWork') + TotalPosition(Scheduled')
                           + selfTraded'
    <3>1. PICK s \in Int : s = Signed(next.direction, next.volume)
      BY <2>11
    <3>2. QED BY <1>a, <1>c, <1>e, <1>f, <2>7, <2>9, <2>10, <3>1
  <2>13. QED BY <2>12 DEF PositionAddsUp
<1>5. CASE CloseDone
  BY <1>5, <1>g DEF CloseDone, aon
<1>h. ASSUME NEW price \in Int, pc = "order", ThenMatch, pending' = pending,
             heap' = WithOrder(heap, [order EXCEPT !.price = price])
      PROVE  PositionAddsUp'
  <2> DEFINE x == [order EXCEPT !.price = price]
  <2>1. x \in Order /\ x.type = order.type
    BY <1>a DEF Order
  <2>2. heap' = WithOrder(heap, x)
    BY <1>h
  <2> HIDE DEF x
  <2>3. AtRest' = AtRest \cup {x}
    BY <1>h, <2>1, <2>2, PlacedRest
  <2>4. x.type # MyContract
    BY <2>1 DEF OrdersInv, LogTypes, MyContract, PriceLimit, AllOrNothing
  <2>5. Ours(AtRest') = Ours(AtRest)
    BY <2>3, <2>4 DEF Ours
  <2>6. Scheduled' = Scheduled /\ UNCHANGED <<targetVolume, volume, selfTraded>>
    BY <1>h DEF ThenMatch, twap, money, Scheduled
  <2>7. OursAtWork' = OursAtWork
    BY <1>d, <2>5
  <2>8. QED BY <2>6, <2>7 DEF PositionAddsUp
<1>i. ASSUME ThenMatch, pending' = pending, heap' = heap
      PROVE  PositionAddsUp'
  BY <1>i, <1>g DEF ThenMatch
<1>6. CASE PlacePriceLimit
  <2>1. pc = "order" /\ ThenMatch /\ pending' = pending
    BY <1>6 DEF PlacePriceLimit, Placing, ThenMatch, aon
  <2>2. PICK basePrice \in BasePrice(order.direction) :
          heap' = IF InBand(order.direction, basePrice, basePrice + order.price)
                    THEN WithOrder(heap, [order EXCEPT !.price = basePrice + order.price])
                    ELSE heap
    BY <1>6 DEF PlacePriceLimit
  <2>3. basePrice + order.price \in Int
    <3>1. order.direction \in Directions /\ lastPrice \in Int /\ order.price \in Int
      BY <1>a, OrderFields DEF TypeInv, TypeOK
    <3>2. basePrice \in Int
      BY <1>a, <3>1, BasePriceType
    <3>3. QED BY <3>1, <3>2
  <2>4. QED BY <1>h, <1>i, <2>1, <2>2, <2>3
<1>7. CASE PlaceAtBest
  <2>1. pc = "order" /\ ThenMatch /\ pending' = pending
    BY <1>7 DEF PlaceAtBest, Placing, ThenMatch, aon
  <2> DEFINE side == IF order.type = OurBestPrice THEN order.direction
                                                  ELSE Opposite(order.direction)
  <2>2. side \in Directions
    BY <1>a, OrderFields
  <2>3. heap' = heap \/ \E top \in Tops(side) :
          heap' = WithOrder(heap, [order EXCEPT !.price = top.price])
    BY <1>7 DEF PlaceAtBest
  <2> HIDE DEF side
  <2>4. \A top \in Tops(side) : top.price \in Int
    BY <1>a, <2>2, TopsType, OrderFields
  <2>5. QED BY <1>h, <1>i, <2>1, <2>3, <2>4
<1>8. CASE MatchTrade
  <2>1. PICK sale \in Tops(Sale), buy \in Tops(Buy) :
          /\ heap' = Taken(Taken(heap, sale, TradeVolume(sale, buy)), buy, TradeVolume(sale, buy))
          /\ TradeOrder(sale, buy)
    BY <1>8 DEF MatchTrade
  <2>2. PICK v : v = TradeVolume(sale, buy)
    OBVIOUS
  <2>3. heap' = Taken(Taken(heap, sale, v), buy, v)
    BY <2>1, <2>2
  <2>4. /\ pc = "match" /\ pending' = pending /\ Scheduled' = Scheduled
        /\ targetVolume' = targetVolume
    BY <1>8 DEF MatchTrade, aon, twap, Scheduled
  <2>5. /\ v \in Nat /\ v <= sale.volume /\ v <= buy.volume
        /\ sale.direction = Sale /\ buy.direction = Buy
        /\ sale \in AtRest /\ buy \in Reduced(AtRest, sale, v)
        /\ AtRest' = Reduced(Reduced(AtRest, sale, v), buy, v)
    BY <2>2, <2>3, <2>4, MatchRest
  <2> DEFINE mid == Reduced(AtRest, sale, v)
             first  == IF sale.type = MyContract THEN Signed(Sale, v) ELSE 0
             second == IF buy.type = MyContract THEN Signed(Buy, v) ELSE 0
  <2>6. mid \in SUBSET Order /\ IsFiniteSet(mid) /\ UniqueUid(mid)
    BY <1>b, <2>5, ReducedType
  <2>7. /\ TotalPosition(Ours(mid)) = TotalPosition(Ours(AtRest)) - first
        /\ TotalPosition(Ours(AtRest)) \in Int
    BY <1>b, <2>5, PartsTraded
  <2>8. buy \in mid /\ AtRest' = Reduced(mid, buy, v) /\ sale \in Order /\ buy \in Order
    BY <1>b, <2>5, <2>6
  <2> HIDE DEF mid
  <2>9. TotalPosition(Ours(AtRest')) = TotalPosition(Ours(mid)) - second
    BY <2>5, <2>6, <2>8, PartsTraded
  <2>10. first \in Int /\ second \in Int
    BY <2>5 DEF Signed
  <2>11. volume' + selfTraded' = volume + selfTraded + first + second
    BY <2>1, <2>2, <2>5, <2>8, TradeBooked
  <2> HIDE DEF first, second
  <2>12. PICK change \in Int : change = first + second
    BY <2>10
  <2>13. TotalPosition(Ours(AtRest')) = TotalPosition(Ours(AtRest)) - change
    BY <2>7, <2>9, <2>10, <2>12
  <2>14. volume' + selfTraded' = volume + selfTraded + change
    BY <1>a, <2>10, <2>11, <2>12
  <2>15. QED BY <2>4, <2>13, <2>14, PositionTraded
<1>9. CASE MatchDone
  BY <1>9, <1>g DEF MatchDone, aon
<1>10. CASE StartSweep
  BY <1>10, <1>g DEF StartSweep, aon
<1>j. ASSUME NEW top, NEW v, Execute(top), v = Lesser(order.volume, top.volume), v \in Nat,
             v <= top.volume, top.direction = Opposite(order.direction), top \in AtRest,
             AtRest' = Reduced(AtRest, top, v), UNCHANGED twap
      PROVE  PositionAddsUp'
  <2>1. PICK change : change = IF top.type = MyContract THEN Signed(top.direction, v) ELSE 0
    OBVIOUS
  <2>2. change \in Int
    BY <1>j, <2>1 DEF Signed
  <2>3. TotalPosition(Ours(AtRest')) = TotalPosition(Ours(AtRest)) - change
    BY <1>b, <1>j, <2>1, PartsTraded
  <2>4. volume' + selfTraded' = volume + selfTraded + change
    BY <1>b, <1>j, <2>1, ExecuteBooked
  <2>5. Scheduled' = Scheduled /\ targetVolume' = targetVolume
    BY <1>j DEF twap, Scheduled
  <2>6. QED BY <2>2, <2>3, <2>4, <2>5, PositionTraded
<1>11. CASE SweepTrade
  <2>1. PICK top \in Tops(Opposite(order.direction)) :
          /\ Execute(top)
          /\ LET v == Lesser(order.volume, top.volume) IN heap'  = Taken(heap, top, v)
    BY <1>11 DEF SweepTrade
  <2>2. PICK v : v = Lesser(order.volume, top.volume)
    OBVIOUS
  <2>3. heap' = Taken(heap, top, v)
    BY <2>1, <2>2
  <2>4. pc = "sweep" /\ pending' = pending /\ UNCHANGED twap
    BY <1>11 DEF SweepTrade, aon
  <2>5. /\ v \in Nat /\ v <= top.volume /\ top.direction = Opposite(order.direction)
        /\ top \in AtRest /\ AtRest' = Reduced(AtRest, top, v)
    BY <2>2, <2>3, <2>4, SweepRest
  <2>6. QED BY <1>j, <2>1, <2>2, <2>4, <2>5
<1>12. CASE SweepDone
  BY <1>12, <1>g DEF SweepDone, aon
<1>13. CASE StartAllOrNothing
  BY <1>13, <1>g DEF StartAllOrNothing
<1>14. CASE Collect \/ Cancel
  <2>1. UNCHANGED <<money, twap>>
    BY <1>14 DEF Collect, Cancel
  <2>2. Scheduled' = Scheduled
    BY <2>1 DEF twap, Scheduled
  <2>3. QED BY <1>14, <2>1, <2>2, QueueRest, PositionSame DEF money, twap
<1>15. CASE CollectDone
  BY <1>15, <1>g DEF CollectDone, aon
<1>16. CASE Fill
  <2>1. PICK top : top = Head(pending)
    OBVIOUS
  <2>2. PICK v : v = Lesser(order.volume, top.volume)
    OBVIOUS
  <2>3. /\ Execute(top)
        /\ heap' = IF top.volume = v THEN heap
                   ELSE WithOrder(heap, [top EXCEPT !.volume = @ - v])
        /\ pending # <<>> /\ pending' = Tail(pending) /\ UNCHANGED twap
    BY <1>16, <2>1, <2>2 DEF Fill
  <2>4. /\ v \in Nat /\ v <= top.volume /\ top.direction = Opposite(order.direction)
        /\ top \in AtRest /\ AtRest' = Reduced(AtRest, top, v)
    BY <2>1, <2>2, <2>3, FillRest
  <2>5. QED BY <1>j, <2>2, <2>3, <2>4
<1>17. CASE AllOrNothingDone
  BY <1>17, <1>g DEF AllOrNothingDone
<1>18. CASE UNCHANGED vars
  BY <1>18, <1>g DEF vars, aon
<1>19. QED BY <1>1, <1>2, <1>3, <1>4, <1>5, <1>6, <1>7, <1>8, <1>9, <1>10, <1>11, <1>12,
              <1>13, <1>14, <1>15, <1>16, <1>17, <1>18
           DEF Next, Environment, Engine, Terminated

LEMMA OrdersAlways == Spec => [](TypeInv /\ OrdersInv)
<1>1. Init => OrdersInv
  BY OrdersInit
<1>2. TypeInv /\ TypeInv' /\ OrdersInv /\ [Next]_vars => OrdersInv'
  BY OrdersStep
<1>3. QED BY <1>1, <1>2, TypeCorrectStrong, PTL DEF Spec

\* The position the last alpha asked for is the position held, plus what our
\* orders at rest and the slices not yet sent would add to it, plus what two of
\* our own orders traded with each other and the engine booked as a sale only
\* (contract_engine.cpp: insertAlpha, processTwapOrdersIfNecessary, tradeOrder):
\* whatever the day, no share of an alpha is lost or asked for twice.
THEOREM NoShareLost == Spec => []PositionAddsUp
<1>1. Init => PositionAddsUp
  BY PositionInit
<1>2. TypeInv /\ TypeInv' /\ OrdersInv /\ PositionAddsUp /\ [Next]_vars => PositionAddsUp'
  BY PositionStep
<1>3. QED BY <1>1, <1>2, OrdersAlways, PTL DEF Spec

-----------------------------------------------------------------------------
(* Both sides of a trade.                                                  *)

Trading == pc \in {"match", "sweep", "collect", "fill", "cancel"} /\ pc' \in {pc, "fill", "cancel"}

\* What an executing order brings to its side.
InHandVolume(direction) ==
  IF pc \in {"sweep", "collect", "fill", "cancel"} /\ order.direction = direction
    THEN order.volume ELSE 0

LEMMA SupplyParts ==
  ASSUME TypeInv, NEW direction \in Directions
  PROVE  Supply(direction) = TotalVolume(SideOf(AtRest, direction)) + InHandVolume(direction)
BY RestSides DEF Supply, InHandVolume

LEMMA SupplyPartsAlways ==
  TypeInv => /\ Supply(Sale) = TotalVolume(SideOf(AtRest, Sale)) + InHandVolume(Sale)
             /\ Supply(Buy) = TotalVolume(SideOf(AtRest, Buy)) + InHandVolume(Buy)
BY SupplyParts DEF Directions

LEMMA SupplyPartsNext ==
  TypeInv' => (/\ Supply(Sale) = TotalVolume(SideOf(AtRest, Sale)) + InHandVolume(Sale)
               /\ Supply(Buy) = TotalVolume(SideOf(AtRest, Buy)) + InHandVolume(Buy))'
BY SupplyPartsAlways, PTL

LEMMA SideVolumeType ==
  ASSUME TypeInv, OrdersInv, NEW direction
  PROVE  TotalVolume(SideOf(AtRest, direction)) \in Int
<1>1. SideOf(AtRest, direction) \in SUBSET AtRest
  BY DEF SideOf
<1>2. QED BY <1>1, RestSides, PartType, TotalsType DEF OrdersInv

\* If both sides lose v, or nothing.
LEMMA SupplyBoth ==
  ASSUME TypeInv, TypeInv', OrdersInv, NEW v \in Int,
         TotalVolume(SideOf(AtRest', Sale)) + InHandVolume(Sale)' =
           TotalVolume(SideOf(AtRest, Sale)) + InHandVolume(Sale) - v,
         TotalVolume(SideOf(AtRest', Buy)) + InHandVolume(Buy)' =
           TotalVolume(SideOf(AtRest, Buy)) + InHandVolume(Buy) - v
  PROVE  Supply(Sale) - Supply(Sale)' = Supply(Buy) - Supply(Buy)'
<1>1. /\ TotalVolume(SideOf(AtRest, Sale)) \in Int /\ TotalVolume(SideOf(AtRest, Buy)) \in Int
      /\ InHandVolume(Sale) \in Int /\ InHandVolume(Buy) \in Int
  <2>1. order.volume \in Int
    <3>1. order \in Order
      BY DEF TypeInv, TypeOK
    <3>2. QED BY <3>1, OrderFields
  <2>2. InHandVolume(Sale) \in Int /\ InHandVolume(Buy) \in Int
    BY <2>1 DEF InHandVolume
  <2>3. QED BY <2>2, SideVolumeType
<1>2. /\ Supply(Sale)' = Supply(Sale) - v /\ Supply(Sale) \in Int
      /\ Supply(Buy)' = Supply(Buy) - v /\ Supply(Buy) \in Int
  BY <1>1, SupplyPartsAlways, SupplyPartsNext DEF SideOf
<1>3. PICK a \in Int, b \in Int : a = Supply(Sale) /\ b = Supply(Buy)
  BY <1>2
<1>4. a - (a - v) = b - (b - v)
  OBVIOUS
<1>5. QED BY <1>2, <1>3, <1>4

LEMMA SupplyStep ==
  TypeInv /\ TypeInv' /\ OrdersInv /\ [Next]_vars =>
    (/\ pc \in {"match", "sweep", "collect", "fill", "cancel"}
     /\ pc' \in {pc, "fill", "cancel"}
     => Supply(Sale) - Supply(Sale)' = Supply(Buy) - Supply(Buy)')
<1> SUFFICES ASSUME TypeInv, TypeInv', OrdersInv, [Next]_vars, Trading
             PROVE  Supply(Sale) - Supply(Sale)' = Supply(Buy) - Supply(Buy)'
  BY DEF Trading
<1>a. /\ order \in Order /\ order.volume \in Nat /\ order.direction \in Directions
      /\ resume \in {"idle", "order", "close"} /\ Sale # Buy /\ Directions = {Sale, Buy}
  BY OrderFields DEF TypeInv, TypeOK, Directions, Sale, Buy
<1>b. AtRest \in SUBSET Order /\ IsFiniteSet(AtRest) /\ UniqueUid(AtRest)
  BY RestSides DEF OrdersInv
<1>c. /\ TotalVolume(SideOf(AtRest, Sale)) \in Int /\ TotalVolume(SideOf(AtRest, Buy)) \in Int
  BY SideVolumeType
<1>d. ASSUME AtRest' = AtRest, order' = order, pc' = pc \/ (pc = "collect" /\ pc' \in {"fill", "cancel"})
      PROVE  Supply(Sale) - Supply(Sale)' = Supply(Buy) - Supply(Buy)'
  <2>1. InHandVolume(Sale)' = InHandVolume(Sale) /\ InHandVolume(Buy)' = InHandVolume(Buy)
    BY <1>d DEF InHandVolume
  <2>2. InHandVolume(Sale) \in Int /\ InHandVolume(Buy) \in Int
    BY <1>a DEF InHandVolume
  <2>3. PICK z \in Int : z = 0
    OBVIOUS
  <2>4. QED BY <1>c, <1>d, <2>1, <2>2, <2>3, SupplyBoth
<1>e. ASSUME NEW top, NEW v \in Nat, v <= order.volume, v <= top.volume, top \in AtRest,
             top.direction = Opposite(order.direction), AtRest' = Reduced(AtRest, top, v),
             order' = [order EXCEPT !.volume = @ - v], pc \in {"sweep", "fill"}, pc' = pc
      PROVE  Supply(Sale) - Supply(Sale)' = Supply(Buy) - Supply(Buy)'
  <2>1. order'.volume = order.volume - v /\ order'.direction = order.direction
    BY <1>a, <1>e, LeftOrder DEF LeftOf
  <2>2. \A direction : TotalVolume(SideOf(AtRest', direction)) =
          TotalVolume(SideOf(AtRest, direction)) - (IF top.direction = direction THEN v ELSE 0)
    BY <1>b, <1>e, PartsTraded
  <2>3. \A direction \in Directions :
          /\ InHandVolume(direction)' =
               InHandVolume(direction) - (IF order.direction = direction THEN v ELSE 0)
          /\ InHandVolume(direction) \in Int
    BY <1>a, <1>e, <2>1 DEF InHandVolume
  <2>4. \A direction \in Directions :
          IF top.direction = direction THEN order.direction # direction
                                       ELSE order.direction = direction
    BY <1>a, <1>e DEF Opposite
  <2>5. \A direction \in Directions :
          TotalVolume(SideOf(AtRest', direction)) + InHandVolume(direction)' =
            TotalVolume(SideOf(AtRest, direction)) + InHandVolume(direction) - v
    <3>1. ASSUME NEW direction \in Directions
          PROVE  TotalVolume(SideOf(AtRest', direction)) + InHandVolume(direction)' =
                   TotalVolume(SideOf(AtRest, direction)) + InHandVolume(direction) - v
      <4>1. PICK a \in Int, b \in Int :
              a = TotalVolume(SideOf(AtRest, direction)) /\ b = InHandVolume(direction)
        BY <1>a, <1>c, <2>3
      <4>2. CASE top.direction = direction
        BY <2>2, <2>3, <2>4, <4>1, <4>2
      <4>3. CASE top.direction # direction
        BY <2>2, <2>3, <2>4, <4>1, <4>3
      <4>4. QED BY <4>2, <4>3
    <3>2. QED BY <3>1
  <2>6. QED BY <1>a, <2>5, SupplyBoth
<1>1. CASE MatchTrade
  <2>1. PICK sale \in Tops(Sale), buy \in Tops(Buy) :
          heap' = Taken(Taken(heap, sale, TradeVolume(sale, buy)), buy, TradeVolume(sale, buy))
    BY <1>1 DEF MatchTrade
  <2>2. PICK v : v = TradeVolume(sale, buy)
    OBVIOUS
  <2>3. heap' = Taken(Taken(heap, sale, v), buy, v)
    BY <2>1, <2>2
  <2>4. pc = "match" /\ pc' = pc /\ pending' = pending
    BY <1>1 DEF MatchTrade, aon
  <2>5. /\ v \in Nat /\ v <= sale.volume /\ v <= buy.volume
        /\ sale.direction = Sale /\ buy.direction = Buy
        /\ sale \in AtRest /\ buy \in Reduced(AtRest, sale, v)
        /\ AtRest' = Reduced(Reduced(AtRest, sale, v), buy, v)
    BY <2>2, <2>3, <2>4, MatchRest
  <2> DEFINE mid == Reduced(AtRest, sale, v)
  <2>6. mid \in SUBSET Order /\ IsFiniteSet(mid) /\ UniqueUid(mid)
    BY <1>b, <2>5, ReducedType
  <2>7. \A direction : TotalVolume(SideOf(mid, direction)) =
          TotalVolume(SideOf(AtRest, direction)) - (IF Sale = direction THEN v ELSE 0)
    BY <1>b, <2>5, PartsTraded
  <2>8. buy \in mid /\ AtRest' = Reduced(mid, buy, v)
    BY <2>5
  <2> HIDE DEF mid
  <2>9. \A direction : TotalVolume(SideOf(AtRest', direction)) =
          TotalVolume(SideOf(mid, direction)) - (IF Buy = direction THEN v ELSE 0)
    BY <2>5, <2>6, <2>8, PartsTraded
  <2>10. /\ TotalVolume(SideOf(AtRest', Sale)) = TotalVolume(SideOf(AtRest, Sale)) - v
         /\ TotalVolume(SideOf(AtRest', Buy)) = TotalVolume(SideOf(AtRest, Buy)) - v
    <3>1. PICK a \in Int, b \in Int : /\ a = TotalVolume(SideOf(AtRest, Sale))
                                      /\ b = TotalVolume(SideOf(AtRest, Buy))
      BY <1>c
    <3>2. TotalVolume(SideOf(mid, Sale)) = a - v /\ TotalVolume(SideOf(mid, Buy)) = b
      BY <1>a, <2>5, <2>7, <3>1
    <3>3. TotalVolume(SideOf(AtRest', Sale)) = a - v /\ TotalVolume(SideOf(AtRest', Buy)) = b - v
      BY <1>a, <2>5, <2>9, <3>2
    <3>4. QED BY <3>1, <3>3
  <2>11. /\ InHandVolume(Sale) = 0 /\ InHandVolume(Sale)' = 0
         /\ InHandVolume(Buy) = 0 /\ InHandVolume(Buy)' = 0
    BY <2>4 DEF InHandVolume
  <2>12. QED BY <1>c, <2>5, <2>10, <2>11, SupplyBoth
<1>2. CASE SweepTrade
  <2>1. PICK top \in Tops(Opposite(order.direction)) :
          LET v == Lesser(order.volume, top.volume)
          IN  /\ order' = [order EXCEPT !.volume = @ - v]
              /\ heap'  = Taken(heap, top, v)
    BY <1>2 DEF SweepTrade
  <2>2. PICK v : v = Lesser(order.volume, top.volume)
    OBVIOUS
  <2>3. order' = [order EXCEPT !.volume = @ - v] /\ heap' = Taken(heap, top, v)
    BY <2>1, <2>2
  <2>4. pc = "sweep" /\ pending' = pending /\ pc' = pc
    BY <1>2 DEF SweepTrade, aon
  <2>5. /\ v \in Nat /\ v <= order.volume /\ v <= top.volume /\ top \in AtRest
        /\ top.direction = Opposite(order.direction) /\ AtRest' = Reduced(AtRest, top, v)
    BY <2>2, <2>3, <2>4, SweepRest
  <2>6. QED BY <1>e, <2>3, <2>4, <2>5
<1>3. CASE Fill
  <2>1. PICK top : top = Head(pending)
    OBVIOUS
  <2>2. PICK v : v = Lesser(order.volume, top.volume)
    OBVIOUS
  <2>3. /\ order' = [order EXCEPT !.volume = @ - v]
        /\ heap' = IF top.volume = v THEN heap
                   ELSE WithOrder(heap, [top EXCEPT !.volume = @ - v])
        /\ pending # <<>> /\ pending' = Tail(pending) /\ pc = "fill" /\ pc' = pc
    BY <1>3, <2>1, <2>2 DEF Fill
  <2>4. /\ v \in Nat /\ v <= order.volume /\ v <= top.volume /\ top \in AtRest
        /\ top.direction = Opposite(order.direction) /\ AtRest' = Reduced(AtRest, top, v)
    BY <2>1, <2>2, <2>3, FillRest
  <2>5. QED BY <1>e, <2>3, <2>4
<1>4. CASE Collect \/ Cancel
  <2>1. pc' = pc /\ order' = order
    BY <1>4 DEF Collect, Cancel
  <2>2. QED BY <1>4, <1>d, <2>1, QueueRest
<1>5. CASE CollectDone
  <2>1. /\ pc = "collect" /\ pc' \in {"fill", "cancel"} /\ order' = order
        /\ heap' = heap /\ pending' = pending
    BY <1>5 DEF CollectDone, aon
  <2>2. AtRest' = AtRest
    BY <2>1 DEF AtRest, All, Collected
  <2>3. QED BY <1>d, <2>1, <2>2
<1>6. CASE UNCHANGED vars
  <2>1. pc' = pc /\ order' = order /\ heap' = heap /\ pending' = pending
    BY <1>6 DEF vars, aon
  <2>2. AtRest' = AtRest
    BY <2>1 DEF AtRest, All, Collected
  <2>3. QED BY <1>d, <2>1, <2>2
\* The other steps begin a call or end one.
<1>7. ~(InsertAlpha \/ InsertOrderLog \/ OnComplete \/ ProcessTwapOrder \/ CloseDone)
  BY DEF Trading, InsertAlpha, InsertOrderLog, OnComplete, ProcessTwapOrder, CloseDone
<1>8. ~(PlacePriceLimit \/ PlaceAtBest \/ StartSweep \/ StartAllOrNothing)
  BY DEF Trading, PlacePriceLimit, PlaceAtBest, StartSweep, StartAllOrNothing, Placing
<1>9. ~(MatchDone \/ SweepDone \/ AllOrNothingDone)
  BY <1>a DEF Trading, MatchDone, SweepDone, AllOrNothingDone, Return
<1>10. QED BY <1>1, <1>2, <1>3, <1>4, <1>5, <1>6, <1>7, <1>8, <1>9
           DEF Next, Environment, Engine, Terminated

\* A step of an executing call takes the same volume from what sellers and from
\* what buyers have left, in the book, in the queue of AllOrNothing and in hand
\* (contract_engine.cpp: processTrade, BestFivePriceNoLeft, ImmediateDealNoLeft,
\* AllOrNothing): no trade is for more than one side gives.
THEOREM BothSidesTrade == Spec => TradesTakeBothSides
<1>1. TypeInv /\ TypeInv' /\ OrdersInv /\ [Next]_vars =>
        [/\ pc \in {"match", "sweep", "collect", "fill", "cancel"}
         /\ pc' \in {pc, "fill", "cancel"}
         => Supply(Sale) - Supply(Sale)' = Supply(Buy) - Supply(Buy)']_vars
  BY SupplyStep
<1>2. QED BY <1>1, OrdersAlways, PTL DEF Spec, TradesTakeBothSides

-----------------------------------------------------------------------------
(* The levels of BestFivePriceNoLeft.                                      *)

Prices == {tape[i] : i \in DOMAIN tape}

\* Only the order in hand has this type, and every price it has traded at is one
\* of the levels it has counted, the last of them lastPriceLevel.
LevelInv ==
  /\ order.type = BestFivePriceNoLeft =>
       pc \in {"order", "sweep"} \/ (pc = "match" /\ resume = "order")
  /\ pc = "sweep" /\ order.type = BestFivePriceNoLeft =>
       /\ levelNum <= BestLevels
       /\ IsFiniteSet(Prices) /\ Cardinality(Prices) <= levelNum
       /\ lastPriceLevel \in Prices \/ lastPriceLevel = -1

LEMMA PricesGrow ==
  ASSUME tape \in Seq(Int), NEW price \in Int, tape' = Append(tape, price)
  PROVE  Prices' = Prices \cup {price}
<1>1. /\ DOMAIN tape' = DOMAIN tape \cup {Len(tape) + 1} /\ tape'[Len(tape) + 1] = price
      /\ \A i \in DOMAIN tape : tape'[i] = tape[i]
  OBVIOUS
<1>2. QED BY <1>1 DEF Prices

LEMMA NoPrices ==
  ASSUME tape = <<>>
  PROVE  IsFiniteSet(Prices) /\ Cardinality(Prices) = 0
<1>1. Prices = {}
  BY DEF Prices
<1>2. QED BY <1>1, FS_EmptySet

LEMMA LevelInit == Init => LevelInv
BY DEF Init, LevelInv, NoOrder, PriceLimit, BestFivePriceNoLeft

LEMMA NoOrderNotBest == NoOrder.type # BestFivePriceNoLeft
BY DEF NoOrder, PriceLimit, BestFivePriceNoLeft

LEMMA LevelStep ==
  TypeInv /\ PriceInv /\ WorsenInv /\ LevelInv /\ [Next]_vars => LevelInv'
<1> SUFFICES ASSUME TypeInv, PriceInv, WorsenInv, LevelInv, [Next]_vars PROVE LevelInv'
  OBVIOUS
<1>a. /\ heap \in Book /\ order \in Order /\ tape \in Seq(Int) /\ BestLevels \in Nat \ {0}
      /\ levelNum \in Nat /\ resume \in {"idle", "order", "close"}
      /\ order.direction \in Directions /\ Opposite(order.direction) \in Directions
      /\ (pc # "match" => resume = "idle")
  BY OrderFields, SessionAssumption DEF TypeInv, TypeOK, CallStack
<1>b. ASSUME order'.type # BestFivePriceNoLeft PROVE LevelInv'
  BY <1>b DEF LevelInv
<1>1. CASE InsertAlpha \/ OnComplete
  <2>1. pc = "idle" /\ order' = order
    BY <1>1 DEF InsertAlpha, OnComplete
  <2>2. QED BY <1>b, <2>1 DEF LevelInv
<1>2. CASE InsertOrderLog
  BY <1>2 DEF InsertOrderLog, LevelInv
<1>3. CASE ProcessTwapOrder
  <2>1. pc \in {"order", "close"} /\ pc' = "match" /\ resume' = pc /\ order' = order
    BY <1>3 DEF ProcessTwapOrder
  <2>2. QED BY <2>1 DEF LevelInv
<1>4. CASE CloseDone
  <2>1. pc = "close" /\ order' = order
    BY <1>4 DEF CloseDone
  <2>2. QED BY <1>b, <2>1 DEF LevelInv
<1>5. CASE PlacePriceLimit \/ PlaceAtBest
  BY <1>5, <1>b, NoOrderNotBest DEF PlacePriceLimit, PlaceAtBest, ThenMatch
<1>6. CASE MatchTrade
  <2>1. pc = "match" /\ pc' = pc /\ resume' = resume /\ order' = order
    BY <1>6 DEF MatchTrade
  <2>2. QED BY <2>1 DEF LevelInv
<1>7. CASE MatchDone
  <2>1. pc = "match" /\ pc' = resume /\ order' = order
    BY <1>7 DEF MatchDone
  <2>2. QED BY <1>a, <2>1 DEF LevelInv
<1>8. CASE StartSweep
  <2>1. /\ pc = "order" /\ pc' = "sweep" /\ levelNum' = 0 /\ lastPriceLevel' = -1 /\ tape' = tape
    BY <1>8 DEF StartSweep, Placing
  <2>2. tape = <<>>
    BY <2>1 DEF WorsenInv
  <2>3. Prices' = Prices /\ IsFiniteSet(Prices) /\ Cardinality(Prices) = 0
    BY <2>1, <2>2, NoPrices DEF Prices
  <2>4. QED BY <1>a, <2>1, <2>3 DEF LevelInv
<1>9. CASE SweepTrade
  <2>1. PICK top \in Tops(Opposite(order.direction)) :
          /\ ~LevelsUsedUp(top)
          /\ IF order.type = BestFivePriceNoLeft /\ top.price # lastPriceLevel
               THEN levelNum' = levelNum + 1 /\ lastPriceLevel' = top.price
               ELSE UNCHANGED sweep
          /\ Execute(top)
          /\ order' = [order EXCEPT !.volume = @ - Lesser(order.volume, top.volume)]
    BY <1>9 DEF SweepTrade
  <2>2. pc = "sweep" /\ pc' = pc
    BY <1>9 DEF SweepTrade
  <2>3. order'.type = order.type
    BY <1>a, <2>1 DEF Order
  <2>4. SUFFICES ASSUME order.type = BestFivePriceNoLeft PROVE LevelInv'
    BY <1>b, <2>3
  <2>5. /\ levelNum <= BestLevels /\ IsFiniteSet(Prices) /\ Cardinality(Prices) <= levelNum
        /\ lastPriceLevel \in Prices \/ lastPriceLevel = -1
    BY <2>2, <2>4 DEF LevelInv
  <2>6. top \in Order /\ top \in heap[Opposite(order.direction)] /\ top.price \in Int
    BY <1>a, TopsType, OrderFields
  <2>7. top.price >= 0
    <3>1. top.price \in downLimit..upLimit
      BY <1>a, <2>6 DEF PriceInv, PricesInLimits
    <3>2. QED BY <3>1, LimitsAroundClose
  <2>8. top.timestamp < order.timestamp
    BY <1>a, <2>2, <2>6 DEF PriceInv, RestingOlder, InHand
  <2>9. tape' = Append(tape, top.price)
    BY <1>a, <2>1, <2>6, <2>8, ExecuteAtRestingPrice, ExecuteGrows
  <2>10. Prices' = Prices \cup {top.price}
    BY <1>a, <2>6, <2>9, PricesGrow
  <2>11. Cardinality(Prices) \in Nat
    BY <2>5, FS_CardinalityType
  <2>12. /\ IsFiniteSet(Prices \cup {top.price})
         /\ Cardinality(Prices \cup {top.price}) =
              IF top.price \in Prices THEN Cardinality(Prices) ELSE Cardinality(Prices) + 1
    BY <2>5, FS_AddElement
  <2>13. /\ IsFiniteSet(Prices)' /\ Cardinality(Prices)' = Cardinality(Prices \cup {top.price})
    BY <2>10, <2>12
  <2>14. CASE top.price = lastPriceLevel
    <3>1. top.price \in Prices
      BY <2>5, <2>6, <2>7, <2>14
    <3>2. levelNum' = levelNum /\ lastPriceLevel' = lastPriceLevel
      BY <2>1, <2>14 DEF sweep
    <3>3. QED BY <2>2, <2>5, <2>10, <2>12, <2>13, <2>14, <3>1, <3>2 DEF LevelInv
  <2>15. CASE top.price # lastPriceLevel
    <3>1. levelNum' = levelNum + 1 /\ lastPriceLevel' = top.price /\ levelNum + 1 <= BestLevels
      BY <1>a, <2>1, <2>4, <2>15 DEF LevelsUsedUp
    <3>2. lastPriceLevel' \in Prices'
      BY <2>10, <3>1
    <3>3. Cardinality(Prices)' <= levelNum'
      BY <1>a, <2>5, <2>11, <2>12, <2>13, <3>1
    <3>4. QED BY <2>2, <2>13, <3>1, <3>2, <3>3 DEF LevelInv
  <2>16. QED BY <2>14, <2>15
<1>10. CASE SweepDone \/ AllOrNothingDone
  BY <1>10, <1>b, NoOrderNotBest DEF SweepDone, AllOrNothingDone, Return
<1>11. CASE StartAllOrNothing
  <2>1. order' = order /\ order.type = AllOrNothing
    BY <1>11 DEF StartAllOrNothing, Placing
  <2>2. QED BY <1>b, <2>1 DEF AllOrNothing, BestFivePriceNoLeft
<1>12. CASE Collect \/ CollectDone \/ Cancel
  <2>1. pc \in {"collect", "cancel"} /\ order' = order
    BY <1>12 DEF Collect, CollectDone, Cancel
  <2>2. QED BY <1>b, <2>1 DEF LevelInv
<1>13. CASE Fill
  <2>1. /\ pc = "fill"
        /\ order' = [order EXCEPT !.volume = @ - Lesser(order.volume, Head(pending).volume)]
    BY <1>13 DEF Fill
  <2>2. order'.type = order.type
    BY <1>a, <2>1 DEF Order
  <2>3. QED BY <1>b, <2>1, <2>2 DEF LevelInv
<1>14. CASE UNCHANGED vars
  <2>1. UNCHANGED <<pc, resume, order, levelNum, lastPriceLevel, tape>>
    BY <1>14 DEF vars, sweep
  <2>2. Prices' = Prices
    BY <2>1 DEF Prices
  <2>3. QED BY <2>1, <2>2 DEF LevelInv
<1>15. QED BY <1>1, <1>2, <1>3, <1>4, <1>5, <1>6, <1>7, <1>8, <1>9, <1>10, <1>11, <1>12,
              <1>13, <1>14
           DEF Next, Environment, Engine, Terminated

\* BestFivePriceNoLeft trades at no more levels than it may (contract_engine.cpp:129)
\* and the slices that are matched before it at no more than one, if the order logs
\* of the instrument have different timestamps: otherwise a trade may be at the
\* price of the newcomer, which is no level of the book.
THEOREM LevelsKept ==
  ASSUME LogGap > 0
  PROVE  Spec => []AtMostBestLevels
<1>1. TypeInv /\ PriceInv /\ [Next]_vars => PriceInv'
  BY PriceStep
<1>2. Spec => [](TypeInv /\ BookInv /\ PriceInv)
  BY TypeCorrectStrong, BookInit, BookStep, PriceInit, <1>1, PTL DEF Spec
<1>3. TypeInv /\ WorsenInv /\ LevelInv => AtMostBestLevels
  <2> SUFFICES ASSUME TypeInv, WorsenInv, LevelInv, order.type = BestFivePriceNoLeft
               PROVE  Cardinality(Prices) <= BestLevels
    BY DEF AtMostBestLevels, Prices
  <2>1. BestLevels \in Nat \ {0} /\ levelNum \in Nat
    BY SessionAssumption DEF TypeInv, TypeOK
  <2>2. CASE pc = "order"
    <3>1. tape = <<>>
      BY <2>2 DEF WorsenInv
    <3>2. Cardinality(Prices) = 0
      BY <3>1, NoPrices
    <3>3. QED BY <2>1, <3>2
  <2>3. CASE pc = "sweep"
    <3>1. levelNum <= BestLevels /\ IsFiniteSet(Prices) /\ Cardinality(Prices) <= levelNum
      BY <2>3 DEF LevelInv
    <3>2. Cardinality(Prices) \in Nat
      BY <3>1, FS_CardinalityType
    <3>3. QED BY <2>1, <3>1, <3>2
  <2>4. CASE pc = "match" /\ resume = "order"
    <3>1. PICK x \in Order : Incoming(x)
      BY <2>4 DEF WorsenInv
    <3>2. DOMAIN tape = 1..Len(tape)
      BY DEF TypeInv, TypeOK
    <3>3. Prices \in SUBSET {x.price}
      BY <2>4, <3>1, <3>2 DEF Prices, Incoming
    <3>4. IsFiniteSet({x.price}) /\ Cardinality({x.price}) = 1
      BY FS_Singleton
    <3>5. Cardinality(Prices) <= 1 /\ IsFiniteSet(Prices)
      BY <3>3, <3>4, FS_Subset
    <3>6. Cardinality(Prices) \in Nat
      BY <3>5, FS_CardinalityType
    <3>7. QED BY <2>1, <3>5, <3>6
  <2>5. QED BY <2>2, <2>3, <2>4 DEF LevelInv
<1>4. QED BY <1>2, <1>3, WorsenInit, WorsenStep, LevelInit, LevelStep, PTL DEF Spec

=============================================================================
