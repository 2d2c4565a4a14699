------------------------- MODULE LotMatchingProofs -------------------------
(***************************************************************************)
(* Proofs about LotMatching, for every ledger and every value of its       *)
(* constants.                                                              *)
(*                                                                         *)
(* OldestFirst compares days, the loop compares positions.  The inductive  *)
(* invariant therefore carries both halves: the lots are in day order      *)
(* because the walk is (LotsInOrder, LotsPast), and consumption is a       *)
(* prefix of the lots (ConsumedPrefix), which a sale in progress preserves *)
(* because everything before its cursor is empty or it wants nothing more  *)
(* (CursorClear).  NothingLost is a pair of sums; during a sale they need  *)
(* what is on its way from the lots to the disposal (Balance).             *)
(*                                                                         *)
(* The refinement needs no more than where a sale stands: what it has      *)
(* taken is the front of the queue it found, the lots as they are now are  *)
(* the rest (TakenSoFar).  Each lot taken from is the first with units, so *)
(* its units come next (FirstUnits).                                       *)
(***************************************************************************)
EXTENDS LotRefinement, SequenceTheorems, FiniteSetTheorems, WellFoundedInduction, TLAPS

DatesInOrder == \A i, j \in 1..Len(sorted) : i < j => sorted[i].date <= sorted[j].date

Progress ==
  /\ at <= Len(sorted) + 1
  /\ pc = "take" => at <= Len(sorted)
  /\ pc \in {"convert", "sort"} => lots = << >> /\ at = 1

LotsInOrder == \A i, j \in 1..Len(lots) : i < j => lots[i].acquired <= lots[j].acquired

LotsPast == \A i \in 1..Len(lots) : at <= Len(sorted) => lots[i].acquired <= sorted[at].date

WithinLot == \A i \in 1..Len(lots) : lots[i].remaining <= lots[i].quantity

ConsumedPrefix ==
  \A i, j \in 1..Len(lots) :
    i < j /\ lots[j].remaining < lots[j].quantity => lots[i].remaining = 0

CursorClear ==
  pc = "take" =>
    wanted = 0 \/ \A i \in 1..Len(lots) : i < cursor => lots[i].remaining = 0

(* The sums of NothingLost.                                                *)
UnitsIn(ls) == SumFunction([i \in DOMAIN ls |-> ls[i].remaining])
CostIn(ls)  == SumFunction([i \in DOMAIN ls |-> ls[i].remaining * unitCost(ls[i])])

UnitsSold(ds) == SumFunction([i \in DOMAIN ds |-> ds[i].quantity])
CostSold(ds)  == SumFunction([i \in DOMAIN ds |-> ds[i].costBasis])

BoughtBy(s, n)    == {i \in 1..n : s[i].type \in Acquisitions}
UnitsBought(s, n) == SumFunction([i \in BoughtBy(s, n) |-> s[i].quantity])
CostBought(s, n)  == SumFunction([i \in BoughtBy(s, n) |-> s[i].quantity * s[i].price])

(* Units u and cost c are on their way from the lots to a disposal.        *)
Balanced(u, c) ==
  /\ UnitsIn(lots) + UnitsSold(disposals) + u = UnitsBought(sorted, at - 1)
  /\ CostIn(lots) + CostSold(disposals) + c = CostBought(sorted, at - 1)

Balance ==
  /\ pc \in {"convert", "sort"} => disposals = << >>
  /\ pc \in {"match", "done"} => Balanced(0, 0)
  /\ pc = "take" => /\ sorted[at].type = "sell"
                    /\ Balanced(sorted[at].quantity - wanted, cost)

IInv == TypeOK /\ DatesInOrder /\ Progress /\ LotsInOrder /\ LotsPast
        /\ WithinLot /\ ConsumedPrefix /\ CursorClear /\ Balance

----------------------------------------------------------------------------
(* Facts about the operators of Holdings.                                  *)

(* A lot opened by an acquisition has the type of a lot. *)
LEMMA NewLotType ==
  ASSUME NEW tx \in Transaction
  PROVE  NewLot(tx) \in Lot
<1>1. tx.quantity \in Nat /\ tx.price \in Nat /\ tx.date \in Dates
  BY QuantityAssumption DEF Transaction
<1>2. tx.quantity * tx.price \in Nat
  BY <1>1
<1> QED
  BY <1>1, <1>2 DEF NewLot, Lot

(* A lot costs its price per unit.                                         *)
LEMMA NewLotCost ==
  ASSUME NEW tx \in Transaction
  PROVE  NewLot(tx).remaining = tx.quantity /\ unitCost(NewLot(tx)) = tx.price
<1> DEFINE q == tx.quantity
           p == tx.price
<1>1. q \in Nat \ {0} /\ p \in Nat
  BY QuantityAssumption DEF Transaction
<1>2. unitCost(NewLot(tx)) = (q * p) \div q
  BY <1>1 DEF NewLot, unitCost
<1>3. \A m \in Nat \ {0} : \A n \in Nat : (m * n) \div m = n
  OBVIOUS
<1>4. (q * p) \div q = p
  BY <1>1, <1>3
<1> QED
  BY <1>2, <1>4 DEF NewLot

(* A lot's cost per unit is a natural number. *)
LEMMA UnitCostType ==
  ASSUME NEW lot, lot.quantity \in Nat, lot.costBasis \in Nat
  PROVE  unitCost(lot) \in Nat
BY DEF unitCost

(* The smaller of two numbers is one of them and exceeds neither. *)
LEMMA MinimumBounds ==
  ASSUME NEW a \in Nat, NEW b \in Nat
  PROVE  /\ minimum(a, b) \in Nat /\ minimum(a, b) <= a /\ minimum(a, b) <= b
         /\ minimum(a, b) = a \/ minimum(a, b) = b
BY DEF minimum

(* Restating a transaction in euro changes its price and nothing that the  *)
(* matching orders or counts by.                                           *)
LEMMA InEURType ==
  ASSUME NEW tx \in Transaction
  PROVE  InEUR(tx) \in Transaction
<1>1. tx.price * EuroRate[tx.date] \in Nat
  BY RateAssumption DEF Transaction
<1> QED
  BY <1>1 DEF InEUR, Transaction, Currencies

(* The order the sort picks is a date order. *)
LEMMA StableOrderSorted ==
  ASSUME NEW s \in Seq(Transaction), NEW p \in StableOrders(s)
  PROVE  LET r == [i \in DOMAIN s |-> s[p[i]]] IN
         /\ r \in Seq(Transaction)
         /\ \A i, j \in 1..Len(r) : i < j => r[i].date <= r[j].date
<1> DEFINE r == [i \in DOMAIN s |-> s[p[i]]]
<1>1. p \in [1..Len(s) -> 1..Len(s)]
  BY DEF StableOrders
<1>2. r \in [1..Len(s) -> Transaction]
  BY <1>1
<1>3. r \in Seq(Transaction) /\ Len(r) = Len(s)
  BY <1>2, IsASeq
<1>4. ASSUME NEW i \in 1..Len(r), NEW j \in 1..Len(r), i < j
      PROVE  r[i].date <= r[j].date
  <2>1. ComesBefore(s, p[i], p[j])
    BY <1>3, <1>4 DEF StableOrders
  <2>2. p[i] \in 1..Len(s) /\ p[j] \in 1..Len(s)
    BY <1>1, <1>3
  <2>3. s[p[i]] \in Transaction /\ s[p[j]] \in Transaction
    BY <2>2, ElementOfSeq
  <2>4. s[p[i]].date \in Nat /\ s[p[j]].date \in Nat
    BY <2>3, DatesAssumption DEF Transaction
  <2> QED
    BY <1>3, <2>1, <2>4 DEF ComesBefore
<1> QED
  BY <1>3, <1>4

(* Taking from a lot leaves it a lot, no fuller than it was. *)
LEMMA TakeType ==
  ASSUME NEW lot \in Lot, NEW w \in Nat
  PROVE  /\ minimum(w, lot.remaining) \in Nat
         /\ w - minimum(w, lot.remaining) \in Nat
         /\ [lot EXCEPT !.remaining = @ - minimum(w, lot.remaining)] \in Lot
         /\ w - minimum(w, lot.remaining) = 0
              \/ lot.remaining - minimum(w, lot.remaining) = 0
<1>1. /\ minimum(w, lot.remaining) \in Nat
      /\ minimum(w, lot.remaining) <= w
      /\ minimum(w, lot.remaining) <= lot.remaining
      /\ minimum(w, lot.remaining) = w \/ minimum(w, lot.remaining) = lot.remaining
  BY DEF minimum, Lot
<1>2. lot.remaining - minimum(w, lot.remaining) \in Nat
  BY <1>1 DEF Lot
<1> QED
  BY <1>1, <1>2 DEF Lot

----------------------------------------------------------------------------
(* Sums over finite sets.                                                  *)

(* Induction over finite sets: what holds of a set once it holds of the    *)
(* set without any one element holds of every finite set.                  *)
LEMMA SetInduction ==
  ASSUME NEW S, IsFiniteSet(S), NEW C,
         \A T \in SUBSET S : (\A x \in T : T \ {x} \in C) => T \in C
  PROVE  \A T \in SUBSET S : T \in C
<1> DEFINE R == StrictSubsetOrdering(S)
           B == {T \in SUBSET S : T \notin C}
<1>1. IsWellFoundedOn(R, SUBSET S)
  BY FS_StrictSubsetOrderingWellFounded, FS_FiniteSubsetsOfFinite
<1> SUFFICES ASSUME B # {} PROVE FALSE
  OBVIOUS
<1>2. B \in SUBSET SUBSET S
  OBVIOUS
<1> HIDE DEF R, B
<1>3. PICK T \in B : \A U \in B : ~ (<<U, T>> \in R)
  BY <1>1, <1>2, WFMin, Zenon
<1>4. ASSUME NEW x \in T PROVE T \ {x} \in C
  <2>1. T \in SUBSET S /\ T \ {x} \in SUBSET S
    BY <1>2, <1>3
  <2>2. <<T \ {x}, T>> \in R
    BY <2>1 DEF R, StrictSubsetOrdering
  <2>3. T \ {x} \notin B
    BY <1>3, <2>2
  <2> QED
    BY <2>1, <2>3 DEF B
<1> QED
  BY <1>3, <1>4 DEF B

----------------------------------------------------------------------------
(* SumFunctionOnSet adds the elements of a set in the order in which they  *)
(* are chosen; a fold is its table of the sums over the subsets.           *)
first(s) == CHOOSE x \in s : TRUE

IsFold(g, f, S) ==
  g = [s \in SUBSET S |-> IF s = {} THEN 0 ELSE f[first(s)] + g[s \ {first(s)}]]

LEMMA SumIsFold ==
  ASSUME NEW f, NEW S
  PROVE  SumFunctionOnSet(f, S) = (CHOOSE g : IsFold(g, f, S))[S]
BY DEF SumFunctionOnSet, FoldFunctionOnSet, MapThenFoldSet, IsFold, first

LEMMA First ==
  ASSUME NEW s, s # {}
  PROVE  first(s) \in s
BY DEF first

LEMMA FoldAt ==
  ASSUME NEW f, NEW S, NEW g, IsFold(g, f, S), NEW s \in SUBSET S
  PROVE  g[s] = IF s = {} THEN 0 ELSE f[first(s)] + g[s \ {first(s)}]
<1> DEFINE h == [t \in SUBSET S |-> IF t = {} THEN 0 ELSE f[first(t)] + g[t \ {first(t)}]]
<1>1. g = h
  BY DEF IsFold
<1>2. h[s] = IF s = {} THEN 0 ELSE f[first(s)] + g[s \ {first(s)}]
  OBVIOUS
<1> HIDE DEF h
<1> QED
  BY <1>1, <1>2

(* Two folds agree where both are defined.                                 *)
LEMMA FoldsAgree ==
  ASSUME NEW f, NEW S, IsFiniteSet(S), NEW g, IsFold(g, f, S),
         NEW T \in SUBSET S, NEW h, IsFold(h, f, T)
  PROVE  g[T] = h[T]
<1> DEFINE C == {s \in SUBSET T : g[s] = h[s]}
<1>1. IsFiniteSet(T)
  BY FS_Subset
<1>2. ASSUME NEW s \in SUBSET T, \A x \in s : s \ {x} \in C PROVE s \in C
  <2>1. CASE s = {}
    BY <2>1, FoldAt
  <2>2. CASE s # {}
    <3>1. s \ {first(s)} \in C
      BY <1>2, <2>2, First
    <3> QED
      BY <2>2, <3>1, FoldAt
  <2> QED
    BY <2>1, <2>2
<1> HIDE DEF C
<1>3. T \in C
  BY <1>1, <1>2, SetInduction
<1> QED
  BY <1>3 DEF C

LEMMA FoldExists ==
  ASSUME NEW f, NEW S, IsFiniteSet(S)
  PROVE  \E g : IsFold(g, f, S)
<1> DEFINE C == {T \in SUBSET S : \A U \in SUBSET T : \E g : IsFold(g, f, U)}
           fold(U) == CHOOSE g : IsFold(g, f, U)
<1>1. ASSUME NEW T \in SUBSET S, \A x \in T : T \ {x} \in C PROVE T \in C
  <2> DEFINE h == [s \in SUBSET T |-> IF s = {} THEN 0
                     ELSE f[first(s)] + fold(s \ {first(s)})[s \ {first(s)}]]
  <2>1. ASSUME NEW U \in SUBSET T, U # T PROVE \E g : IsFold(g, f, U)
    <3>1. PICK x \in T : x \notin U
      BY <2>1
    <3>2. T \ {x} \in C /\ U \in SUBSET (T \ {x})
      BY <1>1, <3>1
    <3> QED
      BY <3>2
  <2>2. ASSUME NEW U \in SUBSET T, U # T PROVE IsFold(fold(U), f, U)
    BY <2>1, <2>2
  <2> HIDE DEF fold
  <2>3. ASSUME NEW u \in SUBSET T, u # T PROVE h[u] = fold(u)[u]
    <3>1. IsFold(fold(u), f, u) /\ u \in SUBSET u /\ IsFiniteSet(u)
      BY <2>2, <2>3, FS_Subset
    <3>2. fold(u)[u] = IF u = {} THEN 0 ELSE f[first(u)] + fold(u)[u \ {first(u)}]
      BY <3>1, FoldAt
    <3>3. CASE u = {}
      BY <3>2, <3>3
    <3>4. CASE u # {}
      <4>1. first(u) \in u
        BY <3>4, First
      <4> DEFINE v == u \ {first(u)}
      <4>2. v \in SUBSET T /\ v # T /\ v \in SUBSET u
        BY <2>3, <4>1
      <4>3. IsFold(fold(v), f, v)
        BY <2>2, <4>2
      <4>4. fold(u)[v] = fold(v)[v]
        BY <3>1, <4>2, <4>3, FoldsAgree
      <4> QED
        BY <3>2, <3>4, <4>4
    <3> QED
      BY <3>3, <3>4
  <2>4. ASSUME NEW s \in SUBSET T, s # {}
        PROVE  fold(s \ {first(s)})[s \ {first(s)}] = h[s \ {first(s)}]
    <3>1. first(s) \in s /\ s \ {first(s)} \in SUBSET T /\ s \ {first(s)} # T
      BY <2>4, First
    <3> HIDE DEF h
    <3> QED
      BY <2>3, <3>1
  <2>5. IsFold(h, f, T)
    <3> DEFINE k == [s \in SUBSET T |-> IF s = {} THEN 0
                       ELSE f[first(s)] + h[s \ {first(s)}]]
    <3>1. \A s \in SUBSET T : h[s] = k[s]
      BY <2>4
    <3>2. h = k
      BY <3>1
    <3> QED
      BY <3>2 DEF IsFold
  <2> HIDE DEF h
  <2>6. \A U \in SUBSET T : \E g : IsFold(g, f, U)
    BY <2>1, <2>5
  <2> QED
    BY <2>6
<1> HIDE DEF C
<1>2. S \in C
  BY <1>1, SetInduction, ZenonT(60)
<1> QED
  BY <1>2 DEF C

(* A sum is its chosen element and the sum of the rest.                    *)
LEMMA SumChosen ==
  ASSUME NEW f, NEW S, IsFiniteSet(S)
  PROVE  /\ S = {} => SumFunctionOnSet(f, S) = 0
         /\ S # {} => /\ first(S) \in S
                      /\ SumFunctionOnSet(f, S)
                           = f[first(S)] + SumFunctionOnSet(f, S \ {first(S)})
<1> DEFINE fold(U) == CHOOSE g : IsFold(g, f, U)
           rest    == S \ {first(S)}
<1>1. IsFiniteSet(rest)
  BY FS_Subset
<1>2. IsFold(fold(S), f, S) /\ IsFold(fold(rest), f, rest)
  BY <1>1, FoldExists
<1>3. SumFunctionOnSet(f, S) = fold(S)[S] /\ SumFunctionOnSet(f, rest) = fold(rest)[rest]
  BY SumIsFold
<1> HIDE DEF fold
<1>4. fold(S)[S] = IF S = {} THEN 0 ELSE f[first(S)] + fold(S)[rest]
  BY <1>2, FoldAt
<1>5. fold(S)[rest] = fold(rest)[rest]
  BY <1>2, FoldsAgree
<1> QED
  BY <1>3, <1>4, <1>5, First

(* A sum of integers is one.                                               *)
LEMMA SumType ==
  ASSUME NEW S, IsFiniteSet(S), NEW f, \A x \in S : f[x] \in Int
  PROVE  SumFunctionOnSet(f, S) \in Int
<1> DEFINE C == {T \in SUBSET S : SumFunctionOnSet(f, T) \in Int}
<1>1. ASSUME NEW T \in SUBSET S, \A x \in T : T \ {x} \in C PROVE T \in C
  <2>1. IsFiniteSet(T)
    BY FS_Subset
  <2>2. CASE T = {}
    <3>1. SumFunctionOnSet(f, T) = 0
      BY <2>1, <2>2, SumChosen, Zenon
    <3> QED
      BY <3>1
  <2>3. CASE T # {}
    <3>1. first(T) \in T
      BY <2>1, <2>3, SumChosen
    <3>2. SumFunctionOnSet(f, T) = f[first(T)] + SumFunctionOnSet(f, T \ {first(T)})
      BY <2>1, <2>3, SumChosen
    <3>3. f[first(T)] \in Int /\ SumFunctionOnSet(f, T \ {first(T)}) \in Int
      BY <1>1, <3>1
    <3> QED
      BY <3>2, <3>3
  <2> QED
    BY <2>2, <2>3
<1> HIDE DEF C
<1>a. \A T \in SUBSET S : (\A x \in T : T \ {x} \in C) => T \in C
  BY <1>1
<1>b. \A T \in SUBSET S : T \in C
  BY <1>a, SetInduction, Zenon
<1>2. S \in C
  BY <1>b
<1> QED
  BY <1>2 DEF C

(* Any element may be taken out of a sum first.                            *)
LEMMA SumWithout ==
  ASSUME NEW S, IsFiniteSet(S), NEW f, \A x \in S : f[x] \in Int, NEW a \in S
  PROVE  SumFunctionOnSet(f, S) = f[a] + SumFunctionOnSet(f, S \ {a})
<1> DEFINE sum(T) == SumFunctionOnSet(f, T)
           C == {T \in SUBSET S : \A x \in T : sum(T) = f[x] + sum(T \ {x})}
<1>1. \A T \in SUBSET S : IsFiniteSet(T) /\ sum(T) \in Int
  BY FS_Subset, SumType
<1>2. ASSUME NEW T \in SUBSET S, \A x \in T : T \ {x} \in C PROVE T \in C
  <2>1. ASSUME NEW x \in T PROVE sum(T) = f[x] + sum(T \ {x})
    <3> DEFINE y == first(T)
    <3>1. y \in T /\ sum(T) = f[y] + sum(T \ {y})
      BY <1>1, SumChosen
    <3>2. CASE x = y
      BY <3>1, <3>2
    <3>3. CASE x # y
      <4> HIDE DEF y, sum
      <4>1. sum(T \ {y}) = f[x] + sum((T \ {y}) \ {x})
        BY <1>2, <3>1, <3>3
      <4>2. sum(T \ {x}) = f[y] + sum((T \ {x}) \ {y})
        BY <1>2, <3>1, <3>3
      <4>3. (T \ {y}) \ {x} = (T \ {x}) \ {y}
        OBVIOUS
      <4>4. f[x] \in Int /\ f[y] \in Int /\ sum((T \ {x}) \ {y}) \in Int
        BY <1>1, <3>1
      <4>5. sum(T) = f[y] + sum(T \ {y})
        BY <3>1
      <4> HIDE DEF C
      <4>6. \A p, q, r \in Int : q + (p + r) = p + (q + r)
        OBVIOUS
      <4>7. sum(T) = f[y] + (f[x] + sum((T \ {x}) \ {y}))
        BY <4>1, <4>3, <4>5, Zenon
      <4>8. f[y] + (f[x] + sum((T \ {x}) \ {y})) = f[x] + (f[y] + sum((T \ {x}) \ {y}))
        BY <4>4, <4>6, Zenon
      <4> QED
        BY <4>2, <4>7, <4>8, Zenon
    <3> QED
      BY <3>2, <3>3
  <2> QED
    BY <2>1
<1> HIDE DEF C, sum
<1>a. \A T \in SUBSET S : (\A x \in T : T \ {x} \in C) => T \in C
  BY <1>2
<1>b. \A T \in SUBSET S : T \in C
  BY <1>a, SetInduction, Zenon
<1>3. S \in C
  BY <1>b
<1> QED
  BY <1>3 DEF C, sum

(* Functions that agree on a set have the same sum over it.                *)
LEMMA SumAgree ==
  ASSUME NEW S, IsFiniteSet(S), NEW f, NEW g, \A x \in S : f[x] = g[x]
  PROVE  SumFunctionOnSet(f, S) = SumFunctionOnSet(g, S)
<1> DEFINE C == {T \in SUBSET S : SumFunctionOnSet(f, T) = SumFunctionOnSet(g, T)}
<1>1. ASSUME NEW T \in SUBSET S, \A x \in T : T \ {x} \in C PROVE T \in C
  <2>1. IsFiniteSet(T)
    BY FS_Subset
  <2>2. CASE T = {}
    <3>1. SumFunctionOnSet(f, T) = 0 /\ SumFunctionOnSet(g, T) = 0
      BY <2>1, <2>2, SumChosen, Zenon
    <3> QED
      BY <3>1
  <2>3. CASE T # {}
    <3>1. /\ first(T) \in T
          /\ SumFunctionOnSet(f, T) = f[first(T)] + SumFunctionOnSet(f, T \ {first(T)})
          /\ SumFunctionOnSet(g, T) = g[first(T)] + SumFunctionOnSet(g, T \ {first(T)})
      BY <2>1, <2>3, SumChosen, Zenon
    <3>2. SumFunctionOnSet(f, T \ {first(T)}) = SumFunctionOnSet(g, T \ {first(T)})
      BY <1>1, <3>1
    <3> QED
      BY <3>1, <3>2
  <2> QED
    BY <2>2, <2>3
<1> HIDE DEF C
<1>2. \A T \in SUBSET S : (\A x \in T : T \ {x} \in C) => T \in C
  BY <1>1
<1>3. \A T \in SUBSET S : T \in C
  BY <1>2, SetInduction, Zenon
<1> QED
  BY <1>3 DEF C

(* What the sums below are taken of: finite families of integers.          *)
IsFamily(f, S) == IsFiniteSet(S) /\ f \in [S -> Int]

(* A family with one more member, and one with another member a.           *)
OneMore(g, f, S, a) ==
  IsFamily(f, S) /\ a \notin S /\ g \in [S \union {a} -> Int] /\ \A x \in S : g[x] = f[x]

OneChanged(g, f, S, a) ==
  IsFamily(f, S) /\ IsFamily(g, S) /\ a \in S /\ \A x \in S : x # a => g[x] = f[x]

LEMMA SumFamily ==
  ASSUME NEW S, NEW f, IsFamily(f, S)
  PROVE  /\ SumFunction(f) \in Int /\ SumFunction(f) = SumFunctionOnSet(f, S)
         /\ S = {} => SumFunction(f) = 0
<1> USE DEF IsFamily
<1>1. SumFunction(f) = SumFunctionOnSet(f, S)
  BY DEF SumFunction
<1>2. SumFunctionOnSet(f, S) \in Int
  BY SumType
<1>3. S = {} => SumFunctionOnSet(f, S) = 0
  BY SumChosen, Zenon
<1> QED
  BY <1>1, <1>2, <1>3

LEMMA SumAdded ==
  ASSUME NEW S, NEW a, NEW f, NEW g, OneMore(g, f, S, a)
  PROVE  SumFunction(g) = SumFunction(f) + g[a]
<1> USE DEF OneMore, IsFamily
<1> DEFINE T == S \union {a}
<1>1. IsFiniteSet(T) /\ a \in T /\ T \ {a} = S
  BY FS_AddElement
<1>2. SumFunctionOnSet(g, T) = g[a] + SumFunctionOnSet(g, T \ {a})
  BY <1>1, SumWithout
<1>3. SumFunctionOnSet(g, S) = SumFunctionOnSet(f, S)
  BY SumAgree
<1>4. SumFunction(f) = SumFunctionOnSet(f, S) /\ SumFunction(f) \in Int
  BY SumFamily
<1>5. SumFunction(g) = SumFunctionOnSet(g, T)
  BY <1>1, SumFamily
<1>6. SumFunction(g) = g[a] + SumFunction(f)
  BY <1>1, <1>2, <1>3, <1>4, <1>5, Zenon
<1>7. g[a] \in Int
  OBVIOUS
<1> QED
  BY <1>4, <1>6, <1>7

LEMMA SumChanged ==
  ASSUME NEW S, NEW a, NEW f, NEW g, OneChanged(g, f, S, a)
  PROVE  SumFunction(g) = SumFunction(f) + g[a] - f[a]
<1> USE DEF OneChanged, IsFamily
<1> DEFINE rest == SumFunctionOnSet(f, S \ {a})
<1>1. IsFiniteSet(S \ {a})
  BY FS_Subset
<1>2. SumFunctionOnSet(f, S) = f[a] + rest /\ SumFunctionOnSet(g, S) = g[a] + SumFunctionOnSet(g, S \ {a})
  BY SumWithout
<1>3. SumFunctionOnSet(g, S \ {a}) = rest
  BY <1>1, SumAgree
<1>4. rest \in Int
  BY <1>1, SumType
<1>5. SumFunction(f) = SumFunctionOnSet(f, S) /\ SumFunction(g) = SumFunctionOnSet(g, S)
  BY SumFamily
<1> HIDE DEF rest
<1> QED
  BY <1>2, <1>3, <1>4, <1>5

(* A finite set of numbers has a largest.                                  *)
LEMMA Largest ==
  ASSUME NEW S, IsFiniteSet(S), S # {}, S \subseteq Int
  PROVE  \E m \in S : \A x \in S : x <= m
<1> DEFINE largest(T) == \E m \in T : \A x \in T : x <= m
           C == {T \in SUBSET S : T # {} => largest(T)}
<1>1. ASSUME NEW T \in SUBSET S, \A x \in T : T \ {x} \in C PROVE T \in C
  <2> SUFFICES ASSUME T # {} PROVE largest(T)
    OBVIOUS
  <2>1. PICK a \in T : TRUE
    OBVIOUS
  <2>2. CASE T \ {a} = {}
    <3>1. \A x \in T : x = a /\ a \in Int
      BY <2>1, <2>2
    <3> QED
      BY <2>1, <3>1
  <2>3. CASE T \ {a} # {}
    <3>1. PICK m \in T \ {a} : \A x \in T \ {a} : x <= m
      BY <1>1, <2>1, <2>3
    <3>2. \A x \in T : x \in Int /\ (x = a \/ x <= m)
      BY <3>1
    <3>3. a \in Int /\ m \in Int
      BY <2>1, <3>1
    <3>4. CASE m <= a
      BY <2>1, <3>2, <3>3, <3>4
    <3>5. CASE ~ (m <= a)
      BY <3>1, <3>2, <3>3, <3>5
    <3> QED
      BY <3>4, <3>5
  <2> QED
    BY <2>2, <2>3
<1> HIDE DEF C
<1>2. \A T \in SUBSET S : (\A x \in T : T \ {x} \in C) => T \in C
  BY <1>1
<1>3. \A T \in SUBSET S : T \in C
  BY <1>2, SetInduction, Zenon
<1> QED
  BY <1>3 DEF C

(* Induction up to a number, for what can be written as a set.             *)
LEMMA CountUpTo ==
  ASSUME NEW n \in Nat, NEW C, 0 \in C, \A i \in 1..n : i - 1 \in C => i \in C
  PROVE  \A i \in 0..n : i \in C
<1> SUFFICES ASSUME NEW i \in 0..n, i \notin C PROVE FALSE
  OBVIOUS
<1> DEFINE S == {m \in 0..i : m \in C}
<1>1. IsFiniteSet(0..i)
  BY FS_Interval
<1>2. IsFiniteSet(S) /\ S # {} /\ S \subseteq Int
  BY <1>1, FS_Subset
<1> HIDE DEF S
<1>3. PICK m \in S : \A x \in S : x <= m
  BY <1>2, Largest
<1> USE DEF S
<1>4. m \in Nat /\ m <= i /\ m \in C /\ m # i
  BY <1>3
<1>5. m + 1 \in 1..n /\ (m + 1) - 1 = m
  BY <1>4
<1>6. m + 1 \in S
  BY <1>4, <1>5
<1> QED
  BY <1>3, <1>4, <1>6

----------------------------------------------------------------------------
(* What the sums of NothingLost do when a lot is opened, units are taken   *)
(* from one, a sale is recorded and a purchase is passed.                  *)

(* The units a lot has and what they cost are natural numbers.             *)
LEMMA LotWorth ==
  ASSUME NEW lot \in Lot
  PROVE  lot.remaining \in Nat /\ unitCost(lot) \in Nat /\ lot.remaining * unitCost(lot) \in Nat
<1>1. lot.remaining \in Nat /\ lot.quantity \in Nat /\ lot.costBasis \in Nat
  BY DEF Lot
<1>2. unitCost(lot) \in Nat
  BY <1>1, UnitCostType
<1> QED
  BY <1>1, <1>2

(* The families that are summed have integer members.                      *)
LEMMA LotSums ==
  ASSUME NEW ls \in Seq(Lot)
  PROVE  /\ [i \in DOMAIN ls |-> ls[i].remaining] \in [1..Len(ls) -> Int]
         /\ [i \in DOMAIN ls |-> ls[i].remaining * unitCost(ls[i])] \in [1..Len(ls) -> Int]
         /\ IsFiniteSet(1..Len(ls))
         /\ UnitsIn(ls) \in Int /\ CostIn(ls) \in Int
<1>1. \A i \in 1..Len(ls) : ls[i].remaining \in Int /\ ls[i].remaining * unitCost(ls[i]) \in Int
  <2>1. \A i \in 1..Len(ls) : ls[i] \in Lot
    BY ElementOfSeq
  <2> QED
    BY <2>1, LotWorth
<1>2. DOMAIN ls = 1..Len(ls) /\ Len(ls) \in Nat
  OBVIOUS
<1>3. IsFiniteSet(1..Len(ls))
  BY <1>2, FS_Interval
<1> QED
  BY <1>1, <1>2, <1>3, SumFamily DEF IsFamily, UnitsIn, CostIn

LEMMA LotOpened ==
  ASSUME NEW ls \in Seq(Lot), NEW new \in Lot
  PROVE  /\ UnitsIn(Append(ls, new)) = UnitsIn(ls) + new.remaining
         /\ CostIn(Append(ls, new)) = CostIn(ls) + new.remaining * unitCost(new)
<1> DEFINE longer == Append(ls, new)
           n == Len(ls)
           S == 1..n
           a == n + 1
           f == [i \in DOMAIN ls |-> ls[i].remaining]
           g == [i \in DOMAIN longer |-> longer[i].remaining]
           c == [i \in DOMAIN ls |-> ls[i].remaining * unitCost(ls[i])]
           d == [i \in DOMAIN longer |-> longer[i].remaining * unitCost(longer[i])]
<1>1. /\ longer \in Seq(Lot) /\ Len(longer) = n + 1 /\ n \in Nat
      /\ \A i \in 1..n : longer[i] = ls[i]
      /\ longer[a] = new
      /\ DOMAIN longer = 1..(n + 1) /\ DOMAIN ls = 1..n
  BY AppendProperties
<1>2. 1..(n + 1) = S \union {a} /\ a \notin S
  BY <1>1
<1>3. IsFiniteSet(S) /\ f \in [S -> Int] /\ c \in [S -> Int]
  BY LotSums
<1>4. g \in [S \union {a} -> Int] /\ d \in [S \union {a} -> Int]
  BY <1>1, <1>2, LotSums
<1>5. \A i \in S : g[i] = f[i] /\ d[i] = c[i]
  BY <1>1, <1>2
<1>6. g[a] = new.remaining /\ d[a] = new.remaining * unitCost(new)
  BY <1>1, <1>2
<1>7. /\ UnitsIn(longer) = SumFunction(g) /\ UnitsIn(ls) = SumFunction(f)
      /\ CostIn(longer) = SumFunction(d) /\ CostIn(ls) = SumFunction(c)
  BY DEF UnitsIn, CostIn
<1> HIDE DEF f, g, c, d, S, a, longer
<1>8. OneMore(g, f, S, a) /\ OneMore(d, c, S, a)
  BY <1>2, <1>3, <1>4, <1>5 DEF OneMore, IsFamily
<1>9. SumFunction(g) = SumFunction(f) + g[a]
  BY <1>8, SumAdded
<1>10. SumFunction(d) = SumFunction(c) + d[a]
  BY <1>8, SumAdded
<1> QED
  BY <1>6, <1>7, <1>9, <1>10 DEF longer

LEMMA UnitsTaken ==
  ASSUME NEW ls \in Seq(Lot), NEW k \in 1..Len(ls), NEW t \in Nat, t <= ls[k].remaining
  PROVE  LET left == [ls EXCEPT ![k].remaining = @ - t] IN
         /\ UnitsIn(left) = UnitsIn(ls) - t
         /\ CostIn(left) = CostIn(ls) - t * unitCost(ls[k])
<1> DEFINE lot  == ls[k]
           rest == [lot EXCEPT !.remaining = @ - t]
           left == [ls EXCEPT ![k] = rest]
           n == Len(ls)
           S == 1..n
           f == [i \in DOMAIN ls |-> ls[i].remaining]
           g == [i \in DOMAIN left |-> left[i].remaining]
           c == [i \in DOMAIN ls |-> ls[i].remaining * unitCost(ls[i])]
           d == [i \in DOMAIN left |-> left[i].remaining * unitCost(left[i])]
<1>1. lot \in Lot
  BY ElementOfSeq
<1>2. lot.remaining \in Nat /\ unitCost(lot) \in Nat /\ lot.remaining - t \in Nat
  BY <1>1, LotWorth
<1>3. rest \in Lot /\ rest.remaining = lot.remaining - t
      /\ rest.quantity = lot.quantity /\ rest.costBasis = lot.costBasis
  BY <1>1, <1>2 DEF Lot
<1>4. unitCost(rest) = unitCost(lot)
  BY <1>3 DEF unitCost
<1>5. /\ left \in Seq(Lot) /\ Len(left) = n /\ DOMAIN left = 1..n /\ DOMAIN ls = 1..n
      /\ \A i \in 1..n : left[i] = IF i = k THEN rest ELSE ls[i]
  BY <1>3, ExceptSeq
<1>6. IsFiniteSet(S) /\ k \in S /\ f \in [S -> Int] /\ c \in [S -> Int]
  BY LotSums
<1>7. g \in [S -> Int] /\ d \in [S -> Int]
  BY <1>5, LotSums
<1>8. \A i \in S : i # k => g[i] = f[i] /\ d[i] = c[i]
  BY <1>5
<1>9. /\ f[k] = lot.remaining /\ g[k] = lot.remaining - t
      /\ c[k] = lot.remaining * unitCost(lot) /\ d[k] = (lot.remaining - t) * unitCost(lot)
  BY <1>3, <1>4, <1>5
<1>10. /\ UnitsIn(left) = SumFunction(g) /\ UnitsIn(ls) = SumFunction(f)
       /\ CostIn(left) = SumFunction(d) /\ CostIn(ls) = SumFunction(c)
  BY DEF UnitsIn, CostIn
<1>11. SumFunction(f) \in Int /\ SumFunction(c) \in Int
  BY <1>6, SumFamily DEF IsFamily
<1>12. left = [ls EXCEPT ![k].remaining = @ - t]
  OBVIOUS
<1>13. \A q, u \in Nat : (q - t) * u = q * u - t * u /\ q * u \in Int /\ t * u \in Int
  OBVIOUS
<1> HIDE DEF f, g, c, d, S, left, rest, lot
<1>14. OneChanged(g, f, S, k) /\ OneChanged(d, c, S, k)
  BY <1>6, <1>7, <1>8 DEF OneChanged, IsFamily
<1>15. SumFunction(g) = SumFunction(f) + g[k] - f[k]
  BY <1>14, SumChanged
<1>16. SumFunction(d) = SumFunction(c) + d[k] - c[k]
  BY <1>14, SumChanged
<1>17. UnitsIn(left) = UnitsIn(ls) - t
  BY <1>2, <1>9, <1>10, <1>11, <1>15, SMTT(30)
<1>18. (lot.remaining - t) * unitCost(lot) = lot.remaining * unitCost(lot) - t * unitCost(lot)
       /\ lot.remaining * unitCost(lot) \in Int /\ t * unitCost(lot) \in Int
  BY <1>2, <1>13
<1>19. CostIn(left) = CostIn(ls) - t * unitCost(lot)
  BY <1>9, <1>10, <1>11, <1>16, <1>18
<1> QED
  BY <1>12, <1>17, <1>19 DEF lot

LEMMA DisposalSums ==
  ASSUME NEW ds \in Seq(Disposal)
  PROVE  /\ [i \in DOMAIN ds |-> ds[i].quantity] \in [1..Len(ds) -> Int]
         /\ [i \in DOMAIN ds |-> ds[i].costBasis] \in [1..Len(ds) -> Int]
         /\ IsFiniteSet(1..Len(ds))
         /\ UnitsSold(ds) \in Int /\ CostSold(ds) \in Int
<1>1. \A i \in 1..Len(ds) : ds[i].quantity \in Int /\ ds[i].costBasis \in Int
  <2>1. \A i \in 1..Len(ds) : ds[i] \in Disposal
    BY ElementOfSeq
  <2> QED
    BY <2>1 DEF Disposal
<1>2. DOMAIN ds = 1..Len(ds) /\ Len(ds) \in Nat
  OBVIOUS
<1>3. IsFiniteSet(1..Len(ds))
  BY <1>2, FS_Interval
<1> QED
  BY <1>1, <1>2, <1>3, SumFamily DEF IsFamily, UnitsSold, CostSold

LEMMA SaleRecorded ==
  ASSUME NEW ds \in Seq(Disposal), NEW new \in Disposal
  PROVE  /\ UnitsSold(Append(ds, new)) = UnitsSold(ds) + new.quantity
         /\ CostSold(Append(ds, new)) = CostSold(ds) + new.costBasis
<1> DEFINE longer == Append(ds, new)
           n == Len(ds)
           S == 1..n
           a == n + 1
           f == [i \in DOMAIN ds |-> ds[i].quantity]
           g == [i \in DOMAIN longer |-> longer[i].quantity]
           c == [i \in DOMAIN ds |-> ds[i].costBasis]
           d == [i \in DOMAIN longer |-> longer[i].costBasis]
<1>1. /\ longer \in Seq(Disposal) /\ Len(longer) = n + 1 /\ n \in Nat
      /\ \A i \in 1..n : longer[i] = ds[i]
      /\ longer[a] = new
      /\ DOMAIN longer = 1..(n + 1) /\ DOMAIN ds = 1..n
  BY AppendProperties
<1>2. 1..(n + 1) = S \union {a} /\ a \notin S
  BY <1>1
<1>3. IsFiniteSet(S) /\ f \in [S -> Int] /\ c \in [S -> Int]
  BY DisposalSums
<1>4. g \in [S \union {a} -> Int] /\ d \in [S \union {a} -> Int]
  BY <1>1, <1>2, DisposalSums
<1>5. \A i \in S : g[i] = f[i] /\ d[i] = c[i]
  BY <1>1, <1>2
<1>6. g[a] = new.quantity /\ d[a] = new.costBasis
  BY <1>1, <1>2
<1>7. /\ UnitsSold(longer) = SumFunction(g) /\ UnitsSold(ds) = SumFunction(f)
      /\ CostSold(longer) = SumFunction(d) /\ CostSold(ds) = SumFunction(c)
  BY DEF UnitsSold, CostSold
<1> HIDE DEF f, g, c, d, S, a, longer
<1>8. OneMore(g, f, S, a) /\ OneMore(d, c, S, a)
  BY <1>2, <1>3, <1>4, <1>5 DEF OneMore, IsFamily
<1>9. SumFunction(g) = SumFunction(f) + g[a]
  BY <1>8, SumAdded
<1>10. SumFunction(d) = SumFunction(c) + d[a]
  BY <1>8, SumAdded
<1> QED
  BY <1>6, <1>7, <1>9, <1>10 DEF longer

LEMMA Passed ==
  ASSUME NEW s \in Seq(Transaction), NEW n \in 1..Len(s)
  PROVE  /\ UnitsBought(s, n - 1) \in Int /\ CostBought(s, n - 1) \in Int
         /\ s[n].type \notin Acquisitions =>
              UnitsBought(s, n) = UnitsBought(s, n - 1) /\ CostBought(s, n) = CostBought(s, n - 1)
         /\ s[n].type \in Acquisitions =>
              /\ UnitsBought(s, n) = UnitsBought(s, n - 1) + s[n].quantity
              /\ CostBought(s, n) = CostBought(s, n - 1) + s[n].quantity * s[n].price
<1> DEFINE B == BoughtBy(s, n - 1)
           f == [i \in B |-> s[i].quantity]
           c == [i \in B |-> s[i].quantity * s[i].price]
           g == [i \in B \union {n} |-> s[i].quantity]
           d == [i \in B \union {n} |-> s[i].quantity * s[i].price]
<1>1. n \in Nat /\ 1..n = (1..(n - 1)) \union {n} /\ n \notin 1..(n - 1) /\ n - 1 \in Nat
  OBVIOUS
<1>2. n \notin B /\ B \subseteq 1..(n - 1)
  BY <1>1 DEF BoughtBy
<1>3. BoughtBy(s, n) = IF s[n].type \in Acquisitions THEN B \union {n} ELSE B
  BY <1>1 DEF BoughtBy
<1>4. IsFiniteSet(B)
  <2>1. IsFiniteSet(1..(n - 1))
    BY <1>1, FS_Interval
  <2> QED
    BY <1>2, <2>1, FS_Subset
<1>5. \A i \in B \union {n} : s[i].quantity \in Int /\ s[i].quantity * s[i].price \in Int
  <2>1. \A i \in B \union {n} : i \in 1..Len(s)
    BY <1>1, <1>2
  <2>2. \A i \in B \union {n} : s[i] \in Transaction
    BY <2>1, ElementOfSeq
  <2>3. \A i \in B \union {n} : s[i].quantity \in Nat /\ s[i].price \in Nat
    BY <2>2, QuantityAssumption DEF Transaction
  <2> QED
    BY <2>3
<1>6. f \in [B -> Int] /\ c \in [B -> Int] /\ g \in [B \union {n} -> Int] /\ d \in [B \union {n} -> Int]
  BY <1>5
<1>7. (\A i \in B : g[i] = f[i]) /\ (\A i \in B : d[i] = c[i])
      /\ g[n] = s[n].quantity /\ d[n] = s[n].quantity * s[n].price
  OBVIOUS
<1>8. UnitsBought(s, n - 1) = SumFunction(f) /\ CostBought(s, n - 1) = SumFunction(c)
  BY DEF UnitsBought, CostBought
<1>9. SumFunction(f) \in Int /\ SumFunction(c) \in Int
  BY <1>4, <1>6, SumFamily DEF IsFamily
<1>10. SumFunction(g) = SumFunction(f) + g[n] /\ SumFunction(d) = SumFunction(c) + d[n]
  <2> HIDE DEF f, g, c, d, B
  <2>0. OneMore(g, f, B, n) /\ OneMore(d, c, B, n)
    BY <1>2, <1>4, <1>6, <1>7 DEF OneMore, IsFamily
  <2>1. SumFunction(g) = SumFunction(f) + g[n]
    BY <2>0, SumAdded
  <2>2. SumFunction(d) = SumFunction(c) + d[n]
    BY <2>0, SumAdded
  <2> QED
    BY <2>1, <2>2
<1>11. s[n].type \notin Acquisitions =>
         UnitsBought(s, n) = SumFunction(f) /\ CostBought(s, n) = SumFunction(c)
  BY <1>3 DEF UnitsBought, CostBought
<1>12. s[n].type \in Acquisitions =>
         UnitsBought(s, n) = SumFunction(g) /\ CostBought(s, n) = SumFunction(d)
  BY <1>3 DEF UnitsBought, CostBought
<1> HIDE DEF f, g, c, d
<1> QED
  BY <1>7, <1>8, <1>9, <1>10, <1>11, <1>12

----------------------------------------------------------------------------
(* What one turn of matchFIFO's loop does to the lots: the one at the      *)
(* cursor gives up what is taken, no other changes.                        *)
LEMMA TakeFromLotEffect ==
  ASSUME TypeOK, TakeFromLot
  PROVE  /\ lots' \in Seq(Lot) /\ Len(lots') = Len(lots)
         /\ cursor \in 1..Len(lots)
         /\ \A i \in 1..Len(lots) : /\ lots'[i].acquired = lots[i].acquired
                                    /\ lots'[i].quantity = lots[i].quantity
                                    /\ lots'[i].remaining <= lots[i].remaining
                                    /\ i # cursor => lots'[i] = lots[i]
         /\ wanted' \in Nat /\ cost' \in Nat
         /\ wanted' = 0 \/ lots'[cursor].remaining = 0
<1> DEFINE lot  == lots[cursor]
           take == minimum(wanted, lot.remaining)
           rest == [lot EXCEPT !.remaining = @ - take]
<1>1. cursor \in 1..Len(lots) /\ lots \in Seq(Lot) /\ wanted \in Nat
  BY DEF TypeOK, TakeFromLot, LotInReach
<1>2. lot \in Lot
  BY <1>1, ElementOfSeq
<1>3. take \in Nat /\ wanted - take \in Nat /\ rest \in Lot
      /\ (wanted - take = 0 \/ lot.remaining - take = 0)
  BY <1>1, <1>2, TakeType
<1>4. lots' = [lots EXCEPT ![cursor] = rest]
  BY DEF TakeFromLot
<1>5. lots' \in Seq(Lot) /\ Len(lots') = Len(lots)
      /\ \A i \in 1..Len(lots) : lots'[i] = IF i = cursor THEN rest ELSE lots[i]
  BY <1>1, <1>3, <1>4, ExceptSeq
<1>6. rest.acquired = lot.acquired /\ rest.quantity = lot.quantity
      /\ rest.remaining = lot.remaining - take
  BY <1>2 DEF Lot
<1>7. \A i \in 1..Len(lots) : lots[i].remaining \in Nat
  <2>1. \A i \in 1..Len(lots) : lots[i] \in Lot
    BY <1>1, ElementOfSeq
  <2> QED
    BY <2>1 DEF Lot
<1>8. wanted' \in Nat /\ (wanted' = 0 \/ lots'[cursor].remaining = 0)
  BY <1>1, <1>3, <1>5, <1>6 DEF TakeFromLot
<1>9. cost' \in Nat
  <2>1. unitCost(lot) \in Nat
    BY <1>2, UnitCostType DEF Lot
  <2>2. take * unitCost(lot) \in Nat
    BY <1>3, <2>1
  <2> QED
    BY <2>2, SMTT(30) DEF TypeOK, TakeFromLot
<1>10. ASSUME NEW i \in 1..Len(lots)
       PROVE  /\ lots'[i].acquired = lots[i].acquired
              /\ lots'[i].quantity = lots[i].quantity
              /\ lots'[i].remaining <= lots[i].remaining
              /\ i # cursor => lots'[i] = lots[i]
  <2> HIDE DEF take, rest
  <2>1. CASE i = cursor
    <3>1. lots'[i] = rest /\ lots[i] = lot
      BY <1>5, <2>1
    <3>2. lot.remaining \in Nat
      BY <1>1, <1>7
    <3>3. rest.remaining <= lot.remaining
      BY <1>3, <1>6, <3>2
    <3> QED
      BY <1>6, <2>1, <3>1, <3>3
  <2>2. CASE i # cursor
    BY <1>5, <1>7, <2>2
  <2> QED
    BY <2>1, <2>2
<1> QED
  BY <1>1, <1>5, <1>8, <1>9, <1>10

(* Every step keeps the types; that a sale being matched is a transaction  *)
(* of the list needs the bound on at as well.                              *)
LEMMA TypeStep ==
  ASSUME TypeOK, Progress, [Next]_vars
  PROVE  TypeOK' /\ Progress'
<1> USE DEF Progress
<1>1. CASE ToEURPrices
  <2>1. \A i \in 1..Len(txs) : txs[i] \in Transaction
    BY ElementOfSeq DEF TypeOK
  <2>2. [i \in DOMAIN txs |-> InEUR(txs[i])] \in [1..Len(txs) -> Transaction]
    BY <2>1, InEURType DEF TypeOK
  <2>3. txs' \in Seq(Transaction)
    BY <1>1, <2>2, IsASeq DEF ToEURPrices, TypeOK
  <2> QED
    BY <1>1, <2>3 DEF ToEURPrices, TypeOK, saleVars
<1>2. CASE RateUnavailable
  BY <1>2 DEF RateUnavailable, Fail, TypeOK, saleVars
<1>3. CASE SortByDate
  <2>1. PICK p \in StableOrders(txs) : sorted' = [i \in DOMAIN txs |-> txs[p[i]]]
    BY <1>3 DEF SortByDate
  <2>2. sorted' \in Seq(Transaction)
    BY <2>1, StableOrderSorted DEF TypeOK
  <2> QED
    BY <1>3, <2>2 DEF SortByDate, TypeOK, saleVars
<1>4. CASE Acquire
  <2>1. sorted[at] \in Transaction
    BY <1>4, ElementOfSeq DEF Acquire, AtTransaction, TypeOK
  <2>2. lots' \in Seq(Lot)
    BY <1>4, <2>1, NewLotType DEF Acquire, TypeOK
  <2> QED
    BY <1>4, <2>2 DEF Acquire, AtTransaction, TypeOK, saleVars
<1>5. CASE BeginSale
  <2>1. sorted[at] \in Transaction
    BY <1>5, ElementOfSeq DEF BeginSale, AtTransaction, TypeOK
  <2>2. sorted[at].quantity \in Nat
    BY <2>1, QuantityAssumption DEF Transaction
  <2> QED
    BY <1>5, <2>2 DEF BeginSale, AtTransaction, TypeOK
<1>6. CASE SkipEmptyLot
  BY <1>6, SMTT(30) DEF SkipEmptyLot, LotInReach, TypeOK
<1>7. CASE TakeFromLot
  BY <1>7, TakeFromLotEffect, SMTT(30) DEF TakeFromLot, TypeOK
<1>8. CASE Oversell
  BY <1>8 DEF Oversell, Fail, TypeOK, saleVars
<1>9. CASE RecordDisposal
  <2>1. at \in 1..Len(sorted) /\ cost \in Nat /\ disposals \in Seq(Disposal)
    BY <1>9 DEF RecordDisposal, TypeOK
  <2>2. sorted[at] \in Transaction
    BY <2>1, ElementOfSeq DEF TypeOK
  <2>3. sorted[at].date \in Dates /\ sorted[at].quantity \in Nat /\ sorted[at].price \in Nat
    BY <2>2, QuantityAssumption DEF Transaction
  <2>4. sorted[at].quantity * sorted[at].price \in Nat
    BY <2>3
  <2>5. disposals' \in Seq(Disposal)
    BY <1>9, <2>1, <2>3, <2>4 DEF RecordDisposal, Disposal
  <2> QED
    BY <1>9, <2>1, <2>5 DEF RecordDisposal, TypeOK, saleVars
<1>10. CASE UnsupportedType
  BY <1>10 DEF UnsupportedType, Fail, TypeOK, saleVars
<1>11. CASE Return
  BY <1>11 DEF Return, TypeOK, saleVars
<1>12. CASE UNCHANGED vars
  BY <1>12 DEF vars, TypeOK
<1> QED
  BY <1>1, <1>2, <1>3, <1>4, <1>5, <1>6, <1>7, <1>8, <1>9, <1>10, <1>11, <1>12 DEF Next

----------------------------------------------------------------------------
(* The order facts: each step keeps the lots and the walk in date order    *)
(* and what has been consumed a prefix of the lots.                        *)
LEMMA OrderStep ==
  ASSUME IInv, [Next]_vars
  PROVE  DatesInOrder' /\ LotsInOrder' /\ LotsPast' /\ WithinLot'
         /\ ConsumedPrefix' /\ CursorClear'
<1> USE DEF DatesInOrder, LotsInOrder, LotsPast, WithinLot, ConsumedPrefix, CursorClear
<1>0. /\ lots \in Seq(Lot) /\ sorted \in Seq(Transaction) /\ at \in Nat \ {0}
      /\ \A i \in 1..Len(lots) : lots[i] \in Lot
      /\ \A i \in 1..Len(sorted) : sorted[i] \in Transaction
  BY ElementOfSeq DEF IInv, TypeOK
<1>d. /\ \A i \in 1..Len(sorted) : sorted[i].date \in Nat /\ sorted[i].quantity \in Nat
      /\ \A i \in 1..Len(lots) : /\ lots[i].acquired \in Nat /\ lots[i].remaining \in Nat
                                 /\ lots[i].quantity \in Nat
  BY <1>0, DatesAssumption, QuantityAssumption DEF Transaction, Lot
<1>h. /\ Len(lots) \in Nat /\ Len(sorted) \in Nat
      /\ DatesInOrder /\ LotsInOrder /\ LotsPast /\ WithinLot /\ ConsumedPrefix /\ CursorClear
  BY <1>0, SMTT(30) DEF IInv
<1>1. CASE ToEURPrices
  BY <1>1 DEF ToEURPrices, saleVars, IInv
<1>2. CASE RateUnavailable
  BY <1>2 DEF RateUnavailable, Fail, saleVars, IInv
<1>3. CASE SortByDate
  <2>1. PICK p \in StableOrders(txs) : sorted' = [i \in DOMAIN txs |-> txs[p[i]]]
    BY <1>3 DEF SortByDate
  <2>2. DatesInOrder'
    BY <2>1, StableOrderSorted DEF IInv, TypeOK
  <2>3. lots' = << >> /\ pc' = "match"
    BY <1>3 DEF SortByDate, IInv, Progress
  <2> QED
    BY <2>2, <2>3
<1>4. CASE Acquire
  <2> DEFINE new == NewLot(sorted[at])
  <2>1. at \in 1..Len(sorted) /\ sorted' = sorted /\ pc' = pc /\ pc = "match" /\ at' = at + 1
    BY <1>0, <1>4 DEF Acquire, AtTransaction
  <2>2. new \in Lot
    BY <1>0, <2>1, NewLotType
  <2>3. /\ lots' \in Seq(Lot) /\ Len(lots') = Len(lots) + 1
        /\ \A i \in 1..Len(lots) : lots'[i] = lots[i]
        /\ lots'[Len(lots) + 1] = new
    BY <1>0, <1>4, <2>2, AppendProperties DEF Acquire
  <2>4. new.acquired = sorted[at].date /\ new.remaining = new.quantity
        /\ new.quantity = sorted[at].quantity
    BY DEF NewLot
  <2>5. \A i \in 1..Len(lots') : i \in 1..Len(lots) \/ i = Len(lots) + 1
    BY <1>h, <2>3
  <2>6. DatesInOrder'
    BY <1>h, <2>1
  <2>7. \A i \in 1..Len(lots) : lots'[i].acquired <= sorted[at].date
    BY <1>h, <2>1, <2>3
  <2>8. ASSUME NEW i \in 1..Len(lots'), NEW j \in 1..Len(lots'), i < j
        PROVE  /\ i \in 1..Len(lots)
               /\ j \in 1..Len(lots) \/ j = Len(lots) + 1
    <3>1. Len(lots) \in Nat /\ Len(lots') = Len(lots) + 1
      BY <1>h, <2>3
    <3> HIDE DEF new
    <3> QED
      BY <2>8, <3>1
  <2>9. LotsInOrder'
    <3>1. ASSUME NEW i \in 1..Len(lots'), NEW j \in 1..Len(lots'), i < j
          PROVE  lots'[i].acquired <= lots'[j].acquired
      <4>1. CASE j \in 1..Len(lots)
        BY <1>h, <2>3, <2>8, <3>1, <4>1
      <4>2. CASE j = Len(lots) + 1
        BY <2>3, <2>4, <2>7, <2>8, <3>1, <4>2
      <4> QED
        BY <2>8, <3>1, <4>1, <4>2
    <3> QED
      BY <3>1
  <2>10. LotsPast'
    <3>1. ASSUME NEW i \in 1..Len(lots'), at + 1 <= Len(sorted)
          PROVE  lots'[i].acquired <= sorted[at + 1].date
      <4>1. at + 1 \in 1..Len(sorted) /\ at < at + 1
        BY <1>h, <2>1, <3>1
      <4>2. sorted[at].date <= sorted[at + 1].date
        BY <1>h, <2>1, <4>1
      <4>3. lots'[i].acquired <= sorted[at].date /\ lots'[i].acquired \in Nat
        BY <1>d, <2>1, <2>3, <2>4, <2>5, <2>7
      <4> QED
        BY <1>d, <2>1, <4>1, <4>2, <4>3
    <3> QED
      BY <2>1, <3>1
  <2>11. WithinLot'
    BY <1>d, <1>h, <2>1, <2>3, <2>4, <2>5
  <2>12. ConsumedPrefix'
    <3>1. ASSUME NEW i \in 1..Len(lots'), NEW j \in 1..Len(lots'), i < j,
                 lots'[j].remaining < lots'[j].quantity
          PROVE  lots'[i].remaining = 0
      <4>1. j # Len(lots) + 1
        BY <1>d, <2>1, <2>3, <2>4, <3>1
      <4> QED
        BY <1>h, <2>3, <2>8, <3>1, <4>1
    <3> QED
      BY <3>1
  <2> QED
    BY <2>1, <2>6, <2>9, <2>10, <2>11, <2>12
<1>5. CASE BeginSale
  BY <1>0, <1>5 DEF BeginSale, AtTransaction, IInv
<1>6. CASE SkipEmptyLot
  BY <1>0, <1>6 DEF SkipEmptyLot, LotInReach, IInv, TypeOK
<1>7. CASE TakeFromLot
  <2>1. /\ sorted' = sorted /\ at' = at /\ pc' = pc /\ pc = "take" /\ wanted # 0
        /\ cursor' = cursor + 1
    BY <1>7 DEF TakeFromLot, LotInReach
  <2>2. /\ lots' \in Seq(Lot) /\ Len(lots') = Len(lots)
        /\ cursor \in 1..Len(lots)
        /\ \A i \in 1..Len(lots) : /\ lots'[i].acquired = lots[i].acquired
                                   /\ lots'[i].quantity = lots[i].quantity
                                   /\ lots'[i].remaining <= lots[i].remaining
                                   /\ i # cursor => lots'[i] = lots[i]
        /\ wanted' = 0 \/ lots'[cursor].remaining = 0
    BY <1>7, TakeFromLotEffect DEF IInv
  <2>3. \A i \in 1..Len(lots) : lots'[i].remaining \in Nat
    <3>1. \A i \in 1..Len(lots) : lots'[i] \in Lot
      BY <2>2, ElementOfSeq
    <3> QED
      BY <3>1 DEF Lot
  <2>4. \A i \in 1..Len(lots) : i < cursor => lots[i].remaining = 0
    BY <1>h, <2>1
  <2>5. LotsInOrder' /\ LotsPast'
    BY <1>h, <2>1, <2>2
  <2>6. WithinLot'
    BY <1>d, <1>h, <2>2, <2>3
  <2>7. ASSUME NEW i \in 1..Len(lots), NEW j \in 1..Len(lots), i < j,
               lots'[j].remaining < lots'[j].quantity
        PROVE  lots'[i].remaining = 0
    <3>1. CASE j = cursor
      BY <2>2, <2>4, <2>7, <3>1
    <3>2. CASE j # cursor
      <4>1. lots[i].remaining = 0
        BY <1>h, <2>2, <2>7, <3>2
      <4> QED
        BY <1>d, <2>2, <2>3, <4>1
    <3> QED
      BY <3>1, <3>2
  <2>8. ASSUME wanted' # 0, NEW i \in 1..Len(lots), i < cursor + 1
        PROVE  lots'[i].remaining = 0
    <3>1. CASE i = cursor
      BY <2>2, <2>8, <3>1
    <3>2. CASE i # cursor
      <4>1. i < cursor
        BY <1>h, <2>2, <2>8, <3>2
      <4> QED
        BY <2>2, <2>4, <3>2, <4>1
    <3> QED
      BY <3>1, <3>2
  <2>9. DatesInOrder'
    BY <1>h, <2>1
  <2> QED
    BY <2>1, <2>2, <2>5, <2>6, <2>7, <2>8, <2>9
<1>8. CASE Oversell
  BY <1>8 DEF Oversell, Fail, saleVars, IInv
<1>9. CASE RecordDisposal
  <2>1. /\ at' = at + 1 /\ pc' = "match" /\ sorted' = sorted /\ lots' = lots
        /\ at \in 1..Len(sorted)
    BY <1>0, <1>9 DEF RecordDisposal, saleVars, IInv, Progress
  <2>2. ASSUME NEW i \in 1..Len(lots), at + 1 <= Len(sorted)
        PROVE  lots[i].acquired <= sorted[at + 1].date
    <3>1. at + 1 \in 1..Len(sorted) /\ at < at + 1
      BY <1>h, <2>1, <2>2
    <3>2. sorted[at].date <= sorted[at + 1].date
      BY <1>h, <2>1, <3>1
    <3>3. lots[i].acquired <= sorted[at].date
      BY <1>h, <2>1
    <3> QED
      BY <1>d, <2>1, <3>1, <3>2, <3>3
  <2> QED
    BY <1>h, <2>1, <2>2
<1>10. CASE UnsupportedType
  BY <1>10 DEF UnsupportedType, Fail, saleVars, IInv
<1>11. CASE Return
  BY <1>11 DEF Return, saleVars, IInv
<1>12. CASE UNCHANGED vars
  BY <1>12 DEF vars, IInv
<1> QED
  BY <1>1, <1>2, <1>3, <1>4, <1>5, <1>6, <1>7, <1>8, <1>9, <1>10, <1>11, <1>12 DEF Next

(* Before anything has been walked every sum is zero.                      *)
LEMMA NothingYet ==
  ASSUME NEW s
  PROVE  /\ UnitsIn(<< >>) = 0 /\ CostIn(<< >>) = 0 /\ UnitsSold(<< >>) = 0 /\ CostSold(<< >>) = 0
         /\ UnitsBought(s, 0) = 0 /\ CostBought(s, 0) = 0
<1>1. \A f \in [{} -> Int] : SumFunction(f) = 0
  BY FS_EmptySet, SumFamily DEF IsFamily
<1>2. DOMAIN << >> = {} /\ BoughtBy(s, 0) = {}
  BY DEF BoughtBy
<1> DEFINE lots0 == << >>
<1>3. /\ [i \in DOMAIN lots0 |-> lots0[i].remaining] \in [{} -> Int]
      /\ [i \in DOMAIN lots0 |-> lots0[i].remaining * unitCost(lots0[i])] \in [{} -> Int]
      /\ [i \in DOMAIN lots0 |-> lots0[i].quantity] \in [{} -> Int]
      /\ [i \in DOMAIN lots0 |-> lots0[i].costBasis] \in [{} -> Int]
      /\ [i \in BoughtBy(s, 0) |-> s[i].quantity] \in [{} -> Int]
      /\ [i \in BoughtBy(s, 0) |-> s[i].quantity * s[i].price] \in [{} -> Int]
  BY <1>2
<1> QED
  BY <1>1, <1>3 DEF UnitsIn, CostIn, UnitsSold, CostSold, UnitsBought, CostBought

(* Units and cost are conserved by every step, a sale in progress too.     *)
LEMMA BalanceStep ==
  ASSUME IInv, [Next]_vars
  PROVE  Balance'
<1>0. /\ lots \in Seq(Lot) /\ sorted \in Seq(Transaction) /\ at \in Nat \ {0}
      /\ disposals \in Seq(Disposal) /\ wanted \in Nat /\ cost \in Nat
      /\ UnitsIn(lots) \in Int /\ CostIn(lots) \in Int
      /\ UnitsSold(disposals) \in Int /\ CostSold(disposals) \in Int
  <2>1. lots \in Seq(Lot) /\ sorted \in Seq(Transaction) /\ at \in Nat \ {0}
        /\ disposals \in Seq(Disposal) /\ wanted \in Nat /\ cost \in Nat
    BY DEF IInv, TypeOK
  <2>2. UnitsIn(lots) \in Int /\ CostIn(lots) \in Int
    BY <2>1, LotSums
  <2>3. UnitsSold(disposals) \in Int /\ CostSold(disposals) \in Int
    BY <2>1, DisposalSums
  <2> QED
    BY <2>1, <2>2, <2>3
<1>i. /\ UnitsIn(lots) \in Int /\ CostIn(lots) \in Int
      /\ UnitsSold(disposals) \in Int /\ CostSold(disposals) \in Int
  BY <1>0
<1>p. ASSUME at <= Len(sorted)
      PROVE  /\ at \in 1..Len(sorted) /\ sorted[at] \in Transaction
             /\ sorted[at].quantity \in Nat \ {0} /\ sorted[at].price \in Nat
             /\ UnitsBought(sorted, at - 1) \in Int /\ CostBought(sorted, at - 1) \in Int
             /\ sorted[at].type \notin Acquisitions =>
                  /\ UnitsBought(sorted, at) = UnitsBought(sorted, at - 1)
                  /\ CostBought(sorted, at) = CostBought(sorted, at - 1)
             /\ sorted[at].type \in Acquisitions =>
                  /\ UnitsBought(sorted, at) = UnitsBought(sorted, at - 1) + sorted[at].quantity
                  /\ CostBought(sorted, at) = CostBought(sorted, at - 1)
                                                + sorted[at].quantity * sorted[at].price
  <2>1. at \in 1..Len(sorted)
    BY <1>0, <1>p
  <2>2. sorted[at] \in Transaction
    BY <1>0, <2>1, ElementOfSeq
  <2>3. sorted[at].quantity \in Nat \ {0} /\ sorted[at].price \in Nat
    BY <2>2, QuantityAssumption DEF Transaction
  <2> QED
    BY <1>0, <2>1, <2>2, <2>3, Passed
<1>m. pc \in {"match", "done"} => Balanced(0, 0)
  BY DEF IInv, Balance
<1>t. pc = "take" => /\ sorted[at].type = "sell" /\ at <= Len(sorted)
                     /\ Balanced(sorted[at].quantity - wanted, cost)
  BY DEF IInv, Balance, Progress
<1>1. CASE ToEURPrices
  BY <1>1 DEF ToEURPrices, IInv, Balance
<1>2. CASE RateUnavailable
  BY <1>2 DEF RateUnavailable, Fail, Balance
<1>3. CASE SortByDate
  <2>1. at' = 1 /\ lots' = << >> /\ disposals' = << >> /\ pc' = "match"
    BY <1>3 DEF SortByDate, IInv, Progress, Balance
  <2>2. Balanced(0, 0)'
    BY <2>1, NothingYet DEF Balanced
  <2> QED
    BY <2>1, <2>2 DEF Balance
<1>4. CASE Acquire
  <2> DEFINE new == NewLot(sorted[at])
  <2>1. /\ pc = "match" /\ pc' = "match" /\ at' = at + 1 /\ at <= Len(sorted)
        /\ sorted[at].type \in Acquisitions
        /\ lots' = Append(lots, new) /\ UNCHANGED <<sorted, disposals>>
    BY <1>4 DEF Acquire, AtTransaction
  <2>2. new \in Lot
    BY <1>p, <2>1, NewLotType
  <2>3. UnitsIn(lots') = UnitsIn(lots) + new.remaining
        /\ CostIn(lots') = CostIn(lots) + new.remaining * unitCost(new)
    BY <1>0, <2>1, <2>2, LotOpened
  <2>4. new.remaining = sorted[at].quantity
        /\ new.remaining * unitCost(new) = sorted[at].quantity * sorted[at].price
    BY <1>p, <2>1, NewLotCost
  <2>5. at' - 1 = at
    BY <1>0, <2>1
  <2>6. sorted[at].quantity * sorted[at].price \in Int /\ sorted[at].quantity \in Int
    BY <1>p, <2>1, SMTT(30)
  <2> HIDE DEF new
  <2>7. /\ UnitsIn(lots)' = UnitsIn(lots) + sorted[at].quantity
        /\ CostIn(lots)' = CostIn(lots) + sorted[at].quantity * sorted[at].price
        /\ UnitsSold(disposals)' = UnitsSold(disposals)
        /\ CostSold(disposals)' = CostSold(disposals)
    BY <2>1, <2>3, <2>4
  <2>8. /\ UnitsBought(sorted, at - 1)' = UnitsBought(sorted, at - 1) + sorted[at].quantity
        /\ CostBought(sorted, at - 1)' = CostBought(sorted, at - 1)
                                          + sorted[at].quantity * sorted[at].price
    BY <1>p, <2>1, <2>5
  <2>9. Balanced(0, 0)
    BY <1>m, <2>1
  <2>10. UnitsBought(sorted, at - 1) \in Int /\ CostBought(sorted, at - 1) \in Int
    BY <1>p, <2>1
  <2> DEFINE q == sorted[at].quantity
             w == sorted[at].quantity * sorted[at].price
  <2>11. q \in Int /\ w \in Int
    BY <2>6
  <2> HIDE DEF q, w
  <2>12. UnitsIn(lots)' + UnitsSold(disposals)' + 0 = UnitsBought(sorted, at - 1)'
    BY <1>i, <2>7, <2>8, <2>9, <2>10, <2>11 DEF Balanced, q
  <2>13. CostIn(lots)' + CostSold(disposals)' + 0 = CostBought(sorted, at - 1)'
    BY <1>i, <2>7, <2>8, <2>9, <2>10, <2>11 DEF Balanced, w
  <2>14. Balanced(0, 0)'
    BY <2>12, <2>13 DEF Balanced
  <2> QED
    BY <2>1, <2>14 DEF Balance
<1>5. CASE BeginSale
  <2>1. /\ pc = "match" /\ pc' = "take" /\ at <= Len(sorted) /\ sorted[at].type = "sell"
        /\ wanted' = sorted[at].quantity /\ cost' = 0
        /\ UNCHANGED <<sorted, at, lots, disposals>>
    BY <1>5 DEF BeginSale, AtTransaction
  <2>2. sorted[at].quantity - wanted' = 0
    BY <1>p, <2>1
  <2>3. Balanced(sorted[at].quantity - wanted, cost)'
    BY <1>m, <2>1, <2>2 DEF Balanced
  <2> QED
    BY <2>1, <2>3 DEF Balance
<1>6. CASE SkipEmptyLot
  BY <1>6 DEF SkipEmptyLot, LotInReach, IInv, Balance, Balanced
<1>7. CASE TakeFromLot
  <2> DEFINE lot  == lots[cursor]
             take == minimum(wanted, lot.remaining)
             u    == unitCost(lot)
  <2>1. /\ pc = "take" /\ pc' = "take" /\ cursor \in 1..Len(lots)
        /\ lots' = [lots EXCEPT ![cursor].remaining = @ - take]
        /\ cost' = cost + take * u /\ wanted' = wanted - take
        /\ UNCHANGED <<sorted, at, disposals>>
    BY <1>0, <1>7 DEF TakeFromLot, LotInReach, IInv, TypeOK
  <2>2. lot \in Lot
    BY <1>0, <2>1, ElementOfSeq
  <2>3. lot.remaining \in Nat /\ u \in Nat
    BY <2>2, LotWorth
  <2>4. take \in Nat /\ take <= lot.remaining
    BY <1>0, <2>3, MinimumBounds
  <2> HIDE DEF take
  <2>5. UnitsIn(lots') = UnitsIn(lots) - take /\ CostIn(lots') = CostIn(lots) - take * u
    BY <1>0, <2>1, <2>4, UnitsTaken
  <2>6. take * u \in Int
    BY <2>3, <2>4
  <2> HIDE DEF u
  <2>7. /\ UnitsIn(lots)' = UnitsIn(lots) - take /\ CostIn(lots)' = CostIn(lots) - take * u
        /\ UnitsSold(disposals)' = UnitsSold(disposals)
        /\ CostSold(disposals)' = CostSold(disposals)
        /\ UnitsBought(sorted, at - 1)' = UnitsBought(sorted, at - 1)
        /\ CostBought(sorted, at - 1)' = CostBought(sorted, at - 1)
    BY <2>1, <2>5
  <2> DEFINE q == sorted[at].quantity
             w == take * u
  <2>8. /\ q \in Int /\ w \in Int /\ take \in Int /\ wanted \in Int /\ cost \in Int
        /\ UnitsBought(sorted, at - 1) \in Int /\ CostBought(sorted, at - 1) \in Int
    <3>1. /\ q \in Nat \ {0}
          /\ UnitsBought(sorted, at - 1) \in Int /\ CostBought(sorted, at - 1) \in Int
      BY <1>p, <1>t, <2>1
    <3> HIDE DEF q
    <3> QED
      BY <1>0, <2>4, <2>6, <3>1
  <2>9. q' = q /\ wanted' = wanted - take /\ cost' = cost + w
    BY <2>1
  <2>10. Balanced(q - wanted, cost)
    BY <1>t, <2>1
  <2> HIDE DEF q, w
  <2>11. UnitsIn(lots)' + UnitsSold(disposals)' + (q' - wanted') = UnitsBought(sorted, at - 1)'
    BY <1>i, <2>7, <2>8, <2>9, <2>10 DEF Balanced
  <2>12. CostIn(lots) + CostSold(disposals) + cost = CostBought(sorted, at - 1)
    BY <2>10 DEF Balanced
  <2>13. CostIn(lots)' + CostSold(disposals)' + cost' = CostBought(sorted, at - 1)'
    BY <1>i, <2>7, <2>8, <2>9, <2>12 DEF w
  <2>14. Balanced(sorted[at].quantity - wanted, cost)'
    BY <2>11, <2>13 DEF Balanced, q
  <2> QED
    BY <1>t, <2>1, <2>14 DEF Balance
<1>8. CASE Oversell
  BY <1>8 DEF Oversell, Fail, Balance
<1>9. CASE RecordDisposal
  <2> DEFINE sell == sorted[at]
             new  == [date |-> sell.date, quantity |-> sell.quantity,
                      proceeds |-> sell.quantity * sell.price, costBasis |-> cost]
  <2>1. /\ pc = "take" /\ pc' = "match" /\ wanted = 0 /\ at' = at + 1
        /\ disposals' = Append(disposals, new) /\ UNCHANGED <<sorted, lots>>
    BY <1>9 DEF RecordDisposal
  <2>2. new \in Disposal
    <3>1. sell.date \in Dates /\ sell.quantity \in Nat /\ sell.price \in Nat
      BY <1>p, <1>t, <2>1 DEF Transaction
    <3>2. sell.quantity * sell.price \in Nat
      BY <3>1
    <3> QED
      BY <1>0, <3>1, <3>2 DEF Disposal
  <2>3. new.quantity = sell.quantity /\ new.costBasis = cost
    OBVIOUS
  <2> HIDE DEF new
  <2>4. UnitsSold(disposals') = UnitsSold(disposals) + sell.quantity
        /\ CostSold(disposals') = CostSold(disposals) + cost
    BY <1>0, <2>1, <2>2, <2>3, SaleRecorded
  <2>5. at' - 1 = at /\ sell.type \notin Acquisitions
    BY <1>0, <1>t, <2>1, SMTT(30) DEF Acquisitions
  <2>6. /\ UnitsIn(lots)' = UnitsIn(lots) /\ CostIn(lots)' = CostIn(lots)
        /\ UnitsSold(disposals)' = UnitsSold(disposals) + sell.quantity
        /\ CostSold(disposals)' = CostSold(disposals) + cost
    BY <2>1, <2>4
  <2>7. /\ UnitsBought(sorted, at - 1)' = UnitsBought(sorted, at - 1)
        /\ CostBought(sorted, at - 1)' = CostBought(sorted, at - 1)
    BY <1>p, <1>t, <2>1, <2>5
  <2> DEFINE q == sell.quantity
  <2>8. /\ q \in Int /\ cost \in Int
        /\ UnitsBought(sorted, at - 1) \in Int /\ CostBought(sorted, at - 1) \in Int
    BY <1>0, <1>p, <1>t, <2>1
  <2>9. Balanced(q - 0, cost)
    BY <1>t, <2>1
  <2> HIDE DEF q
  <2>10. UnitsIn(lots)' + UnitsSold(disposals)' + 0 = UnitsBought(sorted, at - 1)'
    BY <1>i, <2>6, <2>7, <2>8, <2>9 DEF Balanced, q
  <2>11. CostIn(lots)' + CostSold(disposals)' + 0 = CostBought(sorted, at - 1)'
    BY <1>i, <2>6, <2>7, <2>8, <2>9 DEF Balanced
  <2>12. Balanced(0, 0)'
    BY <2>10, <2>11 DEF Balanced
  <2> QED
    BY <2>1, <2>12 DEF Balance
<1>10. CASE UnsupportedType
  BY <1>10 DEF UnsupportedType, Fail, Balance
<1>11. CASE Return
  BY <1>11 DEF Return, IInv, Balance, Balanced
<1>12. CASE UNCHANGED vars
  BY <1>12 DEF vars, IInv, Balance, Balanced
<1> QED
  BY <1>1, <1>2, <1>3, <1>4, <1>5, <1>6, <1>7, <1>8, <1>9, <1>10, <1>11, <1>12 DEF Next

(* The inductive invariant holds in every reachable state of every call.   *)
THEOREM Invariance == Spec => []IInv
<1>1. Init => IInv
  <2> SUFFICES ASSUME Init PROVE IInv
    OBVIOUS
  <2>1. TypeOK
    BY LedgerAssumption DEF Init, TypeOK
  <2> QED
    BY <2>1 DEF Init, IInv, DatesInOrder, Progress, LotsInOrder, LotsPast, WithinLot,
                ConsumedPrefix, CursorClear, Balance
<1>2. IInv /\ [Next]_vars => IInv'
  BY TypeStep, OrderStep, BalanceStep DEF IInv
<1> QED
  BY <1>1, <1>2, PTL DEF Spec

(* Type correctness of the matcher, for every ledger.                      *)
THEOREM TypeCorrect == Spec => []TypeOK
<1>1. IInv => TypeOK
  BY DEF IInv
<1> QED
  BY <1>1, Invariance, PTL

(* matchFIFO consumes in order of acquisition day: once any unit of a lot  *)
(* is gone, every lot of an earlier day is empty.                          *)
THEOREM FirstInFirstOut == Spec => []OldestFirst
<1>1. ASSUME IInv PROVE OldestFirst
  <2>1. lots \in Seq(Lot) /\ DOMAIN lots = 1..Len(lots)
    BY <1>1 DEF IInv, TypeOK
  <2>2. \A i \in 1..Len(lots) : lots[i] \in Lot
    BY <2>1, ElementOfSeq
  <2>3. \A i \in 1..Len(lots) : lots[i].acquired \in Nat
    BY <2>2, DatesAssumption DEF Lot
  <2>4. SUFFICES ASSUME NEW i \in 1..Len(lots), NEW j \in 1..Len(lots),
                        lots[i].acquired < lots[j].acquired,
                        lots[j].remaining < lots[j].quantity
                 PROVE  lots[i].remaining = 0
    BY <2>1 DEF OldestFirst
  <2>5. i < j
    BY <1>1, <2>3, <2>4 DEF IInv, LotsInOrder
  <2> QED
    BY <1>1, <2>4, <2>5 DEF IInv, ConsumedPrefix
<1> QED
  BY <1>1, Invariance, PTL

(* No sale is matched against units bought after its day: when a sale is   *)
(* being matched, no lot of a later day exists yet.                        *)
THEOREM NeverFromTheFuture == Spec => []NoFutureUnits
<1>1. IInv => NoFutureUnits
  BY DEF IInv, TypeOK, Progress, LotsPast, NoFutureUnits
<1> QED
  BY <1>1, Invariance, PTL

(* Between sales, the units and the euro cost that were bought are those   *)
(* of the disposals plus those OpenPositions reports, whatever was bought  *)
(* and sold: nothing is lost between the tax figures and the portfolio.    *)
THEOREM NothingIsLost == Spec => []NothingLost
<1>1. IInv => NothingLost
  <2>1. OpenPosition.quantity = UnitsIn(lots) /\ OpenPosition.costBasis = CostIn(lots)
    BY DEF OpenPosition, UnitsIn, CostIn
  <2>2. ASSUME IInv, pc \in {"match", "done"}
        PROVE  /\ UnitsIn(lots) + UnitsSold(disposals) = UnitsBought(sorted, at - 1)
               /\ CostIn(lots) + CostSold(disposals) = CostBought(sorted, at - 1)
    <3>1. UnitsIn(lots) \in Int /\ CostIn(lots) \in Int
      BY <2>2, LotSums DEF IInv, TypeOK
    <3>2. UnitsSold(disposals) \in Int /\ CostSold(disposals) \in Int
      BY <2>2, DisposalSums DEF IInv, TypeOK
    <3> QED
      BY <2>2, <3>1, <3>2 DEF IInv, Balance, Balanced
  <2> QED
    BY <2>1, <2>2 DEF NothingLost, UnitsSold, CostSold, UnitsBought, CostBought, BoughtBy
<1> QED
  BY <1>1, Invariance, PTL

----------------------------------------------------------------------------
(* The units of the lots.                                                  *)

Units == [acquired : Dates, cost : Nat]

(* Lists of units are appended in any grouping.                            *)
LEMMA UnitsAssociative ==
  \A a, b, c \in Seq(Units) : (a \o b) \o c = a \o (b \o c)
  <1> TAKE a, b, c \in Seq(Units)
  <1> HIDE DEF Units
  <1> QED
    BY ConcatAssociative

(* n units of the lot, and what is left of it without n.                   *)
Run(lot, n) == [k \in 1..n |-> Unit(lot)]

(* u[i] are the units of the first i lots.                                 *)
Listing(u, ls) ==
  /\ u \in [0..Len(ls) -> Seq(Units)]
  /\ u[0] = << >>
  /\ \A i \in 1..Len(ls) : u[i] = u[i - 1] \o Run(ls[i], ls[i].remaining)

(* A run is a sequence of one unit over and over.                          *)
LEMMA RunType ==
  ASSUME NEW lot \in Lot, NEW n \in Nat
  PROVE  /\ Unit(lot) \in Units
         /\ Run(lot, n) \in Seq(Units) /\ Len(Run(lot, n)) = n
         /\ \A k \in 1..n : Run(lot, n)[k] = Unit(lot)
<1>1. Unit(lot) \in Units
  BY LotWorth DEF Unit, Units, Lot
<1>2. Run(lot, n) \in [1..n -> Units]
  BY <1>1 DEF Run
<1> QED
  BY <1>1, <1>2 DEF Run

(* Concatenating the parts one by one is a function of how many there are. *)
IsFlat(g, s) == g = [i \in 1..Len(s) |-> IF i = 1 THEN s[i] ELSE g[i - 1] \o s[i]]

(* FlattenSeq is the last value of that function,                          *)
LEMMA FlattenIs ==
  ASSUME NEW s
  PROVE  FlattenSeq(s) = IF Len(s) = 0 THEN s ELSE (CHOOSE g : IsFlat(g, s))[Len(s)]
BY DEF FlattenSeq, IsFlat

(* which there is,                                                         *)
LEMMA FlatExists ==
  ASSUME NEW s, Len(s) \in Nat
  PROVE  \E g : IsFlat(g, s)
<1> DEFINE N == Len(s)
           Flat(g, m) == g = [i \in 1..m |-> IF i = 1 THEN s[i] ELSE g[i - 1] \o s[i]]
           C == {m \in Nat : \E g : Flat(g, m)}
<1>1. 0 \in C
  <2>1. Flat(<< >>, 0)
    OBVIOUS
  <2> QED
    BY <2>1
<1>2. ASSUME NEW j \in 1..N, j - 1 \in C PROVE j \in C
  <2> DEFINE m == j - 1
  <2>0. m \in Nat /\ j = m + 1 /\ m \in C
    <3>1. m \in Nat /\ j = m + 1
      OBVIOUS
    <3> HIDE DEF C
    <3>2. m \in C
      BY <1>2
    <3> QED
      BY <3>1, <3>2
  <2> HIDE DEF m
  <2>1. PICK g : Flat(g, m)
    BY <2>0
  <2> DEFINE last == IF m = 0 THEN s[1] ELSE g[m] \o s[m + 1]
             h == [i \in 1..(m + 1) |-> IF i <= m THEN g[i] ELSE last]
             k == [i \in 1..(m + 1) |-> IF i = 1 THEN s[i] ELSE h[i - 1] \o s[i]]
  <2>2. \A i \in 1..m : g[i] = IF i = 1 THEN s[i] ELSE g[i - 1] \o s[i]
    <3> DEFINE r == [i \in 1..m |-> IF i = 1 THEN s[i] ELSE g[i - 1] \o s[i]]
    <3>1. g = r
      BY <2>1
    <3>2. \A i \in 1..m : r[i] = IF i = 1 THEN s[i] ELSE g[i - 1] \o s[i]
      BY <2>0
    <3> HIDE DEF r
    <3> QED
      BY <3>1, <3>2
  <2>3. \A i \in 1..m : h[i] = g[i]
    BY <2>0
  <2>4. h[m + 1] = last
    BY <2>0
  <2>5. ASSUME NEW i \in 1..(m + 1) PROVE h[i] = k[i]
    <3>1. k[i] = IF i = 1 THEN s[i] ELSE h[i - 1] \o s[i]
      BY <2>0
    <3> HIDE DEF h, k
    <3>2. CASE i <= m
      <4>1. i \in 1..m /\ (i # 1 => i - 1 \in 1..m)
        BY <2>0, <3>2
      <4> QED
        BY <2>2, <2>3, <3>1, <4>1
    <3>3. CASE i = m + 1
      <4>1. m # 0 => h[m] = g[m]
        BY <2>0, <2>3
      <4> QED
        BY <2>0, <2>4, <3>1, <3>3, <4>1
    <3> QED
      BY <2>0, <3>2, <3>3
  <2>6. h = k
    BY <2>5
  <2>7. Flat(h, m + 1)
    <3> HIDE DEF h
    <3> QED
      BY <2>6
  <2> HIDE DEF h, Flat
  <2>8. (\E f : Flat(f, m + 1)) /\ m + 1 \in Nat
    BY <2>0, <2>7
  <2> QED
    BY <2>0, <2>8
<1> HIDE DEF C
<1>3. \A i \in 0..N : i \in C
  BY <1>1, <1>2, CountUpTo
<1>4. N \in C
  BY <1>3
<1> QED
  BY <1>4 DEF C, IsFlat

(* and which is each part put behind the parts before it.                  *)
LEMMA FlatAt ==
  ASSUME NEW s, NEW g, IsFlat(g, s), NEW i \in 1..Len(s)
  PROVE  g[i] = IF i = 1 THEN s[i] ELSE g[i - 1] \o s[i]
<1> DEFINE h == [j \in 1..Len(s) |-> IF j = 1 THEN s[j] ELSE g[j - 1] \o s[j]]
<1>1. g = h
  BY DEF IsFlat
<1>2. h[i] = IF i = 1 THEN s[i] ELSE g[i - 1] \o s[i]
  OBVIOUS
<1> HIDE DEF h
<1> QED
  BY <1>1, <1>2

(* Sequences of units put behind one another are sequences of units.       *)
LEMMA Joined ==
  ASSUME NEW n \in Nat, NEW s, NEW u, u[0] = << >>,
         \A i \in 1..n : s[i] \in Seq(Units), \A i \in 1..n : u[i] = u[i - 1] \o s[i]
  PROVE  \A i \in 0..n : u[i] \in Seq(Units)
<1> DEFINE Q == Seq(Units)
           C == {j \in 0..n : u[j] \in Q}
<1>1. << >> \in Q /\ \A x, y \in Q : x \o y \in Q
  BY EmptySeq, ConcatProperties
<1>2. \A i \in 1..n : s[i] \in Q
  OBVIOUS
<1> HIDE DEF Q
<1>3. 0 \in C
  BY <1>1
<1>4. ASSUME NEW i \in 1..n, i - 1 \in C PROVE i \in C
  <2>1. u[i - 1] \in Q /\ i \in 0..n
    BY <1>4
  <2>2. u[i] = u[i - 1] \o s[i]
    OBVIOUS
  <2>3. u[i] \in Q
    BY <1>1, <1>2, <2>1, <2>2
  <2> QED
    BY <2>1, <2>3
<1> HIDE DEF C
<1>5. \A i \in 0..n : i \in C
  BY <1>3, <1>4, CountUpTo
<1> QED
  BY <1>5 DEF C, Q

(* What the lots stand for is the last of a listing.                       *)
LEMMA Listed ==
  ASSUME NEW ls \in Seq(Lot)
  PROVE  \E u : Listing(u, ls) /\ UnitsOf(ls) = u[Len(ls)]
<1> DEFINE n == Len(ls)
           s == [i \in DOMAIN ls |-> [k \in 1..ls[i].remaining |-> Unit(ls[i])]]
           g == CHOOSE h : IsFlat(h, s)
           u == [i \in 0..n |-> IF i = 0 THEN << >> ELSE g[i]]
<1>1. n \in Nat /\ DOMAIN ls = 1..n /\ Len(s) = n /\ \A i \in 1..n : ls[i] \in Lot
  BY ElementOfSeq
<1>2. \A i \in 1..n : s[i] = Run(ls[i], ls[i].remaining) /\ s[i] \in Seq(Units)
  <2>1. \A i \in 1..n : s[i] = Run(ls[i], ls[i].remaining)
    BY <1>1 DEF Run
  <2>2. \A i \in 1..n : ls[i].remaining \in Nat
    BY <1>1 DEF Lot
  <2> QED
    <3> HIDE DEF s
    <3>1. \A i \in 1..n : Run(ls[i], ls[i].remaining) \in Seq(Units)
      BY <1>1, <2>2, RunType
    <3> QED
      BY <2>1, <3>1
<1>3. UnitsOf(ls) = IF n = 0 THEN s ELSE g[n]
  <2>1. FlattenSeq(s) = IF Len(s) = 0 THEN s ELSE g[Len(s)]
    BY FlattenIs
  <2>2. UnitsOf(ls) = FlattenSeq(s)
    BY DEF UnitsOf
  <2> HIDE DEF s, g
  <2> QED
    BY <1>1, <2>1, <2>2
<1>4. n = 0 => s = << >>
  BY <1>1
<1>5. IsFlat(g, s)
  BY <1>1, FlatExists
<1> HIDE DEF s, g
<1>6. \A i \in 1..n : g[i] = IF i = 1 THEN s[i] ELSE g[i - 1] \o s[i]
  BY <1>1, <1>5, FlatAt
<1>7. \A i \in 0..n : u[i] = IF i = 0 THEN << >> ELSE g[i]
  OBVIOUS
<1>8. ASSUME NEW i \in 1..n PROVE u[i] = u[i - 1] \o s[i]
  <2>1. i - 1 \in 0..n /\ i \in 0..n /\ i # 0 /\ s[i] \in Seq(Units)
    BY <1>1, <1>2
  <2> HIDE DEF u
  <2>2. CASE i = 1
    <3>1. u[i] = s[i] /\ u[i - 1] = << >>
      BY <1>6, <1>7, <2>1, <2>2
    <3> QED
      BY <2>1, <3>1, ConcatEmptySeq
  <2>3. CASE i # 1
    <3>1. g[i] = g[i - 1] \o s[i]
      BY <1>6, <2>3
    <3>2. i - 1 # 0
      BY <1>1, <2>3
    <3>3. u[i] = g[i] /\ u[i - 1] = g[i - 1]
      BY <1>7, <2>1, <3>2
    <3> QED
      BY <3>1, <3>3
  <2> QED
    BY <2>2, <2>3
<1>9. u[0] = << >>
  BY <1>1
<1>10. \A i \in 0..n : u[i] \in Seq(Units)
  <2> HIDE DEF u
  <2> QED
    BY <1>1, <1>2, <1>8, <1>9, Joined
<1>11. u \in [0..n -> Seq(Units)]
  BY <1>10
<1>12. n # 0 => u[n] = g[n]
  BY <1>1
<1> HIDE DEF u
<1>13. Listing(u, ls)
  BY <1>2, <1>8, <1>9, <1>11 DEF Listing
<1>14. UnitsOf(ls) = u[n]
  BY <1>3, <1>4, <1>9, <1>12
<1> QED
  BY <1>13, <1>14

(* Lots alike up to some place have the same units up to there.            *)
LEMMA ListingsAgree ==
  ASSUME NEW ls \in Seq(Lot), NEW ms \in Seq(Lot), NEW u, NEW v, Listing(u, ls), Listing(v, ms),
         NEW n \in Nat, n <= Len(ls), n <= Len(ms), \A i \in 1..n : ls[i] = ms[i]
  PROVE  \A i \in 0..n : u[i] = v[i]
<1> DEFINE C == {i \in 0..n : u[i] = v[i]}
<1>1. 0 \in C
  BY DEF Listing
<1>2. ASSUME NEW i \in 1..n, i - 1 \in C PROVE i \in C
  <2>1. i \in 1..Len(ls) /\ i \in 1..Len(ms) /\ u[i - 1] = v[i - 1]
    BY <1>2
  <2>2. u[i] = u[i - 1] \o Run(ls[i], ls[i].remaining)
        /\ v[i] = v[i - 1] \o Run(ms[i], ms[i].remaining)
    BY <2>1 DEF Listing
  <2>3. ls[i] = ms[i] /\ i \in 0..n
    OBVIOUS
  <2>4. u[i] = v[i]
    BY <2>1, <2>2, <2>3
  <2> QED
    BY <2>3, <2>4
<1> HIDE DEF C
<1>3. \A i \in 0..n : i \in C
  BY <1>1, <1>2, CountUpTo
<1> QED
  BY <1>3 DEF C

(* A new lot's units are queued behind all others.                         *)
LEMMA UnitsQueued ==
  ASSUME NEW ls \in Seq(Lot), NEW new \in Lot
  PROVE  UnitsOf(Append(ls, new)) = UnitsOf(ls) \o Run(new, new.remaining)
<1> DEFINE ms == Append(ls, new)
           n == Len(ls)
<1>1. /\ ms \in Seq(Lot) /\ Len(ms) = n + 1 /\ n \in Nat
      /\ \A i \in 1..n : ls[i] = ms[i]
      /\ ms[n + 1] = new
  BY AppendProperties
<1>2. PICK u : Listing(u, ls) /\ UnitsOf(ls) = u[n]
  BY Listed
<1> HIDE DEF ms
<1>3. PICK v : Listing(v, ms) /\ UnitsOf(ms) = v[n + 1]
  BY <1>1, Listed
<1>4. u[n] = v[n]
  <2>1. n <= Len(ls) /\ n <= Len(ms) /\ n \in 0..n
    BY <1>1
  <2> QED
    BY <1>1, <1>2, <1>3, <2>1, ListingsAgree
<1>5. n + 1 \in 1..Len(ms) /\ (n + 1) - 1 = n
  BY <1>1
<1>6. v[n + 1] = v[n] \o Run(new, new.remaining)
  BY <1>1, <1>3, <1>5 DEF Listing
<1> QED
  BY <1>2, <1>3, <1>4, <1>6 DEF ms

(* Before the first lot with units there are none.                         *)
LEMMA NoUnits ==
  ASSUME NEW ls \in Seq(Lot), NEW u, Listing(u, ls), NEW n \in 0..Len(ls),
         \A i \in 1..n : ls[i].remaining = 0
  PROVE  u[n] = << >>
<1> DEFINE C == {i \in 0..n : u[i] = << >>}
<1>1. 0 \in C
  BY DEF Listing
<1>2. ASSUME NEW i \in 1..n, i - 1 \in C PROVE i \in C
  <2>1. i \in 1..Len(ls) /\ u[i - 1] = << >> /\ ls[i].remaining = 0
    BY <1>2
  <2>2. u[i] = u[i - 1] \o Run(ls[i], ls[i].remaining)
    BY <2>1 DEF Listing
  <2>3. Run(ls[i], 0) = << >>
    BY DEF Run
  <2>4. << >> \o << >> = << >>
    OBVIOUS
  <2> QED
    BY <2>1, <2>2, <2>3, <2>4
<1> HIDE DEF C
<1>3. n \in Nat /\ n \in 0..n
  OBVIOUS
<1>4. \A i \in 0..n : i \in C
  BY <1>1, <1>2, <1>3, CountUpTo
<1> QED
  BY <1>3, <1>4 DEF C

(* Runs of one lot make one run.                                           *)
LEMMA RunSplit ==
  ASSUME NEW lot \in Lot, NEW n \in Nat, NEW m \in Nat
  PROVE  Run(lot, n + m) = Run(lot, n) \o Run(lot, m)
<1>1. /\ Run(lot, n) \in Seq(Units) /\ Len(Run(lot, n)) = n
      /\ Run(lot, m) \in Seq(Units) /\ Len(Run(lot, m)) = m
      /\ Run(lot, n + m) \in Seq(Units) /\ Len(Run(lot, n + m)) = n + m
      /\ \A k \in 1..n : Run(lot, n)[k] = Unit(lot)
      /\ \A k \in 1..m : Run(lot, m)[k] = Unit(lot)
      /\ \A k \in 1..(n + m) : Run(lot, n + m)[k] = Unit(lot)
  BY RunType
<1> DEFINE a == Run(lot, n)
           b == Run(lot, m)
           c == Run(lot, n + m)
<1> HIDE DEF a, b, c
<1>2. /\ a \o b \in Seq(Units) /\ Len(a \o b) = n + m
      /\ \A k \in 1..(n + m) : (a \o b)[k] = IF k <= n THEN a[k] ELSE b[k - n]
  <2>1. a \in Seq(Units) /\ b \in Seq(Units) /\ Len(a) = n /\ Len(b) = m
    BY <1>1 DEF a, b
  <2> QED
    BY <2>1, ConcatProperties
<1>3. ASSUME NEW k \in 1..(n + m) PROVE c[k] = (a \o b)[k]
  <2>1. c[k] = Unit(lot)
    BY <1>1 DEF c
  <2>2. CASE k <= n
    BY <1>1, <1>2, <2>1, <2>2 DEF a
  <2>3. CASE ~ (k <= n)
    <3>1. k - n \in 1..m
      BY <2>3
    <3>2. b[k - n] = Unit(lot)
      BY <1>1, <3>1 DEF b
    <3> QED
      BY <1>2, <2>1, <2>3, <3>2
  <2> QED
    BY <2>2, <2>3
<1>4. c \in Seq(Units) /\ Len(c) = n + m
  BY <1>1 DEF c
<1>5. c = a \o b
  BY <1>2, <1>3, <1>4, SeqEqual
<1> QED
  BY <1>5 DEF a, b, c

(* Units taken from the first lot that has any are the first in the queue. *)
LEMMA FirstUnits ==
  ASSUME NEW ls \in Seq(Lot), NEW k \in 1..Len(ls), NEW t \in Nat, t <= ls[k].remaining,
         \A i \in 1..Len(ls) : i < k => ls[i].remaining = 0
  PROVE  UnitsOf(ls) = Run(ls[k], t) \o UnitsOf([ls EXCEPT ![k].remaining = @ - t])
<1> DEFINE lot  == ls[k]
           rest == [lot EXCEPT !.remaining = @ - t]
           ms   == [ls EXCEPT ![k] = rest]
           n    == Len(ls)
           run  == Run(lot, t)
<1>1. lot \in Lot /\ lot.remaining \in Nat /\ lot.remaining - t \in Nat /\ n \in Nat
  <2>1. lot \in Lot
    BY ElementOfSeq
  <2>2. lot.remaining \in Nat
    BY <2>1 DEF Lot
  <2> QED
    BY <2>1, <2>2
<1>2. /\ rest \in Lot /\ rest.remaining = lot.remaining - t
      /\ rest.quantity = lot.quantity /\ rest.costBasis = lot.costBasis
      /\ rest.acquired = lot.acquired
  BY <1>1 DEF Lot
<1>3. Unit(rest) = Unit(lot)
  BY <1>2 DEF Unit, unitCost
<1>4. \A m : Run(rest, m) = Run(lot, m)
  BY <1>3 DEF Run
<1>5. /\ ms \in Seq(Lot) /\ Len(ms) = n
      /\ \A i \in 1..n : ms[i] = IF i = k THEN rest ELSE ls[i]
  BY <1>2, ExceptSeq
<1>6. ms = [ls EXCEPT ![k].remaining = @ - t]
  OBVIOUS
<1> HIDE DEF ms, rest, lot
<1>7. PICK u : Listing(u, ls) /\ UnitsOf(ls) = u[n]
  BY Listed
<1>8. PICK v : Listing(v, ms) /\ UnitsOf(ms) = v[n]
  BY <1>5, Listed
<1>9. u[k - 1] = << >> /\ v[k - 1] = << >>
  <2>1. k - 1 \in 0..Len(ls) /\ k - 1 \in 0..Len(ms)
    BY <1>1, <1>5
  <2>2. \A i \in 1..(k - 1) : i \in 1..Len(ls) /\ i < k /\ i # k
    BY <1>1
  <2>3. \A i \in 1..(k - 1) : ls[i].remaining = 0 /\ ms[i].remaining = 0
    BY <1>5, <2>2
  <2>4. u[k - 1] = << >>
    BY <1>7, <2>1, <2>3, NoUnits
  <2>5. v[k - 1] = << >>
    BY <1>5, <1>8, <2>1, <2>3, NoUnits
  <2> QED
    BY <2>4, <2>5
<1>10. run \in Seq(Units)
  BY <1>1, RunType
<1>11. \A i \in 0..n : v[i] \in Seq(Units) /\ u[i] \in Seq(Units)
  BY <1>5, <1>7, <1>8 DEF Listing
<1>12. u[k] = run \o v[k]
  <2> DEFINE r == Run(lot, lot.remaining)
             m == lot.remaining - t
             s == Run(lot, m)
  <2>1. u[k] = u[k - 1] \o r
    BY <1>7 DEF Listing, lot
  <2>2. v[k] = v[k - 1] \o s
    <3>1. k \in 1..Len(ms)
      BY <1>5
    <3>2. v[k] = v[k - 1] \o Run(ms[k], ms[k].remaining)
      BY <1>8, <3>1 DEF Listing
    <3>3. ms[k] = rest
      BY <1>5
    <3> QED
      BY <1>2, <1>4, <3>2, <3>3
  <2>3. r \in Seq(Units) /\ s \in Seq(Units)
    BY <1>1, RunType
  <2>4. u[k] = r /\ v[k] = s
    <3> HIDE DEF r, s
    <3> QED
      BY <1>9, <2>1, <2>2, <2>3, ConcatEmptySeq
  <2>5. r = run \o s
    <3>1. lot.remaining = t + m
      BY <1>1
    <3>2. Run(lot, t + m) = Run(lot, t) \o Run(lot, m)
      BY <1>1, RunSplit
    <3> QED
      BY <3>1, <3>2
  <2> QED
    BY <2>4, <2>5
<1> HIDE DEF run
<1> DEFINE C == {j \in 0..(n - k) : u[k + j] = run \o v[k + j]}
<1>13. 0 \in C
  BY <1>1, <1>12
<1>14. ASSUME NEW j \in 1..(n - k), j - 1 \in C PROVE j \in C
  <2> DEFINE i == k + j
             r == Run(ls[i], ls[i].remaining)
  <2>1. i \in 1..n /\ i # k /\ i - 1 = k + (j - 1) /\ i - 1 \in 0..n /\ j \in 0..(n - k)
    BY <1>1
  <2>2. u[i - 1] = run \o v[i - 1]
    BY <1>14, <2>1
  <2> HIDE DEF i
  <2>3. u[i] = u[i - 1] \o r
    BY <1>7, <2>1 DEF Listing
  <2>4. ms[i] = ls[i] /\ i \in 1..Len(ms)
    BY <1>5, <2>1
  <2>5. v[i] = v[i - 1] \o r
    BY <1>8, <2>4 DEF Listing
  <2>6. v[i - 1] \in Seq(Units) /\ r \in Seq(Units)
    <3>1. ls[i] \in Lot
      BY <2>1, ElementOfSeq
    <3>2. ls[i].remaining \in Nat
      BY <3>1 DEF Lot
    <3> QED
      BY <1>11, <2>1, <3>1, <3>2, RunType
  <2> HIDE DEF r
  <2>7. (run \o v[i - 1]) \o r = run \o (v[i - 1] \o r)
    <3> DEFINE x == v[i - 1]
    <3>1. x \in Seq(Units) /\ r \in Seq(Units) /\ run \in Seq(Units)
      BY <1>10, <2>6
    <3> HIDE DEF x
    <3>2. (run \o x) \o r = run \o (x \o r)
      BY <3>1, UnitsAssociative, Zenon
    <3> QED
      BY <3>2 DEF x
  <2>8. u[i] = run \o v[i]
    BY <2>2, <2>3, <2>5, <2>7
  <2> QED
    BY <2>1, <2>8 DEF i
<1> HIDE DEF C
<1>15. n - k \in Nat /\ n - k \in 0..(n - k) /\ k + (n - k) = n
  BY <1>1
<1>16. n - k \in C
  BY <1>13, <1>14, <1>15, CountUpTo
<1>17. u[n] = run \o v[n]
  BY <1>15, <1>16 DEF C
<1> QED
  BY <1>6, <1>7, <1>8, <1>17 DEF run, lot

(* Every unit held is of a lot that is held.                               *)
LEMMA UnitsOfLots ==
  ASSUME NEW ls \in Seq(Lot)
  PROVE  /\ UnitsOf(ls) \in Seq(Units)
         /\ \A k \in 1..Len(UnitsOf(ls)) :
              \E i \in 1..Len(ls) : UnitsOf(ls)[k].acquired = ls[i].acquired
<1> DEFINE n == Len(ls)
           Known(s) == \A k \in 1..Len(s) : \E i \in 1..n : s[k].acquired = ls[i].acquired
<1>1. PICK u : Listing(u, ls) /\ UnitsOf(ls) = u[n]
  BY Listed
<1>2. n \in Nat /\ (\A i \in 0..n : u[i] \in Seq(Units)) /\ u[n] \in Seq(Units)
  BY <1>1 DEF Listing
<1> DEFINE C == {i \in 0..n : Known(u[i])}
<1>3. 0 \in C
  <2>1. u[0] = << >> /\ Len(<< >>) = 0
    BY <1>1 DEF Listing
  <2> QED
    BY <1>2, <2>1
<1>4. ASSUME NEW i \in 1..n, i - 1 \in C PROVE i \in C
  <2> DEFINE s == u[i - 1]
             r == Run(ls[i], ls[i].remaining)
  <2>1. i \in 0..n /\ i - 1 \in 0..n /\ Known(s) /\ u[i] = s \o r
    <3>1. u[i] = s \o r
      BY <1>1 DEF Listing
    <3>2. i \in 0..n /\ i - 1 \in 0..n
      BY <1>2
    <3> QED
      BY <1>4, <3>1, <3>2
  <2>2. ls[i] \in Lot /\ ls[i].remaining \in Nat
    <3>1. ls[i] \in Lot
      BY ElementOfSeq
    <3> QED
      BY <3>1 DEF Lot
  <2>3. s \in Seq(Units) /\ r \in Seq(Units) /\ Len(r) = ls[i].remaining
        /\ \A k \in 1..Len(r) : r[k] = Unit(ls[i])
    BY <1>2, <2>1, <2>2, RunType
  <2> HIDE DEF s, r
  <2>4. Len(s \o r) = Len(s) + Len(r) /\ Len(s) \in Nat /\ Len(r) \in Nat
        /\ \A k \in 1..(Len(s) + Len(r)) : (s \o r)[k] = IF k <= Len(s) THEN s[k] ELSE r[k - Len(s)]
    BY <2>3, ConcatProperties, SMTT(30)
  <2>5. ASSUME NEW k \in 1..Len(s \o r)
        PROVE  \E j \in 1..n : (s \o r)[k].acquired = ls[j].acquired
    <3>1. CASE k <= Len(s)
      <4>1. (s \o r)[k] = s[k] /\ k \in 1..Len(s)
        BY <2>4, <2>5, <3>1
      <4> QED
        BY <2>1, <4>1
    <3>2. CASE ~ (k <= Len(s))
      <4>1. (s \o r)[k] = r[k - Len(s)] /\ k - Len(s) \in 1..Len(r)
        BY <2>4, <2>5, <3>2
      <4>2. (s \o r)[k] = Unit(ls[i])
        BY <2>3, <4>1
      <4>3. (s \o r)[k].acquired = ls[i].acquired
        BY <4>2 DEF Unit
      <4> QED
        BY <4>3
    <3> QED
      BY <3>1, <3>2
  <2> QED
    BY <2>1, <2>5, ZenonT(60)
<1> HIDE DEF C
<1>5. \A i \in 0..n : i \in C
  BY <1>2, <1>3, <1>4, CountUpTo
<1>6. Known(u[n])
  <2>1. n \in C
    BY <1>2, <1>5
  <2> HIDE DEF Known
  <2> QED
    BY <2>1 DEF C
<1> QED
  BY <1>1, <1>2, <1>6

----------------------------------------------------------------------------
(* What units cost.                                                        *)

UnitsCost(us) == SumFunction([k \in DOMAIN us |-> us[k].cost])

(* The queue's cost of units is theirs.                                    *)
LEMMA QueueCost ==
  ASSUME NEW us
  PROVE  Queue!CostOf(us) = UnitsCost(us)
BY DEF Queue!CostOf, Queue!SumFunction, Queue!SumFunctionOnSet, Queue!FoldFunctionOnSet,
       Queue!MapThenFoldSet, UnitsCost, SumFunction, SumFunctionOnSet, FoldFunctionOnSet,
       MapThenFoldSet

(* One more unit adds its cost.                                            *)
LEMMA CostAdded ==
  ASSUME NEW us \in Seq(Units), NEW unit \in Units
  PROVE  UnitsCost(us) \in Int /\ UnitsCost(Append(us, unit)) = UnitsCost(us) + unit.cost
<1> DEFINE longer == Append(us, unit)
           n == Len(us)
           S == 1..n
           a == n + 1
           f == [k \in DOMAIN us |-> us[k].cost]
           g == [k \in DOMAIN longer |-> longer[k].cost]
<1>1. /\ longer \in Seq(Units) /\ Len(longer) = n + 1 /\ n \in Nat
      /\ \A k \in 1..n : longer[k] = us[k]
      /\ longer[a] = unit
      /\ DOMAIN longer = 1..(n + 1) /\ DOMAIN us = 1..n
  BY AppendProperties
<1>2. 1..(n + 1) = S \union {a} /\ a \notin S
  BY <1>1
<1>3. (\A k \in 1..n : us[k].cost \in Int) /\ \A k \in 1..(n + 1) : longer[k].cost \in Int
  <2>1. (\A k \in 1..n : us[k] \in Units) /\ \A k \in 1..(n + 1) : longer[k] \in Units
    BY <1>1, ElementOfSeq
  <2> QED
    BY <2>1 DEF Units
<1>4. IsFiniteSet(S) /\ f \in [S -> Int] /\ g \in [S \union {a} -> Int]
  <2>1. f \in [S -> Int]
    BY <1>1, <1>3
  <2>2. g \in [S \union {a} -> Int]
    BY <1>1, <1>2, <1>3
  <2>3. IsFiniteSet(S)
    BY <1>1, FS_Interval
  <2> QED
    BY <2>1, <2>2, <2>3
<1>5. (\A k \in S : g[k] = f[k]) /\ g[a] = unit.cost
  BY <1>1, <1>2
<1>6. UnitsCost(longer) = SumFunction(g) /\ UnitsCost(us) = SumFunction(f)
  BY DEF UnitsCost
<1> HIDE DEF f, g, S, a, longer
<1>7. OneMore(g, f, S, a) /\ IsFamily(f, S)
  BY <1>2, <1>4, <1>5 DEF OneMore, IsFamily
<1>8. SumFunction(g) = SumFunction(f) + g[a]
  BY <1>7, SumAdded
<1>9. SumFunction(f) \in Int
  BY <1>7, SumFamily
<1> QED
  BY <1>5, <1>6, <1>8, <1>9 DEF longer

(* No units cost nothing.                                                  *)
LEMMA NoCost == UnitsCost(<< >>) = 0
<1> DEFINE f == [k \in DOMAIN << >> |-> << >>[k].cost]
<1>1. f \in [{} -> Int] /\ IsFiniteSet({})
  BY FS_EmptySet
<1>2. UnitsCost(<< >>) = SumFunction(f)
  BY DEF UnitsCost
<1> HIDE DEF f
<1> QED
  BY <1>1, <1>2, SumFamily DEF IsFamily

(* n more units of one lot cost n times its unit cost.                     *)
LEMMA CostOfRun ==
  ASSUME NEW us \in Seq(Units), NEW lot \in Lot, NEW n \in Nat
  PROVE  UnitsCost(us \o Run(lot, n)) = UnitsCost(us) + n * unitCost(lot)
<1> DEFINE c == unitCost(lot)
           C == {m \in 0..n : UnitsCost(us \o Run(lot, m)) = UnitsCost(us) + m * c}
<1>1. c \in Nat /\ Unit(lot) \in Units /\ Unit(lot).cost = c /\ UnitsCost(us) \in Int
  BY LotWorth, RunType, CostAdded DEF Unit
<1>2. 0 \in C
  <2>1. Run(lot, 0) = << >>
    BY DEF Run
  <2>2. us \o Run(lot, 0) = us
    BY <2>1, ConcatEmptySeq
  <2>3. UnitsCost(us) = UnitsCost(us) + 0 * c
    BY <1>1
  <2> HIDE DEF c
  <2>4. UnitsCost(us \o Run(lot, 0)) = UnitsCost(us) + 0 * c
    BY <2>2, <2>3, Zenon
  <2> QED
    BY <2>4
<1>3. ASSUME NEW m \in 1..n, m - 1 \in C PROVE m \in C
  <2> DEFINE k == m - 1
             s == us \o Run(lot, k)
  <2>1. k \in Nat /\ m = k + 1 /\ m \in 0..n /\ UnitsCost(s) = UnitsCost(us) + k * c
    BY <1>3
  <2>2. Run(lot, m) = Run(lot, k) \o Run(lot, 1)
    BY <2>1, RunSplit
  <2>3. Run(lot, 1) = << Unit(lot) >>
    BY DEF Run
  <2>4. Run(lot, k) \in Seq(Units) /\ << Unit(lot) >> \in Seq(Units)
    BY <1>1, <2>1, RunType
  <2> HIDE DEF k
  <2>5. us \o (Run(lot, k) \o << Unit(lot) >>) = s \o << Unit(lot) >>
    BY <2>4, UnitsAssociative, Zenon
  <2>6. s \in Seq(Units)
    BY <2>4, ConcatProperties
  <2> HIDE DEF s
  <2>7. Append(s, Unit(lot)) = s \o << Unit(lot) >>
    BY <1>1, <2>6, AppendIsConcat
  <2>8. us \o Run(lot, m) = Append(s, Unit(lot))
    BY <2>2, <2>3, <2>5, <2>7
  <2>9. UnitsCost(Append(s, Unit(lot))) = UnitsCost(s) + c
    BY <1>1, <2>6, CostAdded
  <2>10. k * c \in Int /\ (k + 1) * c = k * c + c
    BY <1>1, <2>1
  <2> HIDE DEF c
  <2> DEFINE w == k * c
             x == UnitsCost(us)
             y == UnitsCost(s)
  <2>a. m * c = w + c
    BY <2>1, <2>10
  <2>b. w \in Int /\ x \in Int /\ c \in Int /\ y = x + w
    BY <1>1, <2>1, <2>10
  <2>c. UnitsCost(us \o Run(lot, m)) = y + c
    BY <2>8, <2>9
  <2> HIDE DEF w, x, y
  <2>d. y + c = x + (w + c)
    BY <2>b
  <2>11. UnitsCost(us \o Run(lot, m)) = UnitsCost(us) + m * c
    BY <2>a, <2>c, <2>d DEF x
  <2> QED
    BY <2>1, <2>11
<1> HIDE DEF C
<1>4. \A m \in 0..n : m \in C
  BY <1>2, <1>3, CountUpTo
<1>5. n \in C
  BY <1>4
<1> QED
  BY <1>5 DEF C

----------------------------------------------------------------------------
(* Every step of the matcher is a step of the queue or none.               *)

PricesKnown ==
  /\ pc = "convert" => \A i \in 1..Len(txs) : txs[i].price \in Prices
  /\ pc = "sort" => \A i \in 1..Len(txs) : txs[i].price \in EuroPrices
  /\ \A i \in 1..Len(sorted) : sorted[i].price \in EuroPrices

ReasonGiven == pc = "error" <=> reason # "none"

HeldPast == pc = "take" => \A i \in 1..Len(held) : held[i].acquired <= sorted[at].date

(* A sale has taken t from the front of the queue it found.                *)
Taken(t) ==
  /\ UnitsOf(held) = t \o UnitsOf(lots)
  /\ Len(t) + wanted = sorted[at].quantity
  /\ UnitsCost(t) = cost

TakenSoFar == pc = "take" => \E t \in Seq(Units) : Taken(t)

QInv == PricesKnown /\ ReasonGiven /\ HeldPast /\ TakenSoFar

(* A price restated in euro is one of the prices of the queue.             *)
LEMMA EuroPriceKnown ==
  ASSUME NEW tx \in Transaction, tx.price \in Prices
  PROVE  InEUR(tx).price \in EuroPrices
<1>1. CASE tx.currency = "EUR"
  <2>1. InEUR(tx).price = tx.price * 1
    BY <1>1, PriceAssumption DEF InEUR
  <2> QED
    BY <2>1 DEF EuroPrices
<1>2. CASE tx.currency # "EUR"
  <2>1. InEUR(tx).price = tx.price * EuroRate[tx.date] /\ tx.date \in Dates
    BY <1>2 DEF InEUR, Transaction
  <2> QED
    BY <2>1 DEF EuroPrices
<1> QED
  BY <1>1, <1>2

(* What a turn of the loop takes from a lot is next in the queue.          *)
LEMMA TakeStep ==
  ASSUME IInv, QInv, TakeFromLot
  PROVE  TakenSoFar'
<1> DEFINE lot  == lots[cursor]
           take == minimum(wanted, lot.remaining)
           run  == Run(lot, take)
<1>1. /\ pc = "take" /\ pc' = "take" /\ wanted # 0 /\ cursor \in 1..Len(lots)
      /\ lots' = [lots EXCEPT ![cursor].remaining = @ - take]
      /\ cost' = cost + take * unitCost(lot)
      /\ wanted' = wanted - take
      /\ UNCHANGED <<sorted, at, held>>
  BY DEF TakeFromLot, LotInReach, IInv, TypeOK
<1>2. /\ lots \in Seq(Lot) /\ wanted \in Nat /\ cost \in Nat
      /\ sorted \in Seq(Transaction) /\ at \in 1..Len(sorted)
  BY <1>1 DEF IInv, TypeOK, Progress
<1>3. lot \in Lot
  BY <1>1, <1>2, ElementOfSeq
<1>4. lot.remaining \in Nat
  BY <1>3 DEF Lot
<1>5. take \in Nat /\ take <= wanted /\ take <= lot.remaining
  BY <1>2, <1>4, MinimumBounds
<1>6. \A i \in 1..Len(lots) : i < cursor => lots[i].remaining = 0
  BY <1>1 DEF IInv, CursorClear
<1>7. PICK t \in Seq(Units) : Taken(t)
  BY <1>1 DEF QInv, TakenSoFar
<1> HIDE DEF take
<1>8. UnitsOf(lots) = run \o UnitsOf([lots EXCEPT ![cursor].remaining = @ - take])
  BY <1>1, <1>2, <1>5, <1>6, FirstUnits, ZenonT(60)
<1>9. UnitsOf(lots) = run \o UnitsOf(lots')
  BY <1>1, <1>8
<1>10. lots' \in Seq(Lot)
  BY TakeFromLotEffect DEF IInv
<1>11. run \in Seq(Units) /\ Len(run) = take /\ UnitsOf(lots') \in Seq(Units)
  BY <1>3, <1>5, <1>10, RunType, UnitsOfLots
<1>12. UnitsCost(t \o run) = UnitsCost(t) + take * unitCost(lot)
  BY <1>3, <1>5, CostOfRun
<1> HIDE DEF run, lot
<1>13. (t \o run) \o UnitsOf(lots') = t \o (run \o UnitsOf(lots'))
  BY <1>11, UnitsAssociative, Zenon
<1>14. t \o run \in Seq(Units) /\ Len(t \o run) = Len(t) + take /\ Len(t) \in Nat
  <2>1. Len(t) \in Nat /\ t \in Seq(Units)
    BY <1>7
  <2>2. t \o run \in Seq(Units) /\ Len(t \o run) = Len(t) + Len(run)
    BY <1>11, <2>1, ConcatProperties
  <2> QED
    BY <1>11, <2>1, <2>2
<1> DEFINE s == t \o run
<1>15. UnitsOf(held)' = s \o UnitsOf(lots)'
  BY <1>1, <1>7, <1>9, <1>13 DEF Taken
<1>16. Len(s) + wanted' = sorted'[at'].quantity
  <2>1. Len(t) + wanted = sorted[at].quantity
    BY <1>7 DEF Taken
  <2>2. Len(s) + wanted' = Len(t) + wanted
    BY <1>1, <1>2, <1>5, <1>14
  <2> QED
    BY <1>1, <2>1, <2>2
<1>17. UnitsCost(s) = cost'
  BY <1>1, <1>7, <1>12 DEF Taken
<1>18. s \in Seq(Units)
  BY <1>14
<1> HIDE DEF s
<1>19. \E r \in Seq(Units) : /\ UnitsOf(held)' = r \o UnitsOf(lots)'
                            /\ Len(r) + wanted' = sorted'[at'].quantity
                            /\ UnitsCost(r) = cost'
  BY <1>15, <1>16, <1>17, <1>18
<1> QED
  BY <1>19 DEF TakenSoFar, Taken

(* Where a sale stands is kept by every step.                              *)
LEMMA QueueStep ==
  ASSUME IInv, QInv, [Next]_vars
  PROVE  QInv'
<1>0. /\ txs \in Seq(Transaction) /\ sorted \in Seq(Transaction) /\ lots \in Seq(Lot)
      /\ at \in Nat \ {0} /\ reason \in {"none", "rate", "oversell", "type"}
  BY DEF IInv, TypeOK
<1>q. PricesKnown /\ ReasonGiven /\ HeldPast /\ TakenSoFar
  BY DEF QInv
<1> USE DEF PricesKnown, ReasonGiven, HeldPast
<1>1. CASE ToEURPrices
  <2>1. /\ pc = "convert" /\ pc' = "sort" /\ txs' = [i \in DOMAIN txs |-> InEUR(txs[i])]
        /\ UNCHANGED <<sorted, reason>>
    BY <1>1 DEF ToEURPrices
  <2>2. \A i \in 1..Len(txs) : txs[i] \in Transaction /\ txs[i].price \in Prices
    BY <1>0, <1>q, <2>1, ElementOfSeq
  <2>3. \A i \in 1..Len(txs) : InEUR(txs[i]).price \in EuroPrices
    BY <2>2, EuroPriceKnown
  <2>4. Len(txs') = Len(txs)
    BY <1>0, <2>1
  <2>5. \A i \in 1..Len(txs') : txs'[i].price \in EuroPrices
    BY <1>0, <2>1, <2>3, <2>4
  <2> QED
    BY <1>q, <2>1, <2>5 DEF QInv, TakenSoFar
<1>2. CASE RateUnavailable
  BY <1>2, <1>q DEF RateUnavailable, Fail, QInv, TakenSoFar
<1>3. CASE SortByDate
  <2>1. PICK p \in StableOrders(txs) : sorted' = [i \in DOMAIN txs |-> txs[p[i]]]
    BY <1>3 DEF SortByDate
  <2>2. pc = "sort" /\ pc' = "match" /\ UNCHANGED <<txs, reason>>
    BY <1>3 DEF SortByDate
  <2>3. p \in [1..Len(txs) -> 1..Len(txs)] /\ Len(sorted') = Len(txs)
    <3>1. p \in [DOMAIN txs -> DOMAIN txs] /\ DOMAIN txs = 1..Len(txs) /\ Len(txs) \in Nat
      BY <1>0 DEF StableOrders
    <3>2. sorted' \in Seq(Transaction) /\ DOMAIN sorted' = DOMAIN txs
      BY <1>0, <2>1, StableOrderSorted
    <3> QED
      BY <3>1, <3>2
  <2>4. \A i \in 1..Len(sorted') : sorted'[i].price \in EuroPrices
    <3>1. \A i \in 1..Len(txs) : txs[i].price \in EuroPrices
      BY <1>q, <2>2
    <3>2. \A i \in 1..Len(txs) : sorted'[i] = txs[p[i]] /\ p[i] \in 1..Len(txs)
      <4>1. DOMAIN txs = 1..Len(txs)
        BY <1>0
      <4> QED
        BY <2>1, <2>3, <4>1
    <3> QED
      BY <2>3, <3>1, <3>2
  <2> QED
    BY <1>q, <2>2, <2>4 DEF QInv, TakenSoFar
<1>4. CASE Acquire
  BY <1>4, <1>q DEF Acquire, AtTransaction, QInv, TakenSoFar
<1>5. CASE BeginSale
  <2>1. /\ pc = "match" /\ pc' = "take" /\ at <= Len(sorted)
        /\ wanted' = sorted[at].quantity /\ cost' = 0 /\ held' = lots
        /\ UNCHANGED <<txs, sorted, at, lots, reason>>
    BY <1>5 DEF BeginSale, AtTransaction
  <2>2. HeldPast'
    BY <2>1 DEF IInv, LotsPast
  <2>3. UnitsOf(lots) \in Seq(Units)
    BY <1>0, UnitsOfLots
  <2>4. UnitsOf(lots) = << >> \o UnitsOf(lots)
    BY <2>3, ConcatEmptySeq
  <2>5. sorted[at].quantity \in Nat
    <3>1. sorted[at] \in Transaction
      BY <1>0, <2>1, ElementOfSeq
    <3> QED
      BY <3>1, QuantityAssumption DEF Transaction
  <2>6. << >> \in Seq(Units) /\ Len(<< >>) = 0
    BY EmptySeq
  <2> DEFINE e == << >>
  <2>7. UnitsOf(held)' = e \o UnitsOf(lots)' /\ UnitsCost(e) = cost'
    BY <2>1, <2>4, NoCost
  <2>8. Len(e) + wanted' = sorted'[at'].quantity
    BY <2>1, <2>5, <2>6
  <2> HIDE DEF e
  <2>9. Taken(e)'
    BY <2>7, <2>8 DEF Taken
  <2>10. TakenSoFar'
    BY <2>6, <2>9 DEF TakenSoFar, e
  <2> QED
    BY <1>q, <2>1, <2>2, <2>10 DEF QInv
<1>6. CASE SkipEmptyLot
  BY <1>6, <1>q DEF SkipEmptyLot, LotInReach, QInv, TakenSoFar, Taken
<1>7. CASE TakeFromLot
  <2>1. TakenSoFar'
    BY <1>7, TakeStep
  <2> QED
    BY <1>7, <1>q, <2>1 DEF TakeFromLot, LotInReach, QInv
<1>8. CASE Oversell
  BY <1>8, <1>q DEF Oversell, Fail, QInv, TakenSoFar
<1>9. CASE RecordDisposal
  BY <1>9, <1>q DEF RecordDisposal, QInv, TakenSoFar
<1>10. CASE UnsupportedType
  BY <1>10, <1>q DEF UnsupportedType, AtTransaction, Fail, QInv, TakenSoFar
<1>11. CASE Return
  BY <1>11, <1>q DEF Return, QInv, TakenSoFar
<1>12. CASE UNCHANGED vars
  BY <1>12, <1>q DEF vars, QInv, TakenSoFar, Taken
<1> QED
  BY <1>1, <1>2, <1>3, <1>4, <1>5, <1>6, <1>7, <1>8, <1>9, <1>10, <1>11, <1>12 DEF Next

(* The two parts of a concatenation.                                       *)
LEMMA Parts ==
  ASSUME NEW t \in Seq(Units), NEW r \in Seq(Units)
  PROVE  /\ Len(t \o r) = Len(t) + Len(r)
         /\ SubSeq(t \o r, 1, Len(t)) = t
         /\ SubSeq(t \o r, Len(t) + 1, Len(t \o r)) = r
<1> DEFINE us == t \o r
           n == Len(t)
           m == Len(r)
<1>1. /\ us \in Seq(Units) /\ Len(us) = n + m /\ n \in Nat /\ m \in Nat
      /\ \A i \in 1..(n + m) : us[i] = IF i <= n THEN t[i] ELSE r[i - n]
  BY ConcatProperties
<1>2. \A i \in 1..(n + m) : us[i] \in Units
  BY <1>1, ElementOfSeq
<1> HIDE DEF us
<1>3. SubSeq(us, 1, n) = t
  <2>1. \A i \in 1..n : us[i] \in Units
    BY <1>1, <1>2
  <2>2. /\ SubSeq(us, 1, n) \in Seq(Units) /\ Len(SubSeq(us, 1, n)) = n
        /\ \A i \in 1..n : SubSeq(us, 1, n)[i] = us[i]
    BY <1>1, <2>1
  <2>3. \A i \in 1..n : SubSeq(us, 1, n)[i] = t[i]
    BY <1>1, <2>2
  <2> QED
    BY <2>2, <2>3, SeqEqual
<1>4. SubSeq(us, n + 1, n + m) = r
  <2> DEFINE rest == SubSeq(us, n + 1, n + m)
  <2>1. \A i \in (n + 1)..(n + m) : us[i] \in Units
    BY <1>1, <1>2
  <2>2. /\ rest \in Seq(Units) /\ Len(rest) = m
        /\ \A i \in 1..m : rest[i] = us[n + i]
    BY <1>1, <2>1
  <2>3. ASSUME NEW i \in 1..m PROVE rest[i] = r[i]
    <3>1. n + i \in 1..(n + m) /\ ~ (n + i <= n) /\ (n + i) - n = i
      BY <1>1
    <3>2. us[n + i] = r[i]
      BY <1>1, <3>1
    <3> QED
      BY <2>2, <3>2
  <2> HIDE DEF rest
  <2>4. rest = r
    BY <2>2, <2>3, SeqEqual
  <2> QED
    BY <2>4 DEF rest
<1> QED
  BY <1>1, <1>3, <1>4 DEF us

(* An acquisition buys, a recorded disposal sells, a sale that runs out of *)
(* lots falls short; the loop's own steps are none of the queue's.         *)
LEMMA StepSimulates ==
  ASSUME IInv, QInv, [Next]_vars
  PROVE  [Queue!Next]_(Queue!vars)
<1>0. /\ sorted \in Seq(Transaction) /\ lots \in Seq(Lot) /\ held \in Seq(Lot)
      /\ at \in Nat \ {0} /\ wanted \in Nat /\ cursor \in Nat \ {0}
  BY DEF IInv, TypeOK
<1>r. pc # "error" => reason = "none"
  BY DEF QInv, ReasonGiven
<1>p. ASSUME at <= Len(sorted)
      PROVE  /\ sorted[at] \in Transaction
             /\ sorted[at].date \in Dates /\ sorted[at].quantity \in Quantities
             /\ sorted[at].quantity \in Nat \ {0} /\ sorted[at].price \in EuroPrices
  <2>1. at \in 1..Len(sorted)
    BY <1>0, <1>p
  <2>2. sorted[at] \in Transaction /\ sorted[at].price \in EuroPrices
    BY <1>0, <2>1, ElementOfSeq DEF QInv, PricesKnown
  <2> QED
    BY <2>2, QuantityAssumption DEF Transaction
<1> SUFFICES Queue!Next \/ UNCHANGED <<units, disposals, outcome>>
  BY DEF Queue!vars
<1>1. CASE ToEURPrices
  BY <1>1, <1>r DEF ToEURPrices, units, outcome
<1>2. CASE RateUnavailable
  <2>1. Queue!Reject
    BY <1>2, <1>r DEF RateUnavailable, Fail, Queue!Reject, units, outcome
  <2> QED
    BY <2>1 DEF Queue!Next
<1>3. CASE SortByDate
  BY <1>3, <1>r DEF SortByDate, units, outcome
<1>4. CASE Acquire
  <2> DEFINE tx == sorted[at]
             new == NewLot(tx)
  <2>1. /\ pc = "match" /\ pc' = "match" /\ reason = "none" /\ reason' = "none"
        /\ at <= Len(sorted) /\ lots' = Append(lots, new) /\ disposals' = disposals
    BY <1>4, <1>r DEF Acquire, AtTransaction
  <2>2. tx \in Transaction /\ new \in Lot
    BY <1>p, <2>1, NewLotType
  <2>3. UnitsOf(lots') = UnitsOf(lots) \o Run(new, new.remaining)
    BY <1>0, <2>1, <2>2, UnitsQueued
  <2>4. Run(new, new.remaining)
          = [i \in 1..tx.quantity |-> [acquired |-> tx.date, cost |-> tx.price]]
    <3>1. new.remaining = tx.quantity /\ unitCost(new) = tx.price /\ new.acquired = tx.date
      BY <2>2, NewLotCost DEF NewLot
    <3> HIDE DEF new, tx
    <3> QED
      BY <3>1 DEF Run, Unit
  <2>5. units = UnitsOf(lots) /\ units' = UnitsOf(lots') /\ outcome = "open" /\ outcome' = "open"
    BY <2>1 DEF units, outcome
  <2>6. Queue!Buy(tx.date, tx.quantity, tx.price)
    <3> HIDE DEF new, tx
    <3> QED
      BY <2>1, <2>3, <2>4, <2>5 DEF Queue!Buy
  <2>7. tx.date \in Dates /\ tx.quantity \in Quantities /\ tx.price \in EuroPrices
    BY <1>p, <2>1
  <2> HIDE DEF tx
  <2> QED
    BY <2>6, <2>7 DEF Queue!Next
<1>5. CASE BeginSale
  BY <1>5, <1>r DEF BeginSale, AtTransaction, units, outcome
<1>6. CASE SkipEmptyLot
  BY <1>6, <1>r DEF SkipEmptyLot, LotInReach, units, outcome
<1>7. CASE TakeFromLot
  BY <1>7, <1>r DEF TakeFromLot, LotInReach, units, outcome
<1>8. CASE Oversell
  <2> DEFINE q == sorted[at].quantity
  <2>1. /\ pc = "take" /\ reason = "none" /\ cursor > Len(lots) /\ wanted # 0
        /\ reason' = "oversell" /\ pc' = "error" /\ at <= Len(sorted)
        /\ UNCHANGED <<held, disposals>>
    BY <1>8, <1>r DEF Oversell, Fail, IInv, Progress
  <2>2. PICK t \in Seq(Units) : Taken(t)
    BY <2>1 DEF QInv, TakenSoFar
  <2>3. UnitsOf(lots) = << >>
    <3>1. \A i \in 1..Len(lots) : i < cursor
      BY <1>0, <2>1
    <3>2. \A i \in 1..Len(lots) : lots[i].remaining = 0
      BY <2>1, <3>1 DEF IInv, CursorClear
    <3>3. PICK u : Listing(u, lots) /\ UnitsOf(lots) = u[Len(lots)]
      BY <1>0, Listed
    <3>4. Len(lots) \in 0..Len(lots)
      BY <1>0
    <3>5. u[Len(lots)] = << >>
      BY <1>0, <3>2, <3>3, <3>4, NoUnits
    <3> QED
      BY <3>3, <3>5
  <2>4. UnitsOf(held) = t
    BY <2>2, <2>3, ConcatEmptySeq DEF Taken
  <2>5. q > Len(UnitsOf(held))
    <3>1. Len(t) + wanted = q /\ Len(t) \in Nat
      BY <2>2 DEF Taken
    <3>2. q \in Nat
      BY <1>p, <2>1
    <3> HIDE DEF q
    <3> QED
      BY <1>0, <2>1, <2>4, <3>1, <3>2
  <2>6. /\ units = UnitsOf(held) /\ units' = UnitsOf(held)
        /\ outcome = "open" /\ outcome' = "short"
    BY <2>1 DEF units, outcome
  <2>7. q \in Quantities
    BY <1>p, <2>1
  <2> HIDE DEF q
  <2>8. Queue!FallShort(q)
    BY <2>1, <2>5, <2>6 DEF Queue!FallShort
  <2> QED
    BY <2>7, <2>8 DEF Queue!Next
<1>9. CASE RecordDisposal
  <2> DEFINE sell == sorted[at]
             q == sell.quantity
             us == UnitsOf(held)
  <2>1. /\ pc = "take" /\ pc' = "match" /\ reason = "none" /\ reason' = "none"
        /\ wanted = 0 /\ at <= Len(sorted) /\ lots' = lots
        /\ disposals' = Append(disposals, [date      |-> sell.date,
                                           quantity  |-> sell.quantity,
                                           proceeds  |-> sell.quantity * sell.price,
                                           costBasis |-> cost])
    BY <1>9, <1>r DEF RecordDisposal, IInv, Progress
  <2>2. PICK t \in Seq(Units) : Taken(t)
    BY <2>1 DEF QInv, TakenSoFar
  <2>3. us = t \o UnitsOf(lots) /\ Len(t) = q /\ UnitsCost(t) = cost
    <3>1. us = t \o UnitsOf(lots) /\ Len(t) + wanted = q /\ UnitsCost(t) = cost
      BY <2>2 DEF Taken
    <3>2. Len(t) \in Nat
      BY <2>2
    <3> QED
      BY <2>1, <3>1, <3>2
  <2>4. UnitsOf(lots) \in Seq(Units) /\ us \in Seq(Units)
    BY <1>0, UnitsOfLots
  <2>5. /\ Len(us) = q + Len(UnitsOf(lots)) /\ SubSeq(us, 1, q) = t
        /\ SubSeq(us, q + 1, Len(us)) = UnitsOf(lots)
    <3> DEFINE r == UnitsOf(lots)
    <3>1. r \in Seq(Units) /\ us = t \o r /\ Len(t) = q
      BY <2>3, <2>4
    <3> HIDE DEF r, us, q
    <3>2. /\ Len(us) = Len(t) + Len(r) /\ SubSeq(us, 1, Len(t)) = t
          /\ SubSeq(us, Len(t) + 1, Len(us)) = r
      BY <3>1, Parts
    <3> QED
      BY <3>1, <3>2 DEF r
  <2>6. q <= Len(us)
    BY <2>3, <2>4, <2>5
  <2>7. \A i \in DOMAIN us : us[i].acquired <= sell.date
    <3>1. \A i \in 1..Len(held) : held[i].acquired <= sell.date
      BY <2>1 DEF QInv, HeldPast
    <3>2. \A i \in 1..Len(us) : \E j \in 1..Len(held) : us[i].acquired = held[j].acquired
      BY <1>0, UnitsOfLots
    <3>3. DOMAIN us = 1..Len(us)
      BY <2>4
    <3> HIDE DEF us, sell
    <3> QED
      BY <3>1, <3>2, <3>3
  <2>8. Queue!CostOf(SubSeq(us, 1, q)) = cost
    BY <2>3, <2>5, QueueCost
  <2>9. units = us /\ units' = UnitsOf(lots) /\ outcome = "open" /\ outcome' = "open"
    BY <2>1 DEF units, outcome
  <2>10. Queue!Sell(sell.date, q, sell.price)
    <3> HIDE DEF us, sell
    <3> QED
      BY <2>1, <2>5, <2>6, <2>7, <2>8, <2>9 DEF Queue!Sell
  <2>11. sell.date \in Dates /\ q \in Quantities /\ sell.price \in EuroPrices
    BY <1>p, <2>1
  <2> HIDE DEF sell, q
  <2> QED
    BY <2>10, <2>11 DEF Queue!Next
<1>10. CASE UnsupportedType
  <2>1. Queue!Reject
    BY <1>10, <1>r DEF UnsupportedType, AtTransaction, Fail, Queue!Reject, units, outcome
  <2> QED
    BY <2>1 DEF Queue!Next
<1>11. CASE Return
  <2>1. Queue!Close
    BY <1>11, <1>r DEF Return, Queue!Close, units, outcome
  <2> QED
    BY <2>1 DEF Queue!Next
<1>12. CASE UNCHANGED vars
  BY <1>12 DEF vars, units, outcome
<1> QED
  BY <1>1, <1>2, <1>3, <1>4, <1>5, <1>6, <1>7, <1>8, <1>9, <1>10, <1>11, <1>12 DEF Next

(* matchDisposalsFIFO implements the queue of units, for every ledger and  *)
(* every rate: whatever its loop does, each sale takes the oldest units at *)
(* their own cost, or fails for want of units and for no other reason.     *)
THEOREM QueueImplemented == Spec => ImplementsUnitQueue
<1>1. Init => QInv
  <2> SUFFICES ASSUME Init PROVE QInv
    OBVIOUS
  <2>1. \A i \in 1..Len(txs) : txs[i].price \in Prices
    BY LedgerAssumption DEF Init
  <2> QED
    BY <2>1 DEF Init, QInv, PricesKnown, ReasonGiven, HeldPast, TakenSoFar
<1>2. Init => Queue!Init
  <2> SUFFICES ASSUME Init PROVE units = << >> /\ disposals = << >> /\ outcome = "open"
    BY DEF Queue!Init
  <2>1. UnitsOf(<< >>) = << >>
    <3>1. << >> \in Seq(Lot) /\ Len(<< >>) = 0
      BY EmptySeq
    <3>2. PICK u : Listing(u, << >>) /\ UnitsOf(<< >>) = u[Len(<< >>)]
      BY <3>1, Listed
    <3> QED
      BY <3>1, <3>2 DEF Listing
  <2> QED
    BY <2>1 DEF Init, units, outcome
<1>3. IInv /\ QInv /\ [Next]_vars => QInv'
  BY QueueStep
<1>4. IInv /\ QInv /\ [Next]_vars => [Queue!Next]_(Queue!vars)
  BY StepSimulates
<1> QED
  BY <1>1, <1>2, <1>3, <1>4, Invariance, PTL DEF Spec, Queue!Spec, ImplementsUnitQueue

=============================================================================
