--------------------------- MODULE CGTYearsProofs ---------------------------
(***************************************************************************)
(* Proofs about CGTYears and YearPages, for every portfolio and ledger,    *)
(* range of years, rate and exemption.                                     *)
(*                                                                         *)
(* Two replays agree because each year's pool is one function of the pool  *)
(* before it (PoolAfter): the replay for a year meets, at each year before *)
(* it, the pool that year's own answer carried forward (PoolKnown, from    *)
(* AnswersFollow and ChainUnbroken).                                       *)
(*                                                                         *)
(* The pages need no more of the charge than that its net gain is the      *)
(* year's (NetCharged) and that it is worked out over what was matched     *)
(* (PInv); the rest is about sums, which the first section is on.          *)
(***************************************************************************)
EXTENDS YearPages, FiniteSetTheorems, WellFoundedInduction, TLAPS

Net(y) == netGainForYear(disposals, y)

UsedOf(pool, net)    == IF net > 0 THEN minimum(pool, usable(net)) ELSE 0
PoolAfter(pool, net) == IF net > 0 THEN pool - UsedOf(pool, net) ELSE pool - net

(* The years before the target have been answered, and it when pc says so. *)
Asked ==
  \A y \in Years : y \in DOMAIN results <=> y < target \/ (y = target /\ pc = "answered")

SoldBy(y) == \E z \in YearsOf(disposals) : z <= y

InReplay ==
  pc = "replay" =>
    /\ earliest \in YearsOf(disposals) /\ \A z \in YearsOf(disposals) : earliest <= z
    /\ earliest <= target /\ earliest <= at /\ at <= target + 1

(* The pool a replay must find on entering year y. *)
PoolBefore(y) == IF y = earliest THEN 0 ELSE results[y - 1].carriedForward

PoolKnown ==
  pc = "replay" =>
    /\ at <= target => lossPool = PoolBefore(at)
    /\ at > target => /\ poolInto = PoolBefore(target)
                      /\ usedInTarget = UsedOf(poolInto, Net(target))
                      /\ lossPool = PoolAfter(poolInto, Net(target))

AnswersFollow ==
  \A y \in DOMAIN results :
    /\ SoldBy(y) => results[y].carriedForward = PoolAfter(results[y].broughtForward, Net(y))
    /\ ~ SoldBy(y) => results[y].carriedForward = 0
    /\ ~ SoldBy(y - 1) => results[y].broughtForward = 0

IInv == TypeOK /\ Asked /\ InReplay /\ PoolKnown /\ AnswersFollow /\ ChainUnbroken /\ ReliefInOrder
        /\ LossesConserved

----------------------------------------------------------------------------
(* Sums over finite sets.                                                  *)

(* Induction over finite sets: what holds of a set once it holds of the    *)
(* set without any one element holds of every finite set.                  *)
LEMMA SetInduction ==
  ASSUME NEW S, IsFiniteSet(S), NEW C,
         \A T \in SUBSET S : (\A x \in T : T \ {x} \in C) => T \in C
  PROVE  \A T \in SUBSET S : T \in C
<1> DEFINE R == StrictSubsetOrdering(S)
           B == {T \in SUBSET S : T \notin C}
<1>1. IsWellFoundedOn(R, SUBSET S)
  BY FS_StrictSubsetOrderingWellFounded, FS_FiniteSubsetsOfFinite
<1> SUFFICES ASSUME B # {} PROVE FALSE
  OBVIOUS
<1>2. B \in SUBSET SUBSET S
  OBVIOUS
<1> HIDE DEF R, B
<1>3. PICK T \in B : \A U \in B : ~ (<<U, T>> \in R)
  BY <1>1, <1>2, WFMin, Zenon
<1>4. ASSUME NEW x \in T PROVE T \ {x} \in C
  <2>1. T \in SUBSET S /\ T \ {x} \in SUBSET S
    BY <1>2, <1>3
  <2>2. <<T \ {x}, T>> \in R
    BY <2>1 DEF R, StrictSubsetOrdering
  <2>3. T \ {x} \notin B
    BY <1>3, <2>2
  <2> QED
    BY <2>1, <2>3 DEF B
<1> QED
  BY <1>3, <1>4 DEF B

----------------------------------------------------------------------------
(* SumFunctionOnSet adds the elements of a set in the order in which they  *)
(* are chosen; a fold is its table of the sums over the subsets.           *)
first(s) == CHOOSE x \in s : TRUE

IsFold(g, f, S) ==
  g = [s \in SUBSET S |-> IF s = {} THEN 0 ELSE f[first(s)] + g[s \ {first(s)}]]

LEMMA SumIsFold ==
  ASSUME NEW f, NEW S
  PROVE  SumFunctionOnSet(f, S) = (CHOOSE g : IsFold(g, f, S))[S]
BY DEF SumFunctionOnSet, FoldFunctionOnSet, MapThenFoldSet, IsFold, first

LEMMA First ==
  ASSUME NEW s, s # {}
  PROVE  first(s) \in s
BY DEF first

LEMMA FoldAt ==
  ASSUME NEW f, NEW S, NEW g, IsFold(g, f, S), NEW s \in SUBSET S
  PROVE  g[s] = IF s = {} THEN 0 ELSE f[first(s)] + g[s \ {first(s)}]
<1> DEFINE h == [t \in SUBSET S |-> IF t = {} THEN 0 ELSE f[first(t)] + g[t \ {first(t)}]]
<1>1. g = h
  BY DEF IsFold
<1>2. h[s] = IF s = {} THEN 0 ELSE f[first(s)] + g[s \ {first(s)}]
  OBVIOUS
<1> HIDE DEF h
<1> QED
  BY <1>1, <1>2

(* Two folds agree where both are defined.                                 *)
LEMMA FoldsAgree ==
  ASSUME NEW f, NEW S, IsFiniteSet(S), NEW g, IsFold(g, f, S),
         NEW T \in SUBSET S, NEW h, IsFold(h, f, T)
  PROVE  g[T] = h[T]
<1> DEFINE C == {s \in SUBSET T : g[s] = h[s]}
<1>1. IsFiniteSet(T)
  BY FS_Subset
<1>2. ASSUME NEW s \in SUBSET T, \A x \in s : s \ {x} \in C PROVE s \in C
  <2>1. CASE s = {}
    BY <2>1, FoldAt
  <2>2. CASE s # {}
    <3>1. s \ {first(s)} \in C
      BY <1>2, <2>2, First
    <3> QED
      BY <2>2, <3>1, FoldAt
  <2> QED
    BY <2>1, <2>2
<1> HIDE DEF C
<1>3. T \in C
  BY <1>1, <1>2, SetInduction
<1> QED
  BY <1>3 DEF C

LEMMA FoldExists ==
  ASSUME NEW f, NEW S, IsFiniteSet(S)
  PROVE  \E g : IsFold(g, f, S)
<1> DEFINE C == {T \in SUBSET S : \A U \in SUBSET T : \E g : IsFold(g, f, U)}
           fold(U) == CHOOSE g : IsFold(g, f, U)
<1>1. ASSUME NEW T \in SUBSET S, \A x \in T : T \ {x} \in C PROVE T \in C
  <2> DEFINE h == [s \in SUBSET T |-> IF s = {} THEN 0
                     ELSE f[first(s)] + fold(s \ {first(s)})[s \ {first(s)}]]
  <2>1. ASSUME NEW U \in SUBSET T, U # T PROVE \E g : IsFold(g, f, U)
    <3>1. PICK x \in T : x \notin U
      BY <2>1
    <3>2. T \ {x} \in C /\ U \in SUBSET (T \ {x})
      BY <1>1, <3>1
    <3> QED
      BY <3>2
  <2>2. ASSUME NEW U \in SUBSET T, U # T PROVE IsFold(fold(U), f, U)
    BY <2>1, <2>2
  <2> HIDE DEF fold
  <2>3. ASSUME NEW u \in SUBSET T, u # T PROVE h[u] = fold(u)[u]
    <3>1. IsFold(fold(u), f, u) /\ u \in SUBSET u /\ IsFiniteSet(u)
      BY <2>2, <2>3, FS_Subset
    <3>2. fold(u)[u] = IF u = {} THEN 0 ELSE f[first(u)] + fold(u)[u \ {first(u)}]
      BY <3>1, FoldAt
    <3>3. CASE u = {}
      BY <3>2, <3>3
    <3>4. CASE u # {}
      <4>1. first(u) \in u
        BY <3>4, First
      <4> DEFINE v == u \ {first(u)}
      <4>2. v \in SUBSET T /\ v # T /\ v \in SUBSET u
        BY <2>3, <4>1
      <4>3. IsFold(fold(v), f, v)
        BY <2>2, <4>2
      <4>4. fold(u)[v] = fold(v)[v]
        BY <3>1, <4>2, <4>3, FoldsAgree
      <4> QED
        BY <3>2, <3>4, <4>4
    <3> QED
      BY <3>3, <3>4
  <2>4. ASSUME NEW s \in SUBSET T, s # {}
        PROVE  fold(s \ {first(s)})[s \ {first(s)}] = h[s \ {first(s)}]
    <3>1. first(s) \in s /\ s \ {first(s)} \in SUBSET T /\ s \ {first(s)} # T
      BY <2>4, First
    <3> HIDE DEF h
    <3> QED
      BY <2>3, <3>1
  <2>5. IsFold(h, f, T)
    <3> DEFINE k == [s \in SUBSET T |-> IF s = {} THEN 0
                       ELSE f[first(s)] + h[s \ {first(s)}]]
    <3>1. \A s \in SUBSET T : h[s] = k[s]
      BY <2>4
    <3>2. h = k
      BY <3>1
    <3> QED
      BY <3>2 DEF IsFold
  <2> HIDE DEF h
  <2>6. \A U \in SUBSET T : \E g : IsFold(g, f, U)
    BY <2>1, <2>5
  <2> QED
    BY <2>6
<1> HIDE DEF C
<1>2. S \in C
  BY <1>1, SetInduction, ZenonT(60)
<1> QED
  BY <1>2 DEF C

(* A sum is its chosen element and the sum of the rest.                    *)
LEMMA SumChosen ==
  ASSUME NEW f, NEW S, IsFiniteSet(S)
  PROVE  /\ S = {} => SumFunctionOnSet(f, S) = 0
         /\ S # {} => /\ first(S) \in S
                      /\ SumFunctionOnSet(f, S)
                           = f[first(S)] + SumFunctionOnSet(f, S \ {first(S)})
<1> DEFINE fold(U) == CHOOSE g : IsFold(g, f, U)
           rest    == S \ {first(S)}
<1>1. IsFiniteSet(rest)
  BY FS_Subset
<1>2. IsFold(fold(S), f, S) /\ IsFold(fold(rest), f, rest)
  BY <1>1, FoldExists
<1>3. SumFunctionOnSet(f, S) = fold(S)[S] /\ SumFunctionOnSet(f, rest) = fold(rest)[rest]
  BY SumIsFold
<1> HIDE DEF fold
<1>4. fold(S)[S] = IF S = {} THEN 0 ELSE f[first(S)] + fold(S)[rest]
  BY <1>2, FoldAt
<1>5. fold(S)[rest] = fold(rest)[rest]
  BY <1>2, FoldsAgree
<1> QED
  BY <1>3, <1>4, <1>5, First

(* A sum of integers is one.                                               *)
LEMMA SumType ==
  ASSUME NEW S, IsFiniteSet(S), NEW f, \A x \in S : f[x] \in Int
  PROVE  SumFunctionOnSet(f, S) \in Int
<1> DEFINE C == {T \in SUBSET S : SumFunctionOnSet(f, T) \in Int}
<1>1. ASSUME NEW T \in SUBSET S, \A x \in T : T \ {x} \in C PROVE T \in C
  <2>1. IsFiniteSet(T)
    BY FS_Subset
  <2>2. CASE T = {}
    <3>1. SumFunctionOnSet(f, T) = 0
      BY <2>1, <2>2, SumChosen, Zenon
    <3> QED
      BY <3>1
  <2>3. CASE T # {}
    <3>1. first(T) \in T
      BY <2>1, <2>3, SumChosen
    <3>2. SumFunctionOnSet(f, T) = f[first(T)] + SumFunctionOnSet(f, T \ {first(T)})
      BY <2>1, <2>3, SumChosen
    <3>3. f[first(T)] \in Int /\ SumFunctionOnSet(f, T \ {first(T)}) \in Int
      BY <1>1, <3>1
    <3> QED
      BY <3>2, <3>3
  <2> QED
    BY <2>2, <2>3
<1> HIDE DEF C
<1>a. \A T \in SUBSET S : (\A x \in T : T \ {x} \in C) => T \in C
  BY <1>1
<1>b. \A T \in SUBSET S : T \in C
  BY <1>a, SetInduction, Zenon
<1>2. S \in C
  BY <1>b
<1> QED
  BY <1>2 DEF C

(* Any element may be taken out of a sum first.                            *)
LEMMA SumWithout ==
  ASSUME NEW S, IsFiniteSet(S), NEW f, \A x \in S : f[x] \in Int, NEW a \in S
  PROVE  SumFunctionOnSet(f, S) = f[a] + SumFunctionOnSet(f, S \ {a})
<1> DEFINE sum(T) == SumFunctionOnSet(f, T)
           C == {T \in SUBSET S : \A x \in T : sum(T) = f[x] + sum(T \ {x})}
<1>1. \A T \in SUBSET S : IsFiniteSet(T) /\ sum(T) \in Int
  BY FS_Subset, SumType
<1>2. ASSUME NEW T \in SUBSET S, \A x \in T : T \ {x} \in C PROVE T \in C
  <2>1. ASSUME NEW x \in T PROVE sum(T) = f[x] + sum(T \ {x})
    <3> DEFINE y == first(T)
    <3>1. y \in T /\ sum(T) = f[y] + sum(T \ {y})
      BY <1>1, SumChosen
    <3>2. CASE x = y
      BY <3>1, <3>2
    <3>3. CASE x # y
      <4> HIDE DEF y, sum
      <4>1. sum(T \ {y}) = f[x] + sum((T \ {y}) \ {x})
        BY <1>2, <3>1, <3>3
      <4>2. sum(T \ {x}) = f[y] + sum((T \ {x}) \ {y})
        BY <1>2, <3>1, <3>3
      <4>3. (T \ {y}) \ {x} = (T \ {x}) \ {y}
        OBVIOUS
      <4>4. f[x] \in Int /\ f[y] \in Int /\ sum((T \ {x}) \ {y}) \in Int
        BY <1>1, <3>1
      <4>5. sum(T) = f[y] + sum(T \ {y})
        BY <3>1
      <4> HIDE DEF C
      <4>6. \A p, q, r \in Int : q + (p + r) = p + (q + r)
        OBVIOUS
      <4>7. sum(T) = f[y] + (f[x] + sum((T \ {x}) \ {y}))
        BY <4>1, <4>3, <4>5, Zenon
      <4>8. f[y] + (f[x] + sum((T \ {x}) \ {y})) = f[x] + (f[y] + sum((T \ {x}) \ {y}))
        BY <4>4, <4>6, Zenon
      <4> QED
        BY <4>2, <4>7, <4>8, Zenon
    <3> QED
      BY <3>2, <3>3
  <2> QED
    BY <2>1
<1> HIDE DEF C, sum
<1>a. \A T \in SUBSET S : (\A x \in T : T \ {x} \in C) => T \in C
  BY <1>2
<1>b. \A T \in SUBSET S : T \in C
  BY <1>a, SetInduction, Zenon
<1>3. S \in C
  BY <1>b
<1> QED
  BY <1>3 DEF C, sum

(* Functions that agree on a set have the same sum over it.                *)
LEMMA SumAgree ==
  ASSUME NEW S, IsFiniteSet(S), NEW f, NEW g, \A x \in S : f[x] = g[x]
  PROVE  SumFunctionOnSet(f, S) = SumFunctionOnSet(g, S)
<1> DEFINE C == {T \in SUBSET S : SumFunctionOnSet(f, T) = SumFunctionOnSet(g, T)}
<1>1. ASSUME NEW T \in SUBSET S, \A x \in T : T \ {x} \in C PROVE T \in C
  <2>1. IsFiniteSet(T)
    BY FS_Subset
  <2>2. CASE T = {}
    <3>1. SumFunctionOnSet(f, T) = 0 /\ SumFunctionOnSet(g, T) = 0
      BY <2>1, <2>2, SumChosen, Zenon
    <3> QED
      BY <3>1
  <2>3. CASE T # {}
    <3>1. /\ first(T) \in T
          /\ SumFunctionOnSet(f, T) = f[first(T)] + SumFunctionOnSet(f, T \ {first(T)})
          /\ SumFunctionOnSet(g, T) = g[first(T)] + SumFunctionOnSet(g, T \ {first(T)})
      BY <2>1, <2>3, SumChosen, Zenon
    <3>2. SumFunctionOnSet(f, T \ {first(T)}) = SumFunctionOnSet(g, T \ {first(T)})
      BY <1>1, <3>1
    <3> QED
      BY <3>1, <3>2
  <2> QED
    BY <2>2, <2>3
<1> HIDE DEF C
<1>2. \A T \in SUBSET S : (\A x \in T : T \ {x} \in C) => T \in C
  BY <1>1
<1>3. \A T \in SUBSET S : T \in C
  BY <1>2, SetInduction, Zenon
<1> QED
  BY <1>3 DEF C

(* A sum of zeros is zero.                                                 *)
LEMMA SumOfZeros ==
  ASSUME NEW S, IsFiniteSet(S), NEW f, \A x \in S : f[x] = 0
  PROVE  SumFunctionOnSet(f, S) = 0
<1> DEFINE C == {T \in SUBSET S : SumFunctionOnSet(f, T) = 0}
<1>1. ASSUME NEW T \in SUBSET S, \A x \in T : T \ {x} \in C PROVE T \in C
  <2>1. IsFiniteSet(T)
    BY FS_Subset
  <2>2. CASE T = {}
    BY <2>1, <2>2, SumChosen, Zenon
  <2>3. CASE T # {}
    <3>1. /\ first(T) \in T
          /\ SumFunctionOnSet(f, T) = f[first(T)] + SumFunctionOnSet(f, T \ {first(T)})
      BY <2>1, <2>3, SumChosen, Zenon
    <3>2. SumFunctionOnSet(f, T \ {first(T)}) = 0 /\ f[first(T)] = 0
      BY <1>1, <3>1
    <3> QED
      BY <3>1, <3>2
  <2> QED
    BY <2>2, <2>3
<1> HIDE DEF C
<1>2. \A T \in SUBSET S : (\A x \in T : T \ {x} \in C) => T \in C
  BY <1>1
<1>3. \A T \in SUBSET S : T \in C
  BY <1>2, SetInduction, Zenon
<1> QED
  BY <1>3 DEF C

(* The sum over two sets without a common element is the sum of their sums. *)
LEMMA SumUnion ==
  ASSUME NEW A, NEW B, IsFiniteSet(A), IsFiniteSet(B), A \intersect B = {},
         NEW f, \A x \in A \union B : f[x] \in Int
  PROVE  SumFunctionOnSet(f, A \union B) = SumFunctionOnSet(f, A) + SumFunctionOnSet(f, B)
<1> DEFINE sum(T) == SumFunctionOnSet(f, T)
           C == {T \in SUBSET B : sum(A \union T) = sum(A) + sum(T)}
<1>1. \A T \in SUBSET B : /\ IsFiniteSet(T) /\ IsFiniteSet(A \union T)
                          /\ sum(T) \in Int /\ sum(A \union T) \in Int
  <2>1. ASSUME NEW T \in SUBSET B
        PROVE  IsFiniteSet(T) /\ IsFiniteSet(A \union T)
    BY FS_Subset, FS_Union
  <2>2. ASSUME NEW T \in SUBSET B
        PROVE  sum(T) \in Int /\ sum(A \union T) \in Int
    BY <2>1, SumType
  <2> QED
    BY <2>1, <2>2
<1>2. sum(A) \in Int
  BY SumType
<1>3. ASSUME NEW T \in SUBSET B, \A x \in T : T \ {x} \in C PROVE T \in C
  <2>1. CASE T = {}
    <3>1. A \union T = A
      BY <2>1
    <3>2. sum(T) = 0
      BY <1>1, <2>1, SumChosen, Zenon
    <3>3. sum(A \union T) = sum(A)
      BY <3>1
    <3> HIDE DEF sum
    <3>4. sum(A \union T) = sum(A) + sum(T)
      BY <1>2, <3>2, <3>3
    <3> QED
      BY <3>4
  <2>2. CASE T # {}
    <3>1. PICK x \in T : TRUE
      BY <2>2
    <3>2. (A \union T) \ {x} = A \union (T \ {x})
      BY <3>1
    <3>3. /\ sum(A \union T) = f[x] + sum((A \union T) \ {x})
          /\ sum(T) = f[x] + sum(T \ {x})
      BY <1>1, SumWithout
    <3>4. sum(A \union (T \ {x})) = sum(A) + sum(T \ {x})
      BY <1>3
    <3>5. f[x] \in Int /\ sum(T \ {x}) \in Int /\ T \in SUBSET B
      <4>1. T \ {x} \in SUBSET B
        OBVIOUS
      <4> QED
        BY <1>1, <4>1
    <3> HIDE DEF sum
    <3>6. sum(A \union T) = f[x] + (sum(A) + sum(T \ {x}))
      BY <3>2, <3>3, <3>4
    <3>7. sum(A \union T) = sum(A) + sum(T)
      <4> HIDE DEF C
      <4> QED
        BY <1>2, <3>3, <3>5, <3>6
    <3> QED
      BY <3>7
  <2> QED
    BY <2>1, <2>2
<1> HIDE DEF C
<1>4. \A T \in SUBSET B : (\A x \in T : T \ {x} \in C) => T \in C
  BY <1>3
<1>5. \A T \in SUBSET B : T \in C
  BY <1>4, SetInduction, Zenon
<1> QED
  BY <1>5 DEF C

(* The sums g of a family by kind.                                         *)
IsByKind(g, f, kind, S, Y) ==
  /\ IsFiniteSet(S) /\ IsFiniteSet(Y)
  /\ \A x \in S : f[x] \in Int /\ kind[x] \in Y
  /\ \A y \in Y : g[y] = SumFunctionOnSet(f, {x \in S : kind[x] = y})

(* A sum may be taken kind by kind.                                        *)
LEMMA SumByKind ==
  ASSUME NEW S, NEW Y, NEW f, NEW g, NEW kind, IsByKind(g, f, kind, S, Y)
  PROVE  SumFunctionOnSet(f, S) = SumFunctionOnSet(g, Y)
<1> USE DEF IsByKind
<1> DEFINE of(T) == {x \in S : kind[x] \in T}
           C     == {T \in SUBSET Y : SumFunctionOnSet(f, of(T)) = SumFunctionOnSet(g, T)}
<1>1. ASSUME NEW T \in SUBSET Y, \A y \in T : T \ {y} \in C PROVE T \in C
  <2>1. IsFiniteSet(T)
    BY FS_Subset
  <2>2. CASE T = {}
    <3>1. of(T) = {}
      BY <2>2
    <3>2. SumFunctionOnSet(f, {}) = 0 /\ SumFunctionOnSet(g, {}) = 0
      BY FS_EmptySet, SumChosen, Zenon
    <3> QED
      BY <2>2, <3>1, <3>2
  <2>3. CASE T # {}
    <3>1. PICK y \in T : TRUE
      BY <2>3
    <3> DEFINE A == of(T \ {y})
               B == {x \in S : kind[x] = y}
    <3>2. A \union B = of(T) /\ A \intersect B = {} /\ A \subseteq S /\ B \subseteq S
      OBVIOUS
    <3> HIDE DEF A, B
    <3>3. IsFiniteSet(A) /\ IsFiniteSet(B)
      BY <3>2, FS_Subset
    <3>4. SumFunctionOnSet(f, A \union B) = SumFunctionOnSet(f, A) + SumFunctionOnSet(f, B)
      <4>1. \A x \in A \union B : f[x] \in Int
        BY <3>2
      <4> QED
        BY <3>2, <3>3, <4>1, SumUnion
    <3>5. SumFunctionOnSet(f, A) = SumFunctionOnSet(g, T \ {y})
      BY <1>1 DEF A
    <3>6. SumFunctionOnSet(f, B) = g[y]
      BY DEF B
    <3>7. \A z \in Y : g[z] \in Int
      <4>1. ASSUME NEW z \in Y PROVE g[z] \in Int
        <5>1. IsFiniteSet({x \in S : kind[x] = z})
          BY FS_Subset
        <5> QED
          BY <5>1, SumType, ZenonT(60)
      <4> QED
        BY <4>1
    <3>8. SumFunctionOnSet(g, T) = g[y] + SumFunctionOnSet(g, T \ {y})
      BY <2>1, <3>7, SumWithout
    <3>9. SumFunctionOnSet(f, of(T)) = SumFunctionOnSet(g, T \ {y}) + g[y]
      BY <3>2, <3>4, <3>5, <3>6
    <3>10. g[y] \in Int /\ SumFunctionOnSet(g, T \ {y}) \in Int
      <4>1. IsFiniteSet(T \ {y}) /\ \A z \in T \ {y} : g[z] \in Int
        BY <2>1, <3>7, FS_Subset
      <4> QED
        BY <3>7, <4>1, SumType
    <3>11. SumFunctionOnSet(f, of(T)) = SumFunctionOnSet(g, T)
      <4> HIDE DEF C, of
      <4> QED
        BY <3>8, <3>9, <3>10
    <3> QED
      BY <3>11
  <2> QED
    BY <2>2, <2>3
<1> HIDE DEF C
<1>2. \A T \in SUBSET Y : (\A y \in T : T \ {y} \in C) => T \in C
  BY <1>1
<1>3. \A T \in SUBSET Y : T \in C
  BY <1>2, SetInduction, Zenon
<1>4. of(Y) = S
  OBVIOUS
<1> QED
  BY <1>3, <1>4 DEF C

(* The percentages b of a family, each rounded down to a whole euro.       *)
IsRounded(b, a, rate, S) ==
  /\ IsFiniteSet(S) /\ rate \in Int
  /\ \A x \in S : a[x] \in Int /\ b[x] = (a[x] * rate) \div 100

(* A sum of percentages taken by parts, each rounded down to a whole euro, *)
(* is short of the percentage of the sum by less than one euro for each.   *)
LEMMA SumOfRounded ==
  ASSUME NEW S, NEW a, NEW b, NEW rate, IsRounded(b, a, rate, S)
  PROVE  LET exact == SumFunctionOnSet(a, S) * rate
             whole == SumFunctionOnSet(b, S)
         IN whole \in Int /\ 100 * whole <= exact /\ exact <= 100 * whole + 99 * Cardinality(S)
<1> USE DEF IsRounded
<1> DEFINE exact(T) == SumFunctionOnSet(a, T) * rate
           whole(T) == SumFunctionOnSet(b, T)
           C == {T \in SUBSET S : /\ 100 * whole(T) <= exact(T)
                                  /\ exact(T) <= 100 * whole(T) + 99 * Cardinality(T)}
<1>1. \A x \in S : b[x] \in Int
  <2>1. ASSUME NEW x \in S PROVE b[x] \in Int
    <3>1. a[x] * rate \in Int
      OBVIOUS
    <3> QED
      BY <3>1
  <2> QED
    BY <2>1
<1>2. \A T \in SUBSET S : /\ IsFiniteSet(T) /\ Cardinality(T) \in Nat
                          /\ SumFunctionOnSet(a, T) \in Int /\ whole(T) \in Int
  <2>1. ASSUME NEW T \in SUBSET S PROVE IsFiniteSet(T) /\ Cardinality(T) \in Nat
    BY FS_Subset, FS_CardinalityType
  <2>2. ASSUME NEW T \in SUBSET S PROVE SumFunctionOnSet(a, T) \in Int /\ whole(T) \in Int
    BY <1>1, <2>1, SumType
  <2> QED
    BY <2>1, <2>2
<1>3. \A m, n \in Int : (m + n) * rate = m * rate + n * rate
  OBVIOUS
<1>4. ASSUME NEW T \in SUBSET S, \A x \in T : T \ {x} \in C PROVE T \in C
  <2>1. CASE T = {}
    <3>1. SumFunctionOnSet(a, T) = 0 /\ whole(T) = 0 /\ Cardinality(T) = 0
      BY <1>2, <2>1, SumChosen, FS_EmptySet, Zenon
    <3>2. exact(T) = 0
      BY <3>1
    <3> HIDE DEF exact, whole
    <3> QED
      BY <3>1, <3>2
  <2>2. CASE T # {}
    <3>1. PICK x \in T : TRUE
      BY <2>2
    <3> DEFINE U == T \ {x}
               p == a[x] * rate
    <3>2. U \in SUBSET S /\ a[x] \in Int /\ p \in Int /\ b[x] = p \div 100
      OBVIOUS
    <3>3. /\ SumFunctionOnSet(a, T) = a[x] + SumFunctionOnSet(a, U)
          /\ whole(T) = b[x] + whole(U)
      BY <1>1, <1>2, SumWithout
    <3>4. exact(T) = p + exact(U)
      BY <1>2, <1>3, <3>2, <3>3
    <3>5. Cardinality(T) = Cardinality(U) + 1
      <4>1. Cardinality(U) = Cardinality(T) - 1 /\ Cardinality(T) \in Nat
        BY <1>2, FS_RemoveElement
      <4> QED
        BY <4>1
    <3>6. exact(U) \in Int /\ whole(U) \in Int /\ Cardinality(U) \in Nat
      BY <1>2, <3>2
    <3>7. 100 * whole(U) <= exact(U) /\ exact(U) <= 100 * whole(U) + 99 * Cardinality(U)
      BY <1>4
    <3> HIDE DEF exact, whole, U, p, C
    <3>8. 100 * (p \div 100) <= p /\ p <= 100 * (p \div 100) + 99 /\ p \div 100 \in Int
      BY <3>2
    <3>9. /\ 100 * whole(T) <= exact(T)
          /\ exact(T) <= 100 * whole(T) + 99 * Cardinality(T)
      BY <3>2, <3>3, <3>4, <3>5, <3>6, <3>7, <3>8
    <3> QED
      BY <3>9 DEF C
  <2> QED
    BY <2>1, <2>2
<1> HIDE DEF C
<1>5. \A T \in SUBSET S : (\A x \in T : T \ {x} \in C) => T \in C
  BY <1>4
<1>6. \A T \in SUBSET S : T \in C
  BY <1>5, SetInduction, Zenon
<1>7. S \in C
  BY <1>6
<1> QED
  BY <1>2, <1>7 DEF C

(* What the sums below are taken of: finite families of integers.          *)
IsFamily(f, S) == IsFiniteSet(S) /\ f \in [S -> Int]

(* A family with one more member, and one with another member a.           *)
OneMore(g, f, S, a) ==
  IsFamily(f, S) /\ a \notin S /\ g \in [S \union {a} -> Int] /\ \A x \in S : g[x] = f[x]

OneChanged(g, f, S, a) ==
  IsFamily(f, S) /\ IsFamily(g, S) /\ a \in S /\ \A x \in S : x # a => g[x] = f[x]

LEMMA SumFamily ==
  ASSUME NEW S, NEW f, IsFamily(f, S)
  PROVE  /\ SumFunction(f) \in Int /\ SumFunction(f) = SumFunctionOnSet(f, S)
         /\ S = {} => SumFunction(f) = 0
<1> USE DEF IsFamily
<1>1. SumFunction(f) = SumFunctionOnSet(f, S)
  BY DEF SumFunction
<1>2. SumFunctionOnSet(f, S) \in Int
  BY SumType
<1>3. S = {} => SumFunctionOnSet(f, S) = 0
  BY SumChosen, Zenon
<1> QED
  BY <1>1, <1>2, <1>3

LEMMA SumAdded ==
  ASSUME NEW S, NEW a, NEW f, NEW g, OneMore(g, f, S, a)
  PROVE  SumFunction(g) = SumFunction(f) + g[a]
<1> USE DEF OneMore, IsFamily
<1> DEFINE T == S \union {a}
<1>1. IsFiniteSet(T) /\ a \in T /\ T \ {a} = S
  BY FS_AddElement
<1>2. SumFunctionOnSet(g, T) = g[a] + SumFunctionOnSet(g, T \ {a})
  BY <1>1, SumWithout
<1>3. SumFunctionOnSet(g, S) = SumFunctionOnSet(f, S)
  BY SumAgree
<1>4. SumFunction(f) = SumFunctionOnSet(f, S) /\ SumFunction(f) \in Int
  BY SumFamily
<1>5. SumFunction(g) = SumFunctionOnSet(g, T)
  BY <1>1, SumFamily
<1>6. SumFunction(g) = g[a] + SumFunction(f)
  BY <1>1, <1>2, <1>3, <1>4, <1>5, Zenon
<1>7. g[a] \in Int
  OBVIOUS
<1> QED
  BY <1>4, <1>6, <1>7

LEMMA SumChanged ==
  ASSUME NEW S, NEW a, NEW f, NEW g, OneChanged(g, f, S, a)
  PROVE  SumFunction(g) = SumFunction(f) + g[a] - f[a]
<1> USE DEF OneChanged, IsFamily
<1> DEFINE rest == SumFunctionOnSet(f, S \ {a})
<1>1. IsFiniteSet(S \ {a})
  BY FS_Subset
<1>2. SumFunctionOnSet(f, S) = f[a] + rest /\ SumFunctionOnSet(g, S) = g[a] + SumFunctionOnSet(g, S \ {a})
  BY SumWithout
<1>3. SumFunctionOnSet(g, S \ {a}) = rest
  BY <1>1, SumAgree
<1>4. rest \in Int
  BY <1>1, SumType
<1>5. SumFunction(f) = SumFunctionOnSet(f, S) /\ SumFunction(g) = SumFunctionOnSet(g, S)
  BY SumFamily
<1> HIDE DEF rest
<1> QED
  BY <1>2, <1>3, <1>4, <1>5

----------------------------------------------------------------------------

(* What a year uses is no more than the pool, and the pool stays a number  *)
(* of euro.                                                                *)
LEMMA PoolArithmetic ==
  ASSUME NEW pool \in Nat, NEW net \in Int
  PROVE  /\ UsedOf(pool, net) \in Nat /\ PoolAfter(pool, net) \in Nat
         /\ PoolAfter(pool, net) + UsedOf(pool, net) = pool + positive(- net)
BY ExemptionAssumption DEF UsedOf, PoolAfter, minimum, usable, positive

(* Relief in order, for one year's figures: tax only on an empty pool, and *)
(* losses only on top of a whole exemption.                                *)
LEMMA ReliefArithmetic ==
  ASSUME NEW pool \in Nat, NEW net \in Int
  PROVE  LET after   == positive(net - UsedOf(pool, net))
             exempt  == minimum(after, AnnualExemption)
             taxable == after - exempt
         IN /\ exempt \in Nat /\ taxable \in Nat
            /\ taxable > 0 => PoolAfter(pool, net) = 0
            /\ UsedOf(pool, net) > 0 => exempt = AnnualExemption
BY ExemptionAssumption DEF UsedOf, PoolAfter, minimum, usable, positive

(* The gains of a year are a number of euro. *)
LEMMA NetType ==
  ASSUME TypeOK, NEW y \in Years
  PROVE  Net(y) \in Int
BY PortfolioAssumption DEF TypeOK, Net

(* What LossesConserved adds up.                                           *)
Until(y)      == {z \in DOMAIN results : z <= y}
LossesMade(y) == SumFunction([z \in Until(y) |-> positive(- results[z].net)])
LossesUsed(y) == SumFunction([z \in Until(y) |-> results[z].used])

(* Both sums are of finitely many integers.                                *)
LEMMA UntilSums ==
  ASSUME TypeOK, NEW y \in DOMAIN results
  PROVE  /\ IsFamily([z \in Until(y) |-> positive(- results[z].net)], Until(y))
         /\ IsFamily([z \in Until(y) |-> results[z].used], Until(y))
         /\ LossesMade(y) \in Int /\ LossesUsed(y) \in Int
<1>1. y \in Nat /\ \A z \in DOMAIN results : z \in Nat /\ results[z] \in Result
  BY YearsAssumption DEF TypeOK
<1>2. IsFiniteSet(Until(y))
  <2>1. Until(y) \subseteq 0..y /\ IsFiniteSet(0..y)
    BY <1>1, FS_Interval DEF Until
  <2> QED
    BY <2>1, FS_Subset
<1>3. \A z \in Until(y) : positive(- results[z].net) \in Int /\ results[z].used \in Int
  BY <1>1 DEF Until, Result, positive
<1>4. /\ IsFamily([z \in Until(y) |-> positive(- results[z].net)], Until(y))
      /\ IsFamily([z \in Until(y) |-> results[z].used], Until(y))
  BY <1>2, <1>3 DEF IsFamily
<1> QED
  BY <1>4, SumFamily DEF LossesMade, LossesUsed

(* An answer that carries forward what it brought in and its year's loss,  *)
(* less what it used, keeps the losses in balance.                         *)
LEMMA ConservedStep ==
  ASSUME TypeOK, TypeOK', Asked, LossesConserved, pc # "answered",
         NEW result \in Result, Answer(result), UNCHANGED <<disposals, target>>,
         ~ SoldBy(target - 1) => result.broughtForward = 0,
         target - 1 \in DOMAIN results =>
           result.broughtForward = results[target - 1].carriedForward,
         result.carriedForward + result.used = result.broughtForward + positive(- result.net)
  PROVE  LossesConserved'
<1>1. /\ DOMAIN results' = DOMAIN results \union {target}
      /\ results'[target] = result
      /\ \A y \in DOMAIN results : y # target => results'[y] = results[y]
  BY DEF Answer
<1>2. /\ target \in Years /\ target \in Nat /\ Years \subseteq Nat
      /\ \A y \in DOMAIN results : y \in Years /\ y \in Nat /\ y < target
  BY YearsAssumption DEF TypeOK, Asked
<1>3. \A y \in DOMAIN results : results'[y] = results[y]
  BY <1>1, <1>2
<1>4. \A y \in DOMAIN results : Until(y)' = Until(y)
  BY <1>1, <1>2 DEF Until
<1>5. Until(target)' = DOMAIN results \union {target}
  BY <1>1, <1>2 DEF Until
<1>6. ASSUME NEW y \in DOMAIN results
      PROVE  LossesMade(y)' = LossesUsed(y)' + results'[y].carriedForward
  <2>1. /\ [z \in Until(y)' |-> positive(- results'[z].net)]
             = [z \in Until(y) |-> positive(- results[z].net)]
        /\ [z \in Until(y)' |-> results'[z].used] = [z \in Until(y) |-> results[z].used]
    BY <1>3, <1>4 DEF Until
  <2>2. LossesMade(y)' = LossesMade(y) /\ LossesUsed(y)' = LossesUsed(y)
    BY <2>1 DEF LossesMade, LossesUsed
  <2>3. LossesMade(y) = LossesUsed(y) + results[y].carriedForward
    BY DEF LossesConserved, LossesMade, LossesUsed, Until
  <2> QED
    BY <1>3, <2>2, <2>3
<1> DEFINE loss == positive(- result.net)
           S == DOMAIN results
           f == [z \in S |-> positive(- results[z].net)]
           g == [z \in S \union {target} |-> positive(- results'[z].net)]
           u == [z \in S |-> results[z].used]
           v == [z \in S \union {target} |-> results'[z].used]
<1>7. /\ loss \in Int /\ result.used \in Int /\ result.broughtForward \in Int
      /\ result.carriedForward \in Int
  BY DEF Result, positive
<1>8. LossesMade(target)' = SumFunction(g) /\ LossesUsed(target)' = SumFunction(v)
  BY <1>5 DEF LossesMade, LossesUsed
<1>9. OneMore(g, f, S, target) /\ OneMore(v, u, S, target)
  <2>1. IsFiniteSet(S)
    <3>1. S \subseteq 0..target /\ IsFiniteSet(0..target)
      BY <1>2, FS_Interval
    <3> QED
      BY <3>1, FS_Subset
  <2>2. \A z \in S : results[z] \in Result /\ results'[z] = results[z]
    BY <1>3 DEF TypeOK
  <2>3. \A z \in S : positive(- results[z].net) \in Int /\ results[z].used \in Int
    BY <2>2 DEF Result, positive
  <2>4. target \notin S
    BY <1>2
  <2>5. f \in [S -> Int] /\ u \in [S -> Int]
    BY <2>3
  <2>6. \A z \in S \union {target} : positive(- results'[z].net) \in Int /\ results'[z].used \in Int
    BY <1>1, <1>7, <2>2, <2>3
  <2>7. g \in [S \union {target} -> Int] /\ v \in [S \union {target} -> Int]
    BY <2>6
  <2>8. \A z \in S : g[z] = f[z] /\ v[z] = u[z]
    BY <2>2
  <2> HIDE DEF f, g, u, v, S
  <2> QED
    BY <2>1, <2>4, <2>5, <2>7, <2>8 DEF OneMore, IsFamily
<1>10. g[target] = loss /\ v[target] = result.used
  BY <1>1
<1>11. SumFunction(f) \in Int /\ SumFunction(u) \in Int
  <2> HIDE DEF f, u, S
  <2> QED
    BY <1>9, SumFamily DEF OneMore
<1>12. SumFunction(f) = SumFunction(u) + result.broughtForward
  <2>1. CASE target - 1 \in DOMAIN results
    <3>1. Until(target - 1) = S
      <4>1. \A z \in S : z <= target - 1
        BY <1>2
      <4> QED
        BY <4>1 DEF Until
    <3>2. LossesMade(target - 1) = SumFunction(f) /\ LossesUsed(target - 1) = SumFunction(u)
      BY <3>1 DEF LossesMade, LossesUsed
    <3>3. LossesMade(target - 1) = LossesUsed(target - 1) + results[target - 1].carriedForward
      BY <2>1 DEF LossesConserved, LossesMade, LossesUsed, Until
    <3> QED
      BY <2>1, <3>2, <3>3
  <2>2. CASE target - 1 \notin DOMAIN results
    <3>1. \A y \in Years : ~ (y < target)
      <4>1. ASSUME NEW y \in Years, y < target PROVE FALSE
        <5>1. y \in Nat /\ target - 1 \in y..target
          BY <1>2, <4>1
        <5>2. target - 1 \in Years
          BY <1>2, <5>1, YearsAssumption
        <5> QED
          BY <1>2, <2>2, <5>2 DEF Asked
      <4> QED
        BY <4>1
    <3>2. S = {}
      BY <1>2, <3>1
    <3>3. SumFunction(f) = 0 /\ SumFunction(u) = 0
      <4> HIDE DEF f, u, S
      <4> QED
        BY <1>9, <3>2, SumFamily DEF OneMore
    <3>4. ~ SoldBy(target - 1)
      <4>1. YearsOf(disposals) \subseteq Years
        BY PortfolioAssumption DEF TypeOK
      <4>2. ASSUME NEW z \in YearsOf(disposals), z <= target - 1 PROVE FALSE
        <5>1. z \in Years /\ z \in Nat
          BY <1>2, <4>1, <4>2
        <5>2. z < target
          BY <1>2, <4>2, <5>1
        <5> QED
          BY <3>1, <5>1, <5>2
      <4> QED
        BY <4>2 DEF SoldBy
    <3> QED
      BY <3>3, <3>4
  <2> QED
    BY <2>1, <2>2
<1>13. SumFunction(g) = SumFunction(f) + loss
  <2> HIDE DEF f, g, S, loss
  <2> QED
    BY <1>9, <1>10, SumAdded
<1>14. SumFunction(v) = SumFunction(u) + result.used
  <2> HIDE DEF u, v, S
  <2> QED
    BY <1>9, <1>10, SumAdded
<1>15. LossesMade(target)' = LossesUsed(target)' + results'[target].carriedForward
  <2> HIDE DEF f, g, u, v, S
  <2>1. result.carriedForward + result.used = result.broughtForward + loss
    OBVIOUS
  <2> HIDE DEF loss
  <2> QED
    BY <1>1, <1>7, <1>8, <1>11, <1>12, <1>13, <1>14, <2>1
<1>16. \A y \in DOMAIN results' :
         LossesMade(y)' = LossesUsed(y)' + results'[y].carriedForward
  BY <1>1, <1>6, <1>15
<1> QED
  BY <1>16 DEF LossesConserved, LossesMade, LossesUsed, Until

(* Giving the answer for the target year keeps the answers together if it  *)
(* follows from the pool the years before left.                            *)
LEMMA AnswerStep ==
  ASSUME IInv, pc # "answered", NEW result \in Result, Answer(result),
         UNCHANGED <<disposals, target, earliest, at, lossPool, poolInto, usedInTarget>>,
         SoldBy(target) => result.carriedForward = PoolAfter(result.broughtForward, Net(target)),
         ~ SoldBy(target) => result.carriedForward = 0,
         ~ SoldBy(target - 1) => result.broughtForward = 0,
         target - 1 \in DOMAIN results =>
           result.broughtForward = results[target - 1].carriedForward,
         result.taxable > 0 => result.carriedForward = 0,
         result.used > 0 => result.exemption = AnnualExemption,
         result.carriedForward + result.used = result.broughtForward + positive(- result.net)
  PROVE  IInv'
<1>1. /\ DOMAIN results' = DOMAIN results \union {target}
      /\ results'[target] = result
      /\ \A y \in DOMAIN results : y # target => results'[y] = results[y]
      /\ pc' = "answered"
  BY DEF Answer
<1>2. target \in Years /\ target \notin DOMAIN results /\ Years \subseteq Nat
  BY YearsAssumption DEF IInv, TypeOK, Asked
<1>3. /\ disposals' = disposals /\ target' = target
      /\ \A y : SoldBy(y)' = SoldBy(y) /\ Net(y)' = Net(y)
  BY DEF SoldBy, Net
<1>4. TypeOK'
  BY <1>1, <1>2, <1>3 DEF IInv, TypeOK
<1>5. Asked'
  BY <1>1, <1>2, <1>3 DEF IInv, Asked
<1>6. AnswersFollow'
  BY <1>1, <1>2, <1>3 DEF IInv, AnswersFollow
<1>7. ChainUnbroken'
  <2>1. ASSUME NEW y \in DOMAIN results', y + 1 \in DOMAIN results'
        PROVE  results'[y + 1].broughtForward = results'[y].carriedForward
    <3>1. y \in Nat /\ target \in Nat /\ y \in Years /\ y + 1 \in Years
      BY <1>1, <1>2, <1>4, <2>1 DEF TypeOK
    <3>2. target + 1 \notin DOMAIN results
      BY <1>2, <3>1 DEF IInv, Asked, TypeOK
    <3>3. CASE y = target
      BY <1>1, <2>1, <3>1, <3>2, <3>3
    <3>4. CASE y + 1 = target
      BY <1>1, <1>2, <2>1, <3>1, <3>4
    <3>5. CASE y # target /\ y + 1 # target
      BY <1>1, <2>1, <3>5 DEF IInv, ChainUnbroken
    <3> QED
      BY <3>3, <3>4, <3>5
  <2> QED
    BY <2>1 DEF ChainUnbroken
<1>8. ReliefInOrder'
  BY <1>1, <1>2 DEF IInv, ReliefInOrder
<1>9. LossesConserved'
  BY <1>3, <1>4, ConservedStep DEF IInv
<1> QED
  BY <1>1, <1>4, <1>5, <1>6, <1>7, <1>8, <1>9 DEF IInv, InReplay, PoolKnown

(* While a replay runs, it reads the years it is at as whole numbers and   *)
(* finds in each year's own answer the pool it is carrying.                *)
LEMMA PoolMet ==
  ASSUME IInv, pc = "replay", at < target
  PROVE  /\ at \in DOMAIN results
         /\ PoolBefore(at + 1) = PoolAfter(PoolBefore(at), Net(at))
<1>1. /\ Years \subseteq Nat /\ earliest \in Years /\ target \in Years
      /\ YearsOf(disposals) \subseteq Years
      /\ earliest <= at /\ at \in Nat /\ earliest \in Nat
  BY YearsAssumption, PortfolioAssumption DEF IInv, TypeOK, InReplay
<1>2. earliest..target \subseteq Years
  BY <1>1, YearsAssumption
<1>3. at \in Years /\ at \in DOMAIN results
  BY <1>1, <1>2 DEF IInv, Asked
<1>4. SoldBy(at) /\ results[at].carriedForward = PoolAfter(results[at].broughtForward, Net(at))
  BY <1>1, <1>3 DEF IInv, InReplay, AnswersFollow, SoldBy
<1>5. results[at].broughtForward = PoolBefore(at)
  <2>1. CASE at = earliest
    <3>1. ~ SoldBy(at - 1)
      <4>1. ASSUME NEW z \in YearsOf(disposals) PROVE ~ (z <= at - 1)
        <5>1. earliest <= z /\ z \in Nat
          BY <1>1 DEF IInv, InReplay
        <5> QED
          BY <1>1, <2>1, <5>1
      <4> QED
        BY <4>1 DEF SoldBy
    <3> QED
      BY <1>3, <2>1, <3>1 DEF IInv, AnswersFollow, PoolBefore
  <2>2. CASE at # earliest
    <3>1. at - 1 \in Years /\ at - 1 < target /\ at - 1 + 1 = at
      BY <1>1, <1>2, <2>2
    <3>2. at - 1 \in DOMAIN results
      BY <3>1 DEF IInv, Asked
    <3> QED
      BY <1>3, <2>2, <3>1, <3>2 DEF IInv, ChainUnbroken, PoolBefore
  <2> QED
    BY <2>1, <2>2
<1>6. PoolBefore(at + 1) = results[at].carriedForward
  <2>1. at + 1 # earliest /\ at + 1 - 1 = at
    BY <1>1
  <2> QED
    BY <1>1, <2>1 DEF PoolBefore
<1> QED
  BY <1>3, <1>4, <1>5, <1>6

(* One year of the replay keeps the pool equal to the one the answers of   *)
(* the years before carried.                                               *)
LEMMA ReplayStep ==
  ASSUME IInv, ReplayYear
  PROVE  IInv'
<1> DEFINE U == UsedOf(lossPool, Net(at))
<1>1. /\ pc = "replay" /\ at <= target /\ at' = at + 1
      /\ lossPool' = PoolAfter(lossPool, Net(at))
      /\ at = target => poolInto' = lossPool /\ usedInTarget' = U
      /\ at # target => poolInto' = poolInto /\ usedInTarget' = usedInTarget
      /\ UNCHANGED <<disposals, target, pc, earliest, results>>
  BY DEF ReplayYear, PoolAfter, UsedOf, Net
<1>2. /\ Years \subseteq Nat /\ at \in Nat /\ target \in Nat /\ earliest \in Nat
      /\ target \in Years /\ lossPool \in Nat
      /\ earliest <= at /\ lossPool = PoolBefore(at)
  BY <1>1, YearsAssumption DEF IInv, TypeOK, InReplay, PoolKnown
<1>3. at \in Years
  <2>1. CASE at = target
    BY <1>2, <2>1
  <2>2. CASE at # target
    <3>1. at < target
      BY <1>1, <1>2, <2>2
    <3> QED
      BY <1>1, <3>1, PoolMet DEF IInv, TypeOK
  <2> QED
    BY <2>1, <2>2
<1>4. lossPool' \in Nat /\ U \in Nat
  BY <1>1, <1>2, <1>3, NetType, PoolArithmetic DEF IInv
<1>5. TypeOK'
  BY <1>1, <1>2, <1>4 DEF IInv, TypeOK
<1>6. Asked' /\ AnswersFollow' /\ ChainUnbroken' /\ ReliefInOrder' /\ LossesConserved'
  BY <1>1 DEF IInv, Asked, AnswersFollow, ChainUnbroken, ReliefInOrder, LossesConserved,
         SoldBy, Net
<1>7. InReplay'
  BY <1>1, <1>2 DEF IInv, InReplay
<1>8. PoolKnown'
  <2>1. PoolBefore(at + 1)' = PoolBefore(at + 1)' /\ Net(target)' = Net(target)
    BY <1>1 DEF Net
  <2>2. CASE at = target
    <3>1. poolInto' = PoolBefore(target)'
      BY <1>1, <1>2, <2>2 DEF PoolBefore
    <3> QED
      BY <1>1, <1>2, <2>1, <2>2, <3>1 DEF PoolKnown
  <2>3. CASE at # target
    <3>1. at < target /\ ~ (at + 1 > target)
      BY <1>1, <1>2, <2>3
    <3>2. lossPool' = PoolBefore(at + 1)
      BY <1>1, <1>2, <3>1, PoolMet
    <3>3. PoolBefore(at)' = PoolBefore(at + 1)
      BY <1>1 DEF PoolBefore
    <3> QED
      BY <1>1, <3>1, <3>2, <3>3 DEF PoolKnown
  <2> QED
    BY <2>2, <2>3
<1> QED
  BY <1>5, <1>6, <1>7, <1>8 DEF IInv

(* The answer at the end of a replay follows from the pool it met.         *)
LEMMA AssessStep ==
  ASSUME IInv, Assess
  PROVE  IInv'
<1> DEFINE net     == Net(target)
           after   == positive(net - UsedOf(poolInto, net))
           exempt  == minimum(after, AnnualExemption)
           taxable == after - exempt
           due     == (taxable * Rate[YearEnd[target]]) \div 100
           result  == [net |-> net, broughtForward |-> poolInto,
                       used |-> UsedOf(poolInto, net), carriedForward |-> PoolAfter(poolInto, net),
                       exemption |-> exempt, taxable |-> taxable, taxDue |-> due]
<1>1. /\ pc = "replay" /\ at > target
      /\ UNCHANGED <<disposals, target, earliest, at, lossPool, poolInto, usedInTarget>>
  BY DEF Assess
<1>2. /\ usedInTarget = UsedOf(poolInto, net) /\ lossPool = PoolAfter(poolInto, net)
      /\ poolInto = PoolBefore(target) /\ poolInto \in Nat
  BY <1>1 DEF IInv, TypeOK, PoolKnown, InReplay
<1>3. Answer(result)
  BY <1>2 DEF Assess, Net
<1>4. /\ Years \subseteq Nat /\ target \in Years /\ YearsOf(disposals) \subseteq Years
      /\ earliest \in YearsOf(disposals) /\ earliest <= target
      /\ \A z \in YearsOf(disposals) : earliest <= z
  BY <1>1, YearsAssumption, PortfolioAssumption DEF IInv, TypeOK, InReplay
<1>5. net \in Int
  BY <1>4, NetType DEF IInv
<1>6. /\ UsedOf(poolInto, net) \in Nat /\ PoolAfter(poolInto, net) \in Nat
      /\ exempt \in Nat /\ taxable \in Nat
      /\ taxable > 0 => PoolAfter(poolInto, net) = 0
      /\ UsedOf(poolInto, net) > 0 => exempt = AnnualExemption
      /\ PoolAfter(poolInto, net) + UsedOf(poolInto, net) = poolInto + positive(- net)
  BY <1>2, <1>5, PoolArithmetic, ReliefArithmetic
<1>7. due \in Nat
  <2>1. Rate[YearEnd[target]] \in Nat
    BY <1>4, RateAssumption, CalendarAssumption
  <2>2. taxable * Rate[YearEnd[target]] \in Nat
    BY <1>6, <2>1
  <2> HIDE DEF taxable
  <2> QED
    BY <2>2
<1>8. result \in Result
  BY <1>2, <1>5, <1>6, <1>7 DEF Result
<1>9. SoldBy(target)
  BY <1>4 DEF SoldBy
<1>10. ~ SoldBy(target - 1) => poolInto = 0
  <2>1. ASSUME ~ SoldBy(target - 1) PROVE earliest = target
    <3>1. earliest \in Nat /\ target \in Nat
      BY <1>4
    <3>2. ~ (earliest <= target - 1)
      BY <1>4, <2>1 DEF SoldBy
    <3> QED
      BY <1>4, <3>1, <3>2
  <2> QED
    BY <1>2, <2>1 DEF PoolBefore
<1>11. target - 1 \in DOMAIN results => poolInto = results[target - 1].carriedForward
  <2>1. CASE earliest = target
    <3>1. ~ SoldBy(target - 1)
      BY <1>4, <2>1 DEF SoldBy
    <3> QED
      BY <1>2, <2>1, <3>1 DEF PoolBefore, IInv, AnswersFollow
  <2>2. CASE earliest # target
    BY <1>2, <2>2 DEF PoolBefore
  <2> QED
    BY <2>1, <2>2
<1>12. /\ result.broughtForward = poolInto
       /\ result.carriedForward = PoolAfter(result.broughtForward, Net(target))
       /\ result.taxable > 0 => result.carriedForward = 0
       /\ result.used > 0 => result.exemption = AnnualExemption
       /\ result.carriedForward + result.used = result.broughtForward + positive(- result.net)
  <2> HIDE DEF exempt, taxable, due
  <2> QED
    BY <1>6
<1>13. pc # "answered"
  BY <1>1
<1> HIDE DEF result
<1> QED
  BY <1>1, <1>3, <1>8, <1>9, <1>10, <1>11, <1>12, <1>13, AnswerStep

(* Every step keeps the inductive invariant.                               *)
LEMMA Step ==
  ASSUME IInv, [Next]_vars
  PROVE  IInv'
<1>1. CASE NothingSold
  <2> DEFINE zero == [net |-> 0, broughtForward |-> 0, used |-> 0, carriedForward |-> 0,
                      exemption |-> 0, taxable |-> 0, taxDue |-> 0]
  <2>1. /\ pc # "answered" /\ Answer(zero) /\ zero \in Result
        /\ UNCHANGED <<disposals, target, earliest, at, lossPool, poolInto, usedInTarget>>
    BY <1>1 DEF NothingSold, Result
  <2>2. /\ Years \subseteq Nat /\ target \in Nat /\ YearsOf(disposals) \subseteq Nat
        /\ \A y \in YearsOf(disposals) : y > target
    BY <1>1, YearsAssumption, PortfolioAssumption DEF IInv, TypeOK, NothingSold
  <2>3. ~ SoldBy(target) /\ ~ SoldBy(target - 1)
    BY <2>2 DEF SoldBy
  <2>4. target - 1 \in DOMAIN results => results[target - 1].carriedForward = 0
    BY <2>3 DEF IInv, AnswersFollow
  <2>5. /\ zero.carriedForward = 0 /\ zero.broughtForward = 0 /\ zero.taxable = 0
        /\ zero.used = 0 /\ zero.net = 0
    OBVIOUS
  <2>6. positive(- zero.net) = 0
    <3>1. \A n \in Int : n >= 0 => positive(- n) = 0
      BY DEF positive
    <3>2. zero.net \in Int /\ zero.net >= 0
      OBVIOUS
    <3> HIDE DEF zero
    <3> QED
      BY <3>1, <3>2
  <2> HIDE DEF zero
  <2> QED
    BY <2>1, <2>3, <2>4, <2>5, <2>6, AnswerStep
<1>2. CASE BeginReplay
  <2>1. /\ pc' = "replay" /\ earliest' = at' /\ at' \in YearsOf(disposals) /\ at' <= target
        /\ \A z \in YearsOf(disposals) : at' <= z
        /\ lossPool' = 0 /\ poolInto' = 0 /\ usedInTarget' = 0 /\ pc = "ask"
        /\ UNCHANGED <<disposals, target, results>>
    BY <1>2 DEF BeginReplay
  <2>2. at' \in Nat /\ target \in Nat
    BY <2>1, YearsAssumption, PortfolioAssumption DEF IInv, TypeOK
  <2>3. TypeOK'
    BY <2>1, <2>2 DEF IInv, TypeOK
  <2>4. Asked' /\ AnswersFollow' /\ ChainUnbroken' /\ ReliefInOrder' /\ LossesConserved'
    BY <2>1 DEF IInv, Asked, AnswersFollow, ChainUnbroken, ReliefInOrder, LossesConserved,
         SoldBy, Net
  <2>5. InReplay' /\ PoolKnown'
    BY <2>1, <2>2 DEF InReplay, PoolKnown, PoolBefore
  <2> QED
    BY <2>3, <2>4, <2>5 DEF IInv
<1>3. CASE ReplayYear
  BY <1>3, ReplayStep
<1>4. CASE Assess
  BY <1>4, AssessStep
<1>5. CASE AskNextYear
  <2>1. /\ pc = "answered" /\ pc' = "ask" /\ target' = target + 1 /\ target + 1 \in Years
        /\ UNCHANGED <<disposals, earliest, at, lossPool, poolInto, usedInTarget, results>>
    BY <1>5 DEF AskNextYear
  <2>2. TypeOK' /\ InReplay' /\ PoolKnown'
    BY <2>1 DEF IInv, TypeOK, InReplay, PoolKnown
  <2>3. Asked'
    BY <2>1, YearsAssumption DEF IInv, TypeOK, Asked
  <2>4. AnswersFollow' /\ ChainUnbroken' /\ ReliefInOrder' /\ LossesConserved'
    BY <2>1 DEF IInv, AnswersFollow, ChainUnbroken, ReliefInOrder, LossesConserved,
         SoldBy, Net
  <2> QED
    BY <2>2, <2>3, <2>4 DEF IInv
<1>6. CASE UNCHANGED vars
  BY <1>6 DEF IInv, TypeOK, Asked, InReplay, PoolKnown, AnswersFollow, ChainUnbroken,
              ReliefInOrder, LossesConserved, SoldBy, Net, PoolBefore, vars
<1> QED
  BY <1>1, <1>2, <1>3, <1>4, <1>5, <1>6 DEF Next

(* So does the start.                                                      *)
LEMMA Start == Init => IInv
<1> SUFFICES ASSUME Init PROVE IInv
  OBVIOUS
<1>1. DOMAIN results = {}
  BY DEF Init
<1>2. LossesConserved
  BY <1>1, Zenon DEF LossesConserved
<1> QED
  BY <1>1, <1>2, YearsAssumption DEF Init, IInv, TypeOK, Asked, InReplay, PoolKnown,
                              AnswersFollow, ChainUnbroken, ReliefInOrder

(* Every reachable state satisfies the inductive invariant.                *)
THEOREM Invariance == Spec => []IInv
<1>1. Init => IInv
  BY Start
<1>2. IInv /\ [Next]_vars => IInv'
  BY Step
<1> QED
  BY <1>1, <1>2, PTL DEF Spec

(* Every answer is made of whole non-negative euro (but the net gain).     *)
THEOREM TypeCorrect == Spec => []TypeOK
BY Invariance, PTL DEF IInv

(* The losses a year's report brings in are those the report for the year  *)
(* before carried out, whatever the portfolio: successive calls of         *)
(* AggregateCGTYear, which share no state, add up.                         *)
THEOREM YearsAddUp == Spec => []ChainUnbroken
BY Invariance, PTL DEF IInv

(* No year is taxed while losses remain, and no loss is spent on a gain    *)
(* that the annual exemption covers.                                       *)
THEOREM ReliefWastesNothing == Spec => []ReliefInOrder
BY Invariance, PTL DEF IInv

(* A loss is relieved once: the losses made up to any year are those set   *)
(* against gains plus those carried forward still.                         *)
THEOREM LossesRelievedOnce == Spec => []LossesConserved
BY Invariance, PTL DEF IInv

----------------------------------------------------------------------------
(* The pages of a year.                                                    *)

Row == [class : {"CGT_ASSET", "EXIT_TAX_FUND", "UNCLASSIFIED"}, error : BOOLEAN,
        gain : {{}}, tax : SUBSET Nat]

(* The gain a page shows for a holding of the charge.                      *)
GainShown(i, y) == UNION {gainOf(s, y) : s \in ledger[i].sold}

Held(S) == {i \in S : ledger[i].class = "CGT_ASSET"}

(* What NoPartialCharge says of one page.                                  *)
WholeCharge(page) ==
  LET held == {i \in DOMAIN page.rows : page.rows[i].class = "CGT_ASSET"} IN
  /\ held # {} => page.cgt # NotShown
  /\ \A c \in page.cgt.charge :
       /\ \A i \in held : ~ page.rows[i].error
       /\ c.net = SumFunction([i \in held |-> figure(page.rows[i].gain)])

(* Every answer is charged on the net gain of its year.                    *)
NetCharged ==
  \A y \in DOMAIN results :
    results[y].net = Net(y) /\ (results[y].net = 0 => results[y].taxDue = 0)

(* The inductive invariant of the pages: the charge is worked out over     *)
(* exactly what could be matched, year after year or not at all.           *)
PInv ==
  /\ ledger \in Ledgers /\ disposals = Matched(ledger) /\ target \in Years
  /\ Aggregated => IInv /\ NetCharged
  /\ ~ Aggregated => pc # "replay" /\ DOMAIN results = {}

(* A figure is what it says, and nothing when there is none.               *)
LEMMA Figure ==
  /\ figure({}) = 0
  /\ \A n \in Int : figure({n}) = n
<1> DEFINE none == [n \in {} |-> n]
<1>1. IsFamily(none, {})
  BY FS_EmptySet DEF IsFamily
<1>2. figure({}) = 0
  BY <1>1, SumFamily DEF figure
<1>3. ASSUME NEW n \in Int PROVE figure({n}) = n
  <2> DEFINE one == [m \in {} \union {n} |-> m]
  <2>1. OneMore(one, none, {}, n)
    BY <1>1 DEF OneMore
  <2>2. SumFunction(one) = SumFunction(none) + one[n]
    BY <2>1, SumAdded
  <2>3. SumFunction(none) = 0 /\ one[n] = n /\ {} \union {n} = {n}
    BY <1>1, SumFamily
  <2>4. figure({n}) = SumFunction(one)
    BY <2>3 DEF figure
  <2> HIDE DEF one, none
  <2> QED
    BY <2>2, <2>3, <2>4
<1> QED
  BY <1>2, <1>3

(* A year without disposals has no gain.                                   *)
LEMMA NoDisposals ==
  ASSUME NEW p, IsFiniteSet(DOMAIN p), NEW y, y \notin YearsOf(p)
  PROVE  netGainForYear(p, y) = 0
<1> DEFINE inYear(i) == {k \in DOMAIN p[i] : YearOf[p[i][k].date] = y}
           of(i)     == SumFunction([k \in inYear(i) |-> p[i][k].gain])
           f         == [i \in DOMAIN p |-> of(i)]
<1>1. ASSUME NEW i \in DOMAIN p PROVE of(i) = 0
  <2> DEFINE g == [k \in inYear(i) |-> p[i][k].gain]
  <2>1. inYear(i) = {}
    BY DEF YearsOf
  <2>2. IsFamily(g, {})
    BY <2>1, FS_EmptySet DEF IsFamily
  <2> HIDE DEF g
  <2>3. SumFunction(g) = 0
    BY <2>2, SumFamily
  <2> QED
    BY <2>3 DEF g
<1>2. netGainForYear(p, y) = SumFunction(f)
  BY DEF netGainForYear
<1>3. DOMAIN f = DOMAIN p /\ \A i \in DOMAIN p : f[i] = 0
  BY <1>1
<1> HIDE DEF f
<1>4. SumFunction(f) = SumFunctionOnSet(f, DOMAIN p)
  BY <1>3 DEF SumFunction
<1> QED
  BY <1>2, <1>3, <1>4, SumOfZeros

(* What is matched of a holding, and its gain in a year as the charge has  *)
(* it and as the pages show it.                                            *)
LEMMA HoldingGain ==
  ASSUME ledger \in Ledgers, NEW y, NEW i \in DOMAIN Matched(ledger)
  PROVE  LET p      == Matched(ledger)
             inYear == {k \in DOMAIN p[i] : YearOf[p[i][k].date] = y}
         IN SumFunction([k \in inYear |-> p[i][k].gain])
              = figure(GainShown(i, y))
<1> DEFINE p      == Matched(ledger)
           s      == p[i]
           inYear == {k \in DOMAIN s : YearOf[s[k].date] = y}
           g      == [k \in inYear |-> s[k].gain]
<1>1. i \in Instruments /\ ledger[i].sold # {} /\ s = CHOOSE t \in ledger[i].sold : TRUE
  BY DEF Matched
<1>2. s \in ledger[i].sold /\ s \in Seq(Disposal) /\ \A t \in ledger[i].sold : t = s
  BY <1>1, LedgersAssumption DEF Holding
<1>3. GainShown(i, y) = gainOf(s, y)
  BY <1>2 DEF GainShown
<1> HIDE DEF s
<1>4. IsFamily(g, inYear)
  <2>1. IsFiniteSet(DOMAIN s) /\ \A k \in DOMAIN s : s[k].gain \in Int
    <3>1. Len(s) \in Nat /\ DOMAIN s = 1..Len(s) /\ \A k \in DOMAIN s : s[k] \in Disposal
      BY <1>2
    <3> QED
      BY <3>1, FS_Interval DEF Disposal
  <2>2. IsFiniteSet(inYear)
    BY <2>1, FS_Subset
  <2> QED
    BY <2>1, <2>2 DEF IsFamily
<1>5. gainOf(s, y) = IF inYear = {} THEN {} ELSE {SumFunction(g)}
  BY DEF gainOf
<1> HIDE DEF g, inYear
<1>6. SumFunction(g) \in Int /\ (inYear = {} => SumFunction(g) = 0)
  BY <1>4, SumFamily
<1>7. SumFunction(g) = figure(gainOf(s, y))
  BY <1>4, <1>5, <1>6, SumFamily, Figure
<1> QED
  BY <1>3, <1>7 DEF g, inYear, s

(* What the summary of the charge says of the holdings it is over.         *)
LEMMA Summary ==
  ASSUME NEW S, NEW credits, NEW charge
  PROVE  /\ cgtSummary(S, credits, charge).charge # {}
              <=> /\ Held(S) # {}
                  /\ \A i \in Held(S) : CGTDisposals(ledger[i], credits[i]) # {}
         /\ cgtSummary(S, credits, charge).charge \subseteq {charge}
         /\ Held(S) # {} => cgtSummary(S, credits, charge) # NotShown
<1> DEFINE held      == Held(S)
           matched   == {i \in held : CGTDisposals(ledger[i], credits[i]) # {}}
           unmatched == held \ matched
           cgt       == cgtSummary(S, credits, charge)
<1>1. cgt = CASE CanCharge(matched, unmatched) -> [error |-> FALSE, charge |-> {charge}]
              [] held = {}                     -> NotShown
              [] OTHER                         -> CannotMatch
  BY DEF cgtSummary, Held
<1>2. CanCharge(matched, unmatched)
        <=> held # {} /\ \A i \in held : CGTDisposals(ledger[i], credits[i]) # {}
  BY DEF CanCharge
<1>3. CASE CanCharge(matched, unmatched)
  <2>1. held # {}
    BY <1>2, <1>3
  <2>2. cgt = [error |-> FALSE, charge |-> {charge}]
    BY <1>1, <1>3, <2>1
  <2> HIDE DEF cgt, held
  <2> QED
    BY <1>2, <1>3, <2>2 DEF NotShown, cgt, held
<1>4. CASE ~ CanCharge(matched, unmatched) /\ held = {}
  <2>1. cgt = NotShown
    BY <1>1, <1>4
  <2> QED
    BY <1>2, <1>4, <2>1 DEF NotShown
<1>5. CASE ~ CanCharge(matched, unmatched) /\ held # {}
  <2>1. cgt = CannotMatch
    BY <1>1, <1>5
  <2> QED
    BY <1>2, <1>5, <2>1 DEF NotShown, CannotMatch
<1> QED
  BY <1>3, <1>4, <1>5

(* A row is its holding's, whichever loop made it.                         *)
LEMMA HoldingRows ==
  ASSUME ledger \in Ledgers, NEW i \in Instruments, NEW y \in Years
  PROVE  /\ reportHolding(i, y) \in Row /\ holdingRow(i, y) \in Row
         /\ reportHolding(i, y).class = ledger[i].class
         /\ holdingRow(i, y).class = ledger[i].class
         /\ ledger[i].class = "CGT_ASSET" =>
              /\ reportHolding(i, y).error <=> CGTDisposals(ledger[i], ledger[i].credits) = {}
              /\ holdingRow(i, y).error <=> CGTDisposals(ledger[i], {}) = {}
         /\ ledger[i].credits = {} => reportHolding(i, y) = holdingRow(i, y)
<1> DEFINE h == ledger[i]
<1>1. /\ h.class \in {"CGT_ASSET", "EXIT_TAX_FUND", "UNCLASSIFIED"}
      /\ h.charged \in [Years -> SUBSET Nat]
  BY LedgersAssumption DEF Holding
<1>2. /\ ComputeFundTaxForYear(h, h.credits, y) \in SUBSET Nat
      /\ ComputeFundTaxForYear(h, {}, y) \in SUBSET Nat
  BY <1>1 DEF ComputeFundTaxForYear
<1> HIDE DEF h
<1>3. CASE h.class = "UNCLASSIFIED"
  BY <1>3 DEF reportHolding, holdingRow, blank, Row, h
<1>4. CASE h.class = "CGT_ASSET"
  BY <1>4 DEF reportHolding, holdingRow, blank, Row, h
<1>5. CASE h.class = "EXIT_TAX_FUND"
  BY <1>2, <1>5 DEF reportHolding, holdingRow, blank, Row, fundInYear, h
<1> QED
  BY <1>1, <1>3, <1>4, <1>5 DEF h

(* What a page adds to a row is the gain of a holding that is charged.     *)
LEMMA RowGains ==
  ASSUME NEW S, NEW rows \in [S -> Row], NEW cgt, NEW y,
         NEW page, page = withGains(rows, cgt, y), NEW i \in S
  PROVE  /\ page[i].class = rows[i].class
         /\ page[i].error = rows[i].error
         /\ page[i].tax = rows[i].tax
         /\ cgt.charge # {} /\ rows[i].class = "CGT_ASSET" => page[i].gain = GainShown(i, y)
         /\ ~ (cgt.charge # {} /\ rows[i].class = "CGT_ASSET") => page[i].gain = {}
BY DEF withGains, Row, GainShown

(* The charge of a page that shows one is over all its CGT holdings, and   *)
(* those are the holdings the dashboard charges.                           *)
LEMMA ChargeIsWhole ==
  ASSUME PInv, NEW y \in Years, Shown(y), NEW S \in SUBSET Instruments,
         NEW credits, NEW rows \in [S -> Row],
         \A i \in S :
           /\ rows[i].class = ledger[i].class
           /\ ledger[i].class = "CGT_ASSET" =>
                /\ rows[i].error <=> CGTDisposals(ledger[i], credits[i]) = {}
                /\ credits[i] = {} => ledger[i].traded,
         dashboardInstruments \subseteq S,
         NEW full, full.cgt = cgtSummary(S, credits, Charge(y)),
         full.rows = withGains(rows, full.cgt, y)
  PROVE  WholeCharge(full)
<1> DEFINE cgt  == full.cgt
           page == full.rows
           held == {i \in DOMAIN page : page[i].class = "CGT_ASSET"}
           p    == Matched(ledger)
<1>1. DOMAIN page = S
  BY DEF withGains
<1>2. ASSUME NEW i \in S
      PROVE  /\ page[i].class = ledger[i].class
             /\ page[i].error = rows[i].error
             /\ cgt.charge # {} /\ ledger[i].class = "CGT_ASSET" =>
                  page[i].gain = GainShown(i, y)
  BY RowGains
<1>3. held = Held(S)
  <2>1. \A i \in S : page[i].class = ledger[i].class
    BY <1>2
  <2> HIDE DEF page
  <2> QED
    BY <1>1, <2>1 DEF Held
<1>4. /\ cgt.charge # {} =>
           held # {} /\ \A i \in held : CGTDisposals(ledger[i], credits[i]) # {}
      /\ cgt.charge \subseteq {Charge(y)}
      /\ held # {} => cgt # NotShown
  <2> HIDE DEF held
  <2> QED
    BY <1>3, Summary
<1> HIDE DEF page, held, cgt
<1>5. ASSUME NEW c \in cgt.charge
      PROVE  /\ \A i \in held : ~ page[i].error
             /\ c.net = SumFunction([i \in held |-> figure(page[i].gain)])
  <2>1. ASSUME NEW i \in held
        PROVE  /\ i \in S /\ ledger[i].class = "CGT_ASSET"
               /\ CGTDisposals(ledger[i], credits[i]) # {}
               /\ ledger[i].traded
               /\ ledger[i].sold # {}
    <3>1. i \in S /\ ledger[i].class = "CGT_ASSET"
      BY <1>3 DEF Held
    <3>2. CGTDisposals(ledger[i], credits[i]) # {}
      BY <1>4, <1>5
    <3>3. credits[i] = {} /\ ledger[i].sold # {}
      BY <3>2 DEF CGTDisposals
    <3> QED
      BY <3>1, <3>2, <3>3
  <2>2. \A i \in held : ~ page[i].error
    BY <1>2, <2>1
  <2>3. held = Held(dashboardInstruments)
    BY <1>3, <2>1 DEF dashboardInstruments, Held
  <2>4. Aggregated
    <3>1. \A i \in held : CGTDisposals(ledger[i], noCredits[i]) # {}
      BY <2>1 DEF CGTDisposals, noCredits
    <3>2. held # {}
      BY <1>4, <1>5
    <3> QED
      BY <2>3, <3>1, <3>2, Summary, SMTT(30) DEF Aggregated
  <2>5. y \in DOMAIN results /\ c = results[y] /\ c.net = netGainForYear(p, y)
    <3>1. y \in DOMAIN results
      BY <2>4 DEF PInv, IInv, Asked, Shown
    <3> QED
      BY <1>4, <1>5, <2>4, <3>1 DEF Charge, PInv, NetCharged, Net
  <2>6. held = DOMAIN p
    <3>1. DOMAIN p = {i \in Instruments :
                        ledger[i].class = "CGT_ASSET" /\ ledger[i].traded /\ ledger[i].sold # {}}
      BY DEF Matched
    <3>2. Held(dashboardInstruments) = {i \in Instruments :
                                          ledger[i].class = "CGT_ASSET" /\ ledger[i].traded}
      BY DEF Held, dashboardInstruments
    <3> HIDE DEF p
    <3> QED
      BY <2>1, <2>3, <3>1, <3>2
  <2>7. ASSUME NEW i \in held PROVE page[i].gain = GainShown(i, y)
    BY <1>2, <1>5, <2>1
  <2> DEFINE inYear(i) == {k \in DOMAIN p[i] : YearOf[p[i][k].date] = y}
             of(i)     == SumFunction([k \in inYear(i) |-> p[i][k].gain])
  <2>8. \A i \in held : of(i) = figure(page[i].gain)
    <3> HIDE DEF p
    <3> SUFFICES ASSUME NEW i \in held
                 PROVE  of(i) = figure(GainShown(i, y))
      BY <2>7
    <3>1. i \in DOMAIN Matched(ledger) /\ ledger \in Ledgers
      BY <2>6 DEF p, PInv
    <3> QED
      BY <3>1, HoldingGain DEF p
  <2>9. netGainForYear(p, y) = SumFunction([i \in held |-> of(i)])
    BY <2>6 DEF netGainForYear
  <2> HIDE DEF of, p
  <2>10. [i \in held |-> of(i)] = [i \in held |-> figure(page[i].gain)]
    BY <2>8
  <2> QED
    BY <2>2, <2>5, <2>9, <2>10
<1> QED
  BY <1>4, <1>5 DEF page, held, cgt, WholeCharge

(* On either page.                                                         *)
LEMMA PagesWhole ==
  ASSUME PInv
  PROVE  NoPartialCharge
<1> SUFFICES ASSUME NEW y \in Years, Shown(y), NEW page \in {Report(y), Dashboard(y)}
             PROVE  WholeCharge(page)
  BY DEF NoPartialCharge, WholeCharge
<1>1. ledger \in Ledgers
  BY DEF PInv
<1>2. CASE page = Report(y)
  <2> DEFINE S    == reportInstruments
             rows == [i \in S |-> reportHolding(i, y)]
             cgt  == cgtSummary(S, reportCredits, Charge(y))
  <2>1. page.rows = withGains(rows, cgt, y) /\ page.cgt = cgt
    BY <1>2 DEF Report, buildYearReport
  <2>2. S \in SUBSET Instruments /\ dashboardInstruments \subseteq S
    BY DEF reportInstruments, dashboardInstruments
  <2>3. /\ rows \in [S -> Row]
        /\ \A i \in S :
             /\ rows[i].class = ledger[i].class
             /\ ledger[i].class = "CGT_ASSET" =>
                  /\ rows[i].error <=> CGTDisposals(ledger[i], reportCredits[i]) = {}
                  /\ reportCredits[i] = {} => ledger[i].traded
    <3>1. \A i \in S : reportCredits[i] = ledger[i].credits /\ i \in Instruments
      BY DEF reportCredits, reportInstruments
    <3>2. \A i \in S : ledger[i].credits = {} => ledger[i].traded
      BY DEF reportInstruments
    <3> QED
      BY <1>1, <3>1, <3>2, HoldingRows
  <2> HIDE DEF S, rows
  <2> QED
    BY <2>1, <2>2, <2>3, ChargeIsWhole
<1>3. CASE page = Dashboard(y)
  <2> DEFINE S    == dashboardInstruments
             rows == [i \in S |-> holdingRow(i, y)]
             cgt  == cgtSummary(S, noCredits, Charge(y))
  <2>1. page.rows = withGains(rows, cgt, y) /\ page.cgt = cgt
    BY <1>3 DEF Dashboard, handleDashboard
  <2>2. S \in SUBSET Instruments /\ dashboardInstruments \subseteq S
    BY DEF dashboardInstruments
  <2>3. /\ rows \in [S -> Row]
        /\ \A i \in S :
             /\ rows[i].class = ledger[i].class
             /\ ledger[i].class = "CGT_ASSET" =>
                  /\ rows[i].error <=> CGTDisposals(ledger[i], noCredits[i]) = {}
                  /\ noCredits[i] = {} => ledger[i].traded
    <3>1. \A i \in S : noCredits[i] = {} /\ i \in Instruments /\ ledger[i].traded
      BY DEF noCredits, dashboardInstruments
    <3> QED
      BY <1>1, <3>1, HoldingRows
  <2> HIDE DEF S, rows
  <2> QED
    BY <2>1, <2>2, <2>3, ChargeIsWhole
<1> QED
  BY <1>2, <1>3

(* The two loops over one ledger.                                          *)
LEMMA LoopsAgree ==
  ASSUME PInv
  PROVE  PagesAgree
<1> SUFFICES ASSUME NEW y \in Years
             PROVE  LET r == Report(y)
                        d == Dashboard(y)
                        charged == \A i \in Instruments :
                                     ledger[i].class = "CGT_ASSET" => ledger[i].credits = {}
                    IN /\ \A i \in {j \in Instruments : ledger[j].credits = {}} :
                            /\ i \in DOMAIN r.rows <=> i \in DOMAIN d.rows
                            /\ i \in DOMAIN d.rows =>
                                 /\ r.rows[i].error = d.rows[i].error
                                 /\ r.rows[i].tax = d.rows[i].tax
                                 /\ charged => r.rows[i].gain = d.rows[i].gain
                       /\ charged => r.cgt = d.cgt
  BY DEF PagesAgree
<1> DEFINE charged == \A i \in Instruments :
                        ledger[i].class = "CGT_ASSET" => ledger[i].credits = {}
           R    == reportInstruments
           D    == dashboardInstruments
           rcgt == cgtSummary(R, reportCredits, Charge(y))
           dcgt == cgtSummary(D, noCredits, Charge(y))
           rrow == [i \in R |-> reportHolding(i, y)]
           drow == [i \in D |-> holdingRow(i, y)]
<1>1. /\ Report(y).rows = withGains(rrow, rcgt, y) /\ Report(y).cgt = rcgt
      /\ Dashboard(y).rows = withGains(drow, dcgt, y) /\ Dashboard(y).cgt = dcgt
  BY DEF Report, buildYearReport, Dashboard, handleDashboard
<1>2. /\ R \subseteq Instruments /\ D \subseteq R
      /\ \A i \in R : ledger[i].credits = {} => i \in D
  BY DEF reportInstruments, dashboardInstruments
<1>3. /\ rrow \in [R -> Row] /\ drow \in [D -> Row]
      /\ \A i \in D : ledger[i].credits = {} => rrow[i] = drow[i]
  BY <1>2, HoldingRows DEF PInv
<1>4. charged => rcgt = dcgt
  <2> SUFFICES ASSUME charged PROVE rcgt = dcgt
    OBVIOUS
  <2> DEFINE held(S) == {i \in S : ledger[i].class = "CGT_ASSET"}
             matched(S, credits) == {i \in held(S) : CGTDisposals(ledger[i], credits[i]) # {}}
  <2>1. held(R) = held(D)
    BY <1>2
  <2>2. \A i \in held(R) : reportCredits[i] = noCredits[i]
    BY <1>2 DEF reportCredits, noCredits
  <2>3. matched(R, reportCredits) = matched(D, noCredits)
    <3> HIDE DEF held
    <3> QED
      BY <2>1, <2>2
  <2>4. \A S, credits :
          cgtSummary(S, credits, Charge(y))
            = CASE CanCharge(matched(S, credits), held(S) \ matched(S, credits)) ->
                     [error |-> FALSE, charge |-> {Charge(y)}]
                [] held(S) = {} -> NotShown
                [] OTHER        -> CannotMatch
    BY DEF cgtSummary
  <2> HIDE DEF held, matched, charged, R, D
  <2> QED
    BY <2>1, <2>3, <2>4
<1> HIDE DEF R, D, rcgt, dcgt, rrow, drow
<1>5. /\ DOMAIN Report(y).rows = R /\ DOMAIN Dashboard(y).rows = D
  BY <1>1 DEF withGains, rrow, drow
<1>6. ASSUME NEW i \in D, ledger[i].credits = {}
      PROVE  /\ Report(y).rows[i].error = Dashboard(y).rows[i].error
             /\ Report(y).rows[i].tax = Dashboard(y).rows[i].tax
             /\ charged => Report(y).rows[i].gain = Dashboard(y).rows[i].gain
  <2> DEFINE a == Report(y).rows
             b == Dashboard(y).rows
             charges(cgt) == cgt.charge # {} /\ rrow[i].class = "CGT_ASSET"
  <2>1. i \in R /\ rrow[i] = drow[i]
    BY <1>2, <1>3, <1>6
  <2>2. /\ a[i].error = rrow[i].error /\ a[i].tax = rrow[i].tax
        /\ charges(rcgt) => a[i].gain = GainShown(i, y)
        /\ ~ charges(rcgt) => a[i].gain = {}
    <3> HIDE DEF a
    <3>1. a = withGains(rrow, rcgt, y)
      BY <1>1 DEF a
    <3> QED
      BY <1>3, <2>1, <3>1, RowGains
  <2>3. /\ b[i].error = drow[i].error /\ b[i].tax = drow[i].tax
        /\ charges(dcgt) => b[i].gain = GainShown(i, y)
        /\ ~ charges(dcgt) => b[i].gain = {}
    <3> HIDE DEF b
    <3>1. b = withGains(drow, dcgt, y)
      BY <1>1 DEF b
    <3> QED
      BY <1>3, <2>1, <3>1, RowGains
  <2>4. charged => (charges(rcgt) <=> charges(dcgt))
    BY <1>4
  <2> HIDE DEF a, b, charges, charged
  <2>5. a[i].error = b[i].error /\ a[i].tax = b[i].tax
    BY <2>1, <2>2, <2>3
  <2>6. charged => a[i].gain = b[i].gain
    BY <2>2, <2>3, <2>4
  <2> QED
    BY <2>5, <2>6 DEF a, b
<1> HIDE DEF charged
<1>7. charged => Report(y).cgt = Dashboard(y).cgt
  BY <1>1, <1>4
<1>8. \A i \in {j \in Instruments : ledger[j].credits = {}} : i \in R <=> i \in D
  BY <1>2
<1> QED
  BY <1>5, <1>6, <1>7, <1>8 DEF charged

(* A step of the pages is a step of the charge where the dashboard charges *)
(* at all, and leaves the answers alone elsewhere.                         *)
LEMMA PageStep ==
  ASSUME PInv, [NextPages]_pageVars
  PROVE  PInv'
<1>1. ledger' = ledger /\ disposals' = disposals
  BY DEF NextPages, pageVars, vars, PageWithoutCharge, NothingSold, BeginReplay, ReplayYear,
         Assess, AskNextYear
<1>2. Aggregated' = Aggregated
  BY <1>1 DEF Aggregated, cgtSummary, dashboardInstruments
<1>3. ledger' \in Ledgers /\ disposals' = Matched(ledger')
  BY <1>1 DEF PInv
<1>4. CASE Aggregated
  <2>1. IInv /\ NetCharged /\ [Next]_vars
    BY <1>4 DEF PInv, NextPages, Next, pageVars, vars, PageWithoutCharge
  <2>2. IInv'
    BY <2>1, Step
  <2>3. NetCharged'
    <3>1. \A y : Net(y)' = Net(y)
      BY <1>1 DEF Net
    <3>2. CASE results' = results
      BY <2>1, <3>1, <3>2 DEF NetCharged
    <3>3. ASSUME NEW result, Answer(result), result.net = Net(target),
                 result.net = 0 => result.taxDue = 0
          PROVE  NetCharged'
      <4>1. \A y \in DOMAIN results' :
              results'[y] = IF y = target THEN result ELSE results[y]
        BY <3>3 DEF Answer
      <4>2. \A y \in DOMAIN results' : y = target \/ y \in DOMAIN results
        BY <3>3 DEF Answer
      <4> QED
        BY <2>1, <3>1, <3>3, <4>1, <4>2 DEF NetCharged
    <3>4. CASE NothingSold
      <4>1. target \notin YearsOf(disposals)
        <5>1. target \in Nat /\ \A y \in YearsOf(disposals) : y > target
          BY <2>1, <3>4, YearsAssumption DEF IInv, TypeOK, NothingSold
        <5> QED
          BY <5>1
      <4>2. IsFiniteSet(DOMAIN disposals)
        <5>1. DOMAIN disposals \subseteq Instruments
          BY DEF PInv, Matched
        <5> QED
          BY <5>1, InstrumentsAssumption, FS_Subset
      <4>3. Net(target) = 0
        BY <4>1, <4>2, NoDisposals DEF Net
      <4> QED
        BY <3>3, <3>4, <4>3 DEF NothingSold
    <3>5. CASE Assess
      <4> DEFINE net     == Net(target)
                 after   == positive(net - usedInTarget)
                 exempt  == minimum(after, AnnualExemption)
                 taxable == after - exempt
                 rate    == Rate[YearEnd[target]]
      <4>1. net = 0 => (taxable * rate) \div 100 = 0
        <5> SUFFICES ASSUME net = 0 PROVE (taxable * rate) \div 100 = 0
          OBVIOUS
        <5>1. usedInTarget = 0
          <6>1. pc = "replay" /\ at > target
            BY <3>5 DEF Assess
          <6>2. usedInTarget = UsedOf(poolInto, net)
            BY <2>1, <6>1 DEF IInv, PoolKnown
          <6> QED
            BY <6>2 DEF UsedOf
        <5>2. after = 0
          <6>1. \A m, n \in Int : m = 0 /\ n = 0 => positive(m - n) = 0
            BY DEF positive
          <6> HIDE DEF net
          <6> QED
            BY <5>1, <6>1
        <5>3. exempt = 0
          <6> HIDE DEF after
          <6> QED
            BY <5>2, ExemptionAssumption DEF minimum
        <5>4. rate \in Int
          BY <2>1, RateAssumption, CalendarAssumption DEF IInv, TypeOK
        <5> HIDE DEF after, exempt, rate
        <5>5. taxable = 0
          BY <5>2, <5>3
        <5> HIDE DEF taxable
        <5>6. taxable * rate = 0
          BY <5>4, <5>5
        <5> QED
          BY <5>6
      <4> DEFINE result == [net |-> net, broughtForward |-> poolInto, used |-> usedInTarget,
                            carriedForward |-> lossPool, exemption |-> exempt,
                            taxable |-> taxable, taxDue |-> (taxable * rate) \div 100]
      <4>2. Answer(result)
        BY <3>5 DEF Assess, Net
      <4>3. result.net = net /\ result.taxDue = (taxable * rate) \div 100
        <5> HIDE DEF net, taxable, rate, exempt
        <5> QED
          OBVIOUS
      <4> HIDE DEF result, taxable, rate
      <4> QED
        BY <3>3, <4>1, <4>2, <4>3
    <3>6. CASE ~ NothingSold /\ ~ Assess
      <4>1. results' = results
        BY <2>1, <3>6 DEF Next, vars, BeginReplay, ReplayYear, AskNextYear
      <4> QED
        BY <3>2, <4>1
    <3> QED
      BY <3>4, <3>5, <3>6
  <2> QED
    BY <1>2, <1>3, <1>4, <2>2, <2>3 DEF PInv, IInv, TypeOK
<1>5. CASE ~ Aggregated
  <2>1. pc # "replay" /\ DOMAIN results = {}
    BY <1>5 DEF PInv
  <2>2. pc' # "replay" /\ results' = results /\ target' \in Years
    BY <1>5, <2>1 DEF PInv, NextPages, pageVars, vars, PageWithoutCharge, ReplayYear, Assess,
                      AskNextYear
  <2> QED
    BY <1>2, <1>3, <1>5, <2>1, <2>2 DEF PInv
<1> QED
  BY <1>4, <1>5

(* Every reachable state of the pages satisfies their invariant.           *)
THEOREM PagesInvariance == SpecPages => []PInv
<1>1. InitPages => PInv
  <2> SUFFICES ASSUME InitPages PROVE PInv
    OBVIOUS
  <2>1. IInv
    BY Start DEF InitPages
  <2>2. DOMAIN results = {} /\ pc # "replay"
    BY DEF InitPages, Init
  <2> QED
    BY <2>1, <2>2 DEF InitPages, PInv, NetCharged, IInv, TypeOK
<1>2. PInv /\ [NextPages]_pageVars => PInv'
  BY PageStep
<1> QED
  BY <1>1, <1>2, PTL DEF SpecPages

(* `taxman report` and the dashboard agree on a year, whatever the ledger: *)
(* on every holding without interest, and on the charge unless a holding   *)
(* of the charge has interest.                                             *)
THEOREM TwoPagesAgree == SpecPages => []PagesAgree
<1>1. PInv => PagesAgree
  BY LoopsAgree
<1> QED
  BY <1>1, PagesInvariance, PTL

(* A page shows a charge over every holding that is charged, the gains it  *)
(* shows beside it add up to the gain it charges, and nothing it holds is  *)
(* left out in silence.                                                    *)
THEOREM ChargesAreWhole == SpecPages => []NoPartialCharge
<1>1. PInv => NoPartialCharge
  BY PagesWhole
<1> QED
  BY <1>1, PagesInvariance, PTL

----------------------------------------------------------------------------
(* The all-years view.                                                     *)

(* Once every year is shown there are finitely many.                       *)
LEMMA FinitelyManyYears ==
  ASSUME target \in Nat, \A y \in Years : Shown(y)
  PROVE  IsFiniteSet(Years)
<1>1. Years \subseteq 0..target
  BY YearsAssumption DEF Shown
<1>2. IsFiniteSet(0..target)
  BY FS_Interval
<1> QED
  BY <1>1, <1>2, FS_Subset

(* The charge: a year without a disposal is charged nothing.               *)
LEMMA ChargesAddUp ==
  ASSUME PInv, Aggregated, \A y \in Years : Shown(y)
  PROVE  allYearsCGTTaxDue = SumFunction([y \in Years |-> results[y].taxDue])
<1> DEFINE D == YearsOf(disposals)
           f == [y \in Years |-> results[y].taxDue]
           g == [y \in D |-> results[y].taxDue]
<1>1. IInv /\ NetCharged
  BY DEF PInv
<1>2. D \subseteq Years /\ target \in Nat
  BY <1>1, PortfolioAssumption, YearsAssumption DEF IInv, TypeOK
<1>3. \A y \in Years : y \in DOMAIN results /\ results[y] \in Result
  BY <1>1 DEF IInv, TypeOK, Asked, Shown
<1>4. \A y \in Years : f[y] \in Int
  BY <1>3 DEF Result
<1>5. IsFiniteSet(Years) /\ IsFiniteSet(D) /\ IsFiniteSet(Years \ D)
  BY <1>2, FinitelyManyYears, FS_Subset
<1>6. \A y \in Years \ D : f[y] = 0
  <2>1. IsFiniteSet(DOMAIN disposals)
    <3>1. DOMAIN disposals \subseteq Instruments
      BY DEF PInv, Matched
    <3> QED
      BY <3>1, InstrumentsAssumption, FS_Subset
  <2>2. ASSUME NEW y \in Years \ D PROVE f[y] = 0
    <3>1. Net(y) = 0
      BY <2>1, NoDisposals DEF Net
    <3> QED
      BY <1>1, <1>3, <3>1 DEF NetCharged
  <2> QED
    BY <2>2
<1>7. SumFunction(f) = SumFunctionOnSet(f, Years) /\ allYearsCGTTaxDue = SumFunctionOnSet(g, D)
  BY DEF SumFunction, allYearsCGTTaxDue, disposalYears
<1>8. SumFunctionOnSet(f, Years) = SumFunctionOnSet(f, D) + SumFunctionOnSet(f, Years \ D)
  <2>1. D \union (Years \ D) = Years /\ D \intersect (Years \ D) = {}
    BY <1>2
  <2> HIDE DEF D, f
  <2> QED
    BY <1>4, <1>5, <2>1, SumUnion
<1>9. SumFunctionOnSet(f, Years \ D) = 0
  <2> HIDE DEF f, D
  <2> QED
    BY <1>5, <1>6, SumOfZeros
<1>10. SumFunctionOnSet(g, D) = SumFunctionOnSet(f, D)
  <2>1. \A y \in D : g[y] = f[y]
    BY <1>2
  <2> HIDE DEF f, g, D
  <2> QED
    BY <1>5, <2>1, SumAgree
<1>11. SumFunctionOnSet(f, D) \in Int
  <2>1. \A y \in D : f[y] \in Int
    BY <1>2, <1>4
  <2> HIDE DEF f, D
  <2> QED
    BY <1>5, <2>1, SumType
<1> HIDE DEF f, g, D
<1>12. allYearsCGTTaxDue = SumFunction(f)
  BY <1>7, <1>8, <1>9, <1>10, <1>11
<1> QED
  BY <1>12 DEF f

(* A holding's gain.                                                       *)
LEMMA GainsAddUp ==
  ASSUME PInv, Aggregated, \A y \in Years : Shown(y), NEW i \in DOMAIN disposals
  PROVE  allYearsGain(i) = {SumFunction([y \in Years |-> figure(Dashboard(y).rows[i].gain)])}
<1> DEFINE s         == disposals[i]
           inYear(y) == {k \in DOMAIN s : YearOf[s[k].date] = y}
           f         == [k \in DOMAIN s |-> s[k].gain]
           kind      == [k \in DOMAIN s |-> YearOf[s[k].date]]
           g         == [y \in Years |-> figure(GainShown(i, y))]
<1>1. /\ ledger \in Ledgers /\ disposals = Matched(ledger) /\ target \in Nat
      /\ i \in DOMAIN Matched(ledger)
  BY YearsAssumption DEF PInv, IInv, TypeOK
<1>2. /\ i \in Instruments /\ ledger[i].class = "CGT_ASSET" /\ ledger[i].traded
      /\ ledger[i].sold # {} /\ s = CHOOSE t \in ledger[i].sold : TRUE
  BY <1>1 DEF Matched
<1>3. s \in Seq(Disposal) /\ ledger[i].sold = {s}
  <2>1. s \in ledger[i].sold
    BY <1>2
  <2> HIDE DEF s
  <2> QED
    BY <1>1, <1>2, <2>1, LedgersAssumption DEF Holding
<1> HIDE DEF s
<1>4. allYearsGain(i) = {SumFunction(f)}
  BY <1>3 DEF allYearsGain, sumDisposalGains
<1>5. /\ IsFiniteSet(DOMAIN s)
      /\ \A k \in DOMAIN s : f[k] \in Int /\ kind[k] \in Years /\ kind[k] = YearOf[s[k].date]
  <2>1. Len(s) \in Nat /\ DOMAIN s = 1..Len(s) /\ \A k \in DOMAIN s : s[k] \in Disposal
    BY <1>3
  <2>2. IsFiniteSet(1..Len(s))
    BY <2>1, FS_Interval
  <2>3. \A k \in DOMAIN s : s[k].gain \in Int /\ YearOf[s[k].date] \in Years
    BY <2>1, CalendarAssumption DEF Disposal
  <2> QED
    BY <2>1, <2>2, <2>3
<1>6. IsFiniteSet(Years)
  BY <1>1, FinitelyManyYears
<1>7. ASSUME NEW y \in Years
      PROVE  g[y] = SumFunctionOnSet(f, {k \in DOMAIN s : kind[k] = y})
  <2> DEFINE part == [k \in inYear(y) |-> s[k].gain]
  <2>1. SumFunction(part) = figure(GainShown(i, y))
    BY <1>1, HoldingGain DEF s
  <2>2. inYear(y) = {k \in DOMAIN s : kind[k] = y} /\ inYear(y) \subseteq DOMAIN s
    OBVIOUS
  <2>3. \A k \in inYear(y) : part[k] = f[k]
    OBVIOUS
  <2>4. SumFunction(part) = SumFunctionOnSet(part, inYear(y))
    BY DEF SumFunction
  <2>5. g[y] = figure(GainShown(i, y))
    OBVIOUS
  <2> HIDE DEF part, f, g, inYear, kind
  <2>6. IsFiniteSet(inYear(y))
    BY <1>5, <2>2, FS_Subset
  <2>7. SumFunctionOnSet(part, inYear(y)) = SumFunctionOnSet(f, inYear(y))
    BY <2>3, <2>6, SumAgree
  <2> QED
    BY <2>1, <2>2, <2>4, <2>5, <2>7
<1>8. SumFunctionOnSet(f, DOMAIN s) = SumFunctionOnSet(g, Years)
  <2> HIDE DEF f, kind, g
  <2>1. IsByKind(g, f, kind, DOMAIN s, Years)
    BY <1>5, <1>6, <1>7 DEF IsByKind
  <2> QED
    BY <2>1, SumByKind
<1>9. SumFunction(f) = SumFunctionOnSet(f, DOMAIN s) /\ SumFunction(g) = SumFunctionOnSet(g, Years)
  BY DEF SumFunction
<1>10. ASSUME NEW y \in Years
       PROVE  Dashboard(y).rows[i].gain = GainShown(i, y)
  <2> DEFINE D    == dashboardInstruments
             rows == [j \in D |-> holdingRow(j, y)]
             cgt  == cgtSummary(D, noCredits, Charge(y))
             page == Dashboard(y).rows
  <2>1. page = withGains(rows, cgt, y)
    BY DEF Dashboard, handleDashboard
  <2>2. cgt.charge # {}
    BY Summary DEF Aggregated
  <2>3. i \in D /\ D \subseteq Instruments
    BY <1>2 DEF dashboardInstruments
  <2>4. rows \in [D -> Row] /\ rows[i].class = "CGT_ASSET"
    BY <1>1, <1>2, <2>3, HoldingRows
  <2> HIDE DEF page, rows, cgt, D
  <2>5. page[i].gain = GainShown(i, y)
    BY <2>1, <2>2, <2>3, <2>4, RowGains
  <2> QED
    BY <2>5 DEF page
<1>11. [y \in Years |-> figure(Dashboard(y).rows[i].gain)] = g
  BY <1>10
<1> HIDE DEF f, g
<1> QED
  BY <1>4, <1>8, <1>9, <1>11

(* The latest of some credits.                                             *)
LEMMA LatestCredit ==
  ASSUME NEW S, IsFiniteSet(S), S # {}, \A c \in S : c.date \in Int
  PROVE  \E c \in S : Max({e.date : e \in S}) = c.date
<1> DEFINE latest(T) == \E c \in T : \A e \in T : c.date >= e.date
           C == {T \in SUBSET S : T # {} => latest(T)}
<1>1. ASSUME NEW T \in SUBSET S, \A x \in T : T \ {x} \in C PROVE T \in C
  <2> SUFFICES ASSUME T # {} PROVE latest(T)
    OBVIOUS
  <2>1. PICK x \in T : TRUE
    OBVIOUS
  <2>2. CASE T \ {x} = {}
    <3>1. \A e \in T : e = x /\ x.date \in Int
      BY <2>1, <2>2
    <3> QED
      BY <2>1, <3>1
  <2>3. CASE T \ {x} # {}
    <3>1. PICK c \in T \ {x} : \A e \in T \ {x} : c.date >= e.date
      BY <1>1, <2>1, <2>3
    <3>2. c.date \in Int /\ x.date \in Int /\ \A e \in T : e = x \/ e \in T \ {x}
      BY <3>1
    <3>3. CASE c.date >= x.date
      BY <3>1, <3>2, <3>3
    <3>4. CASE ~ (c.date >= x.date)
      <4>1. \A e \in T : x.date >= e.date
        <5>1. ASSUME NEW e \in T PROVE x.date >= e.date
          <6>1. e.date \in Int
            OBVIOUS
          <6>2. CASE e = x
            BY <6>1, <6>2
          <6>3. CASE e # x
            <7>1. c.date >= e.date
              BY <3>1, <6>3
            <7> QED
              BY <3>2, <3>4, <6>1, <7>1
          <6> QED
            BY <6>2, <6>3
        <5> QED
          BY <5>1
      <4> QED
        BY <2>1, <4>1
    <3> QED
      BY <3>3, <3>4
  <2> QED
    BY <2>2, <2>3
<1>2. S \in C
  <2> HIDE DEF C
  <2>1. \A T \in SUBSET S : (\A x \in T : T \ {x} \in C) => T \in C
    BY <1>1
  <2>2. \A T \in SUBSET S : T \in C
    BY <2>1, SetInduction, Zenon
  <2> QED
    BY <2>2
<1>3. PICK c \in S : \A e \in S : c.date >= e.date
  BY <1>2
<1> DEFINE dates == {e.date : e \in S}
<1>4. c.date \in dates /\ \A d \in dates : c.date >= d
  BY <1>3
<1> HIDE DEF dates
<1>5. Max(dates) \in dates
  BY <1>4 DEF Max
<1> QED
  BY <1>5 DEF dates

(* The interest the dashboard knows.                                       *)
LEMMA Interest ==
  ASSUME ledger \in Ledgers
  PROVE  /\ IsFiniteSet(interestTxs)
         /\ \A c \in interestTxs : /\ c.amount \in Int /\ c.date \in Dates
                                   /\ c.date \in Int /\ YearOf[c.date] \in Years
<1> DEFINE of(T) == UNION {ledger[i].credits : i \in T}
           C == {T \in SUBSET Instruments : IsFiniteSet(of(T))}
<1>1. ASSUME NEW T \in SUBSET Instruments, \A x \in T : T \ {x} \in C PROVE T \in C
  <2>1. CASE T = {}
    <3>1. of(T) = {}
      BY <2>1
    <3> QED
      BY <3>1, FS_EmptySet
  <2>2. CASE T # {}
    <3>1. PICK x \in T : TRUE
      BY <2>2
    <3>2. of(T) = of(T \ {x}) \union ledger[x].credits
      BY <3>1
    <3>3. IsFiniteSet(of(T \ {x})) /\ IsFiniteSet(ledger[x].credits)
      BY <1>1, <3>1, LedgersAssumption
    <3> HIDE DEF of
    <3>4. IsFiniteSet(of(T))
      BY <3>2, <3>3, FS_Union
    <3> QED
      BY <3>4
  <2> QED
    BY <2>1, <2>2
<1>2. IsFiniteSet(interestTxs)
  <2> HIDE DEF C
  <2>1. \A T \in SUBSET Instruments : (\A x \in T : T \ {x} \in C) => T \in C
    BY <1>1
  <2>2. \A T \in SUBSET Instruments : T \in C
    BY <2>1, InstrumentsAssumption, SetInduction, Zenon
  <2>3. Instruments \in C
    BY <2>2
  <2> QED
    BY <2>3 DEF C, interestTxs
<1>3. \A c \in interestTxs : c \in Credit
  BY LedgersAssumption DEF interestTxs, Holding
<1>4. \A c \in interestTxs : /\ c.amount \in Int /\ c.date \in Dates
                             /\ c.date \in Int /\ YearOf[c.date] \in Years
  <2>1. ASSUME NEW c \in interestTxs
        PROVE  c.amount \in Int /\ c.date \in Dates
    BY <1>3 DEF Credit
  <2>2. \A d \in Dates : d \in Int /\ YearOf[d] \in Years
    BY DIRTRateAssumption, CalendarAssumption
  <2> QED
    BY <2>1, <2>2
<1> QED
  BY <1>2, <1>4

(* DIRT on some credits while there is one rate.                           *)
LEMMA DIRTAtOneRate ==
  ASSUME ledger \in Ledgers, NEW rate, \A c \in interestTxs : DIRTRate[c.date] = rate,
         NEW credits \in SUBSET interestTxs, credits # {}
  PROVE  ComputeDIRT(credits) = (totalInterest(credits) * rate) \div 100
<1>1. IsFiniteSet(credits) /\ \A c \in credits : c.date \in Int
  BY Interest, FS_Subset
<1>2. DIRTRate[Max({c.date : c \in credits})] = rate
  BY <1>1, LatestCredit
<1> QED
  BY <1>2 DEF ComputeDIRT, roundTaxToWholeEuro

(* The DIRT of the years, each rounded down, against that of all years.    *)
LEMMA DIRTAddsUp ==
  ASSUME ledger \in Ledgers, IsFiniteSet(Years),
         \A c, e \in interestTxs : DIRTRate[c.date] = DIRTRate[e.date]
  PROVE  LET credited == {y \in Years : creditsIn(interestTxs, y) # {}}
             yearly   == SumFunction([y \in credited |-> Dashboard(y).dirt])
         IN /\ yearly <= allYearsDIRT
            /\ credited # {} => allYearsDIRT < yearly + Cardinality(credited)
<1> DEFINE credited == {y \in Years : creditsIn(interestTxs, y) # {}}
           b == [y \in credited |-> Dashboard(y).dirt]
<1>1. IsFiniteSet(credited)
  BY FS_Subset
<1>2. CASE interestTxs = {}
  <2>1. credited = {} /\ allYearsDIRT = 0
    BY <1>2 DEF creditsIn, allYearsDIRT, ComputeDIRT
  <2>2. IsFamily(b, {})
    BY <2>1, FS_EmptySet DEF IsFamily
  <2> HIDE DEF b
  <2>3. SumFunction(b) = 0
    BY <2>2, SumFamily
  <2> HIDE DEF credited
  <2>4. SumFunction(b) <= allYearsDIRT
    BY <2>1, <2>3
  <2> QED
    BY <2>1, <2>4 DEF b, credited
<1>3. CASE interestTxs # {}
  <2>1. PICK one \in interestTxs : TRUE
    BY <1>3
  <2> DEFINE S    == interestTxs
             rate == DIRTRate[one.date]
             t    == [c \in S |-> c.amount]
             kind == [c \in S |-> YearOf[c.date]]
             a    == [y \in credited |-> totalInterest(creditsIn(S, y))]
  <2>2. /\ rate \in Int /\ IsFiniteSet(S)
        /\ \A c \in S : DIRTRate[c.date] = rate
        /\ \A c \in S : t[c] \in Int
    BY <2>1, Interest, DIRTRateAssumption
  <2>3. \A c \in S : kind[c] \in credited /\ kind[c] = YearOf[c.date]
    BY Interest DEF creditsIn
  <2>4. ASSUME NEW cs \in SUBSET S
        PROVE  totalInterest(cs) = SumFunctionOnSet(t, cs) /\ totalInterest(cs) \in Int
    <3> DEFINE u == [c \in cs |-> c.amount]
    <3>1. totalInterest(cs) = SumFunctionOnSet(u, cs)
      BY DEF totalInterest, SumFunction
    <3>2. IsFiniteSet(cs) /\ \A c \in cs : u[c] = t[c] /\ t[c] \in Int
      BY <2>2, FS_Subset
    <3> HIDE DEF u, t
    <3> QED
      BY <3>1, <3>2, SumAgree, SumType
  <2>5. ASSUME NEW y \in credited
        PROVE  /\ a[y] = SumFunctionOnSet(t, {c \in S : kind[c] = y}) /\ a[y] \in Int
               /\ b[y] = (a[y] * rate) \div 100
    <3> DEFINE cs == creditsIn(S, y)
    <3>1. cs \in SUBSET S /\ cs # {} /\ cs = {c \in S : kind[c] = y}
      BY DEF creditsIn
    <3>2. a[y] = totalInterest(cs)
      OBVIOUS
    <3>3. b[y] = ComputeDIRT(cs)
      BY DEF Dashboard, handleDashboard
    <3> HIDE DEF cs, a, b, t, kind, credited
    <3>4. a[y] = SumFunctionOnSet(t, cs) /\ a[y] \in Int
      BY <2>4, <3>1, <3>2
    <3> HIDE DEF rate
    <3>5. ComputeDIRT(cs) = (totalInterest(cs) * rate) \div 100
      BY <2>2, <3>1, DIRTAtOneRate
    <3> QED
      BY <3>1, <3>2, <3>3, <3>4, <3>5
  <2>6. allYearsDIRT = (totalInterest(S) * rate) \div 100
    <3> HIDE DEF rate
    <3> QED
      BY <1>3, <2>2, DIRTAtOneRate DEF allYearsDIRT
  <2>7. credited # {}
    BY <2>1, <2>3
  <2>8. SumFunction(b) = SumFunctionOnSet(b, credited)
    BY DEF SumFunction
  <2>9. totalInterest(S) = SumFunctionOnSet(t, S)
    BY <2>4
  <2> HIDE DEF t, kind, a, b, rate, credited
  <2>10. totalInterest(S) = SumFunctionOnSet(a, credited)
    <3>1. IsByKind(a, t, kind, S, credited)
      BY <1>1, <2>2, <2>3, <2>5 DEF IsByKind
    <3>2. SumFunctionOnSet(t, S) = SumFunctionOnSet(a, credited)
      BY <3>1, SumByKind
    <3> QED
      BY <2>9, <3>2
  <2> DEFINE exact == totalInterest(S) * rate
             whole == SumFunction(b)
             n     == Cardinality(credited)
  <2>11. whole \in Int /\ 100 * whole <= exact /\ exact <= 100 * whole + 99 * n
    <3>1. IsRounded(b, a, rate, credited)
      BY <1>1, <2>2, <2>5 DEF IsRounded
    <3> QED
      BY <2>8, <2>10, <3>1, SumOfRounded
  <2>12. exact \in Int
    BY <2>2, <2>4
  <2>13. n \in Nat /\ n > 0
    BY <1>1, <2>7, FS_EmptySet, FS_CardinalityType
  <2>14. allYearsDIRT = exact \div 100
    BY <2>6
  <2> HIDE DEF exact, whole, n
  <2>15. whole <= exact \div 100 /\ exact \div 100 < whole + n
    BY <2>11, <2>12, <2>13
  <2> QED
    BY <2>14, <2>15 DEF whole, n, b, credited
<1> QED
  BY <1>2, <1>3

(* All of it.                                                              *)
LEMMA YearsOfPagesAddUp ==
  ASSUME PInv
  PROVE  AllYearsAddUp
<1> SUFFICES ASSUME \A y \in Years : Shown(y)
             PROVE  LET credited == {y \in Years : creditsIn(interestTxs, y) # {}}
                        yearly   == SumFunction([y \in credited |-> Dashboard(y).dirt])
                    IN /\ Aggregated =>
                            /\ allYearsCGTTaxDue = SumFunction([y \in Years |-> results[y].taxDue])
                            /\ \A i \in DOMAIN disposals :
                                 allYearsGain(i) =
                                   {SumFunction([y \in Years |-> figure(Dashboard(y).rows[i].gain)])}
                       /\ (\A c, e \in interestTxs : DIRTRate[c.date] = DIRTRate[e.date])
                            => /\ yearly <= allYearsDIRT
                               /\ credited # {} => allYearsDIRT < yearly + Cardinality(credited)
  BY DEF AllYearsAddUp
<1>1. Aggregated => allYearsCGTTaxDue = SumFunction([y \in Years |-> results[y].taxDue])
  BY ChargesAddUp
<1>2. ASSUME Aggregated, NEW i \in DOMAIN disposals
      PROVE  allYearsGain(i) =
               {SumFunction([y \in Years |-> figure(Dashboard(y).rows[i].gain)])}
  BY <1>2, GainsAddUp
<1>3. ledger \in Ledgers /\ IsFiniteSet(Years)
  BY FinitelyManyYears, YearsAssumption DEF PInv
<1> DEFINE credited == {y \in Years : creditsIn(interestTxs, y) # {}}
           yearly   == SumFunction([y \in credited |-> Dashboard(y).dirt])
<1>4. ASSUME \A c, e \in interestTxs : DIRTRate[c.date] = DIRTRate[e.date]
      PROVE  /\ yearly <= allYearsDIRT
             /\ credited # {} => allYearsDIRT < yearly + Cardinality(credited)
  BY <1>3, <1>4, DIRTAddsUp
<1> HIDE DEF yearly, credited
<1> QED
  BY <1>1, <1>2, <1>4 DEF yearly, credited

(* What the all-years view shows is the sum of the years' own pages: CGT   *)
(* and gains to the euro, DIRT at one rate up to each year's rounding.     *)
THEOREM AllYearsView == SpecPages => []AllYearsAddUp
<1>1. PInv => AllYearsAddUp
  BY YearsOfPagesAddUp
<1> QED
  BY <1>1, PagesInvariance, PTL

=============================================================================
