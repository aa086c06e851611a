------------------------------- MODULE SumTheorems -------------------------------
(***************************************************************************)
(* Lemmas about SumFunction of the community modules, on functions with a  *)
(* finite domain, about the least and the greatest of a set, and about     *)
(* remainders.                                                             *)
(*                                                                         *)
(* SumFunction is a fold: a function on the subsets of the domain, given   *)
(* by an equation (IsSums).  That this function exists, and what it yields,  *)
(* is shown by induction, in the form of a least counterexample.           *)
(***************************************************************************)
EXTENDS Integers, FiniteSets, FiniteSetsExt, Functions, FiniteSetTheorems,
        WellFoundedInduction, TLAPS

--------------------------------------------------------------------------------
(* Least counterexamples.                                                  *)

\* A set of numbers has a least one.
LEMMA SmallestNumber ==
  ASSUME NEW N \in SUBSET Nat, N # {}
  PROVE  \E n \in N : \A m \in N : n <= m
<1>1. PICK n \in N : \A m \in N : <<m, n>> \notin OpToRel(<, Nat)
  BY NatLessThanWellFounded, WFMin
<1>2. \A m \in N : ~(m < n)
  BY <1>1 DEF OpToRel
<1> QED
  BY <1>2

\* Among subsets of a finite set one includes none of the others.
LEMMA SmallestSubset ==
  ASSUME NEW S, IsFiniteSet(S), NEW B \in SUBSET SUBSET S, B # {}
  PROVE  \E T \in B : T \in SUBSET S /\ \A U \in B : U \subseteq T => U = T
<1>1. B \subseteq FiniteSubsetsOf(S)
  BY FS_FiniteSubsetsOfFinite
<1>2. PICK T \in B : \A U \in B : <<U, T>> \notin StrictSubsetOrdering(S)
  BY <1>1, FS_StrictSubsetOrderingWellFounded, WFMin
<1>3. \A U \in B : ~(U \subseteq T /\ U # T)
  BY <1>2, FS_FiniteSubsetsOfFinite DEF StrictSubsetOrdering
<1> QED
  BY <1>3

--------------------------------------------------------------------------------
(* The fold.                                                               *)

Chosen(T) == CHOOSE x \in T : TRUE

\* One turn of the fold: g has the sums over the smaller sets.
SumTurn(f, g, T) == IF T = {} THEN 0 ELSE f[Chosen(T)] + g[T \ {Chosen(T)}]

\* g has the sums of f over the subsets of S.
IsSums(f, S, g) == g = [T \in SUBSET S |-> SumTurn(f, g, T)]

LEMMA SumUnfolds ==
  ASSUME NEW f, NEW S
  PROVE  SumFunctionOnSet(f, S) = (CHOOSE g : IsSums(f, S, g))[S]
BY DEF SumFunctionOnSet, FoldFunctionOnSet, MapThenFoldSet, IsSums, SumTurn, Chosen

LEMMA SumsExist ==
  ASSUME NEW f, NEW S, IsFiniteSet(S)
  PROVE  \E g : IsSums(f, S, g)
<1> DEFINE UpTo(g, n) == \A T \in SUBSET S : Cardinality(T) <= n => g[T] = SumTurn(f, g, T)
           Good(n) == \E g : UpTo(g, n)
<1>c. \A T \in SUBSET S : IsFiniteSet(T) /\ Cardinality(T) \in Nat
  BY FS_Subset, FS_CardinalityType
<1>1. Good(0)
  <2> DEFINE g == [T \in SUBSET S |-> 0]
  <2>1. ASSUME NEW T \in SUBSET S, Cardinality(T) <= 0
        PROVE  g[T] = SumTurn(f, g, T)
    <3>1. T = {}
      BY <2>1, <1>c, FS_EmptySet
    <3> QED
      BY <3>1 DEF SumTurn
  <2>2. UpTo(g, 0)
    BY <2>1
  <2> QED
    BY <2>2
<1>2. ASSUME NEW n \in Nat, Good(n)
      PROVE  Good(n + 1)
  <2>1. PICK g : UpTo(g, n)
    BY <1>2
  <2> DEFINE h == [T \in SUBSET S |-> SumTurn(f, g, T)]
  <2>2. ASSUME NEW T \in SUBSET S, Cardinality(T) <= n + 1
        PROVE  h[T] = SumTurn(f, h, T)
    <3>1. CASE T = {}
      BY <3>1 DEF SumTurn
    <3>2. CASE T # {}
      <4> DEFINE U == T \ {Chosen(T)}
      <4>1. Chosen(T) \in T
        BY <3>2 DEF Chosen
      <4>2. U \in SUBSET S /\ Cardinality(U) <= n
        BY <1>c, <2>2, <4>1, FS_RemoveElement
      <4>3. g[U] = h[U]
        BY <2>1, <4>2
      <4> QED
        BY <3>2, <4>3 DEF SumTurn
    <3> QED
      BY <3>1, <3>2
  <2>3. UpTo(h, n + 1)
    BY <2>2
  <2> QED
    BY <2>3
<1> HIDE DEF Good
<1>3. \A n \in Nat : Good(n)
  <2> DEFINE Bad == {n \in Nat : ~Good(n)}
  <2>1. ASSUME Bad # {} PROVE FALSE
    <3>1. PICK n \in Bad : \A m \in Bad : n <= m
      BY <2>1, SmallestNumber
    <3>2. n # 0
      BY <3>1, <1>1
    <3>3. n - 1 \in Nat /\ n - 1 \notin Bad
      BY <3>1, <3>2
    <3>4. Good((n - 1) + 1)
      BY <3>3, <1>2
    <3> QED
      BY <3>1, <3>4
  <2> QED
    BY <2>1
<1>4. PICK g : UpTo(g, Cardinality(S))
  BY <1>3, <1>c DEF Good
<1>5. \A T \in SUBSET S : g[T] = SumTurn(f, g, T)
  BY <1>4, <1>c, FS_Subset
<1> DEFINE h == [T \in SUBSET S |-> g[T]]
<1>6. ASSUME NEW T \in SUBSET S
      PROVE  SumTurn(f, h, T) = g[T]
  <2>1. T # {} => h[T \ {Chosen(T)}] = g[T \ {Chosen(T)}]
    OBVIOUS
  <2> QED
    BY <2>1, <1>5 DEF SumTurn
<1>7. IsSums(f, S, h)
  BY <1>6 DEF IsSums
<1> QED
  BY <1>7

\* The sums that SumFunction reads its result from.
SumsOf(f, S) == CHOOSE g : IsSums(f, S, g)

LEMMA SumTurns ==
  ASSUME NEW S, IsFiniteSet(S), NEW f, DOMAIN f = S
  PROVE  /\ SumFunction(f) = SumsOf(f, S)[S]
         /\ \A T \in SUBSET S : SumsOf(f, S)[T] = SumTurn(f, SumsOf(f, S), T)
<1>1. IsSums(f, S, SumsOf(f, S))
  BY SumsExist DEF SumsOf
<1>2. SumFunction(f) = SumsOf(f, S)[S]
  BY SumUnfolds DEF SumFunction, SumsOf
<1> HIDE DEF SumsOf
<1>3. \A T \in SUBSET S : SumsOf(f, S)[T] = SumTurn(f, SumsOf(f, S), T)
  BY <1>1 DEF IsSums
<1> QED
  BY <1>2, <1>3

\* What the fold does with a set, in terms of a smaller one.
FoldsTo(f, s, T) ==
  /\ T = {} => s[T] = 0
  /\ T # {} => /\ Chosen(T) \in T /\ T \ {Chosen(T)} # T
               /\ s[T] = f[Chosen(T)] + s[T \ {Chosen(T)}]

LEMMA SumsFold ==
  ASSUME NEW S, IsFiniteSet(S), NEW f, DOMAIN f = S
  PROVE  \A T \in SUBSET S : FoldsTo(f, SumsOf(f, S), T)
<1> DEFINE s == SumsOf(f, S)
<1>1. \A T \in SUBSET S : s[T] = SumTurn(f, s, T)
  BY SumTurns
<1> HIDE DEF s
<1>2. ASSUME NEW T \in SUBSET S
      PROVE  FoldsTo(f, s, T)
  <2>1. T # {} => Chosen(T) \in T
    BY DEF Chosen
  <2> QED
    BY <1>1, <2>1 DEF SumTurn, FoldsTo
<1> QED
  BY <1>2 DEF s

--------------------------------------------------------------------------------
(* IsSums.                                                                   *)

LEMMA SumIsInt ==
  ASSUME NEW S, IsFiniteSet(S), NEW f \in [S -> Int]
  PROVE  SumFunction(f) \in Int
<1> DEFINE s == SumsOf(f, S)
           B == {T \in SUBSET S : s[T] \notin Int}
<1>1. \A T \in SUBSET S : FoldsTo(f, s, T)
  BY SumsFold
<1>2. SumFunction(f) = s[S]
  BY SumTurns
<1> HIDE DEF s
<1>3. B \in SUBSET SUBSET S
  OBVIOUS
<1> HIDE DEF B
<1>4. ASSUME B # {} PROVE FALSE
  <2>1. PICK T \in B : T \in SUBSET S /\ \A U \in B : U \subseteq T => U = T
    BY <1>4, <1>3, SmallestSubset
  <2>2. T \in SUBSET S /\ FoldsTo(f, s, T)
    BY <1>1, <2>1
  <2>3. T # {} /\ T \ {Chosen(T)} \notin B /\ Chosen(T) \in S
    BY <2>1, <2>2 DEF FoldsTo, B
  <2>4. s[T] \in Int
    BY <2>2, <2>3 DEF FoldsTo, B
  <2> QED
    BY <2>1, <2>4 DEF B
<1>5. s[S] \in Int
  BY <1>4 DEF B
<1> QED
  BY <1>2, <1>5

\* A sum of nothing.
LEMMA SumIsZero ==
  ASSUME NEW S, IsFiniteSet(S), NEW f \in [S -> Int], \A x \in S : f[x] = 0
  PROVE  SumFunction(f) = 0
<1> DEFINE s == SumsOf(f, S)
           B == {T \in SUBSET S : s[T] # 0}
<1>1. \A T \in SUBSET S : FoldsTo(f, s, T)
  BY SumsFold
<1>2. SumFunction(f) = s[S]
  BY SumTurns
<1> HIDE DEF s
<1>3. B \in SUBSET SUBSET S
  OBVIOUS
<1> HIDE DEF B
<1>4. ASSUME B # {} PROVE FALSE
  <2>1. PICK T \in B : T \in SUBSET S /\ \A U \in B : U \subseteq T => U = T
    BY <1>4, <1>3, SmallestSubset
  <2>2. T \in SUBSET S /\ FoldsTo(f, s, T)
    BY <1>1, <2>1
  <2>3. T # {} /\ T \ {Chosen(T)} \notin B /\ Chosen(T) \in S
    BY <2>1, <2>2 DEF FoldsTo, B
  <2>4. s[T] = 0
    BY <2>2, <2>3 DEF FoldsTo, B
  <2> QED
    BY <2>1, <2>4 DEF B
<1>5. s[S] = 0
  BY <1>4 DEF B
<1> QED
  BY <1>2, <1>5

\* Two functions, the first nowhere above the second.
LEMMA SumIsMonotone ==
  ASSUME NEW S, IsFiniteSet(S), NEW f \in [S -> Int], NEW h \in [S -> Int],
         \A x \in S : f[x] <= h[x]
  PROVE  SumFunction(f) <= SumFunction(h)
<1> DEFINE s == SumsOf(f, S)
           t == SumsOf(h, S)
           B == {T \in SUBSET S : ~(s[T] \in Int /\ t[T] \in Int /\ s[T] <= t[T])}
<1>1. \A T \in SUBSET S : FoldsTo(f, s, T) /\ FoldsTo(h, t, T)
  BY SumsFold
<1>2. SumFunction(f) = s[S] /\ SumFunction(h) = t[S]
  BY SumTurns
<1> HIDE DEF s, t
<1>3. B \in SUBSET SUBSET S
  OBVIOUS
<1> HIDE DEF B
<1>4. ASSUME B # {} PROVE FALSE
  <2>1. PICK T \in B : T \in SUBSET S /\ \A U \in B : U \subseteq T => U = T
    BY <1>4, <1>3, SmallestSubset
  <2>2. T \in SUBSET S /\ FoldsTo(f, s, T) /\ FoldsTo(h, t, T)
    BY <1>1, <2>1
  <2>3. T # {} /\ T \ {Chosen(T)} \notin B /\ Chosen(T) \in S
    BY <2>1, <2>2 DEF FoldsTo, B
  <2> DEFINE x == Chosen(T)
  <2>4. /\ s[T] = f[x] + s[T \ {x}] /\ t[T] = h[x] + t[T \ {x}]
        /\ s[T \ {x}] \in Int /\ t[T \ {x}] \in Int /\ s[T \ {x}] <= t[T \ {x}]
        /\ f[x] \in Int /\ h[x] \in Int /\ f[x] <= h[x]
    BY <2>2, <2>3 DEF FoldsTo, B
  <2> HIDE DEF x
  <2>5. s[T] \in Int /\ t[T] \in Int /\ s[T] <= t[T]
    BY <2>4
  <2> QED
    BY <2>1, <2>5 DEF B
<1>5. s[S] <= t[S]
  BY <1>4 DEF B
<1> QED
  BY <1>2, <1>5

\* Two functions that differ at x only.
LEMMA SumChangesAt ==
  ASSUME NEW S, IsFiniteSet(S), NEW f \in [S -> Int], NEW h \in [S -> Int], NEW x \in S,
         \A y \in S \ {x} : h[y] = f[y]
  PROVE  SumFunction(h) = SumFunction(f) + (h[x] - f[x])
<1> DEFINE s == SumsOf(f, S)
           t == SumsOf(h, S)
           D(T) == IF x \in T THEN h[x] - f[x] ELSE 0
           B == {T \in SUBSET S : ~(s[T] \in Int /\ t[T] = s[T] + D(T))}
<1>1. \A T \in SUBSET S : FoldsTo(f, s, T) /\ FoldsTo(h, t, T)
  BY SumsFold
<1>2. SumFunction(f) = s[S] /\ SumFunction(h) = t[S]
  BY SumTurns
<1> HIDE DEF s, t
<1>3. B \in SUBSET SUBSET S
  OBVIOUS
<1> HIDE DEF B
<1>4. ASSUME B # {} PROVE FALSE
  <2>1. PICK T \in B : T \in SUBSET S /\ \A U \in B : U \subseteq T => U = T
    BY <1>4, <1>3, SmallestSubset
  <2>2. T \in SUBSET S /\ FoldsTo(f, s, T) /\ FoldsTo(h, t, T)
    BY <1>1, <2>1
  <2>3. T # {} /\ T \ {Chosen(T)} \notin B /\ Chosen(T) \in S
    BY <2>1, <2>2 DEF FoldsTo, B
  <2> DEFINE y == Chosen(T)
             U == T \ {y}
  <2>4. /\ s[T] = f[y] + s[U] /\ t[T] = h[y] + t[U]
        /\ s[U] \in Int /\ t[U] = s[U] + D(U)
        /\ f[x] \in Int /\ h[x] \in Int /\ f[y] \in Int /\ h[y] \in Int
    BY <2>2, <2>3 DEF FoldsTo, B
  <2>5. D(T) = D(U) + (h[y] - f[y]) /\ D(U) \in Int
    <3>1. CASE y = x
      BY <2>2, <2>3, <2>4, <3>1 DEF FoldsTo
    <3>2. CASE y # x
      <4>1. h[y] = f[y] /\ (x \in T <=> x \in U)
        BY <2>3, <3>2
      <4> QED
        BY <2>4, <4>1
    <3> QED
      BY <3>1, <3>2
  <2> HIDE DEF y, U, D
  <2>6. s[T] \in Int /\ t[T] = s[T] + D(T)
    BY <2>4, <2>5
  <2> QED
    BY <2>1, <2>6 DEF B
<1>5. t[S] = s[S] + (h[x] - f[x])
  BY <1>4 DEF B
<1> QED
  BY <1>2, <1>5

\* Of counts.
LEMMA SumIsNat ==
  ASSUME NEW S, IsFiniteSet(S), NEW f \in [S -> Nat]
  PROVE  SumFunction(f) \in Nat
<1> DEFINE z == [x \in S |-> 0]
<1>1. z \in [S -> Int] /\ f \in [S -> Int] /\ \A x \in S : z[x] = 0
  OBVIOUS
<1>2. \A x \in S : z[x] <= f[x]
  OBVIOUS
<1> HIDE DEF z
<1>3. SumFunction(z) = 0 /\ SumFunction(z) <= SumFunction(f) /\ SumFunction(f) \in Int
  BY <1>1, <1>2, SumIsZero, SumIsMonotone, SumIsInt
<1> QED
  BY <1>3

--------------------------------------------------------------------------------
(* The least and the greatest of a set.                                    *)

LEMMA MinIsLeast ==
  ASSUME NEW N \in SUBSET Nat, N # {}
  PROVE  Min(N) \in N /\ \A n \in N : Min(N) <= n
BY SmallestNumber DEF Min

LEMMA MinIs ==
  ASSUME NEW N \in SUBSET Nat, NEW m \in N, \A n \in N : m <= n
  PROVE  Min(N) = m
<1>1. Min(N) \in Nat /\ m \in Nat /\ m <= Min(N) /\ Min(N) <= m
  BY MinIsLeast
<1> QED
  BY <1>1

LEMMA MaxIs ==
  ASSUME NEW N \in SUBSET Nat, NEW m \in N, \A n \in N : n <= m
  PROVE  Max(N) = m
<1>1. Max(N) \in N /\ Max(N) <= m /\ m <= Max(N)
  BY DEF Max
<1>2. Max(N) \in Nat /\ m \in Nat
  BY <1>1
<1> QED
  BY <1>1, <1>2

LEMMA GreatestNumber ==
  ASSUME NEW b \in Nat, NEW N \in SUBSET (0 .. b), N # {}
  PROVE  \E m \in N : \A n \in N : n <= m
<1> DEFINE R == {b - n : n \in N}
<1>1. R \in SUBSET Nat /\ R # {}
  <2>1. \A n \in N : b - n \in Nat
    OBVIOUS
  <2>2. \A r \in R : r \in Nat
    BY <2>1
  <2> QED
    BY <2>2
<1>2. PICK r \in R : \A q \in R : r <= q
  BY <1>1, SmallestNumber
<1>3. PICK m \in N : r = b - m
  BY <1>2
<1>4. ASSUME NEW n \in N PROVE n <= m
  <2>1. r <= b - n
    BY <1>2
  <2> QED
    BY <1>3, <2>1
<1> QED
  BY <1>4

--------------------------------------------------------------------------------
(* Remainders.                                                             *)

\* Division by a positive number.
LEMMA Division ==
  ASSUME NEW a \in Int, NEW m \in Nat \ {0}
  PROVE  /\ a = m * (a \div m) + (a % m)
         /\ a \div m \in Int /\ a % m \in 0 .. m - 1
OBVIOUS

LEMMA AtLeast ==
  ASSUME NEW m \in Nat \ {0}, NEW d \in Int, d >= 1
  PROVE  d * m >= m /\ m * d >= m
OBVIOUS

\* A number has one remainder.
LEMMA Remainder ==
  ASSUME NEW a \in Int, NEW m \in Nat \ {0}, NEW k \in Int, NEW r \in 0 .. m - 1, a = r + k * m
  PROVE  a % m = r
<1> DEFINE q == a \div m
           s == a % m
<1>1. a = m * q + s /\ q \in Int /\ s \in 0 .. m - 1
  BY Division
<1> HIDE DEF q, s
<1>2. s - r = (k - q) * m
  BY <1>1
<1>3. CASE k - q >= 1
  <2>1. (k - q) * m >= m
    BY <1>1, <1>3, AtLeast
  <2> QED
    BY <1>1, <1>2, <2>1
<1>4. CASE q - k >= 1
  <2>1. (q - k) * m >= m
    BY <1>1, <1>4, AtLeast
  <2>2. (k - q) * m = 0 - (q - k) * m
    BY <1>1
  <2> QED
    BY <1>1, <1>2, <2>1, <2>2
<1>5. CASE k = q
  <2>1. s - r = 0
    BY <1>1, <1>2, <1>5
  <2> QED
    BY <1>1, <2>1 DEF s
<1> QED
  BY <1>1, <1>3, <1>4, <1>5

\* Full turns leave the remainder.
LEMMA Turns ==
  ASSUME NEW a \in Int, NEW m \in Nat \ {0}, NEW k \in Int
  PROVE  (a + k * m) % m = a % m
<1>1. a = m * (a \div m) + (a % m) /\ a \div m \in Int /\ a % m \in 0 .. m - 1
  BY Division
<1> DEFINE q == a \div m
           s == a % m
<1> HIDE DEF q, s
<1>2. a + k * m = s + (q + k) * m /\ q + k \in Int /\ s \in 0 .. m - 1
  BY <1>1 DEF q, s
<1> DEFINE b == a + k * m
           j == q + k
<1>3. b \in Int /\ j \in Int /\ s \in 0 .. m - 1 /\ b = s + j * m
  BY <1>2
<1> HIDE DEF b, j
<1>4. b % m = s
  BY <1>3, Remainder
<1> QED
  BY <1>4 DEF s, b

\* A sum may be reduced before as well as after an addition.
LEMMA SameRemainder ==
  ASSUME NEW a \in Int, NEW b \in Int, NEW m \in Nat \ {0}
  PROVE  ((a % m) + b) % m = (a + b) % m
<1>1. a = m * (a \div m) + (a % m) /\ a \div m \in Int /\ a % m \in 0 .. m - 1
  BY Division
<1> DEFINE q == a \div m
           s == a % m
<1> HIDE DEF q, s
<1>2. a + b = (s + b) + q * m /\ q \in Int /\ s + b \in Int
  BY <1>1 DEF q, s
<1>3. ((s + b) + q * m) % m = (s + b) % m
  BY <1>2, Turns
<1> QED
  BY <1>2, <1>3 DEF s
================================================================================
