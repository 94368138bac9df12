---------------------------- MODULE SharedLemmas ----------------------------
(***************************************************************************)
(* Facts about natural numbers, lists and finite sums that the proofs      *)
(* about the components share.  The induction theorems of the library take *)
(* a predicate; here the predicate is a set.                               *)
(***************************************************************************)
EXTENDS Integers, SequencesExt, Functions, FiniteSetTheorems, SequenceTheorems,
        WellFoundedInduction, TLAPS

LEMMA LessIsWellFounded ==
  \E R : IsWellFoundedOn(R, Nat) /\ \A x, y \in Nat : <<x, y>> \in R <=> x < y
<1>1. \A x, y \in Nat : <<x, y>> \in OpToRel(<, Nat) <=> x < y
  BY DEF OpToRel
<1>2. QED
  BY <1>1, NatLessThanWellFounded

(* A set of naturals has a least one.                                      *)
LEMMA LeastNatural ==
  ASSUME NEW T \in SUBSET Nat, T # {}
  PROVE  \E t \in T : \A y \in T : t <= y
<1>1. PICK R : /\ IsWellFoundedOn(R, Nat)
              /\ \A x, y \in Nat : <<x, y>> \in R <=> x < y
  BY LessIsWellFounded
<1>2. PICK t \in T : \A y \in T : ~ (<<y, t>> \in R)
  <2>1. IsWellFoundedOn(R, Nat)
    BY <1>1
  <2>2. QED
    BY <2>1, WFMin, Zenon
<1>3. ASSUME NEW y \in T PROVE t <= y
  <2>1. y \in Nat /\ t \in Nat
    OBVIOUS
  <2>2. ~ (y < t)
    BY <1>1, <1>2, <2>1, Zenon
  <2>3. QED
    BY <2>1, <2>2
<1>4. QED
  BY <1>3

(* Induction, for a set of naturals.                                       *)
LEMMA SetInduction ==
  ASSUME NEW S, 0 \in S, \A n \in Nat : n \in S => n + 1 \in S
  PROVE  Nat \subseteq S
<1> SUFFICES ASSUME Nat \ S # {} PROVE FALSE
  OBVIOUS
<1>1. PICK t \in Nat \ S : \A y \in Nat \ S : t <= y
  BY LeastNatural
<1>2. t # 0 /\ t - 1 \in Nat
  OBVIOUS
<1>3. t - 1 \in S
  BY <1>1, <1>2
<1>4. t - 1 + 1 = t
  OBVIOUS
<1> QED BY <1>2, <1>3, <1>4

(* A finite sequence of integers is bounded.                               *)
LEMMA SequenceBounded ==
  ASSUME NEW n \in Nat, NEW f \in [1..n -> Int]
  PROVE  \E b \in Nat : \A i \in 1..n : f[i] <= b
<1>1. PICK S : S = {m \in Nat : \E b \in Nat : \A i \in 1..n : i <= m => f[i] <= b}
  OBVIOUS
<1>2. 0 \in S
  BY <1>1
<1>3. ASSUME NEW m \in Nat, m \in S PROVE m + 1 \in S
  <2>1. PICK b \in Nat : \A i \in 1..n : i <= m => f[i] <= b
    BY <1>1, <1>3
  <2>2. CASE m + 1 \notin 1..n
    BY <1>1, <2>1, <2>2
  <2>3. CASE m + 1 \in 1..n
    <3>1. PICK c \in Nat : c >= b /\ c >= f[m + 1]
      <4>1. f[m + 1] \in Int
        BY <2>3
      <4>2. CASE f[m + 1] <= b
        BY <4>1, <4>2
      <4>3. CASE f[m + 1] > b
        BY <4>1, <4>3
      <4> QED BY <4>1, <4>2, <4>3
    <3>2. ASSUME NEW i \in 1..n, i <= m + 1 PROVE f[i] <= c
      <4>1. CASE i = m + 1
        BY <3>1, <4>1
      <4>2. CASE i <= m
        BY <2>1, <3>1, <4>2
      <4> QED BY <3>2, <4>1, <4>2
    <3> QED BY <1>1, <3>2
  <2> QED BY <2>2, <2>3
<1>4. n \in S
  BY <1>2, <1>3, SetInduction
<1>5. PICK b \in Nat : \A i \in 1..n : i <= n => f[i] <= b
  BY <1>1, <1>4
<1> QED BY <1>5

(* A set of integers with an upper bound has a greatest one.               *)
LEMMA GreatestInteger ==
  ASSUME NEW S \in SUBSET Int, S # {}, NEW b \in Int, \A x \in S : x <= b
  PROVE  \E m \in S : \A x \in S : x <= m
<1>1. PICK T : T = {b - x : x \in S}
  OBVIOUS
<1>2. T \in SUBSET Nat /\ T # {}
  <2>1. \A x \in S : b - x \in Nat
    OBVIOUS
  <2> QED BY <1>1, <2>1
<1>3. PICK t \in T : \A y \in T : t <= y
  BY <1>2, LeastNatural
<1>4. PICK m \in S : t = b - m
  BY <1>1
<1>5. ASSUME NEW x \in S PROVE x <= m
  <2>1. t <= b - x
    BY <1>1, <1>3
  <2> QED BY <1>4, <2>1
<1> QED BY <1>5

-----------------------------------------------------------------------------
(* SumFunctionOnSet: one turn of its recursion.                            *)
SumTurn(f, sum, s) ==
  IF s = {} THEN 0 ELSE LET x == CHOOSE x \in s : TRUE IN f[x] + sum[s \ {x}]
SumsUp(f, S, sum) == sum = [s \in SUBSET S |-> SumTurn(f, sum, s)]

LEMMA OneLess ==
  ASSUME NEW s, IsFiniteSet(s), NEW x \in s
  PROVE  /\ IsFiniteSet(s \ {x}) /\ Cardinality(s) \in Nat \ {0}
         /\ Cardinality(s \ {x}) = Cardinality(s) - 1
BY FS_RemoveElement, FS_CardinalityType, FS_EmptySet

LEMMA SumDefined ==
  ASSUME NEW S, IsFiniteSet(S), NEW f
  PROVE  \E sum : SumsUp(f, S, sum)
<1> DEFINE Upto(n) == {s \in SUBSET S : Cardinality(s) <= n}
<1>0. \A s \in SUBSET S : IsFiniteSet(s) /\ Cardinality(s) \in Nat
                            /\ Cardinality(s) <= Cardinality(S)
  BY FS_Subset, FS_CardinalityType
<1>1. PICK G : G = {n \in Nat : \E sum : sum = [s \in Upto(n) |-> SumTurn(f, sum, s)]}
  OBVIOUS
<1>2. 0 \in G
  <2> DEFINE g == [s \in Upto(0) |-> 0]
  <2>1. ASSUME NEW s \in Upto(0) PROVE g[s] = SumTurn(f, g, s)
    <3>1. s = {}
      BY <1>0, FS_EmptySet
    <3> QED BY <3>1 DEF SumTurn
  <2>2. g = [s \in Upto(0) |-> SumTurn(f, g, s)]
    BY <2>1
  <2> HIDE DEF g
  <2>3. \E sum : sum = [s \in Upto(0) |-> SumTurn(f, sum, s)]
    BY <2>2
  <2> QED BY <1>1, <2>3
<1>3. ASSUME NEW n \in Nat, n \in G PROVE n + 1 \in G
  <2>1. PICK h : h = [s \in Upto(n) |-> SumTurn(f, h, s)]
    BY <1>1, <1>3
  <2> DEFINE g == [s \in Upto(n + 1) |-> SumTurn(f, h, s)]
  <2>2. Upto(n) \subseteq Upto(n + 1)
    BY <1>0
  <2>3. \A s \in Upto(n) : g[s] = h[s]
    BY <2>1, <2>2
  <2>4. ASSUME NEW s \in Upto(n + 1) PROVE g[s] = SumTurn(f, g, s)
    <3>1. ASSUME s # {} PROVE s \ {CHOOSE x \in s : TRUE} \in Upto(n)
      <4>1. PICK y : y = CHOOSE x \in s : TRUE
        OBVIOUS
      <4>2. y \in s
        BY <3>1, <4>1
      <4>3. Cardinality(s \ {y}) = Cardinality(s) - 1 /\ Cardinality(s) \in Nat
        BY <1>0, <4>2, OneLess
      <4> QED BY <4>1, <4>2, <4>3
    <3>2. SumTurn(f, h, s) = SumTurn(f, g, s)
      <4> HIDE DEF g, Upto
      <4> QED BY <2>3, <3>1 DEF SumTurn
    <3> QED BY <3>2
  <2>5. g = [s \in Upto(n + 1) |-> SumTurn(f, g, s)]
    BY <2>4
  <2> HIDE DEF g
  <2>6. \E sum : sum = [s \in Upto(n + 1) |-> SumTurn(f, sum, s)]
    BY <2>5
  <2>7. n + 1 \in Nat
    OBVIOUS
  <2> QED BY <1>1, <2>6, <2>7, Zenon
<1>4. Cardinality(S) \in G
  BY <1>0, <1>2, <1>3, SetInduction
<1>5. Upto(Cardinality(S)) = SUBSET S
  BY <1>0
<1> HIDE DEF Upto
<1> QED BY <1>1, <1>4, <1>5 DEF SumsUp

LEMMA SumTakesOne ==
  ASSUME NEW S, NEW f, NEW sum, SumsUp(f, S, sum)
  PROVE  /\ sum[{}] = 0
         /\ \A s \in SUBSET S : s # {} =>
              \E x \in s : x = (CHOOSE y \in s : TRUE) /\ sum[s] = f[x] + sum[s \ {x}]
<1>1. \A s \in SUBSET S : sum[s] = SumTurn(f, sum, s)
  BY DEF SumsUp
<1>2. sum[{}] = 0
  BY <1>1 DEF SumTurn
<1>3. ASSUME NEW s \in SUBSET S, s # {}
      PROVE  \E x \in s : x = (CHOOSE y \in s : TRUE) /\ sum[s] = f[x] + sum[s \ {x}]
  <2>1. PICK x : x = CHOOSE y \in s : TRUE
    OBVIOUS
  <2>2. x \in s
    BY <1>3, <2>1
  <2>3. sum[s] = f[x] + sum[s \ {x}]
    BY <1>1, <1>3, <2>1, Zenon DEF SumTurn
  <2> QED BY <2>1, <2>2, <2>3
<1> QED BY <1>2, <1>3

LEMMA SumIsSum ==
  ASSUME NEW S, IsFiniteSet(S), NEW f
  PROVE  \E sum : SumsUp(f, S, sum) /\ SumFunctionOnSet(f, S) = sum[S]
<1> DEFINE iter == CHOOSE sum : sum = [s \in SUBSET S |->
             IF s = {} THEN 0
             ELSE LET x == CHOOSE x \in s : TRUE IN f[x] + sum[s \ {x}]]
<1>1. SumFunctionOnSet(f, S) = iter[S]
  BY DEF SumFunctionOnSet, FoldFunctionOnSet, MapThenFoldSet
<1>2. SumsUp(f, S, iter)
  <2>1. \E sum : sum = [s \in SUBSET S |->
             IF s = {} THEN 0
             ELSE LET x == CHOOSE x \in s : TRUE IN f[x] + sum[s \ {x}]]
    <3>1. \E sum : SumsUp(f, S, sum)
      BY SumDefined
    <3> QED BY <3>1, Zenon DEF SumsUp, SumTurn
  <2> QED BY <2>1, Zenon DEF SumsUp, SumTurn
<1> HIDE DEF iter
<1> QED BY <1>1, <1>2, Zenon

(* The sums of a set's subsets do not depend on the set, nor on the values *)
(* outside it.                                                             *)
LEMMA SumsAgree ==
  ASSUME NEW S, IsFiniteSet(S), NEW T, S \subseteq T, NEW f, NEW g, \A x \in S : f[x] = g[x],
         NEW sum, SumsUp(f, S, sum), NEW total, SumsUp(g, T, total)
  PROVE  \A s \in SUBSET S : sum[s] = total[s]
<1>1. PICK G : G = {n \in Nat : \A s \in SUBSET S : Cardinality(s) = n => sum[s] = total[s]}
  OBVIOUS
<1>0. \A s \in SUBSET S : IsFiniteSet(s) /\ Cardinality(s) \in Nat /\ s \in SUBSET T
  BY FS_Subset, FS_CardinalityType
<1>2. 0 \in G
  <2>1. ASSUME NEW s \in SUBSET S, Cardinality(s) = 0 PROVE sum[s] = total[s]
    <3>1. s = {}
      BY <1>0, <2>1, FS_EmptySet
    <3> QED BY <3>1, SumTakesOne
  <2> QED BY <1>1, <2>1
<1>3. ASSUME NEW n \in Nat, n \in G PROVE n + 1 \in G
  <2>1. ASSUME NEW s \in SUBSET S, Cardinality(s) = n + 1 PROVE sum[s] = total[s]
    <3>1. s # {}
      BY <2>1, FS_EmptySet
    <3>2. PICK x \in s : x = (CHOOSE y \in s : TRUE) /\ sum[s] = f[x] + sum[s \ {x}]
      BY <3>1, SumTakesOne
    <3>3. total[s] = g[x] + total[s \ {x}]
      <4>1. s \in SUBSET T
        OBVIOUS
      <4>2. PICK y \in s : y = (CHOOSE z \in s : TRUE) /\ total[s] = g[y] + total[s \ {y}]
        BY <3>1, <4>1, SumTakesOne
      <4> QED BY <3>2, <4>2
    <3>4. Cardinality(s \ {x}) = n /\ s \ {x} \in SUBSET S
      BY <1>0, <2>1, OneLess
    <3>5. sum[s \ {x}] = total[s \ {x}]
      BY <1>1, <1>3, <3>4
    <3>6. f[x] = g[x]
      OBVIOUS
    <3> QED BY <3>2, <3>3, <3>5, <3>6
  <2>2. n + 1 \in Nat
    OBVIOUS
  <2> QED BY <1>1, <2>1, <2>2
<1>4. Nat \subseteq G
  BY <1>2, <1>3, SetInduction
<1> QED BY <1>0, <1>1, <1>4

LEMMA SumsStayIn ==
  ASSUME NEW V, 0 \in V, \A a, b \in V : a + b \in V,
         NEW S, IsFiniteSet(S), NEW f, \A x \in S : f[x] \in V, NEW sum, SumsUp(f, S, sum)
  PROVE  \A s \in SUBSET S : sum[s] \in V
<1>1. PICK G : G = {n \in Nat : \A s \in SUBSET S : Cardinality(s) = n => sum[s] \in V}
  OBVIOUS
<1>0. \A s \in SUBSET S : IsFiniteSet(s) /\ Cardinality(s) \in Nat
  BY FS_Subset, FS_CardinalityType
<1>2. 0 \in G
  <2>1. ASSUME NEW s \in SUBSET S, Cardinality(s) = 0 PROVE sum[s] \in V
    <3>1. s = {}
      BY <1>0, <2>1, FS_EmptySet
    <3> QED BY <3>1, SumTakesOne
  <2> QED BY <1>1, <2>1
<1>3. ASSUME NEW n \in Nat, n \in G PROVE n + 1 \in G
  <2>1. ASSUME NEW s \in SUBSET S, Cardinality(s) = n + 1 PROVE sum[s] \in V
    <3>1. s # {}
      BY <2>1, FS_EmptySet
    <3>2. PICK x \in s : sum[s] = f[x] + sum[s \ {x}]
      BY <3>1, SumTakesOne
    <3>3. Cardinality(s \ {x}) = n /\ s \ {x} \in SUBSET S
      BY <1>0, <2>1, OneLess
    <3>4. sum[s \ {x}] \in V /\ f[x] \in V
      BY <1>1, <1>3, <3>3
    <3> QED BY <3>2, <3>4
  <2>2. n + 1 \in Nat
    OBVIOUS
  <2> QED BY <1>1, <2>1, <2>2
<1>4. Nat \subseteq G
  BY <1>2, <1>3, SetInduction
<1> QED BY <1>0, <1>1, <1>4

LEMMA SumsAreNumbers ==
  ASSUME NEW S, IsFiniteSet(S), NEW f, NEW sum, SumsUp(f, S, sum)
  PROVE  /\ (\A x \in S : f[x] \in Int) => \A s \in SUBSET S : sum[s] \in Int
         /\ (\A x \in S : f[x] \in Nat) => \A s \in SUBSET S : sum[s] \in Nat
<1>1. 0 \in Int /\ \A a, b \in Int : a + b \in Int
  OBVIOUS
<1>2. 0 \in Nat /\ \A a, b \in Nat : a + b \in Nat
  OBVIOUS
<1> QED BY <1>1, <1>2, SumsStayIn

(* Any element can be taken first.                                         *)
TakesAny(f, S, sum) == \A s \in SUBSET S : \A x \in s : sum[s] = f[x] + sum[s \ {x}]

LEMMA SumTakesAny ==
  ASSUME NEW S, IsFiniteSet(S), NEW f, \A x \in S : f[x] \in Int, NEW sum, SumsUp(f, S, sum)
  PROVE  TakesAny(f, S, sum)
<1>1. PICK G : G = {n \in Nat : \A s \in SUBSET S : Cardinality(s) = n =>
                      \A x \in s : sum[s] = f[x] + sum[s \ {x}]}
  OBVIOUS
<1>0. \A s \in SUBSET S : IsFiniteSet(s) /\ Cardinality(s) \in Nat
  BY FS_Subset, FS_CardinalityType
<1>2. 0 \in G
  <2>1. ASSUME NEW s \in SUBSET S, Cardinality(s) = 0 PROVE s = {}
    BY <1>0, <2>1, FS_EmptySet
  <2> QED BY <1>1, <2>1
<1>3. ASSUME NEW n \in Nat, n \in G PROVE n + 1 \in G
  <2>1. ASSUME NEW s \in SUBSET S, Cardinality(s) = n + 1, NEW x \in s
        PROVE  sum[s] = f[x] + sum[s \ {x}]
    <3>2. PICK y \in s : sum[s] = f[y] + sum[s \ {y}]
      BY SumTakesOne
    <3>3. /\ Cardinality(s \ {x}) = n /\ s \ {x} \in SUBSET S
          /\ Cardinality(s \ {y}) = n /\ s \ {y} \in SUBSET S
      BY <1>0, <2>1, OneLess
    <3>4. CASE x # y
      <4>1. sum[s \ {y}] = f[x] + sum[(s \ {y}) \ {x}]
        BY <1>1, <1>3, <3>3, <3>4
      <4>2. sum[s \ {x}] = f[y] + sum[(s \ {x}) \ {y}]
        BY <1>1, <1>3, <3>3, <3>4
      <4>3. (s \ {y}) \ {x} = (s \ {x}) \ {y} /\ (s \ {x}) \ {y} \in SUBSET S
        OBVIOUS
      <4>4. sum[(s \ {x}) \ {y}] \in Int /\ f[x] \in Int /\ f[y] \in Int
        BY <4>3, SumsAreNumbers
      <4>p. PICK rest \in Int : rest = sum[(s \ {x}) \ {y}]
        BY <4>4
      <4>5. sum[s] = f[y] + (f[x] + rest) /\ sum[s \ {x}] = f[y] + rest
        BY <3>2, <4>1, <4>2, <4>3, <4>p
      <4> QED BY <4>4, <4>5
    <3> QED BY <3>2, <3>4
  <2>2. n + 1 \in Nat
    OBVIOUS
  <2> QED BY <1>1, <2>1, <2>2
<1>4. Nat \subseteq G
  BY <1>2, <1>3, SetInduction
<1> QED BY <1>0, <1>1, <1>4 DEF TakesAny

(* What the components' proofs use.                                        *)
LEMMA SumEmpty == ASSUME NEW f PROVE SumFunctionOnSet(f, {}) = 0
<1>1. PICK sum : SumsUp(f, {}, sum) /\ SumFunctionOnSet(f, {}) = sum[{}]
  BY SumIsSum, FS_EmptySet
<1> QED BY <1>1, SumTakesOne

LEMMA SumTakenApart ==
  ASSUME NEW S, IsFiniteSet(S), NEW f, \A x \in S : f[x] \in Int
  PROVE  \E sum : /\ SumsUp(f, S, sum) /\ SumFunctionOnSet(f, S) = sum[S] /\ sum[S] \in Int
                  /\ sum[{}] = 0
                  /\ TakesAny(f, S, sum)
<1>1. PICK sum : SumsUp(f, S, sum) /\ SumFunctionOnSet(f, S) = sum[S]
  BY SumIsSum
<1>2. sum[S] \in Int /\ sum[{}] = 0
  BY <1>1, SumsAreNumbers, SumTakesOne
<1>3. TakesAny(f, S, sum)
  BY <1>1, SumTakesAny
<1> QED BY <1>1, <1>2, <1>3

LEMMA SumRemove ==
  ASSUME NEW S, IsFiniteSet(S), NEW f, \A x \in S : f[x] \in Int
  PROVE  /\ SumFunctionOnSet(f, S) \in Int
         /\ \A x \in S : SumFunctionOnSet(f, S) = f[x] + SumFunctionOnSet(f, S \ {x})
<1>1. PICK sum : /\ SumsUp(f, S, sum) /\ SumFunctionOnSet(f, S) = sum[S] /\ sum[S] \in Int
                 /\ TakesAny(f, S, sum)
  BY SumTakenApart
<1>2. ASSUME NEW x \in S PROVE SumFunctionOnSet(f, S \ {x}) = sum[S \ {x}]
  <2>1. IsFiniteSet(S \ {x}) /\ S \ {x} \subseteq S
    BY OneLess
  <2>2. PICK rest : SumsUp(f, S \ {x}, rest) /\ SumFunctionOnSet(f, S \ {x}) = rest[S \ {x}]
    BY <2>1, SumIsSum
  <2>3. rest[S \ {x}] = sum[S \ {x}]
    BY <1>1, <2>1, <2>2, SumsAgree
  <2> QED BY <2>2, <2>3
<1> QED BY <1>1, <1>2 DEF TakesAny

LEMMA SumNatural ==
  ASSUME NEW S, IsFiniteSet(S), NEW f, \A x \in S : f[x] \in Nat
  PROVE  SumFunctionOnSet(f, S) \in Nat
<1>1. PICK sum : SumsUp(f, S, sum) /\ SumFunctionOnSet(f, S) = sum[S]
  BY SumIsSum
<1> QED BY <1>1, SumsAreNumbers

LEMMA SumSame ==
  ASSUME NEW S, IsFiniteSet(S), NEW f, NEW g, \A x \in S : f[x] = g[x]
  PROVE  SumFunctionOnSet(f, S) = SumFunctionOnSet(g, S)
<1>1. PICK sum : SumsUp(f, S, sum) /\ SumFunctionOnSet(f, S) = sum[S]
  BY SumIsSum
<1>2. PICK total : SumsUp(g, S, total) /\ SumFunctionOnSet(g, S) = total[S]
  BY SumIsSum
<1>3. S \subseteq S
  OBVIOUS
<1> QED BY <1>1, <1>2, <1>3, SumsAgree


(* The same numbers under other indices.                                   *)
Reindexes(h, f, S, g, T) ==
  /\ h \in [S -> T] /\ \A y \in T : \E x \in S : h[x] = y
  /\ \A x, y \in S : h[x] = h[y] => x = y
  /\ \A x \in S : f[x] = g[h[x]] /\ f[x] \in Int

LEMMA SumReindexed ==
  ASSUME NEW S, IsFiniteSet(S), NEW T, NEW f, NEW g, NEW h, Reindexes(h, f, S, g, T)
  PROVE  SumFunctionOnSet(f, S) = SumFunctionOnSet(g, T)
<1>h. /\ h \in [S -> T] /\ \A y \in T : \E x \in S : h[x] = y
      /\ \A x, y \in S : h[x] = h[y] => x = y
      /\ \A x \in S : f[x] = g[h[x]] /\ f[x] \in Int
  BY DEF Reindexes
<1> DEFINE Image(s) == {h[x] : x \in s}
<1>0. \A s \in SUBSET S : IsFiniteSet(s) /\ Cardinality(s) \in Nat
  BY FS_Subset, FS_CardinalityType
<1>i. \A s \in SUBSET S : IsFiniteSet(Image(s)) /\ Image(s) \in SUBSET T
  <2>1. SUFFICES ASSUME NEW s \in SUBSET S PROVE IsFiniteSet(Image(s))
    BY <1>h
  <2>2. IsFiniteSet(s)
    BY <1>0
  <2>3. PICK k : k = [x \in s |-> h[x]]
    OBVIOUS
  <2>4. k \in Surjection(s, Image(s))
    BY <2>3 DEF Surjection
  <2> QED BY <2>2, <2>4, FS_Surjection
<1>f. \A x \in S : f[x] \in Int
  BY <1>h
<1>t. T = Image(S) /\ IsFiniteSet(T) /\ \A y \in T : g[y] \in Int
  <2>1. T = Image(S)
    BY <1>h
  <2>2. IsFiniteSet(T)
    BY <1>i, <2>1
  <2> QED BY <1>h, <2>1, <2>2
<1>1. PICK sum : /\ SumFunctionOnSet(f, S) = sum[S] /\ sum[{}] = 0
                 /\ TakesAny(f, S, sum)
  <2> HIDE DEF Image
  <2> QED BY <1>f, SumTakenApart
<1>2. PICK total : /\ SumFunctionOnSet(g, T) = total[T] /\ total[{}] = 0
                   /\ TakesAny(g, T, total)
  <2> HIDE DEF Image
  <2> QED BY <1>t, SumTakenApart
<1>3. PICK G : G = {n \in Nat : \A s \in SUBSET S : Cardinality(s) = n =>
                      sum[s] = total[Image(s)]}
  OBVIOUS
<1>4. 0 \in G
  <2>1. ASSUME NEW s \in SUBSET S, Cardinality(s) = 0 PROVE sum[s] = total[Image(s)]
    <3>1. s = {} /\ Image(s) = {}
      BY <1>0, <2>1, FS_EmptySet
    <3> QED BY <1>1, <1>2, <3>1
  <2> QED BY <1>3, <2>1
<1>5. ASSUME NEW n \in Nat, n \in G PROVE n + 1 \in G
  <2>1. ASSUME NEW s \in SUBSET S, Cardinality(s) = n + 1 PROVE sum[s] = total[Image(s)]
    <3>1. PICK x \in s : TRUE
      BY <2>1, FS_EmptySet
    <3>2. sum[s] = f[x] + sum[s \ {x}]
      BY <1>1 DEF TakesAny
    <3>3. Image(s) \in SUBSET T /\ h[x] \in Image(s)
      BY <1>h
    <3>4. total[Image(s)] = g[h[x]] + total[Image(s) \ {h[x]}]
      <4> HIDE DEF Image
      <4> QED BY <1>2, <3>3 DEF TakesAny
    <3>5. Image(s) \ {h[x]} = Image(s \ {x})
      BY <1>h
    <3>6. Cardinality(s \ {x}) = n /\ s \ {x} \in SUBSET S
      <4>1. Cardinality(s \ {x}) = Cardinality(s) - 1
        BY <1>0, OneLess
      <4> QED BY <2>1, <4>1
    <3>7. sum[s \ {x}] = total[Image(s \ {x})]
      BY <1>3, <1>5, <3>6
    <3> HIDE DEF Image
    <3> QED BY <1>h, <3>2, <3>4, <3>5, <3>7
  <2>2. n + 1 \in Nat
    OBVIOUS
  <2> HIDE DEF Image
  <2> QED BY <1>3, <2>1, <2>2
<1>6. Nat \subseteq G
  BY <1>4, <1>5, SetInduction
<1>7. sum[S] = total[Image(S)]
  BY <1>0, <1>3, <1>6
<1> QED BY <1>1, <1>2, <1>7, <1>t

-----------------------------------------------------------------------------
(* Lists.                                                                  *)
(* What is left of a list when the element at place i is taken out.        *)
LEMMA RemoveAtPlaces ==
  ASSUME NEW S, NEW s \in Seq(S), NEW i \in DOMAIN s
  PROVE  /\ RemoveAt(s, i) \in Seq(S) /\ Len(s) \in Nat /\ i \in 1..Len(s)
         /\ DOMAIN s = 1..Len(s) /\ DOMAIN RemoveAt(s, i) = 1..(Len(s) - 1)
         /\ \A j \in 1..(Len(s) - 1) : RemoveAt(s, i)[j] = IF j < i THEN s[j] ELSE s[j + 1]
<1> DEFINE head == SubSeq(s, 1, i - 1)
           tail == SubSeq(s, i + 1, Len(s))
<1>1. i \in 1..Len(s) /\ Len(s) \in Nat /\ DOMAIN s = 1..Len(s)
  OBVIOUS
<1>2. head \in Seq(S) /\ Len(head) = i - 1 /\ \A j \in 1..(i - 1) : head[j] = s[j]
  BY <1>1
<1>3. tail \in Seq(S) /\ Len(tail) = Len(s) - i /\ \A j \in 1..(Len(s) - i) : tail[j] = s[i + j]
  BY <1>1
<1>h. RemoveAt(s, i) = head \o tail
  BY DEF RemoveAt
<1> HIDE DEF head, tail
<1>4. /\ head \o tail \in Seq(S) /\ Len(head \o tail) = Len(head) + Len(tail)
      /\ \A j \in 1..(Len(head) + Len(tail)) :
           (head \o tail)[j] = IF j <= Len(head) THEN head[j] ELSE tail[j - Len(head)]
  BY <1>2, <1>3, ConcatProperties
<1>5. ASSUME NEW j \in 1..(Len(s) - 1)
      PROVE  (head \o tail)[j] = IF j < i THEN s[j] ELSE s[j + 1]
  <2>0. j \in 1..(Len(head) + Len(tail))
    BY <1>1, <1>2, <1>3
  <2>1. CASE j < i
    <3>1. j <= Len(head) /\ j \in 1..(i - 1)
      BY <1>1, <1>2, <2>1
    <3> QED BY <1>2, <1>4, <2>0, <2>1, <3>1
  <2>2. CASE ~(j < i)
    <3>1. /\ j - (i - 1) \in 1..(Len(s) - i) /\ i + (j - (i - 1)) = j + 1
          /\ ~(j <= Len(head)) /\ j - Len(head) = j - (i - 1)
      BY <1>1, <1>2, <2>2
    <3>2. (head \o tail)[j] = tail[j - (i - 1)]
      BY <1>4, <2>0, <3>1
    <3> QED BY <1>3, <2>2, <3>1, <3>2
  <2> QED BY <2>1, <2>2
<1>6. Len(head \o tail) = Len(s) - 1
  BY <1>1, <1>2, <1>3, <1>4
<1>7. DOMAIN (head \o tail) = 1..(Len(s) - 1)
  BY <1>4, <1>6, LenProperties
<1> QED BY <1>1, <1>4, <1>5, <1>7, <1>h

LEMMA RemoveAtType ==
  ASSUME NEW S, NEW s \in Seq(S), NEW i \in DOMAIN s
  PROVE  RemoveAt(s, i) \in Seq(S)
BY RemoveAtPlaces

LEMMA RemoveAtKeeps ==
  ASSUME NEW S, NEW s \in Seq(S), NEW i \in DOMAIN s,
         NEW x \in ToSet(s), x # s[i]
  PROVE  x \in ToSet(RemoveAt(s, i))
<1>1. PICK j \in DOMAIN s : s[j] = x
  BY DEF ToSet
<1>2. /\ Len(s) \in Nat /\ DOMAIN s = 1..Len(s) /\ DOMAIN RemoveAt(s, i) = 1..(Len(s) - 1)
      /\ i \in 1..Len(s) /\ j \in 1..Len(s)
      /\ \A k \in 1..(Len(s) - 1) : RemoveAt(s, i)[k] = IF k < i THEN s[k] ELSE s[k + 1]
  BY RemoveAtPlaces
<1>3. CASE j < i
  <2>1. j \in 1..(Len(s) - 1) /\ RemoveAt(s, i)[j] = x
    BY <1>1, <1>2, <1>3
  <2>2. QED
    BY <1>2, <2>1 DEF ToSet
<1>4. CASE j > i
  <2>1. j - 1 \in 1..(Len(s) - 1) /\ ~(j - 1 < i) /\ j - 1 + 1 = j
    BY <1>2, <1>4
  <2>2. RemoveAt(s, i)[j - 1] = x
    BY <1>1, <1>2, <2>1
  <2>3. QED
    BY <1>2, <2>1, <2>2 DEF ToSet
<1>5. QED
  BY <1>1, <1>2, <1>3, <1>4

(* Lists of elements of which no two have the same key.                    *)
NoKeyTwice(s) == \A i, j \in DOMAIN s : s[i].key = s[j].key => i = j

LEMMA RemovedKeys ==
  ASSUME NEW T, NEW s \in Seq(T), NEW i \in DOMAIN s, NoKeyTwice(s)
  PROVE  /\ NoKeyTwice(RemoveAt(s, i))
         /\ \A j \in DOMAIN RemoveAt(s, i) : \E m \in DOMAIN s : m # i /\ RemoveAt(s, i)[j] = s[m]
<1> DEFINE t == RemoveAt(s, i)
           h == [j \in 1..(Len(s) - 1) |-> IF j < i THEN j ELSE j + 1]
<1>1. /\ Len(s) \in Nat /\ i \in 1..Len(s) /\ DOMAIN s = 1..Len(s)
      /\ DOMAIN t = 1..(Len(s) - 1)
      /\ \A j \in 1..(Len(s) - 1) : t[j] = s[h[j]]
  BY RemoveAtPlaces
<1>2. /\ \A j \in 1..(Len(s) - 1) : h[j] \in 1..Len(s) /\ h[j] # i
      /\ \A j, m \in 1..(Len(s) - 1) : h[j] = h[m] => j = m
  BY <1>1
<1> HIDE DEF t, h
<1>3. NoKeyTwice(t)
  BY <1>1, <1>2 DEF NoKeyTwice
<1>4. \A j \in DOMAIN t : \E m \in DOMAIN s : m # i /\ t[j] = s[m]
  BY <1>1, <1>2
<1> QED BY <1>3, <1>4 DEF t

LEMMA PushedKeys ==
  ASSUME NEW T, NEW s \in Seq(T), NoKeyTwice(s), NEW e \in T,
         \A m \in DOMAIN s : s[m].key # e.key
  PROVE  /\ NoKeyTwice(<<e>> \o s)
         /\ \A j \in DOMAIN (<<e>> \o s) :
              (<<e>> \o s)[j] = e \/ \E m \in DOMAIN s : (<<e>> \o s)[j] = s[m]
<1> DEFINE t == <<e>> \o s
<1>1. /\ DOMAIN t = 1..(Len(s) + 1) /\ t[1] = e /\ Len(s) \in Nat /\ DOMAIN s = 1..Len(s)
      /\ \A j \in 2..(Len(s) + 1) : t[j] = s[j - 1]
  OBVIOUS
<1> HIDE DEF t
<1>2. \A j \in 1..(Len(s) + 1) : j = 1 \/ (j \in 2..(Len(s) + 1) /\ j - 1 \in 1..Len(s))
  BY <1>1
<1>3. ASSUME NEW j \in DOMAIN t PROVE t[j] = e \/ \E m \in DOMAIN s : t[j] = s[m]
  BY <1>1, <1>2
<1>4. ASSUME NEW i \in DOMAIN t, NEW j \in DOMAIN t, t[i].key = t[j].key PROVE i = j
  <2>1. CASE i = 1 \/ j = 1
    BY <1>1, <1>2, <1>4, <2>1
  <2>2. CASE i # 1 /\ j # 1
    <3>1. /\ i - 1 \in DOMAIN s /\ j - 1 \in DOMAIN s
          /\ t[i] = s[i - 1] /\ t[j] = s[j - 1]
      BY <1>1, <1>2, <2>2
    <3>2. i - 1 = j - 1
      BY <1>4, <3>1 DEF NoKeyTwice
    <3> QED BY <1>1, <3>2
  <2> QED BY <2>1, <2>2
<1> QED BY <1>3, <1>4 DEF t, NoKeyTwice

(* The bytes of a list: the sum of its elements' sizes.                    *)
LEMMA SumOfSizes ==
  ASSUME NEW T, \A x \in T : x.size \in Nat, NEW s \in Seq(T)
  PROVE  SumFunction([i \in DOMAIN s |-> s[i].size]) \in Nat
<1> DEFINE f == [i \in DOMAIN s |-> s[i].size]
<1>1. DOMAIN s = 1..Len(s) /\ Len(s) \in Nat /\ \A i \in DOMAIN s : s[i] \in T
  OBVIOUS
<1>2. IsFiniteSet(DOMAIN s)
  BY <1>1, FS_Interval
<1>3. \A i \in DOMAIN s : f[i] \in Nat
  BY <1>1
<1>4. SumFunction(f) = SumFunctionOnSet(f, DOMAIN s)
  BY DEF SumFunction
<1> HIDE DEF f
<1> QED BY <1>2, <1>3, <1>4, SumNatural DEF f
=============================================================================
