----------------------------- MODULE FiniteSums -----------------------------
(***************************************************************************)
(* Induction in the form of sets, and what it gives for recursive          *)
(* functions and for sums over finite sets: a sum of the community modules *)
(* is computed element by element in an order that CHOOSE fixes; here it   *)
(* is shown to depend on the elements alone.                               *)
(***************************************************************************)
EXTENDS Integers, FiniteSets, Functions, FiniteSetTheorems,
        WellFoundedInduction, TLAPS

\* A set that contains zero and with every number its successor contains every
\* number.
LEMMA NatSetInduction ==
  ASSUME NEW S, 0 \in S, \A n \in Nat : n \in S => n + 1 \in S
  PROVE  Nat \subseteq S
<1> SUFFICES ASSUME ~(Nat \subseteq S) PROVE FALSE
  OBVIOUS
<1> DEFINE T == Nat \ S
           R == {ss \in Nat \X Nat : ss[1] < ss[2]}
<1>1. IsWellFoundedOn(R, Nat)
  BY NatLessThanWellFounded DEF OpToRel
<1>2. T \subseteq Nat /\ T # {}
  OBVIOUS
<1>3. PICK m \in T : \A y \in T : ~ (<<y, m>> \in R)
  <2> HIDE DEF T, R
  <2> QED BY <1>1, <1>2, WFMin
<1>4. m \in Nat /\ m # 0
  OBVIOUS
<1>5. m - 1 \in Nat /\ m - 1 \in S
  <2>1. m - 1 \in Nat /\ <<m - 1, m>> \in R
    BY <1>4
  <2> QED BY <1>3, <2>1
<1>6. (m - 1) + 1 = m
  BY <1>4
<1> QED BY <1>5, <1>6

\* A function given by its first value and by how each value follows from the
\* one before it exists.
LEMMA RecursionExists ==
  ASSUME NEW S, NEW z \in S, NEW F \in [Nat -> [S -> S]]
  PROVE  \E f \in [Nat -> S] :
           \A n \in Nat : f[n] = IF n = 0 THEN z ELSE F[n][f[n - 1]]
<1> DEFINE Upto(n, g) == g[0] = z /\ \A k \in 1 .. n : g[k] = F[k][g[k - 1]]
           N == {n \in Nat : \E g \in [0 .. n -> S] : Upto(n, g)}
           G(n) == CHOOSE g \in [0 .. n -> S] : Upto(n, g)
           f == [n \in Nat |-> G(n)[n]]
<1>1. 0 \in N
  <2>1. [k \in 0 .. 0 |-> z] \in [0 .. 0 -> S] /\ Upto(0, [k \in 0 .. 0 |-> z])
    OBVIOUS
  <2> QED BY <2>1
<1>2. ASSUME NEW n \in Nat, n \in N PROVE n + 1 \in N
  <2>1. PICK g \in [0 .. n -> S] : Upto(n, g)
    BY <1>2
  <2> DEFINE h == [k \in 0 .. n + 1 |-> IF k = n + 1 THEN F[n + 1][g[n]] ELSE g[k]]
  <2>2. h \in [0 .. n + 1 -> S]
    OBVIOUS
  <2>3. Upto(n + 1, h)
    <3>1. h[0] = z
      BY <2>1
    <3>2. ASSUME NEW k \in 1 .. n + 1 PROVE h[k] = F[k][h[k - 1]]
      <4>1. CASE k = n + 1
        <5>1. h[k] = F[n + 1][g[n]] /\ h[k - 1] = g[n]
          BY <4>1
        <5> QED BY <4>1, <5>1
      <4>2. CASE k # n + 1
        <5>1. k \in 1 .. n /\ h[k] = g[k] /\ h[k - 1] = g[k - 1]
          BY <4>2
        <5> QED BY <2>1, <5>1
      <4> QED BY <4>1, <4>2
    <3> QED BY <3>1, <3>2
  <2> HIDE DEF h, Upto
  <2> QED BY <2>2, <2>3
<1>3. \A n \in Nat : G(n) \in [0 .. n -> S] /\ Upto(n, G(n))
  <2>1. Nat \subseteq N
    <3> HIDE DEF N
    <3> QED BY <1>1, <1>2, NatSetInduction
  <2>2. ASSUME NEW n \in Nat PROVE \E g \in [0 .. n -> S] : Upto(n, g)
    BY <2>1
  <2> HIDE DEF Upto
  <2> QED BY <2>2
<1>4. ASSUME NEW n \in Nat \ {0} PROVE G(n)[n - 1] = G(n - 1)[n - 1]
  <2> DEFINE m == n - 1
             K == {k \in Nat : k <= m => G(n)[k] = G(m)[k]}
  <2>1. m \in Nat /\ m + 1 = n
    OBVIOUS
  <2>2. Upto(n, G(n)) /\ Upto(m, G(m))
    BY <1>3, <2>1
  <2> HIDE DEF G, m
  <2>3. 0 \in K
    BY <2>2
  <2>4. ASSUME NEW k \in Nat, k \in K PROVE k + 1 \in K
    <3>1. SUFFICES ASSUME k + 1 <= m PROVE G(n)[k + 1] = G(m)[k + 1]
      OBVIOUS
    <3>2. G(n)[k + 1] = F[k + 1][G(n)[k]]
      <4>1. k + 1 \in 1 .. n /\ (k + 1) - 1 = k
        BY <2>1, <3>1
      <4> QED BY <2>2, <4>1
    <3>3. G(m)[k + 1] = F[k + 1][G(m)[k]]
      <4>1. k + 1 \in 1 .. m /\ (k + 1) - 1 = k
        BY <2>1, <3>1
      <4> QED BY <2>2, <4>1
    <3>4. G(n)[k] = G(m)[k]
      BY <2>1, <2>4, <3>1
    <3> QED BY <3>2, <3>3, <3>4
  <2>5. m \in K
    <3> HIDE DEF K
    <3> QED BY <2>1, <2>3, <2>4, NatSetInduction
  <2> QED BY <2>1, <2>5 DEF m
<1>5. f \in [Nat -> S]
  <2>1. ASSUME NEW n \in Nat PROVE G(n)[n] \in S
    <3> HIDE DEF G, Upto
    <3>1. G(n) \in [0 .. n -> S] /\ n \in 0 .. n
      BY <1>3
    <3> QED BY <3>1
  <2> HIDE DEF G
  <2> QED BY <2>1
<1>6. ASSUME NEW n \in Nat PROVE f[n] = IF n = 0 THEN z ELSE F[n][f[n - 1]]
  <2>1. CASE n = 0
    BY <1>3, <2>1
  <2>2. CASE n # 0
    <3>1. n - 1 \in Nat /\ f[n - 1] = G(n - 1)[n - 1]
      <4>1. n - 1 \in Nat
        BY <2>2
      <4> HIDE DEF G
      <4> QED BY <4>1
    <3>2. n \in 1 .. n /\ f[n] = G(n)[n]
      BY <2>2
    <3>3. G(n)[n] = F[n][G(n)[n - 1]]
      BY <1>3, <3>2
    <3> HIDE DEF G, f
    <3> QED BY <1>4, <2>2, <3>1, <3>2, <3>3
  <2> QED BY <2>1, <2>2
<1> HIDE DEF f
<1> QED BY <1>5, <1>6
\* So does one whose steps are given up to a bound.
LEMMA RecursionUpTo ==
  ASSUME NEW S, NEW z, z \in S, NEW n \in Nat, NEW F, F \in [1 .. n -> [S -> S]]
  PROVE  \E f \in [0 .. n -> S] :
           \A k \in 0 .. n : f[k] = IF k = 0 THEN z ELSE F[k][f[k - 1]]
<1>1. PICK G : G = [k \in Nat |-> IF k \in 1 .. n THEN F[k] ELSE [x \in S |-> x]]
  OBVIOUS
<1>2. G \in [Nat -> [S -> S]]
  BY <1>1
<1>3. PICK g \in [Nat -> S] : \A k \in Nat : g[k] = IF k = 0 THEN z ELSE G[k][g[k - 1]]
  <2>1. z \in S /\ G \in [Nat -> [S -> S]]
    BY <1>2
  <2> QED BY ONLY <2>1, RecursionExists
<1>4. PICK f : f = [k \in 0 .. n |-> g[k]]
  OBVIOUS
<1>5. f \in [0 .. n -> S]
  BY <1>3, <1>4
<1>6. ASSUME NEW k \in 0 .. n PROVE f[k] = IF k = 0 THEN z ELSE F[k][f[k - 1]]
  <2>1. CASE k = 0
    BY <1>3, <1>4, <2>1
  <2>2. CASE k # 0
    <3>1. k \in 1 .. n /\ k \in Nat /\ k - 1 \in 0 .. n
      BY <2>2
    <3>2. f[k] = g[k] /\ f[k - 1] = g[k - 1] /\ G[k] = F[k]
      BY <1>1, <1>4, <3>1
    <3>3. g[k] = G[k][g[k - 1]]
      BY <1>3, <2>2, <3>1
    <3> QED BY <2>2, <3>2, <3>3
  <2> QED BY <2>1, <2>2
<1> QED BY <1>5, <1>6

\* A family that contains a set whenever it contains the set without any one
\* of its elements contains every subset of a finite set.
LEMMA SubsetInduction ==
  ASSUME NEW S, IsFiniteSet(S), NEW P,
         \A T \in SUBSET S : (\A x \in T : T \ {x} \in P) => T \in P
  PROVE  SUBSET S \subseteq P
<1> DEFINE N == {n \in Nat : \A T \in SUBSET S : Cardinality(T) <= n => T \in P}
<1>1. \A T \in SUBSET S : IsFiniteSet(T) /\ Cardinality(T) \in Nat
  BY FS_Subset, FS_CardinalityType
<1>2. 0 \in N
  <2>1. \A T \in SUBSET S : Cardinality(T) <= 0 => T = {}
    BY <1>1, FS_EmptySet
  <2> QED BY <2>1
<1>3. ASSUME NEW n \in Nat, n \in N PROVE n + 1 \in N
  <2>1. SUFFICES ASSUME NEW T \in SUBSET S, Cardinality(T) <= n + 1 PROVE T \in P
    OBVIOUS
  <2>2. ASSUME NEW x \in T PROVE T \ {x} \in P
    <3>1. Cardinality(T \ {x}) = Cardinality(T) - 1
      BY <1>1, FS_RemoveElement
    <3>2. T \ {x} \in SUBSET S /\ Cardinality(T \ {x}) <= n
      BY <1>1, <2>1, <3>1
    <3> QED BY <1>3, <3>2
  <2> QED BY <2>2
<1>4. Nat \subseteq N
  <2> HIDE DEF N
  <2> QED BY <1>2, <1>3, NatSetInduction
<1> QED BY <1>1, <1>4

-----------------------------------------------------------------------------
\* One more element in the order of CHOOSE, and the functions that do so.
Chosen(s) == CHOOSE x \in s : TRUE
OneMore(f, g, s) == IF s = {} THEN 0 ELSE f[Chosen(s)] + g[s \ {Chosen(s)}]
Sums(f, S, g) == g = [s \in SUBSET S |-> OneMore(f, g, s)]

\* An element is chosen from a set that has one.
LEMMA ChosenIn == \A s : s # {} => Chosen(s) \in s
BY DEF Chosen

\* The sums of the subsets of a finite set exist.
LEMMA SumsExist ==
  ASSUME NEW S, IsFiniteSet(S), NEW f, \A x \in S : f[x] \in Int
  PROVE  \E g \in [SUBSET S -> Int] : Sums(f, S, g)
<1> DEFINE Upto(n, g) == \A s \in SUBSET S : Cardinality(s) <= n => g[s] = OneMore(f, g, s)
           N == {n \in Nat : \E g \in [SUBSET S -> Int] : Upto(n, g)}
<1>1. \A s \in SUBSET S : IsFiniteSet(s) /\ Cardinality(s) \in Nat
                            /\ Cardinality(s) <= Cardinality(S)
  BY FS_Subset, FS_CardinalityType
<1>2. ASSUME NEW g \in [SUBSET S -> Int]
      PROVE  [s \in SUBSET S |-> OneMore(f, g, s)] \in [SUBSET S -> Int]
  <2>1. ASSUME NEW s \in SUBSET S PROVE OneMore(f, g, s) \in Int
    BY ChosenIn DEF OneMore
  <2> QED BY <2>1
<1>3. 0 \in N
  <2>1. \A s \in SUBSET S : Cardinality(s) <= 0 => s = {}
    BY <1>1, FS_EmptySet
  <2>2. [s \in SUBSET S |-> 0] \in [SUBSET S -> Int]
    OBVIOUS
  <2>3. Upto(0, [s \in SUBSET S |-> 0])
    BY <2>1 DEF OneMore
  <2> QED BY <2>2, <2>3
<1>4. ASSUME NEW n \in Nat, n \in N PROVE n + 1 \in N
  <2>1. PICK g \in [SUBSET S -> Int] : Upto(n, g)
    BY <1>4
  <2> DEFINE h == [s \in SUBSET S |-> OneMore(f, g, s)]
  <2>2. h \in [SUBSET S -> Int]
    BY <1>2
  <2>3. ASSUME NEW s \in SUBSET S, Cardinality(s) <= n + 1
        PROVE  h[s] = OneMore(f, h, s)
    <3>1. CASE s = {}
      BY <3>1 DEF OneMore
    <3>2. CASE s # {}
      <4> DEFINE r == s \ {Chosen(s)}
      <4>1. Chosen(s) \in s /\ r \in SUBSET S
        BY <3>2, ChosenIn
      <4>2. Cardinality(r) = Cardinality(s) - 1
        BY <1>1, <4>1, FS_RemoveElement
      <4>3. Cardinality(r) <= n
        BY <1>1, <2>3, <4>1, <4>2
      <4>4. g[r] = h[r]
        BY <2>1, <4>1, <4>3
      <4> QED BY <3>2, <4>4 DEF OneMore
    <3> QED BY <3>1, <3>2
  <2>4. Upto(n + 1, h)
    BY <2>3
  <2> HIDE DEF h, Upto
  <2> QED BY <2>2, <2>4
<1>5. Cardinality(S) \in N
  <2>1. Nat \subseteq N
    <3> HIDE DEF N
    <3> QED BY <1>3, <1>4, NatSetInduction
  <2> QED BY <2>1, FS_CardinalityType
<1>6. PICK g \in [SUBSET S -> Int] : Upto(Cardinality(S), g)
  BY <1>5
<1>7. \A s \in SUBSET S : g[s] = OneMore(f, g, s)
  BY <1>1, <1>6
<1> QED BY <1>7 DEF Sums

\* They agree on what is summed and do not depend on the rest.
LEMMA SumsAgree ==
  ASSUME NEW S, IsFiniteSet(S), NEW T, T \subseteq S, NEW f, NEW e,
         \A x \in T : f[x] = e[x],
         NEW g, Sums(f, S, g), NEW h, Sums(e, T, h)
  PROVE  \A s \in SUBSET T : g[s] = h[s]
<1> DEFINE P == {s \in SUBSET T : g[s] = h[s]}
<1>1. IsFiniteSet(T)
  BY FS_Subset
<1>2. ASSUME NEW s \in SUBSET T, \A x \in s : s \ {x} \in P
      PROVE  s \in P
  <2>1. g[s] = OneMore(f, g, s) /\ h[s] = OneMore(e, h, s)
    <3>1. g[s] = [r \in SUBSET S |-> OneMore(f, g, r)][s]
      BY DEF Sums
    <3>2. h[s] = [r \in SUBSET T |-> OneMore(e, h, r)][s]
      BY DEF Sums
    <3> QED BY <3>1, <3>2
  <2>2. CASE s = {}
    BY <2>1, <2>2 DEF OneMore
  <2>3. CASE s # {}
    <3>1. Chosen(s) \in s
      BY <2>3, ChosenIn
    <3>2. g[s \ {Chosen(s)}] = h[s \ {Chosen(s)}] /\ f[Chosen(s)] = e[Chosen(s)]
      BY <1>2, <3>1
    <3> QED BY <2>1, <2>3, <3>2 DEF OneMore
  <2> QED BY <2>2, <2>3
<1>3. SUBSET T \subseteq P
  <2> HIDE DEF P
  <2> QED BY <1>1, <1>2, SubsetInduction
<1> QED BY <1>3

-----------------------------------------------------------------------------
\* What SumFunctionOnSet computes.
LEMMA SumUnfolded ==
  ASSUME NEW f, NEW S
  PROVE  SumFunctionOnSet(f, S) = (CHOOSE g : Sums(f, S, g))[S]
BY DEF SumFunctionOnSet, FoldFunctionOnSet, MapThenFoldSet, Sums, OneMore, Chosen

\* The sum over a finite set is the sum given by any function of sums over a
\* larger one.
LEMMA SumGiven ==
  ASSUME NEW S, IsFiniteSet(S), NEW T, T \subseteq S, NEW f, NEW e,
         \A x \in S : f[x] \in Int, \A x \in T : e[x] = f[x],
         NEW g, Sums(f, S, g)
  PROVE  SumFunctionOnSet(e, T) = g[T]
<1>1. IsFiniteSet(T)
  BY FS_Subset
<1>2. \A x \in T : e[x] \in Int
  OBVIOUS
<1> DEFINE h == CHOOSE h : Sums(e, T, h)
<1>3. Sums(e, T, h)
  <2>1. \E h0 : Sums(e, T, h0)
    BY <1>1, <1>2, SumsExist
  <2> QED BY <2>1
<1>4. SumFunctionOnSet(e, T) = h[T]
  BY SumUnfolded
<1>5. T \in SUBSET T /\ \A x \in T : f[x] = e[x]
  OBVIOUS
<1> HIDE DEF h
<1>6. g[T] = h[T]
  BY <1>3, <1>5, SumsAgree
<1> QED BY <1>4, <1>6

\* The empty sum is zero.
LEMMA SumEmpty == \A f : SumFunctionOnSet(f, {}) = 0
<1> TAKE f
<1>1. PICK g \in [SUBSET {} -> Int] : Sums(f, {}, g)
  BY FS_EmptySet, SumsExist
<1>2. g[{}] = OneMore(f, g, {})
  <2>1. g[{}] = [s \in SUBSET {} |-> OneMore(f, g, s)][{}]
    BY <1>1 DEF Sums
  <2> QED BY <2>1
<1>3. SumFunctionOnSet(f, {}) = g[{}]
  BY <1>1, FS_EmptySet, SumGiven
<1> QED BY <1>2, <1>3 DEF OneMore

\* A sum is any one of its terms and the sum of the others, and a sum of
\* integers is one.
LEMMA SumRemove ==
  ASSUME NEW S, IsFiniteSet(S), NEW f, \A x \in S : f[x] \in Int
  PROVE  /\ SumFunctionOnSet(f, S) \in Int
         /\ \A y \in S : SumFunctionOnSet(f, S) = f[y] + SumFunctionOnSet(f, S \ {y})
<1>1. PICK g : g \in [SUBSET S -> Int] /\ Sums(f, S, g)
  BY SumsExist
<1>2. \A T \in SUBSET S : SumFunctionOnSet(f, T) = g[T]
  BY <1>1, SumGiven
<1>3. \A T \in SUBSET S : g[T] = OneMore(f, g, T)
  <2>1. \A T \in SUBSET S : g[T] = [s \in SUBSET S |-> OneMore(f, g, s)][T]
    BY <1>1 DEF Sums
  <2> QED BY <2>1
<1> DEFINE P == {T \in SUBSET S : \A y \in T : g[T] = f[y] + g[T \ {y}]}
<1>4. ASSUME NEW T \in SUBSET S, \A x \in T : T \ {x} \in P
      PROVE  T \in P
  <2>1. SUFFICES ASSUME NEW y \in T PROVE g[T] = f[y] + g[T \ {y}]
    OBVIOUS
  <2> DEFINE x == Chosen(T)
  <2>2. x \in T /\ g[T] = f[x] + g[T \ {x}]
    BY <1>3, ChosenIn DEF OneMore
  <2>3. CASE x = y
    BY <2>2, <2>3
  <2>4. CASE x # y
    <3>1. g[T \ {x}] = f[y] + g[(T \ {x}) \ {y}]
      BY <1>4, <2>2, <2>4
    <3>2. g[T \ {y}] = f[x] + g[(T \ {y}) \ {x}]
      BY <1>4, <2>2, <2>4
    <3>3. (T \ {x}) \ {y} = (T \ {y}) \ {x}
      OBVIOUS
    <3> DEFINE rest == g[(T \ {y}) \ {x}]
    <3>4. f[x] \in Int /\ f[y] \in Int /\ rest \in Int
      BY <1>1, <2>2
    <3>5. g[T] = f[x] + (f[y] + rest) /\ g[T \ {y}] = f[x] + rest
      BY <2>2, <3>1, <3>2, <3>3
    <3> HIDE DEF x, rest
    <3> QED BY <3>4, <3>5
  <2> QED BY <2>3, <2>4
<1>5. SUBSET S \subseteq P
  <2> HIDE DEF P
  <2> QED BY <1>4, SubsetInduction
<1>6. \A y \in S : g[S] = f[y] + g[S \ {y}]
  BY <1>5
<1>7. g[S] \in Int
  BY <1>1
<1> QED BY <1>2, <1>6, <1>7

\* Functions that agree on a finite set have the same sum over it.
LEMMA SumSame ==
  ASSUME NEW S, IsFiniteSet(S), NEW f, NEW e, \A x \in S : f[x] \in Int /\ e[x] = f[x]
  PROVE  SumFunctionOnSet(e, S) = SumFunctionOnSet(f, S)
<1>1. PICK g \in [SUBSET S -> Int] : Sums(f, S, g)
  BY SumsExist
<1> QED BY <1>1, SumGiven

\* Changing one term changes the sum by as much.
LEMMA SumChanged ==
  ASSUME NEW S, IsFiniteSet(S), NEW f, NEW e, NEW y \in S,
         \A x \in S : f[x] \in Int /\ e[x] \in Int,
         \A x \in S \ {y} : e[x] = f[x]
  PROVE  SumFunctionOnSet(e, S) = SumFunctionOnSet(f, S) + (e[y] - f[y])
<1>1. IsFiniteSet(S \ {y})
  BY FS_RemoveElement
<1>2. SumFunctionOnSet(e, S \ {y}) = SumFunctionOnSet(f, S \ {y})
  BY <1>1, SumSame
<1>3. /\ SumFunctionOnSet(e, S) = e[y] + SumFunctionOnSet(e, S \ {y})
      /\ SumFunctionOnSet(f, S) = f[y] + SumFunctionOnSet(f, S \ {y})
      /\ SumFunctionOnSet(f, S \ {y}) \in Int
  BY <1>1, SumRemove
<1> QED BY <1>2, <1>3

\* A sum of zeros is zero.
LEMMA SumZero ==
  ASSUME NEW S, IsFiniteSet(S), NEW f, \A x \in S : f[x] = 0
  PROVE  SumFunctionOnSet(f, S) = 0
<1> DEFINE P == {T \in SUBSET S : SumFunctionOnSet(f, T) = 0}
<1>1. ASSUME NEW T \in SUBSET S, \A x \in T : T \ {x} \in P
      PROVE  T \in P
  <2>1. CASE T = {}
    BY <2>1, SumEmpty
  <2>2. CASE T # {}
    <3>1. PICK x \in T : TRUE
      BY <2>2
    <3>2. IsFiniteSet(T) /\ \A y \in T : f[y] \in Int
      BY FS_Subset
    <3>3. SumFunctionOnSet(f, T) = f[x] + SumFunctionOnSet(f, T \ {x})
      BY <3>2, SumRemove
    <3>4. f[x] = 0 /\ SumFunctionOnSet(f, T \ {x}) = 0
      BY <1>1
    <3> QED BY <3>3, <3>4
  <2> QED BY <2>1, <2>2
<1>2. SUBSET S \subseteq P
  <2> HIDE DEF P
  <2> QED BY <1>1, SubsetInduction
<1> QED BY <1>2

\* A sum of natural numbers is one.
LEMMA SumNatural ==
  ASSUME NEW S, IsFiniteSet(S), NEW f, \A x \in S : f[x] \in Nat
  PROVE  SumFunctionOnSet(f, S) \in Nat
<1> DEFINE P == {T \in SUBSET S : SumFunctionOnSet(f, T) \in Nat}
<1>1. ASSUME NEW T \in SUBSET S, \A x \in T : T \ {x} \in P
      PROVE  T \in P
  <2>1. CASE T = {}
    BY <2>1, SumEmpty
  <2>2. CASE T # {}
    <3>1. PICK x \in T : TRUE
      BY <2>2
    <3>2. IsFiniteSet(T) /\ \A y \in T : f[y] \in Int
      BY FS_Subset
    <3>3. SumFunctionOnSet(f, T) = f[x] + SumFunctionOnSet(f, T \ {x})
      BY <3>2, SumRemove
    <3>4. f[x] \in Nat /\ SumFunctionOnSet(f, T \ {x}) \in Nat
      BY <1>1
    <3> QED BY <3>3, <3>4
  <2> QED BY <2>1, <2>2
<1>2. SUBSET S \subseteq P
  <2> HIDE DEF P
  <2> QED BY <1>1, SubsetInduction
<1> QED BY <1>2

\* The product of a sum.
LEMMA ProductAdds == \A a, b, c \in Int : (a + b) * c = a * c + b * c /\ a * c \in Int
OBVIOUS

\* Terms that grow by a multiple each.
LEMMA SumGrown ==
  ASSUME NEW S, IsFiniteSet(S), NEW f, NEW e, NEW t, NEW g \in Int,
         \A x \in S : f[x] \in Int /\ t[x] \in Int /\ e[x] = f[x] + t[x] * g
  PROVE  SumFunctionOnSet(e, S) = SumFunctionOnSet(f, S) + SumFunctionOnSet(t, S) * g
<1>0. \A x \in S : e[x] \in Int
  <2> TAKE x \in S
  <2>1. PICK p : p = t[x] * g
    OBVIOUS
  <2>2. p \in Int
    BY <2>1, ProductAdds
  <2> QED BY <2>1, <2>2
<1> DEFINE P == {T \in SUBSET S : SumFunctionOnSet(e, T) =
                   SumFunctionOnSet(f, T) + SumFunctionOnSet(t, T) * g}
<1>1. ASSUME NEW T \in SUBSET S, \A x \in T : T \ {x} \in P
      PROVE  T \in P
  <2>1. CASE T = {}
    <3>1. SumFunctionOnSet(e, {}) = 0 /\ SumFunctionOnSet(f, {}) = 0
          /\ SumFunctionOnSet(t, {}) = 0
      BY SumEmpty
    <3> QED BY <2>1, <3>1
  <2>2. CASE T # {}
    <3>1. PICK x \in T : TRUE
      BY <2>2
    <3>2. IsFiniteSet(T) /\ IsFiniteSet(T \ {x})
      BY FS_Subset
    <3> DEFINE a == SumFunctionOnSet(e, T \ {x})
               b == SumFunctionOnSet(f, T \ {x})
               c == SumFunctionOnSet(t, T \ {x})
    <3>3. /\ SumFunctionOnSet(e, T) = e[x] + a
          /\ SumFunctionOnSet(f, T) = f[x] + b
          /\ SumFunctionOnSet(t, T) = t[x] + c
      BY <1>0, <3>2, SumRemove
    <3>4. a \in Int /\ b \in Int /\ c \in Int
      BY <1>0, <3>2, SumRemove
    <3>5. a = b + c * g
      BY <1>1
    <3> HIDE DEF a, b, c
    <3>6. (t[x] + c) * g = t[x] * g + c * g /\ t[x] * g \in Int /\ c * g \in Int
      BY <3>4, ProductAdds
    <3>7. e[x] = f[x] + t[x] * g /\ f[x] \in Int
      OBVIOUS
    <3>8. SumFunctionOnSet(e, T) = SumFunctionOnSet(f, T) + SumFunctionOnSet(t, T) * g
      <4>1. PICK p, q, r, y : p = t[x] * g /\ q = c * g /\ r = (t[x] + c) * g /\ y = f[x]
        OBVIOUS
      <4>2. e[x] + a = (y + b) + r
        BY <3>4, <3>5, <3>6, <3>7, <4>1
      <4> QED BY <3>3, <4>1, <4>2
    <3> QED BY <3>8
  <2> QED BY <2>1, <2>2
<1>2. SUBSET S \subseteq P
  <2> HIDE DEF P
  <2> QED BY <1>1, SubsetInduction
<1> QED BY <1>2

\* Multiples that are term by term no larger.
LEMMA SumScaled ==
  ASSUME NEW S, IsFiniteSet(S), NEW f, NEW e, NEW m \in Int, NEW n \in Int,
         \A x \in S : f[x] \in Int /\ e[x] \in Int /\ f[x] * m <= e[x] * n
  PROVE  SumFunctionOnSet(f, S) * m <= SumFunctionOnSet(e, S) * n
<1> DEFINE P == {T \in SUBSET S : SumFunctionOnSet(f, T) * m <= SumFunctionOnSet(e, T) * n}
<1>1. ASSUME NEW T \in SUBSET S, \A x \in T : T \ {x} \in P
      PROVE  T \in P
  <2>1. CASE T = {}
    <3>1. SumFunctionOnSet(e, {}) = 0 /\ SumFunctionOnSet(f, {}) = 0
      BY SumEmpty
    <3> QED BY <2>1, <3>1
  <2>2. CASE T # {}
    <3>1. PICK x \in T : TRUE
      BY <2>2
    <3>2. IsFiniteSet(T) /\ IsFiniteSet(T \ {x})
      BY FS_Subset
    <3> DEFINE a == SumFunctionOnSet(f, T \ {x})
               b == SumFunctionOnSet(e, T \ {x})
    <3>3. /\ SumFunctionOnSet(f, T) = f[x] + a
          /\ SumFunctionOnSet(e, T) = e[x] + b
          /\ a \in Int /\ b \in Int
      BY <3>2, SumRemove
    <3>4. a * m <= b * n
      BY <1>1
    <3> HIDE DEF a, b
    <3>5. /\ (f[x] + a) * m = f[x] * m + a * m /\ f[x] * m \in Int /\ a * m \in Int
          /\ (e[x] + b) * n = e[x] * n + b * n /\ e[x] * n \in Int /\ b * n \in Int
      BY <3>3, ProductAdds
    <3>6. PICK p, q, u, w : p = f[x] * m /\ q = a * m /\ u = e[x] * n /\ w = b * n
      OBVIOUS
    <3>7. p + q <= u + w
      BY <3>4, <3>5, <3>6
    <3> QED BY <3>3, <3>5, <3>6, <3>7
  <2> QED BY <2>1, <2>2
<1>2. SUBSET S \subseteq P
  <2> HIDE DEF P
  <2> QED BY <1>1, SubsetInduction
<1> QED BY <1>2
=============================================================================
