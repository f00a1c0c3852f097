----------------------------- MODULE SumProofs -----------------------------
(***************************************************************************)
(* Sums over finite sets.  SumFunctionOnSet is a recursive function; what  *)
(* it computes is shown here once, by the least size of a set on which a   *)
(* claim fails, and used as the lemmas at the end state it: the sum over a *)
(* set is the value there of the one function on its subsets that is 0 on  *)
(* the empty set and grows by f[x] with every x.                           *)
(* Before them, the arithmetic of products and quotients that more than    *)
(* one module needs.                                                       *)
(***************************************************************************)
EXTENDS Integers, FiniteSetsExt, Functions, Folds,
        FiniteSetTheorems, WellFoundedInduction, TLAPS

\* A product of naturals is a natural number.
LEMMA Products ==
  ASSUME NEW x \in Nat, NEW y \in Nat
  PROVE  x * y \in Nat
OBVIOUS

\* Products grow with their factors, and factors with the products.
LEMMA ProductGrows ==
  ASSUME NEW x \in Nat, NEW y \in Nat, NEW z \in Nat
  PROVE  /\ x <= y => x * z <= y * z
         /\ x < y /\ z > 0 => x * z < y * z
         /\ x * z <= y * z /\ z > 0 => x <= y
         /\ x * z < y * z => x < y
OBVIOUS

\* Division rounds down, by less than the divisor.
LEMMA Division ==
  ASSUME NEW x \in Nat, NEW n \in Nat, n > 0
  PROVE  x \div n \in Nat /\ n * (x \div n) <= x /\ x < n * (x \div n) + n
OBVIOUS

\* What a counter of n values shows: itself, or where it starts again.
LEMMA Remainder ==
  ASSUME NEW n \in Nat, n > 0, NEW x \in Nat
  PROVE  /\ x % n \in 0..(n - 1)
         /\ x < n => x % n = x
         /\ n <= x /\ x < n + n => x % n = x - n
OBVIOUS

\* g[T] is the sum of f over each subset T of S.
Additive(g, f, S) ==
    /\ g \in [SUBSET S -> Int]
    /\ g[{}] = 0
    /\ \A T \in SUBSET S : \A x \in S \ T : g[T \cup {x}] = g[T] + f[x]

\* A set of naturals has a least element.
LEMMA LeastOf ==
  ASSUME NEW S \in SUBSET Nat, S # {}
  PROVE  \E x \in S : \A y \in S : x <= y
<1>1. PICK x \in S : \A y \in S : ~(<<y, x>> \in OpToRel(<, Nat))
  BY NatLessThanWellFounded, WFMin
<1>2. \A y \in S : x <= y
  <2> TAKE y \in S
  <2>1. x \in Nat /\ y \in Nat
    OBVIOUS
  <2>2. ~(y < x)
    BY <1>1, <2>1 DEF OpToRel
  <2> QED BY <2>1, <2>2
<1> QED BY <1>2

\* Among the subsets of a finite set in F there is a smallest one: what holds
\* for all subsets with fewer elements holds where it fails first.
LEMMA SmallestSubset ==
  ASSUME NEW S, IsFiniteSet(S), NEW F \in SUBSET (SUBSET S), F # {}
  PROVE  \E T \in F : IsFiniteSet(T) /\ \A x \in T : T \ {x} \notin F
<1> DEFINE N == {Cardinality(T) : T \in F}
<1>1. \A T \in F : IsFiniteSet(T) /\ Cardinality(T) \in Nat
  BY FS_Subset, FS_CardinalityType
<1>2. N \in SUBSET Nat /\ N # {}
  BY <1>1
<1> HIDE DEF N
<1>3. PICK n \in N : \A m \in N : n <= m
  BY <1>2, LeastOf
<1>4. PICK T \in F : Cardinality(T) = n
  BY <1>3 DEF N
<1>5. ASSUME NEW x \in T, T \ {x} \in F
      PROVE  FALSE
  <2>1. Cardinality(T \ {x}) = Cardinality(T) - 1 /\ Cardinality(T) \in Nat
    BY <1>1, <1>4, <1>5, FS_RemoveElement
  <2>2. Cardinality(T \ {x}) \in N
    BY <1>5 DEF N
  <2>3. Cardinality(T) <= Cardinality(T \ {x})
    BY <1>3, <1>4, <2>2
  <2> QED BY <2>1, <2>3
<1> QED BY <1>1, <1>4, <1>5

\* The values of a function on a finite set.
LEMMA ImageFinite ==
  ASSUME NEW S, IsFiniteSet(S), NEW f
  PROVE  /\ IsFiniteSet({f[x] : x \in S})
         /\ Cardinality({f[x] : x \in S}) <= Cardinality(S)
<1> DEFINE T == {f[x] : x \in S}
           g == [x \in S |-> f[x]]
<1>1. g \in Surjection(S, T)
  BY DEF Surjection
<1> HIDE DEF g, T
<1>2. IsFiniteSet(T) /\ Cardinality(T) <= Cardinality(S)
  BY <1>1, FS_Surjection
<1> QED BY <1>2 DEF T

\* There are such sums, and they are not negative when nothing summed is.
LEMMA AdditiveExists ==
  ASSUME NEW S, IsFiniteSet(S), NEW f, \A x \in S : f[x] \in Int
  PROVE  \E g : Additive(g, f, S) /\ ((\A x \in S : f[x] >= 0) => \A T \in SUBSET S : g[T] >= 0)
<1> DEFINE Fine(g, T) == /\ Additive(g, f, T)
                         /\ (\A x \in T : f[x] >= 0) => \A U \in SUBSET T : g[U] >= 0
           F == {T \in SUBSET S : \A g : ~Fine(g, T)}
<1>1. CASE F = {}
  BY <1>1
<1>2. CASE F # {}
  <2>1. PICK T \in F : IsFiniteSet(T) /\ \A x \in T : T \ {x} \notin F
    <3>1. F \in SUBSET (SUBSET S)
      OBVIOUS
    <3> HIDE DEF F
    <3> QED BY <1>2, <3>1, SmallestSubset
  <2>2. CASE T = {}
    <3> DEFINE g == [U \in SUBSET T |-> 0]
    <3>1. Fine(g, T)
      BY <2>2 DEF Additive
    <3> QED BY <2>1, <3>1
  <2>3. CASE T # {}
    <3>1. PICK x : x \in T
      BY <2>3
    <3> DEFINE R == T \ {x}
    <3>2. PICK h : Fine(h, R)
      BY <2>1, <3>1
    <3> DEFINE g == [U \in SUBSET T |-> IF x \in U THEN h[U \ {x}] + f[x] ELSE h[U]]
    <3>3. f[x] \in Int /\ R \in SUBSET T /\ x \notin R /\ T \in SUBSET S
      BY <3>1
    <3>4. h \in [SUBSET R -> Int] /\ h[{}] = 0
      BY <3>2 DEF Additive
    <3>5. \A U \in SUBSET T : (x \in U => U \ {x} \in SUBSET R) /\ (x \notin U => U \in SUBSET R)
      OBVIOUS
    <3>6. g \in [SUBSET T -> Int]
      BY <3>3, <3>4, <3>5
    <3>7. g[{}] = 0
      BY <3>4
    <3>8. ASSUME NEW U \in SUBSET T, NEW y \in T \ U
          PROVE  g[U \cup {y}] = g[U] + f[y]
      <4>0. U \cup {y} \in SUBSET T /\ f[y] \in Int
        BY <3>3, <3>8
      <4>1. CASE y = x
        <5>1. (U \cup {y}) \ {x} = U /\ U \in SUBSET R /\ x \notin U
          BY <4>1
        <5> QED BY <4>0, <4>1, <5>1
      <4>2. CASE y # x /\ x \in U
        <5>1. (U \cup {y}) \ {x} = (U \ {x}) \cup {y} /\ U \ {x} \in SUBSET R /\ y \in R \ (U \ {x})
          BY <4>2
        <5>2. h[(U \ {x}) \cup {y}] = h[U \ {x}] + f[y]
          BY <5>1, <3>2 DEF Additive
        <5>3. h[U \ {x}] \in Int
          BY <5>1, <3>4
        <5>4. g[U \cup {y}] = h[(U \ {x}) \cup {y}] + f[x] /\ g[U] = h[U \ {x}] + f[x]
          BY <4>0, <4>2, <5>1
        <5> QED BY <4>0, <5>2, <5>3, <5>4, <3>3
      <4>3. CASE y # x /\ x \notin U
        <5>1. U \in SUBSET R /\ y \in R \ U /\ x \notin U \cup {y}
          BY <4>3
        <5>2. h[U \cup {y}] = h[U] + f[y]
          BY <5>1, <3>2 DEF Additive
        <5> QED BY <4>0, <5>1, <5>2
      <4> QED BY <4>1, <4>2, <4>3
    <3>9. ASSUME \A z \in T : f[z] >= 0
          PROVE  \A U \in SUBSET T : g[U] >= 0
      <4> SUFFICES ASSUME NEW U \in SUBSET T PROVE g[U] >= 0
        OBVIOUS
      <4>1. \A V \in SUBSET R : h[V] >= 0 /\ h[V] \in Int
        BY <3>2, <3>4, <3>9
      <4>2. f[x] >= 0
        BY <3>1, <3>9
      <4> QED BY <3>3, <3>5, <4>1, <4>2
    <3>10. Additive(g, f, T)
      <4> HIDE DEF g
      <4> QED BY <3>6, <3>7, <3>8 DEF Additive
    <3> QED BY <2>1, <3>9, <3>10
  <2> QED BY <2>2, <2>3
<1> QED BY <1>1, <1>2

\* SumFunctionOnSet, with the fold it is defined by written out.
LEMMA SumIter ==
  ASSUME NEW f, NEW S
  PROVE  SumFunctionOnSet(f, S) =
           (CHOOSE g : g = [s \in SUBSET S |->
                             IF s = {} THEN 0
                             ELSE f[CHOOSE x \in s : TRUE] + g[s \ {CHOOSE x \in s : TRUE}]])[S]
BY Zenon DEF SumFunctionOnSet, FoldFunctionOnSet, MapThenFoldSet

\* The sum is what any such function says it is.
LEMMA SumUnique ==
  ASSUME NEW S, IsFiniteSet(S), NEW f, \A x \in S : f[x] \in Int,
         NEW g, Additive(g, f, S)
  PROVE  SumFunctionOnSet(f, S) = g[S]
<1> DEFINE P(s) == CHOOSE x \in s : TRUE
           Iter(h) == [s \in SUBSET S |-> IF s = {} THEN 0 ELSE f[P(s)] + h[s \ {P(s)}]]
           h == CHOOSE h : h = Iter(h)
<1>1. \A s \in SUBSET S : s # {} => P(s) \in s
  OBVIOUS
<1> HIDE DEF P
<1>2. g = Iter(g)
  <2>1. g \in [SUBSET S -> Int] /\ g[{}] = 0
    BY DEF Additive
  <2>2. ASSUME NEW s \in SUBSET S, s # {}
        PROVE  g[s] = f[P(s)] + g[s \ {P(s)}]
    <3>1. P(s) \in s
      BY <1>1, <2>2
    <3>2. s \ {P(s)} \in SUBSET S /\ P(s) \in S \ (s \ {P(s)}) /\ (s \ {P(s)}) \cup {P(s)} = s
      BY <3>1
    <3>3. g[(s \ {P(s)}) \cup {P(s)}] = g[s \ {P(s)}] + f[P(s)]
      BY <3>2 DEF Additive
    <3>4. g[s \ {P(s)}] \in Int /\ f[P(s)] \in Int
      BY <2>1, <3>2
    <3>5. g[s] = g[s \ {P(s)}] + f[P(s)]
      BY <3>2, <3>3
    <3> QED BY <3>4, <3>5
  <2>3. Iter(g) = [s \in SUBSET S |-> g[s]]
    BY <2>1, <2>2
  <2> QED BY <2>1, <2>3
<1>3. h = Iter(h)
  BY <1>2
<1> HIDE DEF h
<1>4. h[{}] = 0 /\ \A s \in SUBSET S : s # {} => h[s] = f[P(s)] + h[s \ {P(s)}]
  BY <1>3
<1>5. g[{}] = 0 /\ \A s \in SUBSET S : s # {} => g[s] = f[P(s)] + g[s \ {P(s)}]
  BY <1>2
<1> DEFINE F == {s \in SUBSET S : h[s] # g[s]}
<1>6. F = {}
  <2> SUFFICES ASSUME F # {} PROVE FALSE
    OBVIOUS
  <2>1. PICK s \in F : \A x \in s : s \ {x} \notin F
    BY SmallestSubset
  <2>2. s # {}
    BY <1>4, <1>5
  <2>3. P(s) \in s /\ s \ {P(s)} \in SUBSET S
    BY <1>1, <2>2
  <2>4. h[s \ {P(s)}] = g[s \ {P(s)}]
    BY <2>1, <2>3
  <2> QED BY <1>4, <1>5, <2>1, <2>2, <2>4
<1>7. SumFunctionOnSet(f, S) = h[S]
  BY SumIter DEF h, P
<1> QED BY <1>6, <1>7

\* Sums over the subsets of a finite set of indices.
LEMMA SumsAdditive ==
  ASSUME NEW S, IsFiniteSet(S), NEW f, \A x \in S : f[x] \in Int
  PROVE  Additive([T \in SUBSET S |-> SumFunctionOnSet(f, T)], f, S)
<1>1. PICK g : Additive(g, f, S)
  BY AdditiveExists
<1>2. ASSUME NEW T \in SUBSET S
      PROVE  SumFunctionOnSet(f, T) = g[T]
  <2> DEFINE h == [U \in SUBSET T |-> g[U]]
  <2>1. Additive(h, f, T)
    BY <1>1 DEF Additive
  <2>2. IsFiniteSet(T)
    BY FS_Subset
  <2>3. \A x \in T : f[x] \in Int
    OBVIOUS
  <2>4. h[T] = g[T]
    OBVIOUS
  <2> HIDE DEF h
  <2>5. SumFunctionOnSet(f, T) = h[T]
    BY <2>1, <2>2, <2>3, SumUnique
  <2> QED BY <2>4, <2>5
<1>3. g \in [SUBSET S -> Int]
  BY <1>1 DEF Additive
<1>4. [T \in SUBSET S |-> SumFunctionOnSet(f, T)] = g
  BY <1>2, <1>3
<1> QED BY <1>1, <1>4

\* A sum over nothing is 0.
LEMMA SumEmpty ==
  ASSUME NEW f
  PROVE  SumFunctionOnSet(f, {}) = 0
<1>1. Additive([T \in SUBSET {} |-> SumFunctionOnSet(f, T)], f, {})
  BY SumsAdditive, FS_EmptySet
<1> QED BY <1>1 DEF Additive

\* A sum of integers is an integer.
LEMMA SumType ==
  ASSUME NEW S, IsFiniteSet(S), NEW f, \A x \in S : f[x] \in Int
  PROVE  SumFunctionOnSet(f, S) \in Int
<1>1. Additive([T \in SUBSET S |-> SumFunctionOnSet(f, T)], f, S)
  BY SumsAdditive
<1>2. [T \in SUBSET S |-> SumFunctionOnSet(f, T)] \in [SUBSET S -> Int] /\ S \in SUBSET S
  BY <1>1 DEF Additive
<1> QED BY <1>2

\* One more index adds its value.
LEMMA SumAdd ==
  ASSUME NEW S, IsFiniteSet(S), NEW f, \A x \in S : f[x] \in Int,
         NEW x \in S
  PROVE  SumFunctionOnSet(f, S) = SumFunctionOnSet(f, S \ {x}) + f[x]
<1> DEFINE g == [T \in SUBSET S |-> SumFunctionOnSet(f, T)]
<1>1. Additive(g, f, S)
  BY SumsAdditive
<1>2. S \ {x} \in SUBSET S /\ x \in S \ (S \ {x}) /\ (S \ {x}) \cup {x} = S /\ S \in SUBSET S
  OBVIOUS
<1>3. g[S] = SumFunctionOnSet(f, S) /\ g[S \ {x}] = SumFunctionOnSet(f, S \ {x})
  OBVIOUS
<1> HIDE DEF g
<1>4. g[(S \ {x}) \cup {x}] = g[S \ {x}] + f[x]
  BY <1>1, <1>2 DEF Additive
<1> QED BY <1>2, <1>3, <1>4

\* A sum of naturals is a natural number and at least each of its terms.
LEMMA SumNat ==
  ASSUME NEW S, IsFiniteSet(S), NEW f, \A x \in S : f[x] \in Nat
  PROVE  /\ SumFunctionOnSet(f, S) \in Nat
         /\ \A x \in S : f[x] <= SumFunctionOnSet(f, S)
<1>1. \A x \in S : f[x] \in Int /\ f[x] >= 0
  OBVIOUS
<1>2. ASSUME NEW T \in SUBSET S
      PROVE  SumFunctionOnSet(f, T) \in Nat
  <2>1. IsFiniteSet(T) /\ \A x \in T : f[x] \in Int /\ f[x] >= 0
    BY <1>1, FS_Subset
  <2>2. PICK g : Additive(g, f, T) /\ ((\A x \in T : f[x] >= 0) => \A U \in SUBSET T : g[U] >= 0)
    BY <2>1, AdditiveExists
  <2>3. SumFunctionOnSet(f, T) = g[T]
    BY <2>1, <2>2, SumUnique
  <2>4. g[T] \in Int /\ g[T] >= 0
    BY <2>1, <2>2 DEF Additive
  <2> QED BY <2>3, <2>4
<1>3. ASSUME NEW x \in S
      PROVE  f[x] <= SumFunctionOnSet(f, S)
  <2>1. SumFunctionOnSet(f, S) = SumFunctionOnSet(f, S \ {x}) + f[x]
    BY <1>1, SumAdd
  <2>2. SumFunctionOnSet(f, S \ {x}) \in Nat /\ f[x] \in Nat
    BY <1>2
  <2> QED BY <2>1, <2>2
<1> QED BY <1>2, <1>3

\* Two functions that agree on the indices have the same sum.
LEMMA SumSame ==
  ASSUME NEW S, IsFiniteSet(S), NEW f, \A x \in S : f[x] \in Int,
         NEW h, \A x \in S : h[x] = f[x]
  PROVE  SumFunctionOnSet(h, S) = SumFunctionOnSet(f, S)
<1>1. PICK g : Additive(g, f, S)
  BY AdditiveExists
<1>2. Additive(g, h, S)
  BY <1>1 DEF Additive
<1>3. \A x \in S : h[x] \in Int
  OBVIOUS
<1>4. SumFunctionOnSet(h, S) = g[S]
  BY <1>2, <1>3, SumUnique
<1>5. SumFunctionOnSet(f, S) = g[S]
  BY <1>1, SumUnique
<1> QED BY <1>4, <1>5

\* Changing one term changes the sum by as much.
LEMMA SumChanged ==
  ASSUME NEW S, IsFiniteSet(S), NEW f, \A x \in S : f[x] \in Int,
         NEW a \in S, NEW h, h[a] \in Int, \A x \in S \ {a} : h[x] = f[x]
  PROVE  SumFunctionOnSet(h, S) = SumFunctionOnSet(f, S) - f[a] + h[a]
<1>1. \A x \in S : h[x] \in Int
  OBVIOUS
<1>2. SumFunctionOnSet(f, S) = SumFunctionOnSet(f, S \ {a}) + f[a]
  BY SumAdd
<1>3. SumFunctionOnSet(h, S) = SumFunctionOnSet(h, S \ {a}) + h[a]
  BY <1>1, SumAdd
<1>4. IsFiniteSet(S \ {a})
  BY FS_RemoveElement
<1>5. SumFunctionOnSet(h, S \ {a}) = SumFunctionOnSet(f, S \ {a})
  BY <1>4, SumSame
<1>6. SumFunctionOnSet(f, S \ {a}) \in Int
  BY <1>4, SumType
<1> QED BY <1>2, <1>3, <1>5, <1>6

\* A sum of sums.
LEMMA SumPlus ==
  ASSUME NEW S, IsFiniteSet(S), NEW f, \A x \in S : f[x] \in Int,
         NEW e, \A x \in S : e[x] \in Int,
         NEW h, \A x \in S : h[x] = f[x] + e[x]
  PROVE  SumFunctionOnSet(h, S) = SumFunctionOnSet(f, S) + SumFunctionOnSet(e, S)
<1>1. PICK g : Additive(g, f, S)
  BY AdditiveExists
<1>2. PICK k : Additive(k, e, S)
  BY AdditiveExists
<1> DEFINE m == [T \in SUBSET S |-> g[T] + k[T]]
<1>3. g \in [SUBSET S -> Int] /\ k \in [SUBSET S -> Int] /\ g[{}] = 0 /\ k[{}] = 0
  BY <1>1, <1>2 DEF Additive
<1>4. m \in [SUBSET S -> Int] /\ m[{}] = 0
  BY <1>3
<1>5. ASSUME NEW T \in SUBSET S, NEW x \in S \ T
      PROVE  m[T \cup {x}] = m[T] + h[x]
  <2>1. g[T \cup {x}] = g[T] + f[x] /\ k[T \cup {x}] = k[T] + e[x]
    BY <1>1, <1>2 DEF Additive
  <2>2. T \cup {x} \in SUBSET S /\ g[T] \in Int /\ k[T] \in Int /\ f[x] \in Int /\ e[x] \in Int
    BY <1>3
  <2>3. m[T \cup {x}] = g[T \cup {x}] + k[T \cup {x}] /\ m[T] = g[T] + k[T]
    BY <2>2
  <2>4. h[x] = f[x] + e[x]
    OBVIOUS
  <2> HIDE DEF m
  <2> QED BY <2>1, <2>2, <2>3, <2>4
<1>6. m[S] = g[S] + k[S]
  OBVIOUS
<1> HIDE DEF m
<1>7. Additive(m, h, S)
  BY <1>4, <1>5 DEF Additive
<1>8. \A x \in S : h[x] \in Int
  OBVIOUS
<1>9. SumFunctionOnSet(h, S) = m[S]
  BY <1>7, <1>8, SumUnique
<1>10. SumFunctionOnSet(f, S) = g[S] /\ SumFunctionOnSet(e, S) = k[S]
  BY <1>1, <1>2, SumUnique
<1> QED BY <1>6, <1>9, <1>10

\* A sum over fewer indices is not larger.
LEMMA SumSubset ==
  ASSUME NEW S, IsFiniteSet(S), NEW f, \A x \in S : f[x] \in Nat, NEW T \in SUBSET S
  PROVE  SumFunctionOnSet(f, T) <= SumFunctionOnSet(f, S)
<1> DEFINE F == {U \in SUBSET S : T \subseteq U /\ ~(SumFunctionOnSet(f, T) <= SumFunctionOnSet(f, U))}
<1>1. \A U \in SUBSET S : IsFiniteSet(U) /\ SumFunctionOnSet(f, U) \in Nat
  BY FS_Subset, SumNat
<1>2. F = {}
  <2> SUFFICES ASSUME F # {} PROVE FALSE
    OBVIOUS
  <2>0. F \in SUBSET (SUBSET S)
    OBVIOUS
  <2>1. PICK U \in F : \A x \in U : U \ {x} \notin F
    <3> HIDE DEF F
    <3> QED BY <2>0, SmallestSubset
  <2>2. U # T
    BY <1>1, <2>1
  <2>3. PICK x \in U : x \notin T
    BY <2>1, <2>2
  <2>4. U \ {x} \in SUBSET S /\ T \subseteq U \ {x} /\ f[x] \in Nat /\ \A y \in U : f[y] \in Int
    BY <2>1, <2>3
  <2>5. SumFunctionOnSet(f, T) <= SumFunctionOnSet(f, U \ {x})
    BY <2>1, <2>3, <2>4
  <2>6. SumFunctionOnSet(f, U) = SumFunctionOnSet(f, U \ {x}) + f[x]
    BY <1>1, <2>1, <2>3, <2>4, SumAdd
  <2>7. /\ SumFunctionOnSet(f, T) \in Nat /\ SumFunctionOnSet(f, U \ {x}) \in Nat
        /\ SumFunctionOnSet(f, U) \in Nat
    BY <1>1, <2>1, <2>4
  <2>8. SumFunctionOnSet(f, T) <= SumFunctionOnSet(f, U)
    BY <2>4, <2>5, <2>6, <2>7
  <2> QED BY <2>1, <2>8
<1> QED BY <1>2

\* What Min returns.
LEMMA MinOf ==
  ASSUME NEW S \in SUBSET Nat, S # {}
  PROVE  Min(S) \in S /\ \A y \in S : Min(S) <= y
BY LeastOf DEF Min

\* Max of a finite set of naturals is its greatest element.
LEMMA MaxOf ==
  ASSUME NEW S \in SUBSET Nat, IsFiniteSet(S), S # {}
  PROVE  Max(S) \in S /\ \A y \in S : y <= Max(S)
<1> DEFINE F == {T \in SUBSET S : T # {} /\ \A x \in T : \E y \in T : ~(y <= x)}
<1>1. F = {}
  <2> SUFFICES ASSUME F # {} PROVE FALSE
    OBVIOUS
  <2>0. F \in SUBSET (SUBSET S)
    OBVIOUS
  <2>1. PICK T \in F : \A x \in T : T \ {x} \notin F
    <3> HIDE DEF F
    <3> QED BY <2>0, SmallestSubset
  <2>2. PICK x : x \in T
    BY <2>1
  <2>3. CASE T \ {x} = {}
    <3>1. \A y \in T : y = x
      BY <2>3
    <3>2. x \in Nat
      BY <2>1, <2>2
    <3> QED BY <2>1, <2>2, <3>1, <3>2
  <2>4. CASE T \ {x} # {}
    <3>1. PICK z \in T \ {x} : \A y \in T \ {x} : y <= z
      BY <2>1, <2>2, <2>4
    <3>2. x \in Nat /\ z \in Nat /\ \A y \in T : y \in Nat
      BY <2>1, <2>2, <3>1
    <3>3. CASE x <= z
      BY <2>1, <3>1, <3>2, <3>3
    <3>4. CASE ~(x <= z)
      <4>1. \A y \in T : y <= x
        BY <3>1, <3>2, <3>4
      <4> QED BY <2>1, <2>2, <4>1
    <3> QED BY <3>3, <3>4
  <2> QED BY <2>3, <2>4
<1>2. PICK x \in S : \A y \in S : y <= x
  BY <1>1
<1>3. \A y \in S : x >= y
  BY <1>2
<1>4. Max(S) \in S /\ \A y \in S : Max(S) >= y
  BY <1>3 DEF Max
<1> QED BY <1>4

\* It stays the greatest of what is left with it.
LEMMA MaxStays ==
  ASSUME NEW S \in SUBSET Nat, IsFiniteSet(S), NEW T \in SUBSET S, Max(S) \in T
  PROVE  Max(T) = Max(S)
<1>1. S # {} /\ T # {} /\ T \in SUBSET Nat /\ IsFiniteSet(T)
  BY FS_Subset
<1>2. Max(S) \in S /\ \A y \in S : y <= Max(S)
  BY <1>1, MaxOf
<1>3. Max(T) \in T /\ \A y \in T : y <= Max(T)
  BY <1>1, MaxOf
<1>4. Max(T) \in Nat /\ Max(S) \in Nat /\ Max(T) <= Max(S) /\ Max(S) <= Max(T)
  BY <1>2, <1>3
<1> QED BY <1>4

\* A sum of zeros.
LEMMA SumZero ==
  ASSUME NEW S, IsFiniteSet(S), NEW f, \A x \in S : f[x] = 0
  PROVE  SumFunctionOnSet(f, S) = 0
<1>1. \A x \in S : f[x] \in Int /\ f[x] = f[x] + f[x]
  OBVIOUS
<1>2. SumFunctionOnSet(f, S) = SumFunctionOnSet(f, S) + SumFunctionOnSet(f, S)
  BY <1>1, SumPlus
<1>3. \A x \in S : f[x] \in Int
  BY <1>1
<1> DEFINE s == SumFunctionOnSet(f, S)
<1>4. s \in Int
  BY <1>3, SumType
<1> HIDE DEF s
<1>5. s = s + s
  BY <1>2 DEF s
<1>6. s = 0
  BY <1>4, <1>5
<1> QED BY <1>6 DEF s

\* A sum of which only one term is not zero.
LEMMA SumSingle ==
  ASSUME NEW S, IsFiniteSet(S), NEW f, NEW a \in S, f[a] \in Int,
         \A x \in S \ {a} : f[x] = 0
  PROVE  SumFunctionOnSet(f, S) = f[a]
<1> DEFINE z == [x \in S |-> 0]
<1>1. \A x \in S : z[x] \in Int /\ z[x] = 0
  OBVIOUS
<1> HIDE DEF z
<1>2. SumFunctionOnSet(z, S) = 0
  BY <1>1, SumZero
<1>3. \A x \in S \ {a} : f[x] = z[x]
  BY <1>1
<1>4. SumFunctionOnSet(f, S) = SumFunctionOnSet(z, S) - z[a] + f[a]
  BY <1>1, <1>3, SumChanged
<1> QED BY <1>1, <1>2, <1>4

\* A sum over two sets that have nothing in common.
LEMMA SumUnion ==
  ASSUME NEW S, IsFiniteSet(S), NEW T, IsFiniteSet(T), S \cap T = {},
         NEW f, \A x \in S \cup T : f[x] \in Int
  PROVE  SumFunctionOnSet(f, S \cup T) = SumFunctionOnSet(f, S) + SumFunctionOnSet(f, T)
<1> DEFINE Sum(U) == SumFunctionOnSet(f, U)
           F == {U \in SUBSET T : Sum(S \cup U) # Sum(S) + Sum(U)}
<1>1. \A U \in SUBSET T : /\ IsFiniteSet(U) /\ IsFiniteSet(S \cup U) /\ Sum(U) \in Int
                          /\ Sum(S) \in Int
  <2> TAKE U \in SUBSET T
  <2>1. IsFiniteSet(U)
    BY FS_Subset
  <2>2. IsFiniteSet(S \cup U)
    BY <2>1, FS_Union
  <2>3. (\A x \in U : f[x] \in Int) /\ \A x \in S : f[x] \in Int
    OBVIOUS
  <2> QED BY <2>1, <2>2, <2>3, SumType
<1>2. F = {}
  <2> SUFFICES ASSUME F # {} PROVE FALSE
    OBVIOUS
  <2>0. F \in SUBSET (SUBSET T)
    OBVIOUS
  <2>1. PICK U \in F : \A x \in U : U \ {x} \notin F
    <3> HIDE DEF F
    <3> QED BY <2>0, SmallestSubset
  <2>2. U \in SUBSET T /\ Sum(S \cup U) # Sum(S) + Sum(U)
    OBVIOUS
  <2>3. U # {}
    <3>1. Sum({}) = 0
      BY SumEmpty
    <3>2. Sum(S) \in Int /\ S \cup {} = S
      BY <1>1
    <3> HIDE DEF Sum
    <3> QED BY <2>2, <3>1, <3>2
  <2>4. PICK x : x \in U
    BY <2>3
  <2> DEFINE R == U \ {x}
  <2>5. R \in SUBSET T /\ Sum(S \cup R) = Sum(S) + Sum(R)
    BY <2>1, <2>2, <2>4
  <2>6. IsFiniteSet(U) /\ IsFiniteSet(S \cup U) /\ Sum(R) \in Int /\ Sum(S) \in Int /\ f[x] \in Int
        /\ (\A y \in U : f[y] \in Int) /\ \A y \in S \cup U : f[y] \in Int
    BY <1>1, <2>2, <2>4, <2>5
  <2>7. (S \cup U) \ {x} = S \cup R /\ x \in S \cup U
    BY <2>2, <2>4
  <2>8. Sum(U) = Sum(R) + f[x]
    BY <2>4, <2>6, SumAdd
  <2>9. Sum(S \cup U) = Sum((S \cup U) \ {x}) + f[x]
    <3> DEFINE V == S \cup U
    <3>1. IsFiniteSet(V) /\ x \in V /\ \A y \in V : f[y] \in Int
      BY <2>6, <2>7
    <3> HIDE DEF V
    <3>2. Sum(V) = Sum(V \ {x}) + f[x]
      BY <3>1, SumAdd
    <3> QED BY <3>2 DEF V
  <2> HIDE DEF Sum, R, F
  <2>10. Sum(S \cup U) = Sum(S \cup R) + f[x]
    BY <2>7, <2>9
  <2>11. Sum(S \cup U) = Sum(S) + Sum(U)
    BY <2>5, <2>6, <2>8, <2>10
  <2> QED BY <2>2, <2>11
<1> QED BY <1>2

\* A sum over places counted from another start.
LEMMA SumShift ==
  ASSUME NEW s \in Nat, NEW n \in Nat, NEW f, \A j \in 0..n : f[j] \in Int,
         NEW h, \A j \in 0..n : h[s + j] = f[j]
  PROVE  SumFunctionOnSet(h, s..(s + n)) = SumFunctionOnSet(f, 0..n)
<1> DEFINE Same(m) == SumFunctionOnSet(h, s..(s + m)) = SumFunctionOnSet(f, 0..m)
           F == {m \in 0..n : ~Same(m)}
<1>1. F = {}
  <2> SUFFICES ASSUME F # {} PROVE FALSE
    OBVIOUS
  <2>1. PICK m \in F : \A k \in F : m <= k
    <3>1. F \in SUBSET Nat
      OBVIOUS
    <3> HIDE DEF F
    <3> QED BY <3>1, LeastOf
  <2>2. m \in 0..n /\ ~Same(m)
    OBVIOUS
  <2> HIDE DEF F
  <2> DEFINE e == s + m
             A == s..e
             B == 0..m
  <2>3. IsFiniteSet(A) /\ IsFiniteSet(B) /\ e \in A /\ m \in B
    BY <2>2, FS_Interval
  <2>4. (\A k \in B : f[k] \in Int) /\ f[m] \in Int /\ h[e] = f[m]
    BY <2>2
  <2>5. \A k \in A : h[k] \in Int
    <3> TAKE k \in A
    <3>1. k - s \in 0..n /\ s + (k - s) = k
      BY <2>2
    <3> QED BY <3>1
  <2> DEFINE A1 == A \ {e}
             B1 == B \ {m}
  <2>6. SumFunctionOnSet(h, A) = SumFunctionOnSet(h, A1) + h[e]
    <3> HIDE DEF A, e, Same
    <3> QED BY <2>3, <2>5, SumAdd
  <2>7. SumFunctionOnSet(f, B) = SumFunctionOnSet(f, B1) + f[m]
    <3> HIDE DEF B, Same
    <3> QED BY <2>3, <2>4, SumAdd
  <2>8. SumFunctionOnSet(h, A1) = SumFunctionOnSet(f, B1)
    <3>1. CASE m = 0
      <4>1. A1 = {} /\ B1 = {}
        BY <3>1
      <4> HIDE DEF A1, B1
      <4> QED BY <4>1, SumEmpty
    <3>2. CASE m # 0
      <4>1. m - 1 \in 0..n /\ ~(m <= m - 1)
        BY <2>2, <3>2
      <4>2. m - 1 \notin F
        BY <2>1, <4>1
      <4>5. Same(m - 1)
        BY <4>1, <4>2 DEF F
      <4>3. s..(s + (m - 1)) = A1
        BY <2>2, <3>2
      <4>4. 0..(m - 1) = B1
        BY <2>2, <3>2
      <4> HIDE DEF A1, B1
      <4> QED BY <4>3, <4>4, <4>5
    <3> QED BY <3>1, <3>2
  <2>9. SumFunctionOnSet(h, A) = SumFunctionOnSet(f, B)
    <3> HIDE DEF A, B, A1, B1, e, Same
    <3> QED BY <2>4, <2>6, <2>7, <2>8
  <2> QED BY <2>2, <2>9
<1>2. Same(n)
  BY <1>1
<1> QED BY <1>2

=============================================================================
