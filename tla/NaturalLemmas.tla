---------------------------- MODULE NaturalLemmas ---------------------------
(***************************************************************************)
(* Induction over the naturals as a fact about sets, and what follows from *)
(* it for the smallest and the largest element of a set of numbers, and    *)
(* for sums of a function over a finite set.                               *)
(***************************************************************************)
EXTENDS Integers, Sequences, FiniteSetsExt, Functions, FiniteSetTheorems, WellFoundedInduction, TLAPS

\* A set of naturals with an element has a smallest one.
LEMMA LeastNatural ==
    ASSUME NEW S \in SUBSET Nat, S # {}
    PROVE  \E x \in S : \A y \in S : x <= y
<1> DEFINE R == OpToRel(<, Nat)
<1>1. IsWellFoundedOn(R, Nat)
  BY NatLessThanWellFounded
<1>2. \A x, y \in Nat : y < x => <<y, x>> \in R
  BY DEF OpToRel
<1> HIDE DEF R
<1>3. \E x \in S : \A y \in S : ~ (<<y, x>> \in R)
  BY <1>1, WFMin
<1>4. PICK x \in S : \A y \in S : ~ (<<y, x>> \in R)
  BY <1>3
<1>5. \A y \in S : ~(y < x)
  BY <1>2, <1>4, Zenon
<1> QED
  BY <1>5

\* Induction: a set that holds 0 and the successor of its members holds every natural.
LEMMA NaturalsByInduction ==
    ASSUME NEW S, 0 \in S, \A n \in Nat : n \in S => n + 1 \in S
    PROVE  Nat \subseteq S
<1> DEFINE Rest == {n \in Nat : n \notin S}
<1> SUFFICES ASSUME Rest # {}
             PROVE  FALSE
  OBVIOUS
<1>1. PICK x \in Rest : \A y \in Rest : x <= y
  BY LeastNatural
<1>2. x # 0 /\ x - 1 \in Nat /\ x - 1 \notin Rest
  BY <1>1
<1> QED
  BY <1>1, <1>2

\* A finite set of naturals is bounded.
LEMMA FiniteIsBounded ==
    ASSUME NEW S \in SUBSET Nat, IsFiniteSet(S)
    PROVE  \E m \in Nat : \A x \in S : x <= m
<1> DEFINE Bounded(s) == \E m \in Nat : \A i \in 1 .. Len(s) : s[i] <= m
           L == {n \in Nat : \A s \in Seq(Nat) : Len(s) = n => Bounded(s)}
<1>1. 0 \in L
  OBVIOUS
<1>2. ASSUME NEW n \in Nat, n \in L
      PROVE  n + 1 \in L
  <2> SUFFICES ASSUME NEW s \in Seq(Nat), Len(s) = n + 1
               PROVE  Bounded(s)
    OBVIOUS
  <2> DEFINE t == [i \in 1 .. n |-> s[i]]
  <2>1. t \in Seq(Nat) /\ Len(t) = n
    OBVIOUS
  <2>2. PICK m \in Nat : \A i \in 1 .. n : t[i] <= m
    BY <1>2, <2>1
  <2>3. s[n + 1] \in Nat /\ \A i \in 1 .. n : s[i] \in Nat /\ s[i] <= m
    BY <2>2
  <2>4. \A i \in 1 .. n + 1 : s[i] <= m + s[n + 1]
    BY <2>3
  <2> QED
    BY <2>3, <2>4
<1>3. Nat \subseteq L
  <2> HIDE DEF L
  <2> QED
    BY <1>1, <1>2, NaturalsByInduction
<1>4. PICK s \in Seq(S) : \A x \in S : \E i \in 1 .. Len(s) : s[i] = x
  BY DEF IsFiniteSet
<1>5. s \in Seq(Nat) /\ Len(s) \in Nat
  <2>1. Len(s) \in Nat /\ s = [i \in 1 .. Len(s) |-> s[i]] /\ \A i \in 1 .. Len(s) : s[i] \in Nat
    OBVIOUS
  <2> QED
    BY <2>1
<1>6. Bounded(s)
  BY <1>3, <1>5
<1> QED
  BY <1>4, <1>6

\* Max and Min of finite sets of naturals are what they are meant to be.
LEMMA MaxOfFinite ==
    ASSUME NEW S \in SUBSET Nat, IsFiniteSet(S), S # {}
    PROVE  Max(S) \in S /\ \A x \in S : x <= Max(S)
<1>1. PICK m \in Nat : \A x \in S : x <= m
  BY FiniteIsBounded
<1> DEFINE Bounds == {b \in Nat : \A x \in S : x <= b}
<1>2. PICK b \in Bounds : \A c \in Bounds : b <= c
  BY <1>1, LeastNatural
<1>3. b \in S
  <2> SUFFICES ASSUME b \notin S
               PROVE  FALSE
    OBVIOUS
  <2>0. b \in Nat /\ \A x \in S : x \in Nat /\ x <= b /\ x # b
    BY <1>2
  <2>1. \A x \in S : x <= b - 1
    BY <2>0
  <2>2. b - 1 \in Nat
    <3>1. PICK x : x \in S
      OBVIOUS
    <3> QED
      BY <2>0, <3>1
  <2> QED
    BY <1>2, <2>1, <2>2
<1>4. \E x \in S : \A y \in S : x >= y
  BY <1>2, <1>3
<1>5. Max(S) \in S /\ \A y \in S : Max(S) >= y
  BY <1>4 DEF Max
<1> QED
  BY <1>5

LEMMA MinOfTwo ==
    ASSUME NEW a \in Int, NEW b \in Int
    PROVE  Min({a, b}) = IF a <= b THEN a ELSE b
<1>1. \E x \in {a, b} : \A y \in {a, b} : x <= y
  OBVIOUS
<1>2. Min({a, b}) \in {a, b} /\ \A y \in {a, b} : Min({a, b}) <= y
  BY <1>1 DEF Min
<1> QED
  BY <1>2

LEMMA MaxOfTwo ==
    ASSUME NEW a \in Int, NEW b \in Int
    PROVE  Max({a, b}) = IF a >= b THEN a ELSE b
<1>1. \E x \in {a, b} : \A y \in {a, b} : x >= y
  OBVIOUS
<1>2. Max({a, b}) \in {a, b} /\ \A y \in {a, b} : Max({a, b}) >= y
  BY <1>1 DEF Max
<1> QED
  BY <1>2

\* The numbers from 1 to n.
LEMMA FirstNumbers ==
    ASSUME NEW n \in Nat
    PROVE  IsFiniteSet(1 .. n) /\ Cardinality(1 .. n) = n
  BY FS_Interval

-----------------------------------------------------------------------------
(* Products *)

\* A product grows with a factor.
LEMMA ProductGrows ==
    ASSUME NEW a \in Nat, NEW b \in Nat, NEW c \in Nat, a <= b
    PROVE  a * c <= b * c
  OBVIOUS

\* A common factor may be dropped.
LEMMA ProductCancels ==
    ASSUME NEW a \in Nat, NEW b \in Nat, NEW c \in Nat \ {0}, a * c <= b * c
    PROVE  a <= b
<1> SUFFICES ASSUME b + 1 <= a
             PROVE  FALSE
  OBVIOUS
<1>1. (b + 1) * c <= a * c
  BY ProductGrows
<1>2. (b + 1) * c = b * c + c
  OBVIOUS
<1> QED
  BY <1>1, <1>2

\* Factors come in any order.
LEMMA ProductOrder ==
    ASSUME NEW a \in Nat, NEW b \in Nat, NEW c \in Nat
    PROVE  /\ a * b \in Nat /\ a * b = b * a
           /\ (a * b) * c = (a * c) * b
  OBVIOUS

\* a/b >= c/d and c/d >= e/f, multiplied out.
LEMMA QuotientsTransitive ==
    ASSUME NEW a \in Nat, NEW b \in Nat \ {0}, NEW c \in Nat, NEW d \in Nat \ {0}, NEW e \in Nat, NEW f \in Nat \ {0},
           a * d >= c * b, c * f >= e * d
    PROVE  a * f >= e * b
<1>1. (c * b) * f <= (a * d) * f
  BY ProductOrder, ProductGrows
<1>2. (e * d) * b <= (c * f) * b
  BY ProductOrder, ProductGrows
<1>3. (c * b) * f = (c * f) * b
  BY ProductOrder
<1>4. (a * d) * f = (a * f) * d /\ (e * d) * b = (e * b) * d
  BY ProductOrder
<1>5. (e * b) * d <= (a * f) * d
  <2>1. (e * b) * d \in Nat /\ (a * f) * d \in Nat /\ (c * f) * b \in Nat
    BY ProductOrder
  <2> QED
    BY <1>1, <1>2, <1>3, <1>4, <2>1
<1>6. e * b \in Nat /\ a * f \in Nat
  BY ProductOrder
<1>7. e * b <= a * f
  BY <1>5, <1>6, ProductCancels
<1> QED
  BY <1>6, <1>7

-----------------------------------------------------------------------------
(* Sums of a function over a finite set: SumFunctionOnSet takes the elements in some *)
(* order, and the lemmas say that the order does not matter.                          *)

\* What SumFunctionOnSet recurses with on the subsets D of S.
Summand(h, f, s) == IF s = {} THEN 0 ELSE h[CHOOSE x \in s : TRUE] + f[s \ {CHOOSE x \in s : TRUE}]
Recursion(h, D, f) == f = [s \in D |-> Summand(h, f, s)]

\* The sum is the value of the recursion at S.
LEMMA SumUnfolds ==
    ASSUME NEW h, NEW S
    PROVE  SumFunctionOnSet(h, S) = (CHOOSE f : Recursion(h, SUBSET S, f))[S]
  BY DEF SumFunctionOnSet, FoldFunctionOnSet, MapThenFoldSet, Recursion, Summand

\* One element less.
LEMMA OneLess ==
    ASSUME NEW s, IsFiniteSet(s), s # {}
    PROVE  \A x \in s : IsFiniteSet(s \ {x}) /\ Cardinality(s) \in Nat \ {0} /\ Cardinality(s \ {x}) = Cardinality(s) - 1
  BY FS_RemoveElement, FS_CardinalityType, FS_EmptySet

\* The same of a set of n + 1 elements.
LEMMA OneMoreThan ==
    ASSUME NEW s, IsFiniteSet(s), NEW n \in Nat, Cardinality(s) = n + 1
    PROVE  s # {} /\ \A x \in s : IsFiniteSet(s \ {x}) /\ Cardinality(s \ {x}) = n
<1>1. s # {}
  BY FS_EmptySet
<1>2. (n + 1) - 1 = n
  OBVIOUS
<1> QED
  BY <1>1, <1>2, OneLess

\* The recursion has a solution on a finite set.
LEMMA RecursionExists ==
    ASSUME NEW h, NEW S, IsFiniteSet(S)
    PROVE  \E f : Recursion(h, SUBSET S, f)
<1> DEFINE D(n) == {T \in SUBSET S : Cardinality(T) <= n}
           L == {n \in Nat : \E f : Recursion(h, D(n), f)}
<1>0. \A T \in SUBSET S : IsFiniteSet(T) /\ Cardinality(T) \in Nat /\ Cardinality(T) <= Cardinality(S)
  BY FS_Subset, FS_CardinalityType
<1>1. 0 \in L
  <2> DEFINE f == [s \in D(0) |-> 0]
  <2>1. \A s \in D(0) : s = {}
    BY <1>0, FS_EmptySet
  <2>2. \A s \in D(0) : Summand(h, f, s) = 0
    BY <2>1 DEF Summand
  <2>3. Recursion(h, D(0), f)
    BY <2>2 DEF Recursion
  <2> QED
    BY <2>3
<1>2. ASSUME NEW n \in Nat, n \in L
      PROVE  n + 1 \in L
  <2>1. PICK f : Recursion(h, D(n), f)
    BY <1>2
  <2> DEFINE g == [s \in D(n + 1) |-> Summand(h, f, s)]
  <2>2. \A s \in D(n) : s \in D(n + 1) /\ f[s] = Summand(h, f, s)
    <3>1. \A s \in D(n) : f[s] = Summand(h, f, s)
      BY <2>1 DEF Recursion
    <3>2. \A s \in D(n) : s \in D(n + 1)
      BY <1>0
    <3> QED
      BY <3>1, <3>2
  <2>g. \A s \in D(n + 1) : g[s] = Summand(h, f, s)
    OBVIOUS
  <2>3. \A s \in D(n) : g[s] = f[s]
    BY <2>2, <2>g
  <2>4. \A s \in D(n + 1) : s # {} => s \ {CHOOSE x \in s : TRUE} \in D(n)
    <3> SUFFICES ASSUME NEW s \in D(n + 1), s # {}
                 PROVE  s \ {CHOOSE x \in s : TRUE} \in D(n)
      OBVIOUS
    <3>1. PICK c \in s : c = CHOOSE x \in s : TRUE
      OBVIOUS
    <3>2. Cardinality(s \ {c}) = Cardinality(s) - 1 /\ Cardinality(s) \in Nat
      BY <1>0, OneLess
    <3> QED
      BY <3>1, <3>2
  <2> HIDE DEF g, D
  <2>5. \A s \in D(n + 1) : Summand(h, f, s) = Summand(h, g, s)
    BY <2>3, <2>4 DEF Summand
  <2>6. g = [s \in D(n + 1) |-> Summand(h, g, s)]
    BY <2>5 DEF g
  <2>7. Recursion(h, D(n + 1), g)
    BY <2>6 DEF Recursion
  <2> QED
    BY <2>7
<1>3. Nat \subseteq L
  <2> HIDE DEF L
  <2> QED
    BY <1>1, <1>2, NaturalsByInduction
<1>4. Cardinality(S) \in Nat /\ D(Cardinality(S)) = SUBSET S
  BY <1>0, FS_CardinalityType
<1> HIDE DEF D
<1> QED
  BY <1>3, <1>4

\* Two solutions agree where both are defined.
LEMMA RecursionUnique ==
    ASSUME NEW h, NEW S, NEW T, NEW f, NEW g, Recursion(h, SUBSET S, f), Recursion(h, SUBSET T, g)
    PROVE  \A U \in SUBSET S : U \subseteq T /\ IsFiniteSet(U) => f[U] = g[U]
<1> DEFINE L == {n \in Nat : \A U \in SUBSET S : U \subseteq T /\ IsFiniteSet(U) /\ Cardinality(U) = n => f[U] = g[U]}
<1>0. /\ \A U \in SUBSET S : f[U] = Summand(h, f, U)
      /\ \A U \in SUBSET T : g[U] = Summand(h, g, U)
  BY DEF Recursion
<1>1. 0 \in L
  <2> SUFFICES ASSUME NEW U \in SUBSET S, U \subseteq T, IsFiniteSet(U), Cardinality(U) = 0
               PROVE  f[U] = g[U]
    OBVIOUS
  <2>1. U = {}
    BY FS_EmptySet
  <2> QED
    BY <1>0, <2>1 DEF Summand
<1>2. ASSUME NEW n \in Nat, n \in L
      PROVE  n + 1 \in L
  <2> SUFFICES ASSUME NEW U \in SUBSET S, U \subseteq T, IsFiniteSet(U), Cardinality(U) = n + 1
               PROVE  f[U] = g[U]
    OBVIOUS
  <2>1. U # {} /\ \A x \in U : IsFiniteSet(U \ {x}) /\ Cardinality(U \ {x}) = n
    BY OneMoreThan
  <2>2. PICK c \in U : c = CHOOSE x \in U : TRUE
    BY <2>1
  <2>3. IsFiniteSet(U \ {c}) /\ Cardinality(U \ {c}) = n
    BY <2>1
  <2>4. f[U \ {c}] = g[U \ {c}]
    BY <1>2, <2>3
  <2>5. f[U] = h[c] + f[U \ {c}] /\ g[U] = h[c] + g[U \ {c}]
    BY <1>0, <2>1, <2>2 DEF Summand
  <2> QED
    BY <2>4, <2>5
<1>3. Nat \subseteq L
  <2> HIDE DEF L
  <2> QED
    BY <1>1, <1>2, NaturalsByInduction
<1> QED
  BY <1>3, FS_CardinalityType

\* The equation of the sum.
LEMMA SumEquation ==
    /\ \A h : SumFunctionOnSet(h, {}) = 0
    /\ \A h, S : IsFiniteSet(S) /\ S # {} =>
           \E c \in S : SumFunctionOnSet(h, S) = h[c] + SumFunctionOnSet(h, S \ {c})
<1> DEFINE F(h, S) == CHOOSE f : Recursion(h, SUBSET S, f)
<1>1. ASSUME NEW h, NEW S, IsFiniteSet(S)
      PROVE  Recursion(h, SUBSET S, F(h, S)) /\ SumFunctionOnSet(h, S) = F(h, S)[S]
  <2>1. \E f : Recursion(h, SUBSET S, f)
    BY <1>1, RecursionExists
  <2>2. Recursion(h, SUBSET S, F(h, S))
    BY <2>1, Zenon
  <2> QED
    BY <2>2, SumUnfolds
<1> HIDE DEF F
<1>2. ASSUME NEW h
      PROVE  SumFunctionOnSet(h, {}) = 0
  <2>1. IsFiniteSet({}) /\ {} \in SUBSET {}
    BY FS_EmptySet
  <2>2. F(h, {})[{}] = Summand(h, F(h, {}), {})
    BY <1>1, <2>1 DEF Recursion
  <2> QED
    BY <1>1, <2>1, <2>2 DEF Summand
<1>3. ASSUME NEW h, NEW S, IsFiniteSet(S), S # {}
      PROVE  \E c \in S : SumFunctionOnSet(h, S) = h[c] + SumFunctionOnSet(h, S \ {c})
  <2>1. PICK c \in S : c = CHOOSE x \in S : TRUE
    BY <1>3
  <2>2. F(h, S)[S] = h[c] + F(h, S)[S \ {c}]
    <3>1. F(h, S)[S] = Summand(h, F(h, S), S)
      BY <1>1, <1>3 DEF Recursion
    <3> QED
      BY <1>3, <2>1, <3>1 DEF Summand
  <2>3. IsFiniteSet(S \ {c})
    BY <1>3, FS_RemoveElement
  <2>4. F(h, S)[S \ {c}] = F(h, S \ {c})[S \ {c}]
    <3>1. PICK T : T = S \ {c}
      OBVIOUS
    <3>2. PICK f : f = F(h, S)
      OBVIOUS
    <3>3. PICK g : g = F(h, T)
      OBVIOUS
    <3>4. Recursion(h, SUBSET S, f) /\ Recursion(h, SUBSET T, g) /\ IsFiniteSet(T) /\ T \in SUBSET S
      BY <1>1, <1>3, <2>3, <3>1, <3>2, <3>3
    <3>5. f[T] = g[T]
      BY <3>4, RecursionUnique
    <3> QED
      BY <3>1, <3>2, <3>3, <3>5
  <2> QED
    BY <1>1, <1>3, <2>2, <2>3, <2>4
<1> QED
  BY <1>2, <1>3

\* A sum of naturals is a natural.
LEMMA SumType ==
    ASSUME NEW D, NEW h \in [D -> Nat]
    PROVE  \A S \in SUBSET D : IsFiniteSet(S) => SumFunctionOnSet(h, S) \in Nat
<1> DEFINE L == {n \in Nat : \A S \in SUBSET D : IsFiniteSet(S) /\ Cardinality(S) = n => SumFunctionOnSet(h, S) \in Nat}
<1>1. 0 \in L
  <2>1. \A S : IsFiniteSet(S) /\ Cardinality(S) = 0 => S = {}
    BY FS_EmptySet
  <2>2. SumFunctionOnSet(h, {}) = 0
    BY SumEquation
  <2> QED
    BY <2>1, <2>2
<1>2. ASSUME NEW n \in Nat, n \in L
      PROVE  n + 1 \in L
  <2> SUFFICES ASSUME NEW S \in SUBSET D, IsFiniteSet(S), Cardinality(S) = n + 1
               PROVE  SumFunctionOnSet(h, S) \in Nat
    OBVIOUS
  <2>1. S # {} /\ \A x \in S : IsFiniteSet(S \ {x}) /\ Cardinality(S \ {x}) = n
    BY OneMoreThan
  <2>2. PICK c \in S : SumFunctionOnSet(h, S) = h[c] + SumFunctionOnSet(h, S \ {c})
    BY <2>1, SumEquation
  <2>3. SumFunctionOnSet(h, S \ {c}) \in Nat /\ h[c] \in Nat
    BY <1>2, <2>1
  <2> QED
    BY <2>2, <2>3
<1>3. Nat \subseteq L
  <2> HIDE DEF L
  <2> QED
    BY <1>1, <1>2, NaturalsByInduction
<1> QED
  BY <1>3, FS_CardinalityType

\* It may be taken from any element on.
LEMMA SumAnyElement ==
    ASSUME NEW D, NEW h \in [D -> Nat]
    PROVE  \A S \in SUBSET D : IsFiniteSet(S) =>
               \A x \in S : SumFunctionOnSet(h, S) = h[x] + SumFunctionOnSet(h, S \ {x})
<1> DEFINE Any(S) == \A x \in S : SumFunctionOnSet(h, S) = h[x] + SumFunctionOnSet(h, S \ {x})
           L == {n \in Nat : \A S \in SUBSET D : IsFiniteSet(S) /\ Cardinality(S) = n => Any(S)}
<1>1. 0 \in L
  <2>1. \A S : IsFiniteSet(S) /\ Cardinality(S) = 0 => S = {}
    BY FS_EmptySet
  <2> QED
    BY <2>1
<1>2. ASSUME NEW n \in Nat, n \in L
      PROVE  n + 1 \in L
  <2> SUFFICES ASSUME NEW S \in SUBSET D, IsFiniteSet(S), Cardinality(S) = n + 1
               PROVE  Any(S)
    OBVIOUS
  <2>1. S # {} /\ \A x \in S : IsFiniteSet(S \ {x}) /\ Cardinality(S \ {x}) = n
    BY OneMoreThan
  <2>2. PICK c \in S : SumFunctionOnSet(h, S) = h[c] + SumFunctionOnSet(h, S \ {c})
    BY <2>1, SumEquation
  <2>3. \A x \in S : Any(S \ {x})
    BY <1>2, <2>1
  <2>4. ASSUME NEW x \in S, x # c
        PROVE  SumFunctionOnSet(h, S) = h[x] + SumFunctionOnSet(h, S \ {x})
    <3> DEFINE R == SumFunctionOnSet(h, S \ {x, c})
    <3>1. (S \ {c}) \ {x} = S \ {x, c} /\ (S \ {x}) \ {c} = S \ {x, c}
      OBVIOUS
    <3>2. SumFunctionOnSet(h, S \ {c}) = h[x] + R
      BY <2>3, <2>4, <3>1
    <3>3. SumFunctionOnSet(h, S \ {x}) = h[c] + R
      BY <2>3, <2>4, <3>1
    <3>4. h[x] \in Nat /\ h[c] \in Nat
      OBVIOUS
    <3>5. R \in Nat
      <4>1. IsFiniteSet(S \ {x, c})
        BY FS_Subset
      <4> QED
        BY <4>1, SumType
    <3> HIDE DEF R
    <3> QED
      BY <2>2, <3>2, <3>3, <3>4, <3>5
  <2> QED
    BY <2>2, <2>4
<1>3. Nat \subseteq L
  <2> HIDE DEF L
  <2> QED
    BY <1>1, <1>2, NaturalsByInduction
<1> QED
  BY <1>3, FS_CardinalityType

\* Two parts add up.
LEMMA SumOfParts ==
    ASSUME NEW D, NEW h \in [D -> Nat], NEW A \in SUBSET D, IsFiniteSet(A)
    PROVE  \A B \in SUBSET D : IsFiniteSet(B) /\ A \intersect B = {} =>
               SumFunctionOnSet(h, A \union B) = SumFunctionOnSet(h, A) + SumFunctionOnSet(h, B)
<1> DEFINE Adds(B) == SumFunctionOnSet(h, A \union B) = SumFunctionOnSet(h, A) + SumFunctionOnSet(h, B)
           L == {n \in Nat : \A B \in SUBSET D : IsFiniteSet(B) /\ A \intersect B = {} /\ Cardinality(B) = n => Adds(B)}
<1>0. SumFunctionOnSet(h, A) \in Nat
  BY SumType
<1>1. 0 \in L
  <2>1. \A B : IsFiniteSet(B) /\ Cardinality(B) = 0 => B = {}
    BY FS_EmptySet
  <2>2. A \union {} = A /\ SumFunctionOnSet(h, {}) = 0
    BY SumEquation
  <2>3. Adds({})
    BY <1>0, <2>2
  <2> QED
    BY <2>1, <2>3
<1>2. ASSUME NEW n \in Nat, n \in L
      PROVE  n + 1 \in L
  <2> SUFFICES ASSUME NEW B \in SUBSET D, IsFiniteSet(B), A \intersect B = {}, Cardinality(B) = n + 1
               PROVE  Adds(B)
    OBVIOUS
  <2>1. PICK x \in B : IsFiniteSet(B \ {x}) /\ Cardinality(B \ {x}) = n
    BY OneMoreThan
  <2>2. Adds(B \ {x})
    BY <1>2, <2>1
  <2>3. SumFunctionOnSet(h, B) = h[x] + SumFunctionOnSet(h, B \ {x})
    BY SumAnyElement
  <2>4. SumFunctionOnSet(h, A \union B) = h[x] + SumFunctionOnSet(h, A \union (B \ {x}))
    <3>1. IsFiniteSet(A \union B) /\ x \in A \union B /\ A \union B \in SUBSET D
      BY FS_Union
    <3>2. (A \union B) \ {x} = A \union (B \ {x})
      OBVIOUS
    <3> QED
      BY <3>1, <3>2, SumAnyElement
  <2>5. SumFunctionOnSet(h, B \ {x}) \in Nat /\ h[x] \in Nat
    BY <2>1, SumType
  <2> QED
    BY <1>0, <2>2, <2>3, <2>4, <2>5
<1>3. Nat \subseteq L
  <2> HIDE DEF L
  <2> QED
    BY <1>1, <1>2, NaturalsByInduction
<1> QED
  BY <1>3, FS_CardinalityType

\* Nothing but zeroes is zero.
LEMMA SumOfZeroes ==
    ASSUME NEW D, NEW h \in [D -> Nat]
    PROVE  \A S \in SUBSET D : IsFiniteSet(S) /\ (\A x \in S : h[x] = 0) => SumFunctionOnSet(h, S) = 0
<1> DEFINE L == {n \in Nat : \A S \in SUBSET D : IsFiniteSet(S) /\ (\A x \in S : h[x] = 0) /\ Cardinality(S) = n
                                 => SumFunctionOnSet(h, S) = 0}
<1>1. 0 \in L
  <2>1. \A S : IsFiniteSet(S) /\ Cardinality(S) = 0 => S = {}
    BY FS_EmptySet
  <2>2. SumFunctionOnSet(h, {}) = 0
    BY SumEquation
  <2> QED
    BY <2>1, <2>2
<1>2. ASSUME NEW n \in Nat, n \in L
      PROVE  n + 1 \in L
  <2> SUFFICES ASSUME NEW S \in SUBSET D, IsFiniteSet(S), \A x \in S : h[x] = 0, Cardinality(S) = n + 1
               PROVE  SumFunctionOnSet(h, S) = 0
    OBVIOUS
  <2>1. PICK x \in S : IsFiniteSet(S \ {x}) /\ Cardinality(S \ {x}) = n
    BY OneMoreThan
  <2>2. SumFunctionOnSet(h, S \ {x}) = 0 /\ h[x] = 0
    BY <1>2, <2>1
  <2>3. SumFunctionOnSet(h, S) = h[x] + SumFunctionOnSet(h, S \ {x})
    BY SumAnyElement
  <2> QED
    BY <2>2, <2>3
<1>3. Nat \subseteq L
  <2> HIDE DEF L
  <2> QED
    BY <1>1, <1>2, NaturalsByInduction
<1> QED
  BY <1>3, FS_CardinalityType

\* More elements do not make a smaller sum, and elements that are zero do not count.
LEMMA SumOfMore ==
    ASSUME NEW D, NEW h \in [D -> Nat], NEW T \in SUBSET D, IsFiniteSet(T), NEW S \in SUBSET T
    PROVE  /\ SumFunctionOnSet(h, S) <= SumFunctionOnSet(h, T)
           /\ (\A x \in T \ S : h[x] = 0) => SumFunctionOnSet(h, S) = SumFunctionOnSet(h, T)
<1> DEFINE R == T \ S
<1>1. IsFiniteSet(S) /\ IsFiniteSet(R) /\ S \intersect R = {} /\ S \union R = T
  BY FS_Subset
<1>2. SumFunctionOnSet(h, S) \in Nat /\ SumFunctionOnSet(h, R) \in Nat
  BY <1>1, SumType
<1>3. SumFunctionOnSet(h, T) = SumFunctionOnSet(h, S) + SumFunctionOnSet(h, R)
  BY <1>1, SumOfParts
<1>4. (\A x \in R : h[x] = 0) => SumFunctionOnSet(h, R) = 0
  BY <1>1, SumOfZeroes
<1> HIDE DEF R
<1>5. (\A x \in R : h[x] = 0) => SumFunctionOnSet(h, S) = SumFunctionOnSet(h, T)
  BY <1>2, <1>3, <1>4
<1>6. SumFunctionOnSet(h, S) <= SumFunctionOnSet(h, T)
  BY <1>2, <1>3
<1> QED
  BY <1>5, <1>6 DEF R

\* Elements may be renamed.
LEMMA SumRenamed ==
    ASSUME NEW D, NEW h \in [D -> Nat], NEW E, NEW g \in [E -> Nat], NEW S \in SUBSET D, IsFiniteSet(S),
           NEW b \in [S -> E], \A x, y \in S : b[x] = b[y] => x = y, \A x \in S : g[b[x]] = h[x]
    PROVE  LET T == {b[x] : x \in S}
           IN  IsFiniteSet(T) /\ SumFunctionOnSet(g, T) = SumFunctionOnSet(h, S)
<1> DEFINE Img(U) == {b[x] : x \in U}
           Same(U) == IsFiniteSet(Img(U)) /\ SumFunctionOnSet(g, Img(U)) = SumFunctionOnSet(h, U)
           L == {n \in Nat : \A U \in SUBSET S : IsFiniteSet(U) /\ Cardinality(U) = n => Same(U)}
<1>1. 0 \in L
  <2>1. \A U : IsFiniteSet(U) /\ Cardinality(U) = 0 => U = {}
    BY FS_EmptySet
  <2>2. Img({}) = {} /\ SumFunctionOnSet(h, {}) = 0 /\ SumFunctionOnSet(g, {}) = 0 /\ IsFiniteSet({})
    BY SumEquation, FS_EmptySet
  <2>3. Same({})
    BY <2>2
  <2> QED
    BY <2>1, <2>3
<1>2. ASSUME NEW n \in Nat, n \in L
      PROVE  n + 1 \in L
  <2> SUFFICES ASSUME NEW U \in SUBSET S, IsFiniteSet(U), Cardinality(U) = n + 1
               PROVE  Same(U)
    OBVIOUS
  <2>1. PICK x \in U : IsFiniteSet(U \ {x}) /\ Cardinality(U \ {x}) = n
    BY OneMoreThan
  <2>2. Same(U \ {x})
    BY <1>2, <2>1
  <2>3. Img(U) = Img(U \ {x}) \union {b[x]} /\ b[x] \notin Img(U \ {x})
    OBVIOUS
  <2>4. b[x] \in E /\ g[b[x]] = h[x] /\ Img(U) \in SUBSET E
    OBVIOUS
  <2>s. SumFunctionOnSet(h, U) = h[x] + SumFunctionOnSet(h, U \ {x})
    BY SumAnyElement
  <2> HIDE DEF Img
  <2>5. IsFiniteSet(Img(U)) /\ Img(U) \ {b[x]} = Img(U \ {x}) /\ b[x] \in Img(U)
    <3>1. PICK V, W : V = Img(U) /\ W = Img(U \ {x})
      OBVIOUS
    <3>2. IsFiniteSet(W) /\ V = W \union {b[x]} /\ b[x] \notin W
      BY <2>2, <2>3, <3>1
    <3>3. IsFiniteSet(V) /\ V \ {b[x]} = W /\ b[x] \in V
      BY <3>2, FS_AddElement
    <3> QED
      BY <3>1, <3>3
  <2>6. SumFunctionOnSet(g, Img(U)) = g[b[x]] + SumFunctionOnSet(g, Img(U) \ {b[x]})
    BY <2>4, <2>5, SumAnyElement
  <2> QED
    BY <2>2, <2>4, <2>5, <2>6, <2>s
<1>3. Nat \subseteq L
  <2> HIDE DEF L
  <2> QED
    BY <1>1, <1>2, NaturalsByInduction
<1>4. Same(S)
  BY <1>3, FS_CardinalityType
<1> QED
  BY <1>4

\* As many ones as elements.
LEMMA SumOfOnes ==
    ASSUME NEW D, NEW h \in [D -> Nat]
    PROVE  \A S \in SUBSET D : IsFiniteSet(S) /\ (\A x \in S : h[x] = 1) => SumFunctionOnSet(h, S) = Cardinality(S)
<1> DEFINE Ones(S) == (\A x \in S : h[x] = 1) => SumFunctionOnSet(h, S) = Cardinality(S)
           L == {n \in Nat : \A S \in SUBSET D : IsFiniteSet(S) /\ Cardinality(S) = n => Ones(S)}
<1>1. 0 \in L
  <2>1. \A S : IsFiniteSet(S) /\ Cardinality(S) = 0 => S = {}
    BY FS_EmptySet
  <2>2. SumFunctionOnSet(h, {}) = 0
    BY SumEquation
  <2> QED
    BY <2>1, <2>2
<1>2. ASSUME NEW n \in Nat, n \in L
      PROVE  n + 1 \in L
  <2> SUFFICES ASSUME NEW S \in SUBSET D, IsFiniteSet(S), Cardinality(S) = n + 1, \A x \in S : h[x] = 1
               PROVE  SumFunctionOnSet(h, S) = n + 1
    OBVIOUS
  <2>1. S # {} /\ \A x \in S : IsFiniteSet(S \ {x}) /\ Cardinality(S \ {x}) = n
    BY OneMoreThan
  <2>2. PICK x \in S : TRUE
    BY <2>1
  <2>3. SumFunctionOnSet(h, S) = h[x] + SumFunctionOnSet(h, S \ {x})
    BY SumAnyElement
  <2>4. SumFunctionOnSet(h, S \ {x}) = n
    BY <1>2, <2>1
  <2> QED
    BY <2>3, <2>4
<1> HIDE DEF L
<1>3. Nat \subseteq L
  BY <1>1, <1>2, NaturalsByInduction
<1> QED
  BY <1>3, FS_CardinalityType DEF L

\* A sum of nothing.
LEMMA SumOfNone == \A h : DOMAIN h = {} => SumFunction(h) = 0
  BY SumEquation DEF SumFunction

\* Sums of functions that agree.
LEMMA SumOfSame ==
    ASSUME NEW D, NEW h \in [D -> Nat], NEW E, NEW g \in [E -> Nat], NEW S \in SUBSET D, S \in SUBSET E, IsFiniteSet(S),
           \A x \in S : g[x] = h[x]
    PROVE  SumFunctionOnSet(g, S) = SumFunctionOnSet(h, S)
<1>1. PICK i : i = [x \in S |-> x]
  OBVIOUS
<1>2. i \in [S -> E] /\ (\A x, y \in S : i[x] = i[y] => x = y) /\ (\A x \in S : g[i[x]] = h[x])
  BY <1>1
<1>3. {i[x] : x \in S} = S
  BY <1>1
<1>4. SumFunctionOnSet(g, {i[x] : x \in S}) = SumFunctionOnSet(h, S)
  BY <1>2, SumRenamed
<1> QED
  BY <1>3, <1>4

\* A sum over a list with one more entry.
LEMMA SumOfLonger ==
    ASSUME NEW n \in Nat, NEW m, m = n + 1, NEW h \in [1 .. n -> Nat], NEW g \in [1 .. m -> Nat], \A x \in 1 .. n : g[x] = h[x]
    PROVE  SumFunction(g) = SumFunction(h) + g[m] /\ SumFunction(g) \in Nat /\ SumFunction(h) \in Nat
<1>1. PICK S, R, i : S = 1 .. n /\ R = 1 .. m /\ i = [x \in S |-> x]
  OBVIOUS
<1>2. IsFiniteSet(S) /\ IsFiniteSet(R) /\ S \in SUBSET S /\ R \in SUBSET R /\ m \in R /\ R \ {m} = S /\ m \in Nat
  <2>1. m \in Nat /\ S \in SUBSET S /\ R \in SUBSET R
    OBVIOUS
  <2>2. IsFiniteSet(S) /\ IsFiniteSet(R)
    BY <1>1, <2>1, FirstNumbers
  <2>3. m \in R
    BY <1>1, <2>1
  <2>4. \A x : x \in R /\ x # m <=> x \in S
    BY <1>1
  <2> QED
    BY <2>1, <2>2, <2>3, <2>4
<1>3. h \in [S -> Nat] /\ g \in [R -> Nat] /\ (\A x \in S : g[x] = h[x]) /\ S \in SUBSET R
  BY <1>1, <1>2
<1>4. SumFunctionOnSet(g, R) = g[m] + SumFunctionOnSet(g, S)
  <2>1. SumFunctionOnSet(g, R) = g[m] + SumFunctionOnSet(g, R \ {m})
    BY <1>2, <1>3, SumAnyElement
  <2> QED
    BY <1>2, <2>1
<1>5. SumFunctionOnSet(g, S) = SumFunctionOnSet(h, S)
  BY ONLY <1>2, <1>3, SumOfSame
<1>6. SumFunctionOnSet(h, S) \in Nat /\ g[m] \in Nat
  BY <1>2, <1>3, SumType
<1>7. SumFunction(g) = SumFunctionOnSet(g, R) /\ SumFunction(h) = SumFunctionOnSet(h, S)
  BY <1>1 DEF SumFunction
<1> QED
  BY <1>4, <1>5, <1>6, <1>7
=============================================================================
