----------------------------- MODULE SumTheorems -----------------------------
(***************************************************************************)
(* Sums of natural numbers over finite sets, as the models take them: with *)
(* SumFunctionOnSet, a fold of the community modules.  The fold is defined *)
(* by a recursive function; that there is one is proved here, by the       *)
(* well-foundedness of the natural numbers, and from it the usual laws.    *)
(*                                                                         *)
(* The induction theorems of the library take an operator, so induction is *)
(* stated of a set instead: of those numbers, or those subsets of a finite *)
(* set, of which something holds.                                          *)
(***************************************************************************)
EXTENDS Naturals, FiniteSets, Functions, FiniteSetTheorems, WellFoundedInduction, TLAPS

-----------------------------------------------------------------------------
(* Induction.                                                              *)

\* A set of natural numbers that is not empty has a least element.
LEMMA LeastNumber ==
  ASSUME NEW T, T \subseteq Nat, T # {}
  PROVE  \E n \in T : \A m \in T : n <= m
<1>1. IsWellFoundedOn(OpToRel(<, Nat), Nat)
  BY NatLessThanWellFounded
<1>2. \A m \in Nat, n \in Nat : m < n => <<m, n>> \in OpToRel(<, Nat)
  BY DEF OpToRel
<1>3. PICK R : /\ IsWellFoundedOn(R, Nat)
               /\ \A m \in Nat, n \in Nat : m < n => <<m, n>> \in R
  BY <1>1, <1>2, Zenon
<1>a. IsWellFoundedOn(R, Nat)
  BY <1>3
<1>4. PICK n \in T : \A m \in T : ~(<<m, n>> \in R)
  BY <1>a, WFMin, Zenon
<1>5. ASSUME NEW m \in T PROVE n <= m
  <2>1. n \in Nat /\ m \in Nat
    OBVIOUS
  <2>2. ~(m < n)
    BY <2>1, <1>3, <1>4
  <2> QED
    BY <2>1, <2>2
<1> QED
  BY <1>5

\* Induction over the natural numbers.
LEMMA NumberInduction ==
  ASSUME NEW T, 0 \in T, \A n \in Nat : n \in T => n + 1 \in T
  PROVE  Nat \subseteq T
<1>1. SUFFICES ASSUME Nat \ T # {} PROVE FALSE
  OBVIOUS
<1>2. PICK n \in Nat \ T : \A m \in Nat \ T : n <= m
  BY <1>1, LeastNumber
<1>3. n - 1 \in Nat /\ (n - 1) + 1 = n
  BY <1>2
<1>4. n - 1 \in T
  BY <1>2, <1>3
<1> QED
  BY <1>2, <1>3, <1>4

\* Induction over the subsets of a finite set.
LEMMA SubsetInduction ==
  ASSUME NEW S, IsFiniteSet(S), NEW T, {} \in T,
         \A s \in SUBSET S : s \in T => \A x \in S \ s : s \cup {x} \in T
  PROVE  S \in T
<1> DEFINE N == {n \in Nat : \A s \in SUBSET S : Cardinality(s) = n => s \in T}
<1>1. 0 \in N
  BY FS_Subset, FS_EmptySet
<1>2. ASSUME NEW n \in Nat, n \in N PROVE n + 1 \in N
  <2> SUFFICES ASSUME NEW s \in SUBSET S, Cardinality(s) = n + 1 PROVE s \in T
    OBVIOUS
  <2>1. IsFiniteSet(s) /\ s # {}
    BY FS_Subset, FS_EmptySet
  <2>2. PICK x : x \in s
    BY <2>1
  <2>3. Cardinality(s \ {x}) = n
    <3>1. Cardinality(s \ {x}) = Cardinality(s) - 1
      BY <2>1, <2>2, FS_RemoveElement
    <3> QED
      BY <3>1
  <2>4. s \ {x} \in T
    BY <1>2, <2>3
  <2>5. (s \ {x}) \cup {x} \in T
    BY <2>2, <2>4
  <2>6. (s \ {x}) \cup {x} = s
    BY <2>2
  <2> QED
    BY <2>5, <2>6
<1>3. Nat \subseteq N
  <2> HIDE DEF N
  <2> QED
    BY <1>1, <1>2, NumberInduction
<1> QED
  BY <1>3, FS_CardinalityType

-----------------------------------------------------------------------------
(* The fold.                                                               *)

Chosen(s) == CHOOSE x \in s : TRUE

\* g sums f over the subsets of S.
Sums(f, S, g) ==
  g = [s \in SUBSET S |-> IF s = {} THEN 0 ELSE f[Chosen(s)] + g[s \ {Chosen(s)}]]

LEMMA ChosenIn ==
  ASSUME NEW s, s # {}
  PROVE  Chosen(s) \in s
BY DEF Chosen

\* What the fold is defined by.
LEMMA SumDefinition ==
  ASSUME NEW f, NEW S
  PROVE  SumFunctionOnSet(f, S) = (CHOOSE g : Sums(f, S, g))[S]
BY Zenon DEF SumFunctionOnSet, FoldFunctionOnSet, MapThenFoldSet, Sums, Chosen

LEMMA SumsExist ==
  ASSUME NEW S, IsFiniteSet(S), NEW f, \A x \in S : f[x] \in Nat
  PROVE  \E g \in [SUBSET S -> Nat] : Sums(f, S, g)
<1> DEFINE Value(g, s) == IF s = {} THEN 0 ELSE f[Chosen(s)] + g[s \ {Chosen(s)}]
           UpTo(n, g) == \A s \in SUBSET S : Cardinality(s) <= n => g[s] = Value(g, s)
           N == {n \in Nat : \E g \in [SUBSET S -> Nat] : UpTo(n, g)}
<1>0. \A s \in SUBSET S : IsFiniteSet(s) /\ Cardinality(s) \in Nat
  BY FS_Subset, FS_CardinalityType
<1>1. 0 \in N
  <2> DEFINE g == [s \in SUBSET S |-> 0]
  <2>1. UpTo(0, g)
    BY <1>0, FS_EmptySet
  <2> QED
    BY <2>1
<1>2. ASSUME NEW n \in Nat, n \in N PROVE n + 1 \in N
  <2>1. PICK g \in [SUBSET S -> Nat] : UpTo(n, g)
    BY <1>2
  <2> DEFINE h == [s \in SUBSET S |-> IF Cardinality(s) = n + 1 THEN Value(g, s) ELSE g[s]]
  <2>2. \A s \in SUBSET S : Value(g, s) \in Nat
    BY ChosenIn
  <2>3. h \in [SUBSET S -> Nat]
    <3> HIDE DEF Value
    <3> QED
      BY <2>2
  <2>4. ASSUME NEW s \in SUBSET S, s # {}, Cardinality(s) <= n + 1
        PROVE  h[s \ {Chosen(s)}] = g[s \ {Chosen(s)}]
    <3>1. Cardinality(s \ {Chosen(s)}) = Cardinality(s) - 1
      BY <1>0, <2>4, ChosenIn, FS_RemoveElement
    <3>2. Cardinality(s \ {Chosen(s)}) # n + 1
      BY <1>0, <2>4, <3>1
    <3> QED
      BY <3>2
  <2>5. ASSUME NEW s \in SUBSET S, Cardinality(s) <= n + 1 PROVE h[s] = Value(h, s)
    <3>1. Value(h, s) = Value(g, s)
      BY <2>4, <2>5
    <3>2. CASE Cardinality(s) = n + 1
      BY <3>1, <3>2
    <3>3. CASE Cardinality(s) # n + 1
      <4>1. Cardinality(s) <= n
        BY <1>0, <2>5, <3>3
      <4>2. g[s] = Value(g, s)
        BY <2>1, <4>1
      <4> QED
        BY <3>1, <3>3, <4>2
    <3> QED
      BY <3>2, <3>3
  <2>6. UpTo(n + 1, h)
    BY <2>5
  <2> HIDE DEF h, UpTo
  <2> QED
    BY <2>3, <2>6
<1>3. Nat \subseteq N
  <2> HIDE DEF N
  <2> QED
    BY <1>1, <1>2, NumberInduction
<1>4. PICK g \in [SUBSET S -> Nat] : UpTo(Cardinality(S), g)
  BY <1>0, <1>3
<1>5. \A s \in SUBSET S : g[s] = Value(g, s)
  BY <1>0, <1>4, FS_Subset
<1> QED
  BY <1>5 DEF Sums

\* The sums are the same whatever set they are defined on.
LEMMA SumsAgree ==
  ASSUME NEW S, IsFiniteSet(S), NEW R, R \subseteq S, NEW f, NEW g, NEW h,
         Sums(f, S, g), Sums(f, R, h)
  PROVE  g[R] = h[R]
<1> DEFINE T == {s \in SUBSET R : g[s] = h[s]}
           N == {n \in Nat : \A s \in SUBSET R : Cardinality(s) <= n => s \in T}
<1>0. \A s \in SUBSET R : IsFiniteSet(s) /\ Cardinality(s) \in Nat
  BY FS_Subset, FS_CardinalityType
<1>a. {} \in T
  BY DEF Sums
<1>1. 0 \in N
  BY <1>0, <1>a, FS_EmptySet
<1>2. ASSUME NEW n \in Nat, n \in N PROVE n + 1 \in N
  <2> SUFFICES ASSUME NEW s \in SUBSET R, Cardinality(s) <= n + 1 PROVE s \in T
    OBVIOUS
  <2>1. CASE s = {}
    BY <1>a, <2>1
  <2>2. CASE s # {}
    <3>1. Cardinality(s \ {Chosen(s)}) = Cardinality(s) - 1
      BY <1>0, <2>2, ChosenIn, FS_RemoveElement
    <3>2. Cardinality(s \ {Chosen(s)}) <= n
      BY <1>0, <3>1
    <3>3. s \ {Chosen(s)} \in T
      BY <1>2, <3>2
    <3>4. g[s] = f[Chosen(s)] + g[s \ {Chosen(s)}]
      BY <2>2 DEF Sums
    <3>5. h[s] = f[Chosen(s)] + h[s \ {Chosen(s)}]
      BY <2>2 DEF Sums
    <3> QED
      BY <3>3, <3>4, <3>5
  <2> QED
    BY <2>1, <2>2
<1>3. Nat \subseteq N
  <2> HIDE DEF N
  <2> QED
    BY <1>1, <1>2, NumberInduction
<1> QED
  BY <1>0, <1>3

-----------------------------------------------------------------------------
(* The laws of sums.                                                       *)

LEMMA SumEmpty ==
  ASSUME NEW f
  PROVE  SumFunctionOnSet(f, {}) = 0
<1>1. PICK h \in [SUBSET {} -> Nat] : Sums(f, {}, h)
  BY SumsExist, FS_EmptySet
<1>2. Sums(f, {}, CHOOSE g : Sums(f, {}, g))
  BY <1>1
<1>3. (CHOOSE g : Sums(f, {}, g))[{}] = 0
  BY <1>2 DEF Sums
<1> QED
  BY <1>3, SumDefinition

\* The fold takes one element and sums the others.
LEMMA SumStep ==
  ASSUME NEW S, IsFiniteSet(S), S # {}, NEW f, \A x \in S : f[x] \in Nat
  PROVE  SumFunctionOnSet(f, S) = f[Chosen(S)] + SumFunctionOnSet(f, S \ {Chosen(S)})
<1> DEFINE R == S \ {Chosen(S)}
           g == CHOOSE k : Sums(f, S, k)
           h == CHOOSE k : Sums(f, R, k)
<1>1. IsFiniteSet(R)
  BY FS_Subset
<1>2. Sums(f, S, g)
  BY SumsExist
<1>3. Sums(f, R, h)
  BY <1>1, SumsExist
<1>4. SumFunctionOnSet(f, S) = g[S] /\ SumFunctionOnSet(f, R) = h[R]
  BY SumDefinition
<1> HIDE DEF g, h
<1>5. g[S] = f[Chosen(S)] + g[R]
  BY <1>2 DEF Sums
<1>6. g[R] = h[R]
  BY <1>2, <1>3, SumsAgree
<1> QED
  BY <1>4, <1>5, <1>6

LEMMA SumType ==
  ASSUME NEW S, IsFiniteSet(S), NEW f, \A x \in S : f[x] \in Nat
  PROVE  SumFunctionOnSet(f, S) \in Nat
<1>1. PICK h \in [SUBSET S -> Nat] : Sums(f, S, h)
  BY SumsExist
<1>2. Sums(f, S, CHOOSE g : Sums(f, S, g))
  BY <1>1
<1>3. h[S] = (CHOOSE g : Sums(f, S, g))[S]
  BY <1>1, <1>2, SumsAgree
<1> QED
  BY <1>3, SumDefinition

\* Any element can be taken out.
LEMMA SumRemove ==
  ASSUME NEW S, IsFiniteSet(S), NEW f, \A x \in S : f[x] \in Nat, NEW x \in S
  PROVE  SumFunctionOnSet(f, S) = f[x] + SumFunctionOnSet(f, S \ {x})
<1> DEFINE Sum(s) == SumFunctionOnSet(f, s)
           N == {n \in Nat : \A s \in SUBSET S : Cardinality(s) <= n =>
                   \A e \in s : Sum(s) = f[e] + Sum(s \ {e})}
<1>a. \A s \in SUBSET S : IsFiniteSet(s) /\ Cardinality(s) \in Nat
  BY FS_Subset, FS_CardinalityType
<1>0. \A s \in SUBSET S :
        Sum(s) \in Nat /\ (s # {} => Sum(s) = f[Chosen(s)] + Sum(s \ {Chosen(s)}))
  BY <1>a, SumType, SumStep
<1> HIDE DEF Sum
<1>1. 0 \in N
  <2> SUFFICES ASSUME NEW s \in SUBSET S, Cardinality(s) <= 0, NEW e \in s PROVE FALSE
    OBVIOUS
  <2>1. Cardinality(s) = 0 /\ IsFiniteSet(s)
    BY <1>a
  <2> QED
    BY <2>1, FS_EmptySet
<1>2. ASSUME NEW n \in Nat, n \in N PROVE n + 1 \in N
  <2> SUFFICES ASSUME NEW s \in SUBSET S, Cardinality(s) <= n + 1, NEW e \in s
               PROVE  Sum(s) = f[e] + Sum(s \ {e})
    OBVIOUS
  <2> DEFINE c == Chosen(s)
  <2>1. c \in s /\ Sum(s) = f[c] + Sum(s \ {c})
    BY <1>0, ChosenIn
  <2> HIDE DEF c
  <2>2. CASE e = c
    BY <2>1, <2>2
  <2>3. CASE e # c
    <3>1. \A d \in s : Cardinality(s \ {d}) = Cardinality(s) - 1
      BY <1>a, FS_RemoveElement
    <3>a. Cardinality(s) \in Nat /\ Cardinality(s) - 1 <= n
      BY <1>a
    <3>2. Cardinality(s \ {c}) <= n /\ Cardinality(s \ {e}) <= n
      BY <2>1, <3>a, <3>1
    <3>3. \A t \in SUBSET S : Cardinality(t) <= n => \A d \in t : Sum(t) = f[d] + Sum(t \ {d})
      BY <1>2
    <3>4. Sum(s \ {c}) = f[e] + Sum((s \ {c}) \ {e})
      BY <2>3, <3>2, <3>3
    <3>5. Sum(s \ {e}) = f[c] + Sum((s \ {e}) \ {c})
      BY <2>1, <2>3, <3>2, <3>3
    <3>6. (s \ {c}) \ {e} = (s \ {e}) \ {c}
      OBVIOUS
    <3>7. f[c] \in Nat /\ f[e] \in Nat /\ Sum((s \ {c}) \ {e}) \in Nat
      BY <1>0, <2>1
    <3>8. f[c] + (f[e] + Sum((s \ {c}) \ {e})) = f[e] + (f[c] + Sum((s \ {c}) \ {e}))
      BY <3>7
    <3> QED
      BY <2>1, <3>4, <3>5, <3>6, <3>8, Zenon
  <2> QED
    BY <2>2, <2>3
<1>3. Nat \subseteq N
  <2> HIDE DEF N
  <2> QED
    BY <1>1, <1>2, NumberInduction
<1>4. Cardinality(S) \in N /\ S \in SUBSET S /\ Cardinality(S) <= Cardinality(S)
  BY <1>a, <1>3
<1>5. Sum(S) = f[x] + Sum(S \ {x})
  BY <1>4
<1> QED
  BY <1>5 DEF Sum

LEMMA SumAdd ==
  ASSUME NEW S, IsFiniteSet(S), NEW f, \A y \in S : f[y] \in Nat,
         NEW x, x \notin S, f[x] \in Nat
  PROVE  SumFunctionOnSet(f, S \cup {x}) = f[x] + SumFunctionOnSet(f, S)
<1>1. IsFiniteSet(S \cup {x}) /\ (S \cup {x}) \ {x} = S
  BY FS_AddElement
<1>2. SumFunctionOnSet(f, S \cup {x}) = f[x] + SumFunctionOnSet(f, (S \cup {x}) \ {x})
  BY <1>1, SumRemove
<1> QED
  BY <1>1, <1>2

LEMMA SumSingleton ==
  ASSUME NEW f, NEW x, f[x] \in Nat
  PROVE  SumFunctionOnSet(f, {x}) = f[x]
<1>1. SumFunctionOnSet(f, {} \cup {x}) = f[x] + SumFunctionOnSet(f, {})
  BY SumAdd, FS_EmptySet
<1>2. {} \cup {x} = {x}
  OBVIOUS
<1> QED
  BY <1>1, <1>2, SumEmpty

\* A sum is no larger than one whose terms are no smaller.
LEMMA SumMonotone ==
  ASSUME NEW S, IsFiniteSet(S), NEW f, NEW g,
         \A x \in S : f[x] \in Nat /\ g[x] \in Nat /\ f[x] <= g[x]
  PROVE  SumFunctionOnSet(f, S) <= SumFunctionOnSet(g, S)
<1> DEFINE T == {s \in SUBSET S : SumFunctionOnSet(f, s) <= SumFunctionOnSet(g, s)}
<1>1. {} \in T
  BY SumEmpty
<1>2. ASSUME NEW s \in SUBSET S, s \in T, NEW x \in S \ s PROVE s \cup {x} \in T
  <2>1. IsFiniteSet(s)
    BY FS_Subset
  <2>2. /\ SumFunctionOnSet(f, s \cup {x}) = f[x] + SumFunctionOnSet(f, s)
        /\ SumFunctionOnSet(g, s \cup {x}) = g[x] + SumFunctionOnSet(g, s)
    BY <2>1, SumAdd
  <2>3. SumFunctionOnSet(f, s) \in Nat /\ SumFunctionOnSet(g, s) \in Nat
    BY <2>1, SumType
  <2>4. SumFunctionOnSet(f, s) <= SumFunctionOnSet(g, s)
    BY <1>2
  <2>5. s \cup {x} \in SUBSET S
    OBVIOUS
  <2>6. f[x] \in Nat /\ g[x] \in Nat /\ f[x] <= g[x]
    OBVIOUS
  <2>7. f[x] + SumFunctionOnSet(f, s) <= g[x] + SumFunctionOnSet(g, s)
    BY <2>3, <2>4, <2>6
  <2> QED
    BY <2>2, <2>5, <2>7
<1> HIDE DEF T
<1>3. S \in T
  BY <1>1, <1>2, SubsetInduction
<1> QED
  BY <1>3 DEF T

\* It depends on its terms alone.
LEMMA SumSame ==
  ASSUME NEW S, IsFiniteSet(S), NEW f, NEW g, \A x \in S : f[x] \in Nat /\ f[x] = g[x]
  PROVE  SumFunctionOnSet(f, S) = SumFunctionOnSet(g, S)
<1>1. SumFunctionOnSet(f, S) \in Nat /\ SumFunctionOnSet(g, S) \in Nat
  BY SumType
<1>2. /\ SumFunctionOnSet(f, S) <= SumFunctionOnSet(g, S)
      /\ SumFunctionOnSet(g, S) <= SumFunctionOnSet(f, S)
  BY SumMonotone
<1> QED
  BY <1>1, <1>2

\* Sums over parts.
LEMMA SumUnion ==
  ASSUME NEW S, IsFiniteSet(S), NEW R, IsFiniteSet(R), S \cap R = {},
         NEW f, \A x \in S \cup R : f[x] \in Nat
  PROVE  SumFunctionOnSet(f, S \cup R) = SumFunctionOnSet(f, S) + SumFunctionOnSet(f, R)
<1> DEFINE Sum(s) == SumFunctionOnSet(f, s)
           T == {r \in SUBSET R : Sum(S \cup r) = Sum(S) + Sum(r)}
<1>0. \A s \in SUBSET (S \cup R) :
        /\ IsFiniteSet(s) /\ Sum(s) \in Nat
        /\ \A x \in (S \cup R) \ s : f[x] \in Nat /\ Sum(s \cup {x}) = f[x] + Sum(s)
  <2>1. IsFiniteSet(S \cup R)
    BY FS_Union
  <2> QED
    BY <2>1, FS_Subset, SumType, SumAdd
<1>1. {} \in T
  <2>1. S \cup {} = S /\ Sum({}) = 0
    BY SumEmpty
  <2> QED
    BY <1>0, <2>1
<1> HIDE DEF Sum
<1>2. ASSUME NEW r \in SUBSET R, r \in T, NEW x \in R \ r PROVE r \cup {x} \in T
  <2>1. x \notin S \cup r /\ S \cup (r \cup {x}) = (S \cup r) \cup {x}
    OBVIOUS
  <2>2. Sum((S \cup r) \cup {x}) = f[x] + Sum(S \cup r)
    BY <1>0, <2>1
  <2>3. Sum(r \cup {x}) = f[x] + Sum(r)
    BY <1>0
  <2>4. Sum(S \cup r) = Sum(S) + Sum(r)
    BY <1>2
  <2>5. f[x] \in Nat /\ Sum(S) \in Nat /\ Sum(r) \in Nat
    BY <1>0
  <2>6. f[x] + (Sum(S) + Sum(r)) = Sum(S) + (f[x] + Sum(r))
    BY <2>5
  <2>7. Sum(S \cup (r \cup {x})) = Sum(S) + Sum(r \cup {x})
    BY <2>1, <2>2, <2>3, <2>4, <2>6, Zenon
  <2> QED
    BY <2>7
<1> HIDE DEF T
<1>3. R \in T
  BY <1>1, <1>2, SubsetInduction
<1> QED
  BY <1>3 DEF T, Sum

LEMMA SumSubset ==
  ASSUME NEW S, IsFiniteSet(S), NEW R, R \subseteq S, NEW f, \A x \in S : f[x] \in Nat
  PROVE  SumFunctionOnSet(f, R) <= SumFunctionOnSet(f, S)
<1>1. IsFiniteSet(R) /\ IsFiniteSet(S \ R) /\ R \cup (S \ R) = S
  BY FS_Subset
<1>2. SumFunctionOnSet(f, R \cup (S \ R)) =
        SumFunctionOnSet(f, R) + SumFunctionOnSet(f, S \ R)
  BY <1>1, SumUnion
<1>3. SumFunctionOnSet(f, R) \in Nat /\ SumFunctionOnSet(f, S \ R) \in Nat
  BY <1>1, SumType
<1>4. SumFunctionOnSet(f, S) = SumFunctionOnSet(f, R) + SumFunctionOnSet(f, S \ R)
  BY <1>1, <1>2, Zenon
<1> QED
  BY <1>3, <1>4

\* Elements that count nothing can be left out.
LEMMA SumSupport ==
  ASSUME NEW S, IsFiniteSet(S), NEW R, R \subseteq S, NEW f, \A x \in S : f[x] \in Nat,
         \A x \in S \ R : f[x] = 0
  PROVE  SumFunctionOnSet(f, S) = SumFunctionOnSet(f, R)
<1> DEFINE D == S \ R
           T == {d \in SUBSET D : SumFunctionOnSet(f, d) = 0}
<1>1. IsFiniteSet(R) /\ IsFiniteSet(D) /\ R \cup D = S
  BY FS_Subset
<1>2. {} \in T
  BY SumEmpty
<1>3. ASSUME NEW d \in SUBSET D, d \in T, NEW x \in D \ d PROVE d \cup {x} \in T
  <2>1. IsFiniteSet(d)
    BY <1>1, FS_Subset
  <2>2. SumFunctionOnSet(f, d \cup {x}) = f[x] + SumFunctionOnSet(f, d)
    BY <2>1, SumAdd
  <2> QED
    BY <1>3, <2>2
<1>4. D \in T
  <2> HIDE DEF T, D
  <2> QED
    BY <1>1, <1>2, <1>3, SubsetInduction
<1>5. SumFunctionOnSet(f, R \cup D) = SumFunctionOnSet(f, R) + SumFunctionOnSet(f, D)
  BY <1>1, SumUnion
<1>6. SumFunctionOnSet(f, R) \in Nat
  BY <1>1, SumType
<1>7. SumFunctionOnSet(f, D) = 0
  BY <1>4
<1> HIDE DEF D
<1>8. SumFunctionOnSet(f, S) = SumFunctionOnSet(f, R) + SumFunctionOnSet(f, D)
  BY <1>1, <1>5, Zenon
<1> QED
  BY <1>6, <1>7, <1>8

\* Where each term of one sum is no larger than a term of its own of another,
\* neither is the sum.
LEMMA SumInjection ==
  ASSUME NEW S, IsFiniteSet(S), NEW R, IsFiniteSet(R), NEW h \in [S -> R],
         \A x, y \in S : h[x] = h[y] => x = y,
         NEW f, NEW g, \A y \in R : g[y] \in Nat,
         \A x \in S : f[x] \in Nat /\ f[x] <= g[h[x]]
  PROVE  SumFunctionOnSet(f, S) <= SumFunctionOnSet(g, R)
<1> DEFINE Image(s) == {h[x] : x \in s}
           T == {s \in SUBSET S : SumFunctionOnSet(f, s) <= SumFunctionOnSet(g, Image(s))}
<1>1. \A s \in SUBSET S : IsFiniteSet(s) /\ IsFiniteSet(Image(s)) /\ Image(s) \subseteq R
  <2> SUFFICES ASSUME NEW s \in SUBSET S
               PROVE  IsFiniteSet(s) /\ Image(s) \subseteq R /\ IsFiniteSet(Image(s))
    OBVIOUS
  <2>1. Image(s) \subseteq R
    OBVIOUS
  <2> QED
    BY <2>1, FS_Subset
<1>2. {} \in T
  <2>1. Image({}) = {}
    OBVIOUS
  <2> QED
    BY <2>1, SumEmpty
<1>3. ASSUME NEW s \in SUBSET S, s \in T, NEW x \in S \ s PROVE s \cup {x} \in T
  <2>1. Image(s \cup {x}) = Image(s) \cup {h[x]} /\ h[x] \notin Image(s)
    OBVIOUS
  <2>2. SumFunctionOnSet(f, s \cup {x}) = f[x] + SumFunctionOnSet(f, s)
    BY <1>1, SumAdd
  <2>3. SumFunctionOnSet(g, Image(s) \cup {h[x]}) = g[h[x]] + SumFunctionOnSet(g, Image(s))
    <3> HIDE DEF Image
    <3>1. \A y \in Image(s) : g[y] \in Nat
      BY <1>1
    <3> QED
      BY <1>1, <2>1, <3>1, SumAdd
  <2>4. SumFunctionOnSet(f, s) \in Nat /\ SumFunctionOnSet(g, Image(s)) \in Nat
    <3> HIDE DEF Image
    <3> QED
      BY <1>1, SumType
  <2>5. SumFunctionOnSet(f, s) <= SumFunctionOnSet(g, Image(s))
    BY <1>3
  <2>6. f[x] \in Nat /\ g[h[x]] \in Nat /\ f[x] <= g[h[x]]
    OBVIOUS
  <2> HIDE DEF Image
  <2>7. f[x] + SumFunctionOnSet(f, s) <= g[h[x]] + SumFunctionOnSet(g, Image(s))
    BY <2>4, <2>5, <2>6
  <2>8. SumFunctionOnSet(f, s \cup {x}) <= SumFunctionOnSet(g, Image(s \cup {x}))
    BY <2>1, <2>2, <2>3, <2>7
  <2> QED
    BY <2>8
<1>4. S \in T
  <2> HIDE DEF T
  <2> QED
    BY <1>2, <1>3, SubsetInduction
<1> HIDE DEF Image
<1>5. SumFunctionOnSet(g, Image(S)) <= SumFunctionOnSet(g, R)
  BY <1>1, SumSubset
<1>6. /\ SumFunctionOnSet(f, S) \in Nat /\ SumFunctionOnSet(g, Image(S)) \in Nat
      /\ SumFunctionOnSet(g, R) \in Nat
  <2>1. \A y \in Image(S) : g[y] \in Nat
    BY <1>1
  <2> QED
    BY <1>1, <2>1, SumType
<1>7. SumFunctionOnSet(f, S) <= SumFunctionOnSet(g, Image(S))
  BY <1>4
<1> QED
  BY <1>5, <1>6, <1>7

\* Sums add up term by term.
LEMMA SumPlus ==
  ASSUME NEW S, IsFiniteSet(S), NEW f, NEW g, NEW k,
         \A x \in S : f[x] \in Nat /\ g[x] \in Nat /\ k[x] = f[x] + g[x]
  PROVE  SumFunctionOnSet(k, S) = SumFunctionOnSet(f, S) + SumFunctionOnSet(g, S)
<1> DEFINE T == {s \in SUBSET S : SumFunctionOnSet(k, s) =
                                    SumFunctionOnSet(f, s) + SumFunctionOnSet(g, s)}
<1>1. {} \in T
  BY SumEmpty
<1>2. ASSUME NEW s \in SUBSET S, s \in T, NEW x \in S \ s PROVE s \cup {x} \in T
  <2>1. IsFiniteSet(s)
    BY FS_Subset
  <2>2. f[x] \in Nat /\ g[x] \in Nat /\ k[x] \in Nat /\ k[x] = f[x] + g[x]
    OBVIOUS
  <2>3. \A y \in s : f[y] \in Nat /\ g[y] \in Nat /\ k[y] \in Nat
    OBVIOUS
  <2>4. /\ SumFunctionOnSet(f, s \cup {x}) = f[x] + SumFunctionOnSet(f, s)
        /\ SumFunctionOnSet(g, s \cup {x}) = g[x] + SumFunctionOnSet(g, s)
        /\ SumFunctionOnSet(k, s \cup {x}) = k[x] + SumFunctionOnSet(k, s)
    BY <2>1, <2>2, <2>3, SumAdd
  <2>5. SumFunctionOnSet(f, s) \in Nat /\ SumFunctionOnSet(g, s) \in Nat
    BY <2>1, <2>3, SumType
  <2>6. SumFunctionOnSet(k, s) = SumFunctionOnSet(f, s) + SumFunctionOnSet(g, s)
    BY <1>2
  <2>7. s \cup {x} \in SUBSET S
    OBVIOUS
  <2>8. SumFunctionOnSet(k, s \cup {x}) =
          SumFunctionOnSet(f, s \cup {x}) + SumFunctionOnSet(g, s \cup {x})
    BY <2>2, <2>4, <2>5, <2>6
  <2> QED
    BY <2>7, <2>8
<1> HIDE DEF T
<1>3. S \in T
  BY <1>1, <1>2, SubsetInduction
<1> QED
  BY <1>3 DEF T

\* Terms may be renamed, and terms that are 0 left out.
LEMMA SumBijection ==
  ASSUME NEW S, IsFiniteSet(S), NEW R, IsFiniteSet(R), NEW h \in [S -> R],
         \A x, y \in S : h[x] = h[y] => x = y,
         NEW f, NEW g, \A y \in R : g[y] \in Nat, \A x \in S : f[x] = g[h[x]],
         \A y \in R : g[y] # 0 => \E x \in S : y = h[x]
  PROVE  SumFunctionOnSet(f, S) = SumFunctionOnSet(g, R)
<1> DEFINE Image == {y \in R : \E x \in S : y = h[x]}
           inverse == [y \in Image |-> CHOOSE x \in S : y = h[x]]
<1>1. \A x \in S : f[x] \in Nat /\ f[x] <= g[h[x]]
  OBVIOUS
<1>2. SumFunctionOnSet(f, S) <= SumFunctionOnSet(g, R)
  BY <1>1, SumInjection
<1>3. \A y \in Image : inverse[y] \in S /\ h[inverse[y]] = y
  OBVIOUS
<1>4. /\ Image \subseteq R /\ inverse \in [Image -> S]
      /\ \A y \in Image : g[y] \in Nat /\ g[y] <= f[inverse[y]]
      /\ \A y, z \in Image : inverse[y] = inverse[z] => y = z
      /\ \A y \in R \ Image : g[y] = 0
  BY <1>1, <1>3
<1> HIDE DEF Image, inverse
<1>5. IsFiniteSet(Image)
  BY <1>4, FS_Subset
<1>6. SumFunctionOnSet(g, Image) <= SumFunctionOnSet(f, S)
  BY <1>1, <1>4, <1>5, SumInjection
<1>7. SumFunctionOnSet(g, R) = SumFunctionOnSet(g, Image)
  BY <1>4, SumSupport
<1>8. SumFunctionOnSet(f, S) \in Nat /\ SumFunctionOnSet(g, R) \in Nat
  BY <1>1, SumType
<1> QED
  BY <1>2, <1>6, <1>7, <1>8
=============================================================================
