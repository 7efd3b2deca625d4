------------------------------ MODULE SumLemmas ------------------------------
(***************************************************************************)
(* Sums over finite sets, as SumFunctionOnSet of the community modules     *)
(* computes them: what the quantities of lines, purchases and              *)
(* subscriptions add up to.  The induction theorems of the library take    *)
(* an operator; the two here take a set, of the numbers or the sets that   *)
(* have the property in question, and follow from the least element of a   *)
(* set of numbers.                                                         *)
(***************************************************************************)
EXTENDS Integers, Functions, FiniteSets, FiniteSetTheorems, WellFoundedInduction, TLAPS

-----------------------------------------------------------------------------
(* Induction.                                                               *)

\* A set of numbers with 0, and with the successor of each, is all of them.
LEMMA NaturalInduction ==
    ASSUME NEW P, 0 \in P, \A n \in Nat : n \in P => n + 1 \in P
    PROVE  Nat \subseteq P
  <1> SUFFICES ASSUME Nat \ P # {} PROVE FALSE
    OBVIOUS
  <1>1. PICK n \in Nat \ P : \A m \in Nat \ P : <<m, n>> \notin OpToRel(<, Nat)
    BY NatLessThanWellFounded, WFMin, Zenon
  <1>2. \A m \in Nat \ P : ~(m < n)
    BY <1>1 DEF OpToRel
  <1>3. n # 0 /\ n - 1 \in Nat
    OBVIOUS
  <1>4. QED
    BY <1>2, <1>3

\* A set of subsets of S with the empty one, and with each of its members
\* enlarged by an element of S, has S itself.
LEMMA SetInduction ==
    ASSUME NEW S, IsFiniteSet(S), NEW P, {} \in P,
           \A T \in SUBSET S, x \in S : T \in P /\ x \notin T => T \cup {x} \in P
    PROVE  S \in P
  <1> DEFINE N == {n \in Nat : \A T \in SUBSET S : Cardinality(T) = n => T \in P}
  <1>1. \A T \in SUBSET S : IsFiniteSet(T) /\ Cardinality(T) \in Nat
    BY FS_Subset, FS_CardinalityType
  <1>2. 0 \in N
    BY <1>1, FS_EmptySet
  <1>3. ASSUME NEW n \in Nat, n \in N
        PROVE  n + 1 \in N
    <2> SUFFICES ASSUME NEW T \in SUBSET S, Cardinality(T) = n + 1
                 PROVE  T \in P
      OBVIOUS
    <2>1. PICK x \in T : TRUE
      BY <1>1, FS_EmptySet
    <2>2. Cardinality(T \ {x}) = n
      <3>1. Cardinality(T \ {x}) = Cardinality(T) - 1
        BY <1>1, <2>1, FS_RemoveElement
      <3>2. QED
        BY <3>1
    <2>3. T \ {x} \in P
      BY <1>3, <2>2
    <2>4. T = (T \ {x}) \cup {x}
      BY <2>1
    <2> HIDE DEF N
    <2>5. QED
      BY <2>1, <2>3, <2>4
  <1>4. Nat \subseteq N
    <2> HIDE DEF N
    <2>1. QED
      BY <1>2, <1>3, NaturalInduction
  <1>5. QED
    BY <1>1, <1>4

-----------------------------------------------------------------------------
(* The recursion of SumFunctionOnSet.                                       *)

AnyOf(s) == CHOOSE x \in s : TRUE

SumStep(g, f, s) == IF s = {} THEN 0 ELSE f[AnyOf(s)] + g[s \ {AnyOf(s)}]

\* g is the sum of f on all sets of D.
Sums(g, f, D) == g = [s \in D |-> SumStep(g, f, s)]

LEMMA SumDef ==
    ASSUME NEW f, NEW S
    PROVE  SumFunctionOnSet(f, S) = (CHOOSE g : Sums(g, f, SUBSET S))[S]
  BY DEF SumFunctionOnSet, FoldFunctionOnSet, MapThenFoldSet, AnyOf, SumStep, Sums

LEMMA AnyIsMember == ASSUME NEW S, S # {} PROVE AnyOf(S) \in S
  BY DEF AnyOf

\* There is such a function, on the sets of up to n elements and so on all.
LEMMA SumsExist ==
    ASSUME NEW f, NEW S, IsFiniteSet(S)
    PROVE  \E g : Sums(g, f, SUBSET S)
  <1> DEFINE Small(n) == {s \in SUBSET S : Cardinality(s) <= n}
             N == {n \in Nat : \E g : Sums(g, f, Small(n))}
  <1>1. \A T \in SUBSET S : IsFiniteSet(T) /\ Cardinality(T) \in Nat
    BY FS_Subset, FS_CardinalityType
  <1>2. 0 \in N
    <2> DEFINE g == [s \in Small(0) |-> 0]
    <2>1. \A s \in Small(0) : s = {}
      BY <1>1, FS_EmptySet
    <2>2. Sums(g, f, Small(0))
      <3> HIDE DEF Small
      <3> QED BY <2>1 DEF Sums, SumStep
    <2>3. QED
      BY <2>2
  <1>3. ASSUME NEW n \in Nat, n \in N
        PROVE  n + 1 \in N
    <2>1. PICK g : Sums(g, f, Small(n))
      BY <1>3
    <2> DEFINE h == [s \in Small(n + 1) |-> SumStep(g, f, s)]
    <2>2. ASSUME NEW s \in Small(n + 1), s # {}
          PROVE  s \ {AnyOf(s)} \in Small(n)
      <3>1. AnyOf(s) \in s
        BY <2>2, AnyIsMember
      <3>2. Cardinality(s \ {AnyOf(s)}) = Cardinality(s) - 1
        BY <1>1, <3>1, FS_RemoveElement
      <3>3. QED
        BY <1>1, <3>2
    <2>3. Small(n) \subseteq Small(n + 1)
      BY <1>1
    <2> HIDE DEF Small
    <2>4. \A t \in Small(n) : h[t] = g[t]
      BY <2>1, <2>3 DEF Sums
    <2>5. \A s \in Small(n + 1) : SumStep(h, f, s) = SumStep(g, f, s)
      <3> HIDE DEF h
      <3> QED BY <2>2, <2>4 DEF SumStep
    <2>6. Sums(h, f, Small(n + 1))
      BY <2>5 DEF Sums
    <2>7. QED
      BY <2>6
  <1>4. Nat \subseteq N
    <2> HIDE DEF N
    <2>1. QED
      BY <1>2, <1>3, NaturalInduction
  <1>5. SUBSET S = Small(Cardinality(S)) /\ Cardinality(S) \in Nat
    BY <1>1, FS_Subset
  <1>6. QED
    BY <1>4, <1>5

\* Two of them agree on every set whose elements they have in common values for.
LEMMA SumsAgree ==
    ASSUME NEW f, NEW e, NEW S, NEW T, NEW U, U \subseteq S, U \subseteq T, IsFiniteSet(U),
           \A x \in U : f[x] = e[x]
    PROVE  \A g, h : Sums(g, f, SUBSET S) /\ Sums(h, e, SUBSET T) => g[U] = h[U]
  <1> SUFFICES ASSUME NEW g, Sums(g, f, SUBSET S), NEW h, Sums(h, e, SUBSET T)
               PROVE  g[U] = h[U]
    OBVIOUS
  <1> DEFINE N == {n \in Nat : \A s \in SUBSET U : Cardinality(s) = n => g[s] = h[s]}
  <1>1. \A s \in SUBSET U : IsFiniteSet(s) /\ Cardinality(s) \in Nat
    BY FS_Subset, FS_CardinalityType
  <1>2. \A s \in SUBSET U : g[s] = SumStep(g, f, s) /\ h[s] = SumStep(h, e, s)
    BY DEF Sums
  <1>3. 0 \in N
    <2>1. \A s \in SUBSET U : Cardinality(s) = 0 => s = {}
      BY <1>1, FS_EmptySet
    <2>2. QED
      BY <1>2, <2>1 DEF SumStep
  <1>4. ASSUME NEW n \in Nat, n \in N
        PROVE  n + 1 \in N
    <2> SUFFICES ASSUME NEW s \in SUBSET U, Cardinality(s) = n + 1
                 PROVE  g[s] = h[s]
      OBVIOUS
    <2>1. s # {} /\ AnyOf(s) \in s
      BY <1>1, FS_EmptySet, AnyIsMember
    <2>2. Cardinality(s \ {AnyOf(s)}) = Cardinality(s) - 1
      BY <1>1, <2>1, FS_RemoveElement
    <2>3. g[s \ {AnyOf(s)}] = h[s \ {AnyOf(s)}]
      BY <1>4, <2>2
    <2> HIDE DEF N
    <2>4. QED
      BY <1>2, <2>1, <2>3 DEF SumStep
  <1>5. Nat \subseteq N
    <2> HIDE DEF N
    <2>1. QED
      BY <1>3, <1>4, NaturalInduction
  <1>6. QED
    BY <1>1, <1>5

-----------------------------------------------------------------------------
(* What a sum is.                                                           *)

LEMMA SumIsASum ==
    ASSUME NEW f, NEW S, IsFiniteSet(S)
    PROVE  \E g : Sums(g, f, SUBSET S) /\ SumFunctionOnSet(f, S) = g[S]
  <1> DEFINE g == CHOOSE h : Sums(h, f, SUBSET S)
  <1>1. Sums(g, f, SUBSET S)
    BY SumsExist
  <1>2. SumFunctionOnSet(f, S) = g[S]
    BY SumDef
  <1>3. QED
    BY <1>1, <1>2

LEMMA SumEmpty == ASSUME NEW f PROVE SumFunctionOnSet(f, {}) = 0
  <1>1. PICK g : Sums(g, f, SUBSET {}) /\ SumFunctionOnSet(f, {}) = g[{}]
    BY SumIsASum, FS_EmptySet
  <1>2. QED
    BY <1>1 DEF Sums, SumStep

\* A sum depends on the values of its elements only.
LEMMA SumEqual ==
    ASSUME NEW S, IsFiniteSet(S), NEW f, NEW e, \A x \in S : f[x] = e[x]
    PROVE  SumFunctionOnSet(f, S) = SumFunctionOnSet(e, S)
  <1>1. PICK g : Sums(g, f, SUBSET S) /\ SumFunctionOnSet(f, S) = g[S]
    BY SumIsASum
  <1>2. PICK h : Sums(h, e, SUBSET S) /\ SumFunctionOnSet(e, S) = h[S]
    BY SumIsASum
  <1>3. \A p, q : Sums(p, f, SUBSET S) /\ Sums(q, e, SUBSET S) => p[S] = q[S]
    BY SumsAgree
  <1>4. QED
    BY <1>1, <1>2, <1>3

LEMMA SumOfAny ==
    ASSUME NEW f, NEW S, IsFiniteSet(S), S # {}
    PROVE  SumFunctionOnSet(f, S) = f[AnyOf(S)] + SumFunctionOnSet(f, S \ {AnyOf(S)})
  <1> DEFINE R == S \ {AnyOf(S)}
  <1>1. IsFiniteSet(R) /\ R \subseteq S
    BY FS_Subset
  <1>2. PICK g : Sums(g, f, SUBSET S) /\ SumFunctionOnSet(f, S) = g[S]
    BY SumIsASum
  <1>3. PICK h : Sums(h, f, SUBSET R) /\ SumFunctionOnSet(f, R) = h[R]
    BY <1>1, SumIsASum
  <1>4. g[R] = h[R]
    <2> HIDE DEF R
    <2>1. \A p, q : Sums(p, f, SUBSET S) /\ Sums(q, f, SUBSET R) => p[R] = q[R]
      BY <1>1, SumsAgree
    <2>2. QED
      BY <1>2, <1>3, <2>1
  <1>5. g[S] = f[AnyOf(S)] + g[R]
    BY <1>2 DEF Sums, SumStep
  <1>6. QED
    BY <1>2, <1>3, <1>4, <1>5

\* Whichever element is taken out: by induction on the size, with the type.
LEMMA SumRemoved ==
    ASSUME NEW f, NEW S, IsFiniteSet(S), \A x \in S : f[x] \in Int
    PROVE  /\ SumFunctionOnSet(f, S) \in Int
           /\ \A x \in S : SumFunctionOnSet(f, S) = f[x] + SumFunctionOnSet(f, S \ {x})
  <1> DEFINE Sum(T) == SumFunctionOnSet(f, T)
             Good(T) == Sum(T) \in Int /\ \A x \in T : Sum(T) = f[x] + Sum(T \ {x})
             N == {n \in Nat : \A T \in SUBSET S : Cardinality(T) <= n => Good(T)}
  <1>1. \A T \in SUBSET S : IsFiniteSet(T) /\ Cardinality(T) \in Nat
    BY FS_Subset, FS_CardinalityType
  <1>2. 0 \in N /\ Good({})
    <2>1. \A T \in SUBSET S : Cardinality(T) <= 0 => T = {}
      BY <1>1, FS_EmptySet
    <2>2. Good({})
      BY SumEmpty
    <2> HIDE DEF Good
    <2>3. QED
      BY <2>1, <2>2
  <1>3. ASSUME NEW n \in Nat, n \in N
        PROVE  n + 1 \in N
    <2> SUFFICES ASSUME NEW T \in SUBSET S, Cardinality(T) <= n + 1, T # {}
                 PROVE  Good(T)
      BY <1>2
    <2> DEFINE p == AnyOf(T)
    <2>1. p \in T
      BY AnyIsMember
    <2>2. ASSUME NEW x \in T, NEW R \in SUBSET (T \ {x})
          PROVE  Good(R)
      <3>1. Cardinality(T \ {x}) = Cardinality(T) - 1
        BY <1>1, FS_RemoveElement
      <3>2. Cardinality(R) <= Cardinality(T \ {x})
        BY <1>1, FS_Subset
      <3> HIDE DEF Good
      <3>3. QED
        BY <1>1, <1>3, <3>1, <3>2
    <2>3. Sum(T) = f[p] + Sum(T \ {p})
      BY <1>1, <2>1, SumOfAny
    <2>4. f[p] \in Int /\ Sum(T \ {p}) \in Int
      BY <2>1, <2>2
    <2>5. ASSUME NEW x \in T, x # p
          PROVE  Sum(T) = f[x] + Sum(T \ {x})
      <3>1. Sum(T \ {p}) = f[x] + Sum((T \ {p}) \ {x})
        BY <2>1, <2>2, <2>5
      <3>2. Sum(T \ {x}) = f[p] + Sum((T \ {x}) \ {p})
        BY <2>1, <2>2, <2>5
      <3>3. (T \ {p}) \ {x} = (T \ {x}) \ {p}
        OBVIOUS
      <3>4. f[x] \in Int /\ Sum((T \ {p}) \ {x}) \in Int
        <4>1. Good((T \ {p}) \ {x})
          BY <2>2
        <4>2. QED
          BY <4>1
      <3>5. Sum(T \ {x}) = f[p] + Sum((T \ {p}) \ {x})
        BY <3>2, <3>3
      <3>6. QED
        BY <2>3, <2>4, <3>1, <3>4, <3>5
    <2> HIDE DEF Sum
    <2>6. QED
      BY <2>3, <2>4, <2>5
  <1>4. Nat \subseteq N
    <2> HIDE DEF N
    <2>1. QED
      BY <1>2, <1>3, NaturalInduction
  <1>5. QED
    BY <1>1, <1>4

-----------------------------------------------------------------------------
(* Consequences.                                                            *)

\* One element more, one element other.
LEMMA SumAdded ==
    ASSUME NEW f, NEW S, IsFiniteSet(S), NEW x, x \notin S, \A y \in S \cup {x} : f[y] \in Int
    PROVE  SumFunctionOnSet(f, S \cup {x}) = f[x] + SumFunctionOnSet(f, S)
  <1>1. IsFiniteSet(S \cup {x})
    BY FS_AddElement
  <1>2. SumFunctionOnSet(f, S \cup {x}) = f[x] + SumFunctionOnSet(f, (S \cup {x}) \ {x})
    BY <1>1, SumRemoved
  <1>3. (S \cup {x}) \ {x} = S
    OBVIOUS
  <1>4. QED
    BY <1>2, <1>3

LEMMA SumIsInt ==
    ASSUME NEW f, NEW S, IsFiniteSet(S), \A x \in S : f[x] \in Int
    PROVE  SumFunctionOnSet(f, S) \in Int
  BY SumRemoved

\* A sum of larger values, over a larger set.
LEMMA SumMonotone ==
    ASSUME NEW f, NEW e, NEW S, IsFiniteSet(S),
           \A x \in S : f[x] \in Int /\ e[x] \in Int /\ f[x] <= e[x]
    PROVE  SumFunctionOnSet(f, S) <= SumFunctionOnSet(e, S)
  <1> DEFINE P == {T \in SUBSET S : SumFunctionOnSet(f, T) <= SumFunctionOnSet(e, T)}
  <1>1. {} \in P
    BY SumEmpty
  <1>2. ASSUME NEW T \in SUBSET S, NEW x \in S, T \in P, x \notin T
        PROVE  T \cup {x} \in P
    <2>1. IsFiniteSet(T)
      BY FS_Subset
    <2>2. /\ SumFunctionOnSet(f, T \cup {x}) = f[x] + SumFunctionOnSet(f, T)
          /\ SumFunctionOnSet(f, T) \in Int
      BY <1>2, <2>1, SumAdded, SumIsInt
    <2>3. /\ SumFunctionOnSet(e, T \cup {x}) = e[x] + SumFunctionOnSet(e, T)
          /\ SumFunctionOnSet(e, T) \in Int
      BY <1>2, <2>1, SumAdded, SumIsInt
    <2>4. QED
      BY <1>2, <2>2, <2>3
  <1>3. S \in P
    <2> HIDE DEF P
    <2>1. QED
      BY <1>1, <1>2, SetInduction
  <1>4. QED
    BY <1>3

LEMMA SumUnion ==
    ASSUME NEW f, NEW S, IsFiniteSet(S), NEW R, IsFiniteSet(R), R \cap S = {},
           \A x \in S \cup R : f[x] \in Int
    PROVE  SumFunctionOnSet(f, R \cup S) = SumFunctionOnSet(f, R) + SumFunctionOnSet(f, S)
  <1> DEFINE Sum(T) == SumFunctionOnSet(f, T)
             P == {T \in SUBSET S : Sum(R \cup T) = Sum(R) + Sum(T)}
  <1>1. {} \in P
    <2>1. R \cup {} = R /\ Sum(R) \in Int
      BY SumIsInt
    <2>2. QED
      BY <2>1, SumEmpty
  <1>2. ASSUME NEW T \in SUBSET S, NEW x \in S, T \in P, x \notin T
        PROVE  T \cup {x} \in P
    <2>1. IsFiniteSet(T) /\ IsFiniteSet(R \cup T)
      BY FS_Subset, FS_Union
    <2>2. Sum(T \cup {x}) = f[x] + Sum(T) /\ Sum(T) \in Int /\ Sum(R) \in Int /\ f[x] \in Int
      BY <1>2, <2>1, SumAdded, SumIsInt
    <2>3. Sum((R \cup T) \cup {x}) = f[x] + Sum(R \cup T) /\ Sum(R \cup T) \in Int
      BY <1>2, <2>1, SumAdded, SumIsInt
    <2>4. (R \cup T) \cup {x} = R \cup (T \cup {x})
      OBVIOUS
    <2>5. Sum(R \cup (T \cup {x})) = f[x] + Sum(R \cup T)
      BY <2>3, <2>4
    <2> HIDE DEF Sum
    <2>6. QED
      BY <1>2, <2>2, <2>3, <2>5
  <1>3. S \in P
    <2> HIDE DEF P
    <2>1. QED
      BY <1>1, <1>2, SetInduction
  <1>4. QED
    BY <1>3

LEMMA SumNonNegative ==
    ASSUME NEW f, NEW S, IsFiniteSet(S), \A x \in S : f[x] \in Nat
    PROVE  SumFunctionOnSet(f, S) \in Nat
  <1> DEFINE P == {T \in SUBSET S : SumFunctionOnSet(f, T) \in Nat}
  <1>1. {} \in P
    BY SumEmpty
  <1>2. ASSUME NEW T \in SUBSET S, NEW x \in S, T \in P, x \notin T
        PROVE  T \cup {x} \in P
    <2>1. IsFiniteSet(T)
      BY FS_Subset
    <2>2. SumFunctionOnSet(f, T \cup {x}) = f[x] + SumFunctionOnSet(f, T)
      BY <1>2, <2>1, SumAdded
    <2>3. QED
      BY <1>2, <2>2
  <1>3. S \in P
    <2> HIDE DEF P
    <2>1. QED
      BY <1>1, <1>2, SetInduction
  <1>4. QED
    BY <1>3

LEMMA SumZero ==
    ASSUME NEW f, NEW S, IsFiniteSet(S), \A x \in S : f[x] = 0
    PROVE  SumFunctionOnSet(f, S) = 0
  <1> DEFINE P == {T \in SUBSET S : SumFunctionOnSet(f, T) = 0}
  <1>1. {} \in P
    BY SumEmpty
  <1>2. ASSUME NEW T \in SUBSET S, NEW x \in S, T \in P, x \notin T
        PROVE  T \cup {x} \in P
    <2>1. IsFiniteSet(T)
      BY FS_Subset
    <2>2. SumFunctionOnSet(f, T \cup {x}) = f[x] + SumFunctionOnSet(f, T)
      BY <1>2, <2>1, SumAdded
    <2>3. QED
      BY <1>2, <2>2
  <1>3. S \in P
    <2> HIDE DEF P
    <2>1. QED
      BY <1>1, <1>2, SetInduction
  <1>4. QED
    BY <1>3

LEMMA SumSubset ==
    ASSUME NEW f, NEW S, IsFiniteSet(S), NEW T \in SUBSET S, \A x \in S : f[x] \in Nat
    PROVE  SumFunctionOnSet(f, T) <= SumFunctionOnSet(f, S)
  <1>1. IsFiniteSet(T) /\ IsFiniteSet(S \ T)
    BY FS_Subset
  <1>2. SumFunctionOnSet(f, T) \in Nat /\ SumFunctionOnSet(f, S \ T) \in Nat
    BY <1>1, SumNonNegative
  <1>3. SumFunctionOnSet(f, T \cup (S \ T)) = SumFunctionOnSet(f, T) + SumFunctionOnSet(f, S \ T)
    BY <1>1, SumUnion
  <1>4. T \cup (S \ T) = S
    OBVIOUS
  <1>5. SumFunctionOnSet(f, S) = SumFunctionOnSet(f, T) + SumFunctionOnSet(f, S \ T)
    BY <1>3, <1>4
  <1>6. QED
    BY <1>2, <1>5
=============================================================================
