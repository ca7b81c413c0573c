-------------------------- MODULE SelectionsProofs --------------------------
(***************************************************************************)
(* Proofs about the two selections of inputs, for every list, every number *)
(* of tokens, every limit and every width of a word.  GetUTXOsForAmounts   *)
(* permutes the list of its caller, and both selections implement the      *)
(* contract of InputSelection.                                             *)
(*                                                                         *)
(* With one condition both keep the outputs that hold most of its token:   *)
(* what they keep holds at least as much as any inputs within the limit    *)
(* among the outputs visited so far, so an error hides no solution.        *)
(***************************************************************************)
EXTENDS Selections, Functions, FiniteSetTheorems, SequenceTheorems,
        WellFoundedInduction, TLAPS

-----------------------------------------------------------------------------
(* Sums over finite sets *)

\* A set of naturals that is not empty has a least element.
LEMMA LeastNatural ==
  ASSUME NEW T \in SUBSET Nat, T # {}
  PROVE  \E x \in T : \A y \in T : x <= y
<1>1. PICK x \in T : \A y \in T : ~(<<y, x>> \in OpToRel(<, Nat))
  BY WFMin, NatLessThanWellFounded
<1>2. ASSUME NEW y \in T PROVE x <= y
  <2>1. ~(y < x)
    BY <1>1 DEF OpToRel
  <2> QED
    BY <2>1
<1> QED
  BY <1>2

\* Induction over the subsets of a finite set: a family holds all of them when
\* it holds the empty one, and any other when it holds what is left of it
\* without one member.
LEMMA SubsetInduction ==
  ASSUME NEW S, IsFiniteSet(S), NEW D, {} \in D,
         \A T \in SUBSET S : T # {} /\ (\A x \in T : T \ {x} \in D) => T \in D
  PROVE  SUBSET S \subseteq D
<1> SUFFICES ASSUME NEW Z \in SUBSET S, Z \notin D PROVE FALSE
  OBVIOUS
<1> DEFINE N == {Cardinality(T) : T \in (SUBSET S) \ D}
<1>1. \A T \in SUBSET S : IsFiniteSet(T) /\ Cardinality(T) \in Nat
  BY FS_Subset, FS_CardinalityType
<1>2. N \in SUBSET Nat /\ N # {}
  BY <1>1
<1>3. PICK n \in N : \A m \in N : n <= m
  BY <1>2, LeastNatural
<1>4. PICK T \in (SUBSET S) \ D : n = Cardinality(T)
  BY <1>3
<1>5. PICK x \in T : T \ {x} \notin D
  BY <1>4
<1>6. Cardinality(T \ {x}) = Cardinality(T) - 1
  BY <1>1, <1>4, <1>5, FS_RemoveElement
<1>7. Cardinality(T \ {x}) \in N /\ Cardinality(T) \in Nat
  BY <1>1, <1>4, <1>5
<1> HIDE DEF N
<1>8. Cardinality(T) <= Cardinality(T) - 1
  BY <1>3, <1>4, <1>6, <1>7
<1> QED
  BY <1>7, <1>8

\* The member that a fold of the library takes first.
Pick(s) == CHOOSE x \in s : TRUE

\* g adds up f over the subsets of S, as the fold of the library does.
Adds(f, S, g) ==
  g = [s \in SUBSET S |-> IF s = {} THEN 0 ELSE f[Pick(s)] + g[s \ {Pick(s)}]]

\* The library's sum is that of such a function.
LEMMA SumIsFold ==
  ASSUME NEW f, NEW S
  PROVE  SumFunctionOnSet(f, S) = (CHOOSE g : Adds(f, S, g))[S]
  BY DEF SumFunctionOnSet, FoldFunctionOnSet, MapThenFoldSet, Adds, Pick

\* There is one when S is finite.
LEMMA AddsExists ==
  ASSUME NEW f, NEW S, IsFiniteSet(S)
  PROVE  \E g : Adds(f, S, g)
<1> DEFINE Upto(n) == {s \in SUBSET S : Cardinality(s) <= n}
           AddsUpto(g, n) == g = [s \in Upto(n) |-> IF s = {} THEN 0 ELSE f[Pick(s)] + g[s \ {Pick(s)}]]
           N == {n \in Nat : ~\E g : AddsUpto(g, n)}
<1>1. \A s \in SUBSET S : IsFiniteSet(s) /\ Cardinality(s) \in Nat /\ Cardinality(s) <= Cardinality(S)
  BY FS_Subset, FS_CardinalityType
<1>2. \A s \in SUBSET S : s # {} => /\ Pick(s) \in s
                                    /\ Cardinality(s \ {Pick(s)}) = Cardinality(s) - 1
                                    /\ s \ {Pick(s)} \in SUBSET S
  BY <1>1, FS_RemoveElement DEF Pick
<1>3. \A s \in SUBSET S : Cardinality(s) = 0 <=> s = {}
  BY <1>1, FS_EmptySet
<1>4. 0 \notin N
  <2>1. AddsUpto([s \in Upto(0) |-> 0], 0)
    BY <1>1, <1>3
  <2> QED
    BY <2>1
<1>5. ASSUME NEW n \in Nat, NEW g, AddsUpto(g, n) PROVE n + 1 \notin N
  <2> DEFINE h == [s \in Upto(n + 1) |-> IF s = {} THEN 0 ELSE f[Pick(s)] + g[s \ {Pick(s)}]]
  <2>1. ASSUME NEW s \in Upto(n + 1), s # {} PROVE h[s \ {Pick(s)}] = g[s \ {Pick(s)}]
    <3> DEFINE r == s \ {Pick(s)}
    <3>1. r \in Upto(n) /\ r \in Upto(n + 1)
      BY <1>1, <1>2, <2>1
    <3>2. g[r] = IF r = {} THEN 0 ELSE f[Pick(r)] + g[r \ {Pick(r)}]
      BY <1>5, <3>1
    <3>3. h[r] = IF r = {} THEN 0 ELSE f[Pick(r)] + g[r \ {Pick(r)}]
      BY <3>1
    <3> QED
      BY <3>2, <3>3
  <2>2. AddsUpto(h, n + 1)
    BY <2>1
  <2> HIDE DEF AddsUpto, h
  <2> QED
    BY <2>2
<1>6. N = {}
  <2> SUFFICES ASSUME N # {} PROVE FALSE
    OBVIOUS
  <2>1. PICK n \in N : \A m \in N : n <= m
    BY LeastNatural
  <2> HIDE DEF AddsUpto
  <2>2. n # 0 /\ n - 1 \in Nat /\ (n - 1) + 1 = n
    BY <1>4
  <2>3. n - 1 \notin N
    BY <2>1, <2>2
  <2> QED
    BY <1>5, <2>1, <2>2, <2>3
<1>7. PICK g : AddsUpto(g, Cardinality(S))
  <2>1. Cardinality(S) \in Nat
    BY FS_CardinalityType
  <2> HIDE DEF AddsUpto
  <2> QED
    BY <1>6, <2>1
<1>8. Upto(Cardinality(S)) = SUBSET S
  BY <1>1
<1>9. Adds(f, S, g)
  BY <1>7, <1>8 DEF Adds
<1> QED
  BY <1>9

\* A sum over a finite set, with the member that the fold takes first.
LEMMA SumPicked ==
  ASSUME NEW f, NEW S, IsFiniteSet(S)
  PROVE  /\ S = {} => SumFunctionOnSet(f, S) = 0
         /\ S # {} => SumFunctionOnSet(f, S) = f[Pick(S)] + SumFunctionOnSet(f, S \ {Pick(S)})
<1> DEFINE Fold(T) == CHOOSE g : Adds(f, T, g)
<1>1. \A T \in SUBSET S : IsFiniteSet(T)
  BY FS_Subset
<1>2. \A T \in SUBSET S : Adds(f, T, Fold(T))
  BY <1>1, AddsExists
<1> HIDE DEF Fold
<1>3. \A T \in SUBSET S : \A s \in SUBSET T :
        Fold(T)[s] = IF s = {} THEN 0 ELSE f[Pick(s)] + Fold(T)[s \ {Pick(s)}]
  BY <1>2 DEF Adds
<1>4. ASSUME NEW T \in SUBSET S PROVE Fold(S)[T] = Fold(T)[T]
  <2> DEFINE D == {s \in SUBSET T : Fold(S)[s] = Fold(T)[s]}
  <2>1. {} \in D
    BY <1>3
  <2>2. ASSUME NEW s \in SUBSET T, s # {}, \A x \in s : s \ {x} \in D PROVE s \in D
    <3>1. Pick(s) \in s
      BY <2>2 DEF Pick
    <3>2. Fold(S)[s \ {Pick(s)}] = Fold(T)[s \ {Pick(s)}]
      BY <2>2, <3>1
    <3> QED
      BY <1>3, <2>2, <3>2
  <2>3. SUBSET T \subseteq D
    <3> HIDE DEF D
    <3> QED
      BY <1>1, <2>1, <2>2, SubsetInduction
  <2> QED
    BY <2>3
<1>5. \A T \in SUBSET S : SumFunctionOnSet(f, T) = Fold(S)[T]
  BY <1>4, SumIsFold DEF Fold
<1>6. S # {} => S \ {Pick(S)} \in SUBSET S
  OBVIOUS
<1> QED
  BY <1>3, <1>5, <1>6

\* A sum of integers over a finite set, with any of its members taken first.
LEMMA SumOfInts ==
  ASSUME NEW S, IsFiniteSet(S), NEW f, \A x \in S : f[x] \in Int
  PROVE  /\ SumFunctionOnSet(f, S) \in Int
         /\ \A x \in S : SumFunctionOnSet(f, S) = f[x] + SumFunctionOnSet(f, S \ {x})
<1> DEFINE Sum(T) == SumFunctionOnSet(f, T)
           D == {T \in SUBSET S :
                   /\ Sum(T) \in Int
                   /\ \A x \in T : Sum(T \ {x}) \in Int /\ Sum(T) = f[x] + Sum(T \ {x})}
<1>1. \A T \in SUBSET S : IsFiniteSet(T)
  BY FS_Subset
<1>2. \A T \in SUBSET S : /\ T = {} => Sum(T) = 0
                          /\ T # {} => Sum(T) = f[Pick(T)] + Sum(T \ {Pick(T)})
  BY <1>1, SumPicked
<1> HIDE DEF Sum
<1>3. {} \in D
  BY <1>2
<1>4. ASSUME NEW T \in SUBSET S, T # {}, \A x \in T : T \ {x} \in D PROVE T \in D
  <2> DEFINE c == Pick(T)
  <2>1. c \in T
    BY <1>4 DEF Pick
  <2> HIDE DEF c
  <2>2. Sum(T) = f[c] + Sum(T \ {c}) /\ Sum(T \ {c}) \in Int /\ f[c] \in Int
    BY <1>2, <1>4, <2>1 DEF c
  <2>3. ASSUME NEW x \in T PROVE Sum(T \ {x}) \in Int /\ Sum(T) = f[x] + Sum(T \ {x})
    <3>1. CASE x = c
      BY <2>2, <3>1
    <3>2. CASE x # c
      <4>1. Sum(T \ {x}) \in Int
        BY <1>4
      <4>2. Sum(T \ {c}) = f[x] + Sum((T \ {c}) \ {x})
        BY <1>4, <2>1, <3>2
      <4>3. Sum(T \ {x}) = f[c] + Sum((T \ {x}) \ {c})
        BY <1>4, <2>1, <3>2
      <4>4. (T \ {c}) \ {x} = (T \ {x}) \ {c}
        OBVIOUS
      <4>5. Sum((T \ {c}) \ {x}) \in Int /\ f[x] \in Int
        BY <1>4, <2>1, <3>2
      <4>6. Sum((T \ {x}) \ {c}) = Sum((T \ {c}) \ {x})
        BY <4>4
      <4> HIDE DEF D
      <4> QED
        BY <2>2, <4>1, <4>2, <4>3, <4>5, <4>6
    <3> QED
      BY <3>1, <3>2
  <2>4. Sum(T) \in Int
    BY <2>2
  <2> QED
    BY <2>3, <2>4
<1>5. SUBSET S \subseteq D
  <2> HIDE DEF D
  <2> QED
    BY <1>3, <1>4, SubsetInduction
<1> QED
  BY <1>5 DEF Sum

\* A sum of naturals, and that of some of them.
LEMMA SumOfNats ==
  ASSUME NEW S, IsFiniteSet(S), NEW f, \A x \in S : f[x] \in Nat
  PROVE  \A T \in SUBSET S :
           SumFunctionOnSet(f, T) \in Nat /\ SumFunctionOnSet(f, T) <= SumFunctionOnSet(f, S)
<1> DEFINE Sum(T) == SumFunctionOnSet(f, T)
<1>1. \A T \in SUBSET S : Sum(T) \in Int /\ \A x \in T : Sum(T) = f[x] + Sum(T \ {x})
  <2> SUFFICES ASSUME NEW T \in SUBSET S
               PROVE  Sum(T) \in Int /\ \A x \in T : Sum(T) = f[x] + Sum(T \ {x})
    OBVIOUS
  <2>1. IsFiniteSet(T) /\ \A x \in T : f[x] \in Int
    BY FS_Subset
  <2> QED
    BY <2>1, SumOfInts
<1>2. Sum({}) = 0
  BY SumPicked, FS_EmptySet
<1> HIDE DEF Sum
<1>3. SUBSET S \subseteq {T \in SUBSET S : Sum(T) \in Nat}
  <2> DEFINE D == {T \in SUBSET S : Sum(T) \in Nat}
  <2>1. {} \in D
    BY <1>2
  <2>2. ASSUME NEW T \in SUBSET S, T # {}, \A x \in T : T \ {x} \in D PROVE T \in D
    <3>1. PICK x \in T : TRUE
      BY <2>2
    <3>2. Sum(T) = f[x] + Sum(T \ {x}) /\ Sum(T \ {x}) \in Nat /\ f[x] \in Nat
      BY <1>1, <2>2
    <3> QED
      BY <3>2
  <2> HIDE DEF D
  <2>3. SUBSET S \subseteq D
    BY <2>1, <2>2, SubsetInduction
  <2> QED
    BY <2>3 DEF D
<1>4. ASSUME NEW T \in SUBSET S PROVE Sum(T) <= Sum(S)
  <2> DEFINE D == {U \in SUBSET S : Sum(U \cap T) <= Sum(U)}
  <2>1. {} \in D
    BY <1>2
  <2>2. ASSUME NEW U \in SUBSET S, U # {}, \A x \in U : U \ {x} \in D PROVE U \in D
    <3>1. PICK x \in U : TRUE
      BY <2>2
    <3> DEFINE R == U \ {x}
    <3>2. Sum(R \cap T) <= Sum(R)
      BY <2>2
    <3>3. /\ Sum(U) = f[x] + Sum(R) /\ f[x] \in Nat
          /\ Sum(R) \in Nat /\ Sum(R \cap T) \in Nat /\ Sum(U \cap T) \in Nat
      BY <1>1, <1>3
    <3>4. CASE x \in T
      <4>1. (U \cap T) \ {x} = R \cap T /\ x \in U \cap T /\ U \cap T \in SUBSET S
        BY <3>4
      <4>2. Sum(U \cap T) = f[x] + Sum(R \cap T)
        BY <1>1, <4>1
      <4> QED
        BY <3>2, <3>3, <4>2
    <3>5. CASE x \notin T
      <4>1. U \cap T = R \cap T
        BY <3>5
      <4> QED
        BY <3>2, <3>3, <4>1
    <3> QED
      BY <3>4, <3>5
  <2> HIDE DEF D
  <2>3. SUBSET S \subseteq D
    BY <2>1, <2>2, SubsetInduction
  <2>4. S \cap T = T
    OBVIOUS
  <2> QED
    BY <2>3, <2>4 DEF D
<1> QED
  BY <1>3, <1>4 DEF Sum

-----------------------------------------------------------------------------
(* Measures: what sets of outputs hold of a token is one of them *)

\* F gives every subset of the finite set P the sum of f over it.
Measures(F, f, P) ==
  /\ IsFiniteSet(P)
  /\ f \in [P -> Nat]
  /\ F \in [SUBSET P -> Nat]
  /\ F[{}] = 0
  /\ \A S \in SUBSET P : \A x \in S : F[S] = f[x] + F[S \ {x}]

\* The measure of two sets without a common member.
LEMMA MeasureOfUnion ==
  ASSUME NEW P, NEW f, NEW F, Measures(F, f, P),
         NEW A \in SUBSET P, NEW B \in SUBSET P, A \cap B = {}
  PROVE  F[A \cup B] = F[A] + F[B]
<1> DEFINE D == {T \in SUBSET B : F[A \cup T] = F[A] + F[T]}
<1>1. /\ \A S \in SUBSET P : F[S] \in Nat
      /\ F[{}] = 0
      /\ \A S \in SUBSET P : \A x \in S : F[S] = f[x] + F[S \ {x}]
      /\ \A x \in P : f[x] \in Nat
  BY DEF Measures
<1>2. IsFiniteSet(B)
  BY FS_Subset DEF Measures
<1>3. {} \in D
  <2>1. A \cup {} = A
    OBVIOUS
  <2> QED
    BY <1>1, <2>1
<1>4. ASSUME NEW T \in SUBSET B, T # {}, \A x \in T : T \ {x} \in D PROVE T \in D
  <2>1. PICK x \in T : TRUE
    BY <1>4
  <2>2. F[A \cup (T \ {x})] = F[A] + F[T \ {x}]
    BY <1>4
  <2>3. (A \cup T) \ {x} = A \cup (T \ {x}) /\ x \in A \cup T /\ A \cup T \in SUBSET P /\ T \in SUBSET P /\ x \in P
    OBVIOUS
  <2>4. F[A \cup T] = f[x] + F[A \cup (T \ {x})]
    BY <1>1, <2>3
  <2>5. F[T] = f[x] + F[T \ {x}]
    BY <1>1, <2>3
  <2>6. F[A] \in Nat /\ F[T \ {x}] \in Nat /\ f[x] \in Nat
    BY <1>1, <2>3
  <2>7. F[A \cup T] = F[A] + F[T]
    BY <2>2, <2>4, <2>5, <2>6
  <2> QED
    BY <2>7
<1>5. SUBSET B \subseteq D
  <2> HIDE DEF D
  <2> QED
    BY <1>2, <1>3, <1>4, SubsetInduction
<1> QED
  BY <1>5

\* More members do not measure less.
LEMMA MeasureGrows ==
  ASSUME NEW P, NEW f, NEW F, Measures(F, f, P),
         NEW B \in SUBSET P, NEW A \in SUBSET B
  PROVE  F[A] \in Nat /\ F[B] \in Nat /\ F[A] <= F[B]
<1>1. A \cap (B \ A) = {} /\ A \cup (B \ A) = B /\ A \in SUBSET P /\ B \ A \in SUBSET P
  OBVIOUS
<1>2. F[B] = F[A] + F[B \ A]
  BY <1>1, MeasureOfUnion
<1>3. F[A] \in Nat /\ F[B] \in Nat /\ F[B \ A] \in Nat
  BY <1>1 DEF Measures
<1> QED
  BY <1>2, <1>3

\* A set measures at most, or at least, its size times a bound of its members.
LEMMA MeasureBounds ==
  ASSUME NEW P, NEW f, NEW F, Measures(F, f, P), NEW B \in SUBSET P, NEW m \in Nat
  PROVE  /\ IsFiniteSet(B) /\ Cardinality(B) \in Nat /\ F[B] \in Nat
         /\ (\A x \in B : f[x] <= m) => F[B] <= Cardinality(B) * m
         /\ (\A x \in B : f[x] >= m) => F[B] >= Cardinality(B) * m
<1> DEFINE Low(T) == (\A x \in B : f[x] <= m) => F[T] <= Cardinality(T) * m
           High(T) == (\A x \in B : f[x] >= m) => F[T] >= Cardinality(T) * m
           D == {T \in SUBSET B : Low(T) /\ High(T)}
<1>1. /\ \A S \in SUBSET P : F[S] \in Nat
      /\ F[{}] = 0
      /\ \A S \in SUBSET P : \A x \in S : F[S] = f[x] + F[S \ {x}]
      /\ \A x \in P : f[x] \in Nat
  BY DEF Measures
<1>2. \A T \in SUBSET B : IsFiniteSet(T) /\ Cardinality(T) \in Nat
  BY FS_Subset, FS_CardinalityType DEF Measures
<1>3. {} \in D
  <2>1. Cardinality({}) = 0
    BY FS_EmptySet
  <2>2. 0 * m = 0
    OBVIOUS
  <2> QED
    BY <1>1, <2>1, <2>2
<1>4. ASSUME NEW T \in SUBSET B, T # {}, \A x \in T : T \ {x} \in D PROVE T \in D
  <2>1. PICK x \in T : TRUE
    BY <1>4
  <2> DEFINE less == T \ {x}
             c == Cardinality(less)
  <2>2. less \in SUBSET B /\ T \in SUBSET P /\ x \in B /\ x \in P /\ less \in SUBSET P
    OBVIOUS
  <2>3. F[T] = f[x] + F[less] /\ f[x] \in Nat /\ F[less] \in Nat
    BY <1>1, <2>2
  <2>4. Low(less) /\ High(less)
    BY <1>4
  <2>5. Cardinality(T) = c + 1 /\ c \in Nat
    <3>1. c = Cardinality(T) - 1
      BY <1>2, FS_RemoveElement
    <3> QED
      BY <1>2, <2>2, <3>1
  <2> HIDE DEF c, less
  <2>6. (c + 1) * m = c * m + m /\ c * m \in Nat
    BY <2>5
  <2>7. Low(T)
    <3> SUFFICES ASSUME \A y \in B : f[y] <= m PROVE F[T] <= Cardinality(T) * m
      OBVIOUS
    <3>1. F[less] <= c * m /\ f[x] <= m
      BY <2>2, <2>4 DEF c
    <3> QED
      BY <2>3, <2>5, <2>6, <3>1
  <2>8. High(T)
    <3> SUFFICES ASSUME \A y \in B : f[y] >= m PROVE F[T] >= Cardinality(T) * m
      OBVIOUS
    <3>1. F[less] >= c * m /\ f[x] >= m
      BY <2>2, <2>4 DEF c
    <3> QED
      BY <2>3, <2>5, <2>6, <3>1
  <2> HIDE DEF Low, High
  <2> QED
    BY <2>7, <2>8
<1>5. SUBSET B \subseteq D
  <2> HIDE DEF D
  <2> QED
    BY <1>2, <1>3, <1>4, SubsetInduction
<1>6. Low(B) /\ High(B)
  BY <1>5
<1> QED
  BY <1>1, <1>2, <1>6

\* A set none of whose members is below one that it leaves out measures at
\* least as much as any set that is not larger: the exchange argument that
\* makes the best outputs the right ones to keep.
LEMMA TopDominates ==
  ASSUME NEW P, NEW f, NEW F, Measures(F, f, P),
         NEW C \in SUBSET P, NEW S \in SUBSET P, Cardinality(S) <= Cardinality(C),
         \A u \in C : \A v \in S \ C : f[v] <= f[u]
  PROVE  F[S] <= F[C]
<1> DEFINE both == C \cap S
           A == C \ S
           B == S \ C
<1>1. /\ both \in SUBSET P /\ A \in SUBSET P /\ B \in SUBSET P
      /\ both \cap A = {} /\ both \cup A = C
      /\ both \cap B = {} /\ both \cup B = S
      /\ \A u \in A : \A v \in B : f[v] <= f[u]
  OBVIOUS
<1> HIDE DEF both, A, B
<1>2. F[C] = F[both] + F[A] /\ F[S] = F[both] + F[B]
  BY <1>1, MeasureOfUnion
<1>3. /\ IsFiniteSet(both) /\ IsFiniteSet(A) /\ IsFiniteSet(B)
      /\ Cardinality(both) \in Nat /\ Cardinality(A) \in Nat /\ Cardinality(B) \in Nat
  BY <1>1, FS_Subset, FS_CardinalityType DEF Measures
<1>4. Cardinality(B) <= Cardinality(A)
  <2>1. Cardinality({}) = 0
    BY FS_EmptySet
  <2>2. Cardinality(C) = Cardinality(both) + Cardinality(A)
    <3>1. Cardinality(both \cup A) = Cardinality(both) + Cardinality(A) - Cardinality(both \cap A)
      BY <1>3, FS_Union
    <3>2. Cardinality(both \cap A) = 0 /\ Cardinality(both \cup A) = Cardinality(C)
      BY <1>1, <2>1
    <3> QED
      BY <1>3, <3>1, <3>2
  <2>3. Cardinality(S) = Cardinality(both) + Cardinality(B)
    <3>1. Cardinality(both \cup B) = Cardinality(both) + Cardinality(B) - Cardinality(both \cap B)
      BY <1>3, FS_Union
    <3>2. Cardinality(both \cap B) = 0 /\ Cardinality(both \cup B) = Cardinality(S)
      BY <1>1, <2>1
    <3> QED
      BY <1>3, <3>1, <3>2
  <2> QED
    BY <1>3, <2>2, <2>3
<1>5. F[both] \in Nat /\ F[A] \in Nat /\ F[B] \in Nat /\ \A x \in P : f[x] \in Nat
  BY <1>1 DEF Measures
<1>6. F[B] <= F[A]
  <2>1. CASE B = {}
    <3>1. F[B] = 0
      BY <2>1 DEF Measures
    <3> QED
      BY <1>5, <3>1
  <2>2. CASE B # {}
    <3>1. Cardinality(B) # 0
      BY <1>3, <2>2, FS_EmptySet
    <3>2. A # {}
      BY <1>3, <1>4, <3>1, FS_EmptySet
    <3> DEFINE least == {f[x] : x \in A}
    <3>3. least \in SUBSET Nat /\ least # {}
      BY <1>1, <1>5, <3>2
    <3>4. PICK m \in least : \A y \in least : m <= y
      BY <3>3, LeastNatural
    <3>5. /\ m \in Nat
          /\ \A x \in A : f[x] >= m
          /\ \A x \in B : f[x] <= m
      BY <1>1, <3>3, <3>4
    <3>6. F[B] <= Cardinality(B) * m /\ F[A] >= Cardinality(A) * m
      BY <1>1, <3>5, MeasureBounds
    <3>7. Cardinality(B) * m <= Cardinality(A) * m
      BY <1>3, <1>4, <3>5
    <3>8. Cardinality(B) * m \in Nat /\ Cardinality(A) * m \in Nat
      BY <1>3, <3>5
    <3> QED
      BY <1>5, <3>6, <3>7, <3>8
  <2> QED
    BY <2>1, <2>2
<1> QED
  BY <1>2, <1>5, <1>6

-----------------------------------------------------------------------------
(* GetUTXOsForAmounts permutes the list *)

\* list holds every member of P once.
Permutes(list, P) ==
  /\ list \in [P -> P]
  /\ \A u \in P : \E k \in P : list[k] = u
  /\ \A j, k \in P : list[j] = list[k] => j = k

\* What Visit, the replacements included, needs to know of the loop: the
\* list is a permutation of the positions 1 to n that fixes the unvisited
\* ones, and the chosen ones are among the visited ones, with room for one
\* more while the loop runs.
Inv ==
  /\ request \in Requests
  /\ Permutes(utxos, Utxos)
  /\ i \in 0 .. Len(utxos)
  /\ choosenCount \in 0 .. i
  /\ ListKeepsAll

\* A list of the request numbers its outputs from 1.
LEMMA Positions ==
  ASSUME request \in Requests
  PROVE  \E n \in Nat : Utxos = 1..n /\ request.amount \in [1..n -> Output]
<1>1. request.amount \in Lists
  BY DEF Requests
<1>2. PICK n \in 0..MaxUtxos : request.amount \in [1..n -> Output]
  BY <1>1 DEF Lists
<1>3. n \in Nat
  BY <1>2, SelectionAssumption
<1> QED
  BY <1>2, <1>3 DEF Utxos

\* Swapping two positions of a permutation gives a permutation.
LEMMA SwapPermutes ==
  ASSUME NEW P, NEW list, Permutes(list, P), NEW m \in P, NEW n \in P
  PROVE  /\ Permutes(Swap(list, m, n), P)
         /\ \A k \in P \ {m, n} : Swap(list, m, n)[k] = list[k]
<1> DEFINE s == Swap(list, m, n)
<1>1. s \in [P -> P] /\ \A k \in P : s[k] = IF k = n THEN list[m] ELSE IF k = m THEN list[n] ELSE list[k]
  BY DEF Swap, Permutes
<1>2. ASSUME NEW u \in P PROVE \E k \in P : s[k] = u
  <2>1. PICK k \in P : list[k] = u
    BY DEF Permutes
  <2>2. CASE k = m
    BY <1>1, <2>1, <2>2
  <2>3. CASE k = n
    BY <1>1, <2>1, <2>3
  <2>4. CASE k # m /\ k # n
    BY <1>1, <2>1, <2>4
  <2> QED
    BY <2>2, <2>3, <2>4
<1>3. ASSUME NEW j \in P, NEW k \in P, s[j] = s[k] PROVE j = k
  BY <1>1, <1>3 DEF Permutes
<1>4. \A k \in P \ {m, n} : s[k] = list[k]
  BY <1>1
<1> HIDE DEF s
<1> QED
  BY <1>1, <1>2, <1>3, <1>4 DEF s, Permutes

\* findMinUtxo returns the index of one of the chosen outputs that hold least.
LEMMA FindMinUtxoIndex ==
  ASSUME NEW n \in Nat, n > 0, NEW list, NEW t,
         \A k \in 1..n : request.amount[list[k]][t] \in Nat
  PROVE  /\ FindMinUtxo(list, n, t) \in 1..n
         /\ \A m \in 1..n : request.amount[list[FindMinUtxo(list, n, t)]][t] <= request.amount[list[m]][t]
<1> DEFINE amount(k) == request.amount[list[k]][t]
           A == {amount(k) : k \in 1..n}
           K == {k \in 1..n : \A m \in 1..n : amount(k) <= amount(m)}
<1>1. A \in SUBSET Nat /\ amount(1) \in A
  OBVIOUS
<1>2. PICK a \in A : \A y \in A : a <= y
  BY <1>1, LeastNatural
<1>3. PICK k \in 1..n : a = amount(k)
  OBVIOUS
<1>4. k \in K
  BY <1>2, <1>3
<1>5. K \in SUBSET Nat /\ K # {}
  BY <1>4
<1>6. \E x \in K : \A y \in K : x <= y
  BY <1>5, LeastNatural
<1>7. FindMinUtxo(list, n, t) = Min(K)
  BY DEF FindMinUtxo
<1>8. Min(K) \in K
  BY <1>6 DEF Min
<1> QED
  BY <1>7, <1>8

\* The loop starts with the list of the caller.
LEMMA InvInit == Start => Inv
<1> SUFFICES ASSUME Start PROVE Inv
  OBVIOUS
<1>1. request \in Requests
  BY DEF Start, Init
<1>2. PICK n \in Nat : Utxos = 1..n
  BY <1>1, Positions
<1>3. utxos = [u \in 1..n |-> u] /\ i = 0 /\ choosenCount = 0
  BY <1>2 DEF Start
<1>4. Len(utxos) = n
  BY <1>3
<1>5. ListKeepsAll
  BY <1>2, <1>3, <1>4 DEF ListKeepsAll
<1>6. Permutes(utxos, Utxos)
  BY <1>2, <1>3 DEF Permutes
<1> QED
  BY <1>1, <1>2, <1>3, <1>4, <1>5, <1>6 DEF Inv

\* The first swap of an iteration: it permutes the list, leaves the positions
\* that are still to be visited alone, and moves the visited output to
\* the end of the chosen ones.
LEMMA TakenPermutes ==
  ASSUME Inv, i < Len(utxos)
  PROVE  /\ TakenCount \in 1 .. i + 1
         /\ i + 1 \in Utxos /\ TakenCount \in Utxos
         /\ Permutes(Taken, Utxos)
         /\ \A k \in Utxos : k > i + 1 => Taken[k] = k
<1>1. PICK n \in Nat : Utxos = 1..n
  BY Positions DEF Inv
<1>2. Len(utxos) = n /\ i \in Nat /\ choosenCount \in 0..i
  BY <1>1 DEF Inv, Permutes
<1>3. TakenCount \in 1 .. i + 1 /\ i + 1 \in Utxos /\ TakenCount \in Utxos
  BY <1>1, <1>2 DEF TakenCount
<1>4. Permutes(utxos, Utxos) /\ \A k \in i + 1 .. n : utxos[k] = k
  BY <1>2 DEF Inv, ListKeepsAll
<1>5. /\ Permutes(Taken, Utxos)
      /\ \A k \in Utxos \ {TakenCount, i + 1} : Taken[k] = utxos[k]
  BY <1>3, <1>4, SwapPermutes DEF Taken
<1>6. \A k \in Utxos : k > i + 1 => Taken[k] = k
  BY <1>1, <1>2, <1>3, <1>4, <1>5
<1> QED
  BY <1>3, <1>5, <1>6

\* A list that is a permutation and fixes what is still to be visited is
\* all that the invariant asks for after an iteration.
LEMMA InvVisit ==
  ASSUME Inv, Visit, choosenCount' \in 0 .. i + 1,
         Permutes(utxos', Utxos),
         \A k \in Utxos : k > i + 1 => utxos'[k] = k
  PROVE  Inv'
<1>1. PICK n \in Nat : Utxos = 1..n
  BY Positions DEF Inv
<1>2. Len(utxos) = n /\ Len(utxos') = n /\ i \in 0..n /\ i < n /\ i' = i + 1
  BY <1>1 DEF Inv, Visit, Permutes
<1>3. request' = request /\ Utxos' = Utxos
  BY DEF Visit, Utxos
<1>4. ListKeepsAll'
  <2>1. DOMAIN utxos' = 1..n /\ \A u \in 1..n : \E k \in 1..n : utxos'[k] = u
    BY <1>1 DEF Permutes
  <2>2. \A k \in i' + 1 .. n : utxos'[k] = k
    BY <1>1, <1>2
  <2> QED
    BY <1>1, <1>2, <1>3, <2>1, <2>2 DEF ListKeepsAll
<1>5. Permutes(utxos, Utxos)'
  <2>1. Permutes(utxos', Utxos')
    BY <1>3
  <2> QED
    BY <2>1 DEF Permutes
<1> QED
  BY <1>1, <1>2, <1>3, <1>4, <1>5 DEF Inv

\* Every iteration and every return keeps the invariant.
LEMMA InvStep == Inv /\ [Step]_allVars => Inv'
<1> SUFFICES ASSUME Inv, [Step]_allVars PROVE Inv'
  OBVIOUS
<1>1. CASE Satisfied
  <2>1. Visit /\ utxos' = Taken /\ choosenCount' = TakenCount /\ i < Len(utxos)
    BY <1>1 DEF Satisfied, Visit
  <2>2. choosenCount' \in 0 .. i + 1
    BY <2>1, TakenPermutes DEF Inv
  <2> QED
    BY <2>1, <2>2, TakenPermutes, InvVisit
<1>2. CASE Keep
  <2>1. Visit /\ utxos' = Taken /\ choosenCount' = TakenCount /\ i < Len(utxos)
    BY <1>2 DEF Keep, Visit
  <2>2. choosenCount' \in 0 .. i + 1
    BY <2>1, TakenPermutes DEF Inv
  <2> QED
    BY <2>1, <2>2, TakenPermutes, InvVisit
<1>3. CASE Replace
  <2>1. Visit /\ choosenCount' = choosenCount /\ i < Len(utxos)
    BY <1>3 DEF Replace, Visit
  <2>2. PICK t \in ReplaceTokens(TakenSum) :
          utxos' = Swap(Taken, FindMinUtxo(Taken, TakenCount, t), TakenCount)
    BY <1>3 DEF Replace
  <2>3. t \in Token
    BY <2>2, SelectionAssumption DEF ReplaceTokens
  <2>4. PICK n \in Nat : Utxos = 1..n /\ request.amount \in [1..n -> Output]
    BY Positions DEF Inv
  <2>5. TakenCount \in 1 .. i + 1 /\ i + 1 \in 1..n /\ i \in Nat
    BY <2>1, <2>4, TakenPermutes DEF Inv
  <2>6. Permutes(Taken, Utxos)
    BY <2>1, TakenPermutes
  <2>7. ASSUME NEW k \in 1..TakenCount PROVE request.amount[Taken[k]][t] \in Nat
    <3>1. k \in 1..n
      BY <2>5
    <3>2. request.amount[Taken[k]] \in Output
      BY <2>4, <2>6, <3>1 DEF Permutes
    <3> QED
      BY <2>3, <3>2, SelectionAssumption DEF Output
  <2>8. FindMinUtxo(Taken, TakenCount, t) \in 1..TakenCount
    BY <2>5, <2>7, FindMinUtxoIndex
  <2> DEFINE m == FindMinUtxo(Taken, TakenCount, t)
  <2>9. m \in Utxos /\ TakenCount \in Utxos /\ m <= i + 1 /\ TakenCount <= i + 1
    BY <2>4, <2>5, <2>8
  <2> HIDE DEF m
  <2>10. /\ Permutes(utxos', Utxos)
         /\ \A k \in Utxos \ {m, TakenCount} : utxos'[k] = Taken[k]
    <3>1. utxos' = Swap(Taken, m, TakenCount)
      BY <2>2 DEF m
    <3>2. m \in Utxos /\ TakenCount \in Utxos
      BY <2>9
    <3>3. /\ Permutes(Swap(Taken, m, TakenCount), Utxos)
          /\ \A k \in Utxos \ {m, TakenCount} : Swap(Taken, m, TakenCount)[k] = Taken[k]
      BY <2>6, <3>2, SwapPermutes
    <3> QED
      BY <3>1, <3>3
  <2>11. ASSUME NEW k \in Utxos, k > i + 1 PROVE utxos'[k] = k
    <3>1. Taken[k] = k
      BY <2>1, <2>11, TakenPermutes
    <3>2. k # m /\ k # TakenCount
      BY <2>4, <2>5, <2>9, <2>11
    <3> QED
      BY <2>10, <3>1, <3>2
  <2>12. choosenCount' \in 0 .. i + 1
    BY <2>1, <2>5 DEF Inv
  <2> QED
    BY <2>1, <2>10, <2>11, <2>12, InvVisit
<1>4. CASE ErrLimitReached \/ ErrCouldNotSelect \/ UNCHANGED allVars
  <2>1. UNCHANGED <<request, utxos, i, choosenCount>>
    BY <1>4 DEF ErrLimitReached, ErrCouldNotSelect, GiveUp, allVars, vars
  <2> QED
    BY <2>1 DEF Inv, ListKeepsAll, Utxos
<1> QED
  BY <1>1, <1>2, <1>3, <1>4 DEF Step

\* GetUTXOsForAmounts reorders the list of its caller and does nothing else
\* to it (utxo_helper.go:37-38): no output is lost or duplicated, for every
\* list, limit and condition, whichever token decides a replacement.
THEOREM ListCorrect == SelectionSpec => []ListKeepsAll
<1>1. Start => Inv
  BY InvInit
<1>2. Inv /\ [Step]_allVars => Inv'
  BY InvStep
<1>3. Inv => ListKeepsAll
  BY DEF Inv
<1> QED
  BY <1>1, <1>2, <1>3, PTL DEF SelectionSpec

-----------------------------------------------------------------------------
(* What the outputs of a request hold *)

\* A multiple of W that is nearer to 0 than W is 0.
LEMMA MultipleBelow ==
  ASSUME NEW W \in Nat, W > 0, NEW k \in Int, -W < k * W, k * W < W
  PROVE  k = 0
<1>1. CASE k >= 1
  <2>1. k * W >= W
    BY <1>1
  <2> QED
    BY <2>1
<1>2. CASE k <= -1
  <2>1. k * W <= -W
    BY <1>2
  <2> QED
    BY <2>1
<1> QED
  BY <1>1, <1>2

\* Quotient and remainder of a word.
LEMMA Remainder ==
  ASSUME NEW W \in Nat, W > 0, NEW x \in Int
  PROVE  \E q \in Int : x = q * W + (x % W) /\ (x % W) \in 0..W-1
<1>1. (x % W) = x - (x \div W) * W
  OBVIOUS
<1>2. x \div W \in Int /\ (x % W) \in 0..W-1
  OBVIOUS
<1>3. (x \div W) * W \in Int
  BY <1>2
<1>4. x = (x \div W) * W + (x % W)
  BY <1>1, <1>2, <1>3
<1> QED
  BY <1>2, <1>4

\* A remainder is determined by the number.
LEMMA RemainderIs ==
  ASSUME NEW W \in Nat, W > 0, NEW x \in Int, NEW q \in Int, NEW r \in 0..W-1, x = q * W + r
  PROVE  x % W = r
<1>1. PICK p \in Int : x = p * W + (x % W) /\ (x % W) \in 0..W-1
  BY Remainder
<1>2. (p - q) * W = r - (x % W)
  <2>1. (p - q) * W = p * W - q * W
    OBVIOUS
  <2>2. p * W \in Int /\ q * W \in Int
    OBVIOUS
  <2> QED
    BY <1>1, <2>1, <2>2
<1>3. p - q = 0
  BY <1>1, <1>2, MultipleBelow
<1> QED
  BY <1>1, <1>3

\* A sum of words wraps around as the sum of the numbers does.
LEMMA RemainderOfSum ==
  ASSUME NEW W \in Nat, W > 0, NEW x \in Int, NEW y \in Int
  PROVE  ((x % W) + y) % W = (x + y) % W
<1> DEFINE r == x % W
           s == (r + y) % W
<1>1. PICK p \in Int : x = p * W + r /\ r \in 0..W-1
  BY Remainder
<1>2. r + y \in Int
  BY <1>1
<1> HIDE DEF r
<1>3. PICK q \in Int : r + y = q * W + s /\ s \in 0..W-1
  BY <1>2, Remainder
<1> HIDE DEF s
<1>4. (p + q) * W = p * W + q * W /\ p * W \in Int /\ q * W \in Int
  OBVIOUS
<1>5. x + y = (p + q) * W + s
  BY <1>1, <1>3, <1>4
<1>6. (x + y) % W = s
  <2>1. x + y \in Int /\ p + q \in Int /\ s \in 0..W-1
    BY <1>3
  <2> QED
    BY <1>5, <2>1, RemainderIs
<1> QED
  BY <1>6 DEF r, s

\* The amounts of token t, and what sets of outputs hold of it.
Column(t) == [u \in Utxos |-> request.amount[u][t]]
HoldsOf(t) == [S \in SUBSET Utxos |-> Holds(S, t)]

\* The numbers of a request.
LEMMA RequestType ==
  ASSUME request \in Requests
  PROVE  /\ IsFiniteSet(Utxos)
         /\ \A u \in Utxos : \A t \in Token : request.amount[u][t] \in Nat
         /\ \A t \in Token : request.conditions[t] \in Nat
         /\ request.maxInputs \in Nat /\ request.maxInputs > 0 /\ request.tryAtLeast \in Nat
         /\ Word \in Nat /\ Word > 0 /\ Ada \in Token
<1>1. PICK n \in Nat : Utxos = 1..n /\ request.amount \in [1..n -> Output]
  BY Positions
<1>2. IsFiniteSet(1..n)
  BY FS_Interval
<1>3. Amounts \subseteq Nat /\ Wanted \subseteq Nat
  BY SelectionAssumption
<1>4. \A u \in 1..n : \A t \in Token : request.amount[u][t] \in Nat
  BY <1>1, <1>3 DEF Output
<1>5. request.conditions \in [Token -> Wanted] /\ request.maxInputs \in MaxInputs /\ request.tryAtLeast \in AtLeast
  BY DEF Requests
<1>6. request.maxInputs \in Nat /\ request.maxInputs > 0 /\ request.tryAtLeast \in Nat
  <2>1. MaxInputs \subseteq Nat \ {0} /\ AtLeast \subseteq Nat
    BY SelectionAssumption
  <2>2. request.maxInputs \in Nat \ {0} /\ request.tryAtLeast \in Nat
    BY <1>5, <2>1
  <2> QED
    BY <2>2
<1>7. \A t \in Token : request.conditions[t] \in Nat
  BY <1>3, <1>5
<1>8. Word \in Nat /\ Word > 0 /\ Ada \in Token
  BY SelectionAssumption
<1> QED
  BY <1>1, <1>2, <1>4, <1>6, <1>7, <1>8

\* What outputs hold of a token is a sum of its column.
LEMMA HoldsIsSum ==
  ASSUME NEW S \in SUBSET Utxos, NEW t
  PROVE  Holds(S, t) = SumFunctionOnSet(Column(t), S)
<1> DEFINE P(g) == g = [s \in SUBSET S |-> IF s = {} THEN 0 ELSE request.amount[Pick(s)][t] + g[s \ {Pick(s)}]]
           Q(g) == Adds(Column(t), S, g)
<1>1. Holds(S, t) = (CHOOSE g : P(g))[S]
  BY DEF Holds, MapThenSumSet, MapThenFoldSet, Pick
<1>2. SumFunctionOnSet(Column(t), S) = (CHOOSE g : Q(g))[S]
  BY SumIsFold
<1>3. \A s \in SUBSET S : s # {} => Column(t)[Pick(s)] = request.amount[Pick(s)][t]
  BY DEF Column, Pick
<1>4. \A g : P(g) <=> Q(g)
  BY <1>3 DEF Adds
<1> HIDE DEF P, Q
<1>5. (CHOOSE g : P(g)) = (CHOOSE g : Q(g))
  BY <1>4
<1> QED
  BY <1>1, <1>2, <1>5

\* What outputs hold of a token measures sets of outputs.
LEMMA HoldsMeasures ==
  ASSUME request \in Requests, NEW t \in Token
  PROVE  Measures(HoldsOf(t), Column(t), Utxos)
<1> DEFINE f == Column(t)
<1>1. IsFiniteSet(Utxos) /\ f \in [Utxos -> Nat]
  BY RequestType DEF Column
<1>2. \A S \in SUBSET Utxos : HoldsOf(t)[S] = SumFunctionOnSet(f, S)
  BY HoldsIsSum DEF HoldsOf
<1> HIDE DEF f
<1>3. SumFunctionOnSet(f, {}) = 0
  BY FS_EmptySet, SumPicked
<1>4. \A S \in SUBSET Utxos : \A x \in S : SumFunctionOnSet(f, S) = f[x] + SumFunctionOnSet(f, S \ {x})
  <2> SUFFICES ASSUME NEW S \in SUBSET Utxos
               PROVE  \A x \in S : SumFunctionOnSet(f, S) = f[x] + SumFunctionOnSet(f, S \ {x})
    OBVIOUS
  <2>1. IsFiniteSet(S) /\ \A x \in S : f[x] \in Int
    BY <1>1, FS_Subset
  <2> QED
    BY <2>1, SumOfInts
<1>5. \A S \in SUBSET Utxos : SumFunctionOnSet(f, S) \in Nat
  <2> SUFFICES ASSUME NEW S \in SUBSET Utxos PROVE SumFunctionOnSet(f, S) \in Nat
    OBVIOUS
  <2>1. IsFiniteSet(S) /\ \A x \in S : f[x] \in Nat
    BY <1>1, FS_Subset
  <2>2. S \in SUBSET S
    OBVIOUS
  <2> QED
    BY <2>1, <2>2, SumOfNats
<1>6. HoldsOf(t) = [S \in SUBSET Utxos |-> HoldsOf(t)[S]]
  BY DEF HoldsOf
<1>7. HoldsOf(t) \in [SUBSET Utxos -> Nat]
  BY <1>2, <1>5, <1>6
<1> HIDE DEF HoldsOf
<1> QED
  BY <1>1, <1>2, <1>3, <1>4, <1>7 DEF Measures, f

\* What outputs hold: nothing, more with one more, and no less than some of them.
LEMMA HoldsFacts ==
  ASSUME request \in Requests, NEW t \in Token
  PROVE  /\ Holds({}, t) = 0
         /\ \A S \in SUBSET Utxos : Holds(S, t) \in Nat
         /\ \A S \in SUBSET Utxos : \A u \in S : Holds(S, t) = request.amount[u][t] + Holds(S \ {u}, t)
         /\ \A S \in SUBSET Utxos : \A T \in SUBSET S : Holds(T, t) <= Holds(S, t)
<1>1. Measures(HoldsOf(t), Column(t), Utxos)
  BY HoldsMeasures
<1>2. \A S \in SUBSET Utxos : HoldsOf(t)[S] = Holds(S, t)
  BY DEF HoldsOf
<1>3. \A u \in Utxos : Column(t)[u] = request.amount[u][t]
  BY DEF Column
<1>4. /\ HoldsOf(t)[{}] = 0
      /\ \A S \in SUBSET Utxos : HoldsOf(t)[S] \in Nat
      /\ \A S \in SUBSET Utxos : \A u \in S : HoldsOf(t)[S] = Column(t)[u] + HoldsOf(t)[S \ {u}]
  BY <1>1 DEF Measures
<1>5. \A S \in SUBSET Utxos : \A T \in SUBSET S : HoldsOf(t)[T] <= HoldsOf(t)[S]
  BY <1>1, MeasureGrows
<1>6. \A S \in SUBSET Utxos : \A u \in S : S \ {u} \in SUBSET Utxos /\ u \in Utxos
  OBVIOUS
<1>7. \A S \in SUBSET Utxos : \A T \in SUBSET S : T \in SUBSET Utxos
  OBVIOUS
<1>8. {} \in SUBSET Utxos
  OBVIOUS
<1>9. Holds({}, t) = 0 /\ \A S \in SUBSET Utxos : Holds(S, t) \in Nat
  BY <1>2, <1>4, <1>8
<1>10. \A S \in SUBSET Utxos : \A u \in S : Holds(S, t) = request.amount[u][t] + Holds(S \ {u}, t)
  BY <1>2, <1>3, <1>4, <1>6
<1>11. \A S \in SUBSET Utxos : \A T \in SUBSET S : Holds(T, t) <= Holds(S, t)
  BY <1>2, <1>5, <1>7
<1> QED
  BY <1>9, <1>10, <1>11

\* Outputs of two sets without a common one hold what both hold.
LEMMA HoldsUnion ==
  ASSUME request \in Requests, NEW t \in Token,
         NEW A \in SUBSET Utxos, NEW B \in SUBSET Utxos, A \cap B = {}
  PROVE  Holds(A \cup B, t) = Holds(A, t) + Holds(B, t)
<1>1. HoldsOf(t)[A \cup B] = HoldsOf(t)[A] + HoldsOf(t)[B]
  BY HoldsMeasures, MeasureOfUnion
<1> QED
  BY <1>1 DEF HoldsOf

\* As many outputs that hold most of a token hold no less than others.
LEMMA HoldsTop ==
  ASSUME request \in Requests, NEW t \in Token,
         NEW C \in SUBSET Utxos, NEW S \in SUBSET Utxos, Cardinality(S) <= Cardinality(C),
         \A u \in C : \A v \in S \ C : request.amount[v][t] <= request.amount[u][t]
  PROVE  Holds(S, t) <= Holds(C, t)
<1>1. \A u \in C : \A v \in S \ C : Column(t)[v] <= Column(t)[u]
  BY DEF Column
<1>2. HoldsOf(t)[S] <= HoldsOf(t)[C]
  BY <1>1, HoldsMeasures, TopDominates
<1> QED
  BY <1>2 DEF HoldsOf

\* The code's sum of some outputs is kept up to date by adding and subtracting.
LEMMA PlusAdds ==
  ASSUME request \in Requests, NEW S \in SUBSET Utxos, NEW u \in Utxos \ S
  PROVE  Plus(SumOf(S), u) = SumOf(S \cup {u})
<1> SUFFICES ASSUME NEW t \in Token
             PROVE  (SumOf(S)[t] + request.amount[u][t]) % Word = Holds(S \cup {u}, t) % Word
  BY DEF Plus, SumOf
<1>1. Holds(S \cup {u}, t) = request.amount[u][t] + Holds(S, t)
  <2>1. S \cup {u} \in SUBSET Utxos /\ u \in S \cup {u} /\ (S \cup {u}) \ {u} = S
    OBVIOUS
  <2>2. Holds(S \cup {u}, t) = request.amount[u][t] + Holds((S \cup {u}) \ {u}, t)
    BY <2>1, HoldsFacts
  <2> QED
    BY <2>1, <2>2
<1>2. /\ Holds(S, t) \in Int /\ request.amount[u][t] \in Int
      /\ Word \in Nat /\ Word > 0
  BY HoldsFacts, RequestType
<1>3. SumOf(S)[t] = Holds(S, t) % Word
  BY DEF SumOf
<1> DEFINE x == Holds(S, t)
           y == request.amount[u][t]
<1>4. ((x % Word) + y) % Word = (x + y) % Word
  BY <1>2, RemainderOfSum
<1>5. x + y = y + x
  BY <1>2
<1> QED
  BY <1>1, <1>3, <1>4, <1>5

\* Subtracting what an output holds takes it out of the sum, wrapped or not.
LEMMA MinusTakes ==
  ASSUME request \in Requests, NEW S \in SUBSET Utxos, NEW u \in S
  PROVE  Minus(SumOf(S), u) = SumOf(S \ {u})
<1> SUFFICES ASSUME NEW t \in Token
             PROVE  (SumOf(S)[t] - request.amount[u][t]) % Word = Holds(S \ {u}, t) % Word
  BY DEF Minus, SumOf
<1> DEFINE x == Holds(S, t)
           y == request.amount[u][t]
           z == Holds(S \ {u}, t)
<1>1. x = y + z
  BY HoldsFacts
<1>2. x \in Int /\ y \in Int /\ z \in Int /\ Word \in Nat /\ Word > 0 /\ -y \in Int
  BY HoldsFacts, RequestType
<1>3. SumOf(S)[t] = x % Word
  BY DEF SumOf
<1> HIDE DEF x, y, z
<1>4. ((x % Word) + (-y)) % Word = (x + (-y)) % Word
  BY <1>2, RemainderOfSum
<1>5. x + (-y) = z /\ (x % Word) + (-y) = (x % Word) - y
  BY <1>1, <1>2
<1>6. ((x % Word) - y) % Word = z % Word
  BY <1>4, <1>5
<1> QED
  BY <1>3, <1>6 DEF y, z

\* The code's sum may be less than what the outputs hold, never more.
LEMMA SumBelowHolds ==
  ASSUME request \in Requests, NEW S \in SUBSET Utxos, NEW t \in Token
  PROVE  /\ SumOf(S)[t] \in Nat /\ SumOf(S)[t] <= Holds(S, t)
         /\ FitsWord => SumOf(S)[t] = Holds(S, t)
<1>1. SumOf(S)[t] = Holds(S, t) % Word
  BY DEF SumOf
<1>2. Holds(S, t) \in Nat /\ Word \in Nat /\ Word > 0
  BY HoldsFacts, RequestType
<1>3. FitsWord => Holds(S, t) < Word
  <2> SUFFICES ASSUME FitsWord PROVE Holds(S, t) < Word
    OBVIOUS
  <2>1. Holds(S, t) <= Holds(Utxos, t) /\ Holds(Utxos, t) \in Nat
    BY HoldsFacts
  <2>2. Holds(Utxos, t) < Word
    BY DEF FitsWord
  <2> QED
    BY <1>2, <2>1, <2>2
<1> DEFINE x == Holds(S, t)
<1> HIDE DEF x
<1>4. x % Word \in Nat /\ x % Word <= x /\ (x < Word => x % Word = x)
  BY <1>2 DEF x
<1> QED
  BY <1>1, <1>3, <1>4 DEF x

\* The first m outputs of a permuted list are m outputs.
LEMMA ChosenCardinality ==
  ASSUME NEW n \in Nat, NEW list, Permutes(list, 1..n), NEW m \in 0..n
  PROVE  /\ IsFiniteSet(Chosen(list, m)) /\ Cardinality(Chosen(list, m)) = m
         /\ Chosen(list, m) \subseteq 1..n
<1> DEFINE f == [k \in 1..m |-> list[k]]
<1>1. \A k \in 1..m : k \in 1..n /\ list[k] \in 1..n
  BY DEF Permutes
<1>2. f \in Surjection(1..m, Chosen(list, m))
  BY DEF Chosen, Surjection
<1>3. f \in Injection(1..m, Chosen(list, m))
  BY <1>1 DEF Chosen, Injection, Permutes, IsInjective
<1>4. IsFiniteSet(1..m) /\ Cardinality(1..m) = m
  BY FS_Interval
<1> HIDE DEF f
<1>5. IsFiniteSet(Chosen(list, m)) /\ Cardinality(Chosen(list, m)) = Cardinality(1..m)
  BY <1>2, <1>3, <1>4, FS_Surjection
<1>6. Chosen(list, m) \subseteq 1..n
  BY <1>1 DEF Chosen
<1> QED
  BY <1>4, <1>5, <1>6

-----------------------------------------------------------------------------
(* GetUTXOsForAmounts answers as the contract says *)

\* The outputs that the loop holds chosen.
Held == Chosen(utxos, choosenCount)

\* With a single condition the chosen outputs are the best of the visited ones.
Best ==
  \A t \in Token : request.conditions[t] > 0 =>
    \A u \in Held : \A v \in (1..i) \ Held : request.amount[v][t] <= request.amount[u][t]

\* While the loop goes on nothing visited would have done: stated for one
\* condition, and for a list that fits a word.
NothingMissed ==
  FitsWord /\ OneCondition =>
    /\ \A S \in SUBSET (1..i) : ~Funds(S)
    /\ Best

\* The loop between two iterations: all visited outputs are chosen, or one
\* less than the limit; the running sums are those of the chosen and of
\* the visited outputs, modulo a word; and nothing was missed.
LoopInv ==
  answer = Pending =>
    /\ choosenCount < request.maxInputs
    /\ choosenCount = i \/ choosenCount = request.maxInputs - 1
    /\ currentSum = SumOf(Held)
    /\ currentSumTotal = SumOf(1..i)
    /\ NothingMissed

\* The inductive invariant of GetUTXOsForAmounts.
FullInv == Inv /\ LoopInv

\* The chosen outputs are visited ones, as many as choosenCount says.
LEMMA HeldType ==
  ASSUME Inv
  PROVE  /\ Held \subseteq 1..i /\ 1..i \subseteq Utxos /\ Cardinality(Held) = choosenCount
         /\ choosenCount = i => Held = 1..i
         /\ i \in Nat /\ choosenCount \in 0..i
         /\ \E n \in Nat : Utxos = 1..n /\ Len(utxos) = n /\ i <= n
<1>1. PICK n \in Nat : Utxos = 1..n
  BY Positions DEF Inv
<1>2. Permutes(utxos, 1..n) /\ Len(utxos) = n /\ i \in 0..n /\ choosenCount \in 0..i
  <2>1. Permutes(utxos, 1..n) /\ i \in 0 .. Len(utxos) /\ choosenCount \in 0..i
    BY <1>1 DEF Inv
  <2>2. Len(utxos) = n
    BY <2>1 DEF Permutes
  <2> QED
    BY <2>1, <2>2
<1>3. \A k \in i + 1 .. n : utxos[k] = k
  BY <1>2 DEF Inv, ListKeepsAll
<1>4. ASSUME NEW k \in 1..i PROVE utxos[k] \in 1..i
  <2>1. k \in 1..n /\ utxos[k] \in 1..n
    BY <1>2 DEF Permutes
  <2>2. CASE utxos[k] > i
    <3>1. utxos[k] \in i + 1 .. n
      BY <1>2, <2>1, <2>2
    <3>2. utxos[utxos[k]] = utxos[k]
      BY <1>3, <3>1
    <3>3. utxos[k] = k
      BY <1>2, <2>1, <3>2 DEF Permutes
    <3> QED
      BY <1>2, <2>2, <3>3
  <2> QED
    BY <1>2, <2>1, <2>2
<1>5. Held \subseteq 1..i
  BY <1>2, <1>4 DEF Held, Chosen
<1>6. Cardinality(Held) = choosenCount
  BY <1>2, ChosenCardinality DEF Held
<1>7. ASSUME choosenCount = i, NEW u \in 1..i PROVE u \in Held
  <2>1. PICK k \in 1..n : utxos[k] = u
    BY <1>2 DEF Permutes
  <2>2. k \in 1..i
    BY <1>2, <1>3, <2>1
  <2> QED
    BY <1>7, <2>1, <2>2 DEF Held, Chosen
<1>8. choosenCount = i => Held = 1..i
  BY <1>5, <1>7
<1>9. 1..i \subseteq Utxos
  BY <1>1, <1>2
<1>10. \E m \in Nat : Utxos = 1..m /\ Len(utxos) = m /\ i <= m
  BY <1>1, <1>2
<1> QED
  BY <1>2, <1>5, <1>6, <1>8, <1>9, <1>10

\* The output that an iteration visits joins the chosen ones.
LEMMA HeldTaken ==
  ASSUME Inv, i < Len(utxos)
  PROVE  /\ Chosen(Taken, TakenCount) = Held \cup {i + 1}
         /\ i + 1 \in Utxos \ Held /\ i + 1 \notin 1..i
         /\ Taken[TakenCount] = i + 1
         /\ TakenCount \in Nat /\ TakenCount > 0 /\ TakenCount - 1 = choosenCount
         /\ (1..i) \cup {i + 1} = 1..(i + 1)
<1>1. PICK n \in Nat : Utxos = 1..n /\ Len(utxos) = n /\ i <= n
  BY HeldType
<1>2. /\ i \in Nat /\ choosenCount \in 0..i /\ Held \subseteq 1..i
  BY HeldType
<1>3. /\ i + 1 \in Utxos \ Held /\ i + 1 \notin 1..i /\ (1..i) \cup {i + 1} = 1..(i + 1)
  BY <1>1, <1>2
<1>4. utxos \in [1..n -> 1..n] /\ utxos[i + 1] = i + 1
  BY <1>1, <1>2 DEF Inv, ListKeepsAll, Permutes
<1>5. TakenCount = choosenCount + 1 /\ TakenCount \in 1..n /\ i + 1 \in 1..n
  BY <1>1, <1>2 DEF TakenCount
<1>6. /\ Taken[TakenCount] = i + 1
      /\ \A k \in 1..choosenCount : Taken[k] = utxos[k]
  <2>1. \A k \in 1..n : Taken[k] = IF k = i + 1 THEN utxos[TakenCount]
                                  ELSE IF k = TakenCount THEN utxos[i + 1] ELSE utxos[k]
    BY <1>4, <1>5 DEF Taken, Swap
  <2>2. Taken[TakenCount] = i + 1
    BY <1>4, <1>5, <2>1
  <2>3. \A k \in 1..choosenCount : k \in 1..n /\ k # i + 1 /\ k # TakenCount
    BY <1>1, <1>2, <1>5
  <2> QED
    BY <2>1, <2>2, <2>3
<1>7. 1..TakenCount = (1..choosenCount) \cup {TakenCount}
  BY <1>2, <1>5
<1>8. Chosen(Taken, TakenCount) = Held \cup {i + 1}
  <2>1. Chosen(Taken, TakenCount) = {Taken[k] : k \in 1..choosenCount} \cup {Taken[TakenCount]}
    BY <1>7 DEF Chosen
  <2>2. {Taken[k] : k \in 1..choosenCount} = Held
    BY <1>6 DEF Chosen, Held
  <2> QED
    BY <1>6, <2>1, <2>2
<1> QED
  BY <1>2, <1>3, <1>5, <1>6, <1>8

\* The sum with the visited output.
LEMMA TakenSumIs ==
  ASSUME FullInv, Visit
  PROVE  /\ TakenSum = SumOf(Held \cup {i + 1})
         /\ currentSumTotal' = SumOf(1..(i + 1))
         /\ Held \cup {i + 1} \in SUBSET Utxos
         /\ i < Len(utxos)
<1>1. /\ i < Len(utxos) /\ answer = Pending
      /\ currentSumTotal' = Plus(currentSumTotal, utxos[i + 1])
  BY DEF Visit
<1>2. /\ currentSum = SumOf(Held) /\ currentSumTotal = SumOf(1..i)
      /\ request \in Requests
  BY <1>1 DEF FullInv, LoopInv, Inv
<1>3. /\ i + 1 \in Utxos \ Held /\ i + 1 \notin 1..i /\ (1..i) \cup {i + 1} = 1..(i + 1)
  BY <1>1, HeldTaken DEF FullInv
<1>4. Held \in SUBSET Utxos /\ 1..i \in SUBSET Utxos /\ i \in Nat
  BY HeldType DEF FullInv
<1>5. utxos[i + 1] = i + 1
  <2>1. i + 1 \in i + 1 .. Len(utxos)
    BY <1>1, <1>4, HeldType DEF FullInv
  <2> QED
    BY <2>1 DEF FullInv, Inv, ListKeepsAll
<1>6. TakenSum = SumOf(Held \cup {i + 1})
  BY <1>2, <1>3, <1>4, <1>5, PlusAdds DEF TakenSum
<1>7. currentSumTotal' = SumOf(1..(i + 1))
  <2>1. i + 1 \in Utxos \ (1..i)
    BY <1>3
  <2>2. Plus(SumOf(1..i), i + 1) = SumOf((1..i) \cup {i + 1})
    BY <1>2, <1>4, <2>1, PlusAdds
  <2> QED
    BY <1>1, <1>2, <1>3, <1>5, <2>2
<1> QED
  BY <1>1, <1>3, <1>4, <1>6, <1>7

\* When all that was visited is chosen and does not do, nothing visited does.
LEMMA AllIsNotEnough ==
  ASSUME request \in Requests, NEW V \in SUBSET Utxos, ~Satisfies(SumOf(V)), FitsWord
  PROVE  \A S \in SUBSET V : ~Funds(S)
<1> SUFFICES ASSUME NEW S \in SUBSET V, Funds(S) PROVE FALSE
  OBVIOUS
<1>1. PICK t \in Token : ~(SumOf(V)[t] >= request.conditions[t])
  BY DEF Satisfies
<1>2. SumOf(V)[t] = Holds(V, t) /\ Holds(V, t) \in Nat /\ Holds(S, t) \in Nat /\ Holds(S, t) <= Holds(V, t)
  <2>1. S \in SUBSET Utxos
    OBVIOUS
  <2> QED
    BY <2>1, HoldsFacts, SumBelowHolds
<1>3. Holds(S, t) >= request.conditions[t] /\ request.conditions[t] \in Nat
  BY RequestType DEF Funds
<1> QED
  BY <1>1, <1>2, <1>3

\* What an answer of the loop holds: the chosen outputs, and those that fill
\* them up to the number that was asked for.
LEMMA FillIs ==
  ASSUME Inv, i < Len(utxos), TakenCount <= request.maxInputs
  PROVE  LET n == TakenCount
             cnt == FillCount(n)
             filled == {Taken[k] : k \in n + 1 .. n + cnt}
             chosen == Chosen(Taken, n)
         IN  /\ Chosen(Taken, n + cnt) = chosen \cup filled /\ chosen \cap filled = {}
             /\ chosen \in SUBSET Utxos /\ filled \in SUBSET Utxos /\ chosen # {}
             /\ Cardinality(chosen \cup filled) <= request.maxInputs
             /\ Cardinality(chosen \cup filled)
                  >= Min({request.tryAtLeast, request.maxInputs, Cardinality(Utxos)})
<1> DEFINE n == TakenCount
           cnt == FillCount(n)
           filled == {Taken[k] : k \in n + 1 .. n + cnt}
           chosen == Chosen(Taken, n)
           most == request.maxInputs
           least == request.tryAtLeast
<1>1. PICK all \in Nat : Utxos = 1..all /\ Len(utxos) = all /\ i <= all
  BY HeldType
<1>2. Permutes(Taken, 1..all) /\ n \in 1 .. i + 1 /\ i \in Nat /\ n \in 1..all
  BY <1>1, TakenPermutes, HeldType
<1>3. most \in Nat /\ least \in Nat /\ n <= most
  BY RequestType DEF Inv
<1>4. Cardinality(Utxos) = all
  BY <1>1, FS_Interval
<1> DEFINE room == Min({all - n, least - n, most - n})
<1>5. /\ room \in {all - n, least - n, most - n}
      /\ room <= all - n /\ room <= least - n /\ room <= most - n
  <2> DEFINE R == {all - n, least - n, most - n}
  <2>1. \E x \in R : \A y \in R : x <= y
    BY <1>2, <1>3
  <2>2. Min(R) \in R /\ \A y \in R : Min(R) <= y
    BY <2>1 DEF Min
  <2> QED
    BY <2>2
<1>6. cnt = Max({0, room})
  BY <1>1 DEF FillCount
<1> HIDE DEF n, cnt, room
<1>7. cnt \in {0, room} /\ cnt >= 0 /\ cnt >= room
  <2>1. room \in Int
    BY <1>2, <1>3, <1>5
  <2>2. \E x \in {0, room} : \A y \in {0, room} : x >= y
    BY <2>1
  <2>3. Max({0, room}) \in {0, room} /\ \A y \in {0, room} : Max({0, room}) >= y
    BY <2>2 DEF Max
  <2> QED
    BY <1>6, <2>3
<1>8. /\ cnt \in Nat /\ n + cnt \in 1..all /\ n + cnt <= most
      /\ n + cnt >= least \/ n + cnt >= most \/ n + cnt >= all
  <2>1. n \in Nat /\ n >= 1 /\ n <= all
    BY <1>2
  <2>2. room \in Int /\ cnt \in Nat /\ (cnt = 0 \/ cnt = room)
    BY <1>3, <1>5, <1>7, <2>1
  <2>3. n + cnt <= all /\ n + cnt <= most
    BY <1>3, <1>5, <2>1, <2>2
  <2>4. n + room = all \/ n + room = least \/ n + room = most
    BY <1>3, <1>5, <2>1
  <2>5. n + cnt >= n + room
    BY <1>7, <2>1, <2>2
  <2> QED
    BY <1>3, <2>1, <2>2, <2>3, <2>4, <2>5
<1>9. 1 .. n + cnt = (1..n) \cup (n + 1 .. n + cnt) /\ 1..n \cap (n + 1 .. n + cnt) = {}
  BY <1>2, <1>8
<1>10. Chosen(Taken, n + cnt) = chosen \cup filled
  BY <1>9 DEF Chosen
<1>11. chosen \cap filled = {}
  <2> SUFFICES ASSUME NEW j \in 1..n, NEW k \in n + 1 .. n + cnt, Taken[j] = Taken[k] PROVE FALSE
    BY DEF Chosen
  <2>1. j \in 1..all /\ k \in 1..all /\ j # k
    BY <1>2, <1>8
  <2> QED
    BY <1>2, <2>1 DEF Permutes
<1>12. /\ Cardinality(Chosen(Taken, n + cnt)) = n + cnt
       /\ Chosen(Taken, n + cnt) \subseteq 1..all
  <2>1. n + cnt \in 0..all
    BY <1>8
  <2> QED
    BY <1>2, <2>1, ChosenCardinality
<1>13. chosen # {}
  <2>1. Taken[1] \in chosen
    BY <1>2 DEF Chosen
  <2> QED
    BY <2>1
<1>14. n + cnt >= Min({least, most, all})
  <2> DEFINE R == {least, most, all}
  <2>1. \E x \in R : \A y \in R : x <= y
    BY <1>3
  <2>2. Min(R) \in R /\ \A y \in R : Min(R) <= y
    BY <2>1 DEF Min
  <2>3. Min(R) \in Nat /\ Min(R) <= least /\ Min(R) <= most /\ Min(R) <= all
    BY <1>3, <2>2
  <2> HIDE DEF R
  <2>4. n + cnt >= Min(R)
    BY <1>2, <1>3, <1>8, <2>3
  <2> QED
    BY <2>4 DEF R
<1>15. chosen \in SUBSET Utxos /\ filled \in SUBSET Utxos
  BY <1>1, <1>10, <1>12
<1>16. Cardinality(chosen \cup filled) = n + cnt
  BY <1>10, <1>12
<1> HIDE DEF chosen, filled, most, least
<1> QED
  BY <1>4, <1>8, <1>10, <1>11, <1>13, <1>14, <1>15, <1>16 DEF n, cnt, chosen, filled, most, least

\* An answer with inputs is one that the contract allows.
LEMMA SatisfiedSelects ==
  ASSUME FullInv, Satisfied
  PROVE  \E S \in SUBSET Utxos : Select(S)
<1> DEFINE n == TakenCount
           cnt == FillCount(n)
           filled == {Taken[k] : k \in n + 1 .. n + cnt}
           chosen == Chosen(Taken, n)
           S == chosen \cup filled
<1>1. /\ Inv /\ request \in Requests /\ Visit /\ i < Len(utxos) /\ answer = Pending
      /\ Satisfies(TakenSum)
      /\ currentSum' = [t \in Token |-> (TakenSum[t] + Holds(filled, t)) % Word]
      /\ answer' = [kind |-> "selected", inputs |-> Chosen(Taken, n + cnt), sum |-> currentSum']
  BY DEF Satisfied, Visit, PrepareTxInputs, FullInv, Inv
<1>2. TakenCount <= request.maxInputs
  <2>1. choosenCount < request.maxInputs /\ choosenCount \in Nat /\ request.maxInputs \in Nat
    BY <1>1, RequestType, HeldType DEF FullInv, LoopInv
  <2> QED
    BY <2>1 DEF TakenCount
<1>3. /\ Chosen(Taken, n + cnt) = S /\ chosen \cap filled = {}
      /\ chosen \in SUBSET Utxos /\ filled \in SUBSET Utxos /\ chosen # {}
      /\ Cardinality(S) <= request.maxInputs
      /\ Cardinality(S) >= Min({request.tryAtLeast, request.maxInputs, Cardinality(Utxos)})
  BY <1>1, <1>2, FillIs
<1>4. TakenSum = SumOf(chosen)
  BY <1>1, TakenSumIs, HeldTaken DEF FullInv
<1> HIDE DEF n, cnt, filled, chosen
<1>5. \A t \in Token : /\ Holds(chosen, t) \in Nat /\ Holds(filled, t) \in Nat
                       /\ Holds(S, t) = Holds(chosen, t) + Holds(filled, t)
                       /\ SumOf(chosen)[t] = Holds(chosen, t) % Word
                       /\ SumOf(chosen)[t] \in Nat /\ SumOf(chosen)[t] <= Holds(chosen, t)
  <2> SUFFICES ASSUME NEW t \in Token
               PROVE  /\ Holds(chosen, t) \in Nat /\ Holds(filled, t) \in Nat
                      /\ Holds(S, t) = Holds(chosen, t) + Holds(filled, t)
                      /\ SumOf(chosen)[t] = Holds(chosen, t) % Word
                      /\ SumOf(chosen)[t] \in Nat /\ SumOf(chosen)[t] <= Holds(chosen, t)
    OBVIOUS
  <2>1. Holds(chosen, t) \in Nat /\ Holds(filled, t) \in Nat
    BY <1>1, <1>3, HoldsFacts
  <2>2. Holds(S, t) = Holds(chosen, t) + Holds(filled, t)
    BY <1>1, <1>3, HoldsUnion
  <2>3. SumOf(chosen)[t] = Holds(chosen, t) % Word
    BY DEF SumOf
  <2>4. SumOf(chosen)[t] \in Nat /\ SumOf(chosen)[t] <= Holds(chosen, t)
    BY <1>1, <1>3, SumBelowHolds
  <2> QED
    BY <2>1, <2>2, <2>3, <2>4
<1>6. Word \in Nat /\ Word > 0 /\ \A t \in Token : request.conditions[t] \in Nat
  BY <1>1, RequestType
<1>7. currentSum' = SumOf(S)
  <2>1. ASSUME NEW t \in Token
        PROVE  (TakenSum[t] + Holds(filled, t)) % Word = Holds(S, t) % Word
    <3> DEFINE x == Holds(chosen, t)
               y == Holds(filled, t)
    <3>1. x \in Int /\ y \in Int /\ Holds(S, t) = x + y
      <4>1. x \in Nat /\ y \in Nat
        BY <1>5
      <4>2. Holds(S, t) = x + y
        BY <1>5
      <4> QED
        BY <4>1, <4>2
    <3>2. TakenSum[t] = x % Word
      BY <1>4, <1>5
    <3> HIDE DEF x, y
    <3>3. ((x % Word) + y) % Word = (x + y) % Word
      BY <1>6, <3>1, RemainderOfSum
    <3> QED
      BY <3>1, <3>2, <3>3 DEF y
  <2> QED
    BY <1>1, <2>1 DEF SumOf
<1>8. ASSUME NEW t \in Token PROVE Holds(S, t) >= request.conditions[t]
  <2>1. TakenSum[t] >= request.conditions[t]
    BY <1>1 DEF Satisfies
  <2>2. /\ Holds(chosen, t) \in Nat /\ Holds(filled, t) \in Nat /\ SumOf(chosen)[t] \in Nat
        /\ Holds(S, t) = Holds(chosen, t) + Holds(filled, t)
        /\ SumOf(chosen)[t] <= Holds(chosen, t)
    BY <1>5
  <2>3. SumOf(chosen)[t] >= request.conditions[t]
    BY <1>4, <2>1
  <2> QED
    BY <1>6, <2>2, <2>3
<1>9. S # {} /\ S \in SUBSET Utxos
  BY <1>3
<1>10. Funds(S)
  BY <1>3, <1>8, <1>9 DEF Funds
<1>11. answer' = [kind |-> "selected", inputs |-> S, sum |-> SumOf(S)]
  BY <1>1, <1>3, <1>7
<1>12. Select(S)
  BY <1>3, <1>10, <1>11 DEF Select
<1> QED
  BY <1>9, <1>12

\* A chosen set that is best among the visited ones, with room for all or one
\* less than the limit: no inputs within the limit hold more than these and the
\* output that comes next.
LEMMA NextIsBest ==
  ASSUME FullInv, Visit, ~Satisfies(TakenSum), TakenCount = request.maxInputs,
         FitsWord, OneCondition
  PROVE  \A S \in SUBSET (1..(i + 1)) : ~Funds(S)
<1> DEFINE next == i + 1
           chosen == Held \cup {next}
<1>1. /\ request \in Requests /\ Inv /\ answer = Pending /\ TakenSum = SumOf(chosen)
      /\ i < Len(utxos) /\ chosen \in SUBSET Utxos
  BY TakenSumIs DEF FullInv, Inv, Visit
<1>2. /\ \A S \in SUBSET (1..i) : ~Funds(S)
      /\ Best
  BY <1>1 DEF FullInv, LoopInv, NothingMissed
<1>3. /\ next \in Utxos \ Held /\ (1..i) \cup {next} = 1..next /\ next \notin 1..i
      /\ TakenCount - 1 = choosenCount /\ TakenCount \in Nat
  BY <1>1, HeldTaken
<1>4. /\ Held \subseteq 1..i /\ 1..i \subseteq Utxos /\ Cardinality(Held) = choosenCount
  BY <1>1, HeldType
<1>5. PICK t \in Token : ~(SumOf(chosen)[t] >= request.conditions[t])
  BY <1>1 DEF Satisfies
<1>6. SumOf(chosen)[t] = Holds(chosen, t) /\ Holds(chosen, t) \in Nat /\ request.conditions[t] \in Nat
  BY <1>1, HoldsFacts, SumBelowHolds, RequestType
<1>7. request.conditions[t] > 0 /\ Holds(chosen, t) < request.conditions[t]
  BY <1>5, <1>6
<1>8. \A u \in Held : \A v \in (1..i) \ Held : request.amount[v][t] <= request.amount[u][t]
  BY <1>2, <1>7 DEF Best
<1> SUFFICES ASSUME NEW S \in SUBSET (1..next), Funds(S) PROVE FALSE
  OBVIOUS
<1> HIDE DEF next
<1>9. next \in S
  BY <1>2, <1>3
<1> DEFINE rest == S \ {next}
<1>10. /\ rest \in SUBSET (1..i) /\ rest \in SUBSET Utxos /\ S \in SUBSET Utxos
       /\ Held \in SUBSET Utxos /\ (chosen \ {next}) = Held /\ next \in chosen
  BY <1>3, <1>4, <1>9
<1>11. Cardinality(rest) <= Cardinality(Held)
  <2>1. IsFiniteSet(S)
    BY <1>1, <1>10, RequestType, FS_Subset
  <2>2. Cardinality(rest) = Cardinality(S) - 1 /\ Cardinality(S) \in Nat
    BY <1>9, <2>1, FS_RemoveElement, FS_CardinalityType
  <2>3. Cardinality(S) <= request.maxInputs
    BY DEF Funds
  <2> QED
    BY <1>3, <1>4, <2>2, <2>3
<1>12. Holds(rest, t) <= Holds(Held, t)
  <2>1. \A u \in Held : \A v \in rest \ Held : request.amount[v][t] <= request.amount[u][t]
    BY <1>8, <1>10
  <2> HIDE DEF rest
  <2> QED
    BY <1>1, <1>10, <1>11, <2>1, HoldsTop
<1> HIDE DEF chosen
<1>13. /\ Holds(S, t) = request.amount[next][t] + Holds(rest, t)
       /\ Holds(chosen, t) = request.amount[next][t] + Holds(Held, t)
  <2>1. Holds(S, t) = request.amount[next][t] + Holds(rest, t)
    BY <1>1, <1>9, <1>10, HoldsFacts
  <2>2. Holds(chosen, t) = request.amount[next][t] + Holds(chosen \ {next}, t)
    BY <1>1, <1>10, HoldsFacts
  <2> QED
    BY <1>10, <2>1, <2>2
<1>14. /\ request.amount[next][t] \in Nat /\ Holds(rest, t) \in Nat /\ Holds(Held, t) \in Nat
  BY <1>1, <1>3, <1>10, HoldsFacts, RequestType
<1>15. Holds(S, t) >= request.conditions[t]
  BY DEF Funds
<1> HIDE DEF rest
<1> QED
  BY <1>6, <1>7, <1>12, <1>13, <1>14, <1>15

\* With a single condition the output that makes room is one that holds least of its token.
LEMMA ReplacesByCondition ==
  ASSUME request \in Requests, OneCondition, NEW sum, \A t \in Token : sum[t] \in Nat,
         ~Satisfies(sum), NEW r \in ReplaceTokens(sum)
  PROVE  /\ request.conditions[r] > 0 /\ r \in Token
         /\ \A t \in Token : request.conditions[t] > 0 => t = r
<1>1. PICK t \in Token : ~(sum[t] >= request.conditions[t])
  BY DEF Satisfies
<1>2. \A s \in Token : request.conditions[s] \in Nat
  BY RequestType
<1>3. request.conditions[t] - sum[t] > 0 /\ request.conditions[t] > 0
  BY <1>1, <1>2
<1>4. r \in Token /\ request.conditions[r] - sum[r] > 0
  BY <1>3 DEF ReplaceTokens
<1>5. request.conditions[r] > 0
  BY <1>2, <1>4
<1> QED
  BY <1>4, <1>5 DEF OneCondition

\* What a replacement leaves chosen.
LEMMA HeldReplaced ==
  ASSUME FullInv, Replace
  PROVE  \E u \in Held \cup {i + 1} : \E r \in ReplaceTokens(TakenSum) :
           /\ Held' = (Held \cup {i + 1}) \ {u}
           /\ currentSum' = SumOf((Held \cup {i + 1}) \ {u})
           /\ \A v \in Held \cup {i + 1} : request.amount[u][r] <= request.amount[v][r]
<1> DEFINE n == TakenCount
           chosen == Held \cup {i + 1}
<1>1. /\ Visit /\ Inv /\ request \in Requests /\ i < Len(utxos) /\ choosenCount' = choosenCount
      /\ TakenSum = SumOf(chosen) /\ chosen \in SUBSET Utxos
  BY TakenSumIs DEF Replace, FullInv, Inv
<1>2. PICK r \in ReplaceTokens(TakenSum) :
        /\ utxos' = Swap(Taken, FindMinUtxo(Taken, n, r), n)
        /\ currentSum' = Minus(TakenSum, Taken[FindMinUtxo(Taken, n, r)])
  BY DEF Replace
<1>3. r \in Token
  BY <1>2, SelectionAssumption DEF ReplaceTokens
<1>4. /\ Chosen(Taken, n) = chosen
      /\ n \in Nat /\ n > 0 /\ n - 1 = choosenCount
  BY <1>1, HeldTaken
<1>5. PICK all \in Nat : Utxos = 1..all
  BY <1>1, Positions
<1>6. Permutes(Taken, 1..all) /\ n \in 1..all
  BY <1>1, <1>5, TakenPermutes
<1> HIDE DEF n, chosen
<1>7. \A k \in 1..n : Taken[k] \in chosen /\ Taken[k] \in Utxos /\ request.amount[Taken[k]][r] \in Nat
  <2>1. \A k \in 1..n : Taken[k] \in chosen
    BY <1>4 DEF Chosen
  <2> QED
    BY <1>1, <1>3, <2>1, RequestType
<1> DEFINE k == FindMinUtxo(Taken, n, r)
<1>8. k \in 1..n /\ \A m \in 1..n : request.amount[Taken[k]][r] <= request.amount[Taken[m]][r]
  BY <1>4, <1>7, FindMinUtxoIndex
<1>9. utxos' = Swap(Taken, k, n) /\ currentSum' = Minus(TakenSum, Taken[k])
  BY <1>2 DEF n
<1> HIDE DEF k
<1> DEFINE u == Taken[k]
<1>10. u \in chosen /\ \A v \in chosen : request.amount[u][r] <= request.amount[v][r]
  <2>1. \A v \in chosen : \E m \in 1..n : v = Taken[m]
    BY <1>4 DEF Chosen
  <2> QED
    BY <1>7, <1>8, <2>1
<1>11. Held' = chosen \ {u}
  <2>1. /\ Taken \in [1..all -> 1..all]
        /\ \A a, b \in 1..all : Taken[a] = Taken[b] => a = b
    BY <1>6 DEF Permutes
  <2>2. k \in 1..all /\ n \in 1..all /\ \A m \in 1..n : m \in 1..all
    BY <1>6, <1>8
  <2>3. \A m \in 1..all : utxos'[m] = IF m = n THEN Taken[k] ELSE IF m = k THEN Taken[n] ELSE Taken[m]
    BY <1>9, <2>1, <2>2 DEF Swap
  <2>4. 1..choosenCount = (1..n) \ {n}
    BY <1>4
  <2>5. Held' = {utxos'[m] : m \in (1..n) \ {n}}
    BY <1>1, <2>4 DEF Held, Chosen
  <2>6. chosen = {Taken[m] : m \in 1..n}
    BY <1>4 DEF Chosen
  <2>7. ASSUME NEW m \in (1..n) \ {n} PROVE utxos'[m] \in chosen \ {u}
    <3>1. m \in 1..all /\ n \in 1..n /\ m # n
      BY <1>4, <2>2
    <3>2. CASE m = k
      <4>1. utxos'[m] = Taken[n] /\ Taken[n] # Taken[k]
        BY <2>1, <2>2, <2>3, <3>1, <3>2
      <4> QED
        BY <2>6, <3>1, <4>1
    <3>3. CASE m # k
      <4>1. utxos'[m] = Taken[m] /\ Taken[m] # Taken[k]
        BY <2>1, <2>2, <2>3, <3>1, <3>3
      <4> QED
        BY <2>6, <4>1
    <3> QED
      BY <3>2, <3>3
  <2>8. ASSUME NEW v \in chosen \ {u} PROVE \E m \in (1..n) \ {n} : utxos'[m] = v
    <3>1. PICK m \in 1..n : v = Taken[m]
      BY <2>6
    <3>2. m # k
      BY <2>8, <3>1
    <3>3. CASE m = n
      <4>1. k \in (1..n) \ {n} /\ utxos'[k] = v
        BY <1>8, <2>2, <2>3, <3>1, <3>2, <3>3
      <4> QED
        BY <4>1
    <3>4. CASE m # n
      <4>1. m \in (1..n) \ {n} /\ utxos'[m] = v
        BY <2>2, <2>3, <3>1, <3>2, <3>4
      <4> QED
        BY <4>1
    <3> QED
      BY <3>3, <3>4
  <2> HIDE DEF u
  <2> QED
    BY <2>5, <2>7, <2>8
<1>12. currentSum' = SumOf(chosen \ {u})
  BY <1>1, <1>9, <1>10, MinusTakes
<1> QED
  BY <1>2, <1>10, <1>11, <1>12 DEF chosen

\* A request and what it holds do not change.
LEMMA RequestFrame ==
  ASSUME request' = request
  PROVE  /\ Utxos' = Utxos
         /\ \A S : SumOf(S)' = SumOf(S) /\ Funds(S)' = Funds(S)
         /\ FitsWord' = FitsWord /\ OneCondition' = OneCondition
  BY DEF Utxos, SumOf, Funds, FitsWord, OneCondition, Holds, MapThenSumSet, MapThenFoldSet

\* H are the best of the first n outputs for the token asked for.
BestOf(H, n) ==
  \A t \in Token : request.conditions[t] > 0 =>
    \A u \in H : \A v \in (1..n) \ H : request.amount[v][t] <= request.amount[u][t]

\* What the invariant says after a step that leaves the request alone.
LEMMA LoopFrame ==
  ASSUME request' = request, NEW H, Held' = H, NEW n, i' = n
  PROVE  /\ SumOf(Held)' = SumOf(H)
         /\ SumOf(1..i)' = SumOf(1..n)
         /\ NothingMissed' <=> (FitsWord /\ OneCondition =>
                                  (\A S \in SUBSET (1..n) : ~Funds(S)) /\ BestOf(H, n))
<1>1. SumOf(Held)' = SumOf(H)
  BY DEF SumOf, Holds, MapThenSumSet, MapThenFoldSet
<1>2. SumOf(1..i)' = SumOf(1..n)
  BY DEF SumOf, Holds, MapThenSumSet, MapThenFoldSet
<1>3. /\ FitsWord' = FitsWord /\ OneCondition' = OneCondition
      /\ \A S : Funds(S)' = Funds(S)
  BY RequestFrame
<1>4. Best' <=> BestOf(H, n)
  BY DEF Best, BestOf
<1>5. NothingMissed' <=> (FitsWord' /\ OneCondition' =>
                            (\A S \in SUBSET (1..n) : ~Funds(S)') /\ Best')
  BY DEF NothingMissed
<1> QED
  BY <1>1, <1>2, <1>3, <1>4, <1>5

\* The loop starts with nothing visited, nothing chosen and empty sums.
LEMMA FullInvInit == Start => FullInv
<1> SUFFICES ASSUME Start PROVE FullInv
  OBVIOUS
<1>1. Inv /\ request \in Requests
  BY InvInit DEF Inv
<1>2. /\ i = 0 /\ choosenCount = 0 /\ answer = Pending
      /\ currentSum = [t \in Token |-> 0] /\ currentSumTotal = [t \in Token |-> 0]
  BY DEF Start, Init
<1>3. 1..i = {} /\ Held = {}
  BY <1>2 DEF Held, Chosen
<1>4. SumOf({}) = [t \in Token |-> 0]
  <2>1. \A t \in Token : Holds({}, t) = 0
    BY <1>1, HoldsFacts
  <2>2. 0 % Word = 0
    BY <1>1, RequestType
  <2> QED
    BY <2>1, <2>2 DEF SumOf
<1>5. NothingMissed
  BY <1>3 DEF NothingMissed, Funds, Best
<1>6. choosenCount < request.maxInputs
  BY <1>1, <1>2, RequestType
<1> QED
  BY <1>1, <1>2, <1>3, <1>4, <1>5, <1>6 DEF FullInv, LoopInv

\* An iteration that keeps the visited output.
LEMMA KeepLoop ==
  ASSUME FullInv, Keep
  PROVE  LoopInv'
<1> DEFINE H == Held \cup {i + 1}
           n == i + 1
<1>1. /\ Visit /\ Inv /\ request \in Requests /\ request' = request /\ answer = Pending
      /\ i' = n /\ i < Len(utxos) /\ ~Satisfies(TakenSum) /\ TakenCount # request.maxInputs
      /\ utxos' = Taken /\ choosenCount' = TakenCount /\ currentSum' = TakenSum
  BY DEF Keep, Visit, FullInv, Inv
<1>2. Held' = H
  <2>1. Held' = Chosen(Taken, TakenCount)
    BY <1>1 DEF Held, Chosen
  <2> QED
    BY <1>1, <2>1, HeldTaken
<1>3. /\ choosenCount < request.maxInputs
      /\ choosenCount = i \/ choosenCount = request.maxInputs - 1
  BY <1>1 DEF FullInv, LoopInv
<1>4. i \in Nat /\ choosenCount \in Nat /\ request.maxInputs \in Nat
  BY <1>1, HeldType, RequestType
<1>5. choosenCount = i /\ choosenCount' = n /\ choosenCount' < request.maxInputs
  BY <1>1, <1>3, <1>4 DEF TakenCount
<1>6. H = 1..n /\ H \in SUBSET Utxos
  <2>1. Held = 1..i
    BY <1>1, <1>5, HeldType
  <2> QED
    BY <1>1, <2>1, HeldTaken, TakenSumIs
<1>7. TakenSum = SumOf(H) /\ currentSumTotal' = SumOf(1..n)
  BY <1>1, TakenSumIs
<1> HIDE DEF H, n
<1>8. FitsWord => \A S \in SUBSET (1..n) : ~Funds(S)
  <2> SUFFICES ASSUME FitsWord PROVE \A S \in SUBSET H : ~Funds(S)
    BY <1>6
  <2>1. ~Satisfies(SumOf(H))
    BY <1>1, <1>7
  <2> QED
    BY <1>1, <1>6, <2>1, AllIsNotEnough
<1>9. BestOf(H, n)
  BY <1>6 DEF BestOf
<1>10. /\ SumOf(Held)' = SumOf(H) /\ SumOf(1..i)' = SumOf(1..n) /\ NothingMissed'
  BY <1>1, <1>2, <1>8, <1>9, LoopFrame
<1>11. choosenCount' < request'.maxInputs /\ choosenCount' = i'
  BY <1>1, <1>5
<1>12. currentSum' = SumOf(Held)' /\ currentSumTotal' = SumOf(1..i)'
  BY <1>1, <1>7, <1>10
<1> QED
  BY <1>10, <1>11, <1>12 DEF LoopInv

\* The best of the first outputs and the next one, without one that holds
\* least of the token asked for, are again the best.
LEMMA BestDrop ==
  ASSUME request \in Requests, NEW m \in Nat, 1..(m + 1) \subseteq Utxos,
         NEW H \in SUBSET (1..m), BestOf(H, m),
         NEW r \in Token, \A t \in Token : request.conditions[t] > 0 => t = r,
         NEW u \in H \cup {m + 1},
         \A v \in H \cup {m + 1} : request.amount[u][r] <= request.amount[v][r]
  PROVE  BestOf((H \cup {m + 1}) \ {u}, m + 1)
<1> DEFINE rest == (H \cup {m + 1}) \ {u}
<1> SUFFICES ASSUME NEW t \in Token, request.conditions[t] > 0,
                    NEW w \in rest, NEW v \in (1..(m + 1)) \ rest
             PROVE  request.amount[v][t] <= request.amount[w][t]
  BY DEF BestOf
<1>1. request.amount[u][t] <= request.amount[w][t]
  OBVIOUS
<1>2. v = u \/ v \in (1..m) \ H
  OBVIOUS
<1>3. CASE v \in (1..m) \ H
  <2>1. \A x \in H : request.amount[v][t] <= request.amount[x][t]
    BY <1>3 DEF BestOf
  <2>2. CASE w \in H
    BY <2>1, <2>2
  <2>3. CASE u \in H
    <3>1. request.amount[v][t] <= request.amount[u][t]
      BY <2>1, <2>3
    <3>2. u \in Utxos /\ v \in Utxos /\ w \in Utxos
      OBVIOUS
    <3>3. request.amount[u][t] \in Nat /\ request.amount[v][t] \in Nat /\ request.amount[w][t] \in Nat
      BY <3>2, RequestType
    <3> QED
      BY <1>1, <3>1, <3>3
  <2> QED
    BY <2>2, <2>3
<1>4. CASE v = u
  BY <1>1, <1>4
<1> QED
  BY <1>2, <1>3, <1>4

\* An iteration at the limit: what remains chosen is again the best, and no
\* inputs among the visited ones would have done.
LEMMA ReplaceLoop ==
  ASSUME FullInv, Replace
  PROVE  LoopInv'
<1> DEFINE n == i + 1
           before == Held \cup {i + 1}
<1>1. /\ Visit /\ Inv /\ request \in Requests /\ request' = request /\ answer = Pending
      /\ i' = n /\ i < Len(utxos) /\ ~Satisfies(TakenSum) /\ TakenCount = request.maxInputs
      /\ choosenCount' = choosenCount
  BY DEF Replace, Visit, FullInv, Inv
<1>2. PICK u \in before, r \in ReplaceTokens(TakenSum) :
        /\ Held' = before \ {u}
        /\ currentSum' = SumOf(before \ {u})
        /\ \A v \in before : request.amount[u][r] <= request.amount[v][r]
  BY HeldReplaced
<1>3. TakenSum = SumOf(before) /\ currentSumTotal' = SumOf(1..n) /\ before \in SUBSET Utxos
  BY <1>1, TakenSumIs
<1>4. choosenCount < request.maxInputs /\ choosenCount = request.maxInputs - 1
  <2>1. choosenCount \in Nat /\ TakenCount = choosenCount + 1
    BY <1>1, HeldType DEF TakenCount
  <2> QED
    BY <1>1, <2>1
<1>5. FitsWord /\ OneCondition => \A S \in SUBSET (1..n) : ~Funds(S)
  BY <1>1, NextIsBest
<1> DEFINE H == before \ {u}
<1>6. FitsWord /\ OneCondition => BestOf(H, n)
  <2> SUFFICES ASSUME FitsWord, OneCondition PROVE BestOf(H, n)
    OBVIOUS
  <2>1. \A s \in Token : TakenSum[s] \in Nat
    BY <1>1, <1>3, SumBelowHolds
  <2>2. r \in Token /\ \A t \in Token : request.conditions[t] > 0 => t = r
    BY <1>1, <2>1, ReplacesByCondition
  <2>3. /\ i \in Nat /\ Held \subseteq 1..i /\ 1..i \subseteq Utxos
        /\ i + 1 \in Utxos /\ (1..i) \cup {i + 1} = 1..(i + 1)
    BY <1>1, HeldTaken, HeldType
  <2>4. BestOf(Held, i)
    BY <1>1 DEF FullInv, LoopInv, NothingMissed, Best, BestOf
  <2>5. 1..(i + 1) \subseteq Utxos /\ Held \in SUBSET (1..i)
    BY <2>3
  <2> QED
    BY <1>1, <1>2, <2>2, <2>3, <2>4, <2>5, BestDrop
<1> HIDE DEF H, n
<1>7. /\ SumOf(Held)' = SumOf(H) /\ SumOf(1..i)' = SumOf(1..n) /\ NothingMissed'
  <2>1. Held' = H
    BY <1>2 DEF H
  <2> QED
    BY <1>1, <1>5, <1>6, <2>1, LoopFrame
<1>8. currentSum' = SumOf(Held)' /\ currentSumTotal' = SumOf(1..i)'
  BY <1>2, <1>3, <1>7 DEF H
<1>9. choosenCount' < request'.maxInputs /\ choosenCount' = request'.maxInputs - 1
  BY <1>1, <1>4
<1> QED
  BY <1>7, <1>8, <1>9 DEF LoopInv

\* A step of the other selection, or an answer, keeps the invariant.
LEMMA AmountsFrame ==
  ASSUME FullInv, UNCHANGED <<request, amountsVars>>, answer' = answer \/ answer' # Pending
  PROVE  FullInv'
<1>1. /\ request' = request /\ utxos' = utxos /\ i' = i
      /\ choosenCount' = choosenCount /\ currentSum' = currentSum
      /\ currentSumTotal' = currentSumTotal
  BY DEF amountsVars
<1>2. Inv'
  BY <1>1 DEF FullInv, Inv, ListKeepsAll, Permutes, Utxos
<1>3. Held' = Held
  BY <1>1 DEF Held, Chosen
<1>4. /\ SumOf(Held)' = SumOf(Held) /\ SumOf(1..i)' = SumOf(1..i)
      /\ NothingMissed' <=> (FitsWord /\ OneCondition =>
                               (\A S \in SUBSET (1..i) : ~Funds(S)) /\ BestOf(Held, i))
  BY <1>1, <1>3, LoopFrame
<1>5. NothingMissed' <=> NothingMissed
  BY <1>4 DEF NothingMissed, Best, BestOf
<1>6. LoopInv'
  BY <1>1, <1>4, <1>5 DEF FullInv, LoopInv, Pending
<1> QED
  BY <1>2, <1>6 DEF FullInv

\* Every iteration and every return keeps the invariant.
LEMMA FullInvStep == FullInv /\ [Step]_allVars => FullInv'
<1> SUFFICES ASSUME FullInv, [Step]_allVars PROVE FullInv'
  OBVIOUS
<1>1. Inv'
  BY InvStep DEF FullInv
<1>2. LoopInv'
  <2>1. CASE Satisfied
    <3>1. answer' # Pending
      BY <2>1 DEF Satisfied, PrepareTxInputs, Pending
    <3> QED
      BY <3>1 DEF LoopInv, Pending
  <2>2. CASE Keep
    BY <2>2, KeepLoop
  <2>3. CASE Replace
    BY <2>3, ReplaceLoop
  <2>4. CASE ErrLimitReached \/ ErrCouldNotSelect
    <3>1. answer' # Pending
      BY <2>4 DEF ErrLimitReached, ErrCouldNotSelect, GiveUp, Pending
    <3> QED
      BY <3>1 DEF LoopInv, Pending
  <2>5. CASE UNCHANGED allVars
    <3>1. UNCHANGED <<request, amountsVars>> /\ answer' = answer
      BY <2>5 DEF allVars, vars, amountsVars
    <3> QED
      BY <3>1, AmountsFrame DEF FullInv
  <2> QED
    BY <2>1, <2>2, <2>3, <2>4, <2>5 DEF Step
<1> QED
  BY <1>1, <1>2 DEF FullInv

\* Every iteration is a stutter of the contract, and every return one of its
\* answers.
LEMMA StepIsNext == FullInv /\ [Step]_allVars => [Next]_vars
<1> SUFFICES ASSUME FullInv, [Step]_allVars PROVE [Next]_vars
  OBVIOUS
<1>1. CASE Satisfied
  <2>1. answer = Pending /\ request' = request
    BY <1>1 DEF Satisfied, Visit
  <2>2. \E S \in SUBSET Utxos : Select(S)
    BY <1>1, SatisfiedSelects
  <2> QED
    BY <2>1, <2>2 DEF Next
<1>2. CASE Keep \/ Replace
  BY <1>2 DEF Keep, Replace, Visit, vars
<1>3. CASE ErrLimitReached \/ ErrCouldNotSelect
  <2>1. answer = Pending /\ request' = request /\ i = Len(utxos)
    BY <1>3 DEF ErrLimitReached, ErrCouldNotSelect, GiveUp
  <2>2. 1..i = Utxos
    BY <2>1, HeldType DEF FullInv
  <2>3. currentSumTotal = SumOf(Utxos) /\ Impossible
    BY <2>1, <2>2 DEF FullInv, LoopInv, NothingMissed, Impossible
  <2>4. LimitReached \/ CouldNotSelect
    BY <1>3, <2>3 DEF ErrLimitReached, ErrCouldNotSelect, GiveUp, LimitReached, CouldNotSelect
  <2> QED
    BY <2>1, <2>4 DEF Next
<1>4. CASE UNCHANGED allVars
  BY <1>4 DEF allVars
<1> QED
  BY <1>1, <1>2, <1>3, <1>4 DEF Step

\* GetUTXOsForAmounts implements InputSelection: the inputs it returns are
\* within the limit, hold what was asked for and come with their sum, and an
\* error, with a single condition, means that no inputs would have done.
THEOREM AmountsCorrect == SelectionSpec => ImplementsInputSelection
<1>1. Start => FullInv /\ Init
  BY FullInvInit DEF Start
<1>2. FullInv /\ [Step]_allVars => FullInv'
  BY FullInvStep
<1>3. FullInv /\ [Step]_allVars => [Next]_vars
  BY StepIsNext
<1> QED
  BY <1>1, <1>2, <1>3, PTL DEF SelectionSpec, ImplementsInputSelection, Spec

-----------------------------------------------------------------------------
(* GetUTXOsForAmount answers as the contract says *)

\* The outputs that GetUTXOsForAmount holds chosen.
Picked == {chosenUTXOs[k] : k \in 1 .. Len(chosenUTXOs)}

\* H are the best of the first n outputs, all or as many as the limit.
Top(H, n) ==
  /\ H \subseteq 1..n
  /\ Cardinality(H) <= request.maxInputs
  /\ H = 1..n \/ Cardinality(H) = request.maxInputs
  /\ BestOf(H, n)

\* The loop of GetUTXOsForAmount between two iterations: no output is chosen
\* twice, the chosen ones are the best of the visited ones, the running sum is
\* theirs modulo a word, and nothing visited would have done.
PickedInv ==
  /\ OneCondition
  /\ request.tryAtLeast = 0
  /\ visited \in 0 .. Cardinality(Utxos)
  /\ chosenUTXOs \in Seq(1..visited)
  /\ \A j, k \in 1 .. Len(chosenUTXOs) : chosenUTXOs[j] = chosenUTXOs[k] => j = k
  /\ Top(Picked, visited)
  /\ singleSum = SumOf(Picked)
  /\ FitsWord => \A S \in SUBSET (1..visited) : ~Funds(S)

\* The inductive invariant of a call of GetUTXOsForAmount.
SingleInv ==
  /\ request \in Requests
  /\ algorithm = "GetUTXOsForAmount" /\ answer = Pending => PickedInv

\* The two modules say the same of a request.
LEMMA SameRequest ==
  /\ Single!Utxos = Utxos
  /\ Single!OneCondition <=> OneCondition
  /\ Single!Pending = Pending
  /\ \A S : Single!SumOf(S) = SumOf(S) /\ Single!Cardinality(S) = Cardinality(S)
  /\ \A sum, u : Single!Plus(sum, u) = Plus(sum, u) /\ Single!Minus(sum, u) = Minus(sum, u)
<1>1. /\ Single!Utxos = Utxos
      /\ Single!OneCondition <=> OneCondition
      /\ Single!Pending = Pending
  BY DEF Single!Utxos, Utxos, Single!OneCondition, OneCondition, Single!Pending, Pending
<1>2. \A S : Single!SumOf(S) = SumOf(S)
  BY DEF Single!SumOf, SumOf, Single!Holds, Holds, MapThenSumSet, MapThenFoldSet,
         Single!MapThenSumSet, Single!MapThenFoldSet
<1>3. \A S : Single!Cardinality(S) = Cardinality(S)
  BY DEF Single!Cardinality, Cardinality
<1>4. \A sum, u : Single!Plus(sum, u) = Plus(sum, u) /\ Single!Minus(sum, u) = Minus(sum, u)
  BY DEF Single!Plus, Plus, Single!Minus, Minus
<1> QED
  BY <1>1, <1>2, <1>3, <1>4

\* The token of the condition is the only one with a condition.
LEMMA TokenNameIs ==
  ASSUME request \in Requests, OneCondition
  PROVE  /\ Single!TokenName \in Token
         /\ Single!DesiredSum = request.conditions[Single!TokenName]
         /\ \A t \in Token : request.conditions[t] > 0 => t = Single!TokenName
<1> DEFINE tok == Single!TokenName
           Largest(t) == \A s \in Token : request.conditions[s] <= request.conditions[t]
<1>1. (\A t \in Token : request.conditions[t] \in Nat) /\ Ada \in Token
  BY RequestType
<1>2. \E t \in Token : Largest(t)
  <2>1. CASE \E t \in Token : request.conditions[t] > 0
    <3>1. PICK t \in Token : request.conditions[t] > 0
      BY <2>1
    <3>2. \A s \in Token : s = t \/ request.conditions[s] = 0
      BY <1>1, <3>1 DEF OneCondition
    <3>3. Largest(t)
      BY <1>1, <3>2
    <3> QED
      BY <3>3
  <2>2. CASE ~\E t \in Token : request.conditions[t] > 0
    <3>1. \A s \in Token : request.conditions[s] = 0
      BY <1>1, <2>2
    <3> QED
      BY <1>1, <3>1
  <2> QED
    BY <2>1, <2>2
<1>3. tok \in Token /\ Largest(tok)
  BY <1>2 DEF Single!TokenName
<1>4. ASSUME NEW t \in Token, request.conditions[t] > 0 PROVE t = tok
  <2>1. request.conditions[t] <= request.conditions[tok]
    BY <1>3
  <2>2. request.conditions[tok] > 0
    BY <1>1, <1>3, <1>4, <2>1
  <2> QED
    BY <1>3, <1>4, <2>2 DEF OneCondition
<1> QED
  BY <1>3, <1>4 DEF Single!DesiredSum

\* Outputs that are the best of the first n, as many as may be taken.
LEMMA TopIsNotEnough ==
  ASSUME request \in Requests, FitsWord, OneCondition,
         NEW n \in Nat, 1..n \subseteq Utxos, NEW H, Top(H, n),
         NEW t \in Token, SumOf(H)[t] < request.conditions[t]
  PROVE  \A S \in SUBSET (1..n) : ~Funds(S)
<1>1. H \in SUBSET Utxos
  BY DEF Top
<1>2. /\ SumOf(H)[t] = Holds(H, t) /\ Holds(H, t) \in Nat
      /\ request.conditions[t] \in Nat
  BY <1>1, SumBelowHolds, HoldsFacts, RequestType
<1>3. CASE H = 1..n
  <2>1. ~Satisfies(SumOf(H))
    BY <1>2 DEF Satisfies
  <2> QED
    BY <1>1, <1>3, <2>1, AllIsNotEnough
<1>4. CASE Cardinality(H) = request.maxInputs
  <2> SUFFICES ASSUME NEW S \in SUBSET (1..n), Funds(S) PROVE FALSE
    OBVIOUS
  <2>1. Cardinality(S) <= Cardinality(H) /\ Holds(S, t) >= request.conditions[t] /\ S \in SUBSET Utxos
    BY <1>4 DEF Funds
  <2>2. \A u \in H : \A v \in S \ H : request.amount[v][t] <= request.amount[u][t]
    <3>1. request.conditions[t] > 0
      <4>1. SumOf(H)[t] \in Nat
        BY <1>2
      <4> QED
        BY <1>2, <4>1
    <3> QED
      BY <3>1 DEF Top, BestOf
  <2>3. Holds(S, t) <= Holds(H, t) /\ Holds(S, t) \in Nat
    BY <1>1, <2>1, <2>2, HoldsTop, HoldsFacts
  <2> QED
    BY <1>2, <2>1, <2>3
<1> QED
  BY <1>3, <1>4 DEF Top

\* The chosen outputs are visited ones, as many as the list is long.
LEMMA PickedFacts ==
  ASSUME PickedInv
  PROVE  /\ IsFiniteSet(Picked) /\ Cardinality(Picked) = Len(chosenUTXOs)
         /\ Picked \subseteq 1..visited
<1> DEFINE s == chosenUTXOs
           f == [k \in 1 .. Len(s) |-> s[k]]
<1>1. s \in Seq(1..visited) /\ \A j, k \in 1 .. Len(s) : s[j] = s[k] => j = k
  BY DEF PickedInv
<1>2. Picked = {s[k] : k \in 1 .. Len(s)}
  BY DEF Picked
<1>3. f \in Surjection(1 .. Len(s), Picked)
  BY <1>2 DEF Surjection
<1>4. f \in Injection(1 .. Len(s), Picked)
  BY <1>1, <1>2 DEF Injection, IsInjective
<1>5. Len(s) \in Nat /\ s \in [1 .. Len(s) -> 1..visited]
  BY <1>1, LenProperties
<1>6. Picked \subseteq 1..visited
  BY <1>2, <1>5
<1>7. IsFiniteSet(1 .. Len(s)) /\ Cardinality(1 .. Len(s)) = Len(s)
  BY <1>5, FS_Interval
<1> HIDE DEF f
<1>8. IsFiniteSet(Picked) /\ Cardinality(Picked) = Cardinality(1 .. Len(s))
  BY <1>3, <1>4, <1>7, FS_Surjection
<1> QED
  BY <1>6, <1>8, <1>7

\* findMinUtxo returns the index of a chosen output that holds least.
LEMMA MinAmountIndex ==
  ASSUME NEW list, NEW n \in Nat, n > 0, DOMAIN list = 1..n,
         \A k \in 1..n : request.amount[list[k]][Single!TokenName] \in Nat
  PROVE  /\ Single!FindMinUtxo(list) \in 1..n
         /\ \A m \in 1..n : request.amount[list[Single!FindMinUtxo(list)]][Single!TokenName]
                              <= request.amount[list[m]][Single!TokenName]
<1> DEFINE amount(k) == request.amount[list[k]][Single!TokenName]
           A == {amount(k) : k \in 1..n}
           K == {k \in 1..n : \A m \in 1..n : amount(k) <= amount(m)}
<1>1. A \in SUBSET Nat /\ amount(1) \in A
  OBVIOUS
<1>2. PICK a \in A : \A y \in A : a <= y
  BY <1>1, LeastNatural
<1>3. PICK k \in 1..n : a = amount(k)
  OBVIOUS
<1>4. k \in K
  BY <1>2, <1>3
<1>5. K \in SUBSET Nat /\ K # {}
  BY <1>4
<1>6. \E x \in K : \A y \in K : x <= y
  BY <1>5, LeastNatural
<1>7. Single!FindMinUtxo(list) = Single!Min(K)
  BY DEF Single!FindMinUtxo
<1>8. Single!Min(K) \in K
  BY <1>6 DEF Single!Min
<1> QED
  BY <1>7, <1>8

\* An iteration below the limit.
LEMMA PickedGrow ==
  ASSUME request \in Requests, PickedInv, visited < Cardinality(Utxos), Single!Grow
  PROVE  /\ chosenUTXOs' \in Seq(1 .. (visited + 1))
         /\ \A j, k \in 1 .. Len(chosenUTXOs') : chosenUTXOs'[j] = chosenUTXOs'[k] => j = k
         /\ Picked' = Picked \cup {visited + 1}
         /\ Top(Picked \cup {visited + 1}, visited + 1)
         /\ singleSum' = Plus(SumOf(Picked), visited + 1)
<1> DEFINE n == visited + 1
           s == chosenUTXOs
           len == Len(s)
<1>1. /\ visited \in Nat /\ s \in Seq(1..visited) /\ len \in Nat
      /\ \A j, k \in 1..len : s[j] = s[k] => j = k
      /\ singleSum = SumOf(Picked)
      /\ Top(Picked, visited)
  BY DEF PickedInv
<1>2. \A k \in 1..len : s[k] \in 1..visited
  BY <1>1
<1>3. /\ chosenUTXOs' = Append(s, n) /\ Len(Append(s, n)) <= request.maxInputs
      /\ singleSum' = Plus(SumOf(Picked), n)
  BY <1>1, SameRequest DEF Single!Grow, Single!All, Single!AllSum
<1>4. /\ Append(s, n) \in Seq(1..n) /\ Len(Append(s, n)) = len + 1
      /\ \A k \in 1..len : Append(s, n)[k] = s[k]
      /\ Append(s, n)[len + 1] = n
  <2>1. s \in Seq(1..n) /\ n \in 1..n
    BY <1>1, <1>2
  <2> QED
    BY <2>1
<1>5. n \notin 1..visited /\ (1..visited) \cup {n} = 1..n
  BY <1>1
<1> HIDE DEF n, s, len
<1>6. /\ 1..(len + 1) = (1..len) \cup {len + 1} /\ len + 1 \notin 1..len
      /\ Len(chosenUTXOs') = len + 1
  BY <1>1, <1>3, <1>4
<1>7. \A j, k \in 1 .. Len(chosenUTXOs') : chosenUTXOs'[j] = chosenUTXOs'[k] => j = k
  BY <1>1, <1>2, <1>3, <1>4, <1>5, <1>6
<1>8. Picked' = Picked \cup {n}
  <2>1. Picked' = {chosenUTXOs'[k] : k \in (1..len) \cup {len + 1}}
    BY <1>6 DEF Picked
  <2>2. Picked = {s[k] : k \in 1..len}
    BY DEF Picked, s, len
  <2> QED
    BY <1>3, <1>4, <2>1, <2>2
<1>9. Cardinality(Picked) = len /\ IsFiniteSet(Picked) /\ Picked \subseteq 1..visited
  BY PickedFacts DEF s, len
<1>10. Picked = 1..visited
  <2>1. len < request.maxInputs /\ request.maxInputs \in Nat
    BY <1>1, <1>3, <1>4, RequestType
  <2>2. Cardinality(Picked) # request.maxInputs
    BY <1>1, <1>9, <2>1
  <2> QED
    BY <1>1, <2>2 DEF Top
<1>11. Picked \cup {n} = 1..n
  BY <1>5, <1>10
<1>12. Cardinality(Picked \cup {n}) = len + 1
  <2>1. n \notin Picked
    BY <1>5, <1>9
  <2> QED
    BY <1>9, <2>1, FS_AddElement
<1>13. BestOf(1..n, n)
  BY DEF BestOf
<1>14. Top(Picked \cup {n}, n)
  BY <1>3, <1>4, <1>11, <1>12, <1>13 DEF Top
<1> QED
  BY <1>3, <1>4, <1>7, <1>8, <1>14 DEF n

\* An iteration at the limit: the smallest output leaves the list, whether it
\* is one of the chosen or the one that was just added.
LEMMA PickedDisplace ==
  ASSUME request \in Requests, PickedInv, visited < Cardinality(Utxos), Single!Displace
  PROVE  /\ chosenUTXOs' \in Seq(1 .. (visited + 1))
         /\ \A j, k \in 1 .. Len(chosenUTXOs') : chosenUTXOs'[j] = chosenUTXOs'[k] => j = k
         /\ \E u \in Picked \cup {visited + 1} :
              /\ Picked' = (Picked \cup {visited + 1}) \ {u}
              /\ Top((Picked \cup {visited + 1}) \ {u}, visited + 1)
              /\ singleSum' = Minus(Plus(SumOf(Picked), visited + 1), u)
<1> DEFINE n == visited + 1
           s == chosenUTXOs
           len == Len(s)
           all == Append(s, n)
           tok == Single!TokenName
<1>1. /\ visited \in Nat /\ s \in Seq(1..visited) /\ len \in Nat
      /\ \A j, k \in 1..len : s[j] = s[k] => j = k
      /\ singleSum = SumOf(Picked) /\ OneCondition
      /\ Top(Picked, visited)
  BY DEF PickedInv
<1>2. \A k \in 1..len : s[k] \in 1..visited
  BY <1>1
<1>3. /\ all \in Seq(1..n) /\ Len(all) = len + 1
      /\ \A k \in 1..len : all[k] = s[k]
      /\ all[len + 1] = n
  <2>1. s \in Seq(1..n) /\ n \in 1..n
    BY <1>1, <1>2
  <2> QED
    BY <2>1
<1>4. n \notin 1..visited /\ (1..visited) \cup {n} = 1..n
  BY <1>1
<1> DEFINE k == Single!FindMinUtxo(all)
           put == [all EXCEPT ![k] = all[len + 1]]
<1>5. /\ Len(all) > request.maxInputs
      /\ chosenUTXOs' = SubSeq(put, 1, Len(put) - 1)
      /\ singleSum' = Minus(Plus(SumOf(Picked), n), all[k])
  BY <1>1, <1>3, SameRequest DEF Single!Displace, Single!All, Single!AllSum, Single!Front, Single!Last
<1>6. Cardinality(Picked) = len /\ IsFiniteSet(Picked) /\ Picked \subseteq 1..visited
  BY PickedFacts
<1>7. len = request.maxInputs /\ request.maxInputs \in Nat /\ request.maxInputs > 0
  <2>1. len <= request.maxInputs
    BY <1>1, <1>6 DEF Top
  <2> HIDE DEF n
  <2> QED
    BY <1>1, <1>3, <1>5, <2>1, RequestType
<1>8. Utxos = 1 .. Cardinality(Utxos) /\ Cardinality(Utxos) \in Nat
  <2>1. PICK m \in Nat : Utxos = 1..m
    BY Positions
  <2> QED
    BY <2>1, FS_Interval
<1>9. 1..n \subseteq Utxos
  BY <1>1, <1>8
<1>10. /\ tok \in Token
       /\ \A t \in Token : request.conditions[t] > 0 => t = tok
  BY <1>1, TokenNameIs
<1> HIDE DEF n, s, len, all, tok
<1>11. /\ 1..(len + 1) = (1..len) \cup {len + 1} /\ len + 1 \notin 1..len
       /\ DOMAIN all = 1..(len + 1) /\ len + 1 \in Nat /\ len + 1 > 0
       /\ all \in [1..(len + 1) -> 1..n]
  <2>1. all \in [1..Len(all) -> 1..n]
    BY <1>3, LenProperties
  <2> QED
    BY <1>1, <1>3, <2>1
<1>12. \A j \in 1..(len + 1) : all[j] \in Utxos /\ request.amount[all[j]][tok] \in Nat
  BY <1>9, <1>10, <1>11, RequestType
<1>13. /\ k \in 1..(len + 1)
       /\ \A m \in 1..(len + 1) : request.amount[all[k]][tok] <= request.amount[all[m]][tok]
  BY <1>11, <1>12, MinAmountIndex DEF tok
<1> HIDE DEF k
<1>14. /\ put \in [1..(len + 1) -> 1..n] /\ put \in Seq(1..n) /\ Len(put) = len + 1
       /\ \A j \in 1..(len + 1) : put[j] = IF j = k THEN all[len + 1] ELSE all[j]
  <2>1. k \in 1 .. Len(all) /\ all[len + 1] \in 1..n
    BY <1>3, <1>11, <1>13
  <2> QED
    BY <1>3, <1>11, <2>1, ExceptSeq, LenProperties
<1>15. /\ chosenUTXOs' \in Seq(1..n) /\ Len(chosenUTXOs') = len
       /\ \A j \in 1..len : chosenUTXOs'[j] = IF j = k THEN all[len + 1] ELSE all[j]
  <2>1. chosenUTXOs' = SubSeq(put, 1, len)
    BY <1>1, <1>5, <1>14
  <2>2. \A j \in 1..len : j \in 1..(len + 1)
    BY <1>11
  <2>3. /\ chosenUTXOs' \in Seq(1..n) /\ Len(chosenUTXOs') = len
        /\ \A j \in 1..len : chosenUTXOs'[j] = put[j]
    <3>1. 1 \in Int /\ len \in Int /\ \A j \in 1..len : put[j] \in 1..n
      BY <1>1, <1>14, <2>2
    <3>2. /\ SubSeq(put, 1, len) \in Seq(1..n)
          /\ Len(SubSeq(put, 1, len)) = IF 1 <= len THEN len - 1 + 1 ELSE 0
          /\ \A j \in 1 .. len - 1 + 1 : SubSeq(put, 1, len)[j] = put[1 + j - 1]
      BY <3>1, SubSeqProperties
    <3>3. len - 1 + 1 = len /\ \A j \in 1..len : 1 + j - 1 = j
      BY <1>1
    <3> QED
      BY <1>1, <2>1, <3>2, <3>3
  <2> QED
    BY <1>14, <2>2, <2>3
<1>16. \A a, b \in 1..(len + 1) : all[a] = all[b] => a = b
  BY <1>1, <1>2, <1>3, <1>4, <1>11
<1>17. \A a, b \in 1 .. Len(chosenUTXOs') : chosenUTXOs'[a] = chosenUTXOs'[b] => a = b
  BY <1>11, <1>15, <1>16
<1> DEFINE before == Picked \cup {n}
           u == all[k]
<1>18. before = {all[j] : j \in 1..(len + 1)}
  <2>1. Picked = {s[j] : j \in 1..len}
    BY DEF Picked, s, len
  <2>2. {all[j] : j \in 1..(len + 1)} = {all[j] : j \in 1..len} \cup {all[len + 1]}
    BY <1>11
  <2>3. {all[j] : j \in 1..len} = {s[j] : j \in 1..len}
    BY <1>3
  <2> QED
    BY <1>3, <2>1, <2>2, <2>3
<1>19. u \in before /\ \A v \in before : request.amount[u][tok] <= request.amount[v][tok]
  BY <1>13, <1>18
<1>20. Picked' = before \ {u}
  <2>1. Picked' = {chosenUTXOs'[j] : j \in 1..len}
    BY <1>15 DEF Picked
  <2>2. ASSUME NEW j \in 1..len PROVE chosenUTXOs'[j] \in before \ {u}
    <3>1. j \in 1..(len + 1) /\ j # len + 1 /\ len + 1 \in 1..(len + 1)
      BY <1>1
    <3> QED
      BY <1>13, <1>15, <1>16, <1>18, <3>1
  <2>3. ASSUME NEW v \in before \ {u} PROVE \E j \in 1..len : chosenUTXOs'[j] = v
    <3>1. PICK j \in 1..(len + 1) : v = all[j]
      BY <1>18
    <3>2. j # k
      BY <2>3, <3>1
    <3>3. CASE j = len + 1
      <4>1. k \in 1..len /\ chosenUTXOs'[k] = v
        BY <1>11, <1>13, <1>15, <3>1, <3>2, <3>3
      <4> QED
        BY <4>1
    <3>4. CASE j # len + 1
      <4>1. j \in 1..len /\ chosenUTXOs'[j] = v
        BY <1>11, <1>15, <3>1, <3>2, <3>4
      <4> QED
        BY <4>1
    <3> QED
      BY <3>3, <3>4
  <2> HIDE DEF before, u
  <2> QED
    BY <2>1, <2>2, <2>3
<1>21. Top(before \ {u}, n)
  <2>1. BestOf(Picked, visited) /\ Picked \in SUBSET (1..visited)
    BY <1>1, <1>6 DEF Top
  <2>2. BestOf(before \ {u}, n)
    BY <1>1, <1>9, <1>10, <1>19, <2>1, BestDrop DEF n
  <2>3. before \ {u} \subseteq 1..n
    BY <1>4, <1>6
  <2>4. Cardinality(before \ {u}) = request.maxInputs
    <3>1. n \notin Picked
      BY <1>4, <1>6
    <3>2. IsFiniteSet(before) /\ Cardinality(before) = len + 1
      BY <1>6, <3>1, FS_AddElement
    <3>3. Cardinality(before \ {u}) = Cardinality(before) - 1
      BY <1>19, <3>2, FS_RemoveElement
    <3> QED
      BY <1>1, <1>7, <3>2, <3>3
  <2> HIDE DEF before, u
  <2> QED
    BY <1>7, <2>2, <2>3, <2>4 DEF Top
<1>22. singleSum' = Minus(Plus(SumOf(Picked), n), u)
  BY <1>5
<1> HIDE DEF u
<1> QED
  BY <1>15, <1>17, <1>19, <1>20, <1>21, <1>22 DEF n

\* What the invariant says after a step that leaves the request alone.
LEMMA PickedFrame ==
  ASSUME request' = request, NEW H, Picked' = H, NEW n, visited' = n
  PROVE  PickedInv' <=>
           /\ OneCondition
           /\ request.tryAtLeast = 0
           /\ n \in 0 .. Cardinality(Utxos)
           /\ chosenUTXOs' \in Seq(1..n)
           /\ \A j, k \in 1 .. Len(chosenUTXOs') : chosenUTXOs'[j] = chosenUTXOs'[k] => j = k
           /\ Top(H, n)
           /\ singleSum' = SumOf(H)
           /\ FitsWord => \A S \in SUBSET (1..n) : ~Funds(S)
<1>1. /\ Utxos' = Utxos /\ OneCondition' = OneCondition /\ FitsWord' = FitsWord
      /\ \A S : Funds(S)' = Funds(S)
  BY RequestFrame
<1>2. SumOf(Picked)' = SumOf(H)
  BY DEF SumOf, Holds, MapThenSumSet, MapThenFoldSet
<1>3. Top(Picked, visited)' <=> Top(H, n)
  BY DEF Top, BestOf
<1>4. PickedInv' <=>
        /\ OneCondition'
        /\ request'.tryAtLeast = 0
        /\ visited' \in 0 .. Cardinality(Utxos')
        /\ chosenUTXOs' \in Seq(1..visited')
        /\ \A j, k \in 1 .. Len(chosenUTXOs') : chosenUTXOs'[j] = chosenUTXOs'[k] => j = k
        /\ Top(Picked, visited)'
        /\ singleSum' = SumOf(Picked)'
        /\ FitsWord' => \A S \in SUBSET (1..visited') : ~Funds(S)'
  BY DEF PickedInv
<1> QED
  BY <1>1, <1>2, <1>3, <1>4

\* What every iteration leaves chosen.
LEMMA PickedVisit ==
  ASSUME request \in Requests, PickedInv, visited < Cardinality(Utxos),
         Single!Grow \/ Single!Displace
  PROVE  /\ visited \in Nat /\ 1..(visited + 1) \subseteq Utxos
         /\ chosenUTXOs' \in Seq(1 .. (visited + 1))
         /\ \A j, k \in 1 .. Len(chosenUTXOs') : chosenUTXOs'[j] = chosenUTXOs'[k] => j = k
         /\ \E H \in (SUBSET Utxos) \ {{}} :
              Picked' = H /\ Top(H, visited + 1) /\ singleSum' = SumOf(H)
<1> DEFINE n == visited + 1
<1>1. PICK all \in Nat : Utxos = 1..all /\ Cardinality(Utxos) = all
  <2>1. PICK m \in Nat : Utxos = 1..m
    BY Positions
  <2> QED
    BY <2>1, FS_Interval
<1>2. visited \in Nat /\ visited \in 0..all /\ visited < all
  BY <1>1 DEF PickedInv
<1>3. Picked \subseteq 1..visited
  BY PickedFacts
<1>4. n \in Utxos \ Picked /\ Picked \in SUBSET Utxos /\ 1..n \subseteq Utxos
  BY <1>1, <1>2, <1>3
<1> HIDE DEF n
<1> DEFINE before == Picked \cup {n}
<1>5. Plus(SumOf(Picked), n) = SumOf(before) /\ before \in SUBSET Utxos /\ before # {}
  BY <1>4, PlusAdds
<1>6. CASE Single!Grow
  <2>1. /\ chosenUTXOs' \in Seq(1 .. n)
        /\ \A j, k \in 1 .. Len(chosenUTXOs') : chosenUTXOs'[j] = chosenUTXOs'[k] => j = k
        /\ Picked' = before /\ Top(before, n) /\ singleSum' = Plus(SumOf(Picked), n)
    BY <1>6, PickedGrow DEF n
  <2> HIDE DEF before
  <2>2. before \in (SUBSET Utxos) \ {{}} /\ singleSum' = SumOf(before)
    BY <1>5, <2>1
  <2> QED
    BY <1>2, <1>4, <2>1, <2>2 DEF n
<1>7. CASE Single!Displace
  <2>1. /\ chosenUTXOs' \in Seq(1 .. n)
        /\ \A j, k \in 1 .. Len(chosenUTXOs') : chosenUTXOs'[j] = chosenUTXOs'[k] => j = k
    BY <1>7, PickedDisplace DEF n
  <2>2. PICK u \in before : /\ Picked' = before \ {u} /\ Top(before \ {u}, n)
                            /\ singleSum' = Minus(Plus(SumOf(Picked), n), u)
    BY <1>7, PickedDisplace DEF n
  <2> HIDE DEF before
  <2> DEFINE H == before \ {u}
  <2>3. singleSum' = SumOf(H)
    BY <1>5, <2>2, MinusTakes
  <2>4. H # {}
    <3>1. H = 1..n \/ Cardinality(H) = request.maxInputs
      BY <2>2 DEF Top
    <3>2. 1..n # {}
      BY <1>2 DEF n
    <3>3. Cardinality({}) = 0 /\ request.maxInputs > 0 /\ request.maxInputs \in Nat
      BY FS_EmptySet, RequestType
    <3> QED
      BY <3>1, <3>2, <3>3
  <2>5. H \in (SUBSET Utxos) \ {{}} /\ Picked' = H /\ Top(H, n)
    BY <1>5, <2>2, <2>4
  <2> HIDE DEF H
  <2> QED
    BY <1>2, <1>4, <2>1, <2>3, <2>5 DEF n
<1> QED
  BY <1>6, <1>7

\* A sum that reaches the amount of the condition satisfies the request.
LEMMA SatisfiesByToken ==
  ASSUME request \in Requests, OneCondition, NEW S \in SUBSET Utxos
  PROVE  Satisfies(SumOf(S)) <=> SumOf(S)[Single!TokenName] >= Single!DesiredSum
<1>1. /\ Single!TokenName \in Token
      /\ Single!DesiredSum = request.conditions[Single!TokenName]
      /\ \A t \in Token : request.conditions[t] > 0 => t = Single!TokenName
  BY TokenNameIs
<1>2. \A t \in Token : SumOf(S)[t] \in Nat /\ request.conditions[t] \in Nat
  BY SumBelowHolds, RequestType
<1>3. \A t \in Token : t # Single!TokenName => SumOf(S)[t] >= request.conditions[t]
  BY <1>1, <1>2
<1> QED
  BY <1>1, <1>3 DEF Satisfies

\* An answer with inputs is one that the contract allows.
LEMMA EnoughSelects ==
  ASSUME request \in Requests, PickedInv, answer = Pending, Single!Enough
  PROVE  \E S \in SUBSET Utxos : Select(S)
<1>1. /\ visited < Cardinality(Utxos) /\ (Single!Grow \/ Single!Displace)
      /\ singleSum'[Single!TokenName] >= Single!DesiredSum
      /\ answer' = [kind |-> "selected", inputs |-> Single!ToSet(chosenUTXOs'), sum |-> singleSum']
  BY SameRequest DEF Single!Enough, Single!Visit
<1>2. PICK H \in (SUBSET Utxos) \ {{}} : Picked' = H /\ Top(H, visited + 1) /\ singleSum' = SumOf(H)
  BY <1>1, PickedVisit
<1>3. OneCondition /\ request.tryAtLeast = 0
  BY DEF PickedInv
<1>4. Single!ToSet(chosenUTXOs') = H
  <2>1. DOMAIN chosenUTXOs' = 1 .. Len(chosenUTXOs')
    BY <1>1, PickedVisit, LenProperties
  <2> QED
    BY <1>2, <2>1 DEF Single!ToSet, Picked
<1>5. Satisfies(SumOf(H))
  BY <1>1, <1>2, <1>3, SatisfiesByToken
<1>6. ASSUME NEW t \in Token PROVE Holds(H, t) >= request.conditions[t]
  <2>1. SumOf(H)[t] >= request.conditions[t]
    BY <1>5 DEF Satisfies
  <2>2. SumOf(H)[t] \in Nat /\ SumOf(H)[t] <= Holds(H, t) /\ Holds(H, t) \in Nat /\ request.conditions[t] \in Nat
    BY SumBelowHolds, HoldsFacts, RequestType
  <2> QED
    BY <2>1, <2>2
<1>7. Funds(H)
  BY <1>2, <1>6 DEF Funds, Top
<1>8. Cardinality(H) >= Min({request.tryAtLeast, request.maxInputs, Cardinality(Utxos)})
  <2> DEFINE R == {request.tryAtLeast, request.maxInputs, Cardinality(Utxos)}
  <2>1. Cardinality(H) \in Nat /\ Cardinality(Utxos) \in Nat /\ request.maxInputs \in Nat
    <3>1. IsFiniteSet(Utxos) /\ IsFiniteSet(H)
      BY RequestType, FS_Subset
    <3> QED
      BY <3>1, RequestType, FS_CardinalityType
  <2>2. \E x \in R : \A y \in R : x <= y
    BY <1>3, <2>1
  <2>3. Min(R) \in R /\ \A y \in R : Min(R) <= y
    BY <2>2 DEF Min
  <2>4. Min(R) <= 0 /\ Min(R) \in Nat
    BY <1>3, <2>1, <2>3
  <2> HIDE DEF R
  <2>5. Cardinality(H) >= Min(R)
    BY <2>1, <2>4
  <2> QED
    BY <2>5 DEF R
<1>9. Select(H)
  BY <1>1, <1>2, <1>4, <1>7, <1>8 DEF Select
<1> QED
  BY <1>9

\* An iteration that goes on keeps the invariant.
LEMMA NotEnoughPicked ==
  ASSUME request \in Requests, PickedInv, answer = Pending, Single!NotEnough
  PROVE  PickedInv'
<1> DEFINE n == visited + 1
<1>1. /\ visited < Cardinality(Utxos) /\ (Single!Grow \/ Single!Displace)
      /\ singleSum'[Single!TokenName] < Single!DesiredSum
      /\ visited' = n /\ request' = request
  BY SameRequest DEF Single!NotEnough, Single!Visit
<1>2. PICK H \in (SUBSET Utxos) \ {{}} : Picked' = H /\ Top(H, n) /\ singleSum' = SumOf(H)
  BY <1>1, PickedVisit
<1>3. /\ visited \in Nat /\ 1..n \subseteq Utxos /\ chosenUTXOs' \in Seq(1..n)
      /\ \A j, k \in 1 .. Len(chosenUTXOs') : chosenUTXOs'[j] = chosenUTXOs'[k] => j = k
  BY <1>1, PickedVisit
<1>4. OneCondition /\ request.tryAtLeast = 0
  BY DEF PickedInv
<1>5. n \in 0 .. Cardinality(Utxos) /\ n \in Nat
  <2>1. Cardinality(Utxos) \in Nat
    BY RequestType, FS_CardinalityType
  <2> QED
    BY <1>1, <1>3, <2>1
<1> HIDE DEF n
<1>6. FitsWord => \A S \in SUBSET (1..n) : ~Funds(S)
  <2>1. SumOf(H)[Single!TokenName] < request.conditions[Single!TokenName] /\ Single!TokenName \in Token
    BY <1>1, <1>2, <1>4, TokenNameIs
  <2> QED
    BY <1>2, <1>3, <1>4, <1>5, <2>1, TopIsNotEnough
<1> QED
  BY <1>1, <1>2, <1>3, <1>4, <1>5, <1>6, PickedFrame

\* The errors are those that the contract allows.
LEMMA SingleErrors ==
  ASSUME request \in Requests, PickedInv, answer = Pending,
         Single!ErrLimitReached \/ Single!ErrNotEnoughFunds
  PROVE  LimitReached \/ CouldNotSelect
<1>1. visited = Cardinality(Utxos)
  BY SameRequest DEF Single!ErrLimitReached, Single!ErrNotEnoughFunds, Single!GiveUp
<1>2. PICK all \in Nat : Utxos = 1..all
  BY Positions
<1>3. 1..visited = Utxos
  BY <1>1, <1>2, FS_Interval
<1>4. Impossible /\ OneCondition
  BY <1>3 DEF PickedInv, Impossible
<1>5. Satisfies(SumOf(Utxos)) <=> SumOf(Utxos)[Single!TokenName] >= Single!DesiredSum
  BY <1>4, SatisfiesByToken
<1>6. SumOf(Utxos)[Single!TokenName] \in Nat /\ Single!DesiredSum \in Nat
  BY <1>4, TokenNameIs, SumBelowHolds, RequestType
<1>7. CASE Single!ErrLimitReached
  BY <1>4, <1>5, <1>7, SameRequest DEF Single!ErrLimitReached, Single!GiveUp, LimitReached
<1>8. CASE Single!ErrNotEnoughFunds
  <2>1. ~Satisfies(SumOf(Utxos))
    BY <1>5, <1>6, <1>8, SameRequest DEF Single!ErrNotEnoughFunds
  <2> QED
    BY <1>4, <1>8, <2>1 DEF Single!ErrNotEnoughFunds, Single!GiveUp, CouldNotSelect
<1> QED
  BY <1>7, <1>8

\* A call of either selection starts with both invariants.
LEMMA CalledInv == Called => FullInv /\ SingleInv
<1> SUFFICES ASSUME Called PROVE FullInv /\ SingleInv
  OBVIOUS
<1>1. FullInv /\ Start
  BY FullInvInit DEF Called
<1>2. request \in Requests
  BY <1>1 DEF FullInv, Inv
<1>3. ASSUME algorithm = "GetUTXOsForAmount" PROVE PickedInv
  <2>1. /\ OneCondition /\ request.tryAtLeast = 0 /\ visited = 0 /\ chosenUTXOs = << >>
        /\ singleSum = [t \in Token |-> 0]
    BY <1>3, SameRequest DEF Called, Single!Start
  <2>2. Picked = {} /\ 1..visited = {}
    BY <2>1 DEF Picked
  <2>3. SumOf({}) = singleSum
    <3>1. \A t \in Token : Holds({}, t) = 0
      BY <1>2, HoldsFacts
    <3>2. 0 % Word = 0
      BY <1>2, RequestType
    <3> QED
      BY <2>1, <3>1, <3>2 DEF SumOf
  <2>4. Top(Picked, visited)
    <3>1. Cardinality({}) = 0 /\ request.maxInputs \in Nat
      BY <1>2, FS_EmptySet, RequestType
    <3> QED
      BY <2>2, <3>1 DEF Top, BestOf
  <2>5. visited \in 0 .. Cardinality(Utxos)
    <3>1. Cardinality(Utxos) \in Nat
      BY <1>2, RequestType, FS_CardinalityType
    <3> QED
      BY <2>1, <3>1
  <2>6. chosenUTXOs \in Seq(1..visited) /\ Len(chosenUTXOs) = 0
    BY <2>1
  <2>7. \A S \in SUBSET (1..visited) : ~Funds(S)
    BY <2>2 DEF Funds
  <2> QED
    BY <2>1, <2>2, <2>3, <2>4, <2>5, <2>6, <2>7 DEF PickedInv
<1> QED
  BY <1>1, <1>2, <1>3 DEF SingleInv

\* A step of either selection, or none.
SelectionsStep == [GetUTXOsForAmounts \/ GetUTXOsForAmount]_<<allVars, algorithm, singleVars>>

\* A step of GetUTXOsForAmount.
LEMMA SingleStep ==
  ASSUME FullInv, SingleInv, GetUTXOsForAmount
  PROVE  FullInv' /\ SingleInv' /\ [Next]_vars
<1>1. /\ algorithm = "GetUTXOsForAmount" /\ Single!Step
      /\ UNCHANGED <<algorithm, amountsVars>>
  BY DEF GetUTXOsForAmount
<1>2. answer = Pending /\ request' = request
  BY <1>1, SameRequest DEF Single!Step, Single!Enough, Single!NotEnough, Single!Visit,
     Single!ErrLimitReached, Single!ErrNotEnoughFunds, Single!GiveUp
<1>3. request \in Requests /\ PickedInv
  BY <1>1, <1>2 DEF SingleInv
<1>4. CASE Single!NotEnough
  <2>1. answer' = answer /\ PickedInv'
    BY <1>2, <1>3, <1>4, NotEnoughPicked DEF Single!NotEnough
  <2>2. FullInv'
    BY <1>1, <1>2, <2>1, AmountsFrame
  <2> QED
    BY <1>2, <1>3, <2>1, <2>2 DEF SingleInv, vars, Requests, Lists
<1>5. CASE Single!Enough
  <2>1. \E S \in SUBSET Utxos : Select(S)
    BY <1>2, <1>3, <1>5, EnoughSelects
  <2>2. answer' # Pending
    BY <1>5 DEF Single!Enough, Pending
  <2>3. FullInv'
    BY <1>1, <1>2, <2>2, AmountsFrame
  <2>4. SingleInv'
    BY <2>2, <2>3 DEF SingleInv, Pending, FullInv, Inv
  <2> QED
    BY <1>2, <2>1, <2>3, <2>4 DEF Next
<1>6. CASE Single!ErrLimitReached \/ Single!ErrNotEnoughFunds
  <2>1. LimitReached \/ CouldNotSelect
    BY <1>2, <1>3, <1>6, SingleErrors
  <2>2. answer' # Pending
    BY <2>1 DEF LimitReached, CouldNotSelect, Pending
  <2>3. FullInv'
    BY <1>1, <1>2, <2>2, AmountsFrame
  <2>4. SingleInv'
    BY <2>2, <2>3 DEF SingleInv, Pending, FullInv, Inv
  <2> QED
    BY <1>2, <2>1, <2>3, <2>4 DEF Next
<1> QED
  BY <1>1, <1>4, <1>5, <1>6 DEF Single!Step

\* Every step keeps both invariants and is one of the contract.
LEMMA SelectionsInvStep ==
  ASSUME FullInv, SingleInv, SelectionsStep
  PROVE  FullInv' /\ SingleInv' /\ [Next]_vars
<1>1. CASE GetUTXOsForAmounts
  <2>1. FullInv' /\ [Next]_vars /\ algorithm' = algorithm /\ algorithm = "GetUTXOsForAmounts"
    BY <1>1, FullInvStep, StepIsNext DEF GetUTXOsForAmounts
  <2>2. SingleInv'
    BY <2>1 DEF SingleInv, FullInv, Inv
  <2> QED
    BY <2>1, <2>2
<1>2. CASE GetUTXOsForAmount
  BY <1>2, SingleStep
<1>3. CASE UNCHANGED <<allVars, algorithm, singleVars>>
  <2>1. /\ request' = request /\ answer' = answer /\ algorithm' = algorithm
        /\ visited' = visited /\ chosenUTXOs' = chosenUTXOs /\ singleSum' = singleSum
        /\ UNCHANGED amountsVars
    BY <1>3 DEF allVars, vars, amountsVars, singleVars
  <2>2. FullInv'
    BY <2>1, AmountsFrame
  <2>3. PickedInv' <=> PickedInv
    <3>1. Picked' = Picked
      BY <2>1 DEF Picked
    <3> QED
      BY <2>1, <3>1, PickedFrame DEF PickedInv
  <2>4. SingleInv'
    BY <2>1, <2>2, <2>3 DEF SingleInv, Pending, FullInv, Inv
  <2> QED
    BY <2>1, <2>2, <2>4 DEF vars
<1> QED
  BY <1>1, <1>2, <1>3 DEF SelectionsStep

\* Whichever of the two selections answers a request, it implements
\* InputSelection and loses no output of the list of its caller: for every
\* list, every number of tokens, every limit, tryAtLeastInputs and width of a
\* word, sums that wrap around included.
THEOREM SelectionsCorrect ==
  SelectionsSpec => []ListKeepsAll /\ ImplementsInputSelection
<1>1. Called => FullInv /\ SingleInv /\ Init
  BY CalledInv DEF Called, Start
<1>2. FullInv /\ SingleInv /\ SelectionsStep => (FullInv /\ SingleInv)'
  BY SelectionsInvStep
<1>3. FullInv /\ SingleInv /\ SelectionsStep => [Next]_vars
  BY SelectionsInvStep
<1>4. FullInv => ListKeepsAll
  BY DEF FullInv, Inv
<1> QED
  BY <1>1, <1>2, <1>3, <1>4, PTL
     DEF SelectionsSpec, SelectionsStep, ImplementsInputSelection, Spec
=============================================================================
